---------------------- MODULE RestCacheRefinement_proofs ----------------------
(***************************************************************************)
(* RestCache implements LeaseCache, whatever the numbers of keys, requests *)
(* and writes and the size of the purge log, in every behaviour in which   *)
(* the provider loses no delete.                                           *)
(***************************************************************************)
EXTENDS RestCacheRefinement, RestCache_proofs

\* The variables of LeaseCache that the refinement mapping computes.
leases == [r \in Requests |-> Lease(r)]
ons == [r \in Requests |-> LeasedKey(r)]
values == [r \in Requests |-> LeasedValue(r)]

\* What a request holds before and after its lease, that a purge in progress
\* stems from a write or matches a scope, and that versions are clock values.
LeaseInv ==
    /\ \A r \in Requests :
        /\ pc[r] \notin {"read", "storing", "cleaning", "done"} => body[r] = None
        /\ pc[r] # "cleaning" <=> uncleaned[r] = {}
    /\ \A w \in Writers : wpc[w] = "committed" => scope[w] \in Scopes
    /\ \A k \in Keys : db[k] <= clock

AllInv == TypeInv /\ LeaseInv

\* The state of a lease, one control point at a time.
LeaseShape ==
    \A r \in Requests :
        /\ pc[r] \in {"origin", "read"} =>
               leases[r] = IF Told(r, key[r]) THEN "revoked" ELSE "valid"
        /\ pc[r] = "storing" =>
               leases[r] = IF Told(r, key[r]) THEN "spoiled" ELSE "filling"
        /\ pc[r] = "cleaning" => leases[r] = "retracting"
        /\ pc[r] \notin {"origin", "read", "storing", "cleaning"} => leases[r] = "none"

LEMMA LeaseCases == LeaseShape
<1> SUFFICES ASSUME NEW r \in Requests
             PROVE  /\ pc[r] \in {"origin", "read"} =>
                           Lease(r) = IF Told(r, key[r]) THEN "revoked" ELSE "valid"
                    /\ pc[r] = "storing" =>
                           Lease(r) = IF Told(r, key[r]) THEN "spoiled" ELSE "filling"
                    /\ pc[r] = "cleaning" => Lease(r) = "retracting"
                    /\ pc[r] \notin {"origin", "read", "storing", "cleaning"} =>
                           Lease(r) = "none"
  BY DEF LeaseShape, leases
<1>1. ASSUME pc[r] \in {"origin", "read"}
      PROVE  Lease(r) = IF Told(r, key[r]) THEN "revoked" ELSE "valid"
  BY <1>1, Zenon DEF Lease, Told
<1>2. ASSUME pc[r] = "storing" PROVE Lease(r) = IF Told(r, key[r]) THEN "spoiled" ELSE "filling"
  BY <1>2, Zenon DEF Lease, Told
<1>3. ASSUME pc[r] = "cleaning" PROVE Lease(r) = "retracting"
  BY <1>3, Zenon DEF Lease
<1>4. ASSUME pc[r] \notin {"origin", "read", "storing", "cleaning"} PROVE Lease(r) = "none"
  BY <1>4, Zenon DEF Lease
<1> QED  BY <1>1, <1>2, <1>3, <1>4

LEMMA LeaseCasesNext == LeaseShape'
BY LeaseCases, PTL

LEMMA RevokedCases ==
    /\ Leases!Revoked("none") = "none"
    /\ Leases!Revoked("valid") = "revoked"
    /\ Leases!Revoked("revoked") = "revoked"
    /\ Leases!Revoked("filling") = "spoiled"
    /\ Leases!Revoked("spoiled") = "spoiled"
    /\ Leases!Revoked("retracting") = "retracting"
BY Zenon DEF Leases!Revoked

-----------------------------------------------------------------------------
(* LeaseInv is inductive.                                                   *)
LEMMA LeaseInvRequest ==
    ASSUME AllInv, NEW r \in Requests, Request(r)
    PROVE  LeaseInv'
<1> DEFINE Fields ==
        \A q \in Requests :
            /\ pc[q] \notin {"read", "storing", "cleaning", "done"} => body[q] = None
            /\ pc[q] # "cleaning" <=> uncleaned[q] = {}
<1> SUFFICES Fields'
  <2>1. UNCHANGED <<wpc, scope, db, clock>>
    BY DEF Request, Step, Arrive, Hitpass, ReadEtag, ReadEntry, Hit, Join, Lead,
       ServeShared, OriginRead, HitpassReturn, Throws, Refused, ReturnRaced, ReturnStoring,
       Land, Recheck, Clean, CleanLost, Depart, contentVars, writerVars
  <2> QED  BY <2>1 DEF AllInv, LeaseInv
<1> USE DEF AllInv, TypeInv, TypeOK, LeaseInv, contentVars, lookupVars, readVars
<1>1. ASSUME NEW k \in Keys, NEW tag \in Tags, Arrive(r, k, tag) PROVE Fields'
  BY <1>1 DEF Arrive
<1>2. ASSUME NEW k \in Keys, Hitpass(r, k) PROVE Fields'
  BY <1>2 DEF Hitpass, StartRead
<1>3. ASSUME NEW answered \in BOOLEAN, ReadEtag(r, answered) PROVE Fields'
  BY <1>3 DEF ReadEtag, Respond
<1>4. ASSUME NEW answered \in BOOLEAN, ReadEntry(r, answered) PROVE Fields'
  BY <1>4 DEF ReadEntry
<1>5. CASE Hit(r)
  BY <1>5 DEF Hit, Respond
<1>6. CASE Join(r)
  BY <1>6 DEF Join
<1>7. CASE Lead(r)
  BY <1>7 DEF Lead, StartRead
<1>8. CASE ServeShared(r)
  BY <1>8 DEF ServeShared, Respond
<1>9. CASE OriginRead(r)
  BY <1>9 DEF OriginRead
<1>10. CASE HitpassReturn(r)
  BY <1>10 DEF HitpassReturn, Respond
<1>11. CASE Throws(r)
  BY <1>11 DEF Throws, Settle
<1>12. CASE Refused(r)
  BY <1>12 DEF Refused, Settle
<1>13. CASE ReturnRaced(r)
  BY <1>13 DEF ReturnRaced, Settle
<1>14. CASE ReturnStoring(r)
  BY <1>14 DEF ReturnStoring, Settle
<1>15. ASSUME NEW e \in Entries, NEW stored \in BOOLEAN, Land(r, e, stored) PROVE Fields'
  BY <1>15 DEF Land
<1>16. CASE Recheck(r)
  <2>1. <<key[r], "body">> \in Unstorable(r)
    BY DEF Unstorable, EntriesOf, Parts
  <2> HIDE DEF Unstorable
  <2> QED  BY <1>16, <2>1 DEF Recheck
<1>17. ASSUME NEW e \in Entries, Clean(r, e) PROVE Fields'
  BY <1>17 DEF Clean
<1>18. CASE CleanLost(r)
  BY <1>18 DEF CleanLost
<1>19. CASE Depart(r)
  BY <1>19 DEF Depart
<1> QED  BY <1>1, <1>2, <1>3, <1>4, <1>5, <1>6, <1>7, <1>8, <1>9, <1>10, <1>11, <1>12,
            <1>13, <1>14, <1>15, <1>16, <1>17, <1>18, <1>19 DEF Request, Step

LEMMA LeaseInvWriter ==
    ASSUME AllInv, NEW w \in Writers, Writer(w)
    PROVE  LeaseInv'
<1> USE BoundsAssumption
<1> USE DEF AllInv, TypeInv, TypeOK, LeaseInv, Versions, contentVars, requestVars, lookupVars,
            readVars
<1>1. ASSUME NEW keys \in Scopes, Commit(w, keys) PROVE LeaseInv'
  BY <1>1 DEF Commit
<1>2. ASSUME NEW keys \in Scopes, ManualPurge(w, keys) PROVE LeaseInv'
  BY <1>2 DEF ManualPurge
<1>3. CASE Reset(w)
  BY <1>3 DEF Reset
<1>4. CASE PurgeAfterWrite(w)
  BY <1>4 DEF PurgeAfterWrite
<1>5. CASE ListKeys(w)
  BY <1>5 DEF ListKeys
<1>6. CASE Clear(w)
  BY <1>6 DEF Clear
<1>7. CASE PurgeLost(w)
  BY <1>7 DEF PurgeLost
<1>8. CASE Return(w)
  BY <1>8 DEF Return
<1>9. ASSUME NEW e \in Entries, Delete(w, e) PROVE LeaseInv'
  BY <1>9 DEF Delete
<1> QED  BY <1>1, <1>2, <1>3, <1>4, <1>5, <1>6, <1>7, <1>8, <1>9 DEF Writer, PurgeStep

LEMMA AllInvStep == AllInv /\ [Next]_vars => AllInv'
<1> SUFFICES ASSUME AllInv, [Next]_vars PROVE AllInv'
  OBVIOUS
<1>1. TypeInv'
  BY TypeStep DEF AllInv, TypeInv
<1>2. ASSUME UNCHANGED <<pc, body, uncleaned, wpc, scope, db, clock>> PROVE LeaseInv'
  BY <1>2 DEF AllInv, LeaseInv
<1>3. ASSUME NEW e \in Entries, Expire(e) PROVE LeaseInv'
  BY <1>2, <1>3 DEF Expire, contentVars, requestVars, readVars, writerVars
<1>4. ASSUME UNCHANGED vars PROVE LeaseInv'
  BY <1>2, <1>4 DEF vars, contentVars, requestVars, readVars, writerVars
<1> QED  BY <1>1, <1>3, <1>4, LeaseInvRequest, LeaseInvWriter DEF Next, AllInv

LEMMA AllInvInit == Init => AllInv
BY TypeInit DEF Init, AllInv, TypeInv, LeaseInv

-----------------------------------------------------------------------------
LEMMA InitLeases == Init => Leases!Init
<1> SUFFICES ASSUME Init PROVE Leases!Init
  OBVIOUS
<1>1. \A r \in Requests : leases[r] = "none" /\ LeasedKey(r) = None /\ LeasedValue(r) = None
  BY LeaseCases DEF Init, LeaseShape, LeasedKey, LeasedValue, Reading
<1> QED  BY <1>1 DEF Init, leases, Leases!Init

\* A step that leaves the lease of q as it is.
Undisturbed(q) ==
    /\ \/ pc'[q] = pc[q]
       \/ /\ pc[q] \notin {"origin", "read", "storing", "cleaning"}
          /\ pc'[q] \notin {"origin", "read", "storing", "cleaning"}
    /\ pc[q] \in {"origin", "read", "storing", "cleaning"} =>
           key'[q] = key[q] /\ gen'[q] = gen[q] /\ body'[q] = body[q]

LEMMA UndisturbedLease ==
    ASSUME UNCHANGED logVars, NEW q \in Requests, Undisturbed(q)
    PROVE  leases'[q] = leases[q] /\ ons'[q] = ons[q] /\ values'[q] = values[q]
<1>1. ons'[q] = ons[q] /\ values'[q] = values[q]
  BY DEF ons, values, LeasedKey, LeasedValue, Reading, Undisturbed
<1>2. leases'[q] = leases[q]
  <2>1. CASE pc[q] \in {"origin", "read", "storing", "cleaning"}
    <3>1. pc'[q] = pc[q] /\ key'[q] = key[q] /\ gen'[q] = gen[q]
      BY <2>1 DEF Undisturbed
    <3>2. Told(q, key[q]) <=> Told(q, key[q])'
      BY <3>1 DEF Told, purgedSince, Forgotten, logVars
    <3>3. pc[q] \in {"origin", "read"} =>
              leases[q] = IF Told(q, key[q]) THEN "revoked" ELSE "valid"
      BY LeaseCases DEF LeaseShape
    <3>4. pc[q] = "storing" =>
              leases[q] = IF Told(q, key[q]) THEN "spoiled" ELSE "filling"
      BY LeaseCases DEF LeaseShape
    <3>5. pc'[q] \in {"origin", "read"} =>
              leases'[q] = IF Told(q, key[q])' THEN "revoked" ELSE "valid"
      BY LeaseCasesNext DEF LeaseShape, Told, purgedSince, Forgotten
    <3>6. pc'[q] = "storing" =>
              leases'[q] = IF Told(q, key[q])' THEN "spoiled" ELSE "filling"
      BY LeaseCasesNext DEF LeaseShape, Told, purgedSince, Forgotten
    <3>7. CASE pc[q] = "cleaning"
      BY <3>1, <3>7, LeaseCases, LeaseCasesNext DEF LeaseShape
    <3>8. CASE pc[q] # "cleaning"
      BY <2>1, <3>1, <3>2, <3>3, <3>4, <3>5, <3>6, <3>8
    <3> QED  BY <3>7, <3>8
  <2>2. CASE pc[q] \notin {"origin", "read", "storing", "cleaning"}
    BY <2>2, LeaseCases, LeaseCasesNext DEF LeaseShape, Undisturbed
  <2> QED  BY <2>1, <2>2
<1> QED  BY <1>1, <1>2

\* When only r's lease may have changed, the functions change at r alone.
LEMMA OneLease ==
    ASSUME UNCHANGED logVars, NEW r \in Requests, \A q \in Requests : q # r => Undisturbed(q)
    PROVE  /\ leases' = [leases EXCEPT ![r] = leases'[r]]
           /\ ons' = [ons EXCEPT ![r] = ons'[r]]
           /\ values' = [values EXCEPT ![r] = values'[r]]
<1>1. ASSUME NEW q \in Requests, q # r
      PROVE  leases'[q] = leases[q] /\ ons'[q] = ons[q] /\ values'[q] = values[q]
  BY <1>1, UndisturbedLease
<1>2. leases' = [q \in Requests |-> leases'[q]] /\ leases = [q \in Requests |-> leases[q]]
  BY DEF leases
<1>3. ons' = [q \in Requests |-> ons'[q]] /\ ons = [q \in Requests |-> ons[q]]
  BY DEF ons
<1>4. values' = [q \in Requests |-> values'[q]] /\ values = [q \in Requests |-> values[q]]
  BY DEF values
<1> QED  BY <1>1, <1>2, <1>3, <1>4

LEMMA NoLease ==
    ASSUME UNCHANGED logVars, \A q \in Requests : Undisturbed(q)
    PROVE  UNCHANGED <<leases, ons, values>>
<1>1. ASSUME NEW q \in Requests
      PROVE  leases'[q] = leases[q] /\ ons'[q] = ons[q] /\ values'[q] = values[q]
  BY <1>1, UndisturbedLease
<1>2. leases' = [q \in Requests |-> leases'[q]] /\ leases = [q \in Requests |-> leases[q]]
  BY DEF leases
<1>3. ons' = [q \in Requests |-> ons'[q]] /\ ons = [q \in Requests |-> ons[q]]
  BY DEF ons
<1>4. values' = [q \in Requests |-> values'[q]] /\ values = [q \in Requests |-> values[q]]
  BY DEF values
<1> QED  BY <1>1, <1>2, <1>3, <1>4

\* The abstract next-state relation, with its variables named.
Mapped == Leases!Next \/ UNCHANGED <<db, store, leases, ons, values, uncleaned>>

(* Asking the origin takes a lease.                                         *)
LEMMA TakesLease ==
    ASSUME AllInv, NEW r \in Requests, NEW k \in Keys,
           pc[r] \notin {"origin", "read", "storing", "cleaning", "done"},
           pc' = [pc EXCEPT ![r] = "origin"], gen' = [gen EXCEPT ![r] = generation],
           key'[r] = k, \A q \in Requests : q # r => key'[q] = key[q],
           UNCHANGED <<logVars, db, store, body, uncleaned>>
    PROVE  Leases!Take(r, k)
<1> USE DEF AllInv, TypeInv, TypeOK
<1>1. \A q \in Requests : q # r => Undisturbed(q)
  BY DEF Undisturbed
<1>2. leases[r] = "none" /\ values[r] = None
  BY LeaseCases DEF LeaseShape, values, LeasedValue, Reading
<1>3. leases'[r] = "valid"
  BY LeaseCasesNext DEF LeaseShape, Told, purgedSince, Forgotten, logVars
<1>4. ons'[r] = k /\ values'[r] = None
  BY DEF ons, values, LeasedKey, LeasedValue, Reading, LeaseInv
<1>5. leases' = [leases EXCEPT ![r] = "valid"] /\ ons' = [ons EXCEPT ![r] = k]
  BY <1>1, <1>3, <1>4, OneLease
<1>6. UNCHANGED values
  <2>1. values' = [values EXCEPT ![r] = values[r]]
    BY <1>1, <1>2, <1>4, OneLease
  <2> QED  BY <2>1 DEF values
<1> QED  BY <1>2, <1>5, <1>6 DEF Leases!Take, leases, ons, values

(* A request that ends, or starts storing nothing, gives its lease up.      *)
LEMMA GivesUp ==
    ASSUME AllInv, UNCHANGED logVars, NEW r \in Requests, pc'[r] = "done",
           \A q \in Requests : q # r => Undisturbed(q),
           uncleaned' = [uncleaned EXCEPT ![r] = {}]
    PROVE  Leases!GiveUp(r)
<1>1. leases'[r] = "none"
  BY LeaseCasesNext DEF LeaseShape
<1>2. ons'[r] = None /\ values'[r] = None
  BY DEF ons, values, LeasedKey, LeasedValue, Reading
<1> QED  BY <1>1, <1>2, OneLease DEF Leases!GiveUp, leases, ons, values

(* Steps of a request before and after its lease are invisible.             *)
LEMMA UnleasedStep ==
    ASSUME AllInv, NEW r \in Requests,
           \/ \E k \in Keys, tag \in Tags : Arrive(r, k, tag)
           \/ \E answered \in BOOLEAN : ReadEtag(r, answered) \/ ReadEntry(r, answered)
           \/ Hit(r) \/ Join(r) \/ ServeShared(r) \/ Depart(r)
    PROVE  UNCHANGED <<db, store, leases, ons, values, uncleaned>>
<1> USE DEF AllInv, TypeInv, TypeOK, Undisturbed, contentVars, lookupVars, readVars
<1> DEFINE Kept == /\ UNCHANGED <<logVars, db, store, uncleaned>>
                   /\ \A q \in Requests : Undisturbed(q)
<1> SUFFICES Kept
  BY NoLease
<1>1. ASSUME NEW k \in Keys, NEW tag \in Tags, Arrive(r, k, tag) PROVE Kept
  BY <1>1 DEF Arrive
<1>2. ASSUME NEW answered \in BOOLEAN, ReadEtag(r, answered) PROVE Kept
  BY <1>2 DEF ReadEtag, Respond
<1>3. ASSUME NEW answered \in BOOLEAN, ReadEntry(r, answered) PROVE Kept
  BY <1>3 DEF ReadEntry
<1>4. CASE Hit(r)
  BY <1>4 DEF Hit, Respond
<1>5. CASE Join(r)
  BY <1>5 DEF Join
<1>6. CASE ServeShared(r)
  BY <1>6 DEF ServeShared, Respond
<1>7. CASE Depart(r)
  BY <1>7 DEF Depart
<1> QED  BY <1>1, <1>2, <1>3, <1>4, <1>5, <1>6, <1>7

(* Whatever ends a read without storing gives up its lease.                 *)
LEMMA AbandonedStep ==
    ASSUME AllInv, NEW r \in Requests,
           HitpassReturn(r) \/ Throws(r) \/ Refused(r) \/ ReturnRaced(r)
    PROVE  Leases!Abandon(r)
<1> DEFINE Over == /\ pc[r] = "read" /\ pc'[r] = "done"
                   /\ \A q \in Requests : q # r => Undisturbed(q)
                   /\ UNCHANGED <<logVars, db, store, uncleaned>>
<1>1. Over
  <2> USE DEF AllInv, TypeInv, TypeOK, Undisturbed, contentVars, lookupVars
  <2>1. CASE HitpassReturn(r)
    BY <2>1 DEF HitpassReturn, Respond
  <2>2. CASE Throws(r)
    BY <2>2 DEF Throws, Settle
  <2>3. CASE Refused(r)
    BY <2>3 DEF Refused, Settle
  <2>4. CASE ReturnRaced(r)
    BY <2>4 DEF ReturnRaced, Settle
  <2> QED  BY <2>1, <2>2, <2>3, <2>4
<1>2. uncleaned' = [uncleaned EXCEPT ![r] = {}]
  BY <1>1 DEF AllInv, LeaseInv, TypeInv, TypeOK
<1>3. Leases!GiveUp(r)
  BY <1>1, <1>2, GivesUp
<1>4. leases[r] \in {"valid", "revoked"}
  BY <1>1, LeaseCases DEF LeaseShape
<1> QED  BY <1>1, <1>3, <1>4 DEF Leases!Abandon, leases

(* The origin's answer is loaded under the lease.                           *)
LEMMA LoadedStep ==
    ASSUME AllInv, NEW r \in Requests, OriginRead(r)
    PROVE  Leases!Load(r)
<1> USE DEF AllInv, TypeInv, TypeOK
<1> DEFINE answer == [version |-> db[key[r]], private |-> FALSE]
<1>1. /\ pc[r] = "origin" /\ pc' = [pc EXCEPT ![r] = "read"]
      /\ body' = [body EXCEPT ![r] = answer]
      /\ UNCHANGED <<logVars, db, store, key, gen, uncleaned>>
  BY DEF OriginRead, contentVars, lookupVars
<1>2. \A q \in Requests : q # r => Undisturbed(q)
  BY <1>1 DEF Undisturbed
<1>3. leases[r] \in {"valid", "revoked"} /\ leases'[r] = leases[r]
  <2>1. Told(r, key[r]) <=> Told(r, key[r])'
    BY <1>1 DEF Told, purgedSince, Forgotten, logVars
  <2>2. leases[r] = IF Told(r, key[r]) THEN "revoked" ELSE "valid"
    BY <1>1, LeaseCases DEF LeaseShape
  <2>3. leases'[r] = IF Told(r, key[r])' THEN "revoked" ELSE "valid"
    BY <1>1, LeaseCasesNext DEF LeaseShape, Told, purgedSince, Forgotten
  <2> QED  BY <2>1, <2>2, <2>3
<1>4. values[r] = None /\ ons[r] = key[r] /\ ons'[r] = key[r] /\ values'[r] = answer
  BY <1>1 DEF ons, values, LeasedKey, LeasedValue, Reading, LeaseInv
<1>5. UNCHANGED <<leases, ons>>
  <2>1. leases' = [leases EXCEPT ![r] = leases[r]] /\ ons' = [ons EXCEPT ![r] = ons[r]]
    BY <1>1, <1>2, <1>3, <1>4, OneLease
  <2> QED  BY <2>1 DEF leases, ons
<1>6. values' = [values EXCEPT ![r] = answer]
  BY <1>1, <1>2, <1>4, OneLease
<1>7. answer \in Answers(db[ons[r]])
  BY <1>4 DEF Answers
<1> QED  BY <1>1, <1>3, <1>4, <1>5, <1>6, <1>7 DEF Leases!Load, leases, ons, values

(* Storing begins under a lease nobody revoked.                             *)
LEMMA BegunStep ==
    ASSUME AllInv, NEW r \in Requests, ReturnStoring(r)
    PROVE  Leases!Begin(r)
<1> USE DEF AllInv, TypeInv, TypeOK
<1>1. /\ pc[r] = "read" /\ pc'[r] = "storing" /\ ~Told(r, key[r])
      /\ UNCHANGED <<logVars, db, store, key, gen, body, uncleaned>>
  BY DEF ReturnStoring, Settle, RacedBefore, Told, contentVars, lookupVars
<1>2. \A q \in Requests : Undisturbed(q) \/ q = r
  BY DEF ReturnStoring, Settle, Undisturbed, contentVars, lookupVars
<1>3. leases[r] = "valid"
  BY <1>1, LeaseCases DEF LeaseShape
<1>4. leases'[r] = "filling"
  <2>1. ~Told(r, key[r])'
    BY <1>1 DEF Told, purgedSince, Forgotten, logVars
  <2>2. leases'[r] = IF Told(r, key[r])' THEN "spoiled" ELSE "filling"
    BY <1>1, LeaseCasesNext DEF LeaseShape, Told, purgedSince, Forgotten
  <2> QED  BY <2>1, <2>2
<1>5. leases' = [leases EXCEPT ![r] = "filling"]
  BY <1>1, <1>2, <1>4, OneLease
<1>6. UNCHANGED <<ons, values>> /\ values[r] # None
  <2>1. values[r] \in Body
    BY <1>1 DEF values, LeasedValue, Reading, Progress
  <2>2. UNCHANGED <<ons, values>>
    BY <1>1, <1>2 DEF ons, values, LeasedKey, LeasedValue, Reading, Undisturbed
  <2> QED  BY <2>1, <2>2, NoneAssumption
<1> QED  BY <1>1, <1>3, <1>5, <1>6 DEF Leases!Begin, leases, ons, values

(* A store.set that succeeds fills one entry of the key.                    *)
LEMMA FilledStep ==
    ASSUME AllInv, NEW r \in Requests, NEW e \in Entries, NEW stored \in BOOLEAN,
           Land(r, e, stored)
    PROVE  Mapped
<1> USE DEF AllInv, TypeInv, TypeOK
<1>1. /\ pc[r] = "storing" /\ e \in unstored[r]
      /\ store' = IF stored THEN [store EXCEPT ![e] = body[r]] ELSE store
      /\ UNCHANGED <<logVars, db, pc, key, gen, body, uncleaned>>
  BY DEF Land, contentVars, lookupVars
<1>2. UNCHANGED <<leases, ons, values>>
  BY <1>1, NoLease DEF Undisturbed
<1>3. CASE ~stored
  BY <1>1, <1>2, <1>3 DEF Mapped
<1>4. CASE stored
  <2>1. leases[r] \in {"filling", "spoiled"}
    BY <1>1, LeaseCases DEF LeaseShape
  <2>2. ons[r] = key[r] /\ values[r] = body[r]
    BY <1>1 DEF ons, values, LeasedKey, LeasedValue, Reading
  <2>3. e[1] = key[r]
    BY <1>1 DEF Progress, EntriesOf
  <2>4. Leases!Fill(r, e)
    BY <1>1, <1>2, <1>4, <2>1, <2>2, <2>3 DEF Leases!Fill, leases, ons, values
  <2> QED  BY <2>4 DEF Mapped, Leases!Next
<1> QED  BY <1>3, <1>4

(* The second question to the log: done, or retract what was stored.        *)
LEMMA RecheckedStep ==
    ASSUME AllInv, NEW r \in Requests, Recheck(r)
    PROVE  Leases!Finish(r) \/ Leases!Retract(r)
<1> USE DEF AllInv, TypeInv, TypeOK
<1>1. /\ pc[r] = "storing"
      /\ UNCHANGED <<logVars, db, store, key, gen, body>>
  BY DEF Recheck, contentVars, lookupVars
<1>2. \A q \in Requests : q # r => Undisturbed(q)
  BY DEF Recheck, Undisturbed, lookupVars
<1>3. CASE ~RacedWhileStoring(r)
  <2>1. pc'[r] = "done" /\ UNCHANGED uncleaned
    BY <1>3 DEF Recheck
  <2>2. leases[r] = "filling"
    BY <1>1, <1>3, LeaseCases DEF LeaseShape, RacedWhileStoring, Told
  <2>3. uncleaned' = [uncleaned EXCEPT ![r] = {}]
    BY <1>1, <2>1 DEF LeaseInv
  <2>4. Leases!GiveUp(r)
    BY <1>1, <1>2, <2>1, <2>3, GivesUp
  <2> QED  BY <1>1, <2>2, <2>4 DEF Leases!Finish, leases
<1>4. CASE RacedWhileStoring(r)
  <2>1. /\ pc'[r] = "cleaning"
        /\ uncleaned' = [uncleaned EXCEPT ![r] = EntriesOf(key[r])]
    BY <1>4 DEF Recheck, Unstorable
  <2>2. leases[r] = "spoiled"
    BY <1>1, <1>4, LeaseCases DEF LeaseShape, RacedWhileStoring, Told
  <2>3. leases'[r] = "retracting"
    BY <2>1, LeaseCasesNext DEF LeaseShape
  <2>4. leases' = [leases EXCEPT ![r] = "retracting"]
    BY <1>1, <1>2, <2>3, OneLease
  <2>5. UNCHANGED <<ons, values>> /\ ons[r] = key[r]
    BY <1>1, <1>2, <2>1 DEF ons, values, LeasedKey, LeasedValue, Reading, Undisturbed
  <2>6. EntriesOf(key[r]) = {e \in Entries : e[1] = key[r]}
    <3>1. key[r] \in Keys
      BY <1>1 DEF Progress
    <3> QED  BY <3>1 DEF EntriesOf, Entries
  <2> QED  BY <1>1, <2>1, <2>2, <2>4, <2>5, <2>6 DEF Leases!Retract, leases, ons, values
<1> QED  BY <1>3, <1>4

(* Each entry deleted is one retracted; after the last the lease is over.   *)
LEMMA CleanedStep ==
    ASSUME AllInv, NEW r \in Requests, NEW e \in Entries, Clean(r, e)
    PROVE  Leases!Retracted(r, e)
<1> USE DEF AllInv, TypeInv, TypeOK
<1>1. /\ pc[r] = "cleaning" /\ e \in uncleaned[r]
      /\ store' = [store EXCEPT ![e] = None]
      /\ uncleaned' = [uncleaned EXCEPT ![r] = @ \ {e}]
      /\ pc' = [pc EXCEPT ![r] = IF uncleaned'[r] = {} THEN "done" ELSE @]
      /\ UNCHANGED <<logVars, db, key, gen, body>>
  BY DEF Clean, contentVars, lookupVars
<1>2. \A q \in Requests : q # r => Undisturbed(q)
  BY <1>1 DEF Undisturbed
<1>3. leases[r] = "retracting"
  BY <1>1, LeaseCases DEF LeaseShape
<1>4. CASE uncleaned[r] = {e}
  <2>1. uncleaned' = [uncleaned EXCEPT ![r] = {}] /\ pc'[r] = "done"
    BY <1>1, <1>4
  <2>2. Leases!GiveUp(r)
    BY <1>1, <1>2, <2>1, GivesUp
  <2> QED  BY <1>1, <1>3, <1>4, <2>2 DEF Leases!Retracted, leases
<1>5. CASE uncleaned[r] # {e}
  <2>1. uncleaned'[r] # {} /\ pc'[r] = pc[r]
    BY <1>1, <1>5
  <2>2. \A q \in Requests : Undisturbed(q)
    BY <1>1, <1>2, <2>1 DEF Undisturbed
  <2>3. UNCHANGED <<leases, ons, values>>
    BY <1>1, <2>2, NoLease
  <2> QED  BY <1>1, <1>3, <1>5, <2>3 DEF Leases!Retracted, leases, ons, values
<1> QED  BY <1>4, <1>5

(* Every step of a request maps to a step of LeaseCache or to none.         *)
LEMMA RequestMapped ==
    ASSUME AllInv, faults = 0, faults' = 0, NEW r \in Requests, Request(r)
    PROVE  Mapped
<1> USE DEF AllInv, TypeInv, TypeOK
<1>1. ASSUME NEW k \in Keys, Hitpass(r, k) PROVE Leases!Take(r, k)
  BY <1>1, TakesLease DEF Hitpass, StartRead, contentVars
<1>2. CASE Lead(r)
  <2>1. key[r] \in Keys
    BY <1>2 DEF Lead, Progress
  <2> QED  BY <1>2, <2>1, TakesLease DEF Lead, StartRead, contentVars, lookupVars, Mapped, Leases!Next
<1>3. ~CleanLost(r)
  BY DEF CleanLost
<1> QED  BY <1>1, <1>2, <1>3, UnleasedStep, AbandonedStep, LoadedStep, BegunStep, FilledStep,
            RecheckedStep, CleanedStep, SMTT(20) DEF Request, Step, Mapped, Leases!Next

-----------------------------------------------------------------------------
(* A recorded purge revokes the leases on the keys it matches, and those    *)
(* whose clients the log, having forgotten too much, tells the same.        *)
LEMMA PurgeMapped ==
    ASSUME AllInv, NEW matched \in Scopes \union {Keys}, RecordPurge(matched),
           UNCHANGED <<db, store, pc, key, gen, body, uncleaned>>
    PROVE  Leases!Purge
<1> USE DEF AllInv
<1> DEFINE Changed == {q \in Requests : leases'[q] # leases[q]}
<1>1. matched \in SUBSET Keys
  BY KeysAssumption
<1>2. UNCHANGED <<ons, values>>
  BY DEF ons, values, LeasedKey, LeasedValue, Reading
<1>3. ASSUME NEW q \in Requests
      PROVE  leases'[q] = IF ons[q] \in matched \/ q \in Changed
                          THEN Leases!Revoked(leases[q]) ELSE leases[q]
  <2>1. CASE pc[q] \in {"origin", "read", "storing"}
    <3>1. key[q] \in Keys /\ ons[q] = key[q]
      BY <2>1 DEF TypeInv, Progress, ons, LeasedKey, Reading
    <3>2. key[q] \in matched => Told(q, key[q])'
      <4>1. ASSUME NEW k \in matched PROVE Told(q, k)'
        BY <1>1, ToldOfRecorded
      <4> QED  BY <4>1 DEF Told, purgedSince, Forgotten
    <3>3. Told(q, key[q]) => Told(q, key[q])'
      <4>1. ASSUME NEW k \in Keys, Told(q, k) PROVE Told(q, k)'
        BY <1>1, <4>1, ToldStays
      <4> QED  BY <3>1, <4>1 DEF Told, purgedSince, Forgotten
    <3>4. CASE pc[q] = "storing"
      <4>1. leases[q] = IF Told(q, key[q]) THEN "spoiled" ELSE "filling"
        BY <3>4, LeaseCases DEF LeaseShape
      <4>2. leases'[q] = IF Told(q, key[q])' THEN "spoiled" ELSE "filling"
        BY <3>4, LeaseCasesNext DEF LeaseShape, Told, purgedSince, Forgotten
      <4> QED  BY <3>1, <3>2, <3>3, <4>1, <4>2, RevokedCases
    <3>5. CASE pc[q] \in {"origin", "read"}
      <4>1. leases[q] = IF Told(q, key[q]) THEN "revoked" ELSE "valid"
        BY <3>5, LeaseCases DEF LeaseShape
      <4>2. leases'[q] = IF Told(q, key[q])' THEN "revoked" ELSE "valid"
        BY <3>5, LeaseCasesNext DEF LeaseShape, Told, purgedSince, Forgotten
      <4> QED  BY <3>1, <3>2, <3>3, <4>1, <4>2, RevokedCases
    <3> QED  BY <2>1, <3>4, <3>5
  <2>2. CASE pc[q] \notin {"origin", "read", "storing"}
    <3>1. leases[q] \in {"none", "retracting"} /\ leases'[q] = leases[q]
      BY <2>2, LeaseCases, LeaseCasesNext DEF LeaseShape
    <3> QED  BY <3>1, RevokedCases
  <2> QED  BY <2>1, <2>2
<1>4. leases' = [q \in Requests |-> leases'[q]]
  BY DEF leases
<1>5. leases' = [q \in Requests |-> IF ons[q] \in matched \/ q \in Changed
                                    THEN Leases!Revoked(leases[q]) ELSE leases[q]]
  BY <1>3, <1>4
<1>6. Changed \in SUBSET Requests
  OBVIOUS
<1> HIDE DEF Changed
<1> QED  BY <1>2, <1>5, <1>6 DEF Leases!Purge, leases, ons, values

(* Deletes, expiry and the provider's clear() only drop entries.            *)
LEMMA DropMapped ==
    ASSUME AllInv, AllInv', NEW entries \in SUBSET Entries,
           store' = [e \in Entries |-> IF e \in entries THEN None ELSE store[e]],
           UNCHANGED <<logVars, db, pc, key, gen, body, uncleaned>>
    PROVE  Leases!Drop
<1>1. UNCHANGED <<leases, ons, values>>
  BY NoLease DEF Undisturbed
<1> QED  BY <1>1 DEF Leases!Drop, leases, ons, values

(* A commit is a write of the content; the other steps of a write or a      *)
(* purge are purges, drops or invisible.                                    *)
LEMMA WriterMapped ==
    ASSUME AllInv, AllInv', NEW w \in Writers, Writer(w)
    PROVE  Mapped
<1> USE DEF AllInv, TypeInv, TypeOK, contentVars, requestVars, lookupVars, readVars
<1>1. ASSUME NEW keys \in Scopes, Commit(w, keys) PROVE Leases!Write
  <2>1. UNCHANGED <<leases, ons, values>>
    BY <1>1, NoLease DEF Commit, Undisturbed
  <2>2. keys \in SUBSET Keys /\ clock \in Nat /\ clock + 1 \in Versions
    BY <1>1, KeysAssumption, BoundsAssumption DEF Commit, Versions
  <2>3. \A k \in keys : db[k] < clock + 1
    BY <2>2, BoundsAssumption DEF LeaseInv, Versions
  <2> QED  BY <1>1, <2>1, <2>2, <2>3 DEF Commit, Leases!Write, leases, ons, values
<1>2. ASSUME NEW keys \in Scopes, ManualPurge(w, keys) PROVE Leases!Purge
  BY <1>2, PurgeMapped DEF ManualPurge, StartPurge
<1>3. CASE Reset(w)
  <2>1. Leases!Purge
    BY <1>3, PurgeMapped DEF Reset, StartPurge
  <2> QED  BY <2>1 DEF Mapped, Leases!Next
<1>4. CASE PurgeAfterWrite(w)
  <2>1. scope[w] \in Scopes
    BY <1>4 DEF PurgeAfterWrite, LeaseInv
  <2>2. Leases!Purge
    BY <1>4, <2>1, PurgeMapped DEF PurgeAfterWrite, StartPurge
  <2> QED  BY <2>2 DEF Mapped, Leases!Next
<1>5. ASSUME NEW e \in Entries, Delete(w, e) PROVE Leases!Drop
  <2>1. store' = [d \in Entries |-> IF d \in {e} THEN None ELSE store[d]]
    BY <1>5 DEF Delete
  <2>2. UNCHANGED <<logVars, db, pc, key, gen, body, uncleaned>>
    BY <1>5 DEF Delete
  <2>3. {e} \in SUBSET Entries
    OBVIOUS
  <2> QED  BY <2>1, <2>2, <2>3, DropMapped
<1>6. CASE Clear(w)
  <2>1. store' = [e \in Entries |-> IF e \in Entries THEN None ELSE store[e]]
    BY <1>6 DEF Clear
  <2>2. Leases!Drop
    BY <1>6, <2>1, DropMapped DEF Clear
  <2> QED  BY <2>2 DEF Mapped, Leases!Next
<1>7. ASSUME ListKeys(w) \/ PurgeLost(w) \/ Return(w)
      PROVE  UNCHANGED <<db, store, leases, ons, values, uncleaned>>
  <2>1. UNCHANGED <<logVars, db, store, pc, key, gen, body, uncleaned>>
    BY <1>7 DEF ListKeys, PurgeLost, Return
  <2> QED  BY <2>1, NoLease DEF Undisturbed
<1> QED  BY <1>1, <1>2, <1>3, <1>4, <1>5, <1>6, <1>7
            DEF Writer, PurgeStep, Mapped, Leases!Next

LEMMA NextMapped ==
    ASSUME AllInv, AllInv', faults = 0, faults' = 0, [Next]_vars
    PROVE  [Leases!Next]_(Leases!leaseVars)
<1>1. ASSUME NEW e \in Entries, Expire(e) PROVE Leases!Drop
  <2>1. store' = [d \in Entries |-> IF d \in {e} THEN None ELSE store[d]]
    BY <1>1 DEF Expire, AllInv, TypeInv, TypeOK
  <2>2. UNCHANGED <<logVars, db, pc, key, gen, body, uncleaned>>
    BY <1>1 DEF Expire, contentVars, requestVars, lookupVars, readVars
  <2>3. {e} \in SUBSET Entries
    OBVIOUS
  <2> QED  BY <2>1, <2>2, <2>3, DropMapped
<1>2. ASSUME UNCHANGED vars PROVE UNCHANGED <<db, store, leases, ons, values, uncleaned>>
  <2>1. UNCHANGED <<logVars, db, store, pc, key, gen, body, uncleaned>>
    BY <1>2 DEF vars, contentVars, requestVars, lookupVars, readVars
  <2> QED  BY <2>1, NoLease DEF Undisturbed
<1>3. Mapped
  BY <1>1, <1>2, RequestMapped, WriterMapped DEF Next, Mapped, Leases!Next
<1> QED  BY <1>3 DEF Mapped, Leases!leaseVars, leases, ons, values

(* As long as the provider loses no delete, the read path implements the    *)
(* cache filled under leases: the counter, the log that forgets, the check  *)
(* before storing, the awaited sets and the check after them (recv.ts,      *)
(* cacheStore.ts) never store under a lease a purge revoked without         *)
(* retracting it.                                                           *)
THEOREM ReadPathImplementsLeases == Spec /\ [](faults = 0) => ImplementsLeases
<1>1. AllInv /\ AllInv' /\ faults = 0 /\ (faults = 0)' /\ [Next]_vars
          => [Leases!Next]_(Leases!leaseVars)
  BY NextMapped
<1> QED  BY <1>1, AllInvInit, AllInvStep, InitLeases, PTL DEF Spec, ImplementsLeases, Leases!Spec

=============================================================================

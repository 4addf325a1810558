---------------------- MODULE RestCacheResponses_proofs ----------------------
(***************************************************************************)
(* What RestCache's responses contain, for every number of keys, requests  *)
(* and writes, for every size of the purge log, and whatever deletes the   *)
(* provider loses: nothing private, nothing older than what had returned;  *)
(* and which of them share one call of the origin.                         *)
(***************************************************************************)
EXTENDS RestCache_proofs

-----------------------------------------------------------------------------
(* Refused responses.  A private body exists only in the hands of the       *)
(* request that asked for it, from the verdict to its departure.            *)
PublicInv ==
    /\ RefusedStaysPrivate
    /\ \A r \in Requests :
        /\ pc[r] \in {"read", "storing"} => ~body[r].private
        /\ got[r] # None => ~got[r].private
        /\ shared[r] # None => ~shared[r].private

LEMMA PublicRequest ==
    ASSUME TypeInv, PublicInv, NEW r \in Requests, Request(r)
    PROVE  PublicInv'
<1> USE PartsFact, NoneAssumption
<1> USE DEF TypeInv, TypeOK, Progress, PublicInv, RefusedStaysPrivate, Stored, lookupVars, readVars
<1>1. ASSUME NEW k \in Keys, NEW tag \in Tags, Arrive(r, k, tag) PROVE PublicInv'
  BY <1>1 DEF Arrive
<1>2. ASSUME NEW k \in Keys, Hitpass(r, k) PROVE PublicInv'
  BY <1>2 DEF Hitpass, StartRead
<1>3. ASSUME NEW answered \in BOOLEAN, ReadEtag(r, answered) PROVE PublicInv'
  <2> DEFINE tag == IF answered THEN store[<<key[r], "etag">>] ELSE None
  <2>1. tag # None => ~tag.private
    BY <1>3 DEF ReadEtag
  <2>2. UNCHANGED <<store, got, shared, body>>
    BY <1>3 DEF ReadEtag
  <2>3. CASE tag # None /\ tag = ifNoneMatch[r]
    <3>1. pc' = [pc EXCEPT ![r] = "done"]
      BY <1>3, <2>3 DEF ReadEtag, Respond
    <3>2. response' = [response EXCEPT ![r] =
              [body |-> tag, etag |-> None, via |-> "etag", cached |-> TRUE]]
      BY <1>3, <2>3 DEF ReadEtag, Respond
    <3> HIDE DEF tag
    <3> QED  BY <2>1, <2>2, <2>3, <3>1, <3>2
  <2>4. CASE ~(tag # None /\ tag = ifNoneMatch[r])
    <3>1. pc' = [pc EXCEPT ![r] = "entry"] /\ UNCHANGED response
      BY <1>3, <2>4 DEF ReadEtag
    <3> QED  BY <2>2, <3>1
  <2> QED  BY <2>3, <2>4
<1>4. ASSUME NEW answered \in BOOLEAN, ReadEntry(r, answered) PROVE PublicInv'
  BY <1>4 DEF ReadEntry
<1>5. CASE Hit(r)
  BY <1>5 DEF Hit, Respond
<1>6. CASE Join(r)
  BY <1>6 DEF Join
<1>7. CASE Lead(r)
  BY <1>7 DEF Lead, StartRead
<1>8. CASE ServeShared(r)
  BY <1>8 DEF ServeShared, Respond
<1>9. CASE OriginRead(r)
  BY <1>9 DEF OriginRead
<1>10. CASE HitpassReturn(r)
  BY <1>10 DEF HitpassReturn, Respond, Answer
<1>11. CASE Throws(r)
  BY <1>11 DEF Throws, Settle
<1>12. CASE Refused(r)
  BY <1>12 DEF Refused, Settle, Published, Answer
<1>13. CASE ReturnRaced(r)
  BY <1>13 DEF ReturnRaced, Settle, Published, Answer
<1>14. CASE ReturnStoring(r)
  BY <1>14 DEF ReturnStoring, Settle, Published, Answer
<1>15. ASSUME NEW e \in Entries, NEW stored \in BOOLEAN, Land(r, e, stored) PROVE PublicInv'
  BY <1>15 DEF Land
<1>16. CASE Recheck(r)
  BY <1>16 DEF Recheck
<1>17. ASSUME NEW e \in Entries, Clean(r, e) PROVE PublicInv'
  BY <1>17 DEF Clean
<1>18. CASE CleanLost(r)
  BY <1>18 DEF CleanLost
<1>19. CASE Depart(r)
  BY <1>19 DEF Depart
<1> QED  BY <1>1, <1>2, <1>3, <1>4, <1>5, <1>6, <1>7, <1>8, <1>9, <1>10, <1>11, <1>12,
            <1>13, <1>14, <1>15, <1>16, <1>17, <1>18, <1>19 DEF Request, Step

\* Writes, purges and expiry only take entries away.
LEMMA StoreShrinks ==
    ASSUME TypeInv, \/ \E w \in Writers : Writer(w)
                    \/ \E e \in Entries : Expire(e)
                    \/ UNCHANGED vars
    PROVE  \A e \in Entries : store'[e] \in {store[e], None}
<1> USE DEF TypeInv, TypeOK
<1>1. ASSUME NEW w \in Writers, Writer(w) PROVE \A e \in Entries : store'[e] \in {store[e], None}
  BY <1>1 DEF Writer, Commit, ManualPurge, Reset, PurgeStep, PurgeAfterWrite, ListKeys, Clear,
     PurgeLost, Return, Delete
<1>2. ASSUME NEW e \in Entries, Expire(e) PROVE \A d \in Entries : store'[d] \in {store[d], None}
  BY <1>2 DEF Expire
<1>3. ASSUME UNCHANGED vars PROVE \A e \in Entries : store'[e] \in {store[e], None}
  BY <1>3 DEF vars
<1> QED  BY <1>1, <1>2, <1>3

\* They leave every request as it is.
LEMMA RequestsRest ==
    ASSUME \/ \E w \in Writers : Writer(w)
           \/ \E e \in Entries : Expire(e)
           \/ UNCHANGED vars
    PROVE  UNCHANGED <<inFlight, pc, key, lookup, ifNoneMatch, floor, etagCached, got, waitOn,
                       shared, gen, body, unstored, uncleaned, response>>
BY DEF Writer, Commit, ManualPurge, Reset, PurgeStep, PurgeAfterWrite, ListKeys, Clear,
   PurgeLost, Return, Delete, Expire, vars, requestVars, lookupVars, readVars

LEMMA PublicStep == TypeInv /\ PublicInv /\ [Next]_vars => PublicInv'
<1> SUFFICES ASSUME TypeInv, PublicInv, [Next]_vars,
                    ~\E r \in Requests : Request(r)
             PROVE  PublicInv'
  BY PublicRequest
<1>1. \A e \in Entries : store'[e] \in {store[e], None}
  BY StoreShrinks DEF Next
<1>2. UNCHANGED <<pc, body, got, shared, response>>
  BY RequestsRest DEF Next
<1> QED  BY <1>1, <1>2 DEF PublicInv, RefusedStaysPrivate, Stored

(* A response isCacheable refused is neither stored nor shared, whatever    *)
(* the order in which the read, the verdict and the waiters run (recv.ts).  *)
THEOREM RefusedNeverShared == Spec => []RefusedStaysPrivate
<1>1. Init => TypeInv
  BY TypeInit DEF TypeInv
<1>2. Init => PublicInv
  BY DEF Init, PublicInv, RefusedStaysPrivate, Stored
<1>3. TypeInv /\ [Next]_vars => TypeInv'
  BY TypeStep DEF TypeInv
<1>4. PublicInv => RefusedStaysPrivate
  BY DEF PublicInv
<1> QED  BY <1>1, <1>2, <1>3, <1>4, PublicStep, PTL DEF Spec

-----------------------------------------------------------------------------
(* Reads and the writes that have returned.  What has returned is in the    *)
(* database, and a read that lacks a write whose purge was recorded will be *)
(* told so by the log.                                                      *)
ContentInv ==
    /\ \A k \in Keys : acked[k] <= db[k] /\ db[k] <= clock
    /\ \A w \in Writers :
        /\ \A k \in scope[w] : wrote[w] <= db[k]
        /\ wpc[w] = "idle" => wrote[w] = 0

Lacks(r, version) == pc[r] \in {"read", "storing"} /\ body[r].version < version

AckCovered ==
    \A r \in Requests :
        /\ Lacks(r, acked[key[r]]) => Told(r, key[r])
        /\ \A w \in Writers :
              (/\ wpc[w] \in {"listing", "clearing", "deleting"} /\ key[r] \in scope[w]
               /\ Lacks(r, wrote[w])) => Told(r, key[r])

ReadInv == TypeInv /\ ContentInv /\ AckCovered

LEMMA ContentWriter ==
    ASSUME TypeInv, ContentInv, NEW w \in Writers, Writer(w)
    PROVE  ContentInv'
<1> USE BoundsAssumption, KeysAssumption
<1> USE DEF TypeInv, TypeOK, ContentInv, Versions, contentVars
<1>1. ASSUME NEW keys \in Scopes, Commit(w, keys) PROVE ContentInv'
  BY <1>1 DEF Commit
<1>2. ASSUME NEW keys \in Scopes, ManualPurge(w, keys) PROVE ContentInv'
  BY <1>2 DEF ManualPurge
<1>3. CASE Reset(w)
  BY <1>3 DEF Reset
<1>4. CASE PurgeAfterWrite(w)
  BY <1>4 DEF PurgeAfterWrite
<1>5. CASE ListKeys(w)
  BY <1>5 DEF ListKeys
<1>6. CASE Clear(w)
  BY <1>6 DEF Clear
<1>7. CASE PurgeLost(w)
  BY <1>7 DEF PurgeLost
<1>8. CASE Return(w)
  BY <1>8 DEF Return
<1>9. ASSUME NEW e \in Entries, Delete(w, e) PROVE ContentInv'
  BY <1>9 DEF Delete
<1> QED  BY <1>1, <1>2, <1>3, <1>4, <1>5, <1>6, <1>7, <1>8, <1>9 DEF Writer, PurgeStep

\* A step that leaves the writes and the log as they are.
LEMMA AckCoveredFrame ==
    ASSUME ReadInv, TypeInv', ReadsKept,
           UNCHANGED <<logVars, db, acked, wpc, scope, wrote>>
    PROVE  AckCovered'
<1> USE DEF ReadInv
<1> SUFFICES ASSUME NEW r \in Requests, NEW version \in Versions, Lacks(r, version)',
                    \/ version = acked[key'[r]]
                    \/ \E w \in Writers : /\ wpc[w] \in {"listing", "clearing", "deleting"}
                                          /\ key'[r] \in scope[w] /\ version = wrote[w]
             PROVE  purgedSince(gen[r], key[r])'
  <2>1. \A r \in Requests : pc'[r] \in {"read", "storing"} => acked'[key'[r]] \in Versions
    BY DEF TypeInv, TypeOK, Progress
  <2>2. \A w \in Writers : wrote'[w] \in Versions
    BY DEF TypeInv, TypeOK
  <2> QED  BY <2>1, <2>2 DEF AckCovered, Lacks, Told, purgedSince, Forgotten
<1>1. pc'[r] \in {"read", "storing"} /\ body'[r].version < version /\ key'[r] \in Keys
  BY DEF Lacks, TypeInv, Progress
<1>2. SameRead(r)
  <2>1. version <= db[key'[r]] /\ db[key'[r]] \in Int /\ version \in Int
    BY <1>1 DEF ContentInv, TypeInv, TypeOK, Versions
  <2>2. body'[r].version # db[key'[r]]
    BY <1>1, <2>1
  <2> QED  BY <1>1, <2>2 DEF ReadsKept
<1>3. Told(r, key[r])
  BY <1>1, <1>2 DEF SameRead, AckCovered, Lacks
<1> QED  BY <1>2, <1>3 DEF SameRead, Told, purgedSince, Forgotten, logVars

LEMMA AckCoveredWriter ==
    ASSUME ReadInv, NEW w \in Writers, Writer(w)
    PROVE  AckCovered'
<1> USE DEF ReadInv, TypeInv
<1>1. UNCHANGED <<pc, key, body, gen>>
  BY RequestsRest
<1> SUFFICES ASSUME NEW r \in Requests, pc[r] \in {"read", "storing"},
                    NEW k \in Keys, k = key[r],
                    \/ body[r].version < acked'[k]
                    \/ \E x \in Writers : /\ wpc'[x] \in {"listing", "clearing", "deleting"}
                                          /\ k \in scope'[x] /\ body[r].version < wrote'[x]
             PROVE  Told(r, k)'
  <2>1. \A r \in Requests : pc[r] \in {"read", "storing"} => key[r] \in Keys
    BY DEF Progress
  <2> QED  BY <1>1, <2>1 DEF AckCovered, Lacks, Told, purgedSince, Forgotten
<1> DEFINE Known == \/ body[r].version < acked[k]
                    \/ \E x \in Writers : /\ wpc[x] \in {"listing", "clearing", "deleting"}
                                          /\ k \in scope[x] /\ body[r].version < wrote[x]
<1>2. Known => Told(r, k)
  BY DEF AckCovered, Lacks
<1>3. ASSUME Known, UNCHANGED logVars PROVE Told(r, k)'
  BY <1>1, <1>2, <1>3, ToldKept
<1>4. ASSUME NEW matched \in SUBSET Keys, RecordPurge(matched), Known \/ k \in matched
      PROVE  Told(r, k)'
  <2>1. CASE Known
    BY <1>1, <1>2, <1>4, <2>1, ToldStays
  <2>2. CASE k \in matched
    BY <1>1, <1>4, <2>2, ToldOfRecorded
  <2> QED  BY <1>4, <2>1, <2>2
<1> USE DEF TypeOK, contentVars
<1>5. ASSUME NEW keys \in Scopes, Commit(w, keys) PROVE Told(r, k)'
  BY <1>3, <1>5 DEF Commit
<1>6. CASE PurgeAfterWrite(w)
  <2>1. scope[w] \in SUBSET Keys /\ RecordPurge(scope[w])
    BY <1>6 DEF PurgeAfterWrite, StartPurge
  <2>2. Known \/ k \in scope[w]
    BY <1>6 DEF PurgeAfterWrite
  <2> QED  BY <1>4, <2>1, <2>2
<1>7. ASSUME NEW keys \in Scopes, ManualPurge(w, keys) PROVE Told(r, k)'
  <2>1. keys \in SUBSET Keys /\ RecordPurge(keys)
    BY <1>7, KeysAssumption DEF ManualPurge, StartPurge
  <2>2. Known \/ k \in keys
    BY <1>7 DEF ManualPurge
  <2> QED  BY <1>4, <2>1, <2>2
<1>8. CASE Reset(w)
  <2>1. Keys \in SUBSET Keys /\ RecordPurge(Keys)
    BY <1>8 DEF Reset, StartPurge
  <2> QED  BY <1>4, <2>1
<1>9. CASE ListKeys(w)
  BY <1>3, <1>9 DEF ListKeys
<1>10. CASE Clear(w)
  BY <1>3, <1>10 DEF Clear
<1>11. CASE PurgeLost(w)
  BY <1>3, <1>11 DEF PurgeLost
<1>12. CASE Return(w)
  BY <1>3, <1>12 DEF Return
<1>13. ASSUME NEW e \in Entries, Delete(w, e) PROVE Told(r, k)'
  BY <1>3, <1>13 DEF Delete
<1> QED  BY <1>5, <1>6, <1>7, <1>8, <1>9, <1>10, <1>11, <1>12, <1>13 DEF Writer, PurgeStep

LEMMA RequestKeepsContent ==
    ASSUME NEW r \in Requests, Request(r)
    PROVE  UNCHANGED <<logVars, clock, db, acked, wpc, scope, wrote, todo>>
BY DEF Request, Step, Arrive, Hitpass, ReadEtag, ReadEntry, Hit, Join, Lead,
   ServeShared, OriginRead, HitpassReturn, Throws, Refused, ReturnRaced, ReturnStoring,
   Land, Recheck, Clean, CleanLost, Depart, contentVars, writerVars

LEMMA ReadInvStep == ReadInv /\ [Next]_vars => ReadInv'
<1> SUFFICES ASSUME ReadInv, [Next]_vars PROVE ReadInv'
  OBVIOUS
<1>1. TypeInv /\ TypeInv'
  BY TypeStep DEF ReadInv, TypeInv
<1>2. ASSUME UNCHANGED <<logVars, clock, db, acked, wpc, scope, wrote>>, ReadsKept
      PROVE  ContentInv' /\ AckCovered'
  BY <1>1, <1>2, AckCoveredFrame DEF ReadInv, ContentInv
<1>3. ASSUME NEW r \in Requests, Request(r) PROVE ContentInv' /\ AckCovered'
  BY <1>1, <1>2, <1>3, ReadsKeptByRequest, RequestKeepsContent
<1>4. ASSUME NEW w \in Writers, Writer(w) PROVE ContentInv' /\ AckCovered'
  BY <1>4, ContentWriter, AckCoveredWriter DEF ReadInv
<1>5. ASSUME (\E e \in Entries : Expire(e)) \/ UNCHANGED vars PROVE ContentInv' /\ AckCovered'
  <2>1. UNCHANGED <<logVars, clock, db, acked, wpc, scope, wrote>>
    BY <1>5 DEF Expire, vars, contentVars, writerVars
  <2>2. ReadsKept
    BY <1>5, RequestsRest DEF ReadsKept, SameRead
  <2> QED  BY <1>2, <2>1, <2>2
<1> QED  BY <1>1, <1>3, <1>4, <1>5 DEF Next, ReadInv

LEMMA ReadInvInit == Init => ReadInv
<1> SUFFICES ASSUME Init PROVE ReadInv
  OBVIOUS
<1>1. TypeInv
  BY TypeInit DEF TypeInv
<1>2. ContentInv /\ AckCovered
  BY DEF Init, ContentInv, AckCovered, Lacks
<1> QED  BY <1>1, <1>2 DEF ReadInv

\* Storing starts nowhere else.
LEMMA StartsStoring ==
    ASSUME TypeInv, NEW q \in Requests, Request(q),
           NEW r \in Requests, pc[r] = "read", pc'[r] = "storing"
    PROVE  ReturnStoring(r)
<1> USE DEF TypeInv, TypeOK, lookupVars
<1>1. ASSUME NEW k \in Keys, NEW tag \in Tags PROVE ~Arrive(q, k, tag)
  BY DEF Arrive
<1>2. ASSUME NEW k \in Keys PROVE ~Hitpass(q, k)
  BY DEF Hitpass, StartRead
<1>3. ASSUME NEW answered \in BOOLEAN PROVE ~ReadEtag(q, answered) /\ ~ReadEntry(q, answered)
  BY DEF ReadEtag, Respond, ReadEntry
<1>4. ~Hit(q) /\ ~Join(q) /\ ~Lead(q) /\ ~ServeShared(q)
  BY DEF Hit, Join, Lead, StartRead, ServeShared, Respond
<1>5. ~OriginRead(q) /\ ~HitpassReturn(q)
  BY DEF OriginRead, HitpassReturn, Respond
<1>6. ASSUME NEW value PROVE ~Settle(q, "done", value)
  BY DEF Settle
<1>10. ~Throws(q) /\ ~Refused(q) /\ ~ReturnRaced(q)
  BY <1>6, Zenon DEF Throws, Refused, ReturnRaced
<1>7. ReturnStoring(q) => q = r
  BY DEF ReturnStoring, Settle
<1>8. ASSUME NEW e \in Entries, NEW stored \in BOOLEAN PROVE ~Land(q, e, stored) /\ ~Clean(q, e)
  BY DEF Land, Clean
<1>9. ~Recheck(q) /\ ~CleanLost(q) /\ ~Depart(q)
  BY DEF Recheck, CleanLost, Depart
<1> QED  BY <1>1, <1>2, <1>3, <1>4, <1>5, <1>6, <1>7, <1>8, <1>9, <1>10 DEF Request, Step

(* recv starts storing only what contains every write that has returned by  *)
(* then, also those that returned while the origin was being read (recv.ts, *)
(* purgedSince before the store).                                           *)
THEOREM StoredReadsAreCurrent == Spec => OnlyCurrentReadsStored
<1> DEFINE Current == \A r \in Requests :
               (pc[r] = "read" /\ pc'[r] = "storing") => body[r].version >= acked[key[r]]
<1>1. ReadInv /\ [Next]_vars => [Current]_vars
  <2> SUFFICES ASSUME ReadInv, Next, NEW r \in Requests, pc[r] = "read", pc'[r] = "storing"
               PROVE  body[r].version >= acked[key[r]]
    OBVIOUS
  <2> USE DEF ReadInv, TypeInv, TypeOK
  <2>1. ~Told(r, key[r])
    <3>1. PICK q \in Requests : Request(q)
      BY RequestsRest DEF Next
    <3>2. ReturnStoring(r)
      BY <3>1, StartsStoring
    <3> QED  BY <3>2 DEF ReturnStoring, RacedBefore, Told
  <2>2. ~Lacks(r, acked[key[r]])
    BY <2>1 DEF AckCovered
  <2>3. key[r] \in Keys /\ body[r] \in Body
    BY DEF Progress
  <2> QED  BY <2>2, <2>3, BoundsAssumption DEF Lacks, Body, Versions
<1> QED  BY <1>1, ReadInvInit, ReadInvStep, PTL DEF Spec, OnlyCurrentReadsStored

-----------------------------------------------------------------------------
(* Coalescing.  A registered read is under way and of the key it is         *)
(* registered for; so is the one a request waits for.                       *)
InFlight(r) == pc[r] \in {"origin", "read"} /\ lookup[r]

FlightInv ==
    /\ \A r \in Requests :
        pc[r] \in {"etag", "entry", "looked", "waiting", "released"} => lookup[r]
    /\ \A k \in Keys : inFlight[k] # None => InFlight(inFlight[k]) /\ key[inFlight[k]] = k
    /\ \A r \in Requests : pc[r] = "waiting" =>
        waitOn[r] \in Requests /\ InFlight(waitOn[r]) /\ key[waitOn[r]] = key[r]

LEMMA FlightRequest ==
    ASSUME TypeInv, FlightInv, NEW r \in Requests, Request(r)
    PROVE  FlightInv'
<1> USE NoneAssumption
<1> USE DEF TypeInv, TypeOK, Progress, FlightInv, InFlight, lookupVars, readVars
<1>1. ASSUME NEW k \in Keys, NEW tag \in Tags, Arrive(r, k, tag) PROVE FlightInv'
  BY <1>1 DEF Arrive
<1>2. ASSUME NEW k \in Keys, Hitpass(r, k) PROVE FlightInv'
  BY <1>2 DEF Hitpass, StartRead
<1>3. ASSUME NEW answered \in BOOLEAN, ReadEtag(r, answered) PROVE FlightInv'
  BY <1>3, SMTT(20) DEF ReadEtag, Respond
<1>4. ASSUME NEW answered \in BOOLEAN, ReadEntry(r, answered) PROVE FlightInv'
  BY <1>4 DEF ReadEntry
<1>5. CASE Hit(r)
  BY <1>5 DEF Hit, Respond
<1>6. CASE Join(r)
  BY <1>6 DEF Join, Joins
<1>7. CASE Lead(r)
  BY <1>7 DEF Lead, StartRead
<1>8. CASE ServeShared(r)
  BY <1>8 DEF ServeShared, Respond
<1>9. CASE OriginRead(r)
  BY <1>9 DEF OriginRead
<1>10. CASE HitpassReturn(r)
  BY <1>10 DEF HitpassReturn, Respond
<1>11. CASE Throws(r)
  BY <1>11 DEF Throws, Settle, Unregister
<1>12. CASE Refused(r)
  BY <1>12 DEF Refused, Settle, Unregister
<1>13. CASE ReturnRaced(r)
  BY <1>13 DEF ReturnRaced, Settle, Unregister
<1>14. CASE ReturnStoring(r)
  BY <1>14 DEF ReturnStoring, Settle, Unregister
<1>15. ASSUME NEW e \in Entries, NEW stored \in BOOLEAN, Land(r, e, stored) PROVE FlightInv'
  BY <1>15 DEF Land
<1>16. CASE Recheck(r)
  BY <1>16, SMTT(20) DEF Recheck
<1>17. ASSUME NEW e \in Entries, Clean(r, e) PROVE FlightInv'
  BY <1>17 DEF Clean
<1>18. CASE CleanLost(r)
  BY <1>18 DEF CleanLost
<1>19. CASE Depart(r)
  BY <1>19 DEF Depart
<1> QED  BY <1>1, <1>2, <1>3, <1>4, <1>5, <1>6, <1>7, <1>8, <1>9, <1>10, <1>11, <1>12,
            <1>13, <1>14, <1>15, <1>16, <1>17, <1>18, <1>19 DEF Request, Step

LEMMA FlightStep == TypeInv /\ FlightInv /\ [Next]_vars => FlightInv'
<1> SUFFICES ASSUME TypeInv, FlightInv, [Next]_vars, ~\E r \in Requests : Request(r)
             PROVE  FlightInv'
  BY FlightRequest
<1>1. UNCHANGED <<inFlight, pc, key, lookup, waitOn>>
  BY RequestsRest DEF Next
<1> QED  BY <1>1 DEF FlightInv, InFlight

\* Every body on its way to a request contains what had returned when the
\* request arrived.
FreshInv ==
    \A r \in Requests :
        /\ IF pc[r] = "idle" THEN response[r] = None ELSE floor[r] <= acked[key[r]]
        /\ pc[r] \in {"read", "storing"} => body[r].version >= floor[r]
        /\ (pc[r] = "waiting" /\ pc[waitOn[r]] = "read") => body[waitOn[r]].version >= floor[r]
        /\ (pc[r] = "released" /\ shared[r] # None) => shared[r].version >= floor[r]
        /\ (response[r] # None /\ response[r].via \in {"origin", "shared"}) =>
               response[r].body.version >= floor[r]

\* A read that is joined has not been outdated for whoever joins it.
LEMMA JoinedIsFresh ==
    ASSUME ReadInv, FlightInv, FreshInv, NEW r \in Requests, Join(r), pc[inFlight[key[r]]] = "read"
    PROVE  body[inFlight[key[r]]].version >= floor[r]
<1> DEFINE q == inFlight[key[r]]
<1>1. pc[r] = "looked" /\ key[r] \in Keys /\ q # None /\ ~purgedSince(gen[q], key[r])
  BY DEF Join, Joins, ReadInv, TypeInv, Progress
<1>2. q \in Requests /\ pc[q] = "read" /\ key[q] = key[r]
  BY <1>1 DEF FlightInv, ReadInv, TypeInv, TypeOK
<1> HIDE DEF q
<1>3. ~(body[q].version < acked[key[r]])
  BY <1>1, <1>2 DEF ReadInv, AckCovered, Lacks, Told
<1>4. floor[r] <= acked[key[r]]
  BY <1>1 DEF FreshInv
<1>5. body[q].version \in Int /\ acked[key[r]] \in Int /\ floor[r] \in Int
  BY <1>1, <1>2, BoundsAssumption DEF ReadInv, TypeInv, TypeOK, Progress, Body, Versions
<1>6. body[q].version >= floor[r]
  BY <1>3, <1>4, <1>5
<1> QED  BY <1>6 DEF q

\* The origin answers with all that has returned, and so with all that had
\* when anybody waiting for the key arrived.
LEMMA OriginIsFresh ==
    ASSUME ReadInv, FlightInv, FreshInv, NEW r \in Requests, NEW q \in Requests,
           pc[q] # "idle", key[q] = key[r]
    PROVE  db[key[r]] >= floor[q]
<1>1. key[r] \in Keys
  BY DEF ReadInv, TypeInv, Progress
<1>2. acked[key[r]] <= db[key[r]] /\ floor[q] <= acked[key[r]]
  BY <1>1 DEF ReadInv, ContentInv, FreshInv
<1>3. db[key[r]] \in Int /\ acked[key[r]] \in Int /\ floor[q] \in Int
  BY <1>1 DEF ReadInv, TypeInv, TypeOK, Versions
<1> QED  BY <1>2, <1>3

\* Nobody waits for a request that is not under way.
LEMMA NobodyWaits ==
    ASSUME FlightInv, NEW r \in Requests, pc[r] \notin {"origin", "read"}
    PROVE  \A q \in Requests : pc[q] = "waiting" => waitOn[q] # r
BY DEF FlightInv, InFlight

\* The end of a read: what it gives its waiters and its own response.
LEMMA SettledIsFresh ==
    ASSUME ReadInv, FlightInv, FreshInv, NEW r \in Requests, pc[r] = "read",
           NEW next \in {"done", "storing"}, NEW value, Settle(r, next, value),
           value = None \/ value.version = body[r].version,
           body'[r].version = body[r].version,
           \A q \in Requests : q # r => body'[q] = body[q] /\ response'[q] = response[q],
           response'[r].via = "origin" => response'[r].body.version = body[r].version,
           response'[r].via # "shared",
           UNCHANGED <<key, floor, acked>>
    PROVE  FreshInv'
<1> USE DEF ReadInv, TypeInv, TypeOK
<1>1. \A q \in Requests : (pc[q] = "waiting" /\ waitOn[q] = r) => body[r].version >= floor[q]
  BY DEF FreshInv
<1>2. /\ pc'[r] = next
      /\ \A q \in Requests : q # r =>
            IF pc[q] = "waiting" /\ waitOn[q] = r
            THEN pc'[q] = "released" /\ shared'[q] = value
            ELSE pc'[q] = pc[q] /\ shared'[q] = shared[q] /\ waitOn'[q] = waitOn[q]
  BY DEF Settle
<1>3. \A q \in Requests :
            (q # r /\ pc'[q] = "waiting")
                => /\ pc[q] = "waiting" /\ waitOn[q] # r /\ waitOn'[q] = waitOn[q]
                   /\ waitOn[q] \in Requests
  BY <1>2 DEF FlightInv
<1>4. body[r].version >= floor[r]
  BY DEF FreshInv
<1> SUFFICES ASSUME NEW q \in Requests
             PROVE  /\ IF pc'[q] = "idle" THEN response'[q] = None ELSE floor[q] <= acked[key[q]]
                    /\ pc'[q] \in {"read", "storing"} => body'[q].version >= floor[q]
                    /\ (pc'[q] = "waiting" /\ pc'[waitOn'[q]] = "read") =>
                           body'[waitOn'[q]].version >= floor[q]
                    /\ (pc'[q] = "released" /\ shared'[q] # None) => shared'[q].version >= floor[q]
                    /\ (response'[q] # None /\ response'[q].via \in {"origin", "shared"}) =>
                           response'[q].body.version >= floor[q]
  BY DEF FreshInv
<1>5. CASE q = r
  BY <1>2, <1>4, <1>5 DEF FreshInv
<1>6. CASE q # r
  <2>1. IF pc'[q] = "idle" THEN response'[q] = None ELSE floor[q] <= acked[key[q]]
    BY <1>2, <1>6 DEF FreshInv
  <2>2. pc'[q] \in {"read", "storing"} => body'[q].version >= floor[q]
    BY <1>2, <1>6 DEF FreshInv
  <2>3. (pc'[q] = "waiting" /\ pc'[waitOn'[q]] = "read") => body'[waitOn'[q]].version >= floor[q]
    BY <1>2, <1>3, <1>6 DEF FreshInv
  <2>4. (pc'[q] = "released" /\ shared'[q] # None) => shared'[q].version >= floor[q]
    BY <1>1, <1>2, <1>6 DEF FreshInv
  <2>5. (response'[q] # None /\ response'[q].via \in {"origin", "shared"}) =>
            response'[q].body.version >= floor[q]
    BY <1>6 DEF FreshInv
  <2> QED  BY <2>1, <2>2, <2>3, <2>4, <2>5
<1> QED  BY <1>5, <1>6

LEMMA FreshRequest ==
    ASSUME ReadInv, FlightInv, FreshInv, NEW r \in Requests, Request(r)
    PROVE  FreshInv'
<1>0. /\ \A q \in Requests : floor[q] \in Int
      /\ \A k \in Keys : acked[k] \in Int
  BY DEF ReadInv, TypeInv, TypeOK, Versions
<1>a. pc[r] \notin {"origin", "read"} => \A q \in Requests : pc[q] = "waiting" => waitOn[q] # r
  BY NobodyWaits
<1> USE DEF TypeInv, TypeOK, ReadInv, FreshInv, contentVars, lookupVars, readVars
<1>1. ASSUME NEW k \in Keys, NEW tag \in Tags, Arrive(r, k, tag) PROVE FreshInv'
  BY <1>0, <1>1, <1>a DEF Arrive
<1>2. ASSUME NEW k \in Keys, Hitpass(r, k) PROVE FreshInv'
  BY <1>0, <1>2, <1>a DEF Hitpass, StartRead
<1>3. ASSUME NEW answered \in BOOLEAN, ReadEtag(r, answered) PROVE FreshInv'
  <2> DEFINE tag == IF answered THEN store[<<key[r], "etag">>] ELSE None
  <2>1. pc[r] = "etag" /\ UNCHANGED <<acked, key, floor, waitOn, shared, body>>
    BY <1>3 DEF ReadEtag
  <2>2. CASE tag # None /\ tag = ifNoneMatch[r]
    <3>1. pc' = [pc EXCEPT ![r] = "done"]
      BY <1>3, <2>2 DEF ReadEtag, Respond
    <3>2. response' = [response EXCEPT ![r] =
              [body |-> tag, etag |-> None, via |-> "etag", cached |-> TRUE]]
      BY <1>3, <2>2 DEF ReadEtag, Respond
    <3> HIDE DEF tag
    <3> QED  BY <2>1, <3>1, <3>2, <1>a
  <2>3. CASE ~(tag # None /\ tag = ifNoneMatch[r])
    <3>1. pc' = [pc EXCEPT ![r] = "entry"] /\ UNCHANGED response
      BY <1>3, <2>3 DEF ReadEtag
    <3> QED  BY <2>1, <3>1, <1>a
  <2> QED  BY <2>2, <2>3
<1>4. ASSUME NEW answered \in BOOLEAN, ReadEntry(r, answered) PROVE FreshInv'
  BY <1>4 DEF ReadEntry
<1>5. CASE Hit(r)
  BY <1>5 DEF Hit, Respond
<1>6. CASE Join(r)
  <2>1. pc[inFlight[key[r]]] = "read" => body[inFlight[key[r]]].version >= floor[r]
    BY <1>6, JoinedIsFresh
  <2>2. pc[r] = "looked" /\ pc' = [pc EXCEPT ![r] = "waiting"]
        /\ waitOn' = [waitOn EXCEPT ![r] = inFlight[key[r]]]
        /\ UNCHANGED <<acked, key, floor, shared, body, response>>
    BY <1>6 DEF Join
  <2>3. inFlight[key[r]] \in Requests /\ inFlight[key[r]] # r
    BY <1>6, <2>2 DEF Join, Joins, FlightInv, InFlight, Progress
  <2>4. \A q \in Requests : pc[q] = "waiting" => waitOn[q] \in Requests
    BY DEF FlightInv
  <2> QED  BY <2>1, <2>2, <2>3, <2>4, <1>a
<1>7. CASE Lead(r)
  BY <1>7 DEF Lead, StartRead
<1>8. CASE ServeShared(r)
  BY <1>8 DEF ServeShared, Respond
<1>9. CASE OriginRead(r)
  <2>1. \A q \in Requests : (pc[q] # "idle" /\ key[q] = key[r]) => db[key[r]] >= floor[q]
    BY <1>9, OriginIsFresh DEF OriginRead
  <2>2. \A q \in Requests : (pc[q] = "waiting" /\ waitOn[q] = r) => key[q] = key[r]
    BY DEF FlightInv
  <2> QED  BY <1>9, <2>1, <2>2 DEF OriginRead
<1>10. CASE HitpassReturn(r)
  BY <1>10 DEF HitpassReturn, Respond, Answer
<1>11. CASE Throws(r)
  BY <1>11, SettledIsFresh DEF Throws
<1>12. CASE Refused(r)
  <2>1. body'[r].version = body[r].version /\ \A q \in Requests : q # r => body'[q] = body[q]
    BY <1>12 DEF Refused, Body, Progress
  <2> QED  BY <1>12, <2>1, SettledIsFresh, SMTT(20) DEF Refused, Published, Answer
<1>13. CASE ReturnRaced(r)
  BY <1>13, SettledIsFresh DEF ReturnRaced, Published, Answer
<1>14. CASE ReturnStoring(r)
  BY <1>14, SettledIsFresh DEF ReturnStoring, Published, Answer
<1>15. ASSUME NEW e \in Entries, NEW stored \in BOOLEAN, Land(r, e, stored) PROVE FreshInv'
  BY <1>15 DEF Land
<1>16. CASE Recheck(r)
  <2>1. \E next \in {"cleaning", "done"} : pc' = [pc EXCEPT ![r] = next]
    BY <1>16 DEF Recheck
  <2>2. pc[r] = "storing" /\ UNCHANGED <<acked, key, floor, waitOn, shared, body, response>>
    BY <1>16 DEF Recheck
  <2> QED  BY <2>1, <2>2
<1>17. ASSUME NEW e \in Entries, Clean(r, e) PROVE FreshInv'
  BY <1>17 DEF Clean
<1>18. CASE CleanLost(r)
  BY <1>18 DEF CleanLost
<1>19. CASE Depart(r)
  BY <1>19, <1>a DEF Depart
<1> QED  BY <1>1, <1>2, <1>3, <1>4, <1>5, <1>6, <1>7, <1>8, <1>9, <1>10, <1>11, <1>12,
            <1>13, <1>14, <1>15, <1>16, <1>17, <1>18, <1>19 DEF Request, Step

\* Writes that return only raise what has returned.
LEMMA FreshOthers ==
    ASSUME ReadInv, FreshInv, [Next]_vars, ~\E r \in Requests : Request(r)
    PROVE  FreshInv'
<1>1. UNCHANGED <<pc, key, floor, waitOn, shared, body, response>>
  BY RequestsRest DEF Next
<1>2. \A k \in Keys : acked[k] <= acked'[k] /\ acked[k] \in Int /\ acked'[k] \in Int
  <2> USE DEF ReadInv, TypeInv, TypeOK, Versions
  <2>1. ASSUME NEW w \in Writers, Writer(w), ~Return(w) PROVE UNCHANGED acked
    BY <2>1 DEF Writer, Commit, ManualPurge, Reset, PurgeStep, PurgeAfterWrite, ListKeys,
       Clear, PurgeLost, Delete, contentVars
  <2>2. ASSUME NEW w \in Writers, Return(w)
        PROVE  \A k \in Keys : acked[k] <= acked'[k] /\ acked'[k] \in Int
    BY <2>2 DEF Return
  <2>3. ASSUME (\E e \in Entries : Expire(e)) \/ UNCHANGED vars PROVE UNCHANGED acked
    BY <2>3 DEF Expire, vars, contentVars
  <2> QED  BY <2>1, <2>2, <2>3 DEF Next
<1>3. \A r \in Requests : floor[r] \in Int /\ (pc[r] # "idle" => key[r] \in Keys)
  BY DEF ReadInv, TypeInv, TypeOK, Progress, Versions
<1> QED  BY <1>1, <1>2, <1>3 DEF FreshInv

(* Coalescing never hands out content older than what had returned when the *)
(* request arrived, even when deletes are lost (recv.ts, the purgedSince    *)
(* check before joining).                                                   *)
THEOREM SharedReadsAreFresh == Spec => []OriginResponsesAreFresh
<1> DEFINE Inv == ReadInv /\ FlightInv /\ FreshInv
<1>1. Init => Inv
  <2>1. Init => FlightInv /\ FreshInv
    BY DEF Init, FlightInv, FreshInv
  <2> QED  BY <2>1, ReadInvInit
<1>2. Inv /\ [Next]_vars => Inv'
  <2>1. ReadInv => TypeInv
    BY DEF ReadInv
  <2> QED  BY <2>1, ReadInvStep, FlightStep, FreshRequest, FreshOthers
<1>3. Inv => OriginResponsesAreFresh
  BY DEF FreshInv, OriginResponsesAreFresh
<1> HIDE DEF Inv
<1> QED  BY <1>1, <1>2, <1>3, PTL DEF Spec

-----------------------------------------------------------------------------
(* One origin call for concurrent misses.  A read that is no longer the one *)
(* registered for its key has been outdated by a purge, so that the request *)
(* that took its place could not have joined it.                            *)
Outdated(r) == Purged(gen[r], key[r]) \/ generation - gen[r] > PurgeLogSize

Registered == \A r \in Requests : InFlight(r) => inFlight[key[r]] = r \/ Outdated(r)

SingleInv ==
    /\ \A r \in Requests :
        /\ pc[r] = "idle" => ~lookup[r]
        /\ pc[r] = "released" => shared[r] # None
    /\ Registered
    /\ SingleFlight

\* A step that starts no read the cache may share.
LEMMA SingleFrame ==
    ASSUME Registered, SingleFlight, UNCHANGED logVars,
           \A q \in Requests : (pc'[q] \in {"origin", "read"} /\ lookup'[q]) =>
               /\ InFlight(q) /\ key'[q] = key[q] /\ gen'[q] = gen[q]
               /\ inFlight[key[q]] = q => inFlight'[key[q]] = q
    PROVE  Registered' /\ SingleFlight'
<1>1. Registered'
  BY DEF Registered, InFlight, Outdated, Purged, logVars
<1>2. SingleFlight'
  BY DEF SingleFlight, InFlight, logVars
<1> QED  BY <1>1, <1>2

\* A request that starts a read finds those under way for its key outdated.
LEMMA LeadFindsOutdated ==
    ASSUME TypeInv, SingleInv, NEW r \in Requests, Lead(r),
           NEW q \in Requests, InFlight(q), key[q] = key[r]
    PROVE  Outdated(q) /\ gen[q] \in 0 .. generation /\ gen[q] # generation
<1> USE DEF TypeInv
<1>1. key[r] \in Keys /\ gen[q] \in 0 .. generation /\ generation \in Nat
  BY DEF Progress, TypeOK, LogTypeOK, InFlight
<1>2. Outdated(q)
  <2>1. ~Joins(r)
    BY DEF Lead, SingleInv
  <2>2. CASE inFlight[key[q]] = q
    <3>1. q # None
      BY NoneAssumption
    <3>2. purgedSince(gen[q], key[q])
      BY <2>1, <2>2, <3>1 DEF Joins
    <3> QED  BY <1>1, <3>2, UnrelatedPurgesIgnoredInv, SizeAssumption
             DEF Outdated, UnrelatedPurgesIgnored
  <2> QED  BY <2>2 DEF SingleInv, Registered
<1>3. gen[q] # generation
  BY <1>1, <1>2, SizeAssumption DEF Outdated, Purged
<1> QED  BY <1>1, <1>2, <1>3

LEMMA LeadIsSingle ==
    ASSUME TypeInv, SingleInv, NEW r \in Requests, Lead(r)
    PROVE  Registered' /\ SingleFlight'
<1> USE DEF TypeInv, TypeOK
<1>1. /\ pc' = [pc EXCEPT ![r] = "origin"] /\ gen' = [gen EXCEPT ![r] = generation]
      /\ inFlight' = [inFlight EXCEPT ![key[r]] = r]
      /\ UNCHANGED <<generation, history, key, lookup>>
      /\ pc[r] \notin {"origin", "read"} /\ key[r] \in Keys
  BY DEF Lead, StartRead, logVars, lookupVars, Progress
<1>2. \A q \in Requests : (InFlight(q) /\ key[q] = key[r]) =>
          Outdated(q) /\ gen[q] \in 0 .. generation /\ gen[q] # generation
  BY LeadFindsOutdated
<1>3. Registered'
  <2> SUFFICES ASSUME NEW q \in Requests, InFlight(q)', inFlight'[key[q]] # q
               PROVE  Outdated(q)'
    BY <1>1 DEF Registered
  <2>1. q # r /\ InFlight(q)
    BY <1>1 DEF InFlight
  <2>2. Outdated(q)
    BY <1>1, <1>2, <2>1 DEF SingleInv, Registered
  <2> QED  BY <1>1, <2>1, <2>2 DEF Outdated, Purged
<1>4. SingleFlight'
  <2> SUFFICES ASSUME NEW q \in Requests, NEW s \in Requests, q # s, key[q] = key[s],
                      lookup[q], lookup[s], {pc'[q], pc'[s]} \subseteq {"origin", "read"},
                      gen'[q] <= gen'[s]
               PROVE  \/ \E g \in gen'[q] + 1 .. gen'[s] : key[q] \in history[g]
                      \/ gen'[s] - gen'[q] > PurgeLogSize
    BY <1>1 DEF SingleFlight
  <2>1. CASE q = r
    <3>1. InFlight(s) /\ gen'[s] = gen[s] /\ gen'[q] = generation
      BY <1>1, <2>1 DEF InFlight
    <3> QED  BY <1>2, <2>1, <3>1 DEF LogTypeOK
  <2>2. CASE s = r
    <3>1. InFlight(q) /\ gen'[q] = gen[q] /\ gen'[s] = generation
      BY <1>1, <2>2 DEF InFlight
    <3> QED  BY <1>2, <2>2, <3>1 DEF Outdated, Purged
  <2>3. CASE q # r /\ s # r
    BY <1>1, <2>3 DEF SingleInv, SingleFlight
  <2> QED  BY <2>1, <2>2, <2>3
<1> QED  BY <1>3, <1>4

LEMMA SingleRequest ==
    ASSUME Outcomes \subseteq {"ok"}, TypeInv, SingleInv, NEW r \in Requests, Request(r)
    PROVE  SingleInv'
<1> DEFINE Frame ==
        /\ UNCHANGED logVars
        /\ \A q \in Requests : (pc'[q] \in {"origin", "read"} /\ lookup'[q]) =>
               /\ InFlight(q) /\ key'[q] = key[q] /\ gen'[q] = gen[q]
               /\ inFlight[key[q]] = q => inFlight'[key[q]] = q
           Resting == \A q \in Requests :
               /\ pc'[q] = "idle" => ~lookup'[q]
               /\ pc'[q] = "released" => shared'[q] # None
<1>0. ASSUME Frame, Resting PROVE SingleInv'
  BY <1>0, SingleFrame DEF SingleInv
<1> SUFFICES (Frame /\ Resting) \/ SingleInv'
  BY <1>0
<1>b. \A q \in Requests : /\ pc[q] = "idle" => ~lookup[q]
                          /\ pc[q] = "released" => shared[q] # None
  BY DEF SingleInv
<1> USE NoneAssumption, <1>b
<1> USE DEF TypeInv, TypeOK, Progress, InFlight, lookupVars, readVars
<1>1. ASSUME NEW k \in Keys, NEW tag \in Tags, Arrive(r, k, tag) PROVE Frame /\ Resting
  BY <1>1 DEF Arrive
<1>2. ASSUME NEW k \in Keys, Hitpass(r, k) PROVE Frame /\ Resting
  BY <1>2 DEF Hitpass, StartRead
<1>3. ASSUME NEW answered \in BOOLEAN, ReadEtag(r, answered) PROVE Frame /\ Resting
  BY <1>3 DEF ReadEtag, Respond
<1>4. ASSUME NEW answered \in BOOLEAN, ReadEntry(r, answered) PROVE Frame /\ Resting
  BY <1>4 DEF ReadEntry
<1>5. CASE Hit(r)
  BY <1>5 DEF Hit, Respond
<1>6. CASE Join(r)
  BY <1>6 DEF Join
<1>7. CASE Lead(r)
  <2>1. Resting
    BY <1>7 DEF Lead, StartRead
  <2> QED  BY <1>7, <2>1, LeadIsSingle DEF SingleInv
<1>8. CASE ServeShared(r)
  BY <1>8 DEF ServeShared, Respond
<1>9. CASE OriginRead(r)
  BY <1>9 DEF OriginRead
<1>10. CASE HitpassReturn(r)
  BY <1>10 DEF HitpassReturn, Respond
<1>11. ~Throws(r) /\ ~Refused(r)
  BY DEF Throws, Refused
<1>12. CASE ReturnRaced(r)
  BY <1>12 DEF ReturnRaced, Settle, Published, Unregister
<1>13. CASE ReturnStoring(r)
  BY <1>13 DEF ReturnStoring, Settle, Published, Unregister
<1>14. ASSUME NEW e \in Entries, NEW stored \in BOOLEAN, Land(r, e, stored) PROVE Frame /\ Resting
  BY <1>14 DEF Land
<1>15. CASE Recheck(r)
  BY <1>15 DEF Recheck
<1>16. ASSUME NEW e \in Entries, Clean(r, e) PROVE Frame /\ Resting
  BY <1>16 DEF Clean
<1>17. CASE CleanLost(r)
  BY <1>17 DEF CleanLost
<1>18. CASE Depart(r)
  BY <1>18 DEF Depart
<1> QED  BY <1>1, <1>2, <1>3, <1>4, <1>5, <1>6, <1>7, <1>8, <1>9, <1>10, <1>11, <1>12,
            <1>13, <1>14, <1>15, <1>16, <1>17, <1>18 DEF Request, Step

\* A purge adds to the history and takes nothing from it.
LEMMA SingleRecord ==
    ASSUME TypeInv, Registered, SingleFlight, NEW matched \in SUBSET Keys, RecordPurge(matched),
           UNCHANGED <<inFlight, pc, key, lookup, gen>>
    PROVE  Registered' /\ SingleFlight'
<1>1. /\ generation \in Nat /\ generation' = generation + 1
      /\ \A g \in 1 .. generation : history'[g] = history[g]
      /\ \A q \in Requests : gen[q] \in 0 .. generation
  BY DEF TypeInv, TypeOK, Progress, LogInv, LogTypeOK, LogIsSuffix, RecordPurge
<1>2. \A q \in Requests : Outdated(q) => Outdated(q)'
  BY <1>1, SizeAssumption DEF Outdated, Purged
<1>3. Registered'
  BY <1>2 DEF Registered, InFlight
<1>4. SingleFlight'
  BY <1>1 DEF SingleFlight
<1> QED  BY <1>3, <1>4

LEMMA SingleOthers ==
    ASSUME TypeInv, SingleInv, [Next]_vars, ~\E r \in Requests : Request(r)
    PROVE  SingleInv'
<1>1. UNCHANGED <<inFlight, pc, key, lookup, shared, gen>>
  BY RequestsRest DEF Next
<1>2. UNCHANGED logVars \/ \E matched \in SUBSET Keys : RecordPurge(matched)
  <2>1. ASSUME NEW w \in Writers, Writer(w)
        PROVE  UNCHANGED logVars \/ \E matched \in SUBSET Keys : RecordPurge(matched)
    BY <2>1, KeysAssumption DEF Writer, PurgeStep, Commit, ManualPurge, Reset, PurgeAfterWrite,
       ListKeys, Clear, PurgeLost, Return, Delete, StartPurge, TypeInv, TypeOK
  <2> QED  BY <2>1 DEF Next, Expire, vars
<1>3. Registered' /\ SingleFlight'
  <2>1. CASE UNCHANGED logVars
    BY <1>1, <2>1, SingleFrame DEF SingleInv, InFlight
  <2> QED  BY <1>1, <1>2, <2>1, SingleRecord DEF SingleInv
<1> QED  BY <1>1, <1>3 DEF SingleInv

(* Concurrent misses cost one origin call, for every size of the log, when  *)
(* every origin call returns a response that may be shared: a refused or    *)
(* failed call sends each of its waiters to the origin on its own (recv.ts, *)
(* inFlight).                                                               *)
THEOREM MissesShareOneRead ==
    ASSUME Outcomes \subseteq {"ok"}
    PROVE  Spec => []SingleFlight
<1> DEFINE Inv == TypeInv /\ SingleInv
<1>1. Init => Inv
  BY TypeInit DEF TypeInv, Init, SingleInv, Registered, InFlight, SingleFlight
<1>2. Inv /\ [Next]_vars => Inv'
  <2>1. TypeInv /\ [Next]_vars => TypeInv'
    BY TypeStep DEF TypeInv
  <2> QED  BY <2>1, SingleRequest, SingleOthers
<1>3. Inv => SingleFlight
  BY DEF SingleInv
<1> HIDE DEF Inv
<1> QED  BY <1>1, <1>2, <1>3, PTL DEF Spec

=============================================================================

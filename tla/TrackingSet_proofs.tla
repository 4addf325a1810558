-------------------------- MODULE TrackingSet_proofs --------------------------
(***************************************************************************)
(* UntrackedIsAdopted for every number of names, writes, purges and        *)
(* pruning processes.  It is inductive with the type invariant and two     *)
(* facts: a write is between the two commands of one name at most, and     *)
(* delMany handles only names it was given.  PurgeRemovesSettled follows   *)
(* from it where no process prunes.                                        *)
(***************************************************************************)
EXTENDS TrackingSet, TLAPS

OneAtATime == \A s \in Setters : \A m, n \in setting[s] : m = n

TodoIsListed ==
    \A p \in Purgers :
        /\ todo[p] \subseteq listed[p]
        /\ purging[p] = "returned" => todo[p] = {}

Inv == TypeOK /\ OneAtATime /\ TodoIsListed /\ UntrackedIsAdopted

LEMMA InvInit == Init => Inv
BY FaultsAssumption, ServersAssumption DEF Init, Inv, TypeOK, OneAtATime, TodoIsListed, UntrackedIsAdopted

-----------------------------------------------------------------------------
(* Every command keeps the state well-typed.                                *)
LEMMA TypeNext == TypeOK /\ [Next]_vars => TypeOK'
<1> SUFFICES ASSUME TypeOK, [Next]_vars PROVE TypeOK'
  OBVIOUS
<1> USE FaultsAssumption DEF TypeOK
<1>1. ASSUME NEW n \in Names, SetMulti(n) \/ Expire(n) PROVE TypeOK'
  BY <1>1 DEF SetMulti, Expire, Overwritten, pruneVars, purgeVars
<1>2. ASSUME NEW s \in Setters, Setter(s) PROVE TypeOK'
  <2>1. CASE SetSecondFails(s)
    BY <2>1 DEF SetSecondFails, pruneVars, purgeVars
  <2>2. ASSUME NEW n \in Names, SetFirst(s, n) PROVE TypeOK'
    BY <2>2 DEF SetFirst, Command, WriteOrder, Overwritten, pruneVars, purgeVars
  <2>3. ASSUME NEW n \in Names, SetSecond(s, n) PROVE TypeOK'
    BY <2>3 DEF SetSecond, Command, WriteOrder, pruneVars, purgeVars
  <2> QED  BY <1>2, <2>1, <2>2, <2>3 DEF Setter
<1>3. ASSUME NEW p \in Purgers, Purger(p) PROVE TypeOK'
  <2>1. ASSUME NEW matching \in SUBSET Names, Members(p, matching) PROVE TypeOK'
    BY <2>1 DEF Members, Settled, pruneVars
  <2>2. CASE DelMulti(p) \/ AllFirst(p) \/ AllSecond(p) \/ PurgeReturns(p)
    BY <2>2 DEF DelMulti, AllFirst, AllSecond, PurgeReturns, pruneVars
  <2>3. CASE DelFails(p)
    BY <2>3 DEF DelFails, pruneVars
  <2>4. ASSUME NEW n \in Names, DelFirst(p, n) PROVE TypeOK'
    BY <2>4 DEF DelFirst, Command, DeleteOrder, pruneVars
  <2>5. ASSUME NEW n \in Names, DelSecond(p, n) PROVE TypeOK'
    BY <2>5 DEF DelSecond, Command, DeleteOrder, pruneVars
  <2> QED  BY <1>3, <2>1, <2>2, <2>3, <2>4, <2>5 DEF Purger
<1>4. ASSUME NEW p \in Pruners, Pruner(p) PROVE TypeOK'
  <2>1. ASSUME NEW members \in SUBSET Names, Scan(p, members) PROVE TypeOK'
    BY <2>1 DEF Scan, purgeVars
  <2>2. ASSUME NEW n \in Names, NEW answered \in BOOLEAN, Check(p, n, answered)
        PROVE TypeOK'
    BY <2>2 DEF Check, purgeVars
  <2>3. ASSUME NEW n \in Names, NEW answered \in BOOLEAN, Recheck(p, n, answered)
        PROVE TypeOK'
    BY <2>3 DEF Recheck, purgeVars
  <2>4. ASSUME NEW applied \in BOOLEAN, Untrack(p, applied) PROVE TypeOK'
    BY <2>4 DEF Untrack, ToRecheck, purgeVars
  <2>5. CASE Retrack(p)
    BY <2>5 DEF Retrack, BatchDone, purgeVars
  <2>6. CASE RetrackAgain(p)
    BY <2>6 DEF RetrackAgain, TriesAgain, purgeVars
  <2>7. CASE RetrackFails(p)
    BY <2>7 DEF RetrackFails, BatchDone, purgeVars
  <2> QED  BY <1>4, <2>1, <2>2, <2>3, <2>4, <2>5, <2>6, <2>7 DEF Pruner
<1>5. CASE UNCHANGED vars
  BY <1>5 DEF vars, pruneVars, purgeVars
<1> QED  BY <1>1, <1>2, <1>3, <1>4, <1>5 DEF Next

(* A write has one name between its two commands.                           *)
LEMMA OneAtATimeNext == TypeOK /\ OneAtATime /\ [Next]_vars => OneAtATime'
<1> SUFFICES ASSUME TypeOK, OneAtATime, [Next]_vars PROVE OneAtATime'
  OBVIOUS
<1> USE DEF TypeOK, OneAtATime
<1>1. CASE UNCHANGED setting
  BY <1>1
<1>2. ASSUME NEW s \in Setters, Setter(s) PROVE OneAtATime'
  BY <1>2 DEF Setter, SetFirst, SetSecond, SetSecondFails
<1>3. ASSUME NEW p \in Purgers, Purger(p) PROVE UNCHANGED setting
  BY <1>3 DEF Purger, Members, DelMulti, AllFirst, AllSecond, DelFails, PurgeReturns,
              DelFirst, DelSecond
<1>4. ASSUME NEW p \in Pruners, Pruner(p) PROVE UNCHANGED setting
  BY <1>4 DEF Pruner, Scan, Check, Recheck, Untrack, Retrack, RetrackAgain,
              RetrackFails, BatchDone
<1> QED  BY <1>1, <1>2, <1>3, <1>4 DEF Next, vars, SetMulti, Expire

(* delMany handles only names it was given.                                 *)
LEMMA TodoIsListedNext == TypeOK /\ TodoIsListed /\ [Next]_vars => TodoIsListed'
<1> SUFFICES ASSUME TypeOK, TodoIsListed, [Next]_vars PROVE TodoIsListed'
  OBVIOUS
<1> USE DEF TypeOK, TodoIsListed
<1>1. CASE UNCHANGED purgeVars
  BY <1>1 DEF purgeVars
<1>2. ASSUME NEW n \in Names, SetMulti(n) \/ Expire(n) PROVE TodoIsListed'
  BY <1>2 DEF SetMulti, Expire, purgeVars
<1>3. ASSUME NEW s \in Setters, Setter(s) PROVE TodoIsListed'
  BY <1>3 DEF Setter, SetFirst, SetSecond, SetSecondFails, purgeVars
<1>4. ASSUME NEW p \in Purgers, Purger(p) PROVE TodoIsListed'
  <2>1. CASE AllSecond(p) \/ PurgeReturns(p) \/ DelMulti(p) \/ AllFirst(p) \/ DelFails(p)
    BY <2>1 DEF AllSecond, PurgeReturns, DelMulti, AllFirst, DelFails
  <2>2. ASSUME NEW matching \in SUBSET Names, Members(p, matching) PROVE TodoIsListed'
    BY <2>2 DEF Members
  <2>3. ASSUME NEW n \in Names, DelFirst(p, n) \/ DelSecond(p, n) PROVE TodoIsListed'
    BY <2>3 DEF DelFirst, DelSecond
  <2> QED  BY <1>4, <2>1, <2>2, <2>3 DEF Purger
<1>5. ASSUME NEW p \in Pruners, Pruner(p) PROVE UNCHANGED purgeVars
  BY <1>5 DEF Pruner, Scan, Check, Recheck, Untrack, Retrack, RetrackAgain,
              RetrackFails, BatchDone
<1> QED  BY <1>1, <1>2, <1>3, <1>4, <1>5 DEF Next, vars

-----------------------------------------------------------------------------
(* Every command keeps an untracked entry adopted.                          *)
LEMMA AdoptedNext == Inv /\ [Next]_vars => UntrackedIsAdopted'
<1> SUFFICES ASSUME Inv, [Next]_vars, faults' = 0, NEW m \in live' \ tracked'
             PROVE  Adopted(m)'
  BY DEF UntrackedIsAdopted
<1> USE DEF Inv, TypeOK, OneAtATime, TodoIsListed
<1>a. faults = 0 => (m \in live \ tracked => Adopted(m))
  BY DEF UntrackedIsAdopted
<1>1. ASSUME NEW n \in Names, SetMulti(n) \/ Expire(n) PROVE Adopted(m)'
  BY <1>1, <1>a DEF SetMulti, Expire, pruneVars, purgeVars, Adopted, BeingRemoved
<1>2. ASSUME NEW s \in Setters, Setter(s) PROVE Adopted(m)'
  <2>1. CASE SetSecondFails(s)
    BY <2>1, FaultsAssumption DEF SetSecondFails
  <2>2. ASSUME NEW n \in Names, SetFirst(s, n) PROVE Adopted(m)'
    BY <2>2, <1>a DEF SetFirst, Command, WriteOrder, pruneVars, Adopted, BeingRemoved
  <2>3. ASSUME NEW n \in Names, SetSecond(s, n) PROVE Adopted(m)'
    BY <2>3, <1>a DEF SetSecond, Command, WriteOrder, pruneVars, purgeVars, Adopted, BeingRemoved
  <2> QED  BY <1>2, <2>1, <2>2, <2>3 DEF Setter
<1>3. ASSUME NEW p \in Purgers, Purger(p) PROVE Adopted(m)'
  <2>1. ASSUME NEW matching \in SUBSET Names, Members(p, matching) PROVE Adopted(m)'
    BY <2>1, <1>a DEF Members, pruneVars, Adopted, BeingRemoved
  <2>2. CASE DelMulti(p)
    BY <2>2, <1>a DEF DelMulti, pruneVars, Adopted, BeingRemoved
  <2>3. CASE AllFirst(p)
    BY <2>3, <1>a DEF AllFirst, pruneVars, Adopted, BeingRemoved
  <2>4. CASE AllSecond(p) \/ PurgeReturns(p)
    BY <2>4, <1>a DEF AllSecond, PurgeReturns, pruneVars, Adopted, BeingRemoved
  <2>5. CASE DelFails(p)
    BY <2>5, FaultsAssumption DEF DelFails
  <2>6. ASSUME NEW n \in Names, DelFirst(p, n) PROVE Adopted(m)'
    BY <2>6, <1>a DEF DelFirst, Command, DeleteOrder, pruneVars, Adopted, BeingRemoved
  <2>7. ASSUME NEW n \in Names, DelSecond(p, n) PROVE Adopted(m)'
    BY <2>7, <1>a DEF DelSecond, Command, DeleteOrder, pruneVars, Adopted, BeingRemoved
  <2> QED  BY <1>3, <2>1, <2>2, <2>3, <2>4, <2>5, <2>6, <2>7 DEF Purger
<1>4. ASSUME NEW p \in Pruners, Pruner(p) PROVE Adopted(m)'
  <2>1. ASSUME NEW members \in SUBSET Names, Scan(p, members) PROVE Adopted(m)'
    BY <2>1, <1>a DEF Scan, purgeVars, Adopted, BeingRemoved
  <2>2. ASSUME NEW n \in Names, NEW answered \in BOOLEAN, Check(p, n, answered)
        PROVE Adopted(m)'
    BY <2>2, <1>a DEF Check, purgeVars, Adopted, BeingRemoved
  <2>3. ASSUME NEW n \in Names, NEW answered \in BOOLEAN, Recheck(p, n, answered)
        PROVE Adopted(m)'
    BY <2>3, <1>a DEF Recheck, Found, purgeVars, Adopted, BeingRemoved
  <2>4. ASSUME NEW applied \in BOOLEAN, Untrack(p, applied) PROVE Adopted(m)'
    BY <2>4, <1>a DEF Untrack, ToRecheck, purgeVars, Adopted, BeingRemoved
  <2>5. CASE Retrack(p)
    BY <2>5, <1>a DEF Retrack, BatchDone, purgeVars, Adopted, BeingRemoved
  <2>6. CASE RetrackAgain(p)
    BY <2>6, <1>a DEF RetrackAgain, purgeVars, Adopted, BeingRemoved
  <2>7. CASE RetrackFails(p)
    BY <2>7, FaultsAssumption DEF RetrackFails
  <2> QED  BY <1>4, <2>1, <2>2, <2>3, <2>4, <2>5, <2>6, <2>7 DEF Pruner
<1>5. CASE UNCHANGED vars
  BY <1>5, <1>a DEF vars, pruneVars, purgeVars, Adopted, BeingRemoved
<1> QED  BY <1>1, <1>2, <1>3, <1>4, <1>5 DEF Next

LEMMA InvNext == Inv /\ [Next]_vars => Inv'
BY TypeNext, OneAtATimeNext, TodoIsListedNext, AdoptedNext DEF Inv

-----------------------------------------------------------------------------
\* What PurgeRemovesSettled rests on: an entry that some purge had to remove
\* is being removed for as long as it is there.
SettledIsRemoved ==
    faults = 0 => \A p \in Purgers : \A n \in before[p] \intersect live : BeingRemoved(n)

(* A prune hides what it untracks from the purge that lists meanwhile, so   *)
(* this needs that no process prunes.                                       *)
LEMMA SettledNext ==
    ASSUME Pruners = {}, Inv, SettledIsRemoved, [Next]_vars
    PROVE  SettledIsRemoved'
<1> SUFFICES ASSUME faults' = 0, NEW q \in Purgers, NEW m, m \in before'[q], m \in live'
             PROVE  BeingRemoved(m)'
  BY DEF SettledIsRemoved
<1> USE DEF Inv, TypeOK
<1>1. (m \in before[q] /\ m \in live /\ faults = 0) => BeingRemoved(m)
  BY DEF SettledIsRemoved
<1>2. ASSUME NEW n \in Names, SetMulti(n) \/ Expire(n) PROVE BeingRemoved(m)'
  BY <1>1, <1>2 DEF SetMulti, Expire, Overwritten, pruneVars, purgeVars, BeingRemoved
<1>3. ASSUME NEW s \in Setters, Setter(s) PROVE BeingRemoved(m)'
  <2>1. CASE SetSecondFails(s)
    BY <2>1 DEF SetSecondFails
  <2>2. ASSUME NEW n \in Names, SetFirst(s, n) PROVE BeingRemoved(m)'
    BY <1>1, <2>2 DEF SetFirst, Command, WriteOrder, Overwritten, pruneVars, BeingRemoved
  <2>3. ASSUME NEW n \in Names, SetSecond(s, n) PROVE BeingRemoved(m)'
    BY <1>1, <2>3 DEF SetSecond, Command, WriteOrder, pruneVars, purgeVars, BeingRemoved
  <2> QED  BY <1>3, <2>1, <2>2, <2>3 DEF Setter
<1>4. ASSUME NEW p \in Purgers, Purger(p) PROVE BeingRemoved(m)'
  <2>1. ASSUME NEW matching \in SUBSET Names, Members(p, matching) PROVE BeingRemoved(m)'
    <3>1. BeingRemoved(m) => BeingRemoved(m)'
      BY <2>1 DEF Members, BeingRemoved
    <3>2. CASE q # p
      BY <1>1, <2>1, <3>1, <3>2 DEF Members
    <3>3. CASE q = p
      <4>1. m \in Settled /\ m \in matching /\ m \in live /\ faults = 0
        BY <2>1, <3>3 DEF Members, Settled
      <4>2. CASE m \in tracked
        BY <2>1, <4>1, <4>2 DEF Members, BeingRemoved
      <4>3. CASE m \notin tracked
        BY <3>1, <4>1, <4>3 DEF UntrackedIsAdopted, Adopted, Settled
      <4> QED  BY <4>2, <4>3
    <3> QED  BY <3>2, <3>3
  <2>2. CASE DelMulti(p)
    BY <1>1, <2>2 DEF DelMulti, BeingRemoved
  <2>3. CASE AllFirst(p)
    BY <1>1, <2>3 DEF AllFirst, BeingRemoved
  <2>4. CASE AllSecond(p)
    BY <1>1, <2>4 DEF AllSecond, BeingRemoved
  <2>5. CASE DelFails(p)
    BY <2>5 DEF DelFails
  <2>6. CASE PurgeReturns(p)
    BY <1>1, <2>6 DEF PurgeReturns, BeingRemoved
  <2>7. ASSUME NEW n \in Names, DelFirst(p, n) PROVE BeingRemoved(m)'
    BY <1>1, <2>7 DEF DelFirst, Command, DeleteOrder, BeingRemoved
  <2>8. ASSUME NEW n \in Names, DelSecond(p, n) PROVE BeingRemoved(m)'
    BY <1>1, <2>8 DEF DelSecond, Command, DeleteOrder, BeingRemoved
  <2> QED  BY <1>4, <2>1, <2>2, <2>3, <2>4, <2>5, <2>6, <2>7, <2>8 DEF Purger
<1>5. CASE UNCHANGED vars
  BY <1>1, <1>5 DEF vars, pruneVars, purgeVars, BeingRemoved
<1> QED  BY <1>2, <1>3, <1>4, <1>5 DEF Next

-----------------------------------------------------------------------------
(* The variables keep their types.                                          *)
THEOREM TypeCorrect == Spec => []TypeOK
<1>1. Inv => TypeOK
  BY DEF Inv
<1> QED  BY <1>1, InvInit, InvNext, PTL DEF Spec

(* No interleaving of writes, purges, prunes and expiries, on any number of *)
(* processes, leaves an entry that no purge can find.                       *)
THEOREM NoEntryIsLost == Spec => []UntrackedIsAdopted
<1>1. Inv => UntrackedIsAdopted
  BY DEF Inv
<1> QED  BY <1>1, InvInit, InvNext, PTL DEF Spec

(* Where no process prunes, a purge that returns has removed every complete *)
(* entry it matched, or another purge is removing it: nothing an entry's    *)
(* writes and the other purges do hides it from SMEMBERS without somebody   *)
(* being at it (makeClusterSafe and delMany, the order of the commands).    *)
THEOREM PurgeIsComplete ==
    ASSUME Pruners = {}
    PROVE  Spec => []PurgeRemovesSettled
<1>1. Init => Inv /\ SettledIsRemoved
  <2>1. Init => SettledIsRemoved
    BY DEF Init, SettledIsRemoved
  <2> QED  BY <2>1, InvInit
<1>2. Inv /\ SettledIsRemoved /\ [Next]_vars => Inv' /\ SettledIsRemoved'
  BY InvNext, SettledNext
<1>3. SettledIsRemoved => PurgeRemovesSettled
  BY DEF SettledIsRemoved, PurgeRemovesSettled
<1> QED  BY <1>1, <1>2, <1>3, PTL DEF Spec

=============================================================================

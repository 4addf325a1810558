----------------------------- MODULE TrackingSet -----------------------------
(***************************************************************************)
(* The redis provider's tracking set (provider-rest-cache-redis,           *)
(* RedisCacheProvider.ts): the entries live in the server, the set of      *)
(* their names is what keys() answers and therefore all a purge can find.  *)
(*                                                                         *)
(* Entries and set are changed by separate commands, of writes (SET, SADD),*)
(* of deletes (SREM, UNLINK) and of the background prune (EXISTS, SREM,    *)
(* EXISTS, SADD), from every Strapi process that shares the server.  On a  *)
(* standalone server a write and a delete are one MULTI each; a prune is   *)
(* a sequence of commands on any server.  Each action is one command as    *)
(* the server executes it; a variadic command over a chunk is taken name   *)
(* by name, which allows every interleaving the chunked one has.           *)
(***************************************************************************)
EXTENDS Naturals, FiniteSets

CONSTANTS
    Names,          \* entry names (qualified redis keys)
    Setters,        \* slots for concurrent writes
    Purgers,        \* slots for concurrent purges: keys(), then delMany
    Pruners,        \* processes that prune; each runs one pass at a time
    Servers,        \* the values client.isCluster can have
    MaxFaults       \* bound: failed commands that nothing makes up for

ASSUME ServersAssumption == Servers \subseteq BOOLEAN
ASSUME FaultsAssumption == MaxFaults \in Nat

VARIABLES
    isCluster,      \* whether the server is a Redis Cluster; never changes
    live,           \* names with an entry behind them
    tracked,        \* members of the tracking set
    setting,        \* per setter: the name between its two commands, as a set
    purging,        \* per purger: its phase
    todo,           \* per purger: names the current phase has still to handle
    listed,         \* per purger: the names delMany was given
    before,         \* per purger: complete entries it had to remove
    pruning,        \* per pruner: its phase
    batch,          \* per pruner: members still to check in this phase
    dead,           \* per pruner: members the first check found without entry
    rewritten,      \* per pruner: members of `dead` the second check found
    attempt,        \* per pruner: failed tries at tracking those again
    faults

purgeVars == <<purging, todo, listed, before>>
pruneVars == <<pruning, batch, dead, rewritten, attempt>>
vars == <<isCluster, live, tracked, setting, purgeVars, pruneVars, faults>>

Init ==
    /\ isCluster \in Servers
    /\ live = {}
    /\ tracked = {}
    /\ setting = [s \in Setters |-> {}]
    /\ purging = [p \in Purgers |-> "idle"]
    /\ todo = [p \in Purgers |-> {}]
    /\ listed = [p \in Purgers |-> {}]
    /\ before = [p \in Purgers |-> {}]
    /\ pruning = [p \in Pruners |-> "idle"]
    /\ batch = [p \in Pruners |-> {}]
    /\ dead = [p \in Pruners |-> {}]
    /\ rewritten = [p \in Pruners |-> {}]
    /\ attempt = [p \in Pruners |-> 0]
    /\ faults = 0

\* The effect of one command about name n on the server.
Command(c, n) ==
    CASE c = "SET"    -> live' = live \union {n} /\ UNCHANGED tracked
      [] c = "SADD"   -> tracked' = tracked \union {n} /\ UNCHANGED live
      [] c = "SREM"   -> tracked' = tracked \ {n} /\ UNCHANGED live
      [] c = "UNLINK" -> live' = live \ {n} /\ UNCHANGED tracked

\* The order in which a cluster is sent the two commands of a pair.
SetLast == <<"SADD", "SET">>
WriteOrder == <<"SET", "SADD">>
DeleteOrder == <<"SREM", "UNLINK">>

-----------------------------------------------------------------------------
\* set()

\* No longer an entry that a purge found: it has been written since.
Overwritten(n) == before' = [p \in Purgers |-> before[p] \ {n}]

SetMulti(n) ==
    /\ ~isCluster
    /\ live' = live \union {n}
    /\ tracked' = tracked \union {n}
    /\ Overwritten(n)
    /\ UNCHANGED <<isCluster, setting, purging, todo, listed, pruneVars, faults>>

SetFirst(s, n) ==
    /\ isCluster /\ setting[s] = {}
    /\ Command(WriteOrder[1], n)
    /\ setting' = [setting EXCEPT ![s] = {n}]
    /\ Overwritten(n)
    /\ UNCHANGED <<isCluster, purging, todo, listed, pruneVars, faults>>

SetSecond(s, n) ==
    /\ n \in setting[s]
    /\ Command(WriteOrder[2], n)
    /\ setting' = [setting EXCEPT ![s] = {}]
    /\ UNCHANGED <<isCluster, purgeVars, pruneVars, faults>>

\* The second command fails; set() rejects and nothing tries again.
SetSecondFails(s) ==
    /\ setting[s] # {} /\ faults < MaxFaults
    /\ faults' = faults + 1
    /\ setting' = [setting EXCEPT ![s] = {}]
    /\ UNCHANGED <<isCluster, live, tracked, purgeVars, pruneVars>>

\* PX: an entry disappears, its member stays.
Expire(n) ==
    /\ n \in live
    /\ live' = live \ {n}
    /\ UNCHANGED <<isCluster, tracked, setting, purgeVars, pruneVars, faults>>

-----------------------------------------------------------------------------
\* A purge: keys() and delMany() of the names that match; clear() on a cluster.

\* Entries whose write is complete.
Settled == live \ UNION {setting[s] : s \in Setters}

Members(p, matching) ==
    /\ purging[p] = "idle"
    /\ purging' = [purging EXCEPT ![p] = "first"]
    /\ listed' = [listed EXCEPT ![p] = tracked \intersect matching]
    /\ todo' = [todo EXCEPT ![p] = tracked \intersect matching]
    /\ before' = [before EXCEPT ![p] = Settled \intersect matching]
    /\ UNCHANGED <<isCluster, live, tracked, setting, pruneVars, faults>>

DelMulti(p) ==
    /\ ~isCluster /\ purging[p] = "first"
    /\ live' = live \ listed[p]
    /\ tracked' = tracked \ listed[p]
    /\ purging' = [purging EXCEPT ![p] = "returned"]
    /\ todo' = [todo EXCEPT ![p] = {}]
    /\ UNCHANGED <<isCluster, setting, listed, before, pruneVars, faults>>

\* The SREMs of all names, then their UNLINKs.
DelFirst(p, n) ==
    /\ isCluster /\ purging[p] = "first" /\ n \in todo[p]
    /\ Command(DeleteOrder[1], n)
    /\ todo' = [todo EXCEPT ![p] = @ \ {n}]
    /\ UNCHANGED <<isCluster, setting, purging, listed, before, pruneVars, faults>>

AllFirst(p) ==
    /\ isCluster /\ purging[p] = "first" /\ todo[p] = {}
    /\ purging' = [purging EXCEPT ![p] = "second"]
    /\ todo' = [todo EXCEPT ![p] = listed[p]]
    /\ UNCHANGED <<isCluster, live, tracked, setting, listed, before, pruneVars, faults>>

DelSecond(p, n) ==
    /\ purging[p] = "second" /\ n \in todo[p]
    /\ Command(DeleteOrder[2], n)
    /\ todo' = [todo EXCEPT ![p] = @ \ {n}]
    /\ UNCHANGED <<isCluster, setting, purging, listed, before, pruneVars, faults>>

AllSecond(p) ==
    /\ purging[p] = "second" /\ todo[p] = {}
    /\ purging' = [purging EXCEPT ![p] = "returned"]
    /\ UNCHANGED <<isCluster, live, tracked, setting, todo, listed, before, pruneVars,
                   faults>>

\* A command fails: delMany rejects, the rest is not sent.
DelFails(p) ==
    /\ purging[p] \in {"first", "second"} /\ faults < MaxFaults
    /\ faults' = faults + 1
    /\ purging' = [purging EXCEPT ![p] = "returned"]
    /\ todo' = [todo EXCEPT ![p] = {}]
    /\ UNCHANGED <<isCluster, live, tracked, setting, listed, before, pruneVars>>

PurgeReturns(p) ==
    /\ purging[p] = "returned"
    /\ purging' = [purging EXCEPT ![p] = "idle"]
    /\ listed' = [listed EXCEPT ![p] = {}]
    /\ before' = [before EXCEPT ![p] = {}]
    /\ UNCHANGED <<isCluster, live, tracked, setting, todo, pruneVars, faults>>

-----------------------------------------------------------------------------
\* untrackDead, on one batch of a pruneTrackingSet pass.

\* startPrune lets one pass run per process; SSCAN answers some members.
Scan(p, members) ==
    /\ pruning[p] = "idle"
    /\ members # {} /\ members \subseteq tracked
    /\ pruning' = [pruning EXCEPT ![p] = "check"]
    /\ batch' = [batch EXCEPT ![p] = members]
    /\ UNCHANGED <<isCluster, live, tracked, setting, purgeVars,
                   dead, rewritten, attempt, faults>>

\* existing(): an entry it cannot check is reported as existing.
Found(n, answered) == ~answered \/ n \in live

Check(p, n, answered) ==
    /\ pruning[p] = "check" /\ n \in batch[p]
    /\ batch' = [batch EXCEPT ![p] = @ \ {n}]
    /\ dead' = [dead EXCEPT ![p] = IF Found(n, answered) THEN @ ELSE @ \union {n}]
    /\ UNCHANGED <<isCluster, live, tracked, setting, purgeVars,
                   pruning, rewritten, attempt, faults>>

\* The SREM of the dead members, which may fail, applied or not.  What is to
\* be checked again is what was untracked.
ToRecheck(p) == dead[p]
Untrack(p, applied) ==
    /\ pruning[p] = "check" /\ batch[p] = {}
    /\ tracked' = IF applied THEN tracked \ dead[p] ELSE tracked
    /\ pruning' = [pruning EXCEPT ![p] = "recheck"]
    /\ batch' = [batch EXCEPT ![p] = ToRecheck(p)]
    /\ UNCHANGED <<isCluster, live, setting, purgeVars, dead, rewritten, attempt, faults>>

Recheck(p, n, answered) ==
    /\ pruning[p] = "recheck" /\ n \in batch[p]
    /\ batch' = [batch EXCEPT ![p] = @ \ {n}]
    /\ rewritten' = [rewritten EXCEPT ![p] = IF Found(n, answered) THEN @ \union {n} ELSE @]
    /\ UNCHANGED <<isCluster, live, tracked, setting, purgeVars,
                   pruning, dead, attempt, faults>>

BatchDone(p) ==
    /\ pruning' = [pruning EXCEPT ![p] = "idle"]
    /\ dead' = [dead EXCEPT ![p] = {}]
    /\ rewritten' = [rewritten EXCEPT ![p] = {}]
    /\ attempt' = [attempt EXCEPT ![p] = 0]
    /\ UNCHANGED <<isCluster, live, setting, purgeVars, batch>>

Retrack(p) ==
    /\ pruning[p] = "recheck" /\ batch[p] = {}
    /\ tracked' = tracked \union rewritten[p]
    /\ BatchDone(p)
    /\ UNCHANGED faults

\* The SADD fails and is tried again, the second time it is given up.
TriesThrice(p) == attempt[p] + 1 < 3
TriesAgain(p) == attempt[p] + 1 < 2

RetrackAgain(p) ==
    /\ pruning[p] = "recheck" /\ batch[p] = {} /\ rewritten[p] # {}
    /\ TriesAgain(p)
    /\ attempt' = [attempt EXCEPT ![p] = @ + 1]
    /\ UNCHANGED <<isCluster, live, tracked, setting, purgeVars, pruning, batch, dead,
                   rewritten, faults>>

RetrackFails(p) ==
    /\ pruning[p] = "recheck" /\ batch[p] = {} /\ rewritten[p] # {}
    /\ ~TriesAgain(p) /\ faults < MaxFaults
    /\ faults' = faults + 1
    /\ BatchDone(p)
    /\ UNCHANGED tracked

-----------------------------------------------------------------------------

Setter(s) == SetSecondFails(s) \/ \E n \in Names : SetFirst(s, n) \/ SetSecond(s, n)

Purger(p) ==
    \/ \E matching \in SUBSET Names : Members(p, matching)
    \/ DelMulti(p) \/ AllFirst(p) \/ AllSecond(p) \/ DelFails(p) \/ PurgeReturns(p)
    \/ \E n \in Names : DelFirst(p, n) \/ DelSecond(p, n)

Pruner(p) ==
    \/ \E members \in SUBSET Names : Scan(p, members)
    \/ \E n \in Names, answered \in BOOLEAN :
          Check(p, n, answered) \/ Recheck(p, n, answered)
    \/ \E applied \in BOOLEAN : Untrack(p, applied)
    \/ Retrack(p) \/ RetrackAgain(p) \/ RetrackFails(p)

Next ==
    \/ \E n \in Names : SetMulti(n) \/ Expire(n)
    \/ \E s \in Setters : Setter(s)
    \/ \E p \in Purgers : Purger(p)
    \/ \E p \in Pruners : Pruner(p)

Spec == Init /\ [][Next]_vars

-----------------------------------------------------------------------------

TypeOK ==
    /\ isCluster \in BOOLEAN
    /\ live \subseteq Names
    /\ tracked \subseteq Names
    /\ setting \in [Setters -> SUBSET Names]
    /\ purging \in [Purgers -> {"idle", "first", "second", "returned"}]
    /\ todo \in [Purgers -> SUBSET Names]
    /\ listed \in [Purgers -> SUBSET Names]
    /\ before \in [Purgers -> SUBSET Names]
    /\ pruning \in [Pruners -> {"idle", "check", "recheck"}]
    /\ batch \in [Pruners -> SUBSET Names]
    /\ dead \in [Pruners -> SUBSET Names]
    /\ rewritten \in [Pruners -> SUBSET Names]
    /\ attempt \in [Pruners -> {0, 1}]
    /\ faults \in 0 .. MaxFaults

\* A purge has listed n and not yet removed its entry.
BeingRemoved(n) ==
    \E p \in Purgers : /\ purging[p] \in {"first", "second"}
                       /\ n \in listed[p]
                       /\ purging[p] = "second" => n \in todo[p]

\* Somebody is about to track n, or to remove its entry.
Adopted(n) ==
    \/ \E s \in Setters : n \in setting[s]
    \/ BeingRemoved(n)
    \/ \E p \in Pruners : /\ pruning[p] = "recheck"
                          /\ n \in batch[p] \union rewritten[p]

(* No purge is blind to an entry for good: an entry missing from the        *)
(* tracking set is one whose write, delete or prune is still under way,     *)
(* whatever the interleaving, as long as no failed command is left without  *)
(* a second try (makeClusterSafe and untrackDead, the comments on the order *)
(* of the commands).                                                        *)
UntrackedIsAdopted ==
    faults = 0 => \A n \in live \ tracked : Adopted(n)

(* A purge removes what was there: when it returns, an entry whose write    *)
(* was complete when the purge read the tracking set is gone, or another    *)
(* purge is at it.                                                          *)
PurgeRemovesSettled ==
    faults = 0 => \A p \in Purgers : purging[p] = "returned" =>
        \A n \in before[p] \intersect live : BeingRemoved(n)

=============================================================================

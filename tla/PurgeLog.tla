------------------------------ MODULE PurgeLog ------------------------------
(***************************************************************************)
(* The bounded purge log of services/cacheStore.ts: the counter            *)
(* `generation`, the array `purgeLog`, recordPurge and purgedSince.        *)
(*                                                                         *)
(* A read of the origin samples `generation` and later asks whether a      *)
(* purge of its key has started since.  The log forgets its oldest entry   *)
(* once it is full, so the answer is computed from partial information.    *)
(* `history` is what the log forgets: every purge ever recorded.  No code  *)
(* reads it; the properties compare the code's answer with it.             *)
(*                                                                         *)
(* The list of regular expressions of a purge is modelled by the set of    *)
(* cache keys it matches; `null` (a reset) matches every key.              *)
(***************************************************************************)
EXTENDS Naturals, Sequences

CONSTANTS
    Keys,           \* the cache keys
    Scopes,         \* the sets of keys one purge can match
    PurgeLogSize,   \* PURGE_LOG_SIZE
    MaxPurges       \* bound: how many purges a behaviour records

ASSUME KeysAssumption == Scopes \subseteq SUBSET Keys
ASSUME SizeAssumption == PurgeLogSize \in Nat \ {0}
ASSUME BoundAssumption == MaxPurges \in Nat

VARIABLES
    generation,     \* number of purges recorded so far
    purgeLog,       \* the newest of them, oldest first
    history         \* all of them

logVars == <<generation, purgeLog, history>>

Purge == [generation : Nat, keys : SUBSET Keys]

-----------------------------------------------------------------------------

LogInit ==
    /\ generation = 0
    /\ purgeLog = <<>>
    /\ history = <<>>

\* `push`, then `shift` when the array has grown past its bound.
PushedNoShift(purge) == Append(purgeLog, purge)
Pushed(purge) ==
    LET longer == Append(purgeLog, purge)
    IN  IF Len(longer) > PurgeLogSize THEN Tail(longer) ELSE longer

\* recordPurge, for a purge whose patterns match exactly `matched`.
RecordPurge(matched) ==
    /\ generation' = generation + 1
    /\ purgeLog' = Pushed([generation |-> generation + 1, keys |-> matched])
    /\ history' = Append(history, matched)

\* A purge newer than `since` is no longer in the log.
ForgottenLate(since) == purgeLog[1].generation > since + 2
ForgottenEarly(since) == purgeLog[1].generation > since
Forgotten(since) == purgeLog[1].generation > since + 1

\* purgedSince(since, key): has a purge of `key` started since `since`?
\* The code scans from the newest entry and stops at the first that is not
\* newer than `since`; generations grow along the array, so the scan covers
\* exactly the entries newer than `since`.
purgedSince(since, key) ==
    /\ since # generation
    /\ \/ purgeLog = <<>>
       \/ Forgotten(since)
       \/ \E i \in DOMAIN purgeLog :
             /\ purgeLog[i].generation > since
             /\ key \in purgeLog[i].keys

-----------------------------------------------------------------------------

LogNext ==
    /\ generation < MaxPurges
    /\ \E matched \in Scopes \union {Keys} : RecordPurge(matched)

LogSpec == LogInit /\ [][LogNext]_logVars

-----------------------------------------------------------------------------

LogTypeOK ==
    /\ generation \in Nat
    /\ purgeLog \in Seq(Purge) /\ Len(purgeLog) <= PurgeLogSize
    /\ history \in Seq(SUBSET Keys)

\* A purge of `key` was recorded after generation `since`.
Purged(since, key) == \E g \in since + 1 .. generation : key \in history[g]

(* A read that raced a purge of its key is always told so, however many     *)
(* purges the log has forgotten in the meantime: purgedSince has no false   *)
(* negative (cacheStore.ts, purgedSince, over a log bounded by              *)
(* PURGE_LOG_SIZE).                                                         *)
NoMissedPurge ==
    \A since \in 0 .. generation, key \in Keys :
        Purged(since, key) => purgedSince(since, key)

(* A purge of something else does not stop a response from being stored,   *)
(* as long as no more purges than the log holds have started: the answer   *)
(* is exact until the log overflows ("the check is scoped to the key",     *)
(* cacheStore.ts, the comment on purgeLog).                                *)
UnrelatedPurgesIgnored ==
    \A since \in 0 .. generation, key \in Keys :
        (purgedSince(since, key) /\ generation - since <= PurgeLogSize)
            => Purged(since, key)

(* Once a read is told that its key was purged it is told so for ever: recv *)
(* asks before storing and again after, and a log that forgot the purge in  *)
(* between must not change the answer from yes to no.                       *)
PurgedIsSticky ==
    [][\A since \in 0 .. generation, k \in Keys :
            purgedSince(since, k) => purgedSince(since, k)']_logVars

(* The log is the end of the history: its entries carry consecutive         *)
(* generations up to the current one, at most PurgeLogSize of them, and     *)
(* none was dropped before the log was full.  This is the inductive         *)
(* invariant behind the properties above.                                   *)
LogIsSuffix ==
    /\ Len(history) = generation
    /\ Len(purgeLog) = IF generation < PurgeLogSize
                       THEN generation ELSE PurgeLogSize
    /\ \A i \in DOMAIN purgeLog :
          LET g == generation - Len(purgeLog) + i
          IN  purgeLog[i] = [generation |-> g, keys |-> history[g]]

=============================================================================

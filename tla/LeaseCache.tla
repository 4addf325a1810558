------------------------------ MODULE LeaseCache ------------------------------
(***************************************************************************)
(* What the read path of recv.ts and the purge log of cacheStore.ts        *)
(* promise together, without counters, logs or promises: a cache that is   *)
(* filled under leases.                                                    *)
(*                                                                         *)
(* A client that is about to ask the origin for a key takes a lease on it. *)
(* A purge revokes every lease on the keys it matches, and may revoke      *)
(* others.  A revoked lease stays revoked.  Filling starts only under a    *)
(* lease nobody revoked, and a client whose lease is revoked while it      *)
(* fills does not stop before it has retracted what it put in the cache.   *)
(*                                                                         *)
(* RestCacheRefinement shows that RestCache implements this.               *)
(***************************************************************************)
EXTENDS Naturals

CONSTANTS
    Keys, Entries,  \* an entry is <<key, part>>
    Clients,
    Scopes,         \* the sets of keys one write or one purge can match
    Versions,       \* of the content behind a key
    Values(_),      \* what the origin can answer for a version
    None

VARIABLES
    content,        \* per key: the version of what the origin would answer
    cache,          \* per entry: a value, or None
    lease,          \* per client: the state of its lease
    on,             \* the key it is on
    value,          \* what the origin answered
    owed            \* the entries the client has still to retract

leaseVars == <<content, cache, lease, on, value, owed>>

Init ==
    /\ content = [k \in Keys |-> 0]
    /\ cache = [e \in Entries |-> None]
    /\ lease = [c \in Clients |-> "none"]
    /\ on = [c \in Clients |-> None]
    /\ value = [c \in Clients |-> None]
    /\ owed = [c \in Clients |-> {}]

\* The lease is over, and what it was for is forgotten.
GiveUp(c) ==
    /\ lease' = [lease EXCEPT ![c] = "none"]
    /\ on' = [on EXCEPT ![c] = None]
    /\ value' = [value EXCEPT ![c] = None]
    /\ owed' = [owed EXCEPT ![c] = {}]

Take(c, k) ==
    /\ lease[c] = "none"
    /\ lease' = [lease EXCEPT ![c] = "valid"]
    /\ on' = [on EXCEPT ![c] = k]
    /\ UNCHANGED <<content, cache, value, owed>>

Load(c) ==
    /\ lease[c] \in {"valid", "revoked"} /\ value[c] = None
    /\ \E v \in Values(content[on[c]]) : value' = [value EXCEPT ![c] = v]
    /\ UNCHANGED <<content, cache, lease, on, owed>>

\* The client does not fill: always allowed, and all a revoked lease allows.
Abandon(c) ==
    /\ lease[c] \in {"valid", "revoked"}
    /\ GiveUp(c)
    /\ UNCHANGED <<content, cache>>

Begin(c) ==
    /\ lease[c] = "valid" /\ value[c] # None
    /\ lease' = [lease EXCEPT ![c] = "filling"]
    /\ UNCHANGED <<content, cache, on, value, owed>>

Fill(c, e) ==
    /\ lease[c] \in {"filling", "spoiled"} /\ e[1] = on[c]
    /\ cache' = [cache EXCEPT ![e] = value[c]]
    /\ UNCHANGED <<content, lease, on, value, owed>>

Finish(c) ==
    /\ lease[c] = "filling"
    /\ GiveUp(c)
    /\ UNCHANGED <<content, cache>>

\* The lease was revoked during the fill: every entry of the key has to go.
Retract(c) ==
    /\ lease[c] = "spoiled"
    /\ lease' = [lease EXCEPT ![c] = "retracting"]
    /\ owed' = [owed EXCEPT ![c] = {e \in Entries : e[1] = on[c]}]
    /\ UNCHANGED <<content, cache, on, value>>

Retracted(c, e) ==
    /\ lease[c] = "retracting" /\ e \in owed[c]
    /\ cache' = [cache EXCEPT ![e] = None]
    /\ IF owed[c] = {e}
       THEN GiveUp(c)
       ELSE owed' = [owed EXCEPT ![c] = @ \ {e}] /\ UNCHANGED <<lease, on, value>>
    /\ UNCHANGED content

Write ==
    /\ UNCHANGED <<cache, lease, on, value, owed>>
    /\ \E keys \in Scopes, v \in Versions :
          /\ \A k \in keys : content[k] < v
          /\ content' = [k \in Keys |-> IF k \in keys THEN v ELSE content[k]]

Revoked(state) ==
    CASE state = "valid" -> "revoked"
      [] state = "filling" -> "spoiled"
      [] OTHER -> state

Purge ==
    /\ UNCHANGED <<content, cache, on, value, owed>>
    /\ \E keys \in Scopes \union {Keys}, others \in SUBSET Clients :
          lease' = [c \in Clients |-> IF on[c] \in keys \/ c \in others
                                     THEN Revoked(lease[c]) ELSE lease[c]]

\* Purges, expiry and eviction take entries away at any time.
Drop ==
    /\ UNCHANGED <<content, lease, on, value, owed>>
    /\ \E entries \in SUBSET Entries :
          cache' = [e \in Entries |-> IF e \in entries THEN None ELSE cache[e]]

Next ==
    \/ \E c \in Clients :
          \/ \E k \in Keys : Take(c, k)
          \/ Load(c) \/ Abandon(c) \/ Begin(c) \/ Finish(c) \/ Retract(c)
          \/ \E e \in Entries : Fill(c, e) \/ Retracted(c, e)
    \/ Write \/ Purge \/ Drop

Spec == Init /\ [][Next]_leaseVars

=============================================================================

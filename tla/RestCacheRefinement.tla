------------------------- MODULE RestCacheRefinement -------------------------
(***************************************************************************)
(* RestCache implements LeaseCache.  The generation a read sampled is its  *)
(* lease, and the purge log's answer about it says whether the lease was   *)
(* revoked: nothing in the code stores the state of a lease.               *)
(***************************************************************************)
EXTENDS RestCache

Reading(r) == pc[r] \in {"origin", "read", "storing", "cleaning"}

Lease(r) ==
    CASE pc[r] \in {"origin", "read"} ->
            IF purgedSince(gen[r], key[r]) THEN "revoked" ELSE "valid"
      [] pc[r] = "storing" ->
            IF purgedSince(gen[r], key[r]) THEN "spoiled" ELSE "filling"
      [] pc[r] = "cleaning" -> "retracting"
      [] OTHER -> "none"

Answers(version) == {[version |-> version, private |-> FALSE]}

\* What a lease is on, and what its client got: forgotten once it is over.
LeasedKey(r) == IF Reading(r) THEN key[r] ELSE None
LeasedValue(r) == IF Reading(r) THEN body[r] ELSE None

Leases == INSTANCE LeaseCache WITH
    Clients <- Requests,
    Values <- Answers,
    content <- db,
    cache <- store,
    lease <- [r \in Requests |-> Lease(r)],
    on <- [r \in Requests |-> LeasedKey(r)],
    value <- [r \in Requests |-> LeasedValue(r)],
    owed <- uncleaned

(* The counter, the log that forgets, the two questions recv.ts asks of it  *)
(* and the awaited stores between them amount to leases that purges revoke: *)
(* a lease once revoked is never valid again, nothing is stored under a     *)
(* revoked one, and what was stored under a lease revoked meanwhile is      *)
(* deleted before the request is over.                                      *)
ImplementsLeases == Leases!Spec

=============================================================================

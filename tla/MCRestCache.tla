----------------------------- MODULE MCRestCache -----------------------------
(* Small instances of RestCache. *)
EXTENDS RestCacheRefinement, TLC

\* Purges of each key alone; a reset matches them all.
EachKey == {{k} : k \in Keys}

\* Slots are interchangeable, and so are keys.
Slots == Permutations(Requests) \union Permutations(Writers) \union Permutations(Keys)

=============================================================================

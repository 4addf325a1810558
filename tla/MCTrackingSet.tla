---------------------------- MODULE MCTrackingSet ----------------------------
(* Small instances of TrackingSet. *)
EXTENDS TrackingSet, TLC

Slots == Permutations(Names) \union Permutations(Setters)
            \union Permutations(Purgers) \union Permutations(Pruners)

=============================================================================

---------------------------- MODULE MCHotReload -----------------------------
(* Instances of HotReload for TLC. *)
EXTENDS HotReload, TLC

Interchangeable ==
    Permutations(Handles) \cup Permutations(Callers \ {Main})

=============================================================================

------------------------------ MODULE MCKvStore ------------------------------
(* An instance of KvStore. *)
EXTENDS KvStore, TLC

Interchangeable ==
    Permutations(Scripts) \cup Permutations(Gens) \cup Permutations(Values)

=============================================================================

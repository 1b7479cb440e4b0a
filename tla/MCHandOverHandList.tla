-------------------------- MODULE MCHandOverHandList --------------------------
(* Instances of HandOverHandList for TLC. *)
EXTENDS HandOverHandList, TLC

\* Threads of one kind are interchangeable.
Symmetry == Permutations(Comparers) \cup Permutations(Swappers)

=============================================================================

----------------------------- MODULE MCRacyQueue -----------------------------
(* Instances of RacyQueue for TLC. *)
EXTENDS RacyQueue, TLC

\* Addresses are interchangeable.
Symmetry == Permutations(Nodes)

=============================================================================

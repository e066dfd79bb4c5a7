---------------------------- MODULE MCAtomicFile ----------------------------
(* Two callers, two versions and two temporary names. *)
EXTENDS AtomicFile, TLC

CONSTANTS w1, w2, d1, d2, n1, n2

\* Callers, versions and names differ only by name.
Symmetry == Permutations(Writers) \cup Permutations(Data) \cup Permutations(Names)
=============================================================================

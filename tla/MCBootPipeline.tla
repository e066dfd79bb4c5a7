--------------------------- MODULE MCBootPipeline ---------------------------
(* Instances of BootPipeline for TLC: two workstations, one or two workers. *)
EXTENDS BootPipeline, TLC

CONSTANTS c1, c2, w1, w2

\* The workstations are interchangeable, and so are the workers.
Symmetry == Permutations({c1, c2}) \cup Permutations({w1, w2})
=============================================================================

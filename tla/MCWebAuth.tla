----------------------------- MODULE MCWebAuth -----------------------------
(* Instances of WebAuth for TLC. *)
EXTENDS WebAuth, TLC

CONSTANTS b1, b2, p1, p2, s1, s2, s3, s4, w1, w2

\* Browsers, passwords and ids that can be saved are interchangeable.
Symmetry == Permutations({b1, b2}) \cup Permutations({p1, p2})
                \cup Permutations({s1, s2, s3, s4})
=============================================================================

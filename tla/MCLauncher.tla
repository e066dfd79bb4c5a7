----------------------------- MODULE MCLauncher -----------------------------
(* Instances of Launcher for TLC: two addresses, one or two control goroutines. *)
EXTENDS Launcher

CONSTANTS a1, a2, g1, g2
=============================================================================

--------------------------- MODULE MCWorkstations ---------------------------
(***************************************************************************)
(* Lists of two slots, each with one of the things the real lists begin    *)
(* with after a first machine: a blank slot, as in the file the installer  *)
(* copies; the end of the list, as in the example file; a machine with the *)
(* tid of the one before, as in cfg.lua.                                   *)
(***************************************************************************)
EXTENDS Workstations

CONSTANTS h1, h2, b1, b2, w1, w2

First(second) == [k \in 1..2 |-> IF k = 1 THEN Machine(h1, 1, TRUE) ELSE second]

CfgLua == First(Machine(h2, 1, TRUE))
Files == {First(Bare("blank")), First(Bare("nil")), Missing}
=============================================================================

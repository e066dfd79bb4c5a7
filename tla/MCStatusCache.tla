--------------------------- MODULE MCStatusCache ----------------------------
(* Instances of StatusCache for TLC: two workers, one workstation, and an     *)
(* address whose text begins that of the workstation.                         *)
EXTENDS StatusCache

CONSTANTS w1, w2, ip1, ip2

\* The text of ip1 begins with that of ip2.
MCShortened == [ip \in IPs |-> IF ip = ip1 THEN IPs ELSE {ip}]
=============================================================================

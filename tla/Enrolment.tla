------------------------------ MODULE Enrolment ------------------------------
(***************************************************************************)
(* What the client registry promises the workstations, in one variable:    *)
(* the credentials that have reached them.  A MAC address is enrolled once *)
(* and for good, under an id and a token no other MAC address has; asking  *)
(* again answers the credential of the first time ("A MAC that already     *)
(* exists returns the existing client without creating a duplicate").      *)
(***************************************************************************)
CONSTANTS MACs, Ids, Tokens

VARIABLE issued

Credential == [mac : MACs, id : Ids, token : Tokens]

\* Two credentials have nothing in common.
Apart(c, d) == c.mac # d.mac /\ c.id # d.id /\ c.token # d.token

Init == issued = {}

\* A first enrolment; a repeated one changes nothing.
Enrol(c) ==
    /\ \A d \in issued : Apart(c, d)
    /\ issued' = issued \cup {c}

Next == \E c \in Credential : Enrol(c)

Spec == Init /\ [][Next]_issued
=============================================================================

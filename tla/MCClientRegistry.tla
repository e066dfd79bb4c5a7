-------------------------- MODULE MCClientRegistry --------------------------
(* Small instances of ClientRegistry: two workstations, one of which spells *)
(* its MAC address in two ways, and a spelling that is no MAC address.       *)
EXTENDS ClientRegistry, TLC

CONSTANTS m1, m2, h1, h2

MCMACs == {m1, m2}
MCSpellings == {"upper", "dashes", "other", "short"}
MCNormalize == [s \in MCSpellings |->
    IF s = "short" THEN NoMAC ELSE IF s = "other" THEN m2 ELSE m1]

\* One workstation, for the questions about time.
OneMAC == {m1}
OneSpelling == {"upper"}
OneNormalize == [s \in OneSpelling |-> m1]

\* Requests in flight differ only by name.
HandlerSymmetry == Permutations(Handlers)
=============================================================================

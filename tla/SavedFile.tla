----------------------------- MODULE SavedFile -----------------------------
(***************************************************************************)
(* What the server's callers rely on when they save a file: a save that    *)
(* answers success has replaced the whole file in one step, a save that    *)
(* answers an error has not touched it, and a process that stops leaves    *)
(* the file as it is.  Only a power loss may take the file back, and then  *)
(* to a whole earlier version.                                             *)
(***************************************************************************)
CONSTANTS Writers, Data, Absent

VARIABLES
    value,    \* what a reader of the file gets
    earlier,  \* the versions a power loss may bring back
    job       \* the save each writer has under way, and what became of it

NoJob == [phase |-> "none", data |-> Absent]

Init ==
    /\ value = Absent
    /\ earlier = {Absent}
    /\ job = [w \in Writers |-> NoJob]

Ask(w, d) ==
    /\ job[w] = NoJob
    /\ job' = [job EXCEPT ![w] = [phase |-> "asked", data |-> d]]
    /\ UNCHANGED <<value, earlier>>

Replace(w) ==
    /\ job[w].phase = "asked"
    /\ value' = job[w].data
    /\ earlier' = earlier \cup {job[w].data}
    /\ job' = [job EXCEPT ![w].phase = "saved"]

Refuse(w) ==
    /\ job[w].phase = "asked"
    /\ job' = [job EXCEPT ![w].phase = "refused"]
    /\ UNCHANGED <<value, earlier>>

Return(w) ==
    /\ job[w].phase \in {"saved", "refused"}
    /\ job' = [job EXCEPT ![w] = NoJob]
    /\ UNCHANGED <<value, earlier>>

Stop ==
    /\ job' = [w \in Writers |-> NoJob]
    /\ UNCHANGED <<value, earlier>>

Lose ==
    /\ job' = [w \in Writers |-> NoJob]
    /\ value' \in earlier
    /\ earlier' = {value'}

Next ==
    \/ \E w \in Writers : (\E d \in Data : Ask(w, d)) \/ Replace(w) \/ Refuse(w) \/ Return(w)
    \/ Stop
    \/ Lose

Spec == Init /\ [][Next]_<<value, earlier, job>>
=============================================================================

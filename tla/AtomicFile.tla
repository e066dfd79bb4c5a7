----------------------------- MODULE AtomicFile -----------------------------
(***************************************************************************)
(* atomicWriteFile (server/atomic.go), through which the server saves its  *)
(* configuration, its administrator record and the client registry.  One   *)
(* action per system call: a call may fail, another process may be saving  *)
(* the same file (a service and a console instance), the process may stop  *)
(* between any two calls, and the machine may lose its power.              *)
(*                                                                         *)
(* A file is a number.  content is what a reader sees; what a power loss   *)
(* leaves of a file that was not synced is anything.  Nothing syncs the    *)
(* directory, so after a power loss the path may name any file it has      *)
(* named since the last one: past holds them.                              *)
(***************************************************************************)
EXTENDS Naturals

CONSTANTS
    Writers,   \* callers that may save the file at the same time
    Data,      \* what they save
    Names,     \* names os.CreateTemp draws from
    NoName,
    Empty,     \* a created file with nothing written
    Partial,   \* a file with some of its data written
    Absent,    \* there is no file at the path
    MaxFiles,  \* bound: calls of CreateTemp that succeed
    MaxLoss    \* bound: losses of power

ASSUME FileAssumption ==
    /\ NoName \notin Names
    /\ Empty \notin Data /\ Partial \notin Data /\ Absent \notin Data
    /\ MaxFiles \in Nat
    /\ MaxLoss \in Nat

VARIABLES
    target,   \* the file the path names, 0 for none
    past,     \* the files it may name after a power loss
    temps,    \* the directory's other entries: name -> file, 0 for none
    content,  \* the data of each file
    synced,   \* the files whose data is on the disk
    files,    \* files created so far
    losses,
    save      \* the callers: where each one is, and its local variables

vars == <<target, past, temps, content, synced, files, losses, save>>

Files == 1..MaxFiles

Points == {"idle", "create", "write", "writing", "sync", "protect", "rename", "remove", "return"}
Save == [pc : Points, data : Data \cup {Absent}, name : Names \cup {NoName},
         file : Files \cup {0}, ok : BOOLEAN]
NoSave == [pc |-> "idle", data |-> Absent, name |-> NoName, file |-> 0, ok |-> FALSE]

TypeOK ==
    /\ target \in Files \cup {0}
    /\ past \in SUBSET (Files \cup {0})
    /\ temps \in [Names -> Files \cup {0}]
    /\ content \in [Files -> Data \cup {Empty, Partial}]
    /\ synced \in SUBSET Files
    /\ files \in 0..MaxFiles
    /\ losses \in 0..MaxLoss
    /\ save \in [Writers -> Save]

Init ==
    /\ target = 0
    /\ past = {0}
    /\ temps = [n \in Names |-> 0]
    /\ content = [f \in Files |-> Empty]
    /\ synced = {}
    /\ files = 0
    /\ losses = 0
    /\ save = [w \in Writers |-> NoSave]

\* The deferred os.Remove runs before the call returns its error.
Fail(w) == save' = [save EXCEPT ![w].pc = "remove"]

Goto(w, pc) == save' = [save EXCEPT ![w].pc = pc]

\* persistLocked, adminStore.save and Config.Save: the data is encoded whole
\* before the call, which an encoding error prevents.
Begin(w, d) ==
    /\ save[w].pc = "idle"
    /\ save' = [save EXCEPT ![w] = [NoSave EXCEPT !.pc = "create", !.data = d]]
    /\ UNCHANGED <<target, past, temps, content, synced, files, losses>>

-----------------------------------------------------------------------------
(* os.CreateTemp opens with O_EXCL a random name, so that the name is not in *)
(* the directory.  That it is not the name of another call under way either, *)
(* whose file has been renamed and whose deferred Remove is still to come,   *)
(* is assumed: the name is one of 2^32.                                      *)
Unused(n) ==
    /\ temps[n] = 0
    /\ \A w \in Writers : save[w].name # n

\* os.MkdirAll and os.CreateTemp; when one of them fails there is nothing to
\* remove.
Create(w) ==
    /\ save[w].pc = "create"
    /\ \/ /\ Goto(w, "return")
          /\ UNCHANGED <<temps, content, synced, files>>
       \/ /\ files < MaxFiles
          /\ files' = files + 1
          /\ \E n \in {m \in Names : Unused(m)} :
               /\ temps' = [temps EXCEPT ![n] = files + 1]
               /\ save' = [save EXCEPT ![w].pc = "write", ![w].name = n,
                                       ![w].file = files + 1]
          /\ content' = [content EXCEPT ![files + 1] = Empty]
          /\ UNCHANGED synced
    /\ UNCHANGED <<target, past, losses>>

\* tmp.Write reaches the file through the descriptor, in more than one step.
WriteSome(w) ==
    /\ save[w].pc = "write"
    /\ \/ /\ content' = [content EXCEPT ![save[w].file] = Partial]
          /\ Goto(w, "writing")
       \/ Fail(w) /\ UNCHANGED content
    /\ UNCHANGED <<target, past, temps, synced, files, losses>>

WriteRest(w) ==
    /\ save[w].pc = "writing"
    /\ \/ /\ content' = [content EXCEPT ![save[w].file] = save[w].data]
          /\ Goto(w, "sync")
       \/ Fail(w) /\ UNCHANGED content
    /\ UNCHANGED <<target, past, temps, synced, files, losses>>

\* Mutant: the data is not flushed before the rename.
Sync_Skipped(w) ==
    /\ save[w].pc = "sync"
    /\ Goto(w, "protect")
    /\ UNCHANGED <<target, past, temps, content, synced, files, losses>>

\* tmp.Sync
Sync(w) ==
    /\ save[w].pc = "sync"
    /\ \/ /\ synced' = synced \cup {save[w].file}
          /\ Goto(w, "protect")
       \/ Fail(w) /\ UNCHANGED synced
    /\ UNCHANGED <<target, past, temps, content, files, losses>>

\* tmp.Close, os.Chmod and restrictFileToOwner; the last two go by name.
Protect(w) ==
    /\ save[w].pc = "protect"
    /\ \/ temps[save[w].name] # 0 /\ Goto(w, "rename")
       \/ Fail(w)
    /\ UNCHANGED <<target, past, temps, content, synced, files, losses>>

\* Mutant: a failed rename is answered as success.
Rename_ErrorIgnored(w) ==
    /\ save[w].pc = "rename"
    /\ save' = [save EXCEPT ![w].pc = "remove", ![w].ok = TRUE]
    /\ \/ /\ temps[save[w].name] # 0
          /\ target' = temps[save[w].name]
          /\ past' = past \cup {target'}
          /\ temps' = [temps EXCEPT ![save[w].name] = 0]
       \/ UNCHANGED <<target, past, temps>>
    /\ UNCHANGED <<content, synced, files, losses>>

\* os.Rename over the path.
Rename(w) ==
    /\ save[w].pc = "rename"
    /\ \/ /\ temps[save[w].name] # 0
          /\ target' = temps[save[w].name]
          /\ past' = past \cup {target'}
          /\ temps' = [temps EXCEPT ![save[w].name] = 0]
          /\ save' = [save EXCEPT ![w].pc = "remove", ![w].ok = TRUE]
       \/ Fail(w) /\ UNCHANGED <<target, past, temps>>
    /\ UNCHANGED <<content, synced, files, losses>>

\* The deferred os.Remove(tmpName), after a rename too; its error is dropped.
Remove(w) ==
    /\ save[w].pc = "remove"
    /\ \/ temps' = [temps EXCEPT ![save[w].name] = 0]
       \/ UNCHANGED temps
    /\ Goto(w, "return")
    /\ UNCHANGED <<target, past, content, synced, files, losses>>

Return(w) ==
    /\ save[w].pc = "return"
    /\ save' = [save EXCEPT ![w] = NoSave]
    /\ UNCHANGED <<target, past, temps, content, synced, files, losses>>

-----------------------------------------------------------------------------
\* Every process that was saving stops; files and directory stay as they are.
Crash ==
    /\ save # [w \in Writers |-> NoSave]
    /\ save' = [w \in Writers |-> NoSave]
    /\ UNCHANGED <<target, past, temps, content, synced, files, losses>>

\* The machine loses its power and comes up again.
PowerLoss ==
    /\ losses < MaxLoss
    /\ losses' = losses + 1
    /\ save' = [w \in Writers |-> NoSave]
    /\ target' \in past
    /\ past' = {target'}
    /\ content' \in {c \in [Files -> Data \cup {Empty, Partial}] :
            \A f \in Files : c[f] \in IF f \in synced THEN {content[f]}
                                      ELSE {Empty, Partial, content[f]}}
    /\ synced' = 1..files
    /\ UNCHANGED <<temps, files>>

Step(w) ==
    \/ Create(w) \/ WriteSome(w) \/ WriteRest(w) \/ Sync(w) \/ Protect(w)
    \/ Rename(w) \/ Remove(w) \/ Return(w)

Next ==
    \/ \E w \in Writers : (\E d \in Data : Begin(w, d)) \/ Step(w)
    \/ Crash
    \/ PowerLoss

Spec == Init /\ [][Next]_vars

-----------------------------------------------------------------------------
(* Properties *)

\* Whatever the path names, now or after a power loss, is a file somebody
\* finished writing and synced ("A crash mid-write can never leave a truncated
\* config or state file behind"); newState would take an empty one for an
\* empty registry.
Whole ==
    \A f \in past \cup {target} :
        f # 0 => content[f] \in Data /\ f \in synced

\* What a reader of file f gets.
Reads(f) == IF f = 0 THEN Absent ELSE content[f]

\* Whether a call is under way, and once its outcome is known, which it is.
Phase(s) ==
    CASE s.pc = "idle" -> "none"
      [] s.pc \in {"remove", "return"} -> IF s.ok THEN "saved" ELSE "refused"
      [] OTHER -> "asked"

Jobs == [w \in Writers |-> [phase |-> Phase(save[w]), data |-> save[w].data]]

\* Seen by its callers atomicWriteFile is one step: the save that answers nil
\* replaced the file, the one that answers an error did not, and a process that
\* stops half way has done one or the other.
Saved == INSTANCE SavedFile WITH
    value <- Reads(target), earlier <- {Reads(f) : f \in past}, job <- Jobs
SaveIsAtomic == Saved!Spec
=============================================================================

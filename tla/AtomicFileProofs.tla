-------------------------- MODULE AtomicFileProofs --------------------------
(***************************************************************************)
(* Proofs about AtomicFile, for every number of callers, versions, names   *)
(* and failures: the file is never truncated, and saving it is atomic.     *)
(***************************************************************************)
EXTENDS AtomicFile, TLAPS

\* A call that has its temporary file and has neither failed nor renamed it.
Open(w) == save[w].pc \in {"write", "writing", "sync", "protect", "rename"}

\* The file's data is written and synced before anything looks at its name.
Written(w) ==
    /\ save[w].pc \in {"sync", "protect", "rename"} =>
           content[save[w].file] = save[w].data
    /\ save[w].pc \in {"protect", "rename"} => save[w].file \in synced

\* While a call is open its name leads to its own file, which the path never
\* named; Unused and the counter of files keep calls apart.
Own(w) ==
    Open(w) => /\ save[w].name \in Names
               /\ save[w].file \in 1..files
               /\ temps[save[w].name] = save[w].file
               /\ save[w].file \notin past

Local(w) ==
    /\ save[w].pc = "idle" => save[w] = NoSave
    /\ save[w].pc # "idle" => save[w].data \in Data
    /\ save[w].pc = "remove" => save[w].name \in Names
    /\ save[w].ok => save[w].pc \in {"remove", "return"}

Apart ==
    \A v, w \in Writers : v # w =>
        /\ save[v].name = save[w].name => save[v].name = NoName
        /\ Open(v) /\ Open(w) => save[v].file # save[w].file

\* The inductive invariant: Whole alone says nothing of the file that the next
\* rename will put in place.
IInv ==
    /\ TypeOK
    /\ Whole
    /\ target \in past /\ past \subseteq 0..files
    /\ synced \subseteq 1..files
    /\ \A w \in Writers : Own(w) /\ Written(w) /\ Local(w)
    /\ Apart

USE FileAssumption

LEMMA InitIInv == Init => IInv
  BY DEF Init, IInv, TypeOK, Whole, Own, Open, Written, Local, Apart, Files, Save, NoSave, Points

\* What one call does leaves the others' part of the invariant alone when it
\* keeps its name and its file apart from theirs.
LEMMA Frame ==
    ASSUME IInv, NEW w \in Writers,
           TypeOK', Whole', target' \in past', past' \subseteq 0..files',
           synced \subseteq synced', synced' \subseteq 1..files', files' >= files,
           \A v \in Writers \ {w} : save'[v] = save[v],
           Own(w)', Written(w)', Local(w)',
           \A v \in Writers \ {w} :
               /\ save'[w].name = save[v].name => save[v].name = NoName
               /\ Open(w)' /\ Open(v) => save'[w].file # save[v].file
               /\ Open(v) => /\ temps'[save[v].name] = temps[save[v].name]
                             /\ save[v].file \notin past'
                             /\ content'[save[v].file] = content[save[v].file]
    PROVE  IInv'
  <1>1. \A v \in Writers \ {w} : Own(v)' /\ Written(v)' /\ Local(v)'
    <2> TAKE v \in Writers \ {w}
    <2>1. save'[v] = save[v] /\ (Open(v)' <=> Open(v))
      BY Zenon DEF Open
    <2>2. Own(v) /\ Written(v) /\ Local(v)
      BY Zenon DEF IInv
    <2>3. Own(v)'
      BY <2>1, <2>2 DEF Own, IInv, TypeOK
    <2>4. Written(v)'
      BY <2>1, <2>2, Zenon DEF Written, Open
    <2> QED
      BY <2>1, <2>2, <2>3, <2>4, Zenon DEF Local
  <1>2. Apart'
    <2> SUFFICES ASSUME NEW u \in Writers, NEW v \in Writers, u # v
                 PROVE  /\ save'[u].name = save'[v].name => save'[u].name = NoName
                        /\ Open(u)' /\ Open(v)' => save'[u].file # save'[v].file
      BY Zenon DEF Apart
    <2>1. CASE u # w /\ v # w
      BY <2>1 DEF IInv, Apart, Open
    <2>2. CASE u = w
      BY <2>2 DEF Open
    <2>3. CASE v = w
      BY <2>3, Zenon DEF Open
    <2> QED
      BY <2>1, <2>2, <2>3, Zenon
  <1> QED
    BY <1>1, <1>2, Zenon DEF IInv

\* A call moves on with only its place changed.
LEMMA Moved ==
    ASSUME TypeOK, NEW w \in Writers, NEW p \in Points,
           save' = [save EXCEPT ![w].pc = p]
    PROVE  /\ save' \in [Writers -> Save]
           /\ \A v \in Writers \ {w} : save'[v] = save[v]
           /\ save'[w].pc = p
           /\ save'[w].data = save[w].data
           /\ save'[w].name = save[w].name
           /\ save'[w].file = save[w].file
           /\ save'[w].ok = save[w].ok
  BY Zenon DEF TypeOK, Save

LEMMA Named ==
    ASSUME TypeOK, NEW w \in Writers, NEW n \in Names, NEW f \in Files,
           save' = [save EXCEPT ![w].pc = "write", ![w].name = n, ![w].file = f]
    PROVE  /\ save' \in [Writers -> Save]
           /\ \A v \in Writers \ {w} : save'[v] = save[v]
           /\ save'[w].pc = "write" /\ save'[w].name = n /\ save'[w].file = f
           /\ save'[w].data = save[w].data /\ save'[w].ok = save[w].ok
  <1>1. save[w] \in Save
    BY Zenon DEF TypeOK
  <1>2. save' = [save EXCEPT ![w] = [save[w] EXCEPT !.pc = "write", !.name = n, !.file = f]]
    BY Zenon DEF TypeOK
  <1>3. [save[w] EXCEPT !.pc = "write", !.name = n, !.file = f] \in Save
    BY <1>1, Zenon DEF Save, Points
  <1>4. save' \in [Writers -> Save] /\ \A v \in Writers \ {w} : save'[v] = save[v]
    BY <1>2, <1>3 DEF TypeOK
  <1>5. save'[w] = [save[w] EXCEPT !.pc = "write", !.name = n, !.file = f]
    BY <1>2, Zenon DEF TypeOK
  <1> QED
    BY <1>1, <1>4, <1>5, Zenon DEF Save

LEMMA Renamed ==
    ASSUME TypeOK, NEW w \in Writers,
           save' = [save EXCEPT ![w].pc = "remove", ![w].ok = TRUE]
    PROVE  /\ save' \in [Writers -> Save]
           /\ \A v \in Writers \ {w} : save'[v] = save[v]
           /\ save'[w].pc = "remove" /\ save'[w].ok = TRUE
           /\ save'[w].data = save[w].data /\ save'[w].name = save[w].name
           /\ save'[w].file = save[w].file
  <1>1. save[w] \in Save
    BY Zenon DEF TypeOK
  <1>2. save' = [save EXCEPT ![w] = [save[w] EXCEPT !.pc = "remove", !.ok = TRUE]]
    BY Zenon DEF TypeOK
  <1>3. [save[w] EXCEPT !.pc = "remove", !.ok = TRUE] \in Save
    BY <1>1, Zenon DEF Save, Points
  <1>4. save' \in [Writers -> Save] /\ \A v \in Writers \ {w} : save'[v] = save[v]
    BY <1>2, <1>3 DEF TypeOK
  <1>5. save'[w] = [save[w] EXCEPT !.pc = "remove", !.ok = TRUE]
    BY <1>2, Zenon DEF TypeOK
  <1> QED
    BY <1>1, <1>4, <1>5, Zenon DEF Save

\* What the invariant says of one call and of the others.
LEMMA Others ==
    ASSUME IInv, NEW w \in Writers
    PROVE  /\ Own(w) /\ Written(w) /\ Local(w)
           /\ \A v \in Writers \ {w} :
                 /\ save[w].name = save[v].name => save[v].name = NoName
                 /\ Open(w) /\ Open(v) => save[w].file # save[v].file
                 /\ Open(v) => save[v].file \notin past /\ save[v].name \in Names
  BY Zenon DEF IInv, Apart, Own

LEMMA BeginIInv ==
    ASSUME IInv, NEW w \in Writers, NEW d \in Data, Begin(w, d)
    PROVE  IInv'
  <1>1. /\ save' \in [Writers -> Save]
        /\ \A v \in Writers \ {w} : save'[v] = save[v]
        /\ save'[w] = [NoSave EXCEPT !.pc = "create", !.data = d]
    BY Zenon DEF Begin, IInv, TypeOK, Save, NoSave, Points
  <1>2. UNCHANGED <<target, past, temps, content, synced, files, losses>>
    BY Zenon DEF Begin
  <1>3. save'[w].pc = "create" /\ save'[w].data = d /\ save'[w].name = NoName /\ ~save'[w].ok
    BY <1>1, Zenon DEF NoSave
  <1>4. Own(w)' /\ Written(w)' /\ Local(w)' /\ ~Open(w)'
    BY <1>3, Zenon DEF Own, Open, Written, Local
  <1>5. TypeOK' /\ Whole'
    BY <1>1, <1>2, Zenon DEF IInv, TypeOK, Whole
  <1>6. /\ target' \in past' /\ past' \subseteq 0..files'
        /\ synced \subseteq synced' /\ synced' \subseteq 1..files' /\ files' >= files
    BY <1>2 DEF IInv, TypeOK
  <1>7. \A v \in Writers \ {w} :
           /\ save'[w].name = save[v].name => save[v].name = NoName
           /\ Open(w)' /\ Open(v) => save'[w].file # save[v].file
           /\ Open(v) => /\ temps'[save[v].name] = temps[save[v].name]
                         /\ save[v].file \notin past'
                         /\ content'[save[v].file] = content[save[v].file]
    BY <1>2, <1>3, <1>4, Others, Zenon
  <1> QED
    BY <1>1, <1>4, <1>5, <1>6, <1>7, Frame, Zenon

\* A step that only moves on, into a place whose local facts hold.
LEMMA MovedIInv ==
    ASSUME IInv, NEW w \in Writers, NEW p \in Points \ {"idle"},
           save' = [save EXCEPT ![w].pc = p],
           save[w].pc # "idle",
           p \in {"remove", "return"} \/ ~save[w].ok,
           p = "remove" => save[w].name \in Names,
           p \in {"write", "writing", "sync", "protect", "rename"} => Open(w),
           p # "sync",
           p \in {"protect", "rename"} => save[w].pc \in {"protect", "rename"},
           UNCHANGED <<target, past, temps, content, synced, files, losses>>
    PROVE  IInv'
  <1>1. TypeOK
    BY Zenon DEF IInv
  <1>2. /\ save' \in [Writers -> Save]
        /\ \A v \in Writers \ {w} : save'[v] = save[v]
        /\ save'[w].pc = p
        /\ save'[w].data = save[w].data
        /\ save'[w].name = save[w].name
        /\ save'[w].file = save[w].file
        /\ save'[w].ok = save[w].ok
    BY <1>1, Moved, Zenon
  <1>3. Own(w)' /\ Written(w)' /\ Local(w)' /\ (Open(w)' => Open(w))
    BY <1>2, Others DEF Own, Open, Written, Local
  <1>4. TypeOK' /\ Whole'
    BY <1>1, <1>2, Zenon DEF IInv, TypeOK, Whole
  <1>5. /\ target' \in past' /\ past' \subseteq 0..files'
        /\ synced \subseteq synced' /\ synced' \subseteq 1..files' /\ files' >= files
    BY DEF IInv, TypeOK
  <1>6. \A v \in Writers \ {w} :
           /\ save'[w].name = save[v].name => save[v].name = NoName
           /\ Open(w)' /\ Open(v) => save'[w].file # save[v].file
           /\ Open(v) => /\ temps'[save[v].name] = temps[save[v].name]
                         /\ save[v].file \notin past'
                         /\ content'[save[v].file] = content[save[v].file]
    BY <1>2, <1>3, Others
  <1> QED
    BY <1>2, <1>3, <1>4, <1>5, <1>6, Frame, Zenon

LEMMA CreateIInv ==
    ASSUME IInv, NEW w \in Writers, Create(w)
    PROVE  IInv'
  <1>1. CASE Goto(w, "return") /\ UNCHANGED <<temps, content, synced, files>>
    BY <1>1, Others, MovedIInv, Zenon DEF Create, Goto, Local, Points
  <1>2. CASE /\ files < MaxFiles
             /\ files' = files + 1
             /\ \E n \in {m \in Names : Unused(m)} :
                  /\ temps' = [temps EXCEPT ![n] = files + 1]
                  /\ save' = [save EXCEPT ![w].pc = "write", ![w].name = n,
                                          ![w].file = files + 1]
             /\ content' = [content EXCEPT ![files + 1] = Empty]
             /\ UNCHANGED synced
    <2>1. PICK n \in Names : /\ Unused(n)
                             /\ temps' = [temps EXCEPT ![n] = files + 1]
                             /\ save' = [save EXCEPT ![w].pc = "write", ![w].name = n,
                                                     ![w].file = files + 1]
                             /\ content' = [content EXCEPT ![files + 1] = Empty]
                             /\ UNCHANGED <<target, past, synced, losses>>
      BY <1>2, Zenon DEF Create
    <2>2. files \in Nat /\ files + 1 \in Files
      BY <1>2 DEF IInv, TypeOK, Files
    <2>3. /\ save' \in [Writers -> Save]
          /\ \A v \in Writers \ {w} : save'[v] = save[v]
          /\ save'[w].pc = "write" /\ save'[w].name = n /\ save'[w].file = files + 1
          /\ save'[w].data = save[w].data /\ save'[w].ok = save[w].ok
      BY <2>1, <2>2, Named, Zenon DEF IInv
    <2>4. files + 1 \notin past
      BY <2>2 DEF IInv
    <2>5. TypeOK'
      BY <1>2, <2>1, <2>2, <2>3 DEF IInv, TypeOK, Files
    <2>6. Whole'
      BY <2>1, <2>2, <2>4 DEF IInv, TypeOK, Whole, Files
    <2>7. Own(w)' /\ Written(w)' /\ Local(w)'
      <3>1. save[w].pc = "create"
        BY Zenon DEF Create
      <3>2. temps'[n] = files + 1 /\ files + 1 \in 1..files' /\ past' = past
        BY <1>2, <2>1, <2>2 DEF IInv, TypeOK
      <3>3. save[w].data \in Data /\ ~save[w].ok
        BY <3>1, Others, Zenon DEF Local
      <3> QED
        BY <2>3, <2>4, <3>2, <3>3, Zenon DEF Own, Written, Local
    <2>8. /\ target' \in past' /\ past' \subseteq 0..files'
          /\ synced \subseteq synced' /\ synced' \subseteq 1..files' /\ files' >= files
      BY <1>2, <2>1, <2>2 DEF IInv
    <2>9. \A v \in Writers \ {w} : Open(v) => save[v].file \in 1..files
      BY Zenon DEF IInv, Own
    <2>10. \A v \in Writers \ {w} :
             /\ save'[w].name = save[v].name => save[v].name = NoName
             /\ Open(w)' /\ Open(v) => save'[w].file # save[v].file
             /\ Open(v) => /\ temps'[save[v].name] = temps[save[v].name]
                           /\ save[v].file \notin past'
                           /\ content'[save[v].file] = content[save[v].file]
      BY <2>1, <2>2, <2>3, <2>9, Others DEF IInv, TypeOK, Unused, Files
    <2> QED
      BY <2>3, <2>5, <2>6, <2>7, <2>8, <2>10, Frame, Zenon
  <1> QED
    BY <1>1, <1>2, Zenon DEF Create

\* tmp.Write, whether it gets through or not: only the call's own file changes.
LEMMA WriteIInv ==
    ASSUME IInv, NEW w \in Writers, NEW p \in {"writing", "sync"},
           NEW c \in Data \cup {Partial},
           save[w].pc \in {"write", "writing"},
           p = "sync" => c = save[w].data,
           content' = [content EXCEPT ![save[w].file] = c],
           save' = [save EXCEPT ![w].pc = p],
           UNCHANGED <<target, past, temps, synced, files, losses>>
    PROVE  IInv'
  <1> DEFINE f == save[w].file
  <1>1. TypeOK
    BY Zenon DEF IInv
  <1>2. Open(w) /\ f \in Files /\ f \notin past /\ p \in Points
    BY Others DEF IInv, TypeOK, Own, Open, Files, Points
  <1>3. /\ save' \in [Writers -> Save]
        /\ \A v \in Writers \ {w} : save'[v] = save[v]
        /\ save'[w].pc = p
        /\ save'[w].data = save[w].data
        /\ save'[w].name = save[w].name
        /\ save'[w].file = f
        /\ save'[w].ok = save[w].ok
    BY <1>1, <1>2, Moved, Zenon
  <1>4. \A g \in Files : g # f => content'[g] = content[g]
    BY <1>1, Zenon DEF TypeOK
  <1>5. TypeOK'
    BY <1>1, <1>3, Zenon DEF TypeOK
  <1>6. Whole'
    BY <1>1, <1>2, <1>4 DEF IInv, TypeOK, Whole
  <1>7. Own(w)' /\ Written(w)' /\ Local(w)'
    BY <1>1, <1>2, <1>3, Others DEF Own, Open, Written, Local, TypeOK
  <1>8. /\ target' \in past' /\ past' \subseteq 0..files'
        /\ synced \subseteq synced' /\ synced' \subseteq 1..files' /\ files' >= files
    BY DEF IInv, TypeOK
  <1>9. \A v \in Writers \ {w} : Open(v) => save[v].file \in Files /\ save[v].file # f
    BY <1>1, <1>2, Others DEF IInv, TypeOK, Own, Files
  <1>10. \A v \in Writers \ {w} :
           /\ save'[w].name = save[v].name => save[v].name = NoName
           /\ Open(w)' /\ Open(v) => save'[w].file # save[v].file
           /\ Open(v) => /\ temps'[save[v].name] = temps[save[v].name]
                         /\ save[v].file \notin past'
                         /\ content'[save[v].file] = content[save[v].file]
    BY <1>3, <1>4, <1>9, Others
  <1> QED
    BY <1>3, <1>5, <1>6, <1>7, <1>8, <1>10, Frame, Zenon

\* tmp.Sync that gets through.
LEMMA SyncIInv ==
    ASSUME IInv, NEW w \in Writers,
           save[w].pc = "sync",
           synced' = synced \cup {save[w].file},
           save' = [save EXCEPT ![w].pc = "protect"],
           UNCHANGED <<target, past, temps, content, files, losses>>
    PROVE  IInv'
  <1>1. TypeOK /\ "protect" \in Points
    BY Zenon DEF IInv, Points
  <1>2. Open(w) /\ save[w].file \in 1..files /\ save[w].file \in Files
    BY Others DEF IInv, TypeOK, Own, Open, Files
  <1>3. /\ save' \in [Writers -> Save]
        /\ \A v \in Writers \ {w} : save'[v] = save[v]
        /\ save'[w].pc = "protect"
        /\ save'[w].data = save[w].data
        /\ save'[w].name = save[w].name
        /\ save'[w].file = save[w].file
        /\ save'[w].ok = save[w].ok
    BY <1>1, Moved, Zenon
  <1>4. TypeOK' /\ Whole'
    BY <1>1, <1>2, <1>3, Zenon DEF IInv, TypeOK, Whole
  <1>5. Own(w)' /\ Written(w)' /\ Local(w)'
    BY <1>2, <1>3, Others DEF Own, Open, Written, Local
  <1>6. /\ target' \in past' /\ past' \subseteq 0..files'
        /\ synced \subseteq synced' /\ synced' \subseteq 1..files' /\ files' >= files
    BY <1>2 DEF IInv, TypeOK
  <1>7. \A v \in Writers \ {w} :
           /\ save'[w].name = save[v].name => save[v].name = NoName
           /\ Open(w)' /\ Open(v) => save'[w].file # save[v].file
           /\ Open(v) => /\ temps'[save[v].name] = temps[save[v].name]
                         /\ save[v].file \notin past'
                         /\ content'[save[v].file] = content[save[v].file]
    BY <1>2, <1>3, Others
  <1> QED
    BY <1>3, <1>4, <1>5, <1>6, <1>7, Frame, Zenon

\* os.Rename that gets through: the path now names the call's own file.
LEMMA RenameIInv ==
    ASSUME IInv, NEW w \in Writers,
           save[w].pc = "rename",
           target' = temps[save[w].name],
           past' = past \cup {target'},
           temps' = [temps EXCEPT ![save[w].name] = 0],
           save' = [save EXCEPT ![w].pc = "remove", ![w].ok = TRUE],
           UNCHANGED <<content, synced, files, losses>>
    PROVE  IInv' /\ target' = save[w].file /\ content[save[w].file] = save[w].data
  <1>1. /\ Open(w) /\ save[w].name \in Names /\ save[w].file \in 1..files
        /\ temps[save[w].name] = save[w].file /\ save[w].file \notin past
        /\ content[save[w].file] = save[w].data /\ save[w].file \in synced
        /\ save[w].data \in Data
    BY Others, Zenon DEF Own, Open, Written, Local
  <1>2. save[w].file \in Files
    BY <1>1, Zenon DEF IInv, TypeOK, Files
  <1>3. /\ save' \in [Writers -> Save]
        /\ \A v \in Writers \ {w} : save'[v] = save[v]
        /\ save'[w].pc = "remove"
        /\ save'[w].data = save[w].data
        /\ save'[w].name = save[w].name
        /\ save'[w].file = save[w].file
        /\ save'[w].ok = TRUE
    BY Renamed, Zenon DEF IInv
  <1>4. TypeOK'
    BY <1>1, <1>2, <1>3 DEF IInv, TypeOK
  <1>5. Whole'
    BY <1>1, Zenon DEF IInv, Whole
  <1>6. Own(w)' /\ Written(w)' /\ Local(w)' /\ ~Open(w)'
    BY <1>1, <1>3, Zenon DEF Own, Open, Written, Local
  <1>7. /\ target' \in past' /\ past' \subseteq 0..files'
        /\ synced \subseteq synced' /\ synced' \subseteq 1..files' /\ files' >= files
    BY <1>1 DEF IInv, TypeOK
  <1>8. \A v \in Writers \ {w} :
           /\ save'[w].name = save[v].name => save[v].name = NoName
           /\ Open(w)' /\ Open(v) => save'[w].file # save[v].file
           /\ Open(v) => /\ temps'[save[v].name] = temps[save[v].name]
                         /\ save[v].file \notin past'
                         /\ content'[save[v].file] = content[save[v].file]
    BY <1>1, <1>3, <1>6, Others DEF IInv, TypeOK
  <1> QED
    BY <1>1, <1>3, <1>4, <1>5, <1>6, <1>7, <1>8, Frame, Zenon

LEMMA RemoveIInv ==
    ASSUME IInv, NEW w \in Writers,
           save[w].pc = "remove",
           temps' = [temps EXCEPT ![save[w].name] = 0],
           save' = [save EXCEPT ![w].pc = "return"],
           UNCHANGED <<target, past, content, synced, files, losses>>
    PROVE  IInv'
  <1>1. TypeOK /\ "return" \in Points /\ save[w].name \in Names /\ save[w].data \in Data
    BY Others, Zenon DEF IInv, Points, Local
  <1>2. /\ save' \in [Writers -> Save]
        /\ \A v \in Writers \ {w} : save'[v] = save[v]
        /\ save'[w].pc = "return"
        /\ save'[w].data = save[w].data
        /\ save'[w].name = save[w].name
        /\ save'[w].file = save[w].file
        /\ save'[w].ok = save[w].ok
    BY <1>1, Moved, Zenon
  <1>3. TypeOK' /\ Whole'
    BY <1>1, <1>2, Zenon DEF IInv, TypeOK, Whole
  <1>4. Own(w)' /\ Written(w)' /\ Local(w)' /\ ~Open(w)'
    BY <1>1, <1>2, Zenon DEF Own, Open, Written, Local
  <1>5. /\ target' \in past' /\ past' \subseteq 0..files'
        /\ synced \subseteq synced' /\ synced' \subseteq 1..files' /\ files' >= files
    BY DEF IInv, TypeOK
  <1>6. \A v \in Writers \ {w} :
           /\ save'[w].name = save[v].name => save[v].name = NoName
           /\ Open(w)' /\ Open(v) => save'[w].file # save[v].file
           /\ Open(v) => /\ temps'[save[v].name] = temps[save[v].name]
                         /\ save[v].file \notin past'
                         /\ content'[save[v].file] = content[save[v].file]
    BY <1>1, <1>2, <1>4, Others DEF TypeOK
  <1> QED
    BY <1>2, <1>3, <1>4, <1>5, <1>6, Frame, Zenon

LEMMA ReturnIInv ==
    ASSUME IInv, NEW w \in Writers, Return(w)
    PROVE  IInv'
  <1>1. /\ save' \in [Writers -> Save]
        /\ \A v \in Writers \ {w} : save'[v] = save[v]
        /\ save'[w] = NoSave
        /\ UNCHANGED <<target, past, temps, content, synced, files, losses>>
    BY Zenon DEF Return, IInv, TypeOK, Save, NoSave, Points
  <1>2. TypeOK' /\ Whole'
    BY <1>1, Zenon DEF IInv, TypeOK, Whole
  <1>3. Own(w)' /\ Written(w)' /\ Local(w)' /\ ~Open(w)' /\ save'[w].name = NoName
    BY <1>1 DEF Own, Open, Written, Local, NoSave
  <1>4. /\ target' \in past' /\ past' \subseteq 0..files'
        /\ synced \subseteq synced' /\ synced' \subseteq 1..files' /\ files' >= files
    BY <1>1 DEF IInv, TypeOK
  <1>5. \A v \in Writers \ {w} :
           /\ save'[w].name = save[v].name => save[v].name = NoName
           /\ Open(w)' /\ Open(v) => save'[w].file # save[v].file
           /\ Open(v) => /\ temps'[save[v].name] = temps[save[v].name]
                         /\ save[v].file \notin past'
                         /\ content'[save[v].file] = content[save[v].file]
    BY <1>1, <1>3, Others, Zenon
  <1> QED
    BY <1>1, <1>2, <1>3, <1>4, <1>5, Frame, Zenon

\* No call is under way after the process, or the machine, stopped.
LEMMA StoppedIInv ==
    ASSUME IInv, save' = [w \in Writers |-> NoSave],
           TypeOK', Whole', target' \in past', past' \subseteq 0..files',
           synced' \subseteq 1..files'
    PROVE  IInv'
  <1>1. \A w \in Writers : save'[w] = NoSave /\ ~Open(w)'
    BY Zenon DEF NoSave, Open
  <1>2. \A w \in Writers : Own(w)' /\ Written(w)' /\ Local(w)'
    BY <1>1, Zenon DEF Own, Written, Local, NoSave
  <1>3. Apart'
    BY <1>1, Zenon DEF Apart, NoSave
  <1> QED
    BY <1>2, <1>3, Zenon DEF IInv

LEMMA CrashIInv == ASSUME IInv, Crash PROVE IInv'
  <1>1. TypeOK' /\ Whole'
    BY Zenon DEF Crash, IInv, TypeOK, Whole, Save, NoSave, Points
  <1> QED
    BY <1>1, StoppedIInv, Zenon DEF Crash, IInv

\* Synced files survive, so what the path may name is whole afterwards too.
LEMMA PowerLossIInv ==
    ASSUME IInv, PowerLoss
    PROVE  IInv' /\ \A f \in past : f # 0 => content'[f] = content[f]
  <1>1. /\ save' = [w \in Writers |-> NoSave]
        /\ target' \in past /\ past' = {target'} /\ files' = files /\ temps' = temps
        /\ synced' = 1..files
        /\ losses < MaxLoss /\ losses' = losses + 1
    BY Zenon DEF PowerLoss
  <1>2. /\ content' \in [Files -> Data \cup {Empty, Partial}]
        /\ \A f \in Files : f \in synced => content'[f] = content[f]
    BY Zenon DEF PowerLoss
  <1>3. \A f \in past : f # 0 => f \in Files /\ content'[f] = content[f] /\ f \in 1..files
    BY <1>2, Zenon DEF IInv, TypeOK, Whole, Files
  <1>4. save' \in [Writers -> Save]
    BY <1>1, Zenon DEF Save, NoSave, Points
  <1>5. TypeOK'
    BY <1>1, <1>2, <1>4 DEF IInv, TypeOK, Files
  <1>6. Whole'
    BY <1>1, <1>3, Zenon DEF IInv, Whole
  <1> QED
    BY <1>1, <1>3, <1>5, <1>6, StoppedIInv, Zenon DEF IInv

\* A system call fails: the call goes on to the deferred Remove.
LEMMA FailIInv ==
    ASSUME IInv, NEW w \in Writers, Open(w), Fail(w),
           UNCHANGED <<target, past, temps, content, synced, files, losses>>
    PROVE  IInv'
  <1>1. save[w].name \in Names /\ save[w].pc # "idle"
    BY Others, Zenon DEF Own, Open
  <1> QED
    BY <1>1, MovedIInv, Zenon DEF Fail, Points

LEMMA StepIInv ==
    ASSUME IInv, NEW w \in Writers, Step(w)
    PROVE  IInv'
  <1>1. CASE Create(w)
    BY <1>1, CreateIInv, Zenon
  <1>2. CASE WriteSome(w)
    <2>1. CASE Fail(w) /\ UNCHANGED content
      BY <1>2, <2>1, FailIInv, Zenon DEF WriteSome, Open
    <2> QED
      BY <1>2, <2>1, WriteIInv, Zenon DEF WriteSome, Goto
  <1>3. CASE WriteRest(w)
    <2>1. CASE Fail(w) /\ UNCHANGED content
      BY <1>3, <2>1, FailIInv, Zenon DEF WriteRest, Open
    <2>2. save[w].data \in Data
      BY <1>3, Others, Zenon DEF WriteRest, Local
    <2> QED
      BY <1>3, <2>1, <2>2, WriteIInv, Zenon DEF WriteRest, Goto
  <1>4. CASE Sync(w)
    <2>1. CASE Fail(w) /\ UNCHANGED synced
      BY <1>4, <2>1, FailIInv, Zenon DEF Sync, Open
    <2> QED
      BY <1>4, <2>1, SyncIInv, Zenon DEF Sync, Goto
  <1>5. CASE Protect(w)
    <2>1. ~save[w].ok /\ Open(w)
      BY <1>5, Others, Zenon DEF Protect, Open, Local
    <2>2. CASE Fail(w)
      BY <1>5, <2>1, <2>2, FailIInv, Zenon DEF Protect
    <2>3. CASE Goto(w, "rename")
      BY <1>5, <2>1, <2>3, MovedIInv, Zenon DEF Protect, Goto, Points
    <2> QED
      BY <1>5, <2>2, <2>3, Zenon DEF Protect
  <1>6. CASE Rename(w)
    <2>1. CASE Fail(w) /\ UNCHANGED <<target, past, temps>>
      BY <1>6, <2>1, FailIInv, Zenon DEF Rename, Open
    <2> QED
      BY <1>6, <2>1, RenameIInv, Zenon DEF Rename
  <1>7. CASE Remove(w)
    <2>1. CASE UNCHANGED temps
      BY <1>7, <2>1, MovedIInv, Zenon DEF Remove, Goto, Points
    <2> QED
      BY <1>7, <2>1, RemoveIInv, Zenon DEF Remove, Goto
  <1>8. CASE Return(w)
    BY <1>8, ReturnIInv, Zenon
  <1> QED
    BY <1>1, <1>2, <1>3, <1>4, <1>5, <1>6, <1>7, <1>8, Zenon DEF Step

LEMMA Invariance == Spec => []IInv
  <1>1. IInv /\ [Next]_vars => IInv'
    <2> SUFFICES ASSUME IInv, [Next]_vars PROVE IInv'
      OBVIOUS
    <2>1. ASSUME NEW w \in Writers, NEW d \in Data, Begin(w, d) PROVE IInv'
      BY <2>1, BeginIInv, Zenon
    <2>2. ASSUME NEW w \in Writers, Step(w) PROVE IInv'
      BY <2>2, StepIInv, Zenon
    <2>3. CASE Crash
      BY <2>3, CrashIInv, Zenon
    <2>4. CASE PowerLoss
      BY <2>4, PowerLossIInv, Zenon
    <2>5. CASE UNCHANGED vars
      BY <2>5 DEF vars, IInv, TypeOK, Whole, Own, Open, Written, Local, Apart
    <2> QED
      BY <2>1, <2>2, <2>3, <2>4, <2>5, Zenon DEF Next
  <1> QED
    BY <1>1, InitIInv, PTL DEF Spec

\* Every variable of the saves keeps its type: what a call of atomicWriteFile is
\* about to write is data that was encoded whole.
THEOREM SaveTypeCorrect == Spec => []TypeOK
  <1>1. IInv => TypeOK
    BY Zenon DEF IInv
  <1> QED
    BY <1>1, Invariance, PTL

\* The state file, the configuration and the administrator record are never
\* truncated, however many callers save them, whatever fails and whenever the
\* process or the machine stops.
THEOREM NeverTruncated == Spec => []Whole
  <1>1. IInv => Whole
    BY Zenon DEF IInv
  <1> QED
    BY <1>1, Invariance, PTL

-----------------------------------------------------------------------------
(* Refinement *)

\* The jobs the abstract specification sees when one call moves.
LEMMA JobOf ==
    ASSUME TypeOK, NEW w \in Writers, save' \in [Writers -> Save],
           \A v \in Writers \ {w} : save'[v] = save[v]
    PROVE  /\ Jobs' = [Jobs EXCEPT ![w] = [phase |-> Phase(save'[w]), data |-> save'[w].data]]
           /\ Jobs[w] = [phase |-> Phase(save[w]), data |-> save[w].data]
  BY Zenon DEF Jobs

\* Readers see no change while the path, and what it may name, stay the same.
LEMMA SameReads ==
    ASSUME IInv, UNCHANGED <<target, past>>,
           \A f \in past : f # 0 => content'[f] = content[f]
    PROVE  /\ Reads(target)' = Reads(target)
           /\ {Reads(f) : f \in past}' = {Reads(f) : f \in past}
  <1>1. \A f \in past : Reads(f)' = Reads(f)
    BY Zenon DEF Reads
  <1> QED
    BY <1>1, Zenon DEF IInv

\* The step of the abstract specification, or none.
SavedStep == [Saved!Next]_<<Reads(target), {Reads(f) : f \in past}, Jobs>>

\* Steps that change neither the path nor a file it may name: the abstract
\* specification sees the call's phase change, or nothing.
LEMMA PhaseStep ==
    ASSUME IInv, NEW w \in Writers, save' \in [Writers -> Save],
           \A v \in Writers \ {w} : save'[v] = save[v],
           save'[w].data = save[w].data,
           \/ Phase(save'[w]) = Phase(save[w])
           \/ Phase(save[w]) = "asked" /\ Phase(save'[w]) = "refused",
           UNCHANGED <<target, past>>,
           \A f \in past : f # 0 => content'[f] = content[f]
    PROVE  SavedStep
  <1>1. /\ Reads(target)' = Reads(target)
        /\ {Reads(f) : f \in past}' = {Reads(f) : f \in past}
    BY SameReads, Zenon
  <1>2. /\ Jobs' = [Jobs EXCEPT ![w] = [phase |-> Phase(save'[w]), data |-> save'[w].data]]
        /\ Jobs[w] = [phase |-> Phase(save[w]), data |-> save[w].data]
    BY JobOf, Zenon DEF IInv
  <1>3. CASE Phase(save'[w]) = Phase(save[w])
    <2>1. Jobs' = Jobs
      BY <1>2, <1>3, Zenon DEF Jobs
    <2> QED
      BY <1>1, <2>1, Zenon DEF SavedStep
  <1>4. CASE Phase(save[w]) = "asked" /\ Phase(save'[w]) = "refused"
    <2>1. Saved!Refuse(w)
      BY <1>1, <1>2, <1>4, Zenon DEF Saved!Refuse, Jobs
    <2> QED
      BY <2>1, Zenon DEF SavedStep, Saved!Next
  <1> QED
    BY <1>3, <1>4, Zenon

LEMMA BeginSaved ==
    ASSUME IInv, NEW w \in Writers, NEW d \in Data, Begin(w, d)
    PROVE  SavedStep
  <1>1. /\ save' \in [Writers -> Save]
        /\ \A v \in Writers \ {w} : save'[v] = save[v]
        /\ save'[w] = [NoSave EXCEPT !.pc = "create", !.data = d]
        /\ UNCHANGED <<target, past, content>>
    BY Zenon DEF Begin, IInv, TypeOK, Save, NoSave, Points
  <1>2. save[w] = NoSave
    BY Others, Zenon DEF Begin, Local
  <1>3. /\ Jobs' = [Jobs EXCEPT ![w] = [phase |-> Phase(save'[w]), data |-> save'[w].data]]
        /\ Jobs[w] = [phase |-> Phase(save[w]), data |-> save[w].data]
    BY <1>1, JobOf, Zenon DEF IInv
  <1>4. Phase(save[w]) = "none" /\ save[w].data = Absent
    BY <1>2 DEF Phase, NoSave
  <1>5. Phase(save'[w]) = "asked" /\ save'[w].data = d
    BY <1>1, Zenon DEF Phase, NoSave
  <1>6. /\ Reads(target)' = Reads(target)
        /\ {Reads(f) : f \in past}' = {Reads(f) : f \in past}
    BY <1>1, SameReads, Zenon
  <1>7. Saved!Ask(w, d)
    BY <1>3, <1>4, <1>5, <1>6, Zenon DEF Saved!Ask, Saved!NoJob
  <1> QED
    BY <1>7, Zenon DEF SavedStep, Saved!Next

\* A step of an open call that keeps it open, or fails it.
LEMMA OpenSaved ==
    ASSUME IInv, NEW w \in Writers, Open(w), NEW p \in Points,
           p = "remove" \/ p \in {"writing", "sync", "protect", "rename"},
           save' = [save EXCEPT ![w].pc = p],
           UNCHANGED <<target, past>>,
           \A f \in Files : f # save[w].file => content'[f] = content[f]
    PROVE  SavedStep
  <1>1. TypeOK
    BY Zenon DEF IInv
  <1>2. /\ save' \in [Writers -> Save]
        /\ \A v \in Writers \ {w} : save'[v] = save[v]
        /\ save'[w].pc = p /\ save'[w].data = save[w].data /\ save'[w].ok = save[w].ok
    BY <1>1, Moved, ZenonT(30)
  <1>3. save[w].file \notin past /\ ~save[w].ok
    BY Others, Zenon DEF Own, Local, Open
  <1>4. \A f \in past : f # 0 => content'[f] = content[f]
    BY <1>1, <1>3, Zenon DEF TypeOK
  <1>5. Phase(save[w]) = "asked"
    BY Zenon DEF Open, Phase
  <1>6. Phase(save'[w]) = "asked" \/ Phase(save'[w]) = "refused"
    BY <1>2, <1>3, Zenon DEF Phase
  <1> QED
    BY <1>2, <1>4, <1>5, <1>6, PhaseStep, Zenon

LEMMA CreateSaved ==
    ASSUME IInv, NEW w \in Writers, Create(w)
    PROVE  SavedStep
  <1>1. TypeOK /\ save[w].pc = "create" /\ ~save[w].ok /\ Phase(save[w]) = "asked"
    BY Others, Zenon DEF IInv, Create, Local, Phase
  <1>2. UNCHANGED <<target, past>>
    BY Zenon DEF Create
  <1>3. CASE Goto(w, "return") /\ UNCHANGED content
    <2>1. "return" \in Points /\ save' = [save EXCEPT ![w].pc = "return"]
      BY <1>3, Zenon DEF Goto, Points
    <2>2. /\ save' \in [Writers -> Save]
          /\ \A v \in Writers \ {w} : save'[v] = save[v]
          /\ save'[w].pc = "return" /\ save'[w].data = save[w].data /\ save'[w].ok = save[w].ok
      BY <1>1, <2>1, Moved, Zenon
    <2>3. Phase(save'[w]) = "refused"
      BY <1>1, <2>2, Zenon DEF Phase
    <2> QED
      BY <1>1, <1>2, <1>3, <2>2, <2>3, PhaseStep, Zenon
  <1>4. CASE /\ files < MaxFiles
             /\ \E n \in Names : save' = [save EXCEPT ![w].pc = "write", ![w].name = n,
                                                       ![w].file = files + 1]
             /\ content' = [content EXCEPT ![files + 1] = Empty]
    <2>1. PICK n \in Names : save' = [save EXCEPT ![w].pc = "write", ![w].name = n,
                                                  ![w].file = files + 1]
      BY <1>4, Zenon
    <2>2. files + 1 \in Files
      BY <1>1, <1>4 DEF TypeOK, Files
    <2>3. /\ save' \in [Writers -> Save]
          /\ \A v \in Writers \ {w} : save'[v] = save[v]
          /\ save'[w].pc = "write" /\ save'[w].data = save[w].data
      BY <1>1, <2>1, <2>2, Named, Zenon
    <2>4. \A f \in past : f # 0 => content'[f] = content[f]
      <3>1. files + 1 \notin past /\ past \subseteq Files \cup {0}
        BY <1>1, <2>2 DEF IInv, TypeOK
      <3> QED
        BY <1>1, <1>4, <2>2, <3>1, Zenon DEF TypeOK
    <2>5. Phase(save'[w]) = "asked"
      BY <2>3, Zenon DEF Phase
    <2> QED
      BY <1>1, <1>2, <2>3, <2>4, <2>5, PhaseStep, Zenon
  <1> QED
    BY <1>3, <1>4, Zenon DEF Create

LEMMA RenameSaved ==
    ASSUME IInv, NEW w \in Writers, Rename(w)
    PROVE  SavedStep
  <1>1. CASE Fail(w) /\ UNCHANGED <<target, past, temps>>
    BY <1>1, OpenSaved, Zenon DEF Rename, Fail, Open, Points
  <1>2. CASE /\ target' = temps[save[w].name]
             /\ past' = past \cup {target'}
             /\ temps' = [temps EXCEPT ![save[w].name] = 0]
             /\ save' = [save EXCEPT ![w].pc = "remove", ![w].ok = TRUE]
    <2>1. save[w].pc = "rename" /\ UNCHANGED <<content, synced, files, losses>>
      BY Zenon DEF Rename
    <2>2. target' = save[w].file /\ content[save[w].file] = save[w].data
      BY <1>2, <2>1, RenameIInv, Zenon
    <2>3. save[w].file # 0
      BY <2>1, Others DEF Own, Open
    <2>4. /\ save' \in [Writers -> Save]
          /\ \A v \in Writers \ {w} : save'[v] = save[v]
          /\ save'[w].pc = "remove" /\ save'[w].data = save[w].data /\ save'[w].ok
      BY <1>2, Renamed, Zenon DEF IInv
    <2>5. /\ Jobs' = [Jobs EXCEPT ![w] = [phase |-> Phase(save'[w]), data |-> save'[w].data]]
          /\ Jobs[w] = [phase |-> Phase(save[w]), data |-> save[w].data]
      BY <2>4, JobOf, Zenon DEF IInv
    <2>6. Phase(save[w]) = "asked" /\ Phase(save'[w]) = "saved"
      BY <2>1, <2>4, Zenon DEF Phase
    <2>7. \A f : Reads(f)' = Reads(f)
      BY <2>1, Zenon DEF Reads
    <2>8. Reads(target)' = save[w].data
      BY <2>1, <2>2, <2>3, Zenon DEF Reads
    <2>9. {Reads(f) : f \in past}' = {Reads(f) : f \in past} \cup {save[w].data}
      <3>1. past' = past \cup {target'} /\ content' = content
        BY <1>2, <2>1, Zenon
      <3>2. {Reads(f) : f \in past}' = {Reads(f)' : f \in past \cup {target'}}
        BY <3>1, Zenon
      <3> QED
        BY <2>7, <2>8, <3>2, Zenon
    <2>10. Saved!Replace(w)
      BY <2>4, <2>5, <2>6, <2>8, <2>9, Zenon DEF Saved!Replace, Jobs
    <2> QED
      BY <2>10, Zenon DEF SavedStep, Saved!Next
  <1> QED
    BY <1>1, <1>2, Zenon DEF Rename

LEMMA RemoveSaved ==
    ASSUME IInv, NEW w \in Writers, Remove(w)
    PROVE  SavedStep
  <1>1. /\ TypeOK /\ "return" \in Points /\ save[w].pc = "remove"
        /\ save' = [save EXCEPT ![w].pc = "return"]
        /\ UNCHANGED <<target, past, content>>
    BY Zenon DEF IInv, Remove, Goto, Points
  <1>2. /\ save' \in [Writers -> Save]
        /\ \A v \in Writers \ {w} : save'[v] = save[v]
        /\ save'[w].pc = "return" /\ save'[w].data = save[w].data /\ save'[w].ok = save[w].ok
    BY <1>1, Moved, Zenon
  <1>3. Phase(save'[w]) = Phase(save[w])
    BY <1>1, <1>2, Zenon DEF Phase
  <1> QED
    BY <1>1, <1>2, <1>3, PhaseStep, Zenon

LEMMA ReturnSaved ==
    ASSUME IInv, NEW w \in Writers, Return(w)
    PROVE  SavedStep
  <1>1. /\ save[w].pc = "return"
        /\ save' \in [Writers -> Save]
        /\ \A v \in Writers \ {w} : save'[v] = save[v]
        /\ save'[w] = NoSave
        /\ UNCHANGED <<target, past, content>>
    BY Zenon DEF Return, IInv, TypeOK, Save, NoSave, Points
  <1>2. /\ Jobs' = [Jobs EXCEPT ![w] = [phase |-> Phase(save'[w]), data |-> save'[w].data]]
        /\ Jobs[w] = [phase |-> Phase(save[w]), data |-> save[w].data]
    BY <1>1, JobOf, Zenon DEF IInv
  <1>3. Phase(save'[w]) = "none" /\ save'[w].data = Absent
    BY <1>1 DEF Phase, NoSave
  <1>4. Phase(save[w]) \in {"saved", "refused"}
    BY <1>1, Zenon DEF Phase
  <1>5. /\ Reads(target)' = Reads(target)
        /\ {Reads(f) : f \in past}' = {Reads(f) : f \in past}
    BY <1>1, SameReads, Zenon
  <1>6. Saved!Return(w)
    BY <1>2, <1>3, <1>4, <1>5 DEF Saved!Return, Saved!NoJob
  <1> QED
    BY <1>6, Zenon DEF SavedStep, Saved!Next

LEMMA NoJobs ==
    ASSUME save' = [w \in Writers |-> NoSave]
    PROVE  Jobs' = [w \in Writers |-> Saved!NoJob]
  <1>1. \A w \in Writers : save'[w].pc = "idle" /\ save'[w].data = Absent
    BY Zenon DEF NoSave
  <1>2. \A w \in Writers : Phase(save'[w]) = "none"
    BY <1>1, Zenon DEF Phase
  <1> QED
    BY <1>1, <1>2, Zenon DEF Jobs, Saved!NoJob

LEMMA CrashSaved == ASSUME IInv, Crash PROVE SavedStep
  <1>1. Jobs' = [w \in Writers |-> Saved!NoJob]
    BY NoJobs, Zenon DEF Crash
  <1>2. /\ Reads(target)' = Reads(target)
        /\ {Reads(f) : f \in past}' = {Reads(f) : f \in past}
    BY SameReads, Zenon DEF Crash
  <1>3. Saved!Stop
    BY <1>1, <1>2, Zenon DEF Saved!Stop
  <1> QED
    BY <1>3, Zenon DEF SavedStep, Saved!Next

LEMMA PowerLossSaved == ASSUME IInv, PowerLoss PROVE SavedStep
  <1>1. Jobs' = [w \in Writers |-> Saved!NoJob]
    BY NoJobs, Zenon DEF PowerLoss
  <1>2. target' \in past /\ past' = {target'}
    BY Zenon DEF PowerLoss
  <1>3. \A f \in past : Reads(f)' = Reads(f)
    BY PowerLossIInv, Zenon DEF Reads
  <1>4. Reads(target)' = Reads(target')
    <2>1. CASE target' = 0
      BY <2>1, Zenon DEF Reads
    <2>2. CASE target' # 0
      <3>1. content'[target'] = content[target']
        BY <1>2, <2>2, PowerLossIInv, Zenon
      <3> QED
        BY <2>2, <3>1, Zenon DEF Reads
    <2> QED
      BY <2>1, <2>2, Zenon
  <1>5. Reads(target)' \in {Reads(f) : f \in past}
    BY <1>2, <1>4, Zenon
  <1>6. {Reads(f) : f \in past}' = {Reads(target)'}
    BY <1>2, Zenon DEF Reads
  <1>7. Saved!Lose
    BY <1>1, <1>5, <1>6, Zenon DEF Saved!Lose
  <1> QED
    BY <1>7, Zenon DEF SavedStep, Saved!Next

LEMMA StepSaved ==
    ASSUME IInv, NEW w \in Writers, Step(w)
    PROVE  SavedStep
  <1>1. CASE Create(w)
    BY <1>1, CreateSaved, Zenon
  <1>2. CASE WriteSome(w) \/ WriteRest(w)
    <2>1. Open(w) /\ UNCHANGED <<target, past>>
      BY <1>2, Zenon DEF WriteSome, WriteRest, Open
    <2>2. \E p \in {"writing", "sync", "remove"} : save' = [save EXCEPT ![w].pc = p]
      BY <1>2, Zenon DEF WriteSome, WriteRest, Goto, Fail
    <2>3. \A f \in Files : f # save[w].file => content'[f] = content[f]
      BY <1>2, Zenon DEF WriteSome, WriteRest, IInv, TypeOK
    <2> QED
      BY <2>1, <2>2, <2>3, OpenSaved, Zenon DEF Points
  <1>3. CASE Sync(w) \/ Protect(w)
    <2>1. Open(w) /\ UNCHANGED <<target, past, content>>
      BY <1>3, Zenon DEF Sync, Protect, Open
    <2>2. \E p \in {"protect", "rename", "remove"} : save' = [save EXCEPT ![w].pc = p]
      BY <1>3, Zenon DEF Sync, Protect, Goto, Fail
    <2> QED
      BY <2>1, <2>2, OpenSaved, Zenon DEF Points
  <1>4. CASE Rename(w)
    BY <1>4, RenameSaved, Zenon
  <1>5. CASE Remove(w)
    BY <1>5, RemoveSaved, Zenon
  <1>6. CASE Return(w)
    BY <1>6, ReturnSaved, Zenon
  <1> QED
    BY <1>1, <1>2, <1>3, <1>4, <1>5, <1>6, Zenon DEF Step

LEMMA InitSaved == Init => Saved!Init
  <1> SUFFICES ASSUME Init PROVE Saved!Init
    OBVIOUS
  <1>1. Reads(target) = Absent /\ {Reads(f) : f \in past} = {Absent}
    BY Zenon DEF Init, Reads
  <1>2. \A w \in Writers : Phase(save[w]) = "none" /\ save[w].data = Absent
    BY Zenon DEF Init, NoSave, Phase
  <1>3. Jobs = [w \in Writers |-> Saved!NoJob]
    BY <1>2, Zenon DEF Jobs, Saved!NoJob
  <1> QED
    BY <1>1, <1>3, Zenon DEF Saved!Init

\* For its callers atomicWriteFile saves in one step: it implements SavedFile.
THEOREM SavingIsAtomic == Spec => SaveIsAtomic
  <1>1. IInv /\ [Next]_vars => SavedStep
    <2> SUFFICES ASSUME IInv, [Next]_vars PROVE SavedStep
      OBVIOUS
    <2>1. ASSUME NEW w \in Writers, NEW d \in Data, Begin(w, d) PROVE SavedStep
      BY <2>1, BeginSaved, Zenon
    <2>2. ASSUME NEW w \in Writers, Step(w) PROVE SavedStep
      BY <2>2, StepSaved, Zenon
    <2>3. CASE Crash
      BY <2>3, CrashSaved, Zenon
    <2>4. CASE PowerLoss
      BY <2>4, PowerLossSaved, Zenon
    <2>5. CASE UNCHANGED vars
      BY <2>5, Zenon DEF vars, SavedStep, Reads, Jobs
    <2> QED
      BY <2>1, <2>2, <2>3, <2>4, <2>5, Zenon DEF Next
  <1> QED
    BY <1>1, InitSaved, Invariance, PTL DEF Spec, SaveIsAtomic, Saved!Spec, SavedStep

=============================================================================

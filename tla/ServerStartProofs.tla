------------------------- MODULE ServerStartProofs --------------------------
(***************************************************************************)
(* What holds of the server's start and stop for any number of processes,  *)
(* starts, kills and edits: types, PXE services under every HTTP server,   *)
(* silence after Stopped, and no token that vanishes unnoticed.            *)
(***************************************************************************)
EXTENDS ServerStart, TLAPS

\* A process that runs has the number of its start, and only such a process is
\* in Execute.
Numbered ==
    \A p \in Procs : IF At(p, "off") THEN proc[p].svc = "none"
                     ELSE proc[p].nr \in 1..starts

\* Types, and what makes them inductive: the token that a process makes is its
\* number.
Procs_OK == proc \in [Procs -> Proc] /\ Numbered
Typed == TypeOK /\ Numbered

-----------------------------------------------------------------------------
\* What happens to the record of a process.

\* A process that is not running has a well-formed record.
LEMMA OffTyped == Off \in Proc /\ Off.at = "off" /\ Off.svc = "none"
  BY ServerStartAssumption DEF Off, Proc, Places, DefaultConfig, Setting

\* Its fields change while it runs, but for its number.
LEMMA ChangeTyped ==
    ASSUME Typed, NEW p \in Procs, NEW r \in Proc, r.nr = proc[p].nr,
           ~At(p, "off"), r.at # "off", proc' = [proc EXCEPT ![p] = r], starts' = starts
    PROVE  Procs_OK'
<1>1. \A q \in Procs : proc'[q] = IF q = p THEN r ELSE proc[q]
  BY DEF Typed, TypeOK
<1>2. proc' \in [Procs -> Proc]
  BY DEF Typed, TypeOK
<1>3. \A q \in Procs : IF proc'[q].at = "off" THEN proc'[q].svc = "none"
                       ELSE proc'[q].nr \in 1..starts
  BY <1>1 DEF Typed, Numbered, At
<1> QED
  BY <1>2, <1>3 DEF Procs_OK, Numbered, At

\* It goes to another place.
LEMMA GotoTyped ==
    ASSUME Typed, NEW p \in Procs, NEW step \in Places \ {"off"}, ~At(p, "off"),
           Goto(p, step), starts' = starts
    PROVE  Procs_OK'
<1> DEFINE r == [proc[p] EXCEPT !.at = step]
<1>1. proc[p] \in Proc /\ proc' = [proc EXCEPT ![p] = r]
  BY DEF Typed, TypeOK, Goto
<1>2. r \in Proc /\ r.nr = proc[p].nr /\ r.at # "off"
  BY <1>1 DEF Proc
<1> HIDE DEF r
<1> QED
  BY <1>1, <1>2, ChangeTyped, Zenon

\* It ends.
LEMMA ExitTyped ==
    ASSUME Typed, NEW p \in Procs, Exit(p), starts' = starts
    PROVE  /\ Procs_OK'
           /\ accepting' \subseteq Procs /\ late' \subseteq Procs
           /\ stop' \subseteq Procs
           /\ port' \in [Ports -> Procs \cup {None}]
           /\ status' \in {"stopped", "starting", "running", "stopping"}
<1>1. \A q \in Procs : proc'[q] = IF q = p THEN Off ELSE proc[q]
  BY DEF Typed, TypeOK, Exit
<1>2. proc' \in [Procs -> Proc]
  BY OffTyped DEF Typed, TypeOK, Exit
<1>3. \A q \in Procs : IF proc'[q].at = "off" THEN proc'[q].svc = "none"
                       ELSE proc'[q].nr \in 1..starts
  BY <1>1, OffTyped DEF Typed, Numbered, At
<1>4. accepting' \subseteq Procs /\ late' \subseteq Procs /\ stop' \subseteq Procs
  BY DEF Typed, TypeOK, Exit
<1>5. port' \in [Ports -> Procs \cup {None}]
  BY DEF Typed, TypeOK, Exit
<1>6. status' \in {"stopped", "starting", "running", "stopping"}
  BY DEF Typed, TypeOK, Exit
<1> QED
  BY <1>2, <1>3, <1>4, <1>5, <1>6 DEF Procs_OK, Numbered, At

\* A token that is lost is one that was made.
LEMMA LoseTyped == ASSUME Typed, NEW p \in Procs, Lose(p) PROVE lost' \subseteq Made
  BY DEF Typed, TypeOK, Lose

-----------------------------------------------------------------------------
\* Types.

\* Nothing runs and nothing is stored yet: the types hold.
LEMMA InitTyped == Init => Typed
  BY OffTyped, ServerStartAssumption DEF Init, Typed, TypeOK, Numbered, At

\* A new process takes the next number.
LEMMA StartTyped == ASSUME Typed, NEW p \in Procs, Start(p) PROVE Typed'
<1> DEFINE r == [proc[p] EXCEPT !.at = "load", !.nr = starts + 1]
<1>1. starts \in Nat /\ starts + 1 \in 0..MaxStarts /\ starts' = starts + 1
  BY ServerStartAssumption DEF Typed, TypeOK, Start
<1>2. proc \in [Procs -> Proc] /\ proc[p] \in Proc
  BY DEF Typed, TypeOK
<1>3. proc' = [proc EXCEPT ![p] = r]
  BY <1>2, Zenon DEF Start
<1>4. r \in Proc /\ r.nr = starts + 1 /\ r.at # "off"
  BY <1>1, <1>2, Zenon DEF Proc, Places
<1> HIDE DEF r
<1>5. proc' \in [Procs -> Proc]
  BY <1>2, <1>3, <1>4
<1>6. \A q \in Procs : proc'[q] = IF q = p THEN r ELSE proc[q]
  BY <1>2, <1>3
<1>7. ASSUME NEW q \in Procs
      PROVE  IF proc'[q].at = "off" THEN proc'[q].svc = "none"
             ELSE proc'[q].nr \in 1..starts'
  <2>1. CASE q = p
    BY <1>1, <1>4, <1>6, <2>1
  <2>2. CASE q # p
    BY <1>1, <1>6, <1>7, <2>2 DEF Typed, Numbered, At
  <2> QED
    BY <2>1, <2>2
<1>8. Numbered'
  BY <1>7 DEF Numbered, At
<1> QED
  BY <1>1, <1>5, <1>8 DEF Typed, TypeOK, Start, files, http, ghosts

\* Steps that change nothing but the record of a process, or end it.
LEMMA MovesTyped ==
    ASSUME Typed, Procs_OK',
           UNCHANGED <<files, http, port, stop, status, ghosts, bounds>>
    PROVE  Typed'
  BY DEF Typed, TypeOK, Procs_OK, files, http, ghosts, bounds

\* A process ends and leaves the files as they are.
LEMMA EndsTyped ==
    ASSUME Typed, NEW p \in Procs, Exit(p), UNCHANGED <<files, ghosts, bounds>>
    PROVE  Typed'
<1>1. starts' = starts
  BY DEF bounds
<1> QED
  BY <1>1, ExitTyped DEF Typed, TypeOK, Procs_OK, files, ghosts, bounds

\* LoadConfig, the Stat after it and the save of the defaults (main.go).
LEMMA ConfigTyped ==
    ASSUME Typed, NEW p \in Procs, LoadConfig(p) \/ Stat(p) \/ SaveConfig(p)
    PROVE  Typed'
<1>1. starts' = starts /\ ~At(p, "off") /\ proc[p] \in Proc
  BY DEF LoadConfig, Stat, SaveConfig, bounds, At, Typed, TypeOK
<1>2. CASE LoadConfig(p)
  <2> DEFINE c == IF config \in Setting THEN config ELSE DefaultConfig
             r == [proc[p] EXCEPT !.at = "stat", !.cfg = c]
  <2>1. proc' = [proc EXCEPT ![p] = r]
    BY <1>2, Zenon DEF LoadConfig, Typed, TypeOK
  <2>2. c \in Setting
    BY DEF DefaultConfig, Setting
  <2> HIDE DEF c
  <2>3. r \in Proc /\ r.nr = proc[p].nr /\ r.at # "off"
    BY <1>1, <2>2, Zenon DEF Proc, Places
  <2> HIDE DEF r
  <2>4. Procs_OK'
    BY <1>1, <2>1, <2>3, ChangeTyped, Zenon
  <2> QED
    BY <1>2, <2>4, MovesTyped DEF LoadConfig
<1>3. CASE Stat(p)
  <2>1. Procs_OK'
    BY <1>1, <1>3, GotoTyped DEF Stat, Places
  <2> QED
    BY <1>3, <2>1, MovesTyped DEF Stat
<1>4. CASE SaveConfig(p)
  <2>1. Procs_OK'
    BY <1>1, <1>4, GotoTyped DEF SaveConfig, Places
  <2>2. proc[p].cfg \in Setting
    BY <1>1 DEF Proc
  <2>3. config' \in Setting \cup {Missing, Bad}
    BY <1>4, <2>2 DEF SaveConfig, Typed, TypeOK
  <2> QED
    BY <1>4, <2>1, <2>3 DEF SaveConfig, Typed, TypeOK, Procs_OK, http, ghosts, bounds
<1> QED
  BY <1>2, <1>3, <1>4

\* NewServer.
LEMMA OpenTyped == ASSUME Typed, NEW p \in Procs, OpenState(p) PROVE Typed'
<1>1. starts' = starts /\ ~At(p, "off")
  BY DEF OpenState, bounds, At
<1>2. CASE Exit(p)
  BY <1>2, EndsTyped DEF OpenState
<1>3. CASE Goto(p, "provision") /\ UNCHANGED <<http, port, stop, status>>
  <2>1. Procs_OK'
    BY <1>1, <1>3, GotoTyped DEF Places
  <2> QED
    BY <1>3, <2>1, MovesTyped DEF OpenState
<1> QED
  BY <1>2, <1>3 DEF OpenState

\* Provision keeps a stored token, takes the environment's or makes one.
LEMMA ProvisionTyped == ASSUME Typed, NEW p \in Procs, Provision(p) PROVE Typed'
<1>1. starts' = starts /\ ~At(p, "off") /\ proc[p] \in Proc
  BY DEF Provision, bounds, At, Typed, TypeOK
<1>2. CASE Exit(p)
  BY <1>2, EndsTyped DEF Provision
<1>3. CASE Goto(p, "storage") /\ UNCHANGED <<http, port, stop, status>>
  <2>1. Procs_OK'
    BY <1>1, <1>3, GotoTyped DEF Places
  <2> QED
    BY <1>3, <2>1, MovesTyped DEF Provision
<1>4. ASSUME NEW t \in {Env, proc[p].nr},
             proc' = [proc EXCEPT ![p].at = "save", ![p].tok = t],
             UNCHANGED <<http, port, stop, status>>
      PROVE  Typed'
  <2> DEFINE r == [proc[p] EXCEPT !.at = "save", !.tok = t]
  <2>1. proc[p].nr \in 1..starts /\ starts \in 0..MaxStarts
    BY <1>1 DEF Typed, TypeOK, Numbered
  <2>2. proc[p].nr \in Made
    BY <2>1, ServerStartAssumption DEF Made
  <2>3. t \in Tokens
    BY <2>2 DEF Tokens
  <2>4. proc' = [proc EXCEPT ![p] = r]
    BY <1>4, Zenon DEF Typed, TypeOK
  <2>5. r \in Proc /\ r.nr = proc[p].nr /\ r.at # "off"
    BY <1>1, <2>3, Zenon DEF Proc, Places
  <2> HIDE DEF r
  <2>6. Procs_OK'
    BY <1>1, <2>4, <2>5, ChangeTyped, Zenon
  <2> QED
    BY <1>4, <2>6, MovesTyped DEF Provision
<1> QED
  BY <1>2, <1>3, <1>4 DEF Provision

\* save writes the token that Provision chose.
LEMMA SaveTokenTyped == ASSUME Typed, NEW p \in Procs, SaveToken(p) PROVE Typed'
<1>1. starts' = starts /\ ~At(p, "off") /\ proc[p] \in Proc
  BY DEF SaveToken, bounds, At, Typed, TypeOK
<1>2. CASE Exit(p) /\ UNCHANGED hash
  BY <1>2, EndsTyped DEF SaveToken, files
<1>3. CASE /\ hash' = proc[p].tok
           /\ Goto(p, "storage") /\ UNCHANGED <<http, port, stop, status>>
  <2>1. Procs_OK'
    BY <1>1, <1>3, GotoTyped DEF Places
  <2>2. hash' \in Tokens \cup {None}
    BY <1>1, <1>3 DEF Proc
  <2> QED
    BY <1>3, <2>1, <2>2 DEF SaveToken, Typed, TypeOK, Procs_OK, http, ghosts, bounds
<1> QED
  BY <1>2, <1>3 DEF SaveToken

\* NewStorage succeeds, or its failure drops the token.
LEMMA StorageTyped == ASSUME Typed, NEW p \in Procs, NewStorage(p) PROVE Typed'
<1>1. starts' = starts /\ ~At(p, "off")
  BY DEF NewStorage, bounds, At
<1>2. CASE Exit(p) /\ Lose(p)
  BY <1>1, <1>2, ExitTyped, LoseTyped
  DEF NewStorage, Typed, TypeOK, Procs_OK, files, bounds
<1>3. CASE Goto(p, "show") /\ UNCHANGED <<http, port, stop, status, lost>>
  <2>1. Procs_OK'
    BY <1>1, <1>3, GotoTyped DEF Places
  <2> QED
    BY <1>3, <2>1, MovesTyped DEF NewStorage, ghosts
<1> QED
  BY <1>2, <1>3 DEF NewStorage

\* run shows the token on stderr or leaves it to the service's log.
LEMMA ShowTyped == ASSUME Typed, NEW p \in Procs, Show(p) PROVE Typed'
<1>1. starts' = starts /\ ~At(p, "off") /\ proc[p] \in Proc
  BY DEF Show, bounds, At, Typed, TypeOK
<1> DEFINE r == [proc[p] EXCEPT !.at = "tftp", !.tok = None]
<1>2. proc' = [proc EXCEPT ![p] = r]
  BY Zenon DEF Show, Typed, TypeOK
<1>3. r \in Proc /\ r.nr = proc[p].nr /\ r.at # "off"
  BY <1>1, Zenon DEF Proc, Places
<1> HIDE DEF r
<1>4. Procs_OK'
  BY <1>1, <1>2, <1>3, ChangeTyped, Zenon
<1>5. shown' \subseteq Made /\ lost' \subseteq Made
  BY LoseTyped DEF Show, Typed, TypeOK
<1> QED
  BY <1>4, <1>5 DEF Show, Typed, TypeOK, Procs_OK, files, http, bounds

\* The ports.
LEMMA BindTyped ==
    ASSUME Typed, NEW p \in Procs, NEW x \in PXE,
           NEW next \in {"dhcp", "enter", "listen"}, Bind(p, x, next)
    PROVE  Typed'
<1>1. starts' = starts /\ ~At(p, "off")
  BY DEF Bind, bounds, At, PXE
<1>2. CASE Exit(p)
  BY <1>2, EndsTyped DEF Bind
<1>3. CASE Goto(p, next) /\ UNCHANGED <<http, stop, status>>
             /\ (port' = port \/ port' = [port EXCEPT ![x] = p])
  <2>1. Procs_OK'
    BY <1>1, <1>3, GotoTyped DEF Places
  <2>2. port' \in [Ports -> Procs \cup {None}]
    BY <1>3 DEF Typed, TypeOK
  <2> QED
    BY <1>3, <2>1, <2>2 DEF Bind, Typed, TypeOK, Procs_OK, files, http, ghosts, bounds
<1> QED
  BY <1>2, <1>3 DEF Bind

\* Listen binds the HTTP port or fails.
LEMMA ListenTyped == ASSUME Typed, NEW p \in Procs, Listen(p) PROVE Typed'
<1>1. starts' = starts /\ ~At(p, "off")
  BY DEF Listen, bounds, At
<1>2. PICK step \in {"serve", "ended"} : Goto(p, step)
  BY DEF Listen
<1>3. Procs_OK'
  BY <1>1, <1>2, GotoTyped DEF Places
<1>4. port' \in [Ports -> Procs \cup {None}]
  BY DEF Listen, Typed, TypeOK
<1> QED
  BY <1>3, <1>4 DEF Listen, Typed, TypeOK, Procs_OK, files, http, ghosts, bounds

\* Execute.
LEMMA ExecuteTyped ==
    ASSUME Typed, NEW p \in Procs,
           Execute(p) \/ ReportRunning(p) \/ HandleStop(p) \/ Done(p)
    PROVE  Typed'
<1>1. starts' = starts /\ proc[p] \in Proc /\ ~At(p, "off")
  BY DEF Execute, ReportRunning, HandleStop, Done, bounds, Typed, TypeOK,
         Numbered, At
<1>2. PICK a \in Places \ {"off"}, v \in {"pending", "select", "await", "done"} :
        proc' = [proc EXCEPT ![p] = [proc[p] EXCEPT !.at = a, !.svc = v]]
  <2>1. CASE Execute(p)
    <3>1. proc' = [proc EXCEPT ![p] =
                     [proc[p] EXCEPT !.at = "listen", !.svc = "pending"]]
      BY <2>1, Zenon DEF Execute, Typed, TypeOK
    <3> QED
      BY <3>1, Zenon DEF Places
  <2>2. CASE Done(p)
    <3>1. proc' = [proc EXCEPT ![p] =
                     [proc[p] EXCEPT !.at = "cleanup", !.svc = "done"]]
      BY <2>2, Zenon DEF Done, Typed, TypeOK
    <3> QED
      BY <3>1, Zenon DEF Places
  <2>3. CASE ReportRunning(p) \/ HandleStop(p)
    <3>1. PICK v \in {"select", "await"} :
            proc' = [proc EXCEPT ![p] = [proc[p] EXCEPT !.svc = v]]
      BY <2>3 DEF ReportRunning, HandleStop, Typed, TypeOK
    <3>2. [proc[p] EXCEPT !.svc = v] =
            [proc[p] EXCEPT !.at = proc[p].at, !.svc = v]
      BY <1>1, Zenon DEF Proc
    <3>3. proc[p].at \in Places \ {"off"}
      BY <1>1 DEF Proc, At
    <3> QED
      BY <3>1, <3>2, <3>3, Zenon
  <2> QED
    BY <2>1, <2>2, <2>3, Zenon
<1> DEFINE r == [proc[p] EXCEPT !.at = a, !.svc = v]
<1>3. r \in Proc /\ r.nr = proc[p].nr /\ r.at # "off"
  BY <1>1, <1>2, Zenon DEF Proc
<1> HIDE DEF r
<1>4. proc' = [proc EXCEPT ![p] = r]
  BY <1>2 DEF r
<1>5. Procs_OK'
  BY <1>1, <1>3, <1>4, ChangeTyped, Zenon
<1>6. stop' \subseteq Procs
        /\ status' \in {"stopped", "starting", "running", "stopping"}
  BY DEF Execute, ReportRunning, HandleStop, Done, Typed, TypeOK
<1>7. UNCHANGED <<files, http, port, ghosts, bounds>>
  BY DEF Execute, ReportRunning, HandleStop, Done
<1> QED
  BY <1>5, <1>6, <1>7 DEF Typed, TypeOK, Procs_OK, files, http, ghosts, bounds

\* Serve and the end of run.
LEMMA ServeTyped ==
    ASSUME Typed, NEW p \in Procs,
           HttpError(p) \/ Shutdown(p) \/ Drained(p)
    PROVE  Typed'
<1>1. starts' = starts /\ ~At(p, "off")
  BY DEF HttpError, Shutdown, Drained, bounds, At
<1>2. PICK step \in {"ended", "drain"} : Goto(p, step)
  BY DEF HttpError, Shutdown, Drained
<1>3. Procs_OK'
  BY <1>1, <1>2, GotoTyped DEF Places
<1>4. port' \in [Ports -> Procs \cup {None}]
  BY DEF HttpError, Shutdown, Drained, CloseListener, Typed, TypeOK
<1>5. accepting' \subseteq Procs /\ late' \subseteq Procs
  BY DEF HttpError, Shutdown, Drained, Typed, TypeOK, http
<1>6. UNCHANGED <<files, stop, status, ghosts, bounds>>
  BY DEF HttpError, Shutdown, Drained
<1> QED
  BY <1>3, <1>4, <1>5, <1>6 DEF Typed, TypeOK, Procs_OK, files, ghosts, bounds

\* The goroutine of http.Serve begins to accept.
LEMMA HttpTyped ==
    ASSUME Typed, NEW p \in Procs, HttpServe(p) \/ Interrupt(p)
    PROVE  Typed'
<1>1. port' \in [Ports -> Procs \cup {None}]
  BY DEF HttpServe, Interrupt, CloseListener, Typed, TypeOK
<1>2. accepting' \subseteq Procs /\ late' \subseteq Procs /\ stop' \subseteq Procs
  BY DEF HttpServe, Interrupt, Typed, TypeOK, http
<1>3. UNCHANGED <<files, proc, status, ghosts, bounds>>
  BY DEF HttpServe, Interrupt
<1> QED
  BY <1>1, <1>2, <1>3 DEF Typed, TypeOK, Numbered, At, files, ghosts, bounds

\* A killed process loses the token it had not shown.
LEMMA KillTyped == ASSUME Typed, NEW p \in Procs, Kill(p) PROVE Typed'
<1>1. kills' \in 0..MaxKills /\ starts' = starts
  BY ServerStartAssumption DEF Kill, Typed, TypeOK
<1> QED
  BY <1>1, ExitTyped, LoseTyped DEF Kill, Typed, TypeOK, Procs_OK, files

\* The operator writes the configuration.
LEMMA EditTyped ==
    ASSUME Typed, NEW c \in Settings \cup {Bad}, Edit(c)
    PROVE  Typed'
<1>1. config' \in Setting \cup {Missing, Bad} /\ edits' \in 0..MaxEdits
  BY ServerStartAssumption DEF Edit, Typed, TypeOK
<1> QED
  BY <1>1 DEF Edit, Typed, TypeOK, Numbered, At, http, ghosts

\* Every step of a process's own code keeps the types.
LEMMA RunTyped == ASSUME Typed, NEW p \in Procs, Run(p) PROVE Typed'
<1>1. ASSUME NEW x \in PXE, NEW next \in {"dhcp", "enter", "listen"},
             Bind(p, x, next)
      PROVE  Typed'
  BY <1>1, BindTyped
<1>2. CASE StartTFTP(p) \/ StartDHCP(p)
  BY <1>1, <1>2 DEF StartTFTP, StartDHCP, PXE
<1>3. CASE Return(p)
  BY <1>3, EndsTyped DEF Return
<1> QED
  BY <1>2, <1>3, ConfigTyped, OpenTyped, ProvisionTyped, SaveTokenTyped,
     StorageTyped, ShowTyped, ExecuteTyped, ListenTyped, HttpTyped, ServeTyped
  DEF Run

\* Every step keeps the types.
LEMMA NextTyped == Typed /\ [Next]_vars => Typed'
<1> SUFFICES ASSUME Typed, [Next]_vars PROVE Typed'
  OBVIOUS
<1>1. CASE UNCHANGED vars
  BY <1>1 DEF vars, files, http, ghosts, bounds, Typed, TypeOK, Numbered, At
<1>2. ASSUME NEW p \in Procs, Start(p) \/ Run(p) \/ HandleStop(p) \/ Interrupt(p)
               \/ HttpError(p) \/ Kill(p)
      PROVE  Typed'
  BY <1>2, StartTyped, RunTyped, ExecuteTyped, HttpTyped, ServeTyped, KillTyped
<1>3. ASSUME NEW c \in Settings \cup {Bad}, Edit(c) PROVE Typed'
  BY <1>3, EditTyped
<1> QED
  BY <1>1, <1>2, <1>3 DEF Next

\* The types and the numbering hold in every state.
LEMMA AlwaysTyped == Spec => []Typed
  BY InitTyped, NextTyped, PTL DEF Spec

\* Whatever config.json holds and however many processes start, stop and are
\* killed, the variables keep their types.
THEOREM TypeCorrect == Spec => []TypeOK
<1>1. Typed => TypeOK
  BY DEF Typed
<1> QED
  BY <1>1, AlwaysTyped, PTL

-----------------------------------------------------------------------------
\* Ports.

\* What process p, with record r, holds: the PXE services it has got to, and the
\* HTTP port while it serves; only a process that serves accepts requests.
Up == {"enter", "listen", "serve", "drain", "ended", "cleanup"}
Holds(p, r, acc, lat, prt) ==
    /\ p \in acc => r.at = "serve"
    /\ p \in lat => r.at \in {"drain", "ended", "cleanup"}
    /\ r.at = "serve" => prt["http"] = p
    /\ r.at = "dhcp" /\ "tftp" \in r.cfg.pxe => prt["tftp"] = p
    /\ r.at \in Up => \A x \in r.cfg.pxe : prt[x] = p
    /\ r.svc = "done" => r.at = "cleanup"

Bound == \A p \in Procs : Holds(p, proc[p], accepting, late, port)

\* A step of one process that takes nothing from the others.
LEMMA OneMoves ==
    ASSUME Typed, Bound, NEW p \in Procs, NEW r,
           proc' = [proc EXCEPT ![p] = r],
           \A q \in Procs \ {p} :
              /\ q \in accepting' => q \in accepting
              /\ q \in late' => q \in late
              /\ \A x \in Ports : port[x] = q => port'[x] = q,
           Holds(p, r, accepting', late', port')
    PROVE  Bound'
<1>1. \A q \in Procs : proc'[q] = IF q = p THEN r ELSE proc[q]
  BY DEF Typed, TypeOK
<1>2. ASSUME NEW q \in Procs, q # p
      PROVE  Holds(q, proc'[q], accepting', late', port')
  <2>1. proc'[q] = proc[q] /\ proc[q].cfg.pxe \subseteq Ports /\ "http" \in Ports
          /\ "tftp" \in Ports
    BY <1>1, <1>2 DEF Typed, TypeOK, Proc, Setting, Ports, PXE
  <2>2. Holds(q, proc[q], accepting, late, port)
    BY DEF Bound
  <2> QED
    BY <1>2, <2>1, <2>2 DEF Holds
<1> QED
  BY <1>1, <1>2 DEF Bound

\* The end of a process frees its own ports only.
LEMMA ExitBound == ASSUME Typed, Bound, NEW p \in Procs, Exit(p) PROVE Bound'
<1>1. proc' = [proc EXCEPT ![p] = Off]
  BY DEF Exit
<1>2. \A q \in Procs \ {p} :
        /\ q \in accepting' => q \in accepting
        /\ q \in late' => q \in late
        /\ \A x \in Ports : port[x] = q => port'[x] = q
  BY DEF Exit
<1>3. Holds(p, Off, accepting', late', port')
  BY DEF Holds, Off, Up, Exit
<1> QED
  BY <1>1, <1>2, <1>3, OneMoves, Zenon

\* Steps before the ports are bound, wherever they lead before them.
LEMMA EarlyBound ==
    ASSUME Typed, Bound, NEW p \in Procs, NEW r, proc' = [proc EXCEPT ![p] = r],
           r.at \notin Up \cup {"dhcp"}, r.svc = proc[p].svc,
           proc[p].at \notin Up \cup {"dhcp"},
           UNCHANGED <<http, port>>
    PROVE  Bound'
<1>1. Holds(p, proc[p], accepting, late, port)
  BY DEF Bound
<1>2. Holds(p, r, accepting', late', port')
  BY <1>1 DEF Holds, Up, http
<1> QED
  BY <1>2, OneMoves, Zenon DEF http

\* Nobody holds a port at first.
LEMMA InitBound == Init => Bound
<1>1. Off.at = "off" /\ Off.svc = "none"
  BY DEF Off
<1>2. ASSUME Init, NEW p \in Procs PROVE Holds(p, proc[p], accepting, late, port)
  <2>1. proc[p].at = "off" /\ proc[p].svc = "none" /\ p \notin accepting \cup late
    BY <1>1, <1>2 DEF Init
  <2> QED
    BY <2>1 DEF Holds, Up
<1> QED
  BY <1>2, Zenon DEF Bound

\* run before startPXE.
LEMMA BeginBound ==
    ASSUME Typed, Bound, NEW p \in Procs,
           Start(p) \/ LoadConfig(p) \/ Stat(p) \/ SaveConfig(p) \/ Show(p)
    PROVE  Bound'
<1>1. proc \in [Procs -> Proc] /\ proc[p] \in Proc
  BY DEF Typed, TypeOK
<1>2. UNCHANGED <<http, port>> /\ proc[p].at \notin Up \cup {"dhcp"}
  BY DEF Start, LoadConfig, Stat, SaveConfig, Show, At, Up
<1>3. CASE Start(p)
  <2> DEFINE r == [proc[p] EXCEPT !.at = "load", !.nr = starts + 1]
  <2>1. proc' = [proc EXCEPT ![p] = r]
    BY <1>1, <1>3, Zenon DEF Start
  <2>2. r.at = "load" /\ r.svc = proc[p].svc
    BY <1>1 DEF Proc
  <2> HIDE DEF r
  <2> QED
    BY <1>2, <2>1, <2>2, EarlyBound, Zenon DEF Up
<1>4. CASE LoadConfig(p)
  <2> DEFINE c == IF config \in Setting THEN config ELSE DefaultConfig
             r == [proc[p] EXCEPT !.at = "stat", !.cfg = c]
  <2>1. proc' = [proc EXCEPT ![p] = r]
    BY <1>1, <1>4, Zenon DEF LoadConfig
  <2>2. r.at = "stat" /\ r.svc = proc[p].svc
    BY <1>1 DEF Proc
  <2> HIDE DEF r
  <2> QED
    BY <1>2, <2>1, <2>2, EarlyBound, Zenon DEF Up
<1>5. CASE Show(p)
  <2> DEFINE r == [proc[p] EXCEPT !.at = "tftp", !.tok = None]
  <2>1. proc' = [proc EXCEPT ![p] = r]
    BY <1>1, <1>5, Zenon DEF Show
  <2>2. r.at = "tftp" /\ r.svc = proc[p].svc
    BY <1>1 DEF Proc
  <2> HIDE DEF r
  <2> QED
    BY <1>2, <2>1, <2>2, EarlyBound, Zenon DEF Up
<1>6. CASE Stat(p) \/ SaveConfig(p)
  <2>1. PICK step \in {"default", "log"} : Goto(p, step)
    BY <1>6 DEF Stat, SaveConfig
  <2> DEFINE r == [proc[p] EXCEPT !.at = step]
  <2>2. proc' = [proc EXCEPT ![p] = r]
    BY <1>1, <2>1 DEF Goto
  <2>3. r.at = step /\ r.svc = proc[p].svc
    BY <1>1 DEF Proc
  <2> HIDE DEF r
  <2> QED
    BY <1>2, <2>1, <2>2, <2>3, EarlyBound, Zenon DEF Up
<1> QED
  BY <1>3, <1>4, <1>5, <1>6

\* NewServer and the display of the token bind nothing.
LEMMA ServerBound ==
    ASSUME Typed, Bound, NEW p \in Procs,
           OpenState(p) \/ Provision(p) \/ SaveToken(p) \/ NewStorage(p)
    PROVE  Bound'
<1>1. proc \in [Procs -> Proc] /\ proc[p] \in Proc
  BY DEF Typed, TypeOK
<1>2. proc[p].at \notin Up \cup {"dhcp"}
  BY DEF OpenState, Provision, SaveToken, NewStorage, At, Up
<1>3. CASE Exit(p)
  BY <1>3, ExitBound
<1>4. ASSUME NEW step \in {"provision", "storage", "show"}, Goto(p, step),
             UNCHANGED <<http, port>>
      PROVE  Bound'
  <2> DEFINE r == [proc[p] EXCEPT !.at = step]
  <2>1. proc' = [proc EXCEPT ![p] = r]
    BY <1>1, <1>4 DEF Goto
  <2>2. r.at = step /\ r.svc = proc[p].svc
    BY <1>1 DEF Proc
  <2> HIDE DEF r
  <2> QED
    BY <1>2, <1>4, <2>1, <2>2, EarlyBound, Zenon DEF Up
<1>5. ASSUME NEW t, proc' = [proc EXCEPT ![p].at = "save", ![p].tok = t],
             UNCHANGED <<http, port>>
      PROVE  Bound'
  <2> DEFINE r == [proc[p] EXCEPT !.at = "save", !.tok = t]
  <2>1. proc' = [proc EXCEPT ![p] = r]
    BY <1>1, <1>5, Zenon
  <2>2. r.at = "save" /\ r.svc = proc[p].svc
    BY <1>1 DEF Proc
  <2> HIDE DEF r
  <2> QED
    BY <1>2, <1>5, <2>1, <2>2, EarlyBound, Zenon DEF Up
<1> QED
  BY <1>3, <1>4, <1>5 DEF OpenState, Provision, SaveToken, NewStorage

\* startPXE: the services that are enabled, in their order.
LEMMA BindBound ==
    ASSUME Typed, Bound, NEW p \in Procs, NEW x, NEW next, Bind(p, x, next),
           \/ x = "tftp" /\ next = "dhcp"
           \/ x = "dhcp" /\ next \in {"enter", "listen"}
    PROVE  Bound'
<1>1. proc \in [Procs -> Proc] /\ proc[p] \in Proc /\ x \in Ports
        /\ port \in [Ports -> Procs \cup {None}] /\ None \notin Procs
  BY ServerStartAssumption DEF Typed, TypeOK, Ports, PXE
<1>2. Holds(p, proc[p], accepting, late, port) /\ proc[p].at = x
  BY DEF Bound, Bind, At
<1>3. CASE Exit(p)
  BY <1>3, ExitBound
<1>4. CASE /\ x \in proc[p].cfg.pxe => port' = [port EXCEPT ![x] = p] /\ port[x] = None
           /\ x \notin proc[p].cfg.pxe => port' = port
           /\ Goto(p, next) /\ UNCHANGED http
  <2> DEFINE r == [proc[p] EXCEPT !.at = next]
  <2>1. proc' = [proc EXCEPT ![p] = r]
    BY <1>1, <1>4 DEF Goto
  <2>2. r.at = next /\ r.svc = proc[p].svc /\ r.cfg = proc[p].cfg
    BY <1>1 DEF Proc
  <2> HIDE DEF r
  <2>3. \A q \in Procs, y \in Ports : port[y] = q => port'[y] = q
    BY <1>1, <1>4
  <2>4. p \notin accepting \cup late /\ r.svc # "done"
    BY <1>2, <2>2 DEF Holds
  <2>5. x \in r.cfg.pxe => port'[x] = p
    BY <1>1, <1>4, <2>2
  <2>6. r.cfg.pxe \subseteq {"tftp", "dhcp"} /\ "tftp" \in Ports
    BY <1>1, <2>2 DEF Proc, Setting, PXE, Ports
  <2>7. Holds(p, r, accepting', late', port')
    <3>1. CASE x = "tftp" /\ next = "dhcp"
      BY <1>4, <2>2, <2>4, <2>5, <3>1 DEF Holds, Up, http
    <3>2. CASE x = "dhcp" /\ next \in {"enter", "listen"}
      <4>1. "tftp" \in r.cfg.pxe => port'["tftp"] = p
        BY <1>2, <2>2, <2>3, <2>6, <3>2 DEF Holds
      <4> QED
        BY <1>4, <2>2, <2>4, <2>5, <2>6, <3>2, <4>1 DEF Holds, Up, http
    <3> QED
      BY <3>1, <3>2
  <2> QED
    BY <1>4, <2>1, <2>3, <2>7, OneMoves, Zenon DEF http
<1> QED
  BY <1>3, <1>4 DEF Bind

\* Steps that go from one place with all PXE services to another, and change
\* at most the process's own HTTP listener.
LEMMA UpBound ==
    ASSUME Typed, Bound, NEW p \in Procs, NEW r, proc' = [proc EXCEPT ![p] = r],
           proc[p].at \in Up, r.at \in Up, r.cfg = proc[p].cfg,
           \A q \in Procs \ {p} :
              /\ q \in accepting' => q \in accepting
              /\ q \in late' => q \in late,
           \A q \in Procs : port["http"] = q /\ q # p => port'["http"] = q,
           \A x \in PXE : port'[x] = port[x],
           p \in accepting' => r.at = "serve",
           p \in late' => r.at \in {"drain", "ended", "cleanup"},
           r.at = "serve" => port'["http"] = p,
           r.svc = "done" => r.at = "cleanup"
    PROVE  Bound'
<1>1. Holds(p, proc[p], accepting, late, port) /\ proc[p] \in Proc
  BY DEF Bound, Typed, TypeOK
<1>2. r.cfg.pxe \subseteq PXE
  BY <1>1 DEF Proc, Setting
<1>3. r.at # "dhcp"
  BY DEF Up
<1>4. Holds(p, r, accepting', late', port')
  BY <1>1, <1>2, <1>3 DEF Holds
<1>5. \A q \in Procs \ {p} : \A x \in Ports : port[x] = q => port'[x] = q
  BY DEF Ports
<1> QED
  BY <1>4, <1>5, OneMoves, Zenon

\* Execute is entered and left with all PXE services of the process up.
LEMMA ExecuteBound ==
    ASSUME Typed, Bound, NEW p \in Procs, Execute(p) \/ Done(p)
    PROVE  Bound'
<1>1. Holds(p, proc[p], accepting, late, port) /\ proc[p] \in Proc
  BY DEF Bound, Typed, TypeOK
<1>2. UNCHANGED <<http, port>> /\ proc[p].at \in {"enter", "ended"}
  BY DEF Execute, Done, At
<1>3. p \notin accepting
  BY <1>1, <1>2 DEF Holds
<1>4. CASE Execute(p)
  <2> DEFINE r == [proc[p] EXCEPT !.at = "listen", !.svc = "pending"]
  <2>1. proc' = [proc EXCEPT ![p] = r]
    BY <1>4, Zenon DEF Execute, Typed, TypeOK
  <2>2. r.at = "listen" /\ r.svc = "pending" /\ r.cfg = proc[p].cfg
    BY <1>1 DEF Proc
  <2>3. p \notin late
    BY <1>1, <1>4 DEF Execute, At, Holds
  <2> HIDE DEF r
  <2> QED
    BY <1>2, <1>3, <2>1, <2>2, <2>3, UpBound, Zenon DEF Up, http
<1>5. CASE Done(p)
  <2> DEFINE r == [proc[p] EXCEPT !.at = "cleanup", !.svc = "done"]
  <2>1. proc' = [proc EXCEPT ![p] = r]
    BY <1>5, Zenon DEF Done, Typed, TypeOK
  <2>2. r.at = "cleanup" /\ r.cfg = proc[p].cfg
    BY <1>1 DEF Proc
  <2> HIDE DEF r
  <2> QED
    BY <1>2, <1>3, <2>1, <2>2, UpBound, Zenon DEF Up, http
<1> QED
  BY <1>4, <1>5

\* Reports to the service manager move no port.
LEMMA ReportBound ==
    ASSUME Typed, Bound, NEW p \in Procs, ReportRunning(p) \/ HandleStop(p)
    PROVE  Bound'
<1>1. Holds(p, proc[p], accepting, late, port) /\ proc[p] \in Proc
  BY DEF Bound, Typed, TypeOK
<1>2. PICK v \in {"select", "await"} :
        proc' = [proc EXCEPT ![p] = [proc[p] EXCEPT !.svc = v]]
  BY DEF ReportRunning, HandleStop, Typed, TypeOK
<1> DEFINE r == [proc[p] EXCEPT !.svc = v]
<1>3. r.at = proc[p].at /\ r.cfg = proc[p].cfg /\ r.svc # "done"
  BY <1>1 DEF Proc
<1>4. proc' = [proc EXCEPT ![p] = r]
  BY <1>2
<1> HIDE DEF r
<1>5. UNCHANGED <<accepting, late, port>>
  BY DEF ReportRunning, HandleStop, http
<1>6. Holds(p, r, accepting', late', port')
  BY <1>1, <1>3, <1>5 DEF Holds
<1> QED
  BY <1>4, <1>5, <1>6, OneMoves, Zenon

\* Serve: a move of the process, with what happens to its listener.
LEMMA ServeBound ==
    ASSUME Typed, Bound, NEW p \in Procs,
           Listen(p) \/ HttpError(p) \/ Shutdown(p) \/ Drained(p)
    PROVE  Bound'
<1>1. Holds(p, proc[p], accepting, late, port) /\ proc[p] \in Proc
        /\ proc \in [Procs -> Proc] /\ port \in [Ports -> Procs \cup {None}]
        /\ None \notin Procs /\ "http" \in Ports /\ PXE \subseteq Ports \ {"http"}
  BY ServerStartAssumption DEF Bound, Typed, TypeOK, Ports, PXE
<1>2. PICK step \in {"serve", "drain", "ended"} :
        /\ Goto(p, step)
        /\ step = "serve" => port' = [port EXCEPT !["http"] = p]
        /\ step \in {"serve", "ended"} /\ p \in late' => p \in late
  BY DEF Listen, HttpError, Shutdown, Drained, http
<1>3. proc[p].at \in {"listen", "serve", "drain"}
  BY DEF Listen, HttpError, Shutdown, Drained, At
<1> DEFINE r == [proc[p] EXCEPT !.at = step]
<1>4. r.at = step /\ r.svc = proc[p].svc /\ r.cfg = proc[p].cfg
  BY <1>1 DEF Proc
<1>5. proc' = [proc EXCEPT ![p] = r]
  BY <1>1, <1>2 DEF Goto
<1> HIDE DEF r
<1>6. \A q \in Procs \ {p} :
        (q \in accepting' => q \in accepting) /\ (q \in late' => q \in late)
  BY DEF Listen, HttpError, Shutdown, Drained, http
<1>7. \A q \in Procs : port["http"] = q /\ q # p => port'["http"] = q
  BY <1>1 DEF Listen, HttpError, Shutdown, Drained, CloseListener
<1>8. \A x \in PXE : port'[x] = port[x]
  BY <1>1 DEF Listen, HttpError, Shutdown, Drained, CloseListener
<1>9. p \notin accepting'
  BY <1>1 DEF Listen, HttpError, Shutdown, Drained, At, Holds, http
<1>10. p \in late' => step \in {"drain", "ended", "cleanup"}
  <2>1. CASE Listen(p)
    BY <1>1, <2>1 DEF Listen, At, Holds, http
  <2>2. CASE HttpError(p) \/ Shutdown(p) \/ Drained(p)
    <3>1. PICK a \in {"drain", "ended"} : Goto(p, a)
      BY <2>2 DEF HttpError, Shutdown, Drained
    <3>2. proc'[p].at = a /\ proc'[p].at = step
      BY <1>1, <1>4, <1>5, <3>1 DEF Goto, Proc
    <3> QED
      BY <3>2
  <2> QED
    BY <2>1, <2>2
<1>11. step = "serve" => port'["http"] = p
  BY <1>1, <1>2
<1>12. proc[p].at \in Up /\ r.at \in Up /\ r.svc # "done"
  BY <1>1, <1>3, <1>4 DEF Up, Holds
<1> QED
  BY <1>4, <1>5, <1>6, <1>7, <1>8, <1>9, <1>10, <1>11, <1>12, UpBound, Zenon

\* http.Serve accepts only on a listener that Listen has bound.
LEMMA HttpBound == ASSUME Typed, Bound, NEW p \in Procs, HttpServe(p) PROVE Bound'
<1>1. Holds(p, proc[p], accepting, late, port) /\ proc[p] \in Proc
        /\ proc \in [Procs -> Proc] /\ port \in [Ports -> Procs \cup {None}]
        /\ None \notin Procs /\ "http" \in Ports /\ PXE \subseteq Ports \ {"http"}
  BY ServerStartAssumption DEF Bound, Typed, TypeOK, Ports, PXE
<1>2. proc' = [proc EXCEPT ![p] = proc[p]]
  BY <1>1 DEF HttpServe
<1>3. proc[p].at \in Up /\ (proc[p].svc = "done" => proc[p].at = "cleanup")
  BY <1>1 DEF HttpServe, Holds, Up, At
<1>4. \A q \in Procs \ {p} :
        (q \in accepting' => q \in accepting) /\ (q \in late' => q \in late)
  BY DEF HttpServe
<1>5. \A q \in Procs : port["http"] = q /\ q # p => port'["http"] = q
  BY <1>1 DEF HttpServe, CloseListener
<1>6. \A x \in PXE : port'[x] = port[x]
  BY <1>1 DEF HttpServe, CloseListener
<1>7. p \in accepting' => proc[p].at = "serve"
  BY <1>1 DEF HttpServe, Holds, At
<1>8. p \in late' => proc[p].at \in {"drain", "ended", "cleanup"}
  BY <1>1 DEF HttpServe, Holds
<1>9. proc[p].at = "serve" => port'["http"] = p
  BY <1>1 DEF HttpServe, Holds
<1> QED
  BY <1>2, <1>3, <1>4, <1>5, <1>6, <1>7, <1>8, <1>9, UpBound, Zenon

\* Every step keeps the relation of places and ports.
LEMMA NextBound == Typed /\ Bound /\ [Next]_vars => Bound'
<1> SUFFICES ASSUME Typed, Bound, [Next]_vars PROVE Bound'
  OBVIOUS
<1>1. CASE UNCHANGED vars
  BY <1>1 DEF vars, http, Bound
<1>2. ASSUME NEW p \in Procs, Run(p) PROVE Bound'
  <2>1. CASE StartTFTP(p) \/ StartDHCP(p)
    BY <2>1, BindBound DEF StartTFTP, StartDHCP
  <2>2. CASE Return(p)
    BY <2>2, ExitBound DEF Return
  <2> QED
    BY <1>2, <2>1, <2>2, BeginBound, ServerBound, ExecuteBound, ReportBound,
       ServeBound, HttpBound DEF Run
<1>3. ASSUME NEW p \in Procs, Kill(p) PROVE Bound'
  BY <1>3, ExitBound DEF Kill
<1>4. ASSUME NEW p \in Procs, Interrupt(p) PROVE Bound'
  BY <1>4 DEF Interrupt, http, Bound
<1>5. ASSUME NEW p \in Procs, Start(p) \/ HandleStop(p) \/ HttpError(p) PROVE Bound'
  BY <1>5, BeginBound, ReportBound, ServeBound
<1>6. ASSUME NEW c, Edit(c) PROVE Bound'
  BY <1>6 DEF Edit, http, Bound
<1> QED
  BY <1>1, <1>2, <1>3, <1>4, <1>5, <1>6 DEF Next

\* A process at a place holds the ports that the code has bound by then.
LEMMA AlwaysBound == Spec => []Bound
  BY InitBound, NextBound, AlwaysTyped, PTL DEF Spec

\* Whatever else runs on the machine and whenever processes end, one that
\* accepts requests has every PXE service of its configuration.
THEOREM PXEUnderHttp == Spec => []HttpNeedsPXE
<1>1. Typed /\ Bound => HttpNeedsPXE
  BY Zenon DEF Typed, TypeOK, Bound, Holds, HttpNeedsPXE, Up
<1> QED
  BY <1>1, AlwaysTyped, AlwaysBound, PTL

\* No process accepts a request once its Execute has reported Stopped.
THEOREM QuietAfterStopped == Spec => []StoppedIsQuiet
<1>1. Typed /\ Bound => StoppedIsQuiet
  BY Zenon DEF Typed, TypeOK, Bound, Holds, StoppedIsQuiet
<1> QED
  BY <1>1, AlwaysTyped, AlwaysBound, PTL

-----------------------------------------------------------------------------
\* Tokens.

\* What a process with record r knows: a token it made is its number, and until
\* it has saved one, no other process can have saved that number.
Unsaved == {"load", "stat", "default", "log", "provision", "save"}
Knows(r, h) ==
    /\ r.tok \in Made => r.tok = r.nr /\ r.at \in {"save", "storage", "show"}
    /\ r.at \in Unsaved => h # r.nr

\* While the process can still show the stored token it has it; a console that
\* has got past that has shown it.
Handed == {"storage", "show"}
Past == {"tftp", "dhcp", "enter", "listen", "serve", "drain", "ended", "cleanup"}
Prints(p, r, h, s) ==
    /\ r.at \in Handed /\ h = r.nr => r.tok = h
    /\ p \notin Services /\ r.at \in Past /\ h = r.nr => h \in s

\* The stored token is accounted for.
Accounted ==
    hash \in Made => \/ hash \in shown \cup lost
                     \/ \E p \in Procs : proc[p].tok = hash

Distinct ==
    \A p, q \in Procs :
        p # q /\ ~At(p, "off") /\ ~At(q, "off") => proc[p].nr # proc[q].nr

TokenInv ==
    /\ \A p \in Procs : Knows(proc[p], hash)
    /\ \A p \in Procs : Prints(p, proc[p], hash, shown)
    /\ Distinct
    /\ hash \in Made => hash <= starts
    /\ Accounted

\* No token is stored or held at first.
LEMMA InitToken == Init => TokenInv
<1>1. Off.at = "off" /\ Off.tok = None /\ None \notin Made
  BY ServerStartAssumption DEF Off, Tokens
<1> QED
  BY <1>1 DEF Init, TokenInv, Knows, Prints, Distinct, Accounted, At,
             Unsaved, Handed, Past

\* A process goes on.  It may save its token, and keeps it until it is shown or
\* counted as lost.
LEMMA GoesOn ==
    ASSUME Typed, TokenInv, NEW p \in Procs, NEW r, r.nr = proc[p].nr,
           ~At(p, "off"), proc' = [proc EXCEPT ![p] = r], starts' = starts,
           hash' = hash \/ hash' = r.tok, r.tok \in Tokens \cup {None},
           shown \subseteq shown', lost \subseteq lost',
           proc[p].tok \in Made =>
               r.tok = proc[p].tok \/ proc[p].tok \in shown' \cup lost',
           Knows(r, hash'), Prints(p, r, hash', shown')
    PROVE  TokenInv'
<1>1. \A q \in Procs : proc'[q] = IF q = p THEN r ELSE proc[q]
  BY DEF Typed, TypeOK
<1>2. \A q \in Procs : ~At(q, "off") => proc[q].nr \in Made /\ proc[q].nr <= starts
  <2> SUFFICES ASSUME NEW q \in Procs, ~At(q, "off")
               PROVE  proc[q].nr \in Made /\ proc[q].nr <= starts
    OBVIOUS
  <2>1. proc[q].nr \in 1..starts /\ starts \in 0..MaxStarts /\ MaxStarts \in Nat
    BY ServerStartAssumption DEF Typed, TypeOK, Numbered
  <2> QED
    BY <2>1 DEF Made
<1>3. r.tok \in Made => r.tok = proc[p].nr
  BY DEF Knows
<1>4. ASSUME NEW q \in Procs PROVE Knows(proc'[q], hash')
  <2>1. CASE q = p
    BY <1>1, <2>1
  <2>2. CASE q # p
    <3>1. proc'[q] = proc[q] /\ Knows(proc[q], hash)
      BY <1>1, <2>2 DEF TokenInv
    <3>2. ASSUME proc[q].at \in Unsaved PROVE hash' # proc[q].nr
      <4>1. ~At(q, "off")
        BY <3>2 DEF At, Unsaved
      <4>2. proc[q].nr # proc[p].nr /\ proc[q].nr \in Made
        BY <1>2, <2>2, <4>1 DEF TokenInv, Distinct
      <4> QED
        BY <1>3, <3>1, <3>2, <4>2 DEF Knows
    <3> QED
      BY <3>1, <3>2 DEF Knows
  <2> QED
    BY <2>1, <2>2
<1>5. Distinct'
  <2> SUFFICES ASSUME NEW a \in Procs, NEW b \in Procs, a # b,
                      proc'[a].at # "off", proc'[b].at # "off"
               PROVE  proc'[a].nr # proc'[b].nr
    BY Zenon DEF Distinct, At
  <2>0. proc[a].at # "off" /\ proc[b].at # "off" => proc[a].nr # proc[b].nr
    BY Zenon DEF TokenInv, Distinct, At
  <2>1. proc'[a].nr = proc[a].nr /\ proc'[b].nr = proc[b].nr
    BY <1>1
  <2>2. proc[a].at # "off" /\ proc[b].at # "off"
    BY <1>1 DEF At
  <2> QED
    BY <2>0, <2>1, <2>2
<1>6. hash' \in Made => hash' <= starts'
  BY <1>2, <1>3 DEF TokenInv
<1>7. Accounted'
  <2> SUFFICES ASSUME hash' \in Made
               PROVE  hash' \in shown' \cup lost' \/ \E q \in Procs : proc'[q].tok = hash'
    BY DEF Accounted
  <2>1. CASE hash' = r.tok
    BY <1>1, <2>1
  <2>2. CASE hash' = hash
    <3>1. CASE hash \in shown \cup lost
      BY <2>2, <3>1
    <3>2. ASSUME NEW q \in Procs, proc[q].tok = hash
          PROVE  hash' \in shown' \cup lost' \/ \E v \in Procs : proc'[v].tok = hash'
      BY <1>1, <2>2, <3>2
    <3> QED
      BY <2>2, <3>1, <3>2 DEF TokenInv, Accounted
  <2> QED
    BY <2>1, <2>2
<1>8. ASSUME NEW q \in Procs PROVE Prints(q, proc'[q], hash', shown')
  <2>1. CASE q = p
    BY <1>1, <2>1
  <2>2. CASE q # p
    <3>1. proc'[q] = proc[q] /\ Prints(q, proc[q], hash, shown)
      BY <1>1, <2>2 DEF TokenInv
    <3>2. ASSUME proc[q].at \in Handed \cup Past, hash' = proc[q].nr
          PROVE  hash' = hash
      <4>1. ~At(q, "off")
        BY <3>2 DEF At, Handed, Past
      <4>2. proc[q].nr # proc[p].nr /\ proc[q].nr \in Made
        BY <1>2, <2>2, <4>1 DEF TokenInv, Distinct
      <4> QED
        BY <1>3, <3>2, <4>2
    <3> QED
      BY <3>1, <3>2 DEF Prints
  <2> QED
    BY <2>1, <2>2
<1> QED
  BY <1>4, <1>5, <1>6, <1>7, <1>8 DEF TokenInv

\* A process ends.  A token that it takes along is counted as lost, or was never
\* saved.
LEMMA ExitToken ==
    ASSUME Typed, TokenInv, NEW p \in Procs, Exit(p),
           hash' = hash, starts' = starts, shown' = shown, lost \subseteq lost',
           proc[p].tok \in Made => proc[p].tok \in lost' \/ At(p, "save")
    PROVE  TokenInv'
<1>1. \A q \in Procs : proc'[q] = IF q = p THEN Off ELSE proc[q]
  BY DEF Typed, TypeOK, Exit
<1>2. Off.at = "off" /\ Off.tok = None /\ None \notin Made
  BY ServerStartAssumption DEF Off, Tokens
<1>3. ASSUME NEW q \in Procs PROVE Knows(proc'[q], hash')
  <2>1. Knows(Off, hash)
    BY <1>2 DEF Knows, Unsaved
  <2> QED
    BY <1>1, <2>1 DEF TokenInv
<1>4. Distinct'
  <2> SUFFICES ASSUME NEW a \in Procs, NEW b \in Procs, a # b,
                      proc'[a].at # "off", proc'[b].at # "off"
               PROVE  proc'[a].nr # proc'[b].nr
    BY Zenon DEF Distinct, At
  <2>0. proc[a].at # "off" /\ proc[b].at # "off" => proc[a].nr # proc[b].nr
    BY Zenon DEF TokenInv, Distinct, At
  <2>1. proc'[a] = proc[a] /\ proc'[b] = proc[b]
    BY <1>1, <1>2
  <2> QED
    BY <2>0, <2>1
<1>5. Accounted'
  <2> SUFFICES ASSUME hash \in Made
               PROVE  hash \in shown \cup lost' \/ \E q \in Procs : proc'[q].tok = hash
    BY DEF Accounted
  <2>1. CASE hash \in shown \cup lost
    BY <2>1
  <2>2. ASSUME NEW q \in Procs, proc[q].tok = hash
        PROVE  hash \in shown \cup lost' \/ \E v \in Procs : proc'[v].tok = hash
    <3>1. CASE q # p
      BY <1>1, <2>2, <3>1
    <3>2. CASE q = p
      <4>1. Knows(proc[p], hash)
        BY DEF TokenInv
      <4>2. ~At(p, "save")
        BY <2>2, <3>2, <4>1 DEF Knows, Unsaved, At
      <4> QED
        BY <2>2, <3>2, <4>2
    <3> QED
      BY <3>1, <3>2
  <2> QED
    BY <2>1, <2>2 DEF TokenInv, Accounted
<1>6. ASSUME NEW q \in Procs PROVE Prints(q, proc'[q], hash', shown')
  <2>1. Prints(q, Off, hash, shown)
    BY <1>2 DEF Prints, Handed, Past
  <2> QED
    BY <1>1, <2>1 DEF TokenInv
<1> QED
  BY <1>3, <1>4, <1>5, <1>6 DEF TokenInv

\* The number of a new process is higher than any that was saved.
LEMMA StartToken == ASSUME Typed, TokenInv, NEW p \in Procs, Start(p) PROVE TokenInv'
<1> DEFINE r == [proc[p] EXCEPT !.at = "load", !.nr = starts + 1]
<1>1. proc[p] \in Proc /\ proc' = [proc EXCEPT ![p] = r]
  BY Zenon DEF Start, Typed, TypeOK
<1>2. r.at = "load" /\ r.tok = proc[p].tok /\ r.nr = starts + 1
  BY <1>1 DEF Proc
<1> HIDE DEF r
<1>3. \A q \in Procs : proc'[q] = IF q = p THEN r ELSE proc[q]
  BY <1>1 DEF Typed, TypeOK
<1>4. starts \in Nat /\ starts + 1 \in Made /\ UNCHANGED <<hash, shown, lost>>
        /\ starts' = starts + 1
  BY ServerStartAssumption DEF Start, Typed, TypeOK, Made, files, ghosts
<1>5. hash # starts + 1
  BY <1>4 DEF TokenInv
<1>6. r.tok \notin Made
  <2>1. Knows(proc[p], hash) /\ proc[p].at = "off"
    BY DEF TokenInv, Start, At
  <2> QED
    BY <1>2, <2>1 DEF Knows
<1>7. ASSUME NEW q \in Procs PROVE Knows(proc'[q], hash')
  BY <1>2, <1>3, <1>4, <1>5, <1>6 DEF TokenInv, Knows
<1>8. \A q \in Procs : ~At(q, "off") => proc[q].nr # starts + 1
  BY <1>4 DEF Typed, Numbered
<1>9. Distinct'
  <2> SUFFICES ASSUME NEW a \in Procs, NEW b \in Procs, a # b,
                      proc'[a].at # "off", proc'[b].at # "off"
               PROVE  proc'[a].nr # proc'[b].nr
    BY Zenon DEF Distinct, At
  <2>0. proc[a].at # "off" /\ proc[b].at # "off" => proc[a].nr # proc[b].nr
    BY Zenon DEF TokenInv, Distinct, At
  <2>1. CASE a = p
    <3>1. proc'[a].nr = starts + 1 /\ proc'[b] = proc[b]
      BY <1>2, <1>3, <2>1
    <3> QED
      BY <1>8, <3>1 DEF At
  <2>2. CASE b = p
    <3>1. proc'[b].nr = starts + 1 /\ proc'[a] = proc[a]
      BY <1>2, <1>3, <2>2
    <3> QED
      BY <1>8, <3>1 DEF At
  <2>3. CASE a # p /\ b # p
    BY <1>3, <2>0, <2>3
  <2> QED
    BY <2>1, <2>2, <2>3
<1>10. hash' \in Made => hash' <= starts'
  <2>1. hash \in Made => hash <= starts /\ hash \in Int
    BY DEF TokenInv, Made
  <2> QED
    BY <1>4, <2>1
<1>11. Accounted'
  BY <1>2, <1>3, <1>4 DEF TokenInv, Accounted
<1>12. ASSUME NEW q \in Procs PROVE Prints(q, proc'[q], hash', shown')
  <2>1. Prints(p, r, hash, shown)
    BY <1>2 DEF Prints, Handed, Past
  <2> QED
    BY <1>3, <1>4, <2>1 DEF TokenInv
<1> QED
  BY <1>7, <1>9, <1>10, <1>11, <1>12 DEF TokenInv

\* Steps that touch neither tokens nor numbers.
LEMMA MovesToken ==
    ASSUME Typed, TokenInv, NEW p \in Procs, NEW r,
           proc' = [proc EXCEPT ![p] = r], ~At(p, "off"),
           r.nr = proc[p].nr, r.tok = proc[p].tok,
           r.at \in Unsaved => At(p, "load") \/ At(p, "stat") \/ At(p, "default")
                                 \/ At(p, "log"),
           At(p, "save") \/ At(p, "storage") \/ At(p, "show") =>
               r.at \in {"save", "storage", "show"},
           r.at \in Handed => proc[p].at \in Unsaved \cup Handed,
           r.at \in Past => proc[p].at \in Past,
           UNCHANGED <<hash, shown, lost, starts>>
    PROVE  TokenInv'
<1>1. Knows(proc[p], hash) /\ proc[p] \in Proc
  BY DEF TokenInv, Typed, TypeOK
<1>2. proc[p].tok \in Tokens \cup {None}
  BY <1>1 DEF Proc
<1>3. Knows(r, hash')
  BY <1>1 DEF Knows, Unsaved, At
<1>4. Prints(p, proc[p], hash, shown)
  BY DEF TokenInv
<1>5. Prints(p, r, hash', shown')
  BY <1>1, <1>4 DEF Prints, Knows
<1> QED
  BY <1>2, <1>3, <1>5, GoesOn, Zenon

\* A move to another place, with the record left alone.
LEMMA GotoToken ==
    ASSUME Typed, TokenInv, NEW p \in Procs, NEW step, Goto(p, step),
           ~At(p, "off"), step \notin Unsaved \/ proc[p].at \in {"load", "stat", "default", "log"},
           At(p, "storage") => step = "show", ~At(p, "show"), ~At(p, "save"),
           step \in Handed => proc[p].at \in Unsaved \cup Handed,
           step \in Past => proc[p].at \in Past,
           UNCHANGED <<hash, shown, lost, starts>>
    PROVE  TokenInv'
<1> DEFINE r == [proc[p] EXCEPT !.at = step]
<1>1. proc[p] \in Proc /\ proc' = [proc EXCEPT ![p] = r]
  BY DEF Goto, Typed, TypeOK
<1>2. r.at = step /\ r.nr = proc[p].nr /\ r.tok = proc[p].tok
  BY <1>1 DEF Proc
<1> HIDE DEF r
<1> QED
  BY <1>1, <1>2, MovesToken, Zenon DEF At

\* run before the token.
LEMMA BeginToken ==
    ASSUME Typed, TokenInv, NEW p \in Procs,
           LoadConfig(p) \/ Stat(p) \/ SaveConfig(p) \/ OpenState(p)
    PROVE  TokenInv'
<1>1. UNCHANGED <<hash, shown, lost, starts>>
        /\ proc[p].at \in {"load", "stat", "default", "log"}
  BY DEF LoadConfig, Stat, SaveConfig, OpenState, files, ghosts, bounds, At
<1>2. CASE Exit(p)
  <2>1. proc[p].tok \notin Made
    BY <1>1 DEF TokenInv, Knows
  <2> QED
    BY <1>1, <1>2, <2>1, ExitToken
<1>3. ASSUME NEW step \in Unsaved, Goto(p, step) PROVE TokenInv'
  BY <1>1, <1>3, GotoToken DEF At, Unsaved, Handed, Past
<1>4. CASE LoadConfig(p)
  <2> DEFINE c == IF config \in Setting THEN config ELSE DefaultConfig
             r == [proc[p] EXCEPT !.at = "stat", !.cfg = c]
  <2>1. proc[p] \in Proc /\ proc' = [proc EXCEPT ![p] = r]
    BY <1>4, Zenon DEF LoadConfig, Typed, TypeOK
  <2>2. r.at = "stat" /\ r.nr = proc[p].nr /\ r.tok = proc[p].tok
    BY <2>1 DEF Proc
  <2> HIDE DEF r
  <2> QED
    BY <1>1, <2>1, <2>2, MovesToken, Zenon DEF At, Handed, Past
<1> QED
  BY <1>2, <1>3, <1>4 DEF Stat, SaveConfig, OpenState, Unsaved

\* Provision makes the token of this process only.
LEMMA ProvisionToken ==
    ASSUME Typed, TokenInv, NEW p \in Procs, Provision(p) PROVE TokenInv'
<1>1. UNCHANGED <<hash, shown, lost, starts>> /\ proc[p].at = "provision"
        /\ proc[p] \in Proc /\ Knows(proc[p], hash)
  BY DEF Provision, files, ghosts, bounds, At, Typed, TypeOK, TokenInv
<1>2. proc[p].tok \notin Made
  BY <1>1 DEF Knows
<1>3. CASE Exit(p)
  BY <1>1, <1>2, <1>3, ExitToken
<1>4. CASE Goto(p, "storage")
  BY <1>1, <1>4, GotoToken DEF At, Unsaved, Handed, Past
<1>5. ASSUME NEW t \in {Env, proc[p].nr},
             proc' = [proc EXCEPT ![p].at = "save", ![p].tok = t]
      PROVE  TokenInv'
  <2> DEFINE r == [proc[p] EXCEPT !.at = "save", !.tok = t]
  <2>1. proc' = [proc EXCEPT ![p] = r]
    BY <1>5, Zenon DEF Typed, TypeOK
  <2>2. r.at = "save" /\ r.tok = t /\ r.nr = proc[p].nr
    BY <1>1 DEF Proc
  <2> HIDE DEF r
  <2>3. proc[p].nr \in Made
    <3>1. proc[p].nr \in 1..starts /\ starts \in 0..MaxStarts /\ MaxStarts \in Nat
      BY <1>1, ServerStartAssumption DEF Typed, TypeOK, Numbered, At
    <3> QED
      BY <3>1 DEF Made
  <2>4. t \in Tokens /\ (t \in Made => t = proc[p].nr)
    BY <1>5, <2>3, ServerStartAssumption DEF Tokens
  <2>5. Knows(r, hash') /\ Prints(p, r, hash', shown')
    BY <1>1, <2>2, <2>4 DEF Knows, Prints, Unsaved, Handed, Past
  <2> QED
    BY <1>1, <1>2, <2>1, <2>2, <2>4, <2>5, GoesOn, Zenon DEF At
<1> QED
  BY <1>3, <1>4, <1>5 DEF Provision

\* The token that save stores is still with the process that made it.
LEMMA SaveToken_Token ==
    ASSUME Typed, TokenInv, NEW p \in Procs, SaveToken(p) PROVE TokenInv'
<1>1. UNCHANGED <<shown, lost, starts>> /\ proc[p].at = "save"
        /\ proc[p] \in Proc /\ Knows(proc[p], hash)
  BY DEF SaveToken, ghosts, bounds, At, Typed, TypeOK, TokenInv
<1>2. CASE Exit(p) /\ UNCHANGED hash
  BY <1>1, <1>2, ExitToken DEF At
<1>3. CASE hash' = proc[p].tok /\ Goto(p, "storage")
  <2> DEFINE r == [proc[p] EXCEPT !.at = "storage"]
  <2>1. proc' = [proc EXCEPT ![p] = r]
    BY <1>3 DEF Goto, Typed, TypeOK
  <2>2. r.at = "storage" /\ r.nr = proc[p].nr /\ r.tok = proc[p].tok
    BY <1>1 DEF Proc
  <2> HIDE DEF r
  <2>3. r.tok \in Tokens \cup {None} /\ Knows(r, hash') /\ Prints(p, r, hash', shown')
    BY <1>1, <1>3, <2>2 DEF Knows, Prints, Unsaved, Past, Proc
  <2> QED
    BY <1>1, <1>3, <2>1, <2>2, <2>3, GoesOn, Zenon DEF At
<1> QED
  BY <1>2, <1>3 DEF SaveToken

\* NewStorage and Show: where a token leaves its process.
LEMMA StorageToken ==
    ASSUME Typed, TokenInv, NEW p \in Procs, NewStorage(p) PROVE TokenInv'
<1>1. UNCHANGED <<hash, shown, starts>> /\ proc[p].at = "storage"
  BY DEF NewStorage, files, bounds, At
<1>2. CASE Exit(p) /\ Lose(p)
  <2>1. lost \subseteq lost' /\ (proc[p].tok \in Made => proc[p].tok \in lost')
    BY <1>2 DEF Lose
  <2> QED
    BY <1>1, <1>2, <2>1, ExitToken
<1>3. CASE Goto(p, "show") /\ UNCHANGED lost
  BY <1>1, <1>3, GotoToken DEF At, Unsaved, Handed, Past
<1> QED
  BY <1>2, <1>3 DEF NewStorage

\* Showing a token, or losing it on a service's stderr, accounts for it.
LEMMA ShowToken == ASSUME Typed, TokenInv, NEW p \in Procs, Show(p) PROVE TokenInv'
<1>1. UNCHANGED <<hash, starts>> /\ proc[p].at = "show" /\ proc[p] \in Proc
  BY DEF Show, files, bounds, At, Typed, TypeOK
<1> DEFINE r == [proc[p] EXCEPT !.at = "tftp", !.tok = None]
<1>2. proc' = [proc EXCEPT ![p] = r]
  BY Zenon DEF Show, Typed, TypeOK
<1>3. r.at = "tftp" /\ r.tok = None /\ r.nr = proc[p].nr /\ None \notin Made
  BY <1>1, ServerStartAssumption DEF Proc, Tokens
<1> HIDE DEF r
<1>4. Knows(r, hash')
  BY <1>3 DEF Knows, Unsaved
<1>5. /\ shown \subseteq shown' /\ lost \subseteq lost'
      /\ proc[p].tok \in Made => proc[p].tok \in shown' \cup lost'
  BY DEF Show, Lose
<1>6. Prints(p, r, hash', shown')
  <2>1. proc[p].nr \in Made
    <3>1. proc[p].nr \in 1..starts /\ starts \in 0..MaxStarts /\ MaxStarts \in Nat
      BY <1>1, ServerStartAssumption DEF Typed, TypeOK, Numbered, At
    <3> QED
      BY <3>1 DEF Made
  <2>2. hash = proc[p].nr => proc[p].tok = hash
    BY <1>1 DEF TokenInv, Prints, Handed
  <2>3. p \notin Services => shown' = shown \cup ({proc[p].tok} \cap Made)
    BY DEF Show
  <2> QED
    BY <1>1, <1>3, <2>1, <2>2, <2>3 DEF Prints, Handed
<1> QED
  BY <1>1, <1>2, <1>3, <1>4, <1>5, <1>6, GoesOn, Zenon DEF At

\* After Show no process has a token.
LEMMA LaterToken ==
    ASSUME Typed, TokenInv, NEW p \in Procs,
           \/ \E x \in PXE, next \in {"dhcp", "enter", "listen"} : Bind(p, x, next)
           \/ Listen(p) \/ HttpError(p) \/ Shutdown(p) \/ Drained(p) \/ Return(p)
    PROVE  TokenInv'
<1>1. UNCHANGED <<hash, shown, lost, starts>>
  BY DEF Bind, Listen, HttpError, Shutdown, Drained, Return, files, ghosts, bounds
<1>2. proc[p].at \in {"tftp", "dhcp", "listen", "serve", "drain", "ended", "cleanup"}
  BY Zenon DEF Bind, Listen, HttpError, Shutdown, Drained, Return, At, PXE
<1>3. CASE Exit(p)
  <2>1. proc[p].tok \notin Made
    BY <1>2 DEF TokenInv, Knows
  <2> QED
    BY <1>1, <1>3, <2>1, ExitToken
<1>4. ASSUME NEW step \in {"dhcp", "enter", "listen", "serve", "drain", "ended"},
             Goto(p, step)
      PROVE  TokenInv'
  BY <1>1, <1>2, <1>4, GotoToken DEF At, Unsaved, Handed, Past
<1> QED
  BY <1>3, <1>4 DEF Bind, Listen, HttpError, Shutdown, Drained, Return

\* Execute and its reports hold no token.
LEMMA ExecuteToken ==
    ASSUME Typed, TokenInv, NEW p \in Procs,
           Execute(p) \/ ReportRunning(p) \/ HandleStop(p) \/ Done(p)
    PROVE  TokenInv'
<1>1. UNCHANGED <<hash, shown, lost, starts>> /\ proc[p] \in Proc
        /\ ~At(p, "off") /\ Knows(proc[p], hash)
  BY DEF Execute, ReportRunning, HandleStop, Done, files, ghosts, bounds, At,
         Typed, TypeOK, Numbered, TokenInv
<1>2. proc[p].tok \in Tokens \cup {None}
  BY <1>1 DEF Proc
<1>3. CASE ReportRunning(p) \/ HandleStop(p)
  <2>1. PICK v : proc' = [proc EXCEPT ![p] = [proc[p] EXCEPT !.svc = v]]
    BY <1>3 DEF ReportRunning, HandleStop, Typed, TypeOK
  <2> DEFINE r == [proc[p] EXCEPT !.svc = v]
  <2>2. r.at = proc[p].at /\ r.nr = proc[p].nr /\ r.tok = proc[p].tok
    BY <1>1 DEF Proc
  <2>3. proc' = [proc EXCEPT ![p] = r]
    BY <2>1
  <2> HIDE DEF r
  <2>4. Knows(r, hash') /\ Prints(p, r, hash', shown')
    <3>1. Prints(p, proc[p], hash, shown) /\ hash' = hash /\ shown' = shown
      BY <1>1 DEF TokenInv
    <3> QED
      BY <1>1, <2>2, <3>1, Zenon DEF Knows, Prints
  <2> QED
    BY <1>1, <1>2, <2>2, <2>3, <2>4, GoesOn, Zenon
<1>4. CASE Execute(p) \/ Done(p)
  <2>1. PICK a \in {"listen", "cleanup"}, v \in {"pending", "done"} :
          proc' = [proc EXCEPT ![p] = [proc[p] EXCEPT !.at = a, !.svc = v]]
    <3>1. CASE Execute(p)
      <4>1. proc' = [proc EXCEPT ![p] =
                       [proc[p] EXCEPT !.at = "listen", !.svc = "pending"]]
        BY <3>1, Zenon DEF Execute, Typed, TypeOK
      <4> QED
        BY <4>1
    <3>2. CASE Done(p)
      <4>1. proc' = [proc EXCEPT ![p] =
                       [proc[p] EXCEPT !.at = "cleanup", !.svc = "done"]]
        BY <3>2, Zenon DEF Done, Typed, TypeOK
      <4> QED
        BY <4>1
    <3> QED
      BY <1>4, <3>1, <3>2
  <2> DEFINE r == [proc[p] EXCEPT !.at = a, !.svc = v]
  <2>2. r.at = a /\ r.nr = proc[p].nr /\ r.tok = proc[p].tok
    BY <1>1 DEF Proc
  <2>3. proc' = [proc EXCEPT ![p] = r]
    BY <2>1
  <2> HIDE DEF r
  <2>4. proc[p].at \in {"enter", "ended"}
    BY <1>4 DEF Execute, Done, At
  <2> QED
    BY <1>1, <2>1, <2>2, <2>3, <2>4, MovesToken, Zenon DEF At, Unsaved, Handed, Past
<1> QED
  BY <1>3, <1>4

\* A kill counts the token the process still had as lost.
LEMMA KillToken == ASSUME Typed, TokenInv, NEW p \in Procs, Kill(p) PROVE TokenInv'
<1>1. lost \subseteq lost' /\ (proc[p].tok \in Made => proc[p].tok \in lost')
  BY DEF Kill, Lose
<1>2. Exit(p) /\ UNCHANGED <<hash, shown, starts>>
  BY DEF Kill, files
<1> QED
  BY <1>1, <1>2, ExitToken

\* Steps of the environment and of the HTTP goroutine.
LEMMA IdleToken ==
    ASSUME Typed, TokenInv, UNCHANGED <<hash, proc, shown, lost, starts>>
    PROVE  TokenInv'
  BY DEF TokenInv, Distinct, At, Accounted

\* Every step accounts for the tokens.
LEMMA NextToken == Typed /\ TokenInv /\ [Next]_vars => TokenInv'
<1> SUFFICES ASSUME Typed, TokenInv, [Next]_vars PROVE TokenInv'
  OBVIOUS
<1>1. CASE UNCHANGED vars
  BY <1>1, IdleToken DEF vars, files, ghosts, bounds
<1>2. ASSUME NEW p \in Procs, Run(p) PROVE TokenInv'
  <2>1. CASE StartTFTP(p) \/ StartDHCP(p)
    <3>1. \E x \in PXE, next \in {"dhcp", "enter", "listen"} : Bind(p, x, next)
      BY <2>1 DEF StartTFTP, StartDHCP, PXE
    <3> QED
      BY <3>1, LaterToken
  <2>2. CASE HttpServe(p)
    BY <2>2, IdleToken DEF HttpServe, files, ghosts, bounds
  <2> QED
    BY <1>2, <2>1, <2>2, BeginToken, ProvisionToken, SaveToken_Token,
       StorageToken, ShowToken, ExecuteToken, LaterToken DEF Run
<1>3. ASSUME NEW p \in Procs, Interrupt(p) PROVE TokenInv'
  BY <1>3, IdleToken DEF Interrupt, files, ghosts, bounds
<1>4. ASSUME NEW p \in Procs, Start(p) \/ HandleStop(p) \/ HttpError(p) \/ Kill(p)
      PROVE  TokenInv'
  BY <1>4, StartToken, ExecuteToken, LaterToken, KillToken
<1>5. ASSUME NEW c, Edit(c) PROVE TokenInv'
  BY <1>5, IdleToken DEF Edit, ghosts
<1> QED
  BY <1>1, <1>2, <1>3, <1>4, <1>5 DEF Next

\* However many processes provision at once and whichever of them are killed,
\* a console that serves with the token it made has shown it, and the token that
\* is stored has been shown, is still to be shown, or is known to be lost.
THEOREM TokensAccountedFor == Spec => []TokenShown
<1>1. ASSUME Typed, TokenInv, Bound PROVE TokenShown
  <2>1. ASSUME NEW p \in accepting \ Services, proc[p].nr = hash PROVE hash \in shown
    <3>1. p \in Procs /\ proc[p].at = "serve"
      BY <1>1, <2>1 DEF Typed, TypeOK, Bound, Holds
    <3> QED
      BY <1>1, <2>1, <3>1 DEF TokenInv, Prints, Past
  <2> QED
    BY <1>1, <2>1 DEF TokenInv, Accounted, TokenShown
<1>2. Spec => []TokenInv
  BY InitToken, NextToken, AlwaysTyped, PTL DEF Spec
<1> QED
  BY <1>1, <1>2, AlwaysTyped, AlwaysBound, PTL
=============================================================================

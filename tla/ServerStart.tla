---------------------------- MODULE ServerStart -----------------------------
(***************************************************************************)
(* The life of a process of the Windows server: run in server/main.go,     *)
(* NewServer and Serve in server/server.go, Provision in server/admin.go   *)
(* and Execute in server/service_windows.go.                               *)
(*                                                                         *)
(* A process loads the configuration, provisions the administrator token,  *)
(* shows it if it made one, binds the TFTP and DHCP ports that are enabled *)
(* and the HTTP port, and serves until it is told to stop.  As a service   *)
(* it has two more goroutines than run: the one that serves and Execute,   *)
(* which talks to the Service Control Manager (SCM).  A console and the    *)
(* service use the same files and ports, and nothing keeps both from       *)
(* starting.                                                               *)
(***************************************************************************)
EXTENDS Integers

CONSTANTS
    Procs,          \* processes
    Services,       \* those that the SCM starts
    Settings,       \* what config.json may say: [pxe : ..]
    MaxStarts,      \* bound on the processes started
    MaxKills,       \* bound on those that are killed
    MaxEdits,       \* bound on the operator's changes of config.json
    None,           \* no one, nothing
    Missing, Bad,   \* no config.json, one that is refused
    Env             \* the token of MKYBOOT_ADMIN_TOKEN

PXE == {"tftp", "dhcp"}
Ports == PXE \cup {"http"}

\* DefaultConfig: no PXE service.
DefaultConfig == [pxe |-> {}]

\* The PXE services that a configuration enables.
Setting == [pxe : SUBSET PXE]

\* The token that a process makes is the number of its start.
Made == 1..MaxStarts
Tokens == Made \cup {Env}

ASSUME ServerStartAssumption ==
    /\ Services \subseteq Procs /\ Settings \subseteq Setting
    /\ MaxStarts \in Nat /\ MaxKills \in Nat /\ MaxEdits \in Nat
    /\ None \notin Procs \cup Tokens /\ Env \notin Made
    /\ Missing # Bad /\ Setting \cap {Missing, Bad} = {}

VARIABLES
    config,     \* config.json
    hash,       \* the token whose hash admin.token.json holds, or None
    proc,       \* a process: where it is, and what it has read
    accepting,  \* processes whose http.Server accepts connections
    late,       \* processes shut down before http.Server.Serve ran
    port,       \* who has bound a port
    stop,       \* processes that have been told to stop
    status,     \* of the service, as it was last reported to the SCM
    shown,      \* ghost: tokens shown on a console
    lost,       \* ghost: tokens that no process can show any more
    starts, kills, edits

files == <<config, hash>>
http == <<accepting, late>>
ghosts == <<shown, lost>>
bounds == <<starts, kills, edits>>
vars == <<files, proc, http, port, stop, status, ghosts, bounds>>

Off == [at |-> "off", svc |-> "none", cfg |-> DefaultConfig, tok |-> None,
        nr |-> 0]

Init ==
    /\ config \in Settings \cup {Missing, Bad}
    /\ hash = None
    /\ proc = [p \in Procs |-> Off]
    /\ accepting = {} /\ late = {} /\ stop = {}
    /\ port = [x \in Ports |-> None]
    /\ status = "stopped"
    /\ shown = {} /\ lost = {}
    /\ starts = 0 /\ kills = 0 /\ edits = 0

At(p, step) == proc[p].at = step
Goto(p, step) == proc' = [proc EXCEPT ![p].at = step]

\* The end of a process: the system closes its sockets.  The SCM takes a service
\* that ends for stopped, if it has not said so itself.
Exit(p) ==
    /\ proc' = [proc EXCEPT ![p] = Off]
    /\ accepting' = accepting \ {p} /\ late' = late \ {p} /\ stop' = stop \ {p}
    /\ port' = [x \in Ports |-> IF port[x] = p THEN None ELSE port[x]]
    /\ status' = IF p \in Services /\ proc[p].svc # "done" THEN "stopped"
                 ELSE status

\* A token that was made and is not shown goes with its process.
Lose(p) == lost' = IF proc[p].tok \in Made THEN lost \cup {proc[p].tok} ELSE lost

-----------------------------------------------------------------------------
\* run, as far as NewServer.

\* The SCM starts a service only when it is stopped.
Start(p) ==
    /\ At(p, "off") /\ starts < MaxStarts
    /\ p \in Services => status = "stopped"
    /\ proc' = [proc EXCEPT ![p].at = "load", ![p].nr = starts + 1]
    /\ status' = IF p \in Services THEN "starting" ELSE status
    /\ starts' = starts + 1
    /\ UNCHANGED <<files, http, port, stop, ghosts, kills, edits>>

\* LoadConfig: without a file, or with a bad one, the defaults.
LoadConfig(p) ==
    /\ At(p, "load")
    /\ proc' = [proc EXCEPT ![p].at = "stat",
                            ![p].cfg = IF config \in Setting THEN config
                                       ELSE DefaultConfig]
    /\ UNCHANGED <<files, http, port, stop, status, ghosts, bounds>>

Stat(p) ==
    /\ At(p, "stat")
    /\ Goto(p, IF config = Missing THEN "default" ELSE "log")
    /\ UNCHANGED <<files, http, port, stop, status, ghosts, bounds>>

\* On a first run the defaults are saved; that this fails is ignored.
SaveConfig(p) ==
    /\ At(p, "default")
    /\ config' \in {config, proc[p].cfg}
    /\ Goto(p, "log")
    /\ UNCHANGED <<hash, http, port, stop, status, ghosts, bounds>>

\* The log file is opened and newState loads the clients.  Either may fail.
OpenState(p) ==
    /\ At(p, "log")
    /\ \/ Goto(p, "provision") /\ UNCHANGED <<http, port, stop, status>>
       \/ Exit(p)
    /\ UNCHANGED <<files, ghosts, bounds>>

\* Provision: nothing to do if there is a token, else that of the environment
\* or a new one.  It fails when the file cannot be read, for instance by another
\* user than the one who wrote it, or the environment's token is too short.
Provision(p) ==
    /\ At(p, "provision")
    /\ \/ /\ hash # None
          /\ Goto(p, "storage") /\ UNCHANGED <<http, port, stop, status>>
       \/ /\ hash = None
          /\ \E t \in {Env, proc[p].nr} :
               proc' = [proc EXCEPT ![p].at = "save", ![p].tok = t]
          /\ UNCHANGED <<http, port, stop, status>>
       \/ Exit(p)
    /\ UNCHANGED <<files, ghosts, bounds>>

\* adminStore.save, which replaces what another process has saved since.
SaveToken(p) ==
    /\ At(p, "save")
    /\ \/ /\ hash' = proc[p].tok
          /\ Goto(p, "storage") /\ UNCHANGED <<http, port, stop, status>>
       \/ Exit(p) /\ UNCHANGED hash
    /\ UNCHANGED <<config, ghosts, bounds>>

\* NewStorage makes the root, whichever it is, or cannot.  When it fails,
\* NewServer does not return the token.
NewStorage(p) ==
    /\ At(p, "storage")
    /\ \/ Goto(p, "show") /\ UNCHANGED <<http, port, stop, status, lost>>
       \/ Exit(p) /\ Lose(p)
    /\ UNCHANGED <<files, shown, bounds>>

Show_Logged(p) ==
    /\ At(p, "show")
    /\ proc' = [proc EXCEPT ![p].at = "tftp", ![p].tok = None]
    /\ UNCHANGED <<files, http, port, stop, status, ghosts, bounds>>

\* A token that was made is written to stderr, which a service does not have.
Show(p) ==
    /\ At(p, "show")
    /\ proc' = [proc EXCEPT ![p].at = "tftp", ![p].tok = None]
    /\ IF p \in Services THEN Lose(p) /\ UNCHANGED shown
       ELSE shown' = shown \cup ({proc[p].tok} \cap Made) /\ UNCHANGED lost
    /\ UNCHANGED <<files, http, port, stop, status, bounds>>

-----------------------------------------------------------------------------
\* startPXE.  A service that is enabled is bound or the process ends, also when
\* its settings are refused.

Bind(p, x, next) ==
    /\ At(p, x)
    /\ \/ /\ x \notin proc[p].cfg.pxe
          /\ Goto(p, next) /\ UNCHANGED <<http, port, stop, status>>
       \/ /\ x \in proc[p].cfg.pxe /\ port[x] = None
          /\ port' = [port EXCEPT ![x] = p]
          /\ Goto(p, next) /\ UNCHANGED <<http, stop, status>>
       \/ /\ x \in proc[p].cfg.pxe
          /\ Exit(p)
    /\ UNCHANGED <<files, ghosts, bounds>>

StartTFTP(p) == Bind(p, "tftp", "dhcp")

StartDHCP_Ignored(p) ==
    \/ Bind(p, "dhcp", IF p \in Services THEN "enter" ELSE "listen")
    \/ /\ At(p, "dhcp")
       /\ Goto(p, IF p \in Services THEN "enter" ELSE "listen")
       /\ UNCHANGED <<files, http, port, stop, status, ghosts, bounds>>

StartDHCP(p) == Bind(p, "dhcp", IF p \in Services THEN "enter" ELSE "listen")

-----------------------------------------------------------------------------
\* Execute.  It starts Serve and reports Running without waiting for it.

Execute(p) ==
    /\ At(p, "enter")
    /\ proc' = [proc EXCEPT ![p].at = "listen", ![p].svc = "pending"]
    /\ status' = "starting"
    /\ UNCHANGED <<files, http, port, stop, ghosts, bounds>>

ReportRunning(p) ==
    /\ proc[p].svc = "pending"
    /\ proc' = [proc EXCEPT ![p].svc = "select"]
    /\ status' = "running"
    /\ UNCHANGED <<files, http, port, stop, ghosts, bounds>>

HandleStop_NoCancel(p) ==
    /\ proc[p].svc = "select"
    /\ proc' = [proc EXCEPT ![p].svc = "await"]
    /\ status' = "stopping"
    /\ UNCHANGED <<files, http, port, stop, ghosts, bounds>>

\* A Stop or Shutdown of the SCM cancels the context.
HandleStop(p) ==
    /\ proc[p].svc = "select"
    /\ proc' = [proc EXCEPT ![p].svc = "await"]
    /\ status' = "stopping"
    /\ stop' = stop \cup {p}
    /\ UNCHANGED <<files, http, port, ghosts, bounds>>

Done_StopOnly(p) ==
    /\ proc[p].svc = "await" /\ At(p, "ended")
    /\ proc' = [proc EXCEPT ![p].at = "cleanup", ![p].svc = "done"]
    /\ status' = "stopped"
    /\ UNCHANGED <<files, http, port, stop, ghosts, bounds>>
Done_NoWait(p) ==
    /\ \/ proc[p].svc = "select" /\ At(p, "ended")
       \/ proc[p].svc = "await"
    /\ proc' = [proc EXCEPT ![p].at = "cleanup", ![p].svc = "done"]
    /\ status' = "stopped"
    /\ UNCHANGED <<files, http, port, stop, ghosts, bounds>>

\* Serve has returned, by itself or after a stop.
Done(p) ==
    /\ proc[p].svc \in {"select", "await"} /\ At(p, "ended")
    /\ proc' = [proc EXCEPT ![p].at = "cleanup", ![p].svc = "done"]
    /\ status' = "stopped"
    /\ UNCHANGED <<files, http, port, stop, ghosts, bounds>>

\* Ctrl+C in a console, from the time the signal is waited for.
Interrupt(p) ==
    /\ p \notin Services \cup stop /\ proc[p].at \in {"listen", "serve"}
    /\ stop' = stop \cup {p}
    /\ UNCHANGED <<files, proc, http, port, status, ghosts, bounds>>

-----------------------------------------------------------------------------
\* Serve.

Listen(p) ==
    /\ At(p, "listen")
    /\ \/ /\ port["http"] = None
          /\ port' = [port EXCEPT !["http"] = p]
          /\ Goto(p, "serve")
       \/ Goto(p, "ended") /\ UNCHANGED port
    /\ UNCHANGED <<files, http, stop, status, ghosts, bounds>>

CloseListener(p) ==
    port' = [port EXCEPT !["http"] = IF @ = p THEN None ELSE @]

\* The goroutine of http.Server.Serve.  It finds the server shut down already
\* and closes the listener, or it accepts connections.
HttpServe(p) ==
    /\ \/ /\ p \in late
          /\ late' = late \ {p} /\ CloseListener(p) /\ UNCHANGED accepting
       \/ /\ At(p, "serve") /\ p \notin accepting
          /\ accepting' = accepting \cup {p} /\ UNCHANGED <<late, port>>
    /\ UNCHANGED <<files, proc, stop, status, ghosts, bounds>>

\* Accept fails for good.
HttpError(p) ==
    /\ At(p, "serve") /\ p \in accepting
    /\ accepting' = accepting \ {p}
    /\ CloseListener(p)
    /\ Goto(p, "ended")
    /\ UNCHANGED <<files, late, stop, status, ghosts, bounds>>

\* Shutdown closes the listeners that http.Server.Serve has registered, then
\* waits for the requests in progress.
Shutdown(p) ==
    /\ At(p, "serve") /\ p \in stop
    /\ \/ /\ p \in accepting
          /\ accepting' = accepting \ {p} /\ CloseListener(p) /\ UNCHANGED late
       \/ /\ p \notin accepting
          /\ late' = late \cup {p} /\ UNCHANGED <<accepting, port>>
    /\ Goto(p, "drain")
    /\ UNCHANGED <<files, stop, status, ghosts, bounds>>

\* They are over, or ten seconds are.
Drained(p) ==
    /\ At(p, "drain")
    /\ Goto(p, "ended")
    /\ UNCHANGED <<files, http, port, stop, status, ghosts, bounds>>

\* run returns: from a console at once, from a service after Execute has.  The
\* deferred calls stop DHCP and TFTP.
Return(p) ==
    /\ At(p, "cleanup") \/ (At(p, "ended") /\ p \notin Services)
    /\ Exit(p)
    /\ UNCHANGED <<files, ghosts, bounds>>

-----------------------------------------------------------------------------
\* A process is killed or the machine loses power for all it can tell.
Kill(p) ==
    /\ ~At(p, "off") /\ kills < MaxKills
    /\ Exit(p) /\ Lose(p)
    /\ kills' = kills + 1
    /\ UNCHANGED <<files, shown, starts, edits>>

\* The operator writes another configuration.
Edit(c) ==
    /\ edits < MaxEdits /\ config # c
    /\ config' = c
    /\ edits' = edits + 1
    /\ UNCHANGED <<hash, proc, http, port, stop, status, ghosts, starts, kills>>

Run(p) ==
    \/ LoadConfig(p) \/ Stat(p) \/ SaveConfig(p) \/ OpenState(p)
    \/ Provision(p) \/ SaveToken(p) \/ NewStorage(p) \/ Show(p)
    \/ StartTFTP(p) \/ StartDHCP(p)
    \/ Execute(p) \/ ReportRunning(p) \/ Done(p)
    \/ Listen(p) \/ HttpServe(p) \/ Shutdown(p) \/ Drained(p) \/ Return(p)

Next ==
    \/ \E p \in Procs : Start(p) \/ Run(p) \/ HandleStop(p) \/ Interrupt(p)
                          \/ HttpError(p) \/ Kill(p)
    \/ \E c \in Settings \cup {Bad} : Edit(c)

Spec == Init /\ [][Next]_vars

\* A process that can go on does: its goroutines are scheduled, no call of run
\* waits for another process, and Shutdown waits ten seconds at most.  Nobody
\* has to start, stop or kill one, and Accept need not fail.
FairSpec == Spec /\ \A p \in Procs : WF_vars(Run(p))

-----------------------------------------------------------------------------
Places == {"off", "load", "stat", "default", "log", "provision", "save",
           "storage", "show", "tftp", "dhcp", "enter", "listen", "serve",
           "drain", "ended", "cleanup"}

Proc == [at : Places, svc : {"none", "pending", "select", "await", "done"},
         cfg : Setting, tok : Tokens \cup {None},
         nr : 0..MaxStarts]

\* The values the variables take; a process works with a configuration that was
\* parsed, whatever config.json holds.
TypeOK ==
    /\ config \in Setting \cup {Missing, Bad}
    /\ hash \in Tokens \cup {None}
    /\ proc \in [Procs -> Proc]
    /\ accepting \subseteq Procs /\ late \subseteq Procs /\ stop \subseteq Procs
    /\ port \in [Ports -> Procs \cup {None}]
    /\ status \in {"stopped", "starting", "running", "stopping"}
    /\ shown \subseteq Made /\ lost \subseteq Made
    /\ starts \in 0..MaxStarts /\ kills \in 0..MaxKills /\ edits \in 0..MaxEdits

\* A process that accepts requests runs every PXE service that its
\* configuration enables, from the first request to the last: a port conflict
\* ends the start, and Serve returns before the services are stopped.
HttpNeedsPXE ==
    \A p \in accepting :
        port["http"] = p /\ \A x \in proc[p].cfg.pxe : port[x] = p

\* A console that accepts requests has shown the token it made, if that is the
\* one they are checked against, whatever other processes have saved, shown and
\* lost meanwhile.  In general the token whose hash is stored has been shown, or
\* will be by a process that still holds it, or went with a process that was
\* killed, had no console or could not make the storage root.
TokenShown ==
    hash \in Made =>
        /\ \A p \in accepting \ Services : proc[p].nr = hash => hash \in shown
        /\ \/ hash \in shown \cup lost
           \/ \E p \in Procs : proc[p].tok = hash

\* When Execute has reported Stopped, its process accepts no more requests.
StoppedIsQuiet == \A p \in accepting : proc[p].svc # "done"

\* Every start ends: the process serves or exits, also when another one has
\* its ports and when a stop comes before Serve has begun.
StartEnds ==
    \A p \in Procs : ~At(p, "off") ~> (p \in accepting \/ At(p, "off"))

\* Every stop ends, also when it meets an error of Serve: the SCM is told so,
\* and the process exits.
StopEnds ==
    /\ status = "stopping" ~> status = "stopped"
    /\ \A p \in Procs : p \in stop ~> At(p, "off")

\* A token that was made is shown unless its process is killed.
TokenReturned ==
    kills = 0 /\ hash \in Made =>
        hash \in shown \/ \E p \in Procs : proc[p].tok = hash

\* The token of a server that accepts requests does not change.
TokenStable == [][accepting # {} /\ hash # None => hash' = hash]_vars

\* When Execute has reported Stopped, the ports are free for the next start.
StoppedIsFree ==
    \A p \in Procs : proc[p].svc = "done" => \A x \in Ports : port[x] # p

\* A service that has reported Running accepts requests.
RunningServes ==
    \A p \in Procs : proc[p].svc = "select" => p \in accepting

\* What the operator wrote is not replaced by the defaults.
EditKept ==
    [][config' # config => config = Missing \/ edits' # edits]_vars
=============================================================================

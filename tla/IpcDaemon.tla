------------------------------ MODULE IpcDaemon ------------------------------
(***************************************************************************)
(* The daemon that attaches overlays to NBD devices (bin/server.lua) and   *)
(* the client that asks it to (bin/client.lua), over a socket in the file  *)
(* system.                                                                 *)
(*                                                                         *)
(* The daemon makes a new listening socket for every request: it removes   *)
(* the path, binds and listens, accepts one connection, serves one request,*)
(* and removes the path again.  It never closes the listening socket; the  *)
(* Lua collector does, some time later.  A client that connected to it and *)
(* was not the one accepted waits for an answer until then.                *)
(*                                                                         *)
(* A request is "valid" or "bad"; the latter stands for everything that    *)
(* parse_request, the checks of StartServerSocket or a handler turn down.  *)
(***************************************************************************)
EXTENDS Naturals, Sequences, FiniteSets

CONSTANTS
    Clients,    \* the processes that run client.lua
    Sockets,    \* the daemon's listening sockets, reused once collected
    MaxTries,   \* how often a client looks for the path before it gives up
    MaxKills,   \* bound on the processes that are killed
    None        \* no socket, no client

ASSUME IpcAssumption ==
    /\ None \notin Sockets \cup Clients
    /\ MaxTries \in Nat /\ MaxKills \in Nat

VARIABLES
    path,       \* the socket that the path SOCKET names
    sock,       \* a socket's state and the connections not accepted yet
    dpc,        \* what the daemon does next
    cur,        \* the socket it made last
    conn,       \* the client it has accepted
    result,     \* the answer it is about to send
    client,     \* a client's step, its request, and what it got back
    runs,       \* how often a client's request was carried out
    kills

daemon == <<dpc, cur, conn, result>>
vars == <<path, sock, daemon, client, runs, kills>>

Free == [state |-> "free", queue |-> <<>>]
Idle == [pc |-> "idle", req |-> "none", tries |-> 0, sent |-> FALSE,
         got |-> "none"]

Init ==
    /\ path = None
    /\ sock = [s \in Sockets |-> Free]
    /\ dpc = "start" /\ cur = None /\ conn = None /\ result = "none"
    /\ client = [c \in Clients |-> Idle]
    /\ runs = [c \in Clients |-> 0]
    /\ kills = 0

Queued(s) == {sock[s].queue[i] : i \in DOMAIN sock[s].queue}

\* The connections of the clients in C are closed at the daemon's end.  One
\* that has its answer can still read it; the others read the end of file.
HungUp(C) ==
    [c \in Clients |->
       IF c \notin C THEN client[c]
       ELSE IF client[c].pc \in {"dead", "idle"} THEN Idle
       ELSE [client[c] EXCEPT !.got = IF @ = "none" THEN "eof" ELSE @]]

-----------------------------------------------------------------------------
\* client.lua

\* The daemon's end of c's connection is open.
Connected(c) == conn = c \/ \E s \in Sockets : c \in Queued(s)

\* mkyctl.lua's nbd.add runs client.lua, a new process with a connection of
\* its own: c stands for another process once its old connection is gone.
Start(c, r) ==
    /\ client[c].pc = "idle" /\ ~Connected(c)
    /\ client' = [client EXCEPT ![c] = [Idle EXCEPT !.pc = "wait", !.req = r]]
    /\ runs' = [runs EXCEPT ![c] = 0]
    /\ UNCHANGED <<path, sock, daemon, kills>>

WaitSocketReady_OnceMore(c) ==
    /\ client[c].pc = "wait"
    /\ client' = [client EXCEPT ![c] =
         IF path # None THEN [@ EXCEPT !.pc = "connect"]
         ELSE IF @.tries <= MaxTries THEN [@ EXCEPT !.tries = client[c].tries + 1]
         ELSE Idle]
    /\ UNCHANGED <<path, sock, daemon, runs, kills>>

\* The client polls for the path, and exits when it has looked too often.
WaitSocketReady(c) ==
    /\ client[c].pc = "wait"
    /\ client' = [client EXCEPT ![c] =
         IF path # None THEN [@ EXCEPT !.pc = "connect"]
         ELSE IF @.tries < MaxTries THEN [@ EXCEPT !.tries = client[c].tries + 1]
         ELSE Idle]
    /\ UNCHANGED <<path, sock, daemon, runs, kills>>

\* connect fails, and the assert ends the client, when the path is gone, or
\* names a socket that does not listen yet or whose process has died.
Connect(c) ==
    /\ client[c].pc = "connect"
    /\ IF path # None /\ sock[path].state = "listening"
       THEN /\ client' = [client EXCEPT ![c].pc = "send"]
            /\ sock' = [sock EXCEPT ![path].queue = Append(@, c)]
       ELSE /\ client' = [client EXCEPT ![c] = Idle]
            /\ UNCHANGED sock
    /\ UNCHANGED <<path, daemon, runs, kills>>

Send(c) ==
    /\ client[c].pc = "send"
    /\ client' = [client EXCEPT ![c].pc = "receive", ![c].sent = TRUE]
    /\ UNCHANGED <<path, sock, daemon, runs, kills>>

\* receive blocks until there is an answer or the connection is closed.
ReceiveAnswer(c) ==
    /\ client[c].pc = "receive" /\ client[c].got # "none"
    /\ client' = [client EXCEPT ![c] = Idle]
    /\ UNCHANGED <<path, sock, daemon, runs, kills>>

SendCommand(c) == Connect(c) \/ Send(c) \/ ReceiveAnswer(c)

\* A client is killed.  What it has sent stays in the connection.
KillClient(c) ==
    /\ client[c].pc # "idle" /\ client[c].pc # "dead" /\ kills < MaxKills
    /\ kills' = kills + 1
    /\ client' = [client EXCEPT ![c] =
         IF Connected(c) THEN [@ EXCEPT !.pc = "dead"] ELSE Idle]
    /\ UNCHANGED <<path, sock, daemon, runs>>

-----------------------------------------------------------------------------
\* server.lua

Unlink_Skipped ==
    /\ dpc = "start" /\ dpc' = "bind"
    /\ UNCHANGED <<path, sock, cur, conn, result, client, runs, kills>>

\* The main loop removes the path, which a killed daemon leaves behind.
Unlink ==
    /\ dpc = "start" /\ dpc' = "bind"
    /\ path' = None
    /\ UNCHANGED <<sock, cur, conn, result, client, runs, kills>>

\* bind makes the path; it fails, and the assert ends the daemon, when there
\* is one.
Bind ==
    /\ dpc = "bind"
    /\ IF path = None
       THEN \E s \in Sockets :
              /\ sock[s].state = "free"
              /\ sock' = [sock EXCEPT ![s].state = "bound"]
              /\ path' = s /\ cur' = s /\ dpc' = "listen"
       ELSE dpc' = "exited" /\ UNCHANGED <<path, sock, cur>>
    /\ UNCHANGED <<conn, result, client, runs, kills>>

Listen ==
    /\ dpc = "listen" /\ dpc' = "accept"
    /\ sock' = [sock EXCEPT ![cur].state = "listening"]
    /\ UNCHANGED <<path, cur, conn, result, client, runs, kills>>

Accept ==
    /\ dpc = "accept" /\ sock[cur].queue # <<>>
    /\ conn' = Head(sock[cur].queue) /\ dpc' = "receive"
    /\ sock' = [sock EXCEPT ![cur].queue = Tail(@)]
    /\ UNCHANGED <<path, cur, result, client, runs, kills>>

Receive_BadIsRun ==
    /\ dpc = "receive" /\ client[conn].sent
    /\ dpc' = "handler"
    /\ UNCHANGED <<path, sock, cur, conn, result, client, runs, kills>>

Receive_BadIsDropped ==
    /\ dpc = "receive"
    /\ \/ /\ client[conn].sent /\ client[conn].req = "bad"
          /\ dpc' = "remove" /\ conn' = None /\ UNCHANGED result
       \/ /\ client[conn].sent /\ client[conn].req = "valid"
          /\ dpc' = "handler" /\ UNCHANGED <<conn, result>>
       \/ /\ ~client[conn].sent /\ client[conn].pc = "dead"
          /\ dpc' = "close" /\ UNCHANGED <<conn, result>>
    /\ UNCHANGED <<path, sock, cur, client, runs, kills>>

\* receive blocks until the client has sent a line or is gone (data == nil);
\* a bad request is answered with an error and goes no further.
Receive ==
    /\ dpc = "receive"
    /\ \/ /\ client[conn].sent /\ client[conn].req = "bad"
          /\ dpc' = "reply" /\ result' = "error"
       \/ /\ client[conn].sent /\ client[conn].req = "valid"
          /\ dpc' = "handler" /\ UNCHANGED result
       \/ /\ ~client[conn].sent /\ client[conn].pc = "dead"
          /\ dpc' = "close" /\ UNCHANGED result
    /\ UNCHANGED <<path, sock, cur, conn, client, runs, kills>>

\* COMMANDS[op] runs qemu-nbd, which succeeds or fails.  A failure is answered
\* with an error where os.execute returns nil for it (Lua 5.2 and later), and
\* as a success where it returns the exit status, a number (Lua 5.1).
Handler ==
    /\ dpc = "handler" /\ dpc' = "reply"
    /\ runs' = [runs EXCEPT ![conn] = @ + 1]
    /\ result' \in {"ok", "error"}
    /\ UNCHANGED <<path, sock, cur, conn, client, kills>>

Reply ==
    /\ dpc = "reply" /\ dpc' = "close"
    /\ client' = [client EXCEPT ![conn].got = result]
    /\ result' = "none"
    /\ UNCHANGED <<path, sock, cur, conn, runs, kills>>

Close ==
    /\ dpc = "close" /\ dpc' = "remove"
    /\ client' = HungUp({conn})
    /\ conn' = None
    /\ UNCHANGED <<path, sock, cur, result, runs, kills>>

\* The path is removed and StartServerSocket returns: its socket, still open,
\* is garbage now.
Remove ==
    /\ dpc = "remove" /\ dpc' = "start"
    /\ path' = None
    /\ sock' = [sock EXCEPT ![cur].state = "garbage"]
    /\ cur' = None
    /\ UNCHANGED <<conn, result, client, runs, kills>>

\* The collector closes a socket.  It runs only while the daemon runs Lua
\* code, not while a call blocks.
Collect(s) ==
    /\ sock[s].state = "garbage"
    /\ dpc \notin {"accept", "receive", "stopped", "exited"}
    /\ sock' = [sock EXCEPT ![s] = Free]
    /\ client' = HungUp(Queued(s))
    /\ UNCHANGED <<path, daemon, runs, kills>>

\* The service is restarted: the daemon is killed, wherever it is, all its
\* sockets are closed, and the path stays ...
Kill ==
    /\ dpc \notin {"stopped", "exited"} /\ kills < MaxKills
    /\ kills' = kills + 1 /\ dpc' = "stopped"
    /\ cur' = None /\ conn' = None /\ result' = "none"
    /\ sock' = [s \in Sockets |-> Free]
    /\ client' = HungUp((UNION {Queued(s) : s \in Sockets}) \cup ({conn} \ {None}))
    /\ UNCHANGED <<path, runs>>

\* ... and it is started again.
Restart ==
    /\ dpc = "stopped" /\ dpc' = "start"
    /\ UNCHANGED <<path, sock, cur, conn, result, client, runs, kills>>

-----------------------------------------------------------------------------
StartServerSocket ==
    Bind \/ Listen \/ Accept \/ Receive \/ Handler \/ Reply \/ Close \/ Remove

Daemon == Unlink \/ StartServerSocket \/ Restart

Client(c) == WaitSocketReady(c) \/ SendCommand(c)

Next ==
    \/ Daemon \/ Kill
    \/ \E s \in Sockets : Collect(s)
    \/ \E c \in Clients :
         Client(c) \/ KillClient(c) \/ \E r \in {"valid", "bad"} : Start(c, r)

Spec == Init /\ [][Next]_vars

\* The processes run on.  A socket is collected once the daemon has run Lua
\* code again and again: the collector is driven by what the code allocates.
FairSpec ==
    /\ Spec
    /\ WF_vars(Daemon)
    /\ \A s \in Sockets : SF_vars(Collect(s))
    /\ \A c \in Clients : WF_vars(Client(c))

-----------------------------------------------------------------------------
TypeOK ==
    /\ path \in Sockets \cup {None}
    /\ sock \in [Sockets -> [state : {"free", "bound", "listening", "garbage"},
                             queue : Seq(Clients)]]
    /\ dpc \in {"start", "bind", "listen", "accept", "receive", "handler",
                "reply", "close", "remove", "stopped", "exited"}
    /\ cur \in Sockets \cup {None} /\ conn \in Clients \cup {None}
    /\ result \in {"none", "ok", "error"}
    /\ client \in [Clients ->
         [pc : {"idle", "wait", "connect", "send", "receive", "dead"},
          req : {"none", "valid", "bad"}, tries : 0..MaxTries,
          sent : BOOLEAN, got : {"none", "ok", "error", "eof"}]]
    /\ runs \in [Clients -> Nat]
    /\ kills \in 0..MaxKills

\* What a client's answer tells about its request: ok means that qemu-nbd was
\* run for it, once; a request the daemon turned down was never run; and none
\* is run twice, also when the client or the daemon is killed in between.
AnswerTells ==
    \A c \in Clients :
        /\ runs[c] <= 1
        /\ client[c].got = "ok" => runs[c] = 1
        /\ client[c].req = "bad" => runs[c] = 0

\* The daemon comes back, again and again, to waiting for a connection on the
\* socket that the path names, whatever clients do and however often it is
\* restarted.
ServesAgain == []<>(dpc = "accept" /\ path = cur)

\* A client that waits for its answer does not wait for ever, provided that
\* requests keep reaching the daemon.
ClientEnds ==
    []<>(dpc = "receive") =>
        \A c \in Clients :
            client[c].pc = "receive" ~> client[c].pc # "receive"
=============================================================================

--------------------------- MODULE IpcDaemonProofs ---------------------------
(***************************************************************************)
(* What an answer of the daemon tells, for any number of clients, sockets, *)
(* retries and kills.                                                      *)
(***************************************************************************)
EXTENDS IpcDaemon, TLAPS

\* A client has one connection at most: it is in one queue, at one place.
QueuedOnce ==
    \A s, t \in Sockets :
        \A i \in DOMAIN sock[s].queue, j \in DOMAIN sock[t].queue :
            sock[s].queue[i] = sock[t].queue[j] => s = t /\ i = j

\* A client that the daemon has not accepted yet waits on its connection, and
\* nothing has happened for it.
Waiting(c) ==
    /\ client[c].pc \in {"send", "receive", "dead"}
    /\ client[c].got = "none" /\ runs[c] = 0
QueuedWait == \A s \in Sockets : \A i \in DOMAIN sock[s].queue :
                  Waiting(sock[s].queue[i]) /\ sock[s].queue[i] # conn

\* A client that still looks for the path has no connection.
Unconnected(c) ==
    /\ client[c].got = "none" /\ runs[c] = 0 /\ ~Connected(c)
Looking == \A c \in Clients :
               client[c].pc \in {"wait", "connect"} => Unconnected(c)

\* What the daemon knows of the client it serves.
Serving ==
    /\ dpc \in {"receive", "handler", "reply", "close"} <=> conn # None
    /\ dpc = "receive" => Waiting(conn)
    /\ dpc = "handler" => Waiting(conn) /\ client[conn].req = "valid"
    /\ dpc = "reply" =>
         /\ client[conn].pc \in {"send", "receive", "dead"}
         /\ client[conn].got = "none"
         /\ result = "ok" => runs[conn] = 1

\* It has a socket from bind to the removal of the path.
HasSocket ==
    dpc \in {"listen", "accept", "receive", "handler", "reply", "close", "remove"}
    => cur # None

IInv ==
    /\ TypeOK /\ AnswerTells
    /\ QueuedOnce /\ QueuedWait /\ Looking /\ Serving /\ HasSocket

-----------------------------------------------------------------------------
\* The types of a socket and of a client.
Socket == [state : {"free", "bound", "listening", "garbage"},
           queue : Seq(Clients)]
Process == [pc : {"idle", "wait", "connect", "send", "receive", "dead"},
            req : {"none", "valid", "bad"}, tries : 0..MaxTries,
            sent : BOOLEAN, got : {"none", "ok", "error", "eof"}]

\* The part of the invariant that is about clients and their connections.
Links == AnswerTells /\ QueuedOnce /\ QueuedWait /\ Looking

USE IpcAssumption

\* The initial records have their types.
LEMMA Records == Idle \in Process /\ Free \in Socket
  BY DEF Idle, Free, Process, Socket

\* The types, in the shape the steps use them.
LEMMA Types ==
    ASSUME TypeOK
    PROVE  /\ sock \in [Sockets -> Socket] /\ client \in [Clients -> Process]
           /\ runs \in [Clients -> Nat] /\ conn \in Clients \cup {None}
           /\ \A s \in Sockets : /\ sock[s] \in Socket
                                 /\ sock[s].queue \in Seq(Clients)
           /\ \A c \in Clients : client[c] \in Process /\ runs[c] \in Nat
  BY DEF TypeOK, Socket, Process

\* The clients of a queue are those at its places.
LEMMA QueueMembers ==
    ASSUME TypeOK, NEW s \in Sockets
    PROVE  /\ Queued(s) \subseteq Clients
           /\ \A c : c \in Queued(s) <=>
                       \E i \in DOMAIN sock[s].queue : c = sock[s].queue[i]
  BY Types DEF Queued

\* Two places of the queues that hold the same client are one.
LEMMA OnePlace ==
    ASSUME QueuedOnce, NEW s \in Sockets, NEW t \in Sockets,
           NEW i \in DOMAIN sock[s].queue, NEW j \in DOMAIN sock[t].queue,
           sock[s].queue[i] = sock[t].queue[j]
    PROVE  s = t /\ i = j
  BY DEF QueuedOnce

\* The invariant holds before the daemon is started.
LEMMA InitIInv == Init => IInv
<1> SUFFICES ASSUME Init PROVE IInv
  OBVIOUS
<1>1. TypeOK
  BY DEF Init, TypeOK, Free, Idle
<1>2. \A s \in Sockets : DOMAIN sock[s].queue = {}
  BY DEF Init, Free
<1>3. AnswerTells /\ Looking
  BY DEF Init, AnswerTells, Looking, Idle
<1>4. QueuedOnce /\ QueuedWait
  BY <1>2 DEF QueuedOnce, QueuedWait
<1>5. Serving /\ HasSocket
  BY DEF Init, Serving, HasSocket
<1> QED
  BY <1>1, <1>3, <1>4, <1>5 DEF IInv

\* Steps that leave clients and connections alone.
LEMMA SameLinks ==
    ASSUME TypeOK, Links, UNCHANGED <<client, runs, conn>>,
           \A s \in Sockets : sock'[s].queue = sock[s].queue
    PROVE  Links'
<1>1. AnswerTells'
  BY DEF Links, AnswerTells
<1>2. QueuedOnce'
  BY DEF Links, QueuedOnce
<1>3. QueuedWait'
  BY DEF Links, QueuedWait, Waiting
<1>4. \A c : Connected(c)' <=> Connected(c)
  BY DEF Connected, Queued
<1>5. Looking'
  BY <1>4, Zenon DEF Links, Looking, Unconnected
<1> QED
  BY <1>1, <1>2, <1>3, <1>5 DEF Links

\* QueuedWait after a step, for one client.
StillWaits(d) ==
    /\ client'[d].pc \in {"send", "receive", "dead"}
    /\ client'[d].got = "none" /\ runs'[d] = 0 /\ d # conn'

\* If every client that is queued after a step still waits, QueuedWait holds.
LEMMA AllStillWait ==
    ASSUME \A s \in Sockets : \A i \in DOMAIN sock'[s].queue :
               StillWaits(sock'[s].queue[i])
    PROVE  QueuedWait'
  BY DEF StillWaits, QueuedWait, Waiting

-----------------------------------------------------------------------------
\* One client moves.  What it was asked for may change only while it is not
\* connected, and what it got only when it is not waited on.
LEMMA ClientMoves ==
    ASSUME IInv, NEW c \in Clients, NEW r \in Process, NEW n \in Nat,
           client' = [client EXCEPT ![c] = r], runs' = [runs EXCEPT ![c] = n],
           UNCHANGED <<path, sock, daemon>>, kills' \in 0..MaxKills,
           n <= 1, r.got = "ok" => n = 1, r.req = "bad" => n = 0,
           Connected(c) => n = runs[c],
           (Connected(c) /\ Waiting(c)) \/ (conn = c /\ dpc = "reply") =>
               /\ r.pc \in {"send", "receive", "dead"} /\ r.got = client[c].got
               /\ r.req = client[c].req,
           r.pc \in {"wait", "connect"} =>
               r.got = "none" /\ n = 0 /\ ~Connected(c)
    PROVE  IInv'
<1>1. TypeOK /\ AnswerTells /\ QueuedOnce /\ QueuedWait /\ Looking /\ Serving
        /\ HasSocket
  BY DEF IInv
<1>2. /\ \A d \in Clients : /\ client'[d] = IF d = c THEN r ELSE client[d]
                            /\ runs'[d] = IF d = c THEN n ELSE runs[d]
      /\ client' \in [Clients -> Process] /\ runs' \in [Clients -> Nat]
  BY <1>1, Types
<1>3. TypeOK'
  BY <1>1, <1>2 DEF TypeOK, Process, daemon
<1>4. AnswerTells'
  BY <1>1, <1>2 DEF AnswerTells
<1>5. QueuedOnce'
  BY <1>1 DEF QueuedOnce
<1>6. \A d \in Clients : Connected(d)' <=> Connected(d)
  BY DEF Connected, Queued, daemon
<1>7. QueuedWait'
  <2> SUFFICES ASSUME NEW s \in Sockets, NEW i \in DOMAIN sock[s].queue,
                      NEW d, d = sock[s].queue[i]
               PROVE  StillWaits(d)
    BY AllStillWait DEF daemon
  <2>1. d \in Clients /\ Waiting(d) /\ d # conn /\ Connected(d)
    BY <1>1, QueueMembers DEF QueuedWait, Connected
  <2> QED
    BY <1>2, <2>1 DEF Waiting, StillWaits, daemon
<1>8. Looking'
  <2> SUFFICES ASSUME NEW d \in Clients, client'[d].pc \in {"wait", "connect"}
               PROVE  Unconnected(d)'
    BY DEF Looking
  <2>1. CASE d = c
    BY <1>2, <1>6, <2>1 DEF Unconnected
  <2>2. CASE d # c
    BY <1>1, <1>2, <1>6, <2>2 DEF Unconnected, Looking
  <2> QED
    BY <2>1, <2>2
<1>9. Serving'
  <2>1. CASE conn = None
    BY <1>1, <2>1 DEF Serving, daemon
  <2>2. CASE conn # None
    <3>1. conn \in Clients /\ Connected(conn)
      BY <1>1, <2>2 DEF TypeOK, Connected
    <3> QED
      BY <1>1, <1>2, <2>2, <3>1 DEF Serving, Waiting, daemon
  <2> QED
    BY <2>1, <2>2
<1>10. HasSocket'
  BY <1>1 DEF HasSocket, daemon
<1> QED
  BY <1>3, <1>4, <1>5, <1>7, <1>8, <1>9, <1>10 DEF IInv

\* Steps of a client that neither connect it nor count a run.
LEMMA ClientSteps ==
    ASSUME IInv, NEW c \in Clients, NEW r \in Process,
           client' = [client EXCEPT ![c] = r],
           UNCHANGED <<path, sock, daemon, runs>>, kills' \in 0..MaxKills,
           r = Idle \/ (r.got = client[c].got /\ r.req = client[c].req),
           (Connected(c) /\ Waiting(c)) \/ (conn = c /\ dpc = "reply") =>
               r # Idle /\ r.pc \in {"send", "receive", "dead"},
           r.pc \in {"wait", "connect"} => client[c].pc \in {"wait", "connect"}
    PROVE  IInv'
<1>1. TypeOK /\ AnswerTells /\ Looking
  BY DEF IInv
<1>2. client[c] \in Process /\ runs \in [Clients -> Nat] /\ runs[c] \in Nat
  BY <1>1, Types
<1>3. runs' = [runs EXCEPT ![c] = runs[c]]
  BY <1>2
<1>4. runs[c] <= 1 /\ (r.got = "ok" => runs[c] = 1) /\ (r.req = "bad" => runs[c] = 0)
  BY <1>1 DEF AnswerTells, Idle
<1>5. r.pc \in {"wait", "connect"} => r.got = "none" /\ runs[c] = 0 /\ ~Connected(c)
  BY <1>1 DEF Looking, Unconnected, Idle
<1>6. (Connected(c) /\ Waiting(c)) \/ (conn = c /\ dpc = "reply") =>
        /\ r.pc \in {"send", "receive", "dead"} /\ r.got = client[c].got
        /\ r.req = client[c].req
  OBVIOUS
<1> QED
  BY <1>2, <1>3, <1>4, <1>5, <1>6, ClientMoves, Zenon

\* A client is started, without a connection.
LEMMA StartIInv ==
    ASSUME IInv, NEW c \in Clients, NEW q \in {"valid", "bad"}, Start(c, q)
    PROVE  IInv'
<1> DEFINE r == [Idle EXCEPT !.pc = "wait", !.req = q]
<1>1. r \in Process /\ r.pc = "wait" /\ r.got = "none"
  <2>1. Idle \in Process /\ Idle.got = "none"
    BY Records DEF Idle
  <2> QED
    BY <2>1, Zenon DEF Process
<1>2. /\ client' = [client EXCEPT ![c] = r] /\ runs' = [runs EXCEPT ![c] = 0]
      /\ ~Connected(c) /\ UNCHANGED <<path, sock, daemon>>
  BY DEF Start
<1>3. kills' \in 0..MaxKills /\ conn # c
  BY <1>2 DEF Start, IInv, TypeOK, Connected
<1>4. 0 \in Nat /\ 0 <= 1
  OBVIOUS
<1> HIDE DEF r
<1> QED
  BY <1>1, <1>2, <1>3, <1>4, ClientMoves, Zenon

\* A client that looks for the path is not connected.
LEMMA NotConnected ==
    ASSUME IInv, NEW c \in Clients, client[c].pc \in {"wait", "connect"}
    PROVE  ~Connected(c) /\ conn # c /\ client[c].got = "none" /\ runs[c] = 0
  BY DEF IInv, Looking, Unconnected, Connected

\* A client looks for the path once more.
LEMMA WaitIInv ==
    ASSUME IInv, NEW c \in Clients, WaitSocketReady(c)
    PROVE  IInv'
<1>1. client[c] \in Process /\ kills \in 0..MaxKills /\ MaxTries \in Nat
  BY Types DEF IInv, TypeOK
<1> DEFINE r == IF path # None THEN [client[c] EXCEPT !.pc = "connect"]
                ELSE IF client[c].tries < MaxTries
                     THEN [client[c] EXCEPT !.tries = client[c].tries + 1]
                ELSE Idle
<1>2. client' = [client EXCEPT ![c] = r]
  BY Zenon DEF WaitSocketReady
<1>3. r \in Process /\ (r = Idle \/ (r.got = client[c].got /\ r.req = client[c].req))
  BY <1>1, Records DEF Process
<1>4. client[c].pc = "wait" /\ UNCHANGED <<path, sock, daemon, runs, kills>>
  BY DEF WaitSocketReady
<1> HIDE DEF r
<1> QED
  BY <1>1, <1>2, <1>3, <1>4, NotConnected, ClientSteps, Zenon

\* A client sends its request and stays where it is queued or served.
LEMMA SendIInv ==
    ASSUME IInv, NEW c \in Clients, Send(c)
    PROVE  IInv'
<1> DEFINE r == [client[c] EXCEPT !.pc = "receive", !.sent = TRUE]
<1>1. client[c] \in Process /\ kills \in 0..MaxKills /\ client \in [Clients -> Process]
  BY Types DEF IInv, TypeOK
<1>2. r \in Process /\ r.pc = "receive" /\ r.got = client[c].got /\ r.req = client[c].req
        /\ r # Idle
  BY <1>1, Zenon DEF Process, Idle
<1>3. client' = [client EXCEPT ![c] = r] /\ UNCHANGED <<path, sock, daemon, runs, kills>>
  BY <1>1, Zenon DEF Send
<1> HIDE DEF r
<1> QED
  BY <1>1, <1>2, <1>3, ClientSteps, Zenon

\* A client with its answer ends; it is in no queue.
LEMMA ReceiveAnswerIInv ==
    ASSUME IInv, NEW c \in Clients, ReceiveAnswer(c)
    PROVE  IInv'
<1>1. kills \in 0..MaxKills /\ Serving
  BY DEF IInv, TypeOK
<1>2. ~Waiting(c) /\ ~(conn = c /\ dpc = "reply")
  BY <1>1 DEF ReceiveAnswer, Waiting, Serving
<1>3. client' = [client EXCEPT ![c] = Idle] /\ UNCHANGED <<path, sock, daemon, runs, kills>>
  BY DEF ReceiveAnswer
<1>4. Idle.pc = "idle"
  BY DEF Idle
<1> QED
  BY <1>1, <1>2, <1>3, <1>4, Records, ClientSteps, Zenon

\* A killed client keeps its place in the queue.
LEMMA KillClientIInv ==
    ASSUME IInv, NEW c \in Clients, KillClient(c)
    PROVE  IInv'
<1>1. client[c] \in Process /\ kills' \in 0..MaxKills
  BY Types DEF IInv, TypeOK, KillClient
<1>2. UNCHANGED <<path, sock, daemon, runs>>
  BY DEF KillClient
<1>3. CASE Connected(c)
  <2> DEFINE r == [client[c] EXCEPT !.pc = "dead"]
  <2>1. r \in Process /\ r.pc = "dead" /\ r.got = client[c].got /\ r.req = client[c].req
          /\ r # Idle
    BY <1>1 DEF Process, Idle
  <2>2. client' = [client EXCEPT ![c] = r]
    BY <1>3 DEF KillClient
  <2> HIDE DEF r
  <2> QED
    BY <1>1, <1>2, <2>1, <2>2, ClientSteps, Zenon
<1>4. CASE ~Connected(c)
  <2>1. client' = [client EXCEPT ![c] = Idle] /\ Idle.pc = "idle" /\ conn # c
    BY <1>4 DEF KillClient, Idle, Connected
  <2> QED
    BY <1>1, <1>2, <1>4, <2>1, Records, ClientSteps, Zenon
<1> QED
  BY <1>3, <1>4

\* Connect, when it succeeds: the client goes to the end of the queue.
LEMMA Joined ==
    ASSUME IInv, NEW c \in Clients, client[c].pc = "connect",
           NEW p \in Sockets,
           client' = [client EXCEPT ![c].pc = "send"],
           sock' = [sock EXCEPT ![p].queue = Append(@, c)],
           UNCHANGED <<path, daemon, runs, kills>>
    PROVE  IInv'
<1>1. TypeOK /\ AnswerTells /\ QueuedOnce /\ QueuedWait /\ Looking /\ Serving
        /\ HasSocket
  BY DEF IInv
<1>2. ~Connected(c) /\ conn # c /\ client[c].got = "none" /\ runs[c] = 0
  BY NotConnected
<1> DEFINE q == sock[p].queue
<1>3. /\ q \in Seq(Clients) /\ Append(q, c) \in Seq(Clients)
      /\ DOMAIN q = 1..Len(q) /\ Len(q) \in Nat
      /\ DOMAIN Append(q, c) = 1..(Len(q) + 1)
      /\ Append(q, c)[Len(q) + 1] = c
      /\ \A i \in DOMAIN q : Append(q, c)[i] = q[i]
  BY <1>1, Types
<1>4. /\ sock' \in [Sockets -> Socket]
      /\ \A s \in Sockets : sock'[s].queue = IF s = p THEN Append(q, c) ELSE sock[s].queue
  BY <1>1, <1>3, Types, Zenon DEF Socket
<1>5. /\ client' \in [Clients -> Process]
      /\ client'[c].pc = "send" /\ client'[c].got = client[c].got
      /\ client'[c].req = client[c].req
      /\ \A d \in Clients \ {c} : client'[d] = client[d]
  <2> DEFINE r == [client[c] EXCEPT !.pc = "send"]
  <2>1. client[c] \in Process /\ client \in [Clients -> Process]
    BY <1>1, Types
  <2>2. r \in Process /\ r.pc = "send" /\ r.got = client[c].got /\ r.req = client[c].req
    BY <2>1 DEF Process
  <2>3. client' = [client EXCEPT ![c] = r]
    OBVIOUS
  <2> HIDE DEF r
  <2> QED
    BY <2>1, <2>2, <2>3
<1> HIDE DEF q
\* An entry of a queue is an old one, or the new one at the end of p's.
<1>6. ASSUME NEW s \in Sockets, NEW i \in DOMAIN sock'[s].queue
      PROVE  \/ i \in DOMAIN sock[s].queue /\ sock'[s].queue[i] = sock[s].queue[i]
             \/ s = p /\ i = Len(q) + 1 /\ sock'[s].queue[i] = c
  <2>1. CASE s = p
    BY <1>3, <1>4, <1>6, <2>1 DEF q
  <2>2. CASE s # p
    BY <1>4, <1>6, <2>2
  <2> QED
    BY <2>1, <2>2
<1>7. \A s \in Sockets : \A i \in DOMAIN sock[s].queue :
         sock[s].queue[i] # c /\ sock[s].queue[i] \in Clients
  BY <1>1, <1>2, QueueMembers DEF Connected
<1>8. TypeOK'
  BY <1>1, <1>4, <1>5, Zenon DEF TypeOK, Socket, Process, daemon
<1>9. AnswerTells'
  BY <1>1, <1>5 DEF AnswerTells
<1>10. QueuedOnce'
  <2> SUFFICES ASSUME NEW s \in Sockets, NEW t \in Sockets,
                      NEW i \in DOMAIN sock'[s].queue, NEW j \in DOMAIN sock'[t].queue,
                      sock'[s].queue[i] = sock'[t].queue[j]
               PROVE  s = t /\ i = j
    BY DEF QueuedOnce
  <2>1. \/ i \in DOMAIN sock[s].queue /\ sock'[s].queue[i] = sock[s].queue[i]
        \/ s = p /\ i = Len(q) + 1 /\ sock'[s].queue[i] = c
    BY <1>6
  <2>2. \/ j \in DOMAIN sock[t].queue /\ sock'[t].queue[j] = sock[t].queue[j]
        \/ t = p /\ j = Len(q) + 1 /\ sock'[t].queue[j] = c
    BY <1>6
  <2>3. CASE sock'[s].queue[i] = c
    BY <1>7, <2>1, <2>2, <2>3
  <2>4. CASE sock'[s].queue[i] # c
    <3>1. /\ i \in DOMAIN sock[s].queue /\ j \in DOMAIN sock[t].queue
          /\ sock[s].queue[i] = sock[t].queue[j]
      BY <2>1, <2>2, <2>4, Zenon
    <3>2. QueuedOnce
      BY <1>1
    <3> QED
      BY <3>1, <3>2, OnePlace
  <2> QED
    BY <2>3, <2>4
<1>11. QueuedWait'
  <2> SUFFICES ASSUME NEW s \in Sockets, NEW i \in DOMAIN sock'[s].queue,
                      NEW d, d = sock'[s].queue[i]
               PROVE  StillWaits(d)
    BY AllStillWait
  <2>1. CASE i \in DOMAIN sock[s].queue /\ sock'[s].queue[i] = sock[s].queue[i]
    <3>1. d \in Clients \ {c} /\ Waiting(d) /\ d # conn
      BY <1>1, <1>7, <2>1 DEF QueuedWait
    <3> QED
      BY <1>5, <3>1 DEF Waiting, StillWaits, daemon
  <2>2. CASE sock'[s].queue[i] = c
    BY <1>2, <1>5, <2>2 DEF Waiting, StillWaits, daemon
  <2> QED
    BY <1>6, <2>1, <2>2
<1>12. Looking'
  <2> SUFFICES ASSUME NEW d \in Clients, client'[d].pc \in {"wait", "connect"}
               PROVE  Unconnected(d)'
    BY DEF Looking
  <2>1. d # c /\ Unconnected(d) /\ client'[d] = client[d]
    BY <1>1, <1>5 DEF Looking
  <2>2. ~Connected(d)'
    BY <1>6, <2>1 DEF Unconnected, Connected, Queued, daemon
  <2> QED
    BY <2>1, <2>2 DEF Unconnected
<1>13. Serving'
  BY <1>1, <1>2, <1>5 DEF Serving, Waiting, TypeOK, daemon
<1>14. HasSocket'
  BY <1>1 DEF HasSocket, daemon
<1> QED
  BY <1>8, <1>9, <1>10, <1>11, <1>12, <1>13, <1>14 DEF IInv

\* A client enters the queue of a socket; it was in none.
LEMMA ConnectIInv ==
    ASSUME IInv, NEW c \in Clients, Connect(c)
    PROVE  IInv'
<1>1. CASE path # None /\ sock[path].state = "listening"
  <2>1. path \in Sockets
    BY <1>1 DEF IInv, TypeOK
  <2>2. /\ client[c].pc = "connect" /\ client' = [client EXCEPT ![c].pc = "send"]
        /\ sock' = [sock EXCEPT ![path].queue = Append(@, c)]
        /\ UNCHANGED <<path, daemon, runs, kills>>
    BY <1>1 DEF Connect
  <2> QED
    BY <2>1, <2>2, Joined, Zenon
<1>2. CASE ~(path # None /\ sock[path].state = "listening")
  <2>1. /\ client' = [client EXCEPT ![c] = Idle] /\ client[c].pc = "connect"
        /\ UNCHANGED <<path, sock, daemon, runs, kills>>
    BY <1>2 DEF Connect
  <2>2. kills \in 0..MaxKills /\ Idle.pc = "idle"
    BY DEF IInv, TypeOK, Idle
  <2> QED
    BY <2>1, <2>2, Records, NotConnected, ClientSteps, Zenon
<1> QED
  BY <1>1, <1>2

-----------------------------------------------------------------------------
\* Steps of the daemon that concern no client.
LEMMA UnlinkIInv ==
    ASSUME IInv, Unlink
    PROVE  IInv'
<1>1. TypeOK /\ Links /\ Serving
  BY DEF IInv, Links
<1>2. TypeOK' /\ Serving' /\ HasSocket'
  BY <1>1 DEF Unlink, TypeOK, Serving, HasSocket
<1>3. Links'
  BY <1>1, SameLinks DEF Unlink
<1> QED
  BY <1>2, <1>3 DEF IInv, Links

\* The daemon is started and has no socket yet.
LEMMA RestartIInv ==
    ASSUME IInv, Restart
    PROVE  IInv'
<1>1. TypeOK /\ Links /\ Serving
  BY DEF IInv, Links
<1>2. TypeOK' /\ Serving' /\ HasSocket'
  BY <1>1 DEF Restart, TypeOK, Serving, HasSocket
<1>3. Links'
  BY <1>1, SameLinks DEF Restart
<1> QED
  BY <1>2, <1>3 DEF IInv, Links

\* The state of a socket changes, not its queue.
LEMMA StateChanges ==
    ASSUME TypeOK, NEW s \in Sockets,
           NEW st \in {"free", "bound", "listening", "garbage"},
           sock' = [sock EXCEPT ![s].state = st]
    PROVE  /\ sock' \in [Sockets -> Socket]
           /\ \A t \in Sockets : sock'[t].queue = sock[t].queue
  BY Types DEF Socket

\* The daemon binds a socket that nobody uses.
LEMMA BindIInv ==
    ASSUME IInv, Bind
    PROVE  IInv'
<1>1. TypeOK /\ Links /\ Serving
  BY DEF IInv, Links
<1>2. /\ dpc = "bind" /\ dpc' \in {"listen", "exited"}
      /\ UNCHANGED <<conn, result, client, runs, kills>>
  BY DEF Bind
<1>3. /\ sock' \in [Sockets -> Socket]
      /\ \A t \in Sockets : sock'[t].queue = sock[t].queue
      /\ path' \in Sockets \cup {None} /\ cur' \in Sockets \cup {None}
      /\ dpc' = "listen" => cur' # None
  <2>1. CASE path = None
    <3>1. PICK s \in Sockets : sock' = [sock EXCEPT ![s].state = "bound"]
                               /\ path' = s /\ cur' = s
      BY <2>1 DEF Bind
    <3> QED
      BY <1>1, <3>1, StateChanges, Zenon
  <2>2. CASE path # None
    <3>1. dpc' = "exited" /\ UNCHANGED <<path, sock, cur>>
      BY <2>2 DEF Bind
    <3> QED
      BY <1>1, <3>1, Types DEF TypeOK
  <2> QED
    BY <2>1, <2>2
<1>4. TypeOK'
  BY <1>1, <1>2, <1>3 DEF TypeOK, Socket
<1>5. Serving' /\ HasSocket'
  BY <1>1, <1>2, <1>3 DEF Serving, HasSocket
<1>6. Links'
  BY <1>1, <1>2, <1>3, SameLinks
<1> QED
  BY <1>4, <1>5, <1>6 DEF IInv, Links

\* The socket is made to listen.
LEMMA ListenIInv ==
    ASSUME IInv, Listen
    PROVE  IInv'
<1>1. TypeOK /\ Links /\ Serving /\ cur \in Sockets
  BY DEF IInv, Links, Listen, HasSocket, TypeOK
<1>2. /\ sock' \in [Sockets -> Socket]
      /\ \A t \in Sockets : sock'[t].queue = sock[t].queue
  BY <1>1, StateChanges, Zenon DEF Listen
<1>3. TypeOK'
  BY <1>1, <1>2 DEF TypeOK, Socket, Listen
<1>4. Serving' /\ HasSocket'
  BY <1>1 DEF Serving, HasSocket, Listen
<1>5. Links'
  BY <1>1, <1>2, SameLinks DEF Listen
<1> QED
  BY <1>3, <1>4, <1>5 DEF IInv, Links

\* The daemon removes its path.
LEMMA RemoveIInv ==
    ASSUME IInv, Remove
    PROVE  IInv'
<1>1. TypeOK /\ Links /\ Serving /\ cur \in Sockets
  BY DEF IInv, Links, Remove, HasSocket, TypeOK
<1>2. /\ sock' \in [Sockets -> Socket]
      /\ \A t \in Sockets : sock'[t].queue = sock[t].queue
  BY <1>1, StateChanges, Zenon DEF Remove
<1>3. TypeOK'
  BY <1>1, <1>2 DEF TypeOK, Socket, Remove
<1>4. Serving' /\ HasSocket'
  BY <1>1 DEF Serving, HasSocket, Remove
<1>5. Links'
  BY <1>1, <1>2, SameLinks DEF Remove
<1> QED
  BY <1>3, <1>4, <1>5 DEF IInv, Links

-----------------------------------------------------------------------------
\* The steps that serve a client.
LEMMA ReceiveIInv ==
    ASSUME IInv, Receive
    PROVE  IInv'
<1>1. TypeOK /\ Links /\ Serving /\ HasSocket
  BY DEF IInv, Links
<1>2. TypeOK' /\ HasSocket'
  BY <1>1 DEF Receive, TypeOK, HasSocket
<1>3. Serving'
  BY <1>1 DEF Receive, Serving, Waiting
<1>4. Links'
  BY <1>1, SameLinks DEF Receive
<1> QED
  BY <1>2, <1>3, <1>4 DEF IInv, Links

\* The handler runs for the client being served, for the first time.
LEMMA HandlerIInv ==
    ASSUME IInv, Handler
    PROVE  IInv'
<1>1. TypeOK /\ AnswerTells /\ QueuedOnce /\ QueuedWait /\ Looking /\ Serving
        /\ HasSocket
  BY DEF IInv
<1>2. /\ conn \in Clients /\ Waiting(conn) /\ client[conn].req = "valid"
      /\ dpc = "handler" /\ dpc' = "reply"
  BY <1>1 DEF Handler, Serving, TypeOK
<1>3. /\ runs' \in [Clients -> Nat] /\ runs'[conn] = 1
      /\ \A d \in Clients \ {conn} : runs'[d] = runs[d]
      /\ UNCHANGED <<path, sock, cur, conn, client, kills>>
  BY <1>1, <1>2, Types DEF Handler, Waiting
<1>4. TypeOK'
  BY <1>1, <1>3 DEF Handler, TypeOK
<1>5. AnswerTells'
  BY <1>1, <1>2, <1>3 DEF AnswerTells, Waiting
<1>6. QueuedOnce'
  BY <1>1, <1>3 DEF QueuedOnce
<1>7. QueuedWait'
  <2> SUFFICES ASSUME NEW s \in Sockets, NEW i \in DOMAIN sock[s].queue,
                      NEW d, d = sock[s].queue[i]
               PROVE  StillWaits(d)
    BY <1>3, AllStillWait
  <2>1. d \in Clients /\ Waiting(d) /\ d # conn
    BY <1>1, QueueMembers DEF QueuedWait
  <2> QED
    BY <1>3, <2>1 DEF Waiting, StillWaits
<1>8. Looking'
  <2> SUFFICES ASSUME NEW d \in Clients, client[d].pc \in {"wait", "connect"}
               PROVE  Unconnected(d)'
    BY <1>3 DEF Looking
  <2>1. Unconnected(d) /\ d # conn
    BY <1>1, <1>2 DEF Looking, Waiting
  <2>2. ~Connected(d)'
    BY <1>3, <2>1 DEF Unconnected, Connected, Queued
  <2> QED
    BY <1>3, <2>1, <2>2 DEF Unconnected
<1>9. Serving' /\ HasSocket'
  BY <1>1, <1>2, <1>3 DEF Serving, Waiting, HasSocket
<1> QED
  BY <1>4, <1>5, <1>6, <1>7, <1>8, <1>9 DEF IInv

\* The answer is sent: ok only after the handler has run.
LEMMA ReplyIInv ==
    ASSUME IInv, Reply
    PROVE  IInv'
<1>1. TypeOK /\ AnswerTells /\ QueuedOnce /\ QueuedWait /\ Looking /\ Serving
        /\ HasSocket
  BY DEF IInv
<1>2. /\ conn \in Clients /\ client[conn].pc \in {"send", "receive", "dead"}
      /\ result = "ok" => runs[conn] = 1
      /\ dpc = "reply" /\ dpc' = "close" /\ result' = "none"
      /\ UNCHANGED <<path, sock, cur, conn, runs, kills>>
  BY <1>1 DEF Reply, Serving, TypeOK
<1>3. /\ client' \in [Clients -> Process]
      /\ client'[conn].got = result /\ client'[conn].pc = client[conn].pc
      /\ client'[conn].req = client[conn].req
      /\ \A d \in Clients \ {conn} : client'[d] = client[d]
  <2>1. result \in {"none", "ok", "error"} /\ client' = [client EXCEPT ![conn].got = result]
    BY <1>1 DEF Reply, TypeOK
  <2> DEFINE r == [client[conn] EXCEPT !.got = result]
  <2>2. client[conn] \in Process /\ client \in [Clients -> Process]
    BY <1>1, <1>2, Types
  <2>3. /\ r \in Process /\ r.got = result /\ r.pc = client[conn].pc
        /\ r.req = client[conn].req
    BY <2>1, <2>2 DEF Process
  <2>4. client' = [client EXCEPT ![conn] = r]
    BY <2>1
  <2> HIDE DEF r
  <2> QED
    BY <1>2, <2>2, <2>3, <2>4
<1>4. TypeOK'
  BY <1>1, <1>2, <1>3 DEF TypeOK, Process
<1>5. AnswerTells'
  BY <1>1, <1>2, <1>3 DEF AnswerTells
<1>6. QueuedOnce'
  BY <1>1, <1>2 DEF QueuedOnce
<1>7. QueuedWait'
  <2> SUFFICES ASSUME NEW s \in Sockets, NEW i \in DOMAIN sock[s].queue,
                      NEW d, d = sock[s].queue[i]
               PROVE  StillWaits(d)
    BY <1>2, AllStillWait
  <2>1. d \in Clients /\ Waiting(d) /\ d # conn
    BY <1>1, QueueMembers DEF QueuedWait
  <2> QED
    BY <1>2, <1>3, <2>1 DEF Waiting, StillWaits
<1>8. Looking'
  <2> SUFFICES ASSUME NEW d \in Clients, client'[d].pc \in {"wait", "connect"}
               PROVE  Unconnected(d)'
    BY DEF Looking
  <2>1. d # conn /\ client'[d] = client[d] /\ Unconnected(d)
    BY <1>1, <1>2, <1>3 DEF Looking
  <2>2. ~Connected(d)'
    BY <1>2, <2>1 DEF Unconnected, Connected, Queued
  <2> QED
    BY <1>2, <2>1, <2>2 DEF Unconnected
<1>9. Serving' /\ HasSocket'
  BY <1>1, <1>2 DEF Serving, HasSocket
<1> QED
  BY <1>4, <1>5, <1>6, <1>7, <1>8, <1>9 DEF IInv

\* The first client of the queue is served and leaves it.
LEMMA AcceptIInv ==
    ASSUME IInv, Accept
    PROVE  IInv'
<1>1. TypeOK /\ AnswerTells /\ QueuedOnce /\ QueuedWait /\ Looking /\ Serving
        /\ HasSocket
  BY DEF IInv
<1> DEFINE q == sock[cur].queue
<1>2. /\ cur \in Sockets /\ q # <<>> /\ conn = None /\ conn' = Head(q)
      /\ dpc = "accept" /\ dpc' = "receive"
      /\ UNCHANGED <<path, cur, result, client, runs, kills>>
  BY <1>1 DEF Accept, HasSocket, TypeOK, Serving
<1>3. /\ q \in Seq(Clients) /\ Tail(q) \in Seq(Clients) /\ Head(q) \in Clients
      /\ 1 \in DOMAIN q /\ Head(q) = q[1]
      /\ \A i \in DOMAIN Tail(q) : /\ i \in Nat /\ i + 1 \in DOMAIN q /\ i + 1 # 1
                                   /\ Tail(q)[i] = q[i + 1]
  BY <1>1, <1>2, Types
<1>4. /\ sock' \in [Sockets -> Socket]
      /\ \A s \in Sockets : sock'[s].queue = IF s = cur THEN Tail(q) ELSE sock[s].queue
  <2>1. sock' = [sock EXCEPT ![cur].queue = Tail(@)]
    BY DEF Accept
  <2> QED
    BY <1>1, <1>2, <1>3, <2>1, Types, Zenon DEF Socket
\* An entry that stays has moved up by one in cur's queue.
<1> DEFINE was(s, i) == IF s = cur THEN i + 1 ELSE i
<1>5. ASSUME NEW s \in Sockets, NEW i \in DOMAIN sock'[s].queue
      PROVE  /\ was(s, i) \in DOMAIN sock[s].queue
             /\ sock'[s].queue[i] = sock[s].queue[was(s, i)]
             /\ s = cur => i \in Nat /\ was(s, i) = i + 1 /\ was(s, i) # 1
             /\ s # cur => was(s, i) = i
  <2>1. CASE s = cur
    BY <1>3, <1>4, <1>5, <2>1, Zenon
  <2>2. CASE s # cur
    BY <1>4, <1>5, <2>2
  <2> QED
    BY <2>1, <2>2
<1> HIDE DEF was
<1>6. TypeOK'
  BY <1>1, <1>2, <1>3, <1>4 DEF TypeOK, Socket
<1>7. AnswerTells'
  BY <1>1, <1>2 DEF AnswerTells
<1>8. QueuedOnce'
  <2> SUFFICES ASSUME NEW s \in Sockets, NEW t \in Sockets,
                      NEW i \in DOMAIN sock'[s].queue, NEW j \in DOMAIN sock'[t].queue,
                      sock'[s].queue[i] = sock'[t].queue[j]
               PROVE  s = t /\ i = j
    BY DEF QueuedOnce
  <2>1. s = t /\ was(s, i) = was(t, j)
    BY <1>1, <1>5 DEF QueuedOnce
  <2> QED
    BY <1>5, <2>1
<1>9. Waiting(conn') /\ conn' \in Clients
  BY <1>1, <1>2, <1>3 DEF QueuedWait
<1>10. QueuedWait'
  <2> SUFFICES ASSUME NEW s \in Sockets, NEW i \in DOMAIN sock'[s].queue,
                      NEW d, d = sock'[s].queue[i]
               PROVE  StillWaits(d)
    BY AllStillWait
  <2>1. was(s, i) \in DOMAIN sock[s].queue /\ d = sock[s].queue[was(s, i)]
    BY <1>5
  <2>2. Waiting(d)
    BY <1>1, <2>1, Zenon DEF QueuedWait
  <2>3. ASSUME d = conn' PROVE FALSE
    <3>1. sock[cur].queue[1] = sock[s].queue[was(s, i)] /\ 1 \in DOMAIN sock[cur].queue
      BY <1>2, <1>3, <2>1, <2>3
    <3>2. s = cur /\ was(s, i) = 1
      <4>1. PICK k : k = was(s, i)
        OBVIOUS
      <4>2. k \in DOMAIN sock[s].queue /\ sock[cur].queue[1] = sock[s].queue[k]
        BY <2>1, <3>1, <4>1
      <4>3. cur = s /\ 1 = k
        <5>1. QueuedOnce /\ cur \in Sockets /\ 1 \in DOMAIN sock[cur].queue
          BY <1>1, <1>2, <3>1
        <5> HIDE DEF q
        <5> QED
          BY <4>2, <5>1, OnePlace
      <4> QED
        BY <4>1, <4>3
    <3> QED
      BY <1>5, <3>2
  <2> QED
    BY <1>2, <2>2, <2>3 DEF Waiting, StillWaits
<1>11. Looking'
  <2> SUFFICES ASSUME NEW d \in Clients, client[d].pc \in {"wait", "connect"}
               PROVE  Unconnected(d)'
    BY <1>2 DEF Looking
  <2>1. Unconnected(d) /\ d # conn'
    BY <1>1, <1>9 DEF Looking, Waiting
  <2>2. ~Connected(d)'
    BY <1>5, <2>1 DEF Unconnected, Connected, Queued
  <2> QED
    BY <1>2, <2>1, <2>2 DEF Unconnected
<1>12. Serving' /\ HasSocket'
  BY <1>1, <1>2, <1>9 DEF Serving, Waiting, HasSocket
<1> QED
  BY <1>6, <1>7, <1>8, <1>10, <1>11, <1>12 DEF IInv

-----------------------------------------------------------------------------
\* Connections are closed: those of the clients in C, all of which the daemon
\* has accepted or has in a queue that it drops.
LEMMA HangUp ==
    ASSUME TypeOK, Links, NEW C \in SUBSET Clients, client' = HungUp(C),
           runs' = runs, \A c \in C : Connected(c),
           \A s \in Sockets : \/ sock'[s].queue = <<>>
                              \/ sock'[s].queue = sock[s].queue /\ Queued(s) \cap C = {},
           conn' \in {conn, None}
    PROVE  Links' /\ client' \in [Clients -> Process]
<1>1. AnswerTells /\ QueuedOnce /\ QueuedWait /\ Looking
  BY DEF Links
<1>2. /\ client' \in [Clients -> Process]
      /\ \A c \in Clients \ C : client'[c] = client[c]
      /\ \A c \in C : /\ client'[c].got = "ok" => client[c].got = "ok"
                      /\ client'[c].req = "bad" => client[c].req = "bad"
                      /\ client'[c].pc \in {"idle", client[c].pc}
  <2>1. ASSUME NEW c \in Clients
        PROVE  /\ client'[c] \in Process
               /\ c \notin C => client'[c] = client[c]
               /\ c \in C => /\ client'[c].got = "ok" => client[c].got = "ok"
                             /\ client'[c].req = "bad" => client[c].req = "bad"
                             /\ client'[c].pc \in {"idle", client[c].pc}
    <3>1. client[c] \in Process
      BY Types
    <3>2. client'[c] = IF c \notin C THEN client[c]
                       ELSE IF client[c].pc \in {"dead", "idle"} THEN Idle
                       ELSE [client[c] EXCEPT !.got = IF client[c].got = "none" THEN "eof"
                                                      ELSE client[c].got]
      BY DEF HungUp
    <3>3. CASE c \notin C
      BY <3>1, <3>2, <3>3
    <3>4. CASE c \in C /\ client[c].pc \in {"dead", "idle"}
      BY <3>2, <3>4, Records DEF Idle
    <3>5. CASE c \in C /\ client[c].pc \notin {"dead", "idle"}
      BY <3>1, <3>2, <3>5 DEF Process
    <3> QED
      BY <3>3, <3>4, <3>5
  <2>2. client' = [c \in Clients |-> client'[c]]
    BY DEF HungUp
  <2> QED
    BY <2>1, <2>2
<1>3. AnswerTells'
  BY <1>1, <1>2 DEF AnswerTells
\* What is left in a queue was there before, and is not in C.
<1>4. ASSUME NEW s \in Sockets, NEW i \in DOMAIN sock'[s].queue
      PROVE  /\ sock'[s].queue = sock[s].queue /\ i \in DOMAIN sock[s].queue
             /\ sock[s].queue[i] \in Clients \ C
             /\ sock[s].queue[i] \in Queued(s)
  <2>1. sock'[s].queue = sock[s].queue /\ Queued(s) \cap C = {}
    BY <1>4
  <2> QED
    BY <1>4, <2>1, QueueMembers
<1>5. QueuedOnce'
  BY <1>1, <1>4 DEF QueuedOnce
<1>6. QueuedWait'
  <2> SUFFICES ASSUME NEW s \in Sockets, NEW i \in DOMAIN sock'[s].queue,
                      NEW d, d = sock'[s].queue[i]
               PROVE  StillWaits(d)
    BY AllStillWait
  <2>1. d \in Clients \ C /\ Waiting(d) /\ d # conn
    BY <1>1, <1>4 DEF QueuedWait
  <2>2. client'[d] = client[d] /\ d \in Clients
    BY <1>2, <2>1, Zenon
  <2> QED
    BY <2>1, <2>2 DEF Waiting, StillWaits
<1>7. Looking'
  <2> SUFFICES ASSUME NEW d \in Clients, client'[d].pc \in {"wait", "connect"}
               PROVE  Unconnected(d)'
    BY DEF Looking
  <2>1. client[d].pc \in {"wait", "connect"}
    BY <1>2
  <2>2. Unconnected(d) /\ d \notin C
    BY <1>1, <2>1 DEF Looking, Unconnected
  <2>3. ASSUME NEW s \in Sockets, NEW i \in DOMAIN sock'[s].queue
        PROVE  sock'[s].queue[i] # d
    BY <1>4, <2>2 DEF Unconnected, Connected
  <2>4. ~Connected(d)'
    BY <2>2, <2>3 DEF Unconnected, Connected, Queued
  <2> QED
    BY <1>2, <2>2, <2>4 DEF Unconnected
<1> QED
  BY <1>2, <1>3, <1>5, <1>6, <1>7 DEF Links

\* The connection is closed.
LEMMA CloseIInv ==
    ASSUME IInv, Close
    PROVE  IInv'
<1>1. TypeOK /\ Links /\ Serving /\ HasSocket /\ QueuedWait
  BY DEF IInv, Links
<1>2. /\ conn \in Clients /\ dpc = "close" /\ dpc' = "remove" /\ conn' = None
      /\ client' = HungUp({conn}) /\ UNCHANGED <<path, sock, cur, result, runs, kills>>
  BY <1>1 DEF Close, Serving, TypeOK
<1>3. \A s \in Sockets : Queued(s) \cap {conn} = {}
  BY <1>1 DEF QueuedWait, Queued
<1>4. \A c \in {conn} : Connected(c)
  BY DEF Connected
<1>5. Links' /\ client' \in [Clients -> Process]
  BY <1>1, <1>2, <1>3, <1>4, HangUp, Zenon
<1>6. TypeOK'
  BY <1>1, <1>2, <1>5, Zenon DEF TypeOK, Process
<1>7. Serving' /\ HasSocket'
  BY <1>1, <1>2 DEF Serving, HasSocket
<1> QED
  BY <1>5, <1>6, <1>7 DEF IInv, Links

\* A collected socket hangs up on those in its queue.
LEMMA CollectIInv ==
    ASSUME IInv, NEW s \in Sockets, Collect(s)
    PROVE  IInv'
<1>1. TypeOK /\ Links /\ Serving /\ HasSocket /\ QueuedWait /\ QueuedOnce
  BY DEF IInv, Links
<1>2. /\ sock' = [sock EXCEPT ![s] = Free] /\ client' = HungUp(Queued(s))
      /\ UNCHANGED <<path, dpc, cur, conn, result, runs, kills>>
  BY DEF Collect, daemon
<1>3. /\ sock' \in [Sockets -> Socket] /\ sock'[s].queue = <<>>
      /\ \A t \in Sockets \ {s} : sock'[t] = sock[t]
  BY <1>1, <1>2, Types, Records DEF Free
<1>4. \A t \in Sockets \ {s} : Queued(t) \cap Queued(s) = {}
  BY <1>1 DEF QueuedOnce, Queued
<1>5. Queued(s) \in SUBSET Clients /\ \A c \in Queued(s) : Connected(c)
  BY <1>1, QueueMembers DEF Connected
<1>6. Links' /\ client' \in [Clients -> Process]
  BY <1>1, <1>2, <1>3, <1>4, <1>5, HangUp
<1>7. TypeOK'
  BY <1>1, <1>2, <1>3, <1>6 DEF TypeOK, Process, Socket
<1>8. Serving'
  <2>1. CASE conn = None
    BY <1>1, <1>2, <2>1 DEF Serving
  <2>2. CASE conn # None
    <3>1. conn \in Clients /\ conn \notin Queued(s)
      BY <1>1, <2>2 DEF TypeOK, QueuedWait, Queued
    <3>2. client'[conn] = client[conn]
      BY <1>2, <3>1 DEF HungUp
    <3> QED
      BY <1>1, <1>2, <3>2 DEF Serving, Waiting
  <2> QED
    BY <2>1, <2>2
<1>9. HasSocket'
  BY <1>1, <1>2 DEF HasSocket
<1> QED
  BY <1>6, <1>7, <1>8, <1>9 DEF IInv, Links

\* A killed daemon hangs up on all who are queued or served.
LEMMA KillIInv ==
    ASSUME IInv, Kill
    PROVE  IInv'
<1>1. TypeOK /\ Links
  BY DEF IInv, Links
<1> DEFINE C == (UNION {Queued(s) : s \in Sockets}) \cup ({conn} \ {None})
<1>2. /\ sock' = [s \in Sockets |-> Free] /\ client' = HungUp(C)
      /\ dpc' = "stopped" /\ cur' = None /\ conn' = None /\ result' = "none"
      /\ kills' = kills + 1 /\ kills < MaxKills /\ UNCHANGED <<path, runs>>
  BY DEF Kill
<1>3. C \in SUBSET Clients /\ \A c \in C : Connected(c)
  <2> SUFFICES ASSUME NEW c \in C PROVE c \in Clients /\ Connected(c)
    BY Zenon
  <2>1. CASE \E s \in Sockets : c \in Queued(s)
    BY <1>1, <2>1, QueueMembers DEF Connected
  <2>2. CASE c = conn /\ c # None
    BY <1>1, <2>2 DEF Connected, TypeOK
  <2> QED
    BY <2>1, <2>2, Zenon
<1> HIDE DEF C
<1>4. /\ sock' \in [Sockets -> Socket]
      /\ \A s \in Sockets : sock'[s].queue = <<>>
  BY <1>2, Records DEF Free
<1>5. Links' /\ client' \in [Clients -> Process]
  BY <1>1, <1>2, <1>3, <1>4, HangUp
<1>6. TypeOK'
  <2>1. kills' \in 0..MaxKills /\ path' \in Sockets \cup {None} /\ runs' \in [Clients -> Nat]
    BY <1>1, <1>2 DEF TypeOK
  <2> QED
    BY <1>2, <1>4, <1>5, <2>1 DEF TypeOK, Process, Socket
<1>7. Serving' /\ HasSocket'
  BY <1>2 DEF Serving, HasSocket
<1> QED
  BY <1>5, <1>6, <1>7 DEF IInv, Links

-----------------------------------------------------------------------------
LEMMA NextIInv == IInv /\ [Next]_vars => IInv'
<1> SUFFICES ASSUME IInv, [Next]_vars PROVE IInv'
  OBVIOUS
<1>1. CASE Daemon
  BY <1>1, UnlinkIInv, RestartIInv, BindIInv, ListenIInv, AcceptIInv, ReceiveIInv,
     HandlerIInv, ReplyIInv, CloseIInv, RemoveIInv, Zenon
     DEF Daemon, StartServerSocket
<1>2. CASE Kill
  BY <1>2, KillIInv
<1>3. ASSUME NEW s \in Sockets, Collect(s) PROVE IInv'
  BY <1>3, CollectIInv
<1>4. ASSUME NEW c \in Clients, Client(c) PROVE IInv'
  BY <1>4, WaitIInv, ConnectIInv, SendIInv, ReceiveAnswerIInv, Zenon
     DEF Client, SendCommand
<1>5. ASSUME NEW c \in Clients, KillClient(c) PROVE IInv'
  BY <1>5, KillClientIInv
<1>6. ASSUME NEW c \in Clients, NEW q \in {"valid", "bad"}, Start(c, q) PROVE IInv'
  BY <1>6, StartIInv
<1>7. CASE UNCHANGED vars
  <2>1. TypeOK /\ Links /\ Serving /\ HasSocket
    BY DEF IInv, Links
  <2>2. UNCHANGED <<path, sock, dpc, cur, conn, result, client, runs, kills>>
    BY <1>7 DEF vars, daemon
  <2>3. Links'
    BY <2>1, <2>2, SameLinks
  <2>4. TypeOK' /\ Serving' /\ HasSocket'
    BY <2>1, <2>2 DEF TypeOK, Serving, Waiting, HasSocket
  <2> QED
    BY <2>3, <2>4 DEF IInv, Links
<1> QED
  BY <1>1, <1>2, <1>3, <1>4, <1>5, <1>6, <1>7, Zenon DEF Next

\* Every variable of the daemon and its clients keeps its type: a client looks
\* for the path MaxTries times at most (client.lua, WaitSocketReady).
THEOREM IpcTypeCorrect == Spec => []TypeOK
<1>1. IInv => TypeOK
  BY DEF IInv
<1> QED
  BY <1>1, InitIInv, NextIInv, PTL DEF Spec

\* However many clients call, are left behind on an old socket or are killed, and
\* however often the daemon is restarted, it runs no request twice and none that
\* it turned down, and says ok only for one that it has run (StartServerSocket).
THEOREM AnswersTell == Spec => []AnswerTells
<1>1. IInv => AnswerTells
  BY DEF IInv
<1> QED
  BY <1>1, InitIInv, NextIInv, PTL DEF Spec
==============================================================================

--------------------------- MODULE ClientRegistry ---------------------------
(***************************************************************************)
(* The client registry of the Windows-native server (server/state.go,      *)
(* server/state_ops.go) together with the HTTP handlers that drive it      *)
(* (server/handlers.go, server/admin_handlers.go).                         *)
(*                                                                         *)
(* net/http runs every request in its own goroutine, so the handlers are   *)
(* processes.  Each method of *state is one critical section under s.mu    *)
(* and is one action here, its trailing persistLocked included; what a     *)
(* handler does between two of them (reading the clock, comparing the copy *)
(* it was given) is where the handlers interleave.  The save of the state  *)
(* file succeeds or fails as a whole, which is what AtomicFile shows of    *)
(* atomicWriteFile.                                                        *)
(*                                                                         *)
(* Client ids "client-%04d" are their sequence number, tokens are numbered *)
(* in the order in which the server draws them (24 random bytes never      *)
(* repeat), 0 stands for "none" in both; times are clock ticks and a zero  *)
(* expiry is the nil SessionExpiresAt.  Names, creation times and LastSeen *)
(* are left out: no state change depends on them.                          *)
(***************************************************************************)
EXTENDS Integers, FiniteSets

CONSTANTS
    MACs,        \* normalized MAC addresses
    Spellings,   \* what a registration request may carry as its MAC
    Normalize,   \* normalizeMAC: spelling -> MAC, or NoMAC when it is rejected
    NoMAC,       \* normalizeMAC's ""
    Handlers,    \* requests in flight at the same time
    AdminOps,    \* requests administrators make
    Durations,   \* session lengths an administrator asks for
    MaxId,       \* bound: ids the server hands out
    MaxToken,    \* bound: tokens the server draws
    MaxTime,     \* bound: ticks of the clock
    MaxCrash     \* bound: crashes of the server process

ASSUME RegistryAssumption ==
    /\ NoMAC \notin MACs
    /\ Normalize \in [Spellings -> MACs \cup {NoMAC}]
    /\ AdminOps \subseteq {"lock", "unlock", "start", "end"}
    /\ Durations \subseteq Nat \ {0}
    /\ MaxId \in Nat
    /\ MaxToken \in Nat
    /\ MaxTime \in Nat
    /\ MaxCrash \in Nat

VARIABLES
    up,        \* the server process is running
    clients,   \* state.Clients
    states,    \* state.States
    byMAC,     \* state.byMAC
    byToken,   \* state.byToken
    seq,       \* state.seq
    disk,      \* the state file
    call,      \* the handlers: where each one is and what it holds
    clock,     \* server time
    minted,    \* tokens drawn so far, over all runs of the process
    crashes,   \* crashes so far
    issued,    \* credentials that reached a workstation
    acked      \* what the server last confirmed of each client's lock and timer

vars == <<up, clients, states, byMAC, byToken, seq, disk, call, clock,
          minted, crashes, issued, acked>>

memory == <<clients, states, byMAC, byToken, seq>>

Ids == 1..MaxId
Tokens == 1..MaxToken
Times == 0..MaxTime

\* Client: the identity of a workstation and when it was last heard of.
Client == [mac : MACs, token : Tokens, seen : Times]
NoClient == [mac |-> NoMAC, token |-> 0, seen |-> 0]

\* ClientState: present is FALSE where the States map has no entry.
ClientState == [present : BOOLEAN, locked : BOOLEAN, expires : Nat]
NoState == [present |-> FALSE, locked |-> FALSE, expires |-> 0]
NewState == [present |-> TRUE, locked |-> FALSE, expires |-> 0]

EmptyClients == [i \in Ids |-> NoClient]
EmptyStates == [i \in Ids |-> NoState]

\* What a handler is executing and what it has in its local variables.
Operations == {"none", "register", "heartbeat", "lock", "unlock", "start", "end"}
Points == {"idle", "call", "read", "enforce", "reply"}
Statuses == {"none", "ok", "failed", "unknown"}
Call == [pc : Points, op : Operations, mac : MACs \cup {NoMAC},
         tok : Tokens \cup {0}, id : Ids \cup {0}, span : Durations \cup {0},
         at : Times, view : ClientState, status : Statuses]
Idle == [pc |-> "idle", op |-> "none", mac |-> NoMAC, tok |-> 0, id |-> 0,
         span |-> 0, at |-> 0, view |-> NoState, status |-> "none"]

\* A credential as registerResponse carries it.
Credential == [mac : MACs, id : Ids, token : Tokens]

\* acked[i].lock is "any" until the server has confirmed one; timer likewise.
Acked == [lock : {"any", "locked", "unlocked"}, timed : BOOLEAN, timer : Nat]
NothingAcked == [lock |-> "any", timed |-> FALSE, timer |-> 0]

TypeOK ==
    /\ up \in BOOLEAN
    /\ clients \in [Ids -> Client \cup {NoClient}]
    /\ states \in [Ids -> ClientState]
    /\ byMAC \in [MACs -> Ids \cup {0}]
    /\ byToken \in [Tokens -> Ids \cup {0}]
    /\ seq \in 0..MaxId
    /\ disk \in [clients : [Ids -> Client \cup {NoClient}],
                 states : [Ids -> ClientState]]
    /\ call \in [Handlers -> Call]
    /\ clock \in Times
    /\ minted \in 0..MaxToken
    /\ crashes \in 0..MaxCrash
    /\ issued \in SUBSET Credential
    /\ acked \in [Ids -> Acked]

-----------------------------------------------------------------------------
(* newState on a missing file: everything empty. *)
Init ==
    /\ up = TRUE
    /\ clients = EmptyClients
    /\ states = EmptyStates
    /\ byMAC = [m \in MACs |-> 0]
    /\ byToken = [t \in Tokens |-> 0]
    /\ seq = 0
    /\ disk = [clients |-> EmptyClients, states |-> EmptyStates]
    /\ call = [h \in Handlers |-> Idle]
    /\ clock = 0
    /\ minted = 0
    /\ crashes = 0
    /\ issued = {}
    /\ acked = [i \in Ids |-> NothingAcked]

\* Mutant: the save is skipped.
Persist_Skipped(ok) == disk' = disk

\* persistLocked: the whole of Clients and States replaces the file, or the
\* write fails and the old file stays; memory is not rolled back either way.
Persist(ok) ==
    disk' = IF ok THEN [clients |-> clients', states |-> states'] ELSE disk

\* ClientState.Expired: strictly after the expiry of an active timer.
Expired(st, now) == st.expires # 0 /\ now > st.expires

\* The handler has its answer and will write it.
Answer(h, changes) == call' = [call EXCEPT ![h] = changes]

\* Mutant: the error of persistLocked is ignored.
Outcome_ErrorIgnored(ok) == "ok"

Outcome(ok) == IF ok THEN "ok" ELSE "failed"

\* States[id], created on the spot where the map has no entry.
Entry(i) == IF states[i].present THEN states[i] ELSE NewState

-----------------------------------------------------------------------------
(* A request arrives: the handler decodes and validates it and reads the    *)
(* clock, all before it asks for s.mu.                                       *)

\* Bound: ids and tokens are left for the registrations under way.
Room ==
    LET pending == Cardinality({g \in Handlers : call[g].op = "register"})
    IN seq + pending < MaxId /\ minted + pending < MaxToken

\* handleRegister: a spelling that does not normalize is answered 400.
BeginRegister(h, spelling) ==
    /\ up /\ call[h].pc = "idle"
    /\ Normalize[spelling] # NoMAC
    /\ byMAC[Normalize[spelling]] # 0 \/ Room
    /\ Answer(h, [Idle EXCEPT !.pc = "call", !.op = "register",
                              !.mac = Normalize[spelling], !.at = clock])
    /\ UNCHANGED <<up, memory, disk, clock, minted, crashes, issued, acked>>

\* handleHeartbeat with a token a workstation was given, or with a wrong one.
BeginHeartbeat(h, token) ==
    /\ up /\ call[h].pc = "idle"
    /\ Answer(h, [Idle EXCEPT !.pc = "call", !.op = "heartbeat",
                              !.tok = token, !.at = clock])
    /\ UNCHANGED <<up, memory, disk, clock, minted, crashes, issued, acked>>

\* handleClientItem (lock, unlock) and handleSession (start, end).
BeginAdmin(h, op, i, span) ==
    /\ up /\ call[h].pc = "idle"
    /\ IF op = "start" THEN span \in Durations ELSE span = 0
    /\ Answer(h, [Idle EXCEPT !.pc = "call", !.op = op, !.id = i,
                              !.span = span, !.at = clock])
    /\ UNCHANGED <<up, memory, disk, clock, minted, crashes, issued, acked>>

-----------------------------------------------------------------------------
(* state.Register *)

\* The MAC is known: the client is only touched.
RegisterExisting(h) ==
    /\ call[h].pc = "call" /\ call[h].op = "register"
    /\ byMAC[call[h].mac] # 0
    /\ LET i == byMAC[call[h].mac] IN
       \E ok \in BOOLEAN :
         /\ clients' = [clients EXCEPT ![i].seen = call[h].at]
         /\ UNCHANGED states
         /\ Persist(ok)
         /\ Answer(h, [call[h] EXCEPT !.pc = "reply", !.status = Outcome(ok),
                          !.id = i, !.tok = clients[i].token])
    /\ UNCHANGED <<up, byMAC, byToken, seq, clock, minted, crashes, issued, acked>>

\* Mutant: the new client is not entered in byMAC.
RegisterNew_NotIndexed(h) ==
    /\ call[h].pc = "call" /\ call[h].op = "register"
    /\ byMAC[call[h].mac] = 0
    /\ seq < MaxId /\ minted < MaxToken
    /\ \E ok \in BOOLEAN :
         /\ seq' = seq + 1
         /\ minted' = minted + 1
         /\ clients' = [clients EXCEPT ![seq + 1] =
                [mac |-> call[h].mac, token |-> minted + 1, seen |-> call[h].at]]
         /\ byToken' = [byToken EXCEPT ![minted + 1] = seq + 1]
         /\ states' = [states EXCEPT ![seq + 1] = Entry(seq + 1)]
         /\ Persist(ok)
         /\ Answer(h, [call[h] EXCEPT !.pc = "reply", !.status = Outcome(ok),
                          !.id = seq + 1, !.tok = minted + 1])
    /\ UNCHANGED <<up, byMAC, clock, crashes, issued, acked>>

\* A new MAC: the next id, a fresh token, the record and both indexes.
RegisterNew(h) ==
    /\ call[h].pc = "call" /\ call[h].op = "register"
    /\ byMAC[call[h].mac] = 0
    /\ seq < MaxId /\ minted < MaxToken
    /\ LET i == seq + 1
           t == minted + 1
       IN \E ok \in BOOLEAN :
         /\ seq' = i
         /\ minted' = t
         /\ clients' = [clients EXCEPT ![i] =
                          [mac |-> call[h].mac, token |-> t, seen |-> call[h].at]]
         /\ byMAC' = [byMAC EXCEPT ![call[h].mac] = i]
         /\ byToken' = [byToken EXCEPT ![t] = i]
         /\ states' = [states EXCEPT ![i] = Entry(i)]
         /\ Persist(ok)
         /\ Answer(h, [call[h] EXCEPT !.pc = "reply", !.status = Outcome(ok),
                          !.id = i, !.tok = t])
    /\ UNCHANGED <<up, clock, crashes, issued, acked>>

\* generateToken fails after the sequence number was taken.
RegisterNoToken(h) ==
    /\ call[h].pc = "call" /\ call[h].op = "register"
    /\ byMAC[call[h].mac] = 0
    /\ seq < MaxId
    /\ seq' = seq + 1
    /\ Answer(h, [call[h] EXCEPT !.pc = "reply", !.status = "failed"])
    /\ UNCHANGED <<up, clients, states, byMAC, byToken, disk, clock, minted,
                   crashes, issued, acked>>

-----------------------------------------------------------------------------
(* handleHeartbeat: three critical sections *)

\* state.Heartbeat: a token no client has is refused; otherwise the client is
\* touched and the state saved, and the handler goes on only if that worked.
Heartbeat(h) ==
    /\ call[h].pc = "call" /\ call[h].op = "heartbeat"
    /\ LET i == IF call[h].tok = 0 THEN 0 ELSE byToken[call[h].tok] IN
       \/ /\ i = 0
          /\ Answer(h, [call[h] EXCEPT !.pc = "reply", !.status = "unknown"])
          /\ UNCHANGED <<clients, states, disk>>
       \/ /\ i # 0
          /\ \E ok \in BOOLEAN :
               /\ clients' = [clients EXCEPT ![i].seen = call[h].at]
               /\ UNCHANGED states
               /\ Persist(ok)
               /\ Answer(h, IF ok THEN [call[h] EXCEPT !.pc = "read", !.id = i]
                            ELSE [call[h] EXCEPT !.pc = "reply", !.status = "failed"])
    /\ UNCHANGED <<up, byMAC, byToken, seq, clock, minted, crashes, issued, acked>>

\* Mutant: an elapsed timer is not looked at.
GetState_NoExpiry(h) ==
    /\ call[h].pc = "read"
    /\ Answer(h, [call[h] EXCEPT !.pc = "reply", !.view = states[call[h].id],
                                 !.status = "ok"])
    /\ UNCHANGED <<up, memory, disk, clock, minted, crashes, issued, acked>>

\* state.GetState, then the test of the copy against the time read at the
\* start of the request.
GetState(h) ==
    /\ call[h].pc = "read"
    /\ LET st == states[call[h].id] IN
       Answer(h, IF Expired(st, call[h].at) /\ ~st.locked
                 THEN [call[h] EXCEPT !.pc = "enforce", !.view = st]
                 ELSE [call[h] EXCEPT !.pc = "reply", !.status = "ok", !.view = st])
    /\ UNCHANGED <<up, memory, disk, clock, minted, crashes, issued, acked>>

\* state.SetLock(id, true, "session expired"): on success the answer carries
\* the new state, on failure the handler drops the error and answers 200 with
\* the copy it read before.
Enforce(h) ==
    /\ call[h].pc = "enforce"
    /\ LET i == call[h].id
           st == [Entry(i) EXCEPT !.locked = TRUE]
       IN \E ok \in BOOLEAN :
         /\ states' = [states EXCEPT ![i] = st]
         /\ UNCHANGED clients
         /\ Persist(ok)
         /\ Answer(h, [call[h] EXCEPT !.pc = "reply", !.status = "ok",
                          !.view = IF ok THEN st ELSE call[h].view])
         /\ acked' = [acked EXCEPT ![i].lock = IF ok THEN "locked" ELSE "any"]
    /\ UNCHANGED <<up, byMAC, byToken, seq, clock, minted, crashes, issued>>

-----------------------------------------------------------------------------
(* Administration *)

\* SetLock, StartSession and EndSession of an id that is not in Clients.
AdminUnknown(h) ==
    /\ call[h].pc = "call" /\ call[h].op \in {"lock", "unlock", "start", "end"}
    /\ clients[call[h].id] = NoClient
    /\ Answer(h, [call[h] EXCEPT !.pc = "reply", !.status = "unknown"])
    /\ UNCHANGED <<up, memory, disk, clock, minted, crashes, issued, acked>>

\* state.SetLock from the lock and unlock endpoints.
SetLock(h) ==
    /\ call[h].pc = "call" /\ call[h].op \in {"lock", "unlock"}
    /\ clients[call[h].id] # NoClient
    /\ LET i == call[h].id
           locked == call[h].op = "lock"
           st == [Entry(i) EXCEPT !.locked = locked]
       IN \E ok \in BOOLEAN :
         /\ states' = [states EXCEPT ![i] = st]
         /\ UNCHANGED clients
         /\ Persist(ok)
         /\ Answer(h, [call[h] EXCEPT !.pc = "reply", !.status = Outcome(ok),
                          !.view = IF ok THEN st ELSE NoState])
         /\ acked' = [acked EXCEPT ![i].lock =
                        IF ~ok THEN "any" ELSE IF locked THEN "locked" ELSE "unlocked"]
    /\ UNCHANGED <<up, byMAC, byToken, seq, clock, minted, crashes, issued>>

\* state.StartSession and state.EndSession: the timer only, never the lock.
\* The expiry counts from the time the handler read before it got s.mu.
SetTimer(h) ==
    /\ call[h].pc = "call" /\ call[h].op \in {"start", "end"}
    /\ clients[call[h].id] # NoClient
    /\ LET i == call[h].id
           expires == IF call[h].op = "start" THEN call[h].at + call[h].span ELSE 0
           st == [Entry(i) EXCEPT !.expires = expires]
       IN \E ok \in BOOLEAN :
         /\ states' = [states EXCEPT ![i] = st]
         /\ UNCHANGED clients
         /\ Persist(ok)
         /\ Answer(h, [call[h] EXCEPT !.pc = "reply", !.status = Outcome(ok),
                          !.view = IF ok THEN st ELSE NoState])
         /\ acked' = [acked EXCEPT ![i].timed = ok,
                                   ![i].timer = IF ok THEN expires ELSE 0]
    /\ UNCHANGED <<up, byMAC, byToken, seq, clock, minted, crashes, issued>>

-----------------------------------------------------------------------------
\* Mutant: handleRegister answers with whatever Register returned.
Reply_ErrorIgnored(h) ==
    /\ call[h].pc = "reply"
    /\ issued' = IF call[h].op = "register"
                 THEN issued \cup {[mac |-> call[h].mac, id |-> call[h].id,
                                    token |-> call[h].tok]}
                 ELSE issued
    /\ call' = [call EXCEPT ![h] = Idle]
    /\ UNCHANGED <<up, memory, disk, clock, minted, crashes, acked>>

\* The answer is written; a registration that succeeded reaches its workstation.
Reply(h) ==
    /\ call[h].pc = "reply"
    /\ issued' = IF call[h].op = "register" /\ call[h].status = "ok"
                 THEN issued \cup {[mac |-> call[h].mac, id |-> call[h].id,
                                    token |-> call[h].tok]}
                 ELSE issued
    /\ call' = [call EXCEPT ![h] = Idle]
    /\ UNCHANGED <<up, memory, disk, clock, minted, crashes, acked>>

Tick ==
    /\ clock < MaxTime
    /\ clock' = clock + 1
    /\ UNCHANGED <<up, memory, disk, call, minted, crashes, issued, acked>>

\* The process stops: nothing but the file is left, requests in flight vanish.
Crash ==
    /\ up
    /\ crashes < MaxCrash
    /\ crashes' = crashes + 1
    /\ up' = FALSE
    /\ clients' = EmptyClients
    /\ states' = EmptyStates
    /\ byMAC' = [m \in MACs |-> 0]
    /\ byToken' = [t \in Tokens |-> 0]
    /\ seq' = 0
    /\ call' = [h \in Handlers |-> Idle]
    /\ UNCHANGED <<disk, clock, minted, issued, acked>>

\* rebuildIndexes: the client found under a key, if there is one.
IndexOf(holders) == IF holders = {} THEN 0 ELSE CHOOSE i \in holders : TRUE

HasMAC(c, m) == c.mac = m

\* Mutant: the tokens are not indexed again after a restart.
HasToken_NotIndexed(c, t) == FALSE

HasToken(c, t) == c.token = t

\* Mutant: numbering starts afresh after a restart.
IsHighest_Zero(n, cs) == n = 0

\* idSeq over the loaded ids: the highest one in use.
IsHighest(n, cs) ==
    /\ n = 0 \/ cs[n] # NoClient
    /\ \A i \in Ids : cs[i] # NoClient => i <= n

\* newState: load the file and rebuild what it does not hold.
Restart ==
    /\ ~up
    /\ up' = TRUE
    /\ clients' = disk.clients
    /\ states' = disk.states
    /\ byMAC' = [m \in MACs |-> IndexOf({i \in Ids : HasMAC(disk.clients[i], m)})]
    /\ byToken' = [t \in Tokens |-> IndexOf({i \in Ids : HasToken(disk.clients[i], t)})]
    /\ seq' \in {n \in 0..MaxId : IsHighest(n, disk.clients)}
    /\ UNCHANGED <<disk, call, clock, minted, crashes, issued, acked>>

-----------------------------------------------------------------------------
Arrival(h) ==
    \/ \E s \in Spellings : BeginRegister(h, s)
    \/ \E t \in {c.token : c \in issued} \cup {0} : BeginHeartbeat(h, t)
    \/ \E op \in AdminOps, i \in Ids,
          span \in Durations \cup {0} : BeginAdmin(h, op, i, span)

Step(h) ==
    \/ RegisterExisting(h) \/ RegisterNew(h) \/ RegisterNoToken(h)
    \/ Heartbeat(h) \/ GetState(h) \/ Enforce(h)
    \/ AdminUnknown(h) \/ SetLock(h) \/ SetTimer(h)
    \/ Reply(h)

Next ==
    \/ \E h \in Handlers : Arrival(h) \/ Step(h)
    \/ Tick
    \/ Crash
    \/ Restart

Spec == Init /\ [][Next]_vars

(***************************************************************************)
(* Goroutines run and sync.Mutex hands itself over, so every handler goes  *)
(* on; the service manager restarts the process; every enrolled            *)
(* workstation keeps sending heartbeats, however often the handler slots   *)
(* of the model are taken by other requests; and the disk does not refuse  *)
(* every save for ever.                                                    *)
(***************************************************************************)
BeatOf(t) ==
    /\ \E c \in issued : c.token = t
    /\ \E h \in Handlers : BeginHeartbeat(h, t)

Fairness ==
    /\ \A h \in Handlers : WF_vars(Step(h))
    /\ WF_vars(Restart)
    /\ \A t \in Tokens : SF_vars(BeatOf(t))
    /\ \A h \in Handlers : SF_vars(Heartbeat(h) /\ call'[h].pc = "read")

FairSpec == Spec /\ Fairness

-----------------------------------------------------------------------------
(* Properties *)

\* No MAC address and no token belongs to two clients, in memory or in the
\* state file: Register looks the MAC up before it adds one, and a failed save
\* or a restart must not make it forget one.
OneClientPerMAC ==
    \A cs \in {clients, disk.clients} : \A i, j \in Ids :
        i # j /\ cs[i] # NoClient /\ cs[j] # NoClient =>
            cs[i].mac # cs[j].mac /\ cs[i].token # cs[j].token

\* byMAC and byToken are exactly the inverses of Clients while the server runs,
\* whether they were kept up by Register or rebuilt by rebuildIndexes.
IndexesAgree ==
    up => /\ \A i \in Ids : clients[i] # NoClient =>
                 byMAC[clients[i].mac] = i /\ byToken[clients[i].token] = i
          /\ \A m \in MACs : byMAC[m] # 0 => clients[byMAC[m]].mac = m
          /\ \A t \in Tokens : byToken[t] # 0 => clients[byToken[t]].token = t

\* A credential that reached a workstation is in the state file under its id:
\* Register answers only what it has saved, and nothing later drops it.
IssuedDurable ==
    \A c \in issued : /\ disk.clients[c.id].mac = c.mac
                      /\ disk.clients[c.id].token = c.token

\* A heartbeat with a token the server has issued is never answered "unknown
\* client token", across failed saves and restarts.
IssuedAccepted ==
    \A h \in Handlers :
        call[h].op = "heartbeat" /\ call[h].status = "unknown" =>
            \A c \in issued : c.token # call[h].tok

\* What the server last confirmed of a lock or of a session timer is what it
\* holds in memory and what the state file says, so that a restart keeps it;
\* only a later request for that client that could not be saved lifts this.
AckedHolds ==
    \A i \in Ids : \A st \in {disk.states[i]} \cup (IF up THEN {states[i]} ELSE {}) :
        /\ acked[i].lock # "any" => st.locked = (acked[i].lock = "locked")
        /\ acked[i].timed => st.expires = acked[i].timer

\* Seen by the workstations the registry is the enrolment directory.
Directory == INSTANCE Enrolment
EnrolmentRefined == Directory!Spec

\* A heartbeat answered 200 for a session whose timer has elapsed says locked
\* ("If a session has elapsed, the next heartbeat reports the client locked").
ExpiredReportsLocked ==
    \A h \in Handlers :
        /\ call[h].op = "heartbeat" /\ call[h].pc = "reply" /\ call[h].status = "ok"
        /\ Expired(call[h].view, call[h].at)
        => call[h].view.locked

\* While its workstation sends heartbeats, a client whose timer has elapsed ends
\* up locked, unless an administrator starts or ends a session first: a save
\* that fails, a crash or an unlock only postpones it.
ExpiryEnforced ==
    \A c \in Directory!Credential :
        (c \in issued /\ up /\ ~states[c.id].locked /\ Expired(states[c.id], clock))
            ~> (up /\ (states[c.id].locked \/ ~Expired(states[c.id], clock)))
=============================================================================

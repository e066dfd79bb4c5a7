------------------------ MODULE ClientRegistryProofs ------------------------
(***************************************************************************)
(* Proofs about ClientRegistry, for every set of workstations, handlers    *)
(* and requests and for every bound.                                       *)
(***************************************************************************)
EXTENDS ClientRegistry, TLAPS


(***************************************************************************)
(* What the handlers rely on between their steps: only a running server    *)
(* has requests in flight, and a request carries what its operation needs. *)
(***************************************************************************)
CallSound(c) ==
    /\ c.pc \in {"call", "read", "enforce"} => c.status = "none"
    /\ c.pc = "call" /\ c.op = "register" => c.mac \in MACs
    /\ c.pc = "call" /\ c.op \in {"lock", "unlock", "start", "end"} => c.id \in Ids
    /\ c.pc \in {"read", "enforce"} => c.id \in Ids /\ c.op = "heartbeat"
    /\ c.op = "register" /\ c.status = "ok" =>
          c.mac \in MACs /\ c.id \in Ids /\ c.tok \in Tokens

CallsSound == \A h \in Handlers : (call[h].pc # "idle" => up) /\ CallSound(call[h])

Typed == TypeOK /\ CallsSound

-----------------------------------------------------------------------------
(* Handler records *)

LEMMA IdleIsCall ==
    /\ Idle \in Call /\ CallSound(Idle)
    /\ Idle.pc = "idle" /\ Idle.op = "none" /\ Idle.status = "none" /\ Idle.tok = 0
  BY RegistryAssumption
  DEF Idle, Call, CallSound, Points, Operations, Statuses, NoState, ClientState, Times

\* A handler that moves on with a well-formed record leaves all of them so.
LEMMA AnswerSound ==
    ASSUME Typed, up', NEW h \in Handlers, NEW r \in Call, CallSound(r), Answer(h, r)
    PROVE  call' \in [Handlers -> Call] /\ CallsSound'
  BY DEF Typed, TypeOK, CallsSound, Answer, CallSound

\* What a handler's record becomes when it answers or goes on: the fields of
\* the answer change, the operation does not.
LEMMA Refusals == "failed" \in {"failed", "unknown"} /\ "unknown" \in {"failed", "unknown"}
  OBVIOUS

LEMMA ReplyRecord ==
    ASSUME NEW c \in Call, NEW s \in {"failed", "unknown"}
    PROVE  LET r == [c EXCEPT !.pc = "reply", !.status = s]
           IN r \in Call /\ CallSound(r)
  BY ZenonT(30) DEF Call, Points, Statuses, CallSound

LEMMA CredentialRecord ==
    ASSUME NEW c \in Call, NEW s \in Statuses, NEW i \in Ids, NEW t \in Tokens,
           c.mac \in MACs
    PROVE  LET r == [c EXCEPT !.pc = "reply", !.status = s, !.id = i, !.tok = t]
           IN r \in Call /\ CallSound(r)
  BY Zenon DEF Call, Points, CallSound

LEMMA ViewRecord ==
    ASSUME NEW c \in Call, NEW s \in Statuses, NEW v \in ClientState,
           c.op # "register"
    PROVE  LET r == [c EXCEPT !.pc = "reply", !.status = s, !.view = v]
           IN r \in Call /\ CallSound(r)
  BY Zenon DEF Call, Points, CallSound

LEMMA ReadRecord ==
    ASSUME NEW c \in Call, NEW i \in Ids, c.op = "heartbeat", c.status = "none"
    PROVE  LET r == [c EXCEPT !.pc = "read", !.id = i]
           IN r \in Call /\ CallSound(r)
  BY Zenon DEF Call, Points, CallSound

LEMMA EnforceRecord ==
    ASSUME NEW c \in Call, NEW v \in ClientState, c.op = "heartbeat", c.id \in Ids,
           c.status = "none"
    PROVE  LET r == [c EXCEPT !.pc = "enforce", !.view = v]
           IN r \in Call /\ CallSound(r)
  BY Zenon DEF Call, Points, CallSound

\* The three registry records the actions write.
LEMMA NewRecords ==
    /\ \A c \in Client \cup {NoClient}, x \in Times :
          c # NoClient => [c EXCEPT !.seen = x] \in Client
    /\ NewState \in ClientState /\ NoState \in ClientState
    /\ \A st \in ClientState, b \in BOOLEAN, n \in Nat :
          /\ [st EXCEPT !.locked = b] \in ClientState
          /\ [st EXCEPT !.expires = n] \in ClientState
  BY Zenon DEF Client, NoClient, ClientState, NewState, NoState

\* The records of requests that have just arrived.
LEMMA FreshRegister ==
    ASSUME NEW m \in MACs, NEW x \in Times
    PROVE  LET r == [Idle EXCEPT !.pc = "call", !.op = "register", !.mac = m, !.at = x]
           IN r \in Call /\ CallSound(r)
  BY IdleIsCall, ZenonT(30) DEF Call, CallSound, Points, Operations

LEMMA FreshHeartbeat ==
    ASSUME NEW t \in Tokens \cup {0}, NEW x \in Times
    PROVE  LET r == [Idle EXCEPT !.pc = "call", !.op = "heartbeat", !.tok = t, !.at = x]
           IN r \in Call /\ CallSound(r)
  BY IdleIsCall, ZenonT(30) DEF Call, CallSound, Points, Operations

LEMMA FreshAdmin ==
    ASSUME NEW op \in AdminOps, NEW i \in Ids, NEW span \in Durations \cup {0},
           NEW x \in Times
    PROVE  LET r == [Idle EXCEPT !.pc = "call", !.op = op, !.id = i, !.span = span,
                                 !.at = x]
           IN r \in Call /\ CallSound(r)
  BY IdleIsCall, RegistryAssumption, ZenonT(30) DEF Call, CallSound, Points, Operations

-----------------------------------------------------------------------------
(* Types.  Register and Heartbeat follow the indexes into Clients, so that   *)
(* the types depend on the indexes pointing at clients that exist.           *)

LEMMA KnownClient ==
    ASSUME NEW c \in Client \cup {NoClient}
    PROVE  /\ c # NoClient <=> c \in Client
           /\ c # NoClient <=> c.mac \in MACs
           /\ c # NoClient <=> c.token \in Tokens
           /\ c.token \in Tokens \cup {0}
  BY RegistryAssumption DEF Client, NoClient, Tokens

LEMMA InitTyped == Init => Typed
  <1> SUFFICES ASSUME Init PROVE Typed
    OBVIOUS
  <1>1. TypeOK
    BY IdleIsCall, RegistryAssumption
    DEF Init, TypeOK, EmptyClients, EmptyStates, NoState, ClientState, Times,
        NothingAcked, Acked
  <1>2. CallsSound
    BY IdleIsCall, Zenon DEF Init, CallsSound
  <1> QED
    BY <1>1, <1>2, Zenon DEF Typed

\* A request that arrives changes nothing but its handler.
LEMMA ArrivalTyped ==
    ASSUME Typed, NEW h \in Handlers, Arrival(h)
    PROVE  Typed'
  <1> USE RegistryAssumption
  <1>0. clock \in Times
    BY Zenon DEF Typed, TypeOK
  <1>1. PICK r \in Call : up /\ CallSound(r) /\ Answer(h, r)
    <2>1. ASSUME NEW s \in Spellings, BeginRegister(h, s)
          PROVE  \E r \in Call : up /\ CallSound(r) /\ Answer(h, r)
      <3>1. Normalize[s] \in MACs
        BY <2>1, Zenon DEF BeginRegister
      <3> QED
        BY <1>0, <2>1, <3>1, FreshRegister, Zenon DEF BeginRegister
    <2>2. ASSUME NEW t \in {c.token : c \in issued} \cup {0}, BeginHeartbeat(h, t)
          PROVE  \E r \in Call : up /\ CallSound(r) /\ Answer(h, r)
      <3>1. t \in Tokens \cup {0}
        BY <2>2 DEF Typed, TypeOK, Credential
      <3> QED
        BY <1>0, <2>2, <3>1, FreshHeartbeat, Zenon DEF BeginHeartbeat
    <2>3. ASSUME NEW op \in AdminOps, NEW i \in Ids, NEW span \in Durations \cup {0},
                 BeginAdmin(h, op, i, span)
          PROVE  \E r \in Call : up /\ CallSound(r) /\ Answer(h, r)
      BY <1>0, <2>3, FreshAdmin, ZenonT(30) DEF BeginAdmin
    <2> QED
      BY <2>1, <2>2, <2>3, Zenon DEF Arrival
  <1>2. UNCHANGED <<up, memory, disk, clock, minted, crashes, issued, acked>>
    BY Zenon DEF Arrival, BeginRegister, BeginHeartbeat, BeginAdmin
  <1> QED
    BY <1>1, <1>2, AnswerSound, Zenon DEF Typed, TypeOK, memory

LEMMA StepTyped ==
    ASSUME Typed, IndexesAgree, NEW h \in Handlers, Step(h)
    PROVE  Typed'
  <1> USE RegistryAssumption
  <1>0. call[h] \in Call /\ CallSound(call[h]) /\ TypeOK /\ (call[h].pc # "idle" => up)
    BY Zenon DEF Typed, TypeOK, CallsSound
  <1>a. call[h].at \in Times /\ call[h].view \in ClientState /\ call[h].span \in Nat
    <2>1. call[h].span \in Durations \cup {0} /\ call[h].at \in Times
          /\ call[h].view \in ClientState
      BY <1>0, Zenon DEF Call
    <2>2. Durations \cup {0} \subseteq Nat
      BY RegistryAssumption
    <2> QED
      BY <2>1, <2>2, Zenon
  <1>b. \A i \in Ids : Entry(i) \in ClientState
    BY <1>0, NewRecords, Zenon DEF Entry, TypeOK
  <1>c. \A ok \in BOOLEAN : Outcome(ok) \in Statuses
    BY Zenon DEF Outcome, Statuses
  <1>1. ASSUME NEW r \in Call, CallSound(r), Answer(h, r), up, up' = up,
               clients' \in [Ids -> Client \cup {NoClient}],
               states' \in [Ids -> ClientState],
               byMAC' \in [MACs -> Ids \cup {0}],
               byToken' \in [Tokens -> Ids \cup {0}],
               seq' \in 0..MaxId,
               \/ disk' = disk
               \/ disk' = [clients |-> clients', states |-> states'],
               clock' = clock, minted' \in 0..MaxToken, crashes' = crashes,
               issued' \in SUBSET Credential, acked' \in [Ids -> Acked]
        PROVE  Typed'
    BY <1>1, AnswerSound DEF Typed, TypeOK
  <1>d. call[h].pc = "call" /\ call[h].op = "register" => call[h].mac \in MACs
    BY <1>0, Zenon DEF CallSound
  <1>2. CASE RegisterExisting(h)
    <2>1. PICK i \in Ids, ok \in BOOLEAN :
            /\ i = byMAC[call[h].mac]
            /\ clients' = [clients EXCEPT ![i].seen = call[h].at]
            /\ UNCHANGED states
            /\ Persist(ok)
            /\ Answer(h, [call[h] EXCEPT !.pc = "reply", !.status = Outcome(ok),
                                         !.id = i, !.tok = clients[i].token])
      BY <1>0, <1>2, ZenonT(30) DEF RegisterExisting, CallSound, TypeOK
    <2>2. up /\ clients[i] \in Client
      BY <1>0, <1>2, <2>1, KnownClient, Zenon DEF RegisterExisting, CallSound, TypeOK, IndexesAgree
    <2>3. clients[i].token \in Tokens /\ [clients[i] EXCEPT !.seen = call[h].at] \in Client
      BY <1>a, <2>2, Zenon DEF Client
    <2>4. clients' \in [Ids -> Client \cup {NoClient}]
      BY <1>0, <2>1, <2>3, Zenon DEF TypeOK
    <2>5. PICK r \in Call : CallSound(r) /\ Answer(h, r)
      BY <1>0, <1>2, <1>c, <1>d, <2>1, <2>3, CredentialRecord, Zenon DEF RegisterExisting
    <2> QED
      BY <1>0, <1>1, <1>2, <2>1, <2>2, <2>4, <2>5, ZenonT(30) DEF RegisterExisting, TypeOK, Persist
  <1>3. CASE RegisterNew(h)
    <2>1. PICK i \in Ids, t \in Tokens, ok \in BOOLEAN :
            /\ i = seq + 1 /\ t = minted + 1
            /\ clients' = [clients EXCEPT ![i] =
                 [mac |-> call[h].mac, token |-> t, seen |-> call[h].at]]
            /\ byMAC' = [byMAC EXCEPT ![call[h].mac] = i]
            /\ byToken' = [byToken EXCEPT ![t] = i]
            /\ states' = [states EXCEPT ![i] = Entry(i)]
            /\ Persist(ok)
            /\ Answer(h, [call[h] EXCEPT !.pc = "reply", !.status = Outcome(ok),
                                         !.id = i, !.tok = t])
      <3>1. seq + 1 \in Ids /\ minted + 1 \in Tokens
        BY <1>0, <1>3, SMTT(30) DEF RegisterNew, TypeOK, Ids, Tokens
      <3>2. PICK ok \in BOOLEAN :
            /\ clients' = [clients EXCEPT ![seq + 1] =
                 [mac |-> call[h].mac, token |-> minted + 1, seen |-> call[h].at]]
            /\ byMAC' = [byMAC EXCEPT ![call[h].mac] = seq + 1]
            /\ byToken' = [byToken EXCEPT ![minted + 1] = seq + 1]
            /\ states' = [states EXCEPT ![seq + 1] = Entry(seq + 1)]
            /\ Persist(ok)
            /\ Answer(h, [call[h] EXCEPT !.pc = "reply", !.status = Outcome(ok),
                                         !.id = seq + 1, !.tok = minted + 1])
        BY <1>3, Zenon DEF RegisterNew
      <3> QED
        BY <3>1, <3>2, ZenonT(30)
    <2>2. up /\ call[h].mac \in MACs
      BY <1>0, <1>3, Zenon DEF RegisterNew, CallSound
    <2>3. clients' \in [Ids -> Client \cup {NoClient}]
      BY <1>0, <1>a, <2>1, <2>2, Zenon DEF TypeOK, Client
    <2>4. /\ states' \in [Ids -> ClientState]
          /\ byMAC' \in [MACs -> Ids \cup {0}]
          /\ byToken' \in [Tokens -> Ids \cup {0}]
          /\ seq' \in 0..MaxId /\ minted' \in 0..MaxToken
      <3>1. seq' = seq + 1 /\ minted' = minted + 1 /\ seq < MaxId /\ minted < MaxToken
        BY <1>3, Zenon DEF RegisterNew
      <3>2. seq' \in 0..MaxId /\ minted' \in 0..MaxToken
        BY <1>0, <3>1 DEF TypeOK
      <3> QED
        BY <1>0, <1>b, <2>1, <3>2, Zenon DEF TypeOK
    <2>5. PICK r \in Call : CallSound(r) /\ Answer(h, r)
      BY <1>0, <1>c, <2>1, <2>2, CredentialRecord, Zenon
    <2> QED
      BY <1>0, <1>1, <1>3, <2>1, <2>2, <2>3, <2>4, <2>5, Zenon DEF RegisterNew, TypeOK, Persist
  <1>4. CASE RegisterNoToken(h)
    <2>1. PICK r \in Call : CallSound(r) /\ Answer(h, r)
      BY <1>0, <1>4, Refusals, ReplyRecord, Zenon DEF RegisterNoToken
    <2>2. up /\ seq' \in 0..MaxId
      BY <1>0, <1>4 DEF RegisterNoToken, TypeOK
    <2> QED
      BY <1>0, <1>1, <1>4, <2>1, <2>2, Zenon DEF RegisterNoToken, TypeOK
  <1>5. CASE Heartbeat(h)
    <2> DEFINE i == IF call[h].tok = 0 THEN 0 ELSE byToken[call[h].tok]
    <2>1. up /\ call[h].op = "heartbeat" /\ call[h].status = "none" /\ i \in Ids \cup {0}
      BY <1>0, <1>5, Zenon DEF Heartbeat, TypeOK, Call, CallSound
    <2>2. CASE i = 0
      <3>1. /\ Answer(h, [call[h] EXCEPT !.pc = "reply", !.status = "unknown"])
            /\ UNCHANGED <<clients, states, disk>>
        BY <1>5, <2>2, Zenon DEF Heartbeat
      <3>2. PICK r \in Call : CallSound(r) /\ Answer(h, r)
        BY <1>0, <3>1, Refusals, ReplyRecord, Zenon
      <3> QED
        BY <1>0, <1>1, <1>5, <2>1, <3>1, <3>2, Zenon DEF Heartbeat, TypeOK
    <2>3. CASE i # 0
      <3>1. PICK ok \in BOOLEAN :
              /\ clients' = [clients EXCEPT ![i].seen = call[h].at]
              /\ UNCHANGED states
              /\ Persist(ok)
              /\ Answer(h, IF ok THEN [call[h] EXCEPT !.pc = "read", !.id = i]
                           ELSE [call[h] EXCEPT !.pc = "reply", !.status = "failed"])
        BY <1>5, <2>3, Zenon DEF Heartbeat
      <3>2. i \in Ids /\ clients[i] \in Client
        BY <1>0, <2>1, <2>3, KnownClient DEF TypeOK, IndexesAgree, Call
      <3> HIDE DEF i
      <3>3. clients' \in [Ids -> Client \cup {NoClient}]
        <4>1. [clients[i] EXCEPT !.seen = call[h].at] \in Client
          BY <1>a, <3>2, Zenon DEF Client
        <4> QED
          BY <1>0, <3>1, <3>2, <4>1, Zenon DEF TypeOK
      <3>4. PICK r \in Call : CallSound(r) /\ Answer(h, r)
        <4>1. CASE ok
          BY <1>0, <2>1, <3>1, <3>2, <4>1, ReadRecord, Zenon
        <4>2. CASE ~ok
          BY <1>0, <3>1, <4>2, Refusals, ReplyRecord, Zenon
        <4> QED
          BY <4>1, <4>2, Zenon
      <3> QED
        <4>1. UNCHANGED <<up, byMAC, byToken, seq, clock, minted, crashes, issued, acked>>
          BY <1>5, Zenon DEF Heartbeat
        <4>2. disk' = disk \/ disk' = [clients |-> clients', states |-> states']
          BY <3>1, Zenon DEF Persist
        <4>3. /\ states \in [Ids -> ClientState] /\ byMAC \in [MACs -> Ids \cup {0}]
              /\ byToken \in [Tokens -> Ids \cup {0}] /\ seq \in 0..MaxId
              /\ minted \in 0..MaxToken /\ issued \in SUBSET Credential
              /\ acked \in [Ids -> Acked]
          BY <1>0, Zenon DEF TypeOK
        <4> QED
          BY <1>1, <2>1, <3>1, <3>3, <3>4, <4>1, <4>2, <4>3, Zenon
    <2> QED
      BY <2>2, <2>3, Zenon
  <1>6. CASE GetState(h)
    <2> DEFINE st == states[call[h].id]
    <2>1. up /\ call[h].id \in Ids /\ call[h].op = "heartbeat" /\ call[h].status = "none"
          /\ st \in ClientState
      BY <1>0, <1>6, Zenon DEF GetState, CallSound, TypeOK
    <2>2. \/ Answer(h, [call[h] EXCEPT !.pc = "enforce", !.view = st])
          \/ Answer(h, [call[h] EXCEPT !.pc = "reply", !.status = "ok", !.view = st])
      BY <1>6, Zenon DEF GetState
    <2>3. "ok" \in Statuses /\ call[h].op # "register"
      BY <2>1, Zenon DEF Statuses
    <2> HIDE DEF st
    <2>4. PICK r \in Call : CallSound(r) /\ Answer(h, r)
      BY <1>0, <2>1, <2>2, <2>3, ViewRecord, EnforceRecord, Zenon
    <2> QED
      BY <1>0, <1>1, <1>6, <2>1, <2>4, Zenon DEF GetState, TypeOK, memory
  <1>e. \A a \in Acked, x \in {"any", "locked", "unlocked"}, b \in BOOLEAN, n \in Nat :
          /\ [a EXCEPT !.lock = x] \in Acked
          /\ [a EXCEPT !.timed = b, !.timer = n] \in Acked
    BY Zenon DEF Acked
  <1>7. CASE Enforce(h)
    <2> DEFINE i == call[h].id
               st == [Entry(i) EXCEPT !.locked = TRUE]
    <2>1. up /\ i \in Ids /\ call[h].op # "register" /\ st \in ClientState
      BY <1>0, <1>7, <1>b, NewRecords, Zenon DEF Enforce, CallSound
    <2>2. PICK ok \in BOOLEAN :
            /\ states' = [states EXCEPT ![i] = st]
            /\ UNCHANGED clients
            /\ Persist(ok)
            /\ Answer(h, [call[h] EXCEPT !.pc = "reply", !.status = "ok",
                              !.view = IF ok THEN st ELSE call[h].view])
            /\ acked' = [acked EXCEPT ![i].lock = IF ok THEN "locked" ELSE "any"]
      BY <1>7, Zenon DEF Enforce
    <2> HIDE DEF st, i
    <2>3. "ok" \in Statuses /\ (IF ok THEN st ELSE call[h].view) \in ClientState
      BY <1>a, <2>1, Zenon DEF Statuses
    <2>4. PICK r \in Call : CallSound(r) /\ Answer(h, r)
      BY <1>0, <2>1, <2>2, <2>3, ViewRecord, Zenon
    <2>5. states' \in [Ids -> ClientState] /\ acked' \in [Ids -> Acked]
      BY <1>0, <1>e, <2>1, <2>2, Zenon DEF TypeOK
    <2> QED
      BY <1>0, <1>1, <1>7, <2>1, <2>2, <2>4, <2>5, Zenon DEF Enforce, TypeOK, Persist
  <1>8. CASE AdminUnknown(h)
    <2>2. PICK r \in Call : CallSound(r) /\ Answer(h, r)
      BY <1>0, <1>8, Refusals, ReplyRecord, Zenon DEF AdminUnknown
    <2>3. up
      BY <1>0, <1>8, Zenon DEF AdminUnknown
    <2> QED
      BY <1>0, <1>1, <1>8, <2>2, <2>3, Zenon DEF AdminUnknown, TypeOK, memory
  <1>9. CASE SetLock(h)
    <2> DEFINE i == call[h].id
               st == [Entry(i) EXCEPT !.locked = (call[h].op = "lock")]
               word == IF call[h].op = "lock" THEN "locked" ELSE "unlocked"
    <2>1. up /\ i \in Ids /\ call[h].op # "register" /\ st \in ClientState
      BY <1>0, <1>9, <1>b, NewRecords, Zenon DEF SetLock, CallSound
    <2>2. PICK ok \in BOOLEAN :
            /\ states' = [states EXCEPT ![i] = st]
            /\ UNCHANGED clients
            /\ Persist(ok)
            /\ Answer(h, [call[h] EXCEPT !.pc = "reply", !.status = Outcome(ok),
                              !.view = IF ok THEN st ELSE NoState])
            /\ acked' = [acked EXCEPT ![i].lock = IF ~ok THEN "any" ELSE word]
      BY <1>9, Zenon DEF SetLock
    <2>a. word \in {"any", "locked", "unlocked"}
      OBVIOUS
    <2> HIDE DEF st, i, word
    <2>3. (IF ok THEN st ELSE NoState) \in ClientState
      BY <2>1, NewRecords, Zenon
    <2>4. PICK r \in Call : CallSound(r) /\ Answer(h, r)
      BY <1>0, <1>c, <2>1, <2>2, <2>3, ViewRecord, Zenon
    <2>5. states' \in [Ids -> ClientState] /\ acked' \in [Ids -> Acked]
      BY <1>0, <1>e, <2>1, <2>2, <2>a, ZenonT(30) DEF TypeOK
    <2> QED
      BY <1>0, <1>1, <1>9, <2>1, <2>2, <2>4, <2>5, Zenon DEF SetLock, TypeOK, Persist
  <1>10. CASE SetTimer(h)
    <2> DEFINE i == call[h].id
               expires == IF call[h].op = "start" THEN call[h].at + call[h].span ELSE 0
               st == [Entry(i) EXCEPT !.expires = expires]
    <2>0. expires \in Nat
      BY <1>a DEF Times
    <2>1. up /\ i \in Ids /\ call[h].op # "register" /\ st \in ClientState
      <3> HIDE DEF expires
      <3> QED
        BY <1>0, <1>10, <1>b, <2>0, NewRecords, Zenon DEF SetTimer, CallSound
    <2>2. PICK ok \in BOOLEAN :
            /\ states' = [states EXCEPT ![i] = st]
            /\ UNCHANGED clients
            /\ Persist(ok)
            /\ Answer(h, [call[h] EXCEPT !.pc = "reply", !.status = Outcome(ok),
                              !.view = IF ok THEN st ELSE NoState])
            /\ acked' = [acked EXCEPT ![i].timed = ok,
                                      ![i].timer = IF ok THEN expires ELSE 0]
      BY <1>10, Zenon DEF SetTimer
    <2> HIDE DEF st, i, expires
    <2>3. (IF ok THEN st ELSE NoState) \in ClientState
      BY <2>1, NewRecords, Zenon
    <2>4. PICK r \in Call : CallSound(r) /\ Answer(h, r)
      BY <1>0, <1>c, <2>1, <2>2, <2>3, ViewRecord, Zenon
    <2>5. states' \in [Ids -> ClientState] /\ acked' \in [Ids -> Acked]
      BY <1>0, <1>e, <2>0, <2>1, <2>2, Zenon DEF TypeOK
    <2> QED
      BY <1>0, <1>1, <1>10, <2>1, <2>2, <2>4, <2>5, Zenon DEF SetTimer, TypeOK, Persist
  <1>11. CASE Reply(h)
    <2>1. up /\ Answer(h, Idle)
      BY <1>0, <1>11, Zenon DEF Reply, Answer
    <2>2. issued' \in SUBSET Credential
      BY <1>0, <1>11 DEF Reply, CallSound, TypeOK, Credential
    <2> QED
      BY <1>0, <1>1, <1>11, <2>1, <2>2, IdleIsCall, Zenon DEF Reply, TypeOK, memory
  <1> QED
    BY <1>2, <1>3, <1>4, <1>5, <1>6, <1>7, <1>8, <1>9, <1>10, <1>11, Zenon DEF Step

LEMMA NextTyped == Typed /\ IndexesAgree /\ [Next]_vars => Typed'
  <1> USE RegistryAssumption
  <1> SUFFICES ASSUME Typed, IndexesAgree, [Next]_vars PROVE Typed'
    OBVIOUS
  <1>1. CASE Tick
    BY <1>1 DEF Tick, Typed, TypeOK, CallsSound, memory, Times
  <1>2. CASE Crash
    <2>1. CallsSound'
      BY <1>2, IdleIsCall, Zenon DEF Crash, CallsSound
    <2>2. crashes' \in 0..MaxCrash /\ seq' \in 0..MaxId
      BY <1>2 DEF Crash, Typed, TypeOK
    <2>3. call' \in [Handlers -> Call]
      BY <1>2, IdleIsCall, Zenon DEF Crash
    <2>4. clients' \in [Ids -> Client \cup {NoClient}] /\ states' \in [Ids -> ClientState]
      BY <1>2, NewRecords, Zenon DEF Crash, EmptyClients, EmptyStates
    <2>5. byMAC' \in [MACs -> Ids \cup {0}] /\ byToken' \in [Tokens -> Ids \cup {0}]
      BY <1>2, Zenon DEF Crash
    <2> QED
      BY <1>2, <2>1, <2>2, <2>3, <2>4, <2>5, Zenon DEF Crash, Typed, TypeOK
  <1>3. CASE Restart
    <2>1. /\ up' = TRUE /\ clients' = disk.clients /\ states' = disk.states
          /\ byMAC' = [m \in MACs |-> IndexOf({i \in Ids : HasMAC(disk.clients[i], m)})]
          /\ byToken' = [t \in Tokens |-> IndexOf({i \in Ids : HasToken(disk.clients[i], t)})]
          /\ seq' \in 0..MaxId
          /\ UNCHANGED <<disk, call, clock, minted, crashes, issued, acked>>
      BY <1>3, Zenon DEF Restart
    <2>2. \A S \in SUBSET Ids : IndexOf(S) \in Ids \cup {0}
      BY Zenon DEF IndexOf
    <2>3. byMAC' \in [MACs -> Ids \cup {0}] /\ byToken' \in [Tokens -> Ids \cup {0}]
      BY <2>1, <2>2, Zenon
    <2>4. CallsSound'
      BY <2>1, Zenon DEF Typed, CallsSound
    <2> QED
      BY <2>1, <2>3, <2>4, Zenon DEF Typed, TypeOK
  <1>4. CASE UNCHANGED vars
    BY <1>4, Zenon DEF vars, Typed, TypeOK, CallsSound
  <1> QED
    BY <1>1, <1>2, <1>3, <1>4, ArrivalTyped, StepTyped, Zenon DEF Next

-----------------------------------------------------------------------------
(* Identity: who the clients are, in memory, in the state file and in the    *)
(* hands of the workstations.                                                *)

\* Every client of cs is a client of ds, under the same identity.
Within(cs, ds) ==
    \A i \in Ids : cs[i] # NoClient => /\ ds[i].mac = cs[i].mac
                                       /\ ds[i].token = cs[i].token

\* Memory may be ahead of the file after a failed save, never behind it.
MemoryAhead == up => Within(disk.clients, clients)

\* The next id and the next token are new.
Unused ==
    /\ up => \A i \in Ids : clients[i] # NoClient => i <= seq
    /\ \A i \in Ids : clients[i].token <= minted /\ disk.clients[i].token <= minted

Stopped == ~up => clients = EmptyClients

\* What the handlers have been told about identities.
Answered ==
    \A h \in Handlers :
        call[h].op = "register" /\ call[h].status = "ok" =>
            /\ disk.clients[call[h].id].mac = call[h].mac
            /\ disk.clients[call[h].id].token = call[h].tok

Presented ==
    \A h \in Handlers : call[h].op = "heartbeat" =>
        /\ call[h].tok # 0 => \E c \in issued : c.token = call[h].tok
        /\ call[h].status = "unknown" => call[h].tok = 0

Registered == OneClientPerMAC /\ IndexesAgree /\ MemoryAhead /\ Unused /\ Stopped

Identity == Typed /\ Registered /\ IssuedDurable /\ Answered /\ Presented

\* A save replaces the file by what is in memory, or leaves it.
LEMMA SavedOrKept ==
    ASSUME NEW ok \in BOOLEAN, Persist(ok)
    PROVE  /\ disk' = disk \/ (disk'.clients = clients' /\ disk'.states = states')
           /\ ok => disk'.clients = clients' /\ disk'.states = states'
           /\ ~ok => disk' = disk
  BY Zenon DEF Persist

LEMMA SameRegistered ==
    ASSUME Registered, UNCHANGED <<up, clients, byMAC, byToken, seq, disk, minted>>
    PROVE  Registered'
  <1>1. OneClientPerMAC'
    BY Zenon DEF Registered, OneClientPerMAC
  <1>2. IndexesAgree'
    BY Zenon DEF Registered, IndexesAgree
  <1>3. MemoryAhead' /\ Stopped'
    BY Zenon DEF Registered, MemoryAhead, Within, Stopped
  <1>4. Unused'
    BY Zenon DEF Registered, Unused
  <1> QED
    BY <1>1, <1>2, <1>3, <1>4, Zenon DEF Registered

LEMMA InitIdentity == Init => Identity
  <1> SUFFICES ASSUME Init PROVE Identity
    OBVIOUS
  <1>1. Registered
    <2>1. \A i \in Ids : clients[i] = NoClient /\ disk.clients[i] = NoClient
      BY Zenon DEF Init, EmptyClients
    <2>2. NoClient.token = 0 /\ minted = 0 /\ up
      BY Zenon DEF Init, NoClient
    <2>3. /\ \A m \in MACs : byMAC[m] = 0
          /\ \A t \in Tokens : byToken[t] = 0
      BY Zenon DEF Init
    <2> QED
      BY <2>1, <2>2, <2>3
      DEF Registered, OneClientPerMAC, IndexesAgree, MemoryAhead, Within, Unused, Stopped
  <1>2. IssuedDurable /\ Answered /\ Presented
    BY IdleIsCall, Zenon DEF Init, IssuedDurable, Answered, Presented
  <1> QED
    BY <1>1, <1>2, InitTyped, Zenon DEF Identity

\* Steps that add no client, saved or not.
LEMMA TouchRegistered ==
    ASSUME Typed, Registered, Typed', up' = up, byMAC' = byMAC, byToken' = byToken,
           minted' = minted, seq' >= seq,
           \A i \in Ids : /\ clients'[i].mac = clients[i].mac
                          /\ clients'[i].token = clients[i].token,
           up \/ clients' = clients,
           disk'.clients = disk.clients \/ (up /\ disk'.clients = clients')
    PROVE  Registered' /\ Within(disk.clients, disk'.clients)
  <1>1. /\ \A i \in Ids : clients[i] \in Client \cup {NoClient}
        /\ \A i \in Ids : clients'[i] \in Client \cup {NoClient}
        /\ \A i \in Ids : disk.clients[i] \in Client \cup {NoClient}
    BY Zenon DEF Typed, TypeOK
  <1>2. \A i \in Ids : clients'[i] # NoClient <=> clients[i] # NoClient
    BY <1>1, KnownClient, Zenon
  <1>3. OneClientPerMAC'
    BY <1>2 DEF Registered, OneClientPerMAC
  <1>4. IndexesAgree'
    BY <1>2, SMTT(30) DEF Registered, IndexesAgree, Typed, TypeOK
  <1>5. MemoryAhead' /\ Within(disk.clients, disk'.clients)
    BY <1>2, Zenon DEF Registered, MemoryAhead, Within
  <1>6. Unused'
    <2>1. (\A i \in Ids : i \in Int) /\ seq \in Int /\ seq' \in Int
      BY RegistryAssumption DEF Typed, TypeOK, Ids
    <2>2. up' => \A i \in Ids : clients'[i] # NoClient => i <= seq'
      <3> SUFFICES ASSUME up', NEW i \in Ids, clients'[i] # NoClient PROVE i <= seq'
        OBVIOUS
      <3>1. i <= seq
        BY <1>2, Zenon DEF Registered, Unused
      <3> QED
        BY <2>1, <3>1
    <2>3. \A i \in Ids : clients'[i].token <= minted' /\ disk'.clients[i].token <= minted'
      BY Zenon DEF Registered, Unused
    <2> QED
      BY <2>2, <2>3, Zenon DEF Unused
  <1> QED
    BY <1>3, <1>4, <1>5, <1>6, Zenon DEF Registered, Stopped

\* What was said about identities stays true while the file keeps its clients.
LEMMA AnswersKept ==
    ASSUME Identity, Within(disk.clients, disk'.clients), issued' = issued,
           NEW h \in Handlers, NEW r \in Call, Answer(h, r),
           r.op = "register" /\ r.status = "ok" =>
               /\ disk'.clients[r.id].mac = r.mac
               /\ disk'.clients[r.id].token = r.tok,
           r.op = "heartbeat" =>
               /\ r.tok # 0 => \E c \in issued : c.token = r.tok
               /\ r.status = "unknown" => r.tok = 0
    PROVE  IssuedDurable' /\ Answered' /\ Presented'
  <1>0. /\ \A i \in Ids : disk.clients[i] \in Client \cup {NoClient}
        /\ issued \subseteq Credential
        /\ call \in [Handlers -> Call]
        /\ \A g \in Handlers : CallSound(call[g])
    BY Zenon DEF Identity, Typed, TypeOK, CallsSound
  <1>1. \A i \in Ids : disk.clients[i].mac \in MACs =>
           /\ disk'.clients[i].mac = disk.clients[i].mac
           /\ disk'.clients[i].token = disk.clients[i].token
    BY <1>0, KnownClient, Zenon DEF Within
  <1>2. IssuedDurable'
    BY <1>0, <1>1 DEF Identity, IssuedDurable, Credential
  <1>3. \A g \in Handlers : call'[g] = IF g = h THEN r ELSE call[g]
    BY <1>0, Zenon DEF Answer
  <1>4. Answered'
    <2>1. ASSUME NEW g \in Handlers, g # h, call[g].op = "register", call[g].status = "ok"
          PROVE  /\ disk'.clients[call[g].id].mac = call[g].mac
                 /\ disk'.clients[call[g].id].token = call[g].tok
      <3>1. call[g].mac \in MACs /\ call[g].id \in Ids
        BY <1>0, <2>1, Zenon DEF CallSound
      <3>2. /\ disk.clients[call[g].id].mac = call[g].mac
            /\ disk.clients[call[g].id].token = call[g].tok
        BY <2>1, Zenon DEF Identity, Answered
      <3> QED
        BY <1>1, <3>1, <3>2, Zenon
    <2> QED
      BY <1>3, <2>1, Zenon DEF Answered
  <1>5. Presented'
    BY <1>3, Zenon DEF Identity, Presented
  <1> QED
    BY <1>2, <1>4, <1>5, Zenon

\* A handler that learns nothing about identities, and its step adds no client.
LEMMA TouchIdentity ==
    ASSUME Identity, Typed', NEW h \in Handlers, NEW r \in Call, Answer(h, r),
           r.op = "register" => r.status # "ok",
           r.op = "heartbeat" => /\ r.status # "unknown"
                                 /\ call[h].op = "heartbeat" /\ r.tok = call[h].tok,
           issued' = issued,
           up' = up, byMAC' = byMAC, byToken' = byToken, minted' = minted, seq' >= seq,
           \A i \in Ids : /\ clients'[i].mac = clients[i].mac
                          /\ clients'[i].token = clients[i].token,
           up, disk'.clients = disk.clients \/ disk'.clients = clients'
    PROVE  Identity'
  <1>1. Registered' /\ Within(disk.clients, disk'.clients)
    BY TouchRegistered, Zenon DEF Identity
  <1>2. r.op = "heartbeat" => (r.tok # 0 => \E c \in issued : c.token = r.tok)
    BY Zenon DEF Identity, Presented
  <1> QED
    BY <1>1, <1>2, AnswersKept, Zenon DEF Identity

\* The touch of a client leaves its identity alone.
LEMMA TouchClients ==
    ASSUME Typed, NEW k \in Ids, NEW x,
           clients' = [clients EXCEPT ![k].seen = x] \/ clients' = clients
    PROVE  \A i \in Ids : /\ clients'[i].mac = clients[i].mac
                          /\ clients'[i].token = clients[i].token
  <1>1. \A c \in Client \cup {NoClient} :
           [c EXCEPT !.seen = x].mac = c.mac /\ [c EXCEPT !.seen = x].token = c.token
    BY Zenon DEF Client, NoClient
  <1>2. clients \in [Ids -> Client \cup {NoClient}]
    BY Zenon DEF Typed, TypeOK
  <1>3. CASE clients' = [clients EXCEPT ![k].seen = x]
    <2>1. \A i \in Ids : clients'[i] = IF i = k THEN [clients[k] EXCEPT !.seen = x]
                                       ELSE clients[i]
      BY <1>2, <1>3, Zenon
    <2> QED
      BY <1>1, <1>2, <2>1, ZenonT(30)
  <1> QED
    BY <1>3, Zenon

LEMMA ArrivalIdentity ==
    ASSUME Identity, Typed', NEW h \in Handlers, Arrival(h)
    PROVE  Identity'
  <1>0. UNCHANGED <<up, clients, byMAC, byToken, seq, disk, minted, issued>>
    BY Zenon DEF Arrival, BeginRegister, BeginHeartbeat, BeginAdmin, memory
  <1>1. call \in [Handlers -> Call] /\ Idle \in Call /\ Idle.op = "none"
        /\ Idle.status = "none"
    BY IdleIsCall, Zenon DEF Identity, Typed, TypeOK
  <1>2. call'[h] \in Call
    BY Zenon DEF Typed, TypeOK
  <1>3. PICK r \in Call :
          /\ Answer(h, r) /\ r.status = "none"
          /\ r.op = "heartbeat" => (r.tok # 0 => \E c \in issued : c.token = r.tok)
    <2>1. ASSUME NEW x \in Spellings, BeginRegister(h, x)
          PROVE  call'[h].status = "none" /\ call'[h].op # "heartbeat"
      BY <1>1, <2>1, Zenon DEF BeginRegister, Answer, Call
    <2>2. ASSUME NEW t \in {c.token : c \in issued} \cup {0}, BeginHeartbeat(h, t)
          PROVE  call'[h].status = "none" /\ call'[h].tok = t
      BY <1>1, <2>2, Zenon DEF BeginHeartbeat, Answer, Call
    <2>3. ASSUME NEW op \in AdminOps, NEW i \in Ids, NEW span \in Durations \cup {0},
                 BeginAdmin(h, op, i, span)
          PROVE  call'[h].status = "none" /\ call'[h].op # "heartbeat"
      <3>1. op # "heartbeat"
        BY RegistryAssumption, Zenon
      <3> QED
        BY <1>1, <2>3, <3>1, Zenon DEF BeginAdmin, Answer, Call
    <2>4. Answer(h, call'[h])
      BY <1>1, Zenon DEF Arrival, BeginRegister, BeginHeartbeat, BeginAdmin, Answer
    <2> QED
      BY <1>2, <2>1, <2>2, <2>3, <2>4, Zenon DEF Arrival
  <1>4. Registered' /\ Within(disk.clients, disk'.clients)
    <2>1. Typed /\ Registered /\ seq \in 0..MaxId
      BY Zenon DEF Identity, Typed, TypeOK
    <2>2. seq' >= seq
      BY <1>0, <2>1
    <2> QED
      BY <1>0, <2>1, <2>2, TouchRegistered, Zenon
  <1> QED
    BY <1>0, <1>3, <1>4, AnswersKept, Zenon DEF Identity

\* A new client is unlike every other one, in memory and in the file.
LEMMA NewClient ==
    ASSUME Identity, Typed', NEW h \in Handlers, RegisterNew(h)
    PROVE  Identity'
  <1> USE RegistryAssumption
  <1> DEFINE i == seq + 1
             t == minted + 1
             m == call[h].mac
  <1>0. /\ up /\ m \in MACs /\ i \in Ids /\ t \in Tokens /\ seq \in Nat /\ minted \in Nat
        /\ byMAC[m] = 0 /\ call[h] \in Call /\ call[h].op = "register"
    <2>1. /\ call[h].pc = "call" /\ call[h].op = "register" /\ byMAC[m] = 0
          /\ seq < MaxId /\ minted < MaxToken
      BY Zenon DEF RegisterNew
    <2>2. /\ call[h] \in Call /\ CallSound(call[h]) /\ up
          /\ seq \in 0..MaxId /\ minted \in 0..MaxToken
      BY <2>1, Zenon DEF Identity, Typed, TypeOK, CallsSound
    <2>3. m \in MACs
      BY <2>1, <2>2, Zenon DEF CallSound
    <2>4. i \in Ids /\ t \in Tokens /\ seq \in Nat /\ minted \in Nat
      BY <2>1, <2>2 DEF Ids, Tokens
    <2> QED
      BY <2>1, <2>2, <2>3, <2>4, Zenon
  <1>1. PICK ok \in BOOLEAN :
          /\ seq' = i /\ minted' = t
          /\ clients' = [clients EXCEPT ![i] =
                           [mac |-> m, token |-> t, seen |-> call[h].at]]
          /\ byMAC' = [byMAC EXCEPT ![m] = i]
          /\ byToken' = [byToken EXCEPT ![t] = i]
          /\ Persist(ok)
          /\ Answer(h, [call[h] EXCEPT !.pc = "reply", !.status = Outcome(ok),
                           !.id = i, !.tok = t])
    BY Zenon DEF RegisterNew
  <1>2. UNCHANGED <<up, issued>>
    BY Zenon DEF RegisterNew
  <1>3. /\ \A k \in Ids : clients[k] \in Client \cup {NoClient}
        /\ \A k \in Ids : disk.clients[k] \in Client \cup {NoClient}
        /\ \A k \in Ids : clients[k].token \in Int /\ disk.clients[k].token \in Int
        /\ \A k \in Ids : k \in Int
    <2>1. /\ \A k \in Ids : clients[k] \in Client \cup {NoClient}
          /\ \A k \in Ids : disk.clients[k] \in Client \cup {NoClient}
      BY Zenon DEF Identity, Typed, TypeOK
    <2>2. \A c \in Client \cup {NoClient} : c.token \in Int
      BY DEF Client, NoClient, Tokens
    <2>3. \A k \in Ids : k \in Int
      BY DEF Ids
    <2> QED
      BY <2>1, <2>2, <2>3, Zenon
  <1>4. /\ \A k \in Ids : clients[k] # NoClient => k <= seq
        /\ \A k \in Ids : clients[k].token <= minted
        /\ \A k \in Ids : disk.clients[k].token <= minted
    BY <1>0, Zenon DEF Identity, Registered, Unused
  <1>5. /\ clients[i] = NoClient
        /\ \A k \in Ids : clients[k].mac # m /\ clients[k].token # t
    <2>1. clients[i] = NoClient
      BY <1>0, <1>4
    <2>2. \A k \in Ids : clients[k].mac # m
      <3> SUFFICES ASSUME NEW k \in Ids, clients[k].mac = m PROVE FALSE
        OBVIOUS
      <3>1. clients[k] # NoClient
        BY <1>0, <1>3, KnownClient, Zenon
      <3>2. byMAC[m] = k
        BY <1>0, <3>1, Zenon DEF Identity, Registered, IndexesAgree
      <3> QED
        BY <1>0, <3>2 DEF Ids
    <2>3. \A k \in Ids : clients[k].token # t
      BY <1>0, <1>3, <1>4
    <2> QED
      BY <2>1, <2>2, <2>3, Zenon
  <1> HIDE DEF i, t, m
  <1>6. \A k \in Ids : clients'[k] = IF k = i THEN [mac |-> m, token |-> t,
                                                     seen |-> call[h].at]
                                     ELSE clients[k]
    BY <1>0, <1>1, Zenon DEF Identity, Typed, TypeOK
  <1>7. clients'[i].mac = m /\ clients'[i].token = t /\ clients'[i] # NoClient
    BY <1>0, <1>6 DEF NoClient
  <1>8. disk' = disk \/ disk'.clients = clients'
    BY <1>1, SavedOrKept, Zenon
  <1>9. Within(disk.clients, clients) /\ Within(disk.clients, clients')
    <2>1. Within(disk.clients, clients)
      BY <1>0, Zenon DEF Identity, Registered, MemoryAhead
    <2>2. ASSUME NEW k \in Ids, disk.clients[k] # NoClient
          PROVE  clients'[k] = clients[k]
      <3>1. clients[k].mac = disk.clients[k].mac /\ disk.clients[k].mac \in MACs
        BY <1>3, <2>1, <2>2, KnownClient, Zenon DEF Within
      <3>2. clients[k] # NoClient
        BY <1>3, <3>1, KnownClient, Zenon
      <3> QED
        BY <1>5, <1>6, <3>2, Zenon
    <2> QED
      BY <2>1, <2>2, Zenon DEF Within
  <1>10. Within(disk.clients, disk'.clients) /\ MemoryAhead'
    BY <1>8, <1>9, Zenon DEF MemoryAhead, Within
  <1>11. OneClientPerMAC'
    <2>1. \A j, k \in Ids : j # k /\ clients'[j] # NoClient /\ clients'[k] # NoClient =>
             clients'[j].mac # clients'[k].mac /\ clients'[j].token # clients'[k].token
      BY <1>5, <1>6, <1>7, SMTT(30) DEF Identity, Registered, OneClientPerMAC
    <2> QED
      BY <1>8, <2>1 DEF Identity, Registered, OneClientPerMAC
  <1>12. IndexesAgree'
    <2>1. /\ \A n \in MACs : byMAC'[n] = IF n = m THEN i ELSE byMAC[n]
          /\ \A n \in Tokens : byToken'[n] = IF n = t THEN i ELSE byToken[n]
          /\ \A n \in MACs : byMAC[n] \in Ids \cup {0}
          /\ \A n \in Tokens : byToken[n] \in Ids \cup {0}
      BY <1>0, <1>1 DEF Identity, Typed, TypeOK
    <2>2. \A k \in Ids : clients'[k] # NoClient =>
             byMAC'[clients'[k].mac] = k /\ byToken'[clients'[k].token] = k
      <3> SUFFICES ASSUME NEW k \in Ids, clients'[k] # NoClient
                   PROVE  byMAC'[clients'[k].mac] = k /\ byToken'[clients'[k].token] = k
        OBVIOUS
      <3>1. CASE k = i
        BY <1>0, <1>7, <2>1, <3>1, Zenon
      <3>2. CASE k # i
        <4>1. clients'[k] = clients[k] /\ clients[k].mac \in MACs
              /\ clients[k].token \in Tokens
          BY <1>3, <1>6, <3>2, KnownClient, Zenon
        <4> QED
          <5>1. byMAC[clients[k].mac] = k /\ byToken[clients[k].token] = k
            BY <1>0, <4>1, Zenon DEF Identity, Registered, IndexesAgree
          <5> QED
            BY <1>5, <2>1, <4>1, <5>1
      <3> QED
        BY <3>1, <3>2, Zenon
    <2>3. \A n \in MACs : byMAC'[n] # 0 => clients'[byMAC'[n]].mac = n
      <3> SUFFICES ASSUME NEW n \in MACs, byMAC'[n] # 0
                   PROVE  clients'[byMAC'[n]].mac = n
        OBVIOUS
      <3>1. CASE n = m
        BY <1>7, <2>1, <3>1, Zenon
      <3>2. CASE n # m
        <4>1. byMAC'[n] = byMAC[n] /\ byMAC[n] \in Ids /\ clients[byMAC[n]].mac = n
          BY <1>0, <2>1, <3>2, Zenon DEF Identity, Registered, IndexesAgree
        <4>2. byMAC[n] # i
          BY <1>5, <4>1, KnownClient, Zenon
        <4> QED
          BY <1>6, <4>1, <4>2, Zenon
      <3> QED
        BY <3>1, <3>2
    <2>4. \A n \in Tokens : byToken'[n] # 0 => clients'[byToken'[n]].token = n
      <3> SUFFICES ASSUME NEW n \in Tokens, byToken'[n] # 0
                   PROVE  clients'[byToken'[n]].token = n
        OBVIOUS
      <3>1. CASE n = t
        BY <1>7, <2>1, <3>1, Zenon
      <3>2. CASE n # t
        <4>1. byToken'[n] = byToken[n] /\ byToken[n] \in Ids /\ clients[byToken[n]].token = n
          BY <1>0, <2>1, <3>2, Zenon DEF Identity, Registered, IndexesAgree
        <4>2. byToken[n] # i
          BY <1>5, <4>1, KnownClient, Zenon
        <4> QED
          BY <1>6, <4>1, <4>2, Zenon
      <3> QED
        BY <3>1, <3>2
    <2> QED
      BY <2>2, <2>3, <2>4, Zenon DEF IndexesAgree
  <1>13. Unused'
    <2>1. minted' = minted + 1 /\ seq' = seq + 1
      BY <1>1, Zenon DEF i, t
    <2>2. \A k \in Ids : clients'[k].token <= minted' /\ disk.clients[k].token <= minted'
      BY <1>0, <1>3, <1>4, <1>6, <1>7, <2>1, SMTT(30) DEF t
    <2>3. \A k \in Ids : clients'[k] # NoClient => k <= seq'
      <3> SUFFICES ASSUME NEW k \in Ids, clients'[k] # NoClient PROVE k <= seq'
        OBVIOUS
      <3>1. k = i \/ k <= seq
        BY <1>4, <1>6, Zenon
      <3>2. i = seq + 1 /\ seq \in Int /\ k \in Int
        BY <1>0, <1>3 DEF i
      <3> QED
        BY <2>1, <3>1, <3>2
    <2> QED
      BY <1>8, <2>2, <2>3, Zenon DEF Unused
  <1>14. PICK r \in Call : /\ Answer(h, r) /\ r.op = "register"
                           /\ r.status = Outcome(ok) /\ r.id = i /\ r.tok = t /\ r.mac = m
    <2>1. Outcome(ok) \in Statuses
      BY Zenon DEF Outcome, Statuses
    <2>2. [call[h] EXCEPT !.pc = "reply", !.status = Outcome(ok), !.id = i, !.tok = t] \in Call
      BY <1>0, <2>1, CredentialRecord, Zenon DEF m
    <2> QED
      BY <1>0, <1>1, <2>2, ZenonT(30) DEF Call, m
  <1>15. r.status = "ok" => disk'.clients = clients'
    BY <1>1, <1>14, Zenon DEF Persist, Outcome
  <1>16. IssuedDurable' /\ Answered' /\ Presented'
    BY <1>2, <1>7, <1>10, <1>14, <1>15, AnswersKept, Zenon
  <1> QED
    BY <1>0, <1>2, <1>10, <1>11, <1>12, <1>13, <1>16, Zenon DEF Identity, Registered, Stopped

LEMMA ExistingClient ==
    ASSUME Identity, Typed', NEW h \in Handlers, RegisterExisting(h)
    PROVE  Identity'
  <1> DEFINE m == call[h].mac
             i == byMAC[m]
  <1>0. up /\ m \in MACs /\ i \in Ids /\ call[h] \in Call /\ call[h].op = "register"
    BY Zenon DEF Identity, Typed, TypeOK, CallsSound, CallSound, RegisterExisting
  <1>1. PICK ok \in BOOLEAN :
          /\ clients' = [clients EXCEPT ![i].seen = call[h].at]
          /\ Persist(ok)
          /\ Answer(h, [call[h] EXCEPT !.pc = "reply", !.status = Outcome(ok),
                           !.id = i, !.tok = clients[i].token])
    BY Zenon DEF RegisterExisting
  <1>2. UNCHANGED <<up, byMAC, byToken, seq, minted, issued>>
    BY Zenon DEF RegisterExisting
  <1>3. clients[i].mac = m /\ clients[i].token \in Tokens
    <2>1. clients[i].mac = m
      BY <1>0, Zenon DEF Identity, Registered, IndexesAgree, RegisterExisting
    <2>2. clients[i] \in Client \cup {NoClient}
      BY <1>0, Zenon DEF Identity, Typed, TypeOK
    <2> QED
      BY <1>0, <2>1, <2>2, KnownClient, Zenon
  <1> HIDE DEF i, m
  <1>4. \A k \in Ids : clients'[k].mac = clients[k].mac /\ clients'[k].token = clients[k].token
    BY <1>0, <1>1, TouchClients, Zenon DEF Identity
  <1>5. disk' = disk \/ disk'.clients = clients'
    BY <1>1, SavedOrKept, Zenon
  <1>6. Registered' /\ Within(disk.clients, disk'.clients)
    <2>1. Typed /\ Registered /\ seq \in 0..MaxId
      BY Zenon DEF Identity, Typed, TypeOK
    <2>2. seq' >= seq
      BY <1>2, <2>1
    <2> QED
      BY <1>0, <1>2, <1>4, <1>5, <2>1, <2>2, TouchRegistered, Zenon
  <1>7. PICK r \in Call : /\ Answer(h, r) /\ r.op = "register" /\ r.status = Outcome(ok)
                          /\ r.id = i /\ r.tok = clients[i].token /\ r.mac = m
    <2>1. Outcome(ok) \in Statuses
      BY Zenon DEF Outcome, Statuses
    <2>2. [call[h] EXCEPT !.pc = "reply", !.status = Outcome(ok), !.id = i,
                          !.tok = clients[i].token] \in Call
      BY <1>0, <1>3, <2>1, CredentialRecord, Zenon DEF m
    <2> QED
      BY <1>0, <1>1, <2>2, Zenon DEF Call, m
  <1>8. r.status = "ok" => disk'.clients = clients'
    BY <1>1, <1>7, Zenon DEF Persist, Outcome
  <1>9. IssuedDurable' /\ Answered' /\ Presented'
    BY <1>0, <1>2, <1>3, <1>4, <1>6, <1>7, <1>8, AnswersKept, Zenon
  <1> QED
    BY <1>6, <1>9, Zenon DEF Identity

\* A token a workstation holds is in byToken.
LEMMA IssuedIndexed ==
    ASSUME Identity, up, NEW c \in issued
    PROVE  byToken[c.token] = c.id /\ c.id \in Ids
  <1>1. c \in Credential /\ disk.clients[c.id] \in Client \cup {NoClient}
        /\ clients[c.id] \in Client \cup {NoClient}
    BY Zenon DEF Identity, Typed, TypeOK, Credential
  <1>2. c.id \in Ids /\ c.mac \in MACs
    BY <1>1, Zenon DEF Credential
  <1>3. disk.clients[c.id].mac = c.mac /\ disk.clients[c.id].token = c.token
    BY Zenon DEF Identity, IssuedDurable
  <1>4. disk.clients[c.id] # NoClient
    BY <1>1, <1>2, <1>3, KnownClient, Zenon
  <1>5. clients[c.id].mac = c.mac /\ clients[c.id].token = c.token
    BY <1>2, <1>3, <1>4, Zenon DEF Identity, Registered, MemoryAhead, Within
  <1>6. clients[c.id] # NoClient
    BY <1>1, <1>2, <1>5, KnownClient, Zenon
  <1> QED
    BY <1>2, <1>5, <1>6, Zenon DEF Identity, Registered, IndexesAgree

LEMMA HeartbeatIdentity ==
    ASSUME Identity, Typed', NEW h \in Handlers, Heartbeat(h)
    PROVE  Identity'
  <1> DEFINE i == IF call[h].tok = 0 THEN 0 ELSE byToken[call[h].tok]
  <1>0. up /\ i \in Ids \cup {0} /\ call[h] \in Call /\ call[h].op = "heartbeat"
    BY Zenon DEF Identity, Typed, TypeOK, CallsSound, Call, Heartbeat
  <1>1. UNCHANGED <<up, byMAC, byToken, seq, minted, issued>>
    BY Zenon DEF Heartbeat
  <1>2. seq' >= seq
    BY <1>1 DEF Identity, Typed, TypeOK
  <1>3. CASE i = 0
    <2>1. /\ Answer(h, [call[h] EXCEPT !.pc = "reply", !.status = "unknown"])
          /\ UNCHANGED <<clients, disk>>
      BY <1>3, Zenon DEF Heartbeat
    <2>2. call[h].tok = 0
      <3> SUFFICES ASSUME call[h].tok # 0 PROVE FALSE
        OBVIOUS
      <3>1. PICK c \in issued : c.token = call[h].tok
        BY <1>0, Zenon DEF Identity, Presented
      <3>2. byToken[c.token] \in Ids
        BY <1>0, IssuedIndexed, Zenon
      <3>3. byToken[c.token] = 0
        BY <1>3, <3>1, Zenon
      <3> QED
        BY <3>2, <3>3 DEF Ids
    <2>3. PICK r \in Call : Answer(h, r) /\ r.op = "heartbeat" /\ r.tok = 0
      <3>2. [call[h] EXCEPT !.pc = "reply", !.status = "unknown"] \in Call
        BY <1>0, Refusals, ReplyRecord, Zenon
      <3> QED
        BY <1>0, <2>1, <2>2, <3>2, Zenon DEF Call
    <2>4. Registered' /\ Within(disk.clients, disk'.clients)
      BY <1>0, <1>1, <1>2, <2>1, TouchRegistered, Zenon DEF Identity
    <2> QED
      BY <1>1, <2>3, <2>4, AnswersKept, Zenon DEF Identity
  <1>4. CASE i # 0
    <2>1. PICK ok \in BOOLEAN :
            /\ clients' = [clients EXCEPT ![i].seen = call[h].at]
            /\ Persist(ok)
            /\ Answer(h, IF ok THEN [call[h] EXCEPT !.pc = "read", !.id = i]
                         ELSE [call[h] EXCEPT !.pc = "reply", !.status = "failed"])
      BY <1>4, Zenon DEF Heartbeat
    <2>2. i \in Ids
      BY <1>0, <1>4, Zenon
    <2>3. call[h].status # "unknown"
      BY <1>0, <1>4, Zenon DEF Identity, Presented
    <2> HIDE DEF i
    <2>4. \A k \in Ids : /\ clients'[k].mac = clients[k].mac
                         /\ clients'[k].token = clients[k].token
      BY <2>1, <2>2, TouchClients, Zenon DEF Identity
    <2>5. disk'.clients = disk.clients \/ disk'.clients = clients'
      BY <2>1, SavedOrKept, Zenon
    <2>6. PICK r \in Call : /\ Answer(h, r) /\ r.op = "heartbeat" /\ r.tok = call[h].tok
                            /\ r.status # "unknown"
      <3>1. call'[h] \in Call
        BY Zenon DEF Typed, TypeOK
      <3>2. call \in [Handlers -> Call]
        BY Zenon DEF Identity, Typed, TypeOK
      <3>3. Answer(h, call'[h])
        BY <2>1, <3>2, Zenon DEF Answer
      <3>4. call'[h].op = "heartbeat" /\ call'[h].tok = call[h].tok
            /\ call'[h].status # "unknown"
        BY <1>0, <2>1, <2>3, <3>2, Zenon DEF Answer, Call
      <3> QED
        BY <3>1, <3>3, <3>4, Zenon
    <2> QED
      BY <1>0, <1>1, <1>2, <2>4, <2>5, <2>6, TouchIdentity, Zenon
  <1> QED
    BY <1>3, <1>4, Zenon

\* The handlers that neither register nor look a token up.
LEMMA OtherIdentity ==
    ASSUME Identity, Typed', NEW h \in Handlers,
           \/ RegisterNoToken(h) \/ GetState(h) \/ Enforce(h)
           \/ AdminUnknown(h) \/ SetLock(h) \/ SetTimer(h)
    PROVE  Identity'
  <1>0. call \in [Handlers -> Call] /\ call[h] \in Call /\ call'[h] \in Call
        /\ seq \in Nat /\ CallSound(call[h]) /\ (call[h].pc # "idle" => up)
    BY SMTT(30) DEF Identity, Typed, TypeOK, CallsSound
  <1>1. UNCHANGED <<up, clients, byMAC, byToken, minted, issued>>
    BY Zenon DEF RegisterNoToken, GetState, Enforce, AdminUnknown, SetLock, SetTimer, memory
  <1>2. seq' >= seq
    <2>1. seq' = seq \/ seq' = seq + 1
      BY Zenon, ZenonT(30) DEF RegisterNoToken, GetState, Enforce, AdminUnknown, SetLock, SetTimer, memory
    <2> QED
      BY <1>0, <2>1
  <1>3. disk'.clients = disk.clients \/ disk'.clients = clients'
    <2>1. disk' = disk \/ \E ok \in BOOLEAN : Persist(ok)
      BY Zenon DEF RegisterNoToken, GetState, Enforce, AdminUnknown, SetLock, SetTimer
    <2> QED
      BY <2>1, SavedOrKept, Zenon
  <1>4. \A r : Answer(h, r) => call'[h] = r /\ Answer(h, call'[h])
    BY <1>0, Zenon DEF Answer
  <1>a. call[h] \in Call
    BY <1>0, Zenon
  <1>b. ASSUME NEW x, Answer(h, [call[h] EXCEPT !.pc = "reply", !.status = x])
        PROVE  /\ Answer(h, call'[h])
               /\ call'[h].op = call[h].op /\ call'[h].tok = call[h].tok
               /\ call'[h].status = x
    <2>1. call'[h] = [call[h] EXCEPT !.pc = "reply", !.status = x] /\ Answer(h, call'[h])
      BY <1>4, <1>b, Zenon
    <2> QED
      BY <1>a, <2>1, Zenon DEF Call
  <1>c. ASSUME NEW x, NEW v,
               Answer(h, [call[h] EXCEPT !.pc = "reply", !.status = x, !.view = v])
        PROVE  /\ Answer(h, call'[h])
               /\ call'[h].op = call[h].op /\ call'[h].tok = call[h].tok
               /\ call'[h].status = x
    <2>1. /\ call'[h] = [call[h] EXCEPT !.pc = "reply", !.status = x, !.view = v]
          /\ Answer(h, call'[h])
      BY <1>4, <1>c, Zenon
    <2> QED
      BY <1>a, <2>1, Zenon DEF Call
  <1>d. ASSUME NEW v, Answer(h, [call[h] EXCEPT !.pc = "enforce", !.view = v])
        PROVE  /\ Answer(h, call'[h])
               /\ call'[h].op = call[h].op /\ call'[h].tok = call[h].tok
               /\ call'[h].status = call[h].status
    <2>1. /\ call'[h] = [call[h] EXCEPT !.pc = "enforce", !.view = v]
          /\ Answer(h, call'[h])
      BY <1>4, <1>d, ZenonT(30)
    <2> QED
      BY <1>a, <2>1, Zenon DEF Call
  <1>5. /\ Answer(h, call'[h])
        /\ call'[h].op = call[h].op /\ call'[h].tok = call[h].tok
        /\ call[h].op = "register" => call'[h].status # "ok"
        /\ call[h].op = "heartbeat" => call'[h].status # "unknown"
    <2>1. CASE RegisterNoToken(h)
      BY <1>b, <2>1, ZenonT(30) DEF RegisterNoToken
    <2>2. CASE GetState(h)
      <3>1. \E v : \/ Answer(h, [call[h] EXCEPT !.pc = "enforce", !.view = v])
                   \/ Answer(h, [call[h] EXCEPT !.pc = "reply", !.status = "ok", !.view = v])
        BY <2>2, Zenon DEF GetState
      <3>2. call[h].op = "heartbeat" /\ call[h].status = "none"
        BY <1>0, <2>2, Zenon DEF GetState, CallSound
      <3> QED
        BY <1>c, <1>d, <3>1, <3>2, Zenon
    <2>3. CASE Enforce(h)
      <3>1. \E v : Answer(h, [call[h] EXCEPT !.pc = "reply", !.status = "ok", !.view = v])
        BY <2>3, ZenonT(30) DEF Enforce
      <3>2. call[h].op = "heartbeat"
        BY <1>0, <2>3, ZenonT(30) DEF Enforce, CallSound
      <3> QED
        BY <1>c, <3>1, <3>2, Zenon
    <2>4. CASE AdminUnknown(h)
      BY <1>b, <2>4, ZenonT(30) DEF AdminUnknown
    <2>5. CASE SetLock(h) \/ SetTimer(h)
      <3>1. \E v, x : Answer(h, [call[h] EXCEPT !.pc = "reply", !.status = x, !.view = v])
        BY <2>5, ZenonT(30) DEF SetLock, SetTimer
      <3>2. call[h].op # "register" /\ call[h].op # "heartbeat"
        BY <2>5, ZenonT(30) DEF SetLock, SetTimer
      <3> QED
        BY <1>c, <3>1, <3>2, Zenon
    <2> QED
      BY <2>1, <2>2, <2>3, <2>4, <2>5, ZenonT(30)
  <1>7. up
    BY <1>0, Zenon DEF RegisterNoToken, GetState, Enforce, AdminUnknown, SetLock, SetTimer
  <1> QED
    BY <1>0, <1>1, <1>2, <1>3, <1>5, <1>7, TouchIdentity, Zenon

\* The credential that reaches a workstation is one the file holds.
LEMMA ReplyIdentity ==
    ASSUME Identity, Typed', NEW h \in Handlers, Reply(h)
    PROVE  Identity'
  <1>1. UNCHANGED <<up, clients, byMAC, byToken, seq, disk, minted>>
    BY Zenon DEF Reply, memory
  <1>2. Registered'
    BY <1>1, SameRegistered, Zenon DEF Identity
  <1>3. IssuedDurable'
    <2>1. IssuedDurable /\ Answered
      BY Zenon DEF Identity
    <2>2. ASSUME NEW c \in issued', c \notin issued
          PROVE  /\ disk.clients[c.id].mac = c.mac
                 /\ disk.clients[c.id].token = c.token
      <3>1. /\ call[h].op = "register" /\ call[h].status = "ok"
            /\ c = [mac |-> call[h].mac, id |-> call[h].id, token |-> call[h].tok]
        BY <2>2, Zenon DEF Reply
      <3> QED
        BY <2>1, <3>1, Zenon DEF Answered
    <2> QED
      BY <1>1, <2>1, <2>2, Zenon DEF IssuedDurable
  <1>4. \A g \in Handlers : call'[g] = IF g = h THEN Idle ELSE call[g]
    <2>1. call \in [Handlers -> Call] /\ call' = [call EXCEPT ![h] = Idle]
      BY Zenon DEF Identity, Typed, TypeOK, Reply
    <2> QED
      BY <2>1, Zenon
  <1>5. Answered'
    BY <1>1, <1>4, IdleIsCall, Zenon DEF Identity, Answered
  <1>6. issued \subseteq issued'
    BY Zenon DEF Reply
  <1>7. Presented'
    BY <1>4, <1>6, IdleIsCall, Zenon DEF Identity, Presented
  <1> QED
    BY <1>2, <1>3, <1>5, <1>7, Zenon DEF Identity

LEMMA CrashIdentity ==
    ASSUME Identity, Typed', Crash
    PROVE  Identity'
  <1>1. /\ ~up' /\ clients' = EmptyClients /\ disk' = disk /\ minted' = minted
        /\ issued' = issued /\ call' = [h \in Handlers |-> Idle]
    BY Zenon DEF Crash
  <1>2. \A i \in Ids : clients'[i] = NoClient
    BY <1>1, Zenon DEF EmptyClients
  <1>3. OneClientPerMAC'
    BY <1>1, <1>2, SMTT(30) DEF Identity, Registered, OneClientPerMAC
  <1>4. Unused'
    <2>1. NoClient.token = 0 /\ minted \in Nat
      BY DEF NoClient, Identity, Typed, TypeOK
    <2> QED
      BY <1>1, <1>2, <2>1 DEF Identity, Registered, Unused
  <1>5. Registered'
    BY <1>1, <1>3, <1>4, Zenon DEF Registered, IndexesAgree, MemoryAhead, Stopped
  <1>6. IssuedDurable' /\ Answered' /\ Presented'
    BY <1>1, IdleIsCall, Zenon DEF Identity, IssuedDurable, Answered, Presented
  <1> QED
    BY <1>5, <1>6, Zenon DEF Identity

\* rebuildIndexes finds the one client that has a key, if any has it.
LEMMA RestartIdentity ==
    ASSUME Identity, Typed', Restart
    PROVE  Identity'
  <1> USE RegistryAssumption
  <1>1. /\ up' /\ clients' = disk.clients /\ disk' = disk /\ minted' = minted
        /\ issued' = issued /\ call' = call /\ IsHighest(seq', disk.clients)
        /\ byMAC' = [m \in MACs |-> IndexOf({i \in Ids : HasMAC(disk.clients[i], m)})]
        /\ byToken' = [t \in Tokens |-> IndexOf({i \in Ids : HasToken(disk.clients[i], t)})]
    BY Zenon DEF Restart
  <1>2. \A i \in Ids : disk.clients[i] \in Client \cup {NoClient}
    BY Zenon DEF Identity, Typed, TypeOK
  <1>3. \A i, j \in Ids : disk.clients[i] # NoClient /\ disk.clients[j] # NoClient /\ i # j =>
           /\ disk.clients[i].mac # disk.clients[j].mac
           /\ disk.clients[i].token # disk.clients[j].token
    BY Zenon DEF Identity, Registered, OneClientPerMAC
  <1>4. ASSUME NEW m \in MACs
        PROVE  LET k == byMAC'[m] IN
               /\ k # 0 => k \in Ids /\ disk.clients[k].mac = m
               /\ \A i \in Ids : disk.clients[i].mac = m => k # 0
    <2> DEFINE holders == {i \in Ids : disk.clients[i].mac = m}
    <2>1. byMAC'[m] = IndexOf(holders)
      BY <1>1, Zenon DEF HasMAC
    <2>2. holders # {} => IndexOf(holders) \in holders
      BY Zenon DEF IndexOf
    <2>3. holders = {} => IndexOf(holders) = 0
      BY Zenon DEF IndexOf
    <2>4. 0 \notin Ids
      BY DEF Ids
    <2> QED
      BY <2>1, <2>2, <2>3, <2>4, Zenon
  <1>5. ASSUME NEW t \in Tokens
        PROVE  LET k == byToken'[t] IN
               /\ k # 0 => k \in Ids /\ disk.clients[k].token = t
               /\ \A i \in Ids : disk.clients[i].token = t => k # 0
    <2> DEFINE holders == {i \in Ids : disk.clients[i].token = t}
    <2>1. byToken'[t] = IndexOf(holders)
      BY <1>1, Zenon DEF HasToken
    <2>2. holders # {} => IndexOf(holders) \in holders
      BY Zenon DEF IndexOf
    <2>3. holders = {} => IndexOf(holders) = 0
      BY Zenon DEF IndexOf
    <2>4. 0 \notin Ids
      BY DEF Ids
    <2> QED
      BY <2>1, <2>2, <2>3, <2>4, Zenon
  <1>6. IndexesAgree'
    <2>1. ASSUME NEW i \in Ids, disk.clients[i] # NoClient
          PROVE  byMAC'[disk.clients[i].mac] = i /\ byToken'[disk.clients[i].token] = i
      <3>1. disk.clients[i].mac \in MACs /\ disk.clients[i].token \in Tokens
        BY <1>2, <2>1, KnownClient, Zenon
      <3>2. byMAC'[disk.clients[i].mac] = i
        BY <1>2, <1>3, <1>4, <2>1, <3>1, KnownClient
      <3>3. byToken'[disk.clients[i].token] = i
        BY <1>2, <1>3, <1>5, <2>1, <3>1, KnownClient, SMTT(30)
      <3> QED
        BY <3>2, <3>3, Zenon
    <2> QED
      BY <1>1, <1>4, <1>5, <2>1, ZenonT(30) DEF IndexesAgree
  <1>7. OneClientPerMAC' /\ MemoryAhead' /\ Unused' /\ Stopped'
    <2>1. OneClientPerMAC' /\ MemoryAhead' /\ Stopped'
      BY <1>1, <1>3 DEF OneClientPerMAC, MemoryAhead, Within, Stopped
    <2>2. Unused'
      BY <1>1, Zenon DEF Identity, Registered, Unused, IsHighest
    <2> QED
      BY <2>1, <2>2, Zenon
  <1>8. IssuedDurable' /\ Answered' /\ Presented'
    BY <1>1, Zenon DEF Identity, IssuedDurable, Answered, Presented
  <1> QED
    BY <1>6, <1>7, <1>8, Zenon DEF Identity, Registered

LEMMA NextIdentity == Identity /\ [Next]_vars => Identity'
  <1> SUFFICES ASSUME Identity, [Next]_vars PROVE Identity'
    OBVIOUS
  <1>0. Typed'
    BY NextTyped, Zenon DEF Identity, Registered
  <1>1. CASE Tick \/ UNCHANGED vars
    <2>1. UNCHANGED <<up, clients, byMAC, byToken, seq, disk, call, minted, issued>>
      BY <1>1, Zenon DEF Tick, vars, memory
    <2>2. Registered'
      BY <2>1, SameRegistered, Zenon DEF Identity
    <2>3. IssuedDurable' /\ Answered' /\ Presented'
      BY <2>1, Zenon DEF Identity, IssuedDurable, Answered, Presented
    <2> QED
      BY <1>0, <2>2, <2>3, Zenon DEF Identity
  <1>2. ASSUME NEW h \in Handlers, Step(h)
        PROVE  Identity'
    BY <1>0, <1>2, NewClient, ExistingClient, HeartbeatIdentity, OtherIdentity, ReplyIdentity, Zenon
    DEF Step
  <1> QED
    BY <1>0, <1>1, <1>2, ArrivalIdentity, CrashIdentity, RestartIdentity, Zenon DEF Next

LEMMA IdentityHolds == Spec => []Identity
  BY InitIdentity, NextIdentity, PTL DEF Spec

(***************************************************************************)
(* Every variable keeps its type: in particular no index ever leads        *)
(* Register or Heartbeat to a client that is not there.                    *)
(***************************************************************************)
THEOREM TypeCorrect == Spec => []TypeOK
  <1>1. Identity => TypeOK
    BY Zenon DEF Identity, Typed
  <1> QED
    BY <1>1, IdentityHolds, PTL

(***************************************************************************)
(* A MAC address and a token belong to one client, in memory and in the    *)
(* state file, whatever the order of registrations, failed saves, crashes  *)
(* and restarts (Register, rebuildIndexes).                                *)
(***************************************************************************)
THEOREM OneClientPerMACHolds == Spec => []OneClientPerMAC
  <1>1. Identity => OneClientPerMAC
    BY Zenon DEF Identity, Registered
  <1> QED
    BY <1>1, IdentityHolds, PTL

(***************************************************************************)
(* The indexes of a running server are the inverses of Clients, kept by    *)
(* Register or rebuilt by rebuildIndexes.                                  *)
(***************************************************************************)
THEOREM IndexesAgreeHolds == Spec => []IndexesAgree
  <1>1. Identity => IndexesAgree
    BY Zenon DEF Identity, Registered
  <1> QED
    BY <1>1, IdentityHolds, PTL

(***************************************************************************)
(* A credential that left the server is in the state file and stays there, *)
(* because Register answers only after persistLocked has succeeded.        *)
(***************************************************************************)
THEOREM IssuedDurableHolds == Spec => []IssuedDurable
  <1>1. Identity => IssuedDurable
    BY Zenon DEF Identity
  <1> QED
    BY <1>1, IdentityHolds, PTL

(***************************************************************************)
(* A heartbeat with an issued token is never refused as unknown.           *)
(***************************************************************************)
THEOREM IssuedAcceptedHolds == Spec => []IssuedAccepted
  <1>1. Identity => IssuedAccepted
    <2> SUFFICES ASSUME Identity, NEW h \in Handlers, call[h].op = "heartbeat",
                        call[h].status = "unknown", NEW c \in issued
                 PROVE  c.token # call[h].tok
      BY Zenon DEF IssuedAccepted
    <2>1. call[h].tok = 0
      BY Zenon DEF Identity, Presented
    <2>2. c.token \in Tokens
      BY Zenon DEF Identity, Typed, TypeOK, Credential
    <2> QED
      BY <2>1, <2>2 DEF Tokens
  <1> QED
    BY <1>1, IdentityHolds, PTL

(***************************************************************************)
(* The registry implements the enrolment directory: what Reply hands out   *)
(* is either a credential its workstation already has or one that shares   *)
(* neither MAC address, id nor token with any other.                       *)
(***************************************************************************)
THEOREM EnrolmentHolds == Spec => EnrolmentRefined
  <1>1. Init => Directory!Init
    BY Zenon DEF Init, Directory!Init
  <1>2. Identity /\ [Next]_vars => [Directory!Next]_issued
    <2> SUFFICES ASSUME Identity, [Next]_vars, issued' # issued
                 PROVE  Directory!Next
      BY Zenon
    <2>1. PICK h \in Handlers : Reply(h)
      <3>1. ~Tick /\ ~Crash /\ ~Restart /\ ~(UNCHANGED vars)
        BY Zenon DEF Tick, Crash, Restart, vars
      <3>2. \A g \in Handlers : ~Arrival(g)
        BY Zenon DEF Arrival, BeginRegister, BeginHeartbeat, BeginAdmin
      <3>3. \A g \in Handlers : /\ ~RegisterExisting(g) /\ ~RegisterNew(g)
                                /\ ~RegisterNoToken(g) /\ ~Heartbeat(g)
        BY Zenon DEF RegisterExisting, RegisterNew, RegisterNoToken, Heartbeat
      <3>4. \A g \in Handlers : /\ ~GetState(g) /\ ~Enforce(g) /\ ~AdminUnknown(g)
                                /\ ~SetLock(g) /\ ~SetTimer(g)
        BY Zenon DEF GetState, Enforce, AdminUnknown, SetLock, SetTimer
      <3> QED
        BY <3>1, <3>2, <3>3, <3>4, Zenon DEF Next, Step
    <2> DEFINE c == [mac |-> call[h].mac, id |-> call[h].id, token |-> call[h].tok]
    <2>2. /\ call[h].op = "register" /\ call[h].status = "ok"
          /\ issued' = issued \cup {c}
      BY <2>1, Zenon DEF Reply
    <2>3. c \in Credential /\ c \notin issued
      BY <2>2, ZenonT(30) DEF Identity, Typed, TypeOK, CallsSound, CallSound, Credential
    <2>4. disk.clients[c.id].mac = c.mac /\ disk.clients[c.id].token = c.token
      BY <2>2, Zenon DEF Identity, Answered
    <2>a. IssuedDurable /\ issued \subseteq Credential
      BY Zenon DEF Identity, Typed, TypeOK
    <2>5. ASSUME NEW d \in issued
          PROVE  Directory!Apart(c, d)
      <3> HIDE DEF c
      <3>1. d \in Credential /\ d # c
        BY <2>3, <2>a, Zenon
      <3>2. disk.clients[d.id].mac = d.mac /\ disk.clients[d.id].token = d.token
        BY <2>a, Zenon DEF IssuedDurable
      <3>3. c.id \in Ids /\ d.id \in Ids /\ c.mac \in MACs /\ d.mac \in MACs
        BY <2>3, <3>1, Zenon DEF Credential
      <3>4. c.id # d.id
        BY <2>3, <2>4, <3>1, <3>2 DEF Credential
      <3>5. disk.clients[c.id] # NoClient /\ disk.clients[d.id] # NoClient
        BY <2>4, <3>2, <3>3, KnownClient, ZenonT(30) DEF Identity, Typed, TypeOK
      <3>6. c.mac # d.mac /\ c.token # d.token
        BY <2>4, <3>2, <3>3, <3>4, <3>5, Zenon DEF Identity, Registered, OneClientPerMAC
      <3> QED
        BY <3>4, <3>6, Zenon DEF Directory!Apart
    <2> HIDE DEF c
    <2> QED
      BY <2>2, <2>3, <2>5, Zenon DEF Directory!Next, Directory!Enrol, Directory!Credential, Credential
  <1> QED
    BY <1>1, <1>2, IdentityHolds, PTL DEF Spec, EnrolmentRefined, Directory!Spec

-----------------------------------------------------------------------------
(* Locks and timers that were confirmed                                      *)

\* A missing entry reads as unlocked and untimed, which Entry relies on.
Blank(st) == st.present \/ (~st.locked /\ st.expires = 0)

Agrees(a, st) ==
    /\ a.lock # "any" => st.locked = (a.lock = "locked")
    /\ a.timed => st.expires = a.timer

Acks ==
    \A i \in Ids :
        /\ Blank(disk.states[i]) /\ Agrees(acked[i], disk.states[i])
        /\ up => Blank(states[i]) /\ Agrees(acked[i], states[i])

LEMMA EntryKeeps ==
    ASSUME Typed, Acks, up, NEW i \in Ids
    PROVE  /\ Entry(i) \in ClientState /\ Entry(i).present
           /\ Entry(i).locked = states[i].locked /\ Entry(i).expires = states[i].expires
  <1>1. states[i] \in ClientState /\ Blank(states[i])
    BY Zenon DEF Typed, TypeOK, Acks
  <1>2. states[i].locked \in BOOLEAN
    BY <1>1, Zenon DEF ClientState
  <1> QED
    BY <1>1, <1>2, NewRecords, ZenonT(30) DEF Entry, Blank, NewState

\* A change of one client's entry, saved or not.
LEMMA EntryAcks ==
    ASSUME Typed, Acks, up, up', NEW i \in Ids, NEW st, NEW a, NEW ok \in BOOLEAN,
           states' = [states EXCEPT ![i] = st], acked' = [acked EXCEPT ![i] = a],
           Persist(ok), Blank(st), Agrees(a, st), ok \/ Agrees(a, disk.states[i])
    PROVE  Acks'
  <1>1. states \in [Ids -> ClientState] /\ acked \in [Ids -> Acked]
    BY Zenon DEF Typed, TypeOK
  <1>2. \A k \in Ids : /\ states'[k] = IF k = i THEN st ELSE states[k]
                       /\ acked'[k] = IF k = i THEN a ELSE acked[k]
    BY <1>1, Zenon
  <1>3. \A k \in Ids : Blank(states'[k]) /\ Agrees(acked'[k], states'[k])
    <2>1. \A k \in Ids : Blank(states[k]) /\ Agrees(acked[k], states[k])
      BY Zenon DEF Acks
    <2> QED
      BY <1>2, <2>1, Zenon
  <1>4. CASE ok
    <2>1. disk'.states = states'
      BY <1>4, SavedOrKept, Zenon
    <2> QED
      BY <1>3, <2>1, Zenon DEF Acks
  <1>5. CASE ~ok
    <2>1. disk' = disk
      BY <1>5, SavedOrKept, Zenon
    <2>2. \A k \in Ids : Agrees(acked'[k], disk.states[k])
      <3>1. \A k \in Ids : Agrees(acked[k], disk.states[k])
        BY Zenon DEF Acks
      <3> QED
        BY <1>2, <1>5, <3>1, Zenon
    <2> QED
      BY <1>3, <2>1, <2>2, Zenon DEF Acks
  <1> QED
    BY <1>4, <1>5, Zenon

\* A step that changes no entry, but may save them all.
LEMMA SameAcks ==
    ASSUME Acks, UNCHANGED <<up, states, acked>>,
           disk' = disk \/ (up /\ \E ok \in BOOLEAN : Persist(ok))
    PROVE  Acks'
  <1>1. disk' = disk \/ (up /\ disk'.states = states')
    BY SavedOrKept, Zenon
  <1> QED
    BY <1>1, ZenonT(30) DEF Acks

LEMMA StepAcks ==
    ASSUME Identity, Acks, NEW h \in Handlers, Step(h)
    PROVE  Acks'
  <1>0. Typed /\ CallSound(call[h]) /\ (call[h].pc # "idle" => up)
        /\ states \in [Ids -> ClientState] /\ acked \in [Ids -> Acked]
    BY Zenon DEF Identity, Typed, TypeOK, CallsSound
  <1>a. up' = up
    BY ZenonT(30) DEF Step, RegisterExisting, RegisterNew, RegisterNoToken, Heartbeat, GetState, Enforce,
           AdminUnknown, SetLock, SetTimer, Reply
  <1>b. up
    BY <1>0, Zenon DEF Step, RegisterExisting, RegisterNew, RegisterNoToken, Heartbeat, GetState,
           Enforce, AdminUnknown, SetLock, SetTimer, Reply
  <1>1. CASE RegisterExisting(h) \/ RegisterNoToken(h) \/ Heartbeat(h) \/ GetState(h)
             \/ AdminUnknown(h) \/ Reply(h)
    <2>1. UNCHANGED <<states, acked>>
      BY <1>1, Zenon DEF RegisterExisting, RegisterNoToken, Heartbeat, GetState, AdminUnknown,
                  Reply, memory
    <2>2. disk' = disk \/ \E ok \in BOOLEAN : Persist(ok)
      BY <1>1, ZenonT(30) DEF RegisterExisting, RegisterNoToken, Heartbeat, GetState, AdminUnknown,
                  Reply
    <2> QED
      BY <1>a, <1>b, <2>1, <2>2, SameAcks, Zenon
  <1>2. CASE RegisterNew(h)
    <2> DEFINE i == seq + 1
    <2>1. i \in Ids
      <3>1. seq < MaxId /\ seq \in 0..MaxId
        BY <1>2, Zenon DEF Identity, Typed, TypeOK, RegisterNew
      <3> QED
        BY <3>1, RegistryAssumption DEF Ids
    <2>2. PICK ok \in BOOLEAN : states' = [states EXCEPT ![i] = Entry(i)] /\ Persist(ok)
      BY <1>2, Zenon DEF RegisterNew
    <2>3. acked' = acked
      BY <1>2, Zenon DEF RegisterNew
    <2> HIDE DEF i
    <2>4. acked' = [acked EXCEPT ![i] = acked[i]]
      BY <1>0, <2>1, <2>3, Zenon
    <2>5. Blank(Entry(i)) /\ Agrees(acked[i], Entry(i)) /\ Agrees(acked[i], disk.states[i])
      BY <1>0, <1>b, <2>1, EntryKeeps, ZenonT(30) DEF Acks, Blank, Agrees
    <2> QED
      BY <1>0, <1>a, <1>b, <2>1, <2>2, <2>4, <2>5, EntryAcks, Zenon
  <1>3. ASSUME NEW b \in BOOLEAN, NEW word, NEW ok \in BOOLEAN, call[h].id \in Ids,
               states' = [states EXCEPT ![call[h].id] =
                            [Entry(call[h].id) EXCEPT !.locked = b]],
               acked' = [acked EXCEPT ![call[h].id].lock = word],
               Persist(ok), ok => b = (word = "locked"), ~ok => word = "any"
        PROVE  Acks'
    <2> DEFINE i == call[h].id
               st == [Entry(i) EXCEPT !.locked = b]
               a == [acked[i] EXCEPT !.lock = word]
    <2>1. st.locked = b /\ st.expires = states[i].expires /\ st.present
      BY <1>0, <1>3, <1>b, EntryKeeps, Zenon DEF ClientState
    <2>2. a.lock = word /\ a.timed = acked[i].timed /\ a.timer = acked[i].timer
      BY <1>0, <1>3, Zenon DEF Acked
    <2>3. Agrees(acked[i], states[i]) /\ Agrees(acked[i], disk.states[i])
      BY <1>3, <1>b, Zenon DEF Acks
    <2>4. acked' = [acked EXCEPT ![i] = a] /\ states' = [states EXCEPT ![i] = st]
      BY <1>0, <1>3, Zenon
    <2>6. i \in Ids /\ Persist(ok)
      BY <1>3, Zenon
    <2> HIDE DEF st, a
    <2>5. Blank(st) /\ Agrees(a, st) /\ (ok \/ Agrees(a, disk.states[i]))
      BY <1>3, <2>1, <2>2, <2>3, Zenon DEF Blank, Agrees
    <2> HIDE DEF i
    <2> QED
      BY <1>0, <1>a, <1>b, <2>4, <2>5, <2>6, EntryAcks, Zenon
  <1>4. CASE Enforce(h)
    <2>1. call[h].id \in Ids
      BY <1>0, <1>4, Zenon DEF Enforce, CallSound
    <2>2. PICK ok \in BOOLEAN :
            /\ states' = [states EXCEPT ![call[h].id] =
                            [Entry(call[h].id) EXCEPT !.locked = TRUE]]
            /\ acked' = [acked EXCEPT ![call[h].id].lock = IF ok THEN "locked" ELSE "any"]
            /\ Persist(ok)
      BY <1>4, Zenon DEF Enforce
    <2> QED
      BY <1>3, <2>1, <2>2, Zenon
  <1>5. CASE SetLock(h)
    <2> DEFINE word == IF call[h].op = "lock" THEN "locked" ELSE "unlocked"
    <2>1. call[h].id \in Ids
      BY <1>0, <1>5, Zenon DEF SetLock, CallSound
    <2>2. PICK ok \in BOOLEAN :
            /\ states' = [states EXCEPT ![call[h].id] =
                            [Entry(call[h].id) EXCEPT !.locked = (call[h].op = "lock")]]
            /\ acked' = [acked EXCEPT ![call[h].id].lock = IF ~ok THEN "any" ELSE word]
            /\ Persist(ok)
      BY <1>5, Zenon DEF SetLock
    <2>3. (call[h].op = "lock") \in BOOLEAN /\ (call[h].op = "lock") = (word = "locked")
      OBVIOUS
    <2> HIDE DEF word
    <2> QED
      BY <1>3, <2>1, <2>2, <2>3, Zenon
  <1>6. CASE SetTimer(h)
    <2> DEFINE i == call[h].id
               expires == IF call[h].op = "start" THEN call[h].at + call[h].span ELSE 0
               st == [Entry(i) EXCEPT !.expires = expires]
    <2>1. i \in Ids
      BY <1>0, <1>6, Zenon DEF SetTimer, CallSound
    <2>2. PICK ok \in BOOLEAN :
            /\ states' = [states EXCEPT ![i] = st]
            /\ acked' = [acked EXCEPT ![i].timed = ok,
                                      ![i].timer = IF ok THEN expires ELSE 0]
            /\ Persist(ok)
      BY <1>6, Zenon DEF SetTimer
    <2> HIDE DEF expires, i
    <2> DEFINE a == [acked[i] EXCEPT !.timed = ok, !.timer = IF ok THEN expires ELSE 0]
    <2>3. st.locked = states[i].locked /\ st.expires = expires /\ st.present
      BY <1>0, <1>b, <2>1, EntryKeeps, Zenon DEF ClientState
    <2>4. a.lock = acked[i].lock /\ a.timed = ok /\ (ok => a.timer = expires)
      BY <1>0, <2>1, Zenon DEF Acked
    <2>5. Agrees(acked[i], states[i]) /\ Agrees(acked[i], disk.states[i])
      BY <1>b, <2>1, Zenon DEF Acks
    <2>6. acked' = [acked EXCEPT ![i] = a]
      BY <1>0, <2>1, <2>2, ZenonT(30)
    <2> HIDE DEF st, a
    <2>7. Blank(st) /\ Agrees(a, st) /\ (ok \/ Agrees(a, disk.states[i]))
      BY <2>3, <2>4, <2>5, Zenon DEF Blank, Agrees
    <2> QED
      BY <1>0, <1>a, <1>b, <2>1, <2>2, <2>6, <2>7, EntryAcks, ZenonT(30)
  <1> QED
    BY <1>1, <1>2, <1>4, <1>5, <1>6, Zenon DEF Step

(***************************************************************************)
(* What the server confirmed of a lock or a session timer is in memory and *)
(* in the state file until a later request for that client fails to save   *)
(* (SetLock, StartSession, EndSession, persistLocked, newState).           *)
(***************************************************************************)
THEOREM AckedHoldsAlways == Spec => []AckedHolds
  <1>1. Init => Acks
    BY SMTT(30) DEF Init, Acks, Blank, Agrees, EmptyStates, NoState, NothingAcked
  <1>2. Identity /\ Acks /\ [Next]_vars => Acks'
    <2> SUFFICES ASSUME Identity, Acks, [Next]_vars PROVE Acks'
      BY Zenon
    <2>1. CASE Tick \/ UNCHANGED vars \/ \E h \in Handlers : Arrival(h)
      BY <2>1, SameAcks, ZenonT(30) DEF Tick, vars, memory, Arrival, BeginRegister, BeginHeartbeat,
                            BeginAdmin
    <2>2. CASE Crash
      <3>1. ~up' /\ disk' = disk /\ acked' = acked
        BY <2>2, Zenon DEF Crash
      <3> QED
        BY <3>1, Zenon DEF Acks
    <2>3. CASE Restart
      <3>1. states' = disk.states /\ disk' = disk /\ acked' = acked
        BY <2>3, Zenon DEF Restart
      <3> QED
        BY <3>1, Zenon DEF Acks
    <2> QED
      BY <2>1, <2>2, <2>3, StepAcks, Zenon DEF Next
  <1>3. Acks => AckedHolds
    BY Zenon DEF Acks, AckedHolds, Agrees
  <1> QED
    BY <1>1, <1>2, <1>3, IdentityHolds, PTL DEF Spec

=============================================================================

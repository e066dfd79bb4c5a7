---------------------------- MODULE DisplayProofs ----------------------------
(***************************************************************************)
(* What the administrator is shown: the launcher's state of the server,    *)
(* for any number of addresses, goroutines, retries and open dialogs, and  *)
(* the web interface's states of the workstations, for any number of       *)
(* workers and workstations and any of the time limits.                    *)
(***************************************************************************)
EXTENDS Launcher, StatusCache, SequenceTheorems, TLAPS

(* The launcher shows the state of the current server *)

\* applyResult never shows what is not about the current server.
LEMMA AppliedCurrent ==
    ASSUME ShownIsCurrent, NEW srv, NEW state
    PROVE  Applied(srv, state).about = addr
  BY DEF Applied, ShownIsCurrent

\* Nor does a state that the UI thread puts up itself.
LEMMA ShownCurrent ==
    ASSUME NEW state
    PROVE  Shown(state).about = addr
  BY DEF Shown

\* pollLoop applies an answer after the address may have changed.
LEMMA PollingShows ==
    ASSUME ShownIsCurrent, Polling
    PROVE  ShownIsCurrent'
<1>1. CASE PollApply
  BY <1>1, AppliedCurrent DEF PollApply, ShownIsCurrent
<1>2. CASE PollBegin \/ PollCheck \/ PollEnd
  <2>1. UNCHANGED <<addr, result>>
    BY <1>2, Zenon DEF PollBegin, PollCheck, PollEnd
  <2> QED
    BY <2>1 DEF ShownIsCurrent
<1> QED
  BY <1>1, <1>2 DEF Polling

\* So does the goroutine that verifies a control operation.
LEMMA ControllingShows ==
    ASSUME ShownIsCurrent, NEW g \in Goroutines, Controlling(g)
    PROVE  ShownIsCurrent'
<1>1. CASE VerifyApply(g)
  <2>1. addr' = addr /\ (result' = result \/ result' = Applied(ctl[g].srv, ctl[g].found))
    BY <1>1, Zenon DEF VerifyApply
  <2> QED
    BY <2>1, AppliedCurrent DEF ShownIsCurrent
<1>2. CASE Login(g) \/ Control(g) \/ Verify(g) \/ Report(g) \/ Post(g)
  <2>1. UNCHANGED <<addr, result>>
    BY <1>2, Zenon DEF Login, Control, Verify, Report, Post
  <2> QED
    BY <2>1 DEF ShownIsCurrent
<1> QED
  BY <1>1, <1>2 DEF Controlling

\* A new address comes with a state of its own; everything else that the user
\* does keeps the address.
LEMMA UserShows ==
    ASSUME ShownIsCurrent, User
    PROVE  ShownIsCurrent'
<1>1. ASSUME NEW i \in DOMAIN frames,
             CloseBox(i) \/ \E b \in {"yes", "no"} : Press(i, b)
      PROVE  UNCHANGED <<addr, result>>
  BY <1>1, Zenon DEF CloseBox, Press
<1>2. ASSUME NEW op \in Ops, controlFlow(op)
      PROVE  addr' = addr /\ (result' = result \/ \E state : result' = Shown(state))
  BY <1>2, Zenon DEF controlFlow
<1>3. ASSUME NEW a \in Addresses, adoptServerURL(a)
      PROVE  ShownIsCurrent'
  BY <1>3 DEF adoptServerURL, ShownIsCurrent
<1>4. ASSUME manualCheck PROVE addr' = addr /\ result' = Shown("connecting")
  BY <1>4 DEF manualCheck
<1>5. ASSUME Exit PROVE UNCHANGED <<addr, result>>
  BY <1>5 DEF Exit
<1>6. ASSUME addr' = addr, result' = result \/ \E state : result' = Shown(state)
      PROVE  ShownIsCurrent'
  BY <1>6, ShownCurrent DEF ShownIsCurrent
<1> QED
  BY <1>1, <1>2, <1>3, <1>4, <1>5, <1>6 DEF User

\* No step breaks it.
LEMMA NextShows == ShownIsCurrent /\ [Next]_vars => ShownIsCurrent'
<1> SUFFICES ASSUME ShownIsCurrent, [Next]_vars PROVE ShownIsCurrent'
  OBVIOUS
<1>1. CASE Return \/ TakeNotice
  <2>1. UNCHANGED <<addr, result>>
    BY <1>1, Zenon DEF Return, TakeNotice
  <2> QED
    BY <2>1 DEF ShownIsCurrent
<1>2. CASE \E a \in Addresses : Serve(a) \/ Die(a)
  <2>1. UNCHANGED <<addr, result>>
    BY <1>2, Zenon DEF Serve, Die
  <2> QED
    BY <2>1 DEF ShownIsCurrent
<1>3. CASE UNCHANGED vars
  BY <1>3 DEF vars, ShownIsCurrent
<1> QED
  BY <1>1, <1>2, <1>3, PollingShows, ControllingShows, UserShows, Zenon DEF Next

\* Answers of checks that were made of an earlier server are dropped
\* (applyResult), so that the state on the screen is about the address on the
\* screen, whatever the goroutines and the user do.
THEOREM AlwaysCurrent == Spec => []ShownIsCurrent
<1>1. Init => ShownIsCurrent
  BY ShownCurrent DEF Init, ShownIsCurrent
<1> QED
  BY <1>1, NextShows, PTL DEF Spec

-----------------------------------------------------------------------------
(* The types of the launcher *)

Jobs == [pc : {"idle", "login", "control", "verify", "answered", "report", "post"},
         op : Ops, srv : Addresses \cup {NoServer}, mine : BOOLEAN,
         outcome : Outcomes, found : States, checks : 0..Checks, text : Texts]
Polls == [pc : {"wait", "check", "answered", "ended"}, srv : Addresses \cup {NoServer},
          found : States, tries : 0..Retries]
Results == [state : States, about : Addresses]

\* What a check finds is a state, whether the server serves or not.
LEMMA FoundStates == \A up : Found(up) \subseteq States
  BY DEF Found, States

\* The states that are put up are states about an address.
LEMMA ResultsTyped ==
    ASSUME TypeOK, NEW state \in States
    PROVE  /\ Shown(state) \in Results
           /\ \A srv : Applied(srv, state) \in Results
  BY DEF TypeOK, Shown, Applied, Results

\* A polling goroutine, and a control goroutine, with nothing to do.
LEMMA NothingTyped == NoPoll \in Polls /\ NoControl \in Jobs
  BY LauncherAssumption DEF NoPoll, NoControl, Polls, Jobs, States, Ops, Outcomes, Texts

\* pollLoop counts no more than Retries attempts, and keeps what it found.
LEMMA PollingTyped ==
    ASSUME TypeOK, Polling
    PROVE  TypeOK'
<1>1. poll \in Polls /\ addr \in Addresses /\ NoPoll \in Polls
  BY NothingTyped DEF TypeOK, Polls
<1>2. ASSUME poll' \in Polls, result' \in Results, checkNow' \in BOOLEAN,
             UNCHANGED <<running, web, addr, session, busy, enabled, frames, slot, ctl,
                         notices, controls>>
      PROVE  TypeOK'
  BY <1>2 DEF TypeOK, Polls, Results
<1>3. result \in Results /\ checkNow \in BOOLEAN
  BY DEF TypeOK, Results
<1>4. CASE PollBegin
  <2>1. poll' = [NoPoll EXCEPT !.pc = "check", !.srv = addr]
    BY <1>4 DEF PollBegin
  <2>2. poll' \in Polls
    BY <1>1, <2>1, Zenon DEF Polls
  <2> QED
    BY <1>2, <1>3, <1>4, <2>2, Zenon DEF PollBegin
<1>5. CASE PollCheck
  <2>1. PICK s \in States :
            poll' = IF s = "timeout" /\ poll.tries < Retries
                    THEN [poll EXCEPT !.tries = poll.tries + 1]
                    ELSE [poll EXCEPT !.pc = "answered", !.found = s]
    BY <1>5, FoundStates, Zenon DEF PollCheck
  <2>2. poll.tries \in 0..Retries
    BY <1>1 DEF Polls
  <2>3. ASSUME poll.tries < Retries PROVE [poll EXCEPT !.tries = poll.tries + 1] \in Polls
    <3>1. poll.tries + 1 \in 0..Retries
      BY <2>2, <2>3, LauncherAssumption
    <3> QED
      BY <1>1, <3>1 DEF Polls
  <2>4. [poll EXCEPT !.pc = "answered", !.found = s] \in Polls
    BY <1>1, Zenon DEF Polls
  <2>5. poll' \in Polls
    BY <2>1, <2>3, <2>4
  <2> QED
    BY <1>2, <1>3, <1>5, <2>5 DEF PollCheck
<1>6. CASE PollApply
  <2>1. result' \in Results
    BY <1>1, <1>6, ResultsTyped DEF PollApply, Polls
  <2> QED
    BY <1>1, <1>2, <1>3, <1>6, <2>1 DEF PollApply
<1>7. CASE PollEnd
  <2>1. poll' \in Polls
    BY <1>1, <1>7 DEF PollEnd, Polls
  <2> QED
    BY <1>2, <1>3, <1>7, <2>1 DEF PollEnd
<1> QED
  BY <1>4, <1>5, <1>6, <1>7 DEF Polling

\* A step of a control goroutine leaves the goroutine with a job.
LEMMA AtTyped ==
    ASSUME ctl \in [Goroutines -> Jobs], NEW g \in Goroutines, NEW j \in Jobs, At(g, j)
    PROVE  ctl' \in [Goroutines -> Jobs]
  BY Zenon DEF At

\* The state that a control goroutine may change.
LEMMA ControlTyped ==
    ASSUME TypeOK, ctl' \in [Goroutines -> Jobs],
           session' \in BOOLEAN, busy' \in BOOLEAN, checkNow' \in BOOLEAN,
           web' \in [Addresses -> BOOLEAN], result' \in Results,
           notices' \in Seq([text : Texts, outcome : Outcomes]),
           Len(notices') <= MaxNotices,
           UNCHANGED <<running, addr, poll, enabled, frames, slot, controls>>
    PROVE  TypeOK'
  BY DEF TypeOK, Jobs, Results

\* Where a control goroutine stands, as the next lemmas use it.
LEMMA Parts ==
    ASSUME TypeOK
    PROVE  /\ ctl \in [Goroutines -> Jobs] /\ result \in Results
           /\ session \in BOOLEAN /\ busy \in BOOLEAN /\ checkNow \in BOOLEAN
           /\ web \in [Addresses -> BOOLEAN]
           /\ notices \in Seq([text : Texts, outcome : Outcomes])
           /\ Len(notices) <= MaxNotices
  BY DEF TypeOK, Jobs, Results

\* The changes that the steps make to a job.
LEMMA JobChanges ==
    ASSUME NEW j \in Jobs
    PROVE  /\ [j EXCEPT !.pc = "control"] \in Jobs
           /\ [j EXCEPT !.pc = "post"] \in Jobs
           /\ [j EXCEPT !.pc = "post", !.text = "signin"] \in Jobs
           /\ \A out \in Outcomes : [j EXCEPT !.pc = "verify", !.outcome = out] \in Jobs
           /\ \A t \in Texts :
                [j EXCEPT !.pc = "report", !.found = "connecting", !.text = t] \in Jobs
           /\ [j EXCEPT !.pc = "verify", !.found = "connecting"] \in Jobs
           /\ j.checks < Checks =>
                \A s \in States :
                  [j EXCEPT !.pc = "answered", !.found = s, !.checks = j.checks + 1] \in Jobs
           /\ [j EXCEPT !.mine = FALSE] \in Jobs
<1>1. /\ [j EXCEPT !.pc = "control"] \in Jobs
      /\ [j EXCEPT !.pc = "post"] \in Jobs
      /\ [j EXCEPT !.mine = FALSE] \in Jobs
  BY Zenon DEF Jobs
<1>2. [j EXCEPT !.pc = "post", !.text = "signin"] \in Jobs
  BY Zenon DEF Jobs, Texts
<1>3. ASSUME NEW out \in Outcomes PROVE [j EXCEPT !.pc = "verify", !.outcome = out] \in Jobs
  BY Zenon DEF Jobs
<1>4. "connecting" \in States
  BY DEF States
<1>5. ASSUME NEW t \in Texts
      PROVE  [j EXCEPT !.pc = "report", !.found = "connecting", !.text = t] \in Jobs
  BY <1>4, Zenon DEF Jobs
<1>6. [j EXCEPT !.pc = "verify", !.found = "connecting"] \in Jobs
  BY <1>4, Zenon DEF Jobs
<1>7. ASSUME j.checks < Checks, NEW s \in States
      PROVE  [j EXCEPT !.pc = "answered", !.found = s, !.checks = j.checks + 1] \in Jobs
  <2>1. j.checks + 1 \in 0..Checks
    <3>1. j.checks \in 0..Checks
      BY DEF Jobs
    <3> QED
      BY <1>7, <3>1, LauncherAssumption
  <2> QED
    BY <2>1, Zenon DEF Jobs
<1> QED
  BY <1>1, <1>2, <1>3, <1>5, <1>6, <1>7, Zenon

\* Every text that a goroutine may post.
LEMMA TextTyped == \A outcome, verified : Text(outcome, verified) \in Texts
  BY DEF Text, Texts

\* A sequence with room for one element more, and with one less.
LEMMA AppendSeq ==
    ASSUME NEW S, NEW s \in Seq(S), NEW e \in S, NEW m \in Nat, Len(s) < m
    PROVE  /\ Append(s, e) \in Seq(S) /\ Len(Append(s, e)) <= m
           /\ Len(s) + 1 \in 0..Len(Append(s, e))
<1>1. Append(s, e) \in Seq(S) /\ Len(s) \in Nat /\ Len(Append(s, e)) = Len(s) + 1
  OBVIOUS
<1> QED
  BY <1>1

LEMMA FrontSeq ==
    ASSUME NEW S, NEW s \in Seq(S), s # <<>>
    PROVE  /\ Len(s) \in Nat /\ Len(s) # 0 /\ s[Len(s)] \in S
           /\ SubSeq(s, 1, Len(s) - 1) \in Seq(S)
           /\ Len(SubSeq(s, 1, Len(s) - 1)) = Len(s) - 1
<1> DEFINE n == Len(s) - 1
<1>1. Len(s) \in Nat /\ Len(s) # 0 /\ s[Len(s)] \in S
  OBVIOUS
<1>2. 1 \in Int /\ n \in Int /\ \A i \in 1..n : s[i] \in S
  BY <1>1
<1> HIDE DEF n
<1>3. /\ SubSeq(s, 1, n) \in Seq(S)
      /\ Len(SubSeq(s, 1, n)) = IF 1 <= n THEN n - 1 + 1 ELSE 0
  BY <1>2, SubSeqProperties
<1>4. (IF 1 <= n THEN n - 1 + 1 ELSE 0) = n
  <2>1. n \in Nat
    BY <1>1 DEF n
  <2>2. ASSUME NEW k \in Nat PROVE (IF 1 <= k THEN k - 1 + 1 ELSE 0) = k
    OBVIOUS
  <2> QED
    BY <2>1, <2>2, Zenon
<1>5. Len(SubSeq(s, 1, n)) = n
  BY <1>3, <1>4
<1> QED
  BY <1>1, <1>3, <1>5, Zenon DEF n

\* The control goroutine: what it finds, reports and posts.
LEMMA ControllingTyped ==
    ASSUME TypeOK, NEW g \in Goroutines, Controlling(g)
    PROVE  TypeOK'
<1>1. /\ ctl \in [Goroutines -> Jobs] /\ result \in Results
      /\ session \in BOOLEAN /\ busy \in BOOLEAN /\ checkNow \in BOOLEAN
      /\ web \in [Addresses -> BOOLEAN]
      /\ notices \in Seq([text : Texts, outcome : Outcomes])
      /\ Len(notices) <= MaxNotices
  BY Parts
<1>2. ctl[g] \in Jobs
  BY <1>1
<1>3. ASSUME SignInAgain(g)
      PROVE  ctl' \in [Goroutines -> Jobs] /\ session' \in BOOLEAN /\ busy' \in BOOLEAN
  <2>1. At(g, [ctl[g] EXCEPT !.pc = "post", !.text = "signin"])
    BY <1>3 DEF SignInAgain
  <2>2. ctl' \in [Goroutines -> Jobs]
    BY <1>1, <1>2, <2>1, AtTyped, JobChanges, Zenon
  <2> QED
    BY <1>3, <2>2, Zenon DEF SignInAgain
<1>4. ASSUME NEW verified, Verified(g, verified) PROVE ctl' \in [Goroutines -> Jobs]
  <2>1. PICK t \in Texts :
            At(g, [ctl[g] EXCEPT !.pc = "report", !.found = "connecting", !.text = t])
    BY <1>4, TextTyped, Zenon DEF Verified
  <2>2. [ctl[g] EXCEPT !.pc = "report", !.found = "connecting", !.text = t] \in Jobs
    BY <1>2, JobChanges, Zenon
  <2> QED
    BY <1>1, <2>1, <2>2, AtTyped
<1>5. CASE Login(g)
  <2>1. CASE /\ session' = (session \/ ctl[g].mine)
             /\ At(g, [ctl[g] EXCEPT !.pc = "control"])
             /\ UNCHANGED busy
    <3>1. ctl' \in [Goroutines -> Jobs]
      BY <1>1, <1>2, <2>1, AtTyped, JobChanges, Zenon
    <3>2. session' \in BOOLEAN /\ busy' \in BOOLEAN
      BY <1>1, <2>1
    <3> QED
      BY <1>1, <1>5, <3>1, <3>2, ControlTyped DEF Login
  <2>2. CASE SignInAgain(g)
    BY <1>1, <1>3, <1>5, <2>2, ControlTyped DEF Login
  <2> QED
    BY <1>5, <2>1, <2>2 DEF Login
<1>6. CASE Control(g)
  <2>1. ASSUME NEW out \in Outcomes,
               At(g, [ctl[g] EXCEPT !.pc = "verify", !.outcome = out])
        PROVE  ctl' \in [Goroutines -> Jobs]
    <3>1. [ctl[g] EXCEPT !.pc = "verify", !.outcome = out] \in Jobs
      BY <1>2, JobChanges, Zenon
    <3> QED
      BY <1>1, <2>1, <3>1, AtTyped
  <2>2. \/ /\ \E out \in Outcomes : At(g, [ctl[g] EXCEPT !.pc = "verify", !.outcome = out])
           /\ web' = web \/ web' = [web EXCEPT ![ctl[g].srv] = FALSE]
           /\ UNCHANGED <<session, busy>>
        \/ SignInAgain(g) /\ UNCHANGED web
    BY <1>6 DEF Control, Outcomes
  <2>3. [web EXCEPT ![ctl[g].srv] = FALSE] \in [Addresses -> BOOLEAN]
    BY <1>1, Zenon
  <2>4. /\ ctl' \in [Goroutines -> Jobs] /\ web' \in [Addresses -> BOOLEAN]
        /\ session' \in BOOLEAN /\ busy' \in BOOLEAN
    BY <1>1, <1>3, <2>1, <2>2, <2>3, Zenon
  <2>5. UNCHANGED <<running, addr, result, checkNow, poll, enabled, frames, slot, notices,
                    controls>>
    BY <1>6, Zenon DEF Control
  <2> QED
    BY <1>1, <2>4, <2>5, ControlTyped
<1>7. CASE Verify(g)
  <2>1. \/ Verified(g, FALSE)
        \/ /\ ctl[g].checks < Checks
           /\ \E s \in States : At(g, [ctl[g] EXCEPT !.pc = "answered", !.found = s,
                                                     !.checks = ctl[g].checks + 1])
    BY <1>7, FoundStates, Zenon DEF Verify
  <2>2. ctl' \in [Goroutines -> Jobs]
    <3>1. ASSUME ctl[g].checks < Checks, NEW s \in States,
                 At(g, [ctl[g] EXCEPT !.pc = "answered", !.found = s,
                                      !.checks = ctl[g].checks + 1])
          PROVE  ctl' \in [Goroutines -> Jobs]
      BY <1>1, <1>2, <3>1, AtTyped, JobChanges, Zenon
    <3> QED
      BY <1>4, <2>1, <3>1, Zenon
  <2> QED
    BY <1>1, <1>7, <2>2, ControlTyped, Zenon DEF Verify
<1>8. CASE VerifyApply(g)
  <2>1. ctl[g].found \in States
    BY <1>2 DEF Jobs
  <2>2. result' \in Results
    BY <1>1, <1>8, <2>1, ResultsTyped, Zenon DEF VerifyApply
  <2>3. \/ \E verified : Verified(g, verified)
        \/ At(g, [ctl[g] EXCEPT !.pc = "verify", !.found = "connecting"])
    BY <1>8, Zenon DEF VerifyApply
  <2>4. ctl' \in [Goroutines -> Jobs]
    BY <1>1, <1>2, <1>4, <2>3, AtTyped, JobChanges, Zenon
  <2> QED
    BY <1>1, <1>8, <2>2, <2>4, ControlTyped DEF VerifyApply
<1>9. CASE Report(g)
  <2>1. ctl' \in [Goroutines -> Jobs]
    BY <1>1, <1>2, <1>9, AtTyped, JobChanges, Zenon DEF Report
  <2> QED
    BY <1>1, <1>9, <2>1, ControlTyped, Zenon DEF Report
<1>10. CASE Post(g)
  <2>1. ctl' \in [Goroutines -> Jobs]
    BY <1>1, <1>10, AtTyped, NothingTyped DEF Post
  <2>2. [text |-> ctl[g].text, outcome |-> ctl[g].outcome] \in [text : Texts, outcome : Outcomes]
    BY <1>2 DEF Jobs
  <2>3. \/ notices' = notices
        \/ /\ Len(notices) < MaxNotices
           /\ notices' = Append(notices, [text |-> ctl[g].text, outcome |-> ctl[g].outcome])
    BY <1>10, Zenon DEF Post
  <2>4. notices' \in Seq([text : Texts, outcome : Outcomes]) /\ Len(notices') <= MaxNotices
    <3>1. CASE notices' = notices
      BY <1>1, <3>1, Zenon
    <3>2. CASE /\ Len(notices) < MaxNotices
               /\ notices' = Append(notices, [text |-> ctl[g].text, outcome |-> ctl[g].outcome])
      BY <1>1, <2>2, <3>2, AppendSeq, LauncherAssumption, Zenon
    <3> QED
      BY <2>3, <3>1, <3>2
  <2> QED
    BY <1>1, <1>10, <2>1, <2>4, ControlTyped DEF Post
<1> QED
  BY <1>5, <1>6, <1>7, <1>8, <1>9, <1>10 DEF Controlling

\* A dialog is opened on top of a stack that has room for it.
LEMMA OpenTyped ==
    ASSUME NEW stack \in Seq(Frame), NEW kind \in Kinds, NEW op \in Ops,
           NEW srv \in Addresses, Open(stack, kind, op, srv)
    PROVE  /\ frames' \in Seq(Frame) /\ Len(frames') <= MaxDepth
           /\ slot' \in 0..Len(frames') /\ enabled' \in BOOLEAN
<1> DEFINE new == [kind |-> kind, op |-> op, srv |-> srv, mine |-> TRUE, open |-> TRUE,
                   answer |-> "none", own |-> TRUE]
<1>1. new \in Frame
  BY DEF Frame
<1>2. /\ Len(stack) < MaxDepth /\ frames' = Append(stack, new)
      /\ slot' = Len(stack) + 1 /\ enabled' = FALSE
  BY DEF Open
<1> HIDE DEF new
<1>3. /\ Append(stack, new) \in Seq(Frame) /\ Len(Append(stack, new)) <= MaxDepth
      /\ Len(stack) + 1 \in 0..Len(Append(stack, new))
  BY <1>1, <1>2, AppendSeq, LauncherAssumption, Zenon
<1>4. enabled' \in BOOLEAN
  BY <1>2, Zenon
<1> QED
  BY <1>2, <1>3, <1>4, Zenon

\* The innermost dialog is taken off the stack.
LEMMA UnwindTyped ==
    ASSUME TypeOK, frames # <<>>
    PROVE  LET rest == SubSeq(frames, 1, Len(frames) - 1)
           IN  /\ rest \in Seq(Frame) /\ Len(rest) <= MaxDepth
               /\ frames[Len(frames)] \in Frame
               /\ Unwind(rest) => /\ frames' \in Seq(Frame) /\ Len(frames') <= MaxDepth
                                  /\ slot' \in 0..Len(frames') /\ enabled' \in BOOLEAN
<1> DEFINE rest == SubSeq(frames, 1, Len(frames) - 1)
<1>1. frames \in Seq(Frame) /\ Len(frames) <= MaxDepth
  BY DEF TypeOK
<1>2. Len(frames) \in Nat /\ Len(frames) # 0 /\ frames[Len(frames)] \in Frame
  BY <1>1, FrontSeq, Zenon
<1>3. rest \in Seq(Frame) /\ Len(rest) = Len(frames) - 1
  BY <1>1, FrontSeq, Zenon
<1> HIDE DEF rest
<1>4. Unwind(rest) => frames' = rest /\ slot' = 0 /\ enabled' = TRUE
  BY DEF Unwind
<1>5. Len(rest) <= MaxDepth /\ 0 \in 0..Len(rest)
  BY <1>1, <1>2, <1>3, LauncherAssumption
<1>6. Unwind(rest) => /\ frames' \in Seq(Frame) /\ Len(frames') <= MaxDepth
                      /\ slot' \in 0..Len(frames') /\ enabled' \in BOOLEAN
  BY <1>3, <1>4, <1>5
<1> QED
  BY <1>2, <1>3, <1>5, <1>6 DEF rest

\* controlFlow starts a goroutine with what its dialog was about.
LEMMA StartTyped ==
    ASSUME TypeOK, NEW frame \in Frame, NEW first \in {"control", "login"},
           Start(frame, first)
    PROVE  ctl' \in [Goroutines -> Jobs] /\ busy' \in BOOLEAN
<1>1. PICK g \in Goroutines :
          ctl' = [ctl EXCEPT ![g] = [NoControl EXCEPT !.pc = first, !.op = frame.op,
                                       !.srv = frame.srv, !.mine = frame.mine]]
  BY Zenon DEF Start
<1> DEFINE new == [NoControl EXCEPT !.pc = first, !.op = frame.op,
                                    !.srv = frame.srv, !.mine = frame.mine]
<1>2. new \in Jobs
  BY NothingTyped, Zenon DEF Jobs, Frame
<1> HIDE DEF new
<1>3. ctl' \in [Goroutines -> Jobs]
  BY <1>1, <1>2, Parts DEF new
<1> QED
  BY <1>3 DEF Start

\* The state that the UI thread may change.
LEMMA DispatchTyped ==
    ASSUME TypeOK,
           frames' \in Seq(Frame), Len(frames') <= MaxDepth, slot' \in 0..Len(frames'),
           running' \in BOOLEAN, enabled' \in BOOLEAN, busy' \in BOOLEAN,
           session' \in BOOLEAN, checkNow' \in BOOLEAN, addr' \in Addresses,
           result' \in Results, ctl' \in [Goroutines -> Jobs],
           controls' \in 0..MaxControls,
           notices' \in Seq([text : Texts, outcome : Outcomes]),
           Len(notices') <= MaxNotices,
           UNCHANGED <<web, poll>>
    PROVE  TypeOK'
  BY DEF TypeOK, Jobs, Results

\* What the UI thread finds.
LEMMA DispatchParts ==
    ASSUME TypeOK
    PROVE  /\ frames \in Seq(Frame) /\ Len(frames) <= MaxDepth /\ slot \in 0..Len(frames)
           /\ running \in BOOLEAN /\ enabled \in BOOLEAN /\ addr \in Addresses
           /\ controls \in 0..MaxControls
  BY DEF TypeOK

\* A step that only changes dialogs on the stack leaves a stack of dialogs.
LEMMA FramesTyped ==
    ASSUME TypeOK, DOMAIN frames' = DOMAIN frames, frames' \in [DOMAIN frames -> Frame]
    PROVE  frames' \in Seq(Frame) /\ Len(frames') <= MaxDepth /\ Len(frames') = Len(frames)
<1>1. frames \in Seq(Frame) /\ Len(frames) <= MaxDepth
  BY DispatchParts
<1>2. Len(frames) \in Nat /\ DOMAIN frames = 1..Len(frames)
  BY <1>1
<1>3. frames' \in [1..Len(frames) -> Frame]
  BY <1>2
<1>4. frames' \in Seq(Frame) /\ Len(frames') = Len(frames)
  BY <1>2, <1>3
<1> QED
  BY <1>1, <1>4

\* A dialog that gets an answer, or closes, is a dialog.
LEMMA DialogTyped ==
    ASSUME NEW D, NEW f \in [D -> Frame], NEW k
    PROVE  /\ \A a \in {"yes", "no"} : [f EXCEPT ![k].answer = a] \in [D -> Frame]
           /\ \A o \in BOOLEAN : [f EXCEPT ![k].own = o] \in [D -> Frame]
           /\ [f EXCEPT ![k].open = FALSE] \in [D -> Frame]
<1>1. \A e \in Frame : \A a \in {"yes", "no"}, o \in BOOLEAN :
          /\ [e EXCEPT !.answer = a] \in Frame /\ [e EXCEPT !.own = o] \in Frame
          /\ [e EXCEPT !.open = FALSE] \in Frame
  BY Zenon DEF Frame
<1> QED
  BY <1>1, Zenon

\* Dialog answers and dialogs that close.
LEMMA AnswersTyped ==
    ASSUME TypeOK, NEW i \in DOMAIN frames,
           CloseBox(i) \/ \E b \in {"yes", "no"} : Press(i, b)
    PROVE  TypeOK'
<1>1. UNCHANGED <<running, web, addr, session, result, busy, checkNow, poll, enabled, slot,
                  ctl, notices, controls>>
  BY Zenon DEF CloseBox, Press
<1>2. \/ \E a \in {"yes", "no"}, o \in BOOLEAN :
            frames' = [frames EXCEPT ![slot].answer = a, ![slot].own = o, ![i].open = FALSE]
      \/ frames' = [frames EXCEPT ![i].open = FALSE]
  BY Zenon DEF CloseBox, Press
<1>3. frames \in Seq(Frame) /\ frames \in [DOMAIN frames -> Frame]
  BY DispatchParts
<1>4. ASSUME NEW a \in {"yes", "no"}, NEW o \in BOOLEAN,
             frames' = [frames EXCEPT ![slot].answer = a, ![slot].own = o, ![i].open = FALSE]
      PROVE  frames' \in [DOMAIN frames -> Frame]
  <2> DEFINE f == [frames EXCEPT ![slot].answer = a]
             h == [f EXCEPT ![slot].own = o]
  <2>1. f \in [DOMAIN frames -> Frame]
    BY <1>3, DialogTyped, Zenon
  <2>2. h \in [DOMAIN frames -> Frame]
    BY <2>1, DialogTyped, Zenon
  <2>3. frames' = [h EXCEPT ![i].open = FALSE]
    BY <1>4
  <2> HIDE DEF h
  <2>4. [h EXCEPT ![i].open = FALSE] \in [DOMAIN frames -> Frame]
    BY <2>2, DialogTyped, Zenon
  <2> QED
    BY <2>3, <2>4, Zenon
<1>5. DOMAIN frames' = DOMAIN frames /\ frames' \in [DOMAIN frames -> Frame]
  <2>1. [frames EXCEPT ![i].open = FALSE] \in [DOMAIN frames -> Frame]
    BY <1>3, DialogTyped, Zenon
  <2>2. frames' \in [DOMAIN frames -> Frame]
    BY <1>2, <1>4, <2>1, Zenon
  <2> QED
    BY <2>2
<1>6. frames' \in Seq(Frame) /\ Len(frames') <= MaxDepth /\ Len(frames') = Len(frames)
  BY <1>5, FramesTyped
<1> QED
  BY <1>1, <1>6, Parts, DispatchParts, DispatchTyped, Zenon

\* The commands of the user.
LEMMA UserTyped ==
    ASSUME TypeOK, User
    PROVE  TypeOK'
<1>1. /\ frames \in Seq(Frame) /\ Len(frames) <= MaxDepth /\ slot \in 0..Len(frames)
      /\ running \in BOOLEAN /\ enabled \in BOOLEAN /\ addr \in Addresses
      /\ controls \in 0..MaxControls /\ frames \in [DOMAIN frames -> Frame]
  BY DispatchParts
<1>2. "connecting" \in States /\ "stopping" \in States /\ "starting" \in States
  BY DEF States
<1>3. ASSUME NEW op \in Ops, controlFlow(op)
      PROVE  TypeOK'
  <2>1. \E kind \in Kinds : Open(frames, kind, op, addr)
    BY <1>3 DEF controlFlow, Kinds
  <2>2. /\ frames' \in Seq(Frame) /\ Len(frames') <= MaxDepth
        /\ slot' \in 0..Len(frames') /\ enabled' \in BOOLEAN
    BY <1>1, <2>1, OpenTyped, Zenon
  <2>3. result' = result \/ \E state \in States : result' = Shown(state)
    BY <1>2, <1>3 DEF controlFlow
  <2>4. result' \in Results
    BY <2>3, Parts, ResultsTyped
  <2>5. controls' = controls \/ (controls < MaxControls /\ controls' = controls + 1)
    BY <1>3, Zenon DEF controlFlow
  <2>6. controls' \in 0..MaxControls
    BY <1>1, <2>5, LauncherAssumption
  <2>7. UNCHANGED <<running, web, addr, session, busy, checkNow, poll, ctl, notices>>
    BY <1>3, Zenon DEF controlFlow
  <2> QED
    BY <1>1, <2>2, <2>4, <2>6, <2>7, Parts, DispatchTyped, Zenon
<1>4. ASSUME NEW a \in Addresses, adoptServerURL(a)
      PROVE  TypeOK'
  <2>1. /\ addr' = a /\ session' = FALSE /\ checkNow' = TRUE
        /\ result' = [state |-> "connecting", about |-> a]
        /\ frames' = [i \in DOMAIN frames |-> [frames[i] EXCEPT !.mine = FALSE]]
        /\ ctl' = [g \in Goroutines |-> [ctl[g] EXCEPT !.mine = FALSE]]
        /\ UNCHANGED <<running, web, busy, poll, enabled, slot, notices, controls>>
    BY <1>4, Zenon DEF adoptServerURL
  <2>2. \A f \in Frame : [f EXCEPT !.mine = FALSE] \in Frame
    BY Zenon DEF Frame
  <2>3. DOMAIN frames' = DOMAIN frames /\ frames' \in [DOMAIN frames -> Frame]
    BY <1>1, <2>1, <2>2
  <2>4. frames' \in Seq(Frame) /\ Len(frames') <= MaxDepth /\ Len(frames') = Len(frames)
    BY <2>3, FramesTyped
  <2>5. ctl' \in [Goroutines -> Jobs]
    BY <2>1, Parts, JobChanges, Zenon
  <2>6. result' \in Results
    BY <1>2, <2>1 DEF Results
  <2>7. session' \in BOOLEAN /\ checkNow' \in BOOLEAN
    BY <2>1, Zenon
  <2> QED
    BY <1>1, <2>1, <2>4, <2>5, <2>6, <2>7, Parts, DispatchTyped, Zenon
<1>5. ASSUME manualCheck PROVE TypeOK'
  <2>1. /\ result' = Shown("connecting") /\ checkNow' = TRUE
        /\ UNCHANGED <<running, web, addr, session, busy, poll, enabled, frames, slot, ctl,
                       notices, controls>>
    BY <1>5, Zenon DEF manualCheck
  <2>2. result' \in Results /\ checkNow' \in BOOLEAN
    BY <1>2, <2>1, ResultsTyped
  <2> QED
    BY <1>1, <2>1, <2>2, Parts, DispatchTyped, Zenon
<1>6. ASSUME Exit PROVE TypeOK'
  <2>1. /\ running' = FALSE
        /\ frames' = [i \in DOMAIN frames |-> [frames[i] EXCEPT !.open = FALSE]]
        /\ UNCHANGED <<web, addr, session, result, busy, checkNow, poll, enabled, slot, ctl,
                       notices, controls>>
    BY <1>6, Zenon DEF Exit
  <2>2. \A f \in Frame : [f EXCEPT !.open = FALSE] \in Frame
    BY Zenon DEF Frame
  <2>3. DOMAIN frames' = DOMAIN frames /\ frames' \in [DOMAIN frames -> Frame]
    BY <1>1, <2>1, <2>2
  <2>4. frames' \in Seq(Frame) /\ Len(frames') <= MaxDepth /\ Len(frames') = Len(frames)
    BY <2>3, FramesTyped
  <2>5. running' \in BOOLEAN
    BY <2>1, Zenon
  <2> QED
    BY <1>1, <2>1, <2>4, <2>5, Parts, DispatchTyped, Zenon
<1> QED
  BY <1>3, <1>4, <1>5, <1>6, AnswersTyped, Zenon DEF User

\* controlFlow goes on when its dialog is gone.
LEMMA ReturnTyped ==
    ASSUME TypeOK, Return
    PROVE  TypeOK'
<1> DEFINE n == Len(frames)
           top == frames[n]
           rest == SubSeq(frames, 1, n - 1)
<1>1. /\ frames \in Seq(Frame) /\ slot \in 0..Len(frames)
      /\ running \in BOOLEAN /\ enabled \in BOOLEAN /\ addr \in Addresses
      /\ controls \in 0..MaxControls
  BY DispatchParts
<1>2. /\ frames # <<>>
      /\ UNCHANGED <<running, web, addr, session, result, checkNow, poll, notices, controls>>
  BY Zenon DEF Return
<1>3. \/ Unwind(rest) /\ Start([top EXCEPT !.srv = addr, !.mine = TRUE], "control")
      \/ Open(rest, "password", top.op, addr) /\ UNCHANGED <<ctl, busy>>
      \/ Unwind(rest) /\ Start(top, "login")
      \/ Unwind(rest) /\ UNCHANGED <<ctl, busy>>
  BY Zenon DEF Return
<1>4. /\ rest \in Seq(Frame) /\ top \in Frame
      /\ Unwind(rest) => /\ frames' \in Seq(Frame) /\ Len(frames') <= MaxDepth
                         /\ slot' \in 0..Len(frames') /\ enabled' \in BOOLEAN
  BY <1>2, UnwindTyped, Zenon
<1> HIDE DEF rest, top
<1>5. /\ [top EXCEPT !.srv = addr, !.mine = TRUE] \in Frame
      /\ top.op \in Ops
  BY <1>1, <1>4, Zenon DEF Frame
<1>6. "password" \in Kinds
  BY DEF Kinds
<1>7. /\ frames' \in Seq(Frame) /\ Len(frames') <= MaxDepth
      /\ slot' \in 0..Len(frames') /\ enabled' \in BOOLEAN
  BY <1>1, <1>3, <1>4, <1>5, <1>6, OpenTyped, Zenon
<1>8. ctl' \in [Goroutines -> Jobs] /\ busy' \in BOOLEAN
  BY <1>3, <1>4, <1>5, Parts, StartTyped, Zenon
<1> QED
  BY <1>1, <1>2, <1>7, <1>8, Parts, DispatchTyped, Zenon

\* A notice is shown.
LEMMA TakeNoticeTyped ==
    ASSUME TypeOK, TakeNotice
    PROVE  TypeOK'
<1>1. /\ frames \in Seq(Frame)
      /\ running \in BOOLEAN /\ addr \in Addresses /\ controls \in 0..MaxControls
  BY DispatchParts
<1>2. /\ notices # <<>> /\ notices' = Tail(notices) /\ Open(frames, "notice", "stop", addr)
      /\ UNCHANGED <<running, web, addr, session, result, busy, checkNow, poll, ctl, controls>>
  BY Zenon DEF TakeNotice
<1>3. "notice" \in Kinds /\ "stop" \in Ops
  BY DEF Kinds, Ops
<1>4. /\ frames' \in Seq(Frame) /\ Len(frames') <= MaxDepth
      /\ slot' \in 0..Len(frames') /\ enabled' \in BOOLEAN
  BY <1>1, <1>2, <1>3, OpenTyped, Zenon
<1> DEFINE Notices == [text : Texts, outcome : Outcomes]
<1>5. notices \in Seq(Notices) /\ Len(notices) <= MaxNotices
  BY Parts
<1> HIDE DEF Notices
<1>6. notices' \in Seq(Notices) /\ Len(notices) \in Nat /\ Len(notices') = Len(notices) - 1
  BY <1>2, <1>5, HeadTailProperties, LenProperties, Zenon
<1>7. Len(notices') <= MaxNotices
  BY <1>5, <1>6, LauncherAssumption
<1> QED
  BY <1>1, <1>2, <1>4, <1>6, <1>7, Parts, DispatchTyped, Zenon DEF Notices

\* Every variable of the launcher keeps its type: activeDlg points into the
\* stack of dialogs or is nil, whatever order they close in (runDialog), no
\* check is repeated more often than statusRetryAttempts says, and only states,
\* texts and outcomes that the code knows are shown and posted.
THEOREM LauncherTypeCorrect == Spec => []TypeOK
<1>1. Init => TypeOK
  <2> SUFFICES ASSUME Init PROVE TypeOK
    OBVIOUS
  <2>1. poll \in Polls /\ ctl \in [Goroutines -> Jobs]
    BY NothingTyped DEF Init
  <2>2. result \in Results
    BY DEF Init, Shown, Results, States
  <2>3. frames = <<>> /\ notices = <<>> /\ slot = 0 /\ controls = 0
    BY DEF Init
  <2>4. /\ frames \in Seq(Frame) /\ Len(frames) <= MaxDepth /\ slot \in 0..Len(frames)
        /\ notices \in Seq([text : Texts, outcome : Outcomes])
        /\ Len(notices) <= MaxNotices /\ controls \in 0..MaxControls
    BY <2>3, LauncherAssumption
  <2>5. /\ running \in BOOLEAN /\ session \in BOOLEAN /\ busy \in BOOLEAN
        /\ checkNow \in BOOLEAN /\ enabled \in BOOLEAN
        /\ web \in [Addresses -> BOOLEAN] /\ addr \in Addresses
    BY Zenon DEF Init
  <2> QED
    BY <2>1, <2>2, <2>4, <2>5, Zenon DEF TypeOK, Polls, Jobs, Results
<1>2. TypeOK /\ [Next]_vars => TypeOK'
  <2> SUFFICES ASSUME TypeOK, [Next]_vars PROVE TypeOK'
    OBVIOUS
  <2>1. ASSUME NEW a \in Addresses, Serve(a) \/ Die(a) PROVE TypeOK'
    <3>1. /\ web' \in [Addresses -> BOOLEAN]
          /\ UNCHANGED <<running, addr, session, result, busy, checkNow, poll, enabled, frames,
                         slot, ctl, notices, controls>>
      BY <2>1, Zenon DEF Serve, Die, TypeOK
    <3> QED
      BY <3>1, Zenon DEF TypeOK
  <2>2. CASE UNCHANGED vars
    BY <2>2, Zenon DEF vars, TypeOK
  <2> QED
    BY <2>1, <2>2, PollingTyped, ControllingTyped, UserTyped, ReturnTyped, TakeNoticeTyped, Zenon
       DEF Next
<1> QED
  BY <1>1, <1>2, PTL DEF Spec

-----------------------------------------------------------------------------
(* The snapshot of the web interface *)

\* The strengthening.  An address in a snapshot, in the file or still with the
\* worker that collected it, had a session since the time the snapshot carries,
\* or is what is left of one that had.
CacheSeen == cache # Nothing => \A ip \in cache.ips : Seen(ip, cache.age)
FoundSeen == \A w \in Workers :
                pc[w] = "write" => \A ip \in found[w].ips : Seen(ip, age[w])
NowSeen == \A ip \in connected : on[ip] = 0
WorkHasJob == \A w \in Workers : pc[w] # "idle" => jobs[w] > 0

IInv == StatusTypeOK /\ WorkHasJob /\ CacheSeen /\ FoundSeen /\ NowSeen

-----------------------------------------------------------------------------
\* Ages are counted up to Cap,
LEMMA OlderType == \A a \in Ages : Older(a) \in Ages
  BY StatusAssumption DEF Older, Ages, Cap

\* keep their order as they grow,
LEMMA OlderMonotone == \A a, b \in Ages : a <= b => Older(a) <= Older(b)
  BY StatusAssumption DEF Older, Ages, Cap

\* and none is less than 0.
LEMMA ZeroOlder == 0 \in Ages /\ \A a \in Ages : 0 <= a /\ 0 <= Older(a)
  BY StatusAssumption DEF Older, Ages, Cap

\* A list that breaks off names addresses seen as lately as those it names whole.
LEMMA CutSeen ==
  ASSUME NEW ips \in SUBSET IPs, NEW a, \A ip \in ips : Seen(ip, a), NEW cut \in Cut(ips)
  PROVE  cut \in SUBSET IPs /\ \A ip \in cut : Seen(ip, a)
  <1>1. ASSUME NEW q \in ips, NEW ip \in Shortened[q]
        PROVE  ip \in IPs /\ Seen(ip, a)
    <2>1. PICK r \in IPs : q \in Shortened[r] /\ on[r] <= a
      BY Zenon DEF Seen
    <2>2. Shortened[q] \in SUBSET IPs /\ Shortened[q] \subseteq Shortened[r]
      BY <2>1, StatusAssumption
    <2>3. ip \in IPs /\ ip \in Shortened[r]
      BY <2>2, Zenon
    <2> QED BY <2>1, <2>3, Zenon DEF Seen
  <1>2. \A ip \in cut : \E q \in ips : ip \in Shortened[q]
    <2>1. cut \in SUBSET UNION {Shortened[ip] : ip \in ips}
      BY Zenon DEF Cut
    <2> QED BY <2>1, SMT
  <1>3. \A ip \in cut : ip \in IPs /\ Seen(ip, a)
    BY <1>1, <1>2, Zenon
  <1> QED BY <1>3, Zenon

\* A list need not break off.
LEMMA WholeIsCut ==
  ASSUME NEW ips \in SUBSET IPs
  PROVE  ips \in Cut(ips)
  <1>1. ips \in SUBSET UNION {Shortened[ip] : ip \in ips}
    BY StatusAssumption
  <1> QED BY <1>1, Zenon DEF Cut

\* What ends a refresh touches neither the file nor the other workers.
LEMMA LeaveTyped ==
  ASSUME StatusTypeOK, NEW w \in Workers, NEW left \in 0..2, Leave(w, left)
  PROVE  /\ pc' \in [Workers -> {"idle", "take", "stamp", "collect", "write"}]
         /\ jobs' \in [Workers -> 0..2]
         /\ age' \in [Workers -> Ages]
         /\ found' \in [Workers -> Reports]
         /\ pc'[w] = "idle"
         /\ \A v \in Workers \ {w} : /\ pc'[v] = pc[v] /\ jobs'[v] = jobs[v]
                                     /\ age'[v] = age[v] /\ found'[v] = found[v]
  BY ZeroOlder, Zenon DEF StatusTypeOK, Leave, Reports, NoReport

\* A worker that is done has one refresh less to try.
LEMMA DoneLeaves ==
  ASSUME StatusTypeOK, NEW w \in Workers, jobs[w] > 0, Done(w)
  PROVE  \E left \in 0..2 : Leave(w, left)
  BY DEF StatusTypeOK, Done

\* Where a worker leaves refresh, the facts about workers carry over.
LEMMA LeaveKeeps ==
  ASSUME IInv, NEW w \in Workers, NEW left \in 0..2, Leave(w, left), on' = on
  PROVE  WorkHasJob' /\ FoundSeen'
  <1>1. /\ pc'[w] = "idle"
        /\ \A v \in Workers \ {w} : /\ pc'[v] = pc[v] /\ jobs'[v] = jobs[v]
                                    /\ age'[v] = age[v] /\ found'[v] = found[v]
    BY LeaveTyped, Zenon DEF IInv
  <1>2. WorkHasJob /\ FoundSeen
    BY Zenon DEF IInv
  <1>3. WorkHasJob'
    BY <1>1, <1>2, Zenon DEF WorkHasJob
  <1>4. FoundSeen'
    BY <1>1, <1>2, Zenon DEF FoundSeen, Seen
  <1> QED BY <1>3, <1>4, Zenon

\* A step that only ends a refresh.
LEMMA LeaveIInv ==
  ASSUME IInv, NEW w \in Workers, NEW left \in 0..2, Leave(w, left),
         UNCHANGED <<world, cache, lock>>, kills' \in 0..MaxKills
  PROVE  IInv'
  <1>1. StatusTypeOK'
    <2>1. StatusTypeOK
      BY Zenon DEF IInv
    <2>2. /\ pc' \in [Workers -> {"idle", "take", "stamp", "collect", "write"}]
          /\ jobs' \in [Workers -> 0..2]
          /\ age' \in [Workers -> Ages]
          /\ found' \in [Workers -> Reports]
      BY <2>1, LeaveTyped, Zenon
    <2> QED BY <2>1, <2>2, Zenon DEF StatusTypeOK, world
  <1>2. WorkHasJob' /\ FoundSeen'
    BY LeaveKeeps, Zenon DEF world
  <1>3. CacheSeen' /\ NowSeen'
    BY Zenon DEF IInv, CacheSeen, NowSeen, Seen, world
  <1> QED BY <1>1, <1>2, <1>3, Zenon DEF IInv

\* A worker goes on to another step of refresh, with nothing but its own state
\* and the lock file changed.
LEMMA MoveIInv ==
  ASSUME IInv, NEW w \in Workers, NEW step \in {"take", "stamp", "collect"},
         jobs[w] > 0, pc' = [pc EXCEPT ![w] = step],
         age' \in [Workers -> Ages], \A v \in Workers \ {w} : age'[v] = age[v],
         lock' \in Ages \cup {Nothing},
         UNCHANGED <<world, cache, jobs, found, kills>>
  PROVE  IInv'
  <1>1. StatusTypeOK /\ WorkHasJob /\ FoundSeen
    BY Zenon DEF IInv
  <1>2. StatusTypeOK'
    BY <1>1, Zenon DEF StatusTypeOK, world
  <1>3. pc'[w] = step /\ \A v \in Workers \ {w} : pc'[v] = pc[v]
    BY <1>1, Zenon DEF StatusTypeOK
  <1>4. WorkHasJob'
    BY <1>1, <1>3, Zenon DEF WorkHasJob
  <1>5. FoundSeen'
    BY <1>1, <1>3, Zenon DEF FoundSeen, Seen, world
  <1>6. CacheSeen' /\ NowSeen'
    BY Zenon DEF IInv, CacheSeen, NowSeen, Seen, world
  <1> QED BY <1>2, <1>4, <1>5, <1>6, Zenon DEF IInv

\* A snapshot with addresses the worker found, the last one perhaps cut off, and
\* the time it started, may be put into the file.
LEMMA PublishIInv ==
  ASSUME IInv, NEW w \in Workers, pc[w] = "write", NEW ips \in Cut(found[w].ips),
         Publish(w, ips, age[w]), UNCHANGED <<world, lock, kills>>
  PROVE  IInv'
  <1>1. StatusTypeOK /\ WorkHasJob /\ FoundSeen /\ NowSeen
    BY Zenon DEF IInv
  <1>2. Done(w)
    BY Zenon DEF Publish
  <1>3. PICK left \in 0..2 : Leave(w, left)
    BY <1>1, <1>2, DoneLeaves, Zenon DEF WorkHasJob
  <1>4. /\ pc' \in [Workers -> {"idle", "take", "stamp", "collect", "write"}]
        /\ jobs' \in [Workers -> 0..2]
        /\ age' \in [Workers -> Ages]
        /\ found' \in [Workers -> Reports]
    BY <1>1, <1>3, LeaveTyped, Zenon
  <1>5. /\ found[w] \in Reports /\ age[w] \in Ages
        /\ cache' = [targets |-> found[w].targets, ips |-> ips, age |-> age[w]]
    BY <1>1, Zenon DEF StatusTypeOK, Publish
  <1>8. ips \in SUBSET IPs /\ \A ip \in ips : Seen(ip, age[w])
    <2>1. found[w].ips \in SUBSET IPs
      BY <1>5, Zenon DEF Reports
    <2>2. \A ip \in found[w].ips : Seen(ip, age[w])
      BY <1>1, Zenon DEF FoundSeen
    <2> QED BY <2>1, <2>2, CutSeen, Zenon
  <1>6. cache' \in Snapshots
    BY <1>5, <1>8, Zenon DEF Reports, Snapshots
  <1>7. StatusTypeOK'
    BY <1>1, <1>4, <1>6, Zenon DEF StatusTypeOK, world
  <1>9. CacheSeen'
    <2>1. cache'.ips = ips /\ cache'.age = age[w]
      BY <1>5, Zenon
    <2> QED BY <1>8, <2>1, Zenon DEF CacheSeen, Seen, world
  <1>10. WorkHasJob' /\ FoundSeen'
    BY <1>3, LeaveKeeps, Zenon DEF world
  <1>11. NowSeen'
    BY <1>1, Zenon DEF NowSeen, world
  <1> QED BY <1>7, <1>9, <1>10, <1>11, Zenon DEF IInv

\* The addresses that tgtadm lists have a session now, but for the end of a list
\* that breaks off.
LEMMA CollectIInv ==
  ASSUME IInv, NEW w \in Workers, Collect(w)
  PROVE  IInv'
  <1>1. StatusTypeOK /\ WorkHasJob /\ FoundSeen /\ NowSeen
    BY Zenon DEF IInv
  <1>2. PICK report \in {[targets |-> "ok", ips |-> ips] : ips \in Cut(connected)} \cup {NoReport} :
            found' = [found EXCEPT ![w] = report]
    BY Zenon DEF Collect
  <1>11. \A ips \in Cut(connected) : ips \in SUBSET IPs /\ \A ip \in ips : Seen(ip, age[w])
    <2>1. connected \in SUBSET IPs /\ age[w] \in Ages
      BY <1>1, Zenon DEF StatusTypeOK
    <2>2. \A ip \in connected : ip \in Shortened[ip] /\ ip \in IPs /\ on[ip] <= age[w]
      BY <1>1, <2>1, ZeroOlder, StatusAssumption, Zenon DEF NowSeen
    <2>3. \A ip \in connected : Seen(ip, age[w])
      BY <2>2, Zenon DEF Seen
    <2> QED BY <2>1, <2>3, CutSeen, Zenon
  <1>3. report \in Reports /\ \A ip \in report.ips : Seen(ip, age[w])
    <2>1. CASE report = NoReport
      <3>1. NoReport \in Reports /\ NoReport.ips = {}
        BY DEF Reports, NoReport
      <3> QED BY <2>1, <3>1, Zenon
    <2>2. ASSUME NEW ips \in Cut(connected), report = [targets |-> "ok", ips |-> ips]
          PROVE  report \in Reports /\ \A ip \in report.ips : Seen(ip, age[w])
      <3>1. report.ips = ips
        BY <2>2, Zenon
      <3>2. report \in Reports
        BY <1>11, <2>2, Zenon DEF Reports
      <3> QED BY <1>11, <3>1, <3>2, Zenon
    <2> QED BY <1>2, <2>1, <2>2, Zenon
  <1>4. /\ pc[w] = "collect" /\ pc' = [pc EXCEPT ![w] = "write"]
        /\ UNCHANGED <<world, cache, lock, jobs, age, kills>>
    BY Zenon DEF Collect
  <1>5. StatusTypeOK'
    BY <1>1, <1>2, <1>3, <1>4, Zenon DEF StatusTypeOK, world
  <1>6. /\ pc'[w] = "write" /\ found'[w] = report
        /\ \A v \in Workers \ {w} : pc'[v] = pc[v] /\ found'[v] = found[v]
    BY <1>1, <1>2, <1>4, Zenon DEF StatusTypeOK
  <1>7. WorkHasJob'
    BY <1>1, <1>4, <1>6, Zenon DEF WorkHasJob
  <1>9. FoundSeen'
    BY <1>1, <1>3, <1>4, <1>6, Zenon DEF FoundSeen, Seen, world
  <1>10. CacheSeen' /\ NowSeen'
    BY <1>4, Zenon DEF IInv, CacheSeen, NowSeen, Seen, world
  <1> QED BY <1>5, <1>7, <1>9, <1>10, Zenon DEF IInv

\* Nothing gets older than a session that goes on, and everything else by the
\* same second.
LEMMA TickIInv ==
  ASSUME IInv, Tick
  PROVE  IInv'
  <1>1. StatusTypeOK /\ WorkHasJob /\ FoundSeen /\ NowSeen /\ CacheSeen
    BY Zenon DEF IInv
  <1>2. /\ on' = [ip \in IPs |-> IF ip \in connected THEN 0 ELSE Older(on[ip])]
        /\ cache' = IF cache = Nothing THEN Nothing ELSE [cache EXCEPT !.age = Older(@)]
        /\ lock' = IF lock = Nothing THEN Nothing ELSE Older(lock)
        /\ age' = [w \in Workers |-> IF pc[w] = "idle" THEN 0 ELSE Older(age[w])]
        /\ UNCHANGED <<connected, pc, jobs, found, kills>>
    BY Zenon DEF Tick
  <1>3. cache # Nothing => /\ cache \in Snapshots /\ cache' \in Snapshots
                           /\ cache.age \in Ages /\ cache'.ips = cache.ips
                           /\ cache'.age = Older(cache.age)
    <2>1. SUFFICES ASSUME cache # Nothing
                   PROVE  /\ cache \in Snapshots /\ cache' \in Snapshots
                          /\ cache.age \in Ages /\ cache'.ips = cache.ips
                          /\ cache'.age = Older(cache.age)
      OBVIOUS
    <2>2. cache \in Snapshots /\ cache.age \in Ages
      BY <1>1, <2>1, Zenon DEF StatusTypeOK, Snapshots
    <2>3. Older(cache.age) \in Ages
      BY <2>2, OlderType, Zenon
    <2>4. cache' = [cache EXCEPT !.age = Older(cache.age)]
      BY <1>2, <2>1, Zenon
    <2> QED BY <2>2, <2>3, <2>4, Zenon DEF Snapshots
  <1>4. /\ on' \in [IPs -> Ages] /\ age' \in [Workers -> Ages]
        /\ lock' \in Ages \cup {Nothing}
    BY <1>1, <1>2, OlderType, ZeroOlder, Zenon DEF StatusTypeOK
  <1>5. StatusTypeOK'
    BY <1>1, <1>2, <1>3, <1>4, Zenon DEF StatusTypeOK
  <1>6. NowSeen'
    BY <1>1, <1>2, Zenon DEF NowSeen, StatusTypeOK
  <1>11. \A ip \in IPs, a \in Ages : on[ip] <= a => on'[ip] <= Older(a)
    BY <1>1, <1>2, OlderMonotone, ZeroOlder, Zenon DEF StatusTypeOK
  <1>7. \A ip, a : a \in Ages /\ Seen(ip, a) => \E q \in IPs : ip \in Shortened[q] /\ on'[q] <= Older(a)
    BY <1>11, Zenon DEF Seen
  <1>8. CacheSeen'
    <2>1. cache' # Nothing => cache # Nothing
      BY <1>2, Zenon
    <2>2. ASSUME cache # Nothing, NEW ip \in cache.ips
          PROVE  \E q \in IPs : ip \in Shortened[q] /\ on'[q] <= Older(cache.age)
      BY <1>1, <1>3, <1>7, <2>2, Zenon DEF CacheSeen
    <2> QED BY <1>3, <2>1, <2>2, Zenon DEF CacheSeen, Seen
  <1>9. FoundSeen'
    <2>1. \A w \in Workers : found[w].ips \subseteq IPs /\ age[w] \in Ages
      BY <1>1, Zenon DEF StatusTypeOK, Reports
    <2>2. \A w \in Workers : pc[w] = "write" => age'[w] = Older(age[w])
      BY <1>2, Zenon
    <2>3. ASSUME NEW w \in Workers, pc[w] = "write", NEW ip \in found[w].ips
          PROVE  \E q \in IPs : ip \in Shortened[q] /\ on'[q] <= Older(age[w])
      BY <1>1, <1>7, <2>1, <2>3, Zenon DEF FoundSeen
    <2> QED BY <1>2, <2>2, <2>3, Zenon DEF FoundSeen, Seen
  <1>10. WorkHasJob'
    BY <1>1, <1>2, Zenon DEF WorkHasJob
  <1> QED BY <1>5, <1>6, <1>8, <1>9, <1>10, Zenon DEF IInv

\* A session begins or ends.
LEMMA SessionIInv ==
  ASSUME IInv, NEW ip \in Stations, Connect(ip) \/ Disconnect(ip)
  PROVE  IInv'
  <1>1. StatusTypeOK /\ WorkHasJob /\ FoundSeen /\ NowSeen /\ CacheSeen
    BY Zenon DEF IInv
  <1>2. UNCHANGED <<cache, lock, pc, jobs, age, found, kills>>
    BY Zenon DEF Connect, Disconnect
  <1>3. StatusTypeOK'
    BY <1>1, <1>2, ZeroOlder, StatusAssumption DEF StatusTypeOK, Connect, Disconnect
  <1>9. \A j \in IPs : on'[j] = on[j] \/ on'[j] = 0
    BY <1>1, Zenon DEF StatusTypeOK, Connect, Disconnect
  <1>4. \A j, a : a \in Ages /\ Seen(j, a) => \E q \in IPs : j \in Shortened[q] /\ on'[q] <= a
    BY <1>9, ZeroOlder, Zenon DEF Seen
  <1>5. NowSeen'
    BY <1>1, StatusAssumption DEF NowSeen, StatusTypeOK, Connect, Disconnect
  <1>6. CacheSeen'
    <2>1. cache # Nothing => cache.ips \subseteq IPs /\ cache.age \in Ages
      BY <1>1, Zenon DEF StatusTypeOK, Snapshots
    <2>2. ASSUME cache # Nothing, NEW j \in cache.ips
          PROVE  \E q \in IPs : j \in Shortened[q] /\ on'[q] <= cache.age
      BY <1>1, <1>4, <2>1, <2>2, Zenon DEF CacheSeen
    <2> QED BY <1>2, <2>2, Zenon DEF CacheSeen, Seen
  <1>7. FoundSeen'
    <2>1. \A w \in Workers : found[w].ips \subseteq IPs /\ age[w] \in Ages
      BY <1>1, Zenon DEF StatusTypeOK, Reports
    <2>2. ASSUME NEW w \in Workers, pc[w] = "write", NEW j \in found[w].ips
          PROVE  \E q \in IPs : j \in Shortened[q] /\ on'[q] <= age[w]
      BY <1>1, <1>4, <2>1, <2>2, Zenon DEF FoundSeen
    <2> QED BY <1>2, <2>2, Zenon DEF FoundSeen, Seen
  <1>8. WorkHasJob'
    BY <1>1, <1>2, Zenon DEF WorkHasJob
  <1> QED BY <1>3, <1>5, <1>6, <1>7, <1>8, Zenon DEF IInv

-----------------------------------------------------------------------------
\* The strengthening holds at the start,
LEMMA InitIInv == StatusInit => IInv
  <1> SUFFICES ASSUME StatusInit PROVE IInv
    OBVIOUS
  <1>1. Cap \in Ages
    BY StatusAssumption DEF Ages, Cap
  <1>2. StatusTypeOK
    BY <1>1, ZeroOlder, StatusAssumption DEF StatusInit, StatusTypeOK, Reports, NoReport
  <1>3. WorkHasJob /\ CacheSeen /\ FoundSeen /\ NowSeen
    BY Zenon DEF StatusInit, WorkHasJob, CacheSeen, FoundSeen, NowSeen
  <1> QED BY <1>2, <1>3, Zenon DEF IInv

\* and every step keeps it.
LEMMA NextIInv == IInv /\ [StatusNext]_statusVars => IInv'
  <1> SUFFICES ASSUME IInv, [StatusNext]_statusVars PROVE IInv'
    OBVIOUS
  <1>0. StatusTypeOK /\ WorkHasJob
    BY Zenon DEF IInv
  <1>1. ASSUME NEW w \in Workers, ensure(w) PROVE IInv'
    <2>1. UNCHANGED <<world, cache, lock, pc, age, found, kills>>
      BY <1>1, Zenon DEF ensure
    <2>2. PICK n \in {1, 2} : jobs' = [jobs EXCEPT ![w] = n]
      BY <1>1, Zenon DEF ensure
    <2>3. StatusTypeOK'
      BY <1>0, <2>1, <2>2 DEF StatusTypeOK, world
    <2>4. WorkHasJob'
      BY <1>0, <2>1, <2>2 DEF WorkHasJob, StatusTypeOK
    <2>5. CacheSeen' /\ FoundSeen' /\ NowSeen'
      BY <2>1, Zenon DEF IInv, CacheSeen, FoundSeen, NowSeen, Seen, world
    <2> QED BY <2>3, <2>4, <2>5, Zenon DEF IInv
  <1>2. ASSUME NEW w \in Workers, Lock(w) PROVE IInv'
    <2>1. pc[w] = "idle" /\ jobs[w] > 0 /\ UNCHANGED <<world, cache, lock, kills>>
      BY <1>2, Zenon DEF Lock
    <2>2. CASE Done(w)
      <3>1. PICK left \in 0..2 : Leave(w, left)
        BY <1>0, <2>1, <2>2, DoneLeaves, Zenon
      <3>2. kills' \in 0..MaxKills
        BY <1>0, <2>1, Zenon DEF StatusTypeOK
      <3> QED BY <2>1, <3>1, <3>2, LeaveIInv, Zenon
    <2>3. CASE pc' = [pc EXCEPT ![w] = "take"] /\ UNCHANGED <<jobs, age, found>>
      <3>1. age' \in [Workers -> Ages] /\ lock' \in Ages \cup {Nothing}
        BY <1>0, <2>1, <2>3, Zenon DEF StatusTypeOK
      <3> QED BY <2>1, <2>3, <3>1, MoveIInv, Zenon
    <2> QED BY <1>2, <2>2, <2>3, Zenon DEF Lock
  <1>3. ASSUME NEW w \in Workers, Take(w) PROVE IInv'
    <2>1. pc[w] = "take" /\ UNCHANGED <<world, cache, kills>>
      BY <1>3, Zenon DEF Take
    <2>2. jobs[w] > 0
      BY <1>0, <2>1, Zenon DEF WorkHasJob
    <2>3. CASE Done(w) /\ UNCHANGED lock
      <3>1. PICK left \in 0..2 : Leave(w, left)
        BY <1>0, <2>2, <2>3, DoneLeaves, Zenon
      <3>2. kills' \in 0..MaxKills
        BY <1>0, <2>1, Zenon DEF StatusTypeOK
      <3> QED BY <2>1, <2>3, <3>1, <3>2, LeaveIInv, Zenon
    <2>4. CASE /\ pc' = [pc EXCEPT ![w] = "stamp"]
               /\ lock' = Nothing
               /\ UNCHANGED <<jobs, age, found>>
      <3>1. age' \in [Workers -> Ages] /\ lock' \in Ages \cup {Nothing}
        BY <1>0, <2>4, Zenon DEF StatusTypeOK
      <3> QED BY <2>1, <2>2, <2>4, <3>1, MoveIInv, Zenon
    <2> QED BY <1>3, <2>3, <2>4, Zenon DEF Take
  <1>4. ASSUME NEW w \in Workers, Stamp(w) PROVE IInv'
    <2>1. /\ pc[w] = "stamp" /\ pc' = [pc EXCEPT ![w] = "collect"]
          /\ age' = [age EXCEPT ![w] = 0] /\ lock' \in {age[w], Nothing}
          /\ UNCHANGED <<world, cache, jobs, found, kills>>
      BY <1>4, Zenon DEF Stamp
    <2>2. jobs[w] > 0
      BY <1>0, <2>1, Zenon DEF WorkHasJob
    <2>3. /\ age' \in [Workers -> Ages] /\ lock' \in Ages \cup {Nothing}
          /\ \A v \in Workers \ {w} : age'[v] = age[v]
      BY <1>0, <2>1, ZeroOlder DEF StatusTypeOK
    <2> QED BY <2>1, <2>2, <2>3, MoveIInv, Zenon
  <1>5. ASSUME NEW w \in Workers, WriteWhole(w) PROVE IInv'
    <2>1. /\ pc[w] = "write" /\ Publish(w, found[w].ips, age[w])
          /\ UNCHANGED <<world, lock, kills>>
      BY <1>5, Zenon DEF WriteWhole
    <2>3. found[w].ips \in SUBSET IPs
      BY <1>0, Zenon DEF StatusTypeOK, Reports
    <2>2. found[w].ips \in Cut(found[w].ips)
      BY <2>3, WholeIsCut
    <2> QED BY <2>1, <2>2, PublishIInv, Zenon
  <1>6. ASSUME NEW w \in Workers, WriteBadly(w) PROVE IInv'
    <2>1. pc[w] = "write" /\ UNCHANGED <<world, lock, kills>>
      BY <1>6, Zenon DEF WriteBadly
    <2>2. ASSUME NEW ips \in Cut(found[w].ips), Publish(w, ips, age[w]) PROVE IInv'
      BY <2>1, <2>2, PublishIInv, Zenon
    <2>3. ASSUME NEW when \in {age[w], Cap}, Done(w),
                 cache' \in {cache, Nothing, [targets |-> "failed", ips |-> {}, age |-> when]}
          PROVE  IInv'
      <3>1. jobs[w] > 0
        BY <1>0, <2>1, Zenon DEF WorkHasJob
      <3>2. PICK left \in 0..2 : Leave(w, left)
        BY <1>0, <2>3, <3>1, DoneLeaves, Zenon
      <3>3. /\ pc' \in [Workers -> {"idle", "take", "stamp", "collect", "write"}]
            /\ jobs' \in [Workers -> 0..2]
            /\ age' \in [Workers -> Ages]
            /\ found' \in [Workers -> Reports]
        BY <1>0, <3>2, LeaveTyped, Zenon
      <3>7. when \in Ages
        BY <1>0, StatusAssumption DEF StatusTypeOK, Ages, Cap
      <3>8. cache' \in Snapshots \cup {Nothing}
        BY <1>0, <2>3, <3>7 DEF StatusTypeOK, Snapshots
      <3>9. [targets |-> "failed", ips |-> {}, age |-> when].ips = {}
        OBVIOUS
      <3>4. StatusTypeOK'
        BY <1>0, <2>1, <3>3, <3>8, Zenon DEF StatusTypeOK, world
      <3>5. WorkHasJob' /\ FoundSeen'
        BY <2>1, <3>2, LeaveKeeps, Zenon DEF world
      <3>6. CacheSeen' /\ NowSeen'
        BY <2>1, <2>3, <3>9, Zenon DEF IInv, CacheSeen, NowSeen, Seen, world
      <3> QED BY <3>4, <3>5, <3>6, Zenon DEF IInv
    <2> QED BY <1>6, <2>2, <2>3, Zenon DEF WriteBadly
  <1>7. ASSUME NEW w \in Workers, Kill(w) PROVE IInv'
    <2>1. Leave(w, 0) /\ UNCHANGED <<world, cache, lock>>
      BY <1>7, Zenon DEF Kill
    <2>2. kills' \in 0..MaxKills
      BY <1>0, <1>7, StatusAssumption DEF Kill, StatusTypeOK
    <2>3. 0 \in 0..2
      OBVIOUS
    <2> QED BY <2>1, <2>2, <2>3, LeaveIInv, Zenon
  <1>8. ASSUME UNCHANGED statusVars PROVE IInv'
    BY <1>8, Zenon DEF IInv, StatusTypeOK, WorkHasJob, CacheSeen, FoundSeen, NowSeen, Seen, statusVars
  <1> QED
    BY <1>1, <1>2, <1>3, <1>4, <1>5, <1>6, <1>7, <1>8, CollectIInv, TickIInv, SessionIInv, Zenon
       DEF StatusNext, Refresh

\* Every variable of the status cache keeps its type, the number of refreshes a
\* worker has still to try (status.ensure, status.refresh) included.
THEOREM StatusTypeCorrect == StatusSpec => []StatusTypeOK
  <1>1. IInv => StatusTypeOK
    BY Zenon DEF IInv
  <1> QED BY <1>1, InitIInv, NextIInv, PTL DEF StatusSpec

\* status.state_of says "online" only of workstations that had a session within
\* the last max_age seconds, or of what is left of the address of one that had,
\* whatever refreshes overlap, fail or are killed.
THEOREM OnlineAlwaysRecent == StatusSpec => []OnlineIsRecent
  <1>1. IInv => OnlineIsRecent
    <2> SUFFICES ASSUME IInv, NEW ip \in IPs, state_of(ip) = "online"
                 PROVE  Seen(ip, max_age)
      BY Zenon DEF OnlineIsRecent
    <2>1. cache # Nothing /\ ~(cache.age > max_age) /\ ip \in cache.ips
      BY Zenon DEF state_of
    <2>2. cache.age \in Ages /\ Seen(ip, cache.age) /\ on \in [IPs -> Ages]
      BY <2>1, Zenon DEF IInv, StatusTypeOK, CacheSeen, Snapshots
    <2>3. PICK q \in IPs : ip \in Shortened[q] /\ on[q] <= cache.age
      BY <2>2, Zenon DEF Seen
    <2>4. on[q] <= max_age
      BY <2>1, <2>2, <2>3, StatusAssumption DEF Ages, Cap
    <2> QED BY <2>3, <2>4, Zenon DEF Seen
  <1> QED BY <1>1, InitIInv, NextIInv, PTL DEF StatusSpec
==============================================================================

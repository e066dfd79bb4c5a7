------------------------------ MODULE Launcher ------------------------------
(***************************************************************************)
(* The Windows launcher (launcher/app.go, launcher/ui.go): the UI thread   *)
(* with its nested dialog loops, the polling goroutine, and the goroutine  *)
(* that carries out a restart or a stop of the web service and verifies    *)
(* its effect.  A check of the server (CheckStatusContext) is two steps,   *)
(* the answer the server gives and what the launcher later does with it.   *)
(*                                                                         *)
(* Of a server only its address and whether it serves is modelled, of a    *)
(* check result its state and the address it is about.  No branch tells    *)
(* StateMalformed from StateServerError, nor StateDegraded from            *)
(* StateOnline: "error" and "online" stand for two states each.            *)
(***************************************************************************)
EXTENDS Naturals, Sequences, FiniteSets

CONSTANTS
    Addresses,   \* server addresses the user types
    NoServer,    \* the server of a goroutine that has none
    Goroutines,  \* control goroutines the model has room for
    Retries,     \* statusRetryAttempts
    Checks,      \* checks that fit in controlVerifyTimeout
    MaxDepth,    \* bound: dialogs open at the same time
    MaxNotices,  \* bound: notices waiting for the UI thread
    MaxControls  \* bound: restarts and stops the user starts

ASSUME LauncherAssumption ==
    /\ Addresses # {} /\ NoServer \notin Addresses
    /\ Retries \in Nat /\ Checks \in Nat
    /\ MaxDepth \in Nat /\ MaxNotices \in Nat /\ MaxControls \in Nat

VARIABLES
    running,   \* the message loop runs; stopCtx is not cancelled
    web,       \* whether each server serves the web interface
    addr,      \* App.server's BaseURL
    session,   \* App.server has a session cookie
    result,    \* App.result
    busy,      \* App.busy
    checkNow,  \* App.checkNow holds a request
    poll,      \* pollLoop
    enabled,   \* the main window takes input
    frames,    \* runDialog calls on the UI thread's stack
    slot,      \* activeDlg: the frame it points to, 0 for nil
    ctl,       \* control goroutines
    notices,   \* App.noticeCh
    controls   \* control operations asked for so far

vars == <<running, web, addr, session, result, busy, checkNow, poll, enabled,
          frames, slot, ctl, notices, controls>>

\* ServerState, and what a check of a server that serves, or does not, may find.
States == {"connecting", "starting", "stopping", "online", "offline", "timeout",
           "unauthorized", "error"}
Found(up) ==
    IF up THEN {"online", "unauthorized", "error", "timeout"} ELSE {"offline", "timeout"}

Ops == {"restart", "stop"}
Shown(state) == [state |-> state, about |-> addr]

Kinds == {"confirm", "password", "notice"}
Frame == [kind : Kinds, op : Ops, srv : Addresses, mine : BOOLEAN, open : BOOLEAN,
          answer : {"none", "yes", "no"}, own : BOOLEAN]

NoPoll == [pc |-> "wait", srv |-> NoServer, found |-> "connecting",
           tries |-> 0]
Outcomes == {"none", "accepted", "rejected", "interrupted"}
NoControl == [pc |-> "idle", op |-> "stop", srv |-> NoServer,
              mine |-> FALSE, outcome |-> "none", found |-> "connecting",
              checks |-> 0, text |-> "signin"]
Texts == {"signin", "complete", "sent", "closed", "unconfirmed"}

TypeOK ==
    /\ running \in BOOLEAN /\ session \in BOOLEAN /\ busy \in BOOLEAN
    /\ checkNow \in BOOLEAN /\ enabled \in BOOLEAN
    /\ web \in [Addresses -> BOOLEAN]
    /\ addr \in Addresses
    /\ result \in [state : States, about : Addresses]
    /\ poll \in [pc : {"wait", "check", "answered", "ended"}, srv : Addresses \cup {NoServer},
                 found : States, tries : 0..Retries]
    /\ frames \in Seq(Frame) /\ Len(frames) <= MaxDepth
    /\ slot \in 0..Len(frames)
    /\ ctl \in [Goroutines -> [pc : {"idle", "login", "control", "verify", "answered",
                                     "report", "post"},
                  op : Ops, srv : Addresses \cup {NoServer}, mine : BOOLEAN,
                  outcome : Outcomes, found : States, checks : 0..Checks, text : Texts]]
    /\ notices \in Seq([text : Texts, outcome : Outcomes])
    /\ Len(notices) <= MaxNotices
    /\ controls \in 0..MaxControls

\* NewApp and Run: a check is asked for before the message loop starts.
Init ==
    /\ running = TRUE
    /\ web \in [Addresses -> BOOLEAN]
    /\ addr \in Addresses
    /\ session = FALSE
    /\ result = Shown("connecting")
    /\ busy = FALSE
    /\ checkNow = TRUE
    /\ poll = NoPoll
    /\ enabled = TRUE
    /\ frames = <<>>
    /\ slot = 0
    /\ ctl = [g \in Goroutines |-> NoControl]
    /\ notices = <<>>
    /\ controls = 0

Applied_Unchecked(srv, state) == [state |-> state, about |-> srv]

\* applyResult: a result about another server than the current one is dropped.
Applied(srv, state) ==
    IF srv = addr THEN [state |-> state, about |-> srv] ELSE result

canControlServer(state) == state \in {"online", "unauthorized"}

-----------------------------------------------------------------------------
(* pollLoop *)

PollBegin_NoTicker ==
    /\ running /\ poll.pc = "wait" /\ checkNow
    /\ poll' = [NoPoll EXCEPT !.pc = "check", !.srv = addr]
    /\ checkNow' = FALSE
    /\ UNCHANGED <<running, web, addr, session, result, busy, enabled, frames, slot, ctl,
                   notices, controls>>

\* The ticker or a request starts a check of the current server.
PollBegin ==
    /\ running /\ poll.pc = "wait"
    /\ poll' = [NoPoll EXCEPT !.pc = "check", !.srv = addr]
    /\ checkNow' = FALSE
    /\ UNCHANGED <<running, web, addr, session, result, busy, enabled, frames, slot, ctl,
                   notices, controls>>

\* CheckStatusRetry: only a slow answer is tried again, Retries times at most.
PollCheck ==
    /\ poll.pc = "check"
    /\ \E found \in Found(web[poll.srv]) :
         poll' = IF found = "timeout" /\ poll.tries < Retries
                 THEN [poll EXCEPT !.tries = @ + 1]
                 ELSE [poll EXCEPT !.pc = "answered", !.found = found]
    /\ UNCHANGED <<running, web, addr, session, result, busy, checkNow, enabled, frames,
                   slot, ctl, notices, controls>>

PollApply ==
    /\ running /\ poll.pc = "answered"
    /\ result' = Applied(poll.srv, poll.found)
    /\ poll' = NoPoll
    /\ UNCHANGED <<running, web, addr, session, busy, checkNow, enabled, frames, slot, ctl,
                   notices, controls>>

PollEnd ==
    /\ ~running /\ poll.pc # "ended"
    /\ poll' = [NoPoll EXCEPT !.pc = "ended"]
    /\ UNCHANGED <<running, web, addr, session, result, busy, checkNow, enabled, frames,
                   slot, ctl, notices, controls>>

-----------------------------------------------------------------------------
\* The UI thread takes messages: a dialog loop ends as soon as its window is gone.
Dispatching == running /\ (frames # <<>> => frames[Len(frames)].open)

(* Dialogs.  runDialog runs a message loop of its own: whatever the main     *)
(* loop dispatches, tray commands and notices included, it dispatches too.   *)

\* The dialog window is created, its context put into activeDlg.
Open(stack, kind, op, srv) ==
    /\ Len(stack) < MaxDepth
    /\ frames' = Append(stack, [kind |-> kind, op |-> op, srv |-> srv, mine |-> TRUE,
                                open |-> TRUE, answer |-> "none", own |-> TRUE])
    /\ slot' = Len(stack) + 1
    /\ enabled' = FALSE

\* dialogWndProc: a button of dialog i answers for whatever activeDlg is.
Press(i, button) ==
    /\ Dispatching /\ frames[i].open
    /\ slot # 0
    /\ button = "no" => frames[i].kind # "notice"
    /\ LET yes == frames[i].kind = "confirm" => frames[slot].kind = "confirm"
       IN frames' = [frames EXCEPT
            ![slot].answer = IF button = "yes" /\ yes THEN "yes" ELSE "no",
            ![slot].own = (slot = i),
            ![i].open = FALSE]
    /\ UNCHANGED <<running, web, addr, session, result, busy, checkNow, poll, enabled, slot,
                   ctl, notices, controls>>

\* WM_CLOSE: cancels what activeDlg points to unless it has an answer already.
CloseBox(i) ==
    /\ Dispatching /\ frames[i].open
    /\ frames' = IF slot # 0 /\ frames[slot].answer = "none"
                 THEN [frames EXCEPT ![slot].answer = "no", ![slot].own = (slot = i),
                                     ![i].open = FALSE]
                 ELSE [frames EXCEPT ![i].open = FALSE]
    /\ UNCHANGED <<running, web, addr, session, result, busy, checkNow, poll, enabled, slot,
                   ctl, notices, controls>>

Unwind_SlotKept(stack) == frames' = stack /\ slot' = slot /\ enabled' = TRUE

\* runDialog returns: it clears activeDlg and enables the main window.
Unwind(stack) == frames' = stack /\ slot' = 0 /\ enabled' = TRUE

\* controlFlow hands over to the control goroutine.
Start(frame, first) ==
    /\ \E g \in Goroutines :
         /\ ctl[g].pc = "idle"
         /\ ctl' = [ctl EXCEPT ![g] = [NoControl EXCEPT !.pc = first, !.op = frame.op,
                                         !.srv = frame.srv, !.mine = frame.mine]]
    /\ busy' = TRUE

\* The innermost dialog is gone: controlFlow goes on with its answer.
Return ==
    /\ frames # <<>>
    /\ LET n == Len(frames)
           top == frames[n]
           rest == SubSeq(frames, 1, n - 1)
           agreed == top.answer = "yes"
       IN /\ ~top.open
          /\ \/ /\ top.kind = "confirm" /\ agreed /\ session
                /\ Unwind(rest)
                /\ Start([top EXCEPT !.srv = addr, !.mine = TRUE], "control")
             \/ /\ top.kind = "confirm" /\ agreed /\ ~session /\ running
                /\ Open(rest, "password", top.op, addr)
                /\ UNCHANGED <<ctl, busy>>
             \/ /\ top.kind = "password" /\ agreed
                /\ Unwind(rest)
                /\ Start(top, "login")
             \/ /\ \/ ~agreed \/ top.kind = "notice"
                   \/ top.kind = "confirm" /\ ~session /\ ~running
                /\ Unwind(rest)
                /\ UNCHANGED <<ctl, busy>>
    /\ UNCHANGED <<running, web, addr, session, result, checkNow, poll, notices, controls>>

-----------------------------------------------------------------------------
(* Commands, from the window and from the tray menu *)

\* controlFlow up to its confirmation dialog, or the notice that says no.
controlFlow(op) ==
    /\ Dispatching /\ ~busy
    /\ \/ /\ canControlServer(result.state)
          /\ controls < MaxControls
          /\ controls' = controls + 1
          /\ result' = Shown(IF op = "stop" THEN "stopping" ELSE "starting")
          /\ Open(frames, "confirm", op, addr)
       \/ /\ ~canControlServer(result.state)
          /\ Open(frames, "notice", op, addr)
          /\ UNCHANGED <<result, controls>>
    /\ UNCHANGED <<running, web, addr, session, busy, checkNow, poll, ctl, notices>>

manualCheck ==
    /\ Dispatching
    /\ result' = Shown("connecting")
    /\ checkNow' = TRUE
    /\ UNCHANGED <<running, web, addr, session, busy, poll, enabled, frames, slot, ctl,
                   notices, controls>>

\* A new address brings a new client with an empty cookie jar; goroutines and
\* flows under way keep the old one.
adoptServerURL(a) ==
    /\ Dispatching /\ enabled
    /\ a # addr
    /\ addr' = a
    /\ session' = FALSE
    /\ result' = [state |-> "connecting", about |-> a]
    /\ checkNow' = TRUE
    /\ frames' = [i \in DOMAIN frames |-> [frames[i] EXCEPT !.mine = FALSE]]
    /\ ctl' = [g \in Goroutines |-> [ctl[g] EXCEPT !.mine = FALSE]]
    /\ UNCHANGED <<running, web, busy, poll, enabled, slot, notices, controls>>

\* wmAppNotice and wmAppControl: takeNotice, then a dialog.
TakeNotice ==
    /\ Dispatching /\ notices # <<>>
    /\ notices' = Tail(notices)
    /\ Open(frames, "notice", "stop", addr)
    /\ UNCHANGED <<running, web, addr, session, result, busy, checkNow, poll, ctl, controls>>

\* The tray's Exit destroys the window and every dialog it owns.
Exit ==
    /\ Dispatching
    /\ running' = FALSE
    /\ frames' = [i \in DOMAIN frames |-> [frames[i] EXCEPT !.open = FALSE]]
    /\ UNCHANGED <<web, addr, session, result, busy, checkNow, poll, enabled, slot, ctl,
                   notices, controls>>

-----------------------------------------------------------------------------
(* The control goroutine *)

At(g, changes) == ctl' = [ctl EXCEPT ![g] = changes]

SignInAgain_StillBusy(g) ==
    /\ session' = (session /\ ~ctl[g].mine)
    /\ busy' = busy
    /\ At(g, [ctl[g] EXCEPT !.pc = "post", !.text = "signin"])

\* srv.ResetSession drops the cookies of the goroutine's own client.
SignInAgain(g) ==
    /\ session' = (session /\ ~ctl[g].mine)
    /\ busy' = FALSE
    /\ At(g, [ctl[g] EXCEPT !.pc = "post", !.text = "signin"])

Login(g) ==
    /\ ctl[g].pc = "login"
    /\ \/ /\ session' = (session \/ ctl[g].mine)
          /\ At(g, [ctl[g] EXCEPT !.pc = "control"])
          /\ UNCHANGED busy
       \/ SignInAgain(g)
    /\ UNCHANGED <<running, web, addr, result, checkNow, poll, enabled, frames, slot,
                   notices, controls>>

\* srv.Control: the request is carried out and answered, refused, answered "Not
\* authenticated", or the connection dies, before or after it took effect.
Control(g) ==
    /\ ctl[g].pc = "control"
    /\ LET serving == web[ctl[g].srv]
           verify(outcome) == At(g, [ctl[g] EXCEPT !.pc = "verify", !.outcome = outcome])
       IN \/ /\ serving
             /\ verify("accepted") \/ verify("interrupted")
             /\ web' = [web EXCEPT ![ctl[g].srv] = FALSE]
             /\ UNCHANGED <<session, busy>>
          \/ /\ serving /\ verify("rejected")
             /\ UNCHANGED <<web, session, busy>>
          \/ /\ verify("interrupted")
             /\ UNCHANGED <<web, session, busy>>
          \/ /\ serving /\ SignInAgain(g)
             /\ UNCHANGED web
    /\ UNCHANGED <<running, addr, result, checkNow, poll, enabled, frames, slot, notices,
                   controls>>

\* What verifyControl waits for.
Expected(op) == IF op = "restart" THEN {"online"} ELSE {"offline", "timeout"}

\* The dialog's text; an error of srv.Control that is not about the session is
\* taken for a closed connection.
Text(outcome, verified) ==
    IF outcome = "accepted" THEN IF verified THEN "complete" ELSE "sent"
    ELSE IF verified THEN "closed" ELSE "unconfirmed"

Verified(g, verified) ==
    At(g, [ctl[g] EXCEPT !.pc = "report", !.found = "connecting",
                          !.text = Text(ctl[g].outcome, verified)])

\* One round of verifyControl: the deadline, shutdown, or another check.
Verify(g) ==
    /\ ctl[g].pc = "verify"
    /\ \/ /\ ctl[g].checks > 0 \/ ~running
          /\ Verified(g, FALSE)
       \/ /\ running /\ ctl[g].checks < Checks
          /\ \E found \in Found(web[ctl[g].srv]) :
               At(g, [ctl[g] EXCEPT !.pc = "answered", !.found = found, !.checks = @ + 1])
    /\ UNCHANGED <<running, web, addr, session, result, busy, checkNow, poll, enabled,
                   frames, slot, notices, controls>>

VerifyApply(g) ==
    /\ ctl[g].pc = "answered"
    /\ \/ /\ ~running
          /\ Verified(g, FALSE)
          /\ UNCHANGED result
       \/ /\ running
          /\ result' = Applied(ctl[g].srv, ctl[g].found)
          /\ IF ctl[g].found \in Expected(ctl[g].op) THEN Verified(g, TRUE)
             ELSE At(g, [ctl[g] EXCEPT !.pc = "verify", !.found = "connecting"])
    /\ UNCHANGED <<running, web, addr, session, busy, checkNow, poll, enabled, frames, slot,
                   notices, controls>>

Report(g) ==
    /\ ctl[g].pc = "report"
    /\ busy' = FALSE
    /\ checkNow' = TRUE
    /\ At(g, [ctl[g] EXCEPT !.pc = "post"])
    /\ UNCHANGED <<running, web, addr, session, result, poll, enabled, frames, slot,
                   notices, controls>>

\* postNotice: a full channel drops the notice.
Post(g) ==
    /\ ctl[g].pc = "post"
    /\ notices' = IF running /\ Len(notices) < MaxNotices
                  THEN Append(notices, [text |-> ctl[g].text, outcome |-> ctl[g].outcome])
                  ELSE notices
    /\ At(g, NoControl)
    /\ UNCHANGED <<running, web, addr, session, result, busy, checkNow, poll, enabled,
                   frames, slot, controls>>

-----------------------------------------------------------------------------
\* systemd, or somebody at the server, starts the web service; it may also die.
Serve(a) ==
    /\ ~web[a]
    /\ web' = [web EXCEPT ![a] = TRUE]
    /\ UNCHANGED <<running, addr, session, result, busy, checkNow, poll, enabled, frames,
                   slot, ctl, notices, controls>>

Die(a) ==
    /\ web[a]
    /\ web' = [web EXCEPT ![a] = FALSE]
    /\ UNCHANGED <<running, addr, session, result, busy, checkNow, poll, enabled, frames,
                   slot, ctl, notices, controls>>

Polling == PollBegin \/ PollCheck \/ PollApply \/ PollEnd

Controlling(g) ==
    Login(g) \/ Control(g) \/ Verify(g) \/ VerifyApply(g) \/ Report(g) \/ Post(g)

User ==
    \/ \E i \in DOMAIN frames : CloseBox(i) \/ \E b \in {"yes", "no"} : Press(i, b)
    \/ \E op \in Ops : controlFlow(op)
    \/ \E a \in Addresses : adoptServerURL(a)
    \/ manualCheck \/ Exit

Next ==
    \/ Polling
    \/ \E g \in Goroutines : Controlling(g)
    \/ User \/ Return \/ TakeNotice
    \/ \E a \in Addresses : Serve(a) \/ Die(a)

Spec == Init /\ [][Next]_vars

-----------------------------------------------------------------------------
(* Properties *)

\* What is shown is about the server at the current address, although answers
\* of checks of the previous one arrive after it was replaced.
ShownIsCurrent == result.about = addr

\* "busy: a control operation is in flight" (app.go).  controlFlow looks at busy
\* before its dialogs and not after them.
BusyInFlight == busy <=> \E g \in Goroutines : ctl[g].pc \notin {"idle", "post"}

\* "dialogs are strictly modal, so a single slot is sufficient" (ui.go): the
\* Yes that starts a restart or a stop was given in the dialog that asks for it.
AnsweredInPlace ==
    \A i \in DOMAIN frames :
        frames[i].kind = "confirm" /\ frames[i].answer = "yes" => frames[i].own

\* "the UI never claims Online while a restart/stop is in progress" (app.go):
\* from the request to the first answer of a check made after it.
NotOnlineYet ==
    \A g \in Goroutines :
        ctl[g].pc \in {"login", "control"} /\ ctl[g].mine => result.state # "online"

\* "the connection died mid-request" (app.go): what a control that was not
\* accepted is reported as, a server's refusal included.
ClosedMeansInterrupted ==
    \A i \in DOMAIN notices :
        notices[i].text \in {"closed", "unconfirmed"} => notices[i].outcome = "interrupted"

\* pollLoop and the control goroutine are never blocked for ever: every request
\* has a timeout.  The user and the servers owe nothing.
FairSpec ==
    Spec /\ WF_vars(Polling) /\ \A g \in Goroutines : WF_vars(Controlling(g))

\* Connecting, Starting and Stopping are passing states, also when the user
\* cancels after controlFlow announced the transition, unless the address
\* keeps changing under the checks.
Transient == result.state \in {"connecting", "starting", "stopping"}
TransientEnds == <>[][UNCHANGED addr]_vars => (Transient ~> ~Transient \/ ~running)

\* Every control operation ends and gives the buttons back.
BusyEnds == busy ~> ~busy

=============================================================================

---------------------------- MODULE WebAuthProofs ----------------------------
(***************************************************************************)
(* The account, the session and the login limit, for any number of         *)
(* browsers, passwords, session ids, attempts and kills, where one worker  *)
(* serves the requests.  With two, no lock keeps a worker from saving what *)
(* it read before the other one saved, and none of the three holds.        *)
(***************************************************************************)
EXTENDS WebAuth, FiniteSetTheorems, TLAPS

OneWorker == \A v, w \in Workers : v = w

\* The steps a request may still have to take.
Failing == <<"_load", "record_failure">>
Todos == {
    <<>>, <<"setup_admin">>, <<"is_locked">>, <<"verify">>, <<"save_auth">>,
    <<"save_auth", "destroy_all", "create", "destroy_old">>,
    <<"destroy_all", "create", "destroy_old">>,
    <<"create", "destroy_old">>, <<"destroy_old">>,
    <<"drop", "check_password">>, <<"check_password">>, Failing, <<"record_failure">>,
    <<"destroy_all", "create", "set_cookie", "_load", "clear">>,
    <<"create", "set_cookie", "_load", "clear">>,
    <<"set_cookie", "_load", "clear">>, <<"_load", "clear">>, <<"clear">>}

First(t) == IF t = <<>> THEN "none" ELSE Head(t)

\* An entry of the limit, in the file or in what a request has read of it, is
\* not behind the failures that the file has taken in.
Fit(b, e) ==
    /\ e.lock = "no" => recorded[b] <= e.count /\ e.count < MAX_ATTEMPTS
    /\ e.lock = "over" => recorded[b] = 0
Fits(data) == \A b \in Browsers : Fit(b, data[b])

\* What a request relies on at each of its steps.
Sound(j) ==
    /\ j.todo \in Todos
    /\ j.todo # <<>> => j.who \in Browsers
    /\ First(j.todo) = "setup_admin" => j.old = None
    /\ First(j.todo) = "save_auth" => auth = j.old
    /\ First(j.todo) = "create" => \A s \in Sids : sessions[s] = "none"
    /\ First(j.todo) = "drop" => recorded[j.who] = 0
    /\ First(j.todo) \in {"drop", "clear", "record_failure"} => Fits(j.data)
    /\ First(j.todo) = "record_failure" => j.data[j.who].lock # "yes"
    /\ First(j.todo) \in {"drop", "check_password"} \/ j.todo = Failing =>
           limits[j.who].lock # "yes"

AtMostOne ==
    \A s, t \in Sids : sessions[s] # "none" /\ sessions[t] # "none" => s = t

IInv ==
    /\ OneWorker /\ TypeOK /\ Fits(limits) /\ AtMostOne
    /\ \A w \in Workers : Sound(job[w])

-----------------------------------------------------------------------------
USE AuthAssumption

\* The steps that may follow a step.
Follows(step) ==
    IF step = "save_auth" THEN {"none", "destroy_all"}
    ELSE IF step = "destroy_all" THEN {"create"}
    ELSE IF step = "create" THEN {"set_cookie", "destroy_old"}
    ELSE IF step = "set_cookie" THEN {"_load"}
    ELSE IF step = "_load" THEN {"clear", "record_failure"}
    ELSE IF step = "drop" THEN {"check_password"}
    ELSE {"none"}

\* Follows, written out for each step.
LEMMA FollowSets ==
    /\ Follows("save_auth") = {"none", "destroy_all"}
    /\ Follows("destroy_all") = {"create"}
    /\ Follows("create") = {"set_cookie", "destroy_old"}
    /\ Follows("set_cookie") = {"_load"}
    /\ Follows("_load") = {"clear", "record_failure"}
    /\ Follows("drop") = {"check_password"}
    /\ Follows("clear") = {"none"}
  BY DEF Follows

\* What is left to do of a request when it has taken a step.
LEMMA Tails ==
    ASSUME NEW t \in Todos, t # <<>>
    PROVE  /\ t \in Seq(Steps) /\ Head(t) \in Steps
           /\ Tail(t) \in Todos /\ Tail(t) # Failing
           /\ First(Tail(t)) \in Follows(Head(t))
           /\ Head(t) = "_load" /\ t # Failing => First(Tail(t)) = "clear"
<1>1. CASE t \in {<<"setup_admin">>, <<"is_locked">>, <<"verify">>, <<"save_auth">>,
                  <<"destroy_old">>, <<"check_password">>, <<"record_failure">>,
                  <<"clear">>}
  BY <1>1 DEF Todos, Failing, First, Follows, Steps
<1>2. CASE t = <<"create", "destroy_old">>
  BY <1>2 DEF Todos, Failing, First, Follows, Steps
<1>3. CASE t = <<"save_auth", "destroy_all", "create", "destroy_old">>
  BY <1>3 DEF Todos, Failing, First, Follows, Steps
<1>4. CASE t = <<"destroy_all", "create", "destroy_old">>
  BY <1>4 DEF Todos, Failing, First, Follows, Steps
<1>5. CASE t = <<"destroy_all", "create", "set_cookie", "_load", "clear">>
  BY <1>5 DEF Todos, Failing, First, Follows, Steps
<1>6. CASE t = <<"create", "set_cookie", "_load", "clear">>
  BY <1>6 DEF Todos, Failing, First, Follows, Steps
<1>7. CASE t = <<"set_cookie", "_load", "clear">>
  BY <1>7 DEF Todos, Failing, First, Follows, Steps
<1>8. CASE t = <<"drop", "check_password">>
  BY <1>8 DEF Todos, Failing, First, Follows, Steps
<1>9. CASE t = Failing
  BY <1>9 DEF Todos, Failing, First, Follows, Steps
<1>10. CASE t = <<"_load", "clear">>
  BY <1>10 DEF Todos, Failing, First, Follows, Steps
<1> QED
  BY <1>1, <1>2, <1>3, <1>4, <1>5, <1>6, <1>7, <1>8, <1>9, <1>10, Zenon DEF Todos

\* A request's locals.
Job == [todo : Seq(Steps), who : Browsers \cup {None}, was : Sids \cup {None},
        old : Passwords \cup {None}, pass : Passwords \cup {None},
        sid : Sids \cup {None}, data : [Browsers -> Entries]]

\* Which a worker has when it is idle, too.
LEMMA IdleJob ==
    /\ NoEntry \in Entries /\ Empty \in [Browsers -> Entries]
    /\ Idle \in Job /\ Idle.todo = <<>>
<1>1. NoEntry \in Entries
  BY DEF NoEntry, Entries
<1>2. Empty \in [Browsers -> Entries]
  BY <1>1 DEF Empty
<1> QED
  BY <1>1, <1>2 DEF Idle, Job

\* The fields of an entry of the limit.
LEMMA EntryFields ==
    ASSUME NEW e \in Entries
    PROVE  e.count \in Nat /\ e.count <= MAX_ATTEMPTS /\ e.lock \in {"no", "yes", "over"}
  BY DEF Entries

\* There are steps at which a request relies on nothing, and when it has ended.
Harmless == {"none", "is_locked", "verify", "destroy_all", "set_cookie", "destroy_old",
             "_load"}

\* A request at a harmless step is sound whatever the files hold.
LEMMA HarmlessSound ==
    ASSUME NEW w, job'[w].todo \in Todos, job'[w].todo # Failing,
           First(job'[w].todo) \in Harmless,
           job'[w].todo # <<>> => job'[w].who \in Browsers
    PROVE  Sound(job[w])'
  BY DEF Sound, Harmless

\* So is a request that has ended.
LEMMA EndedSound ==
    ASSUME NEW w, job'[w].todo = <<>>
    PROVE  Sound(job[w])'
<1>1. <<>> \in Todos /\ <<>> # Failing /\ First(<<>>) = "none"
  BY DEF First, Todos, Failing
<1> QED
  BY <1>1, HarmlessSound DEF Harmless

\* A request at a step has that step first.
LEMMA AtFirst ==
    ASSUME IInv, NEW w \in Workers, NEW step \in Steps, At(w, step)
    PROVE  /\ job[w].todo \in Todos /\ job[w].todo # <<>>
           /\ First(job[w].todo) = step /\ Head(job[w].todo) = step
           /\ job[w].who \in Browsers
  BY DEF IInv, Sound, At, First

\* The types of the parts.
LEMMA Parts ==
    ASSUME TypeOK
    PROVE  /\ job \in [Workers -> Job] /\ \A w \in Workers : job[w] \in Job
           /\ limits \in [Browsers -> Entries] /\ recorded \in [Browsers -> 0..MAX_ATTEMPTS + 1]
  BY DEF TypeOK, Job

\* A request goes on, with the steps t and the locals of l.
LEMMA GoesOn ==
    ASSUME IInv, NEW w \in Workers, NEW t \in Todos, NEW l \in Job, Goto(w, t, l)
    PROVE  /\ job' \in [Workers -> Job]
           /\ job'[w].todo = t
           /\ t # <<>> => /\ job'[w].who = l.who /\ job'[w].old = l.old
                          /\ job'[w].data = l.data /\ job'[w].sid = l.sid
           /\ \A v \in Workers : v = w
<1>1. job \in [Workers -> Job] /\ OneWorker
  BY Parts DEF IInv
<1>2. \A v \in Workers : v = w
  BY <1>1 DEF OneWorker
<1>3. t = <<>> \/ t \in Seq(Steps)
  BY Tails
<1>4. CASE t = <<>>
  BY <1>1, <1>2, <1>4, IdleJob DEF Goto
<1>5. CASE t # <<>>
  <2> DEFINE r == [l EXCEPT !.todo = t]
  <2>1. /\ r \in Job /\ r.todo = t /\ r.who = l.who /\ r.old = l.old
        /\ r.data = l.data /\ r.sid = l.sid
    BY <1>3, <1>5 DEF Job
  <2>2. job' = [job EXCEPT ![w] = r]
    BY <1>5 DEF Goto
  <2> HIDE DEF r
  <2> QED
    BY <1>1, <1>2, <2>1, <2>2
<1> QED
  BY <1>4, <1>5

\* The first step of what a request sets out to do.
LEMMA Firsts ==
    /\ <<>> \in Todos /\ First(<<>>) = "none"
    /\ \A s \in {"setup_admin", "is_locked", "verify", "save_auth", "check_password"} :
         <<s>> \in Todos /\ First(<<s>>) = s /\ <<s>> # Failing /\ <<s>> # <<>>
    /\ LET t == <<"save_auth", "destroy_all", "create", "destroy_old">>
       IN  t \in Todos /\ First(t) = "save_auth" /\ t # Failing
    /\ LET t == <<"drop", "check_password">>
       IN  t \in Todos /\ First(t) = "drop" /\ t # Failing
    /\ LET t == <<"destroy_all", "create", "set_cookie", "_load", "clear">>
       IN  t \in Todos /\ First(t) = "destroy_all" /\ t # Failing
    /\ Failing \in Todos /\ First(Failing) = "_load"
  BY DEF Todos, First, Failing

\* A step that moves only the request.
LEMMA JobMoves ==
    ASSUME IInv, NEW w \in Workers, \A v \in Workers : v = w,
           job' \in [Workers -> Job], UNCHANGED <<files, cookie, recorded, kills>>,
           Sound(job[w])'
    PROVE  IInv'
<1>1. TypeOK /\ Fits(limits) /\ AtMostOne /\ OneWorker
  BY DEF IInv
<1>2. UNCHANGED <<auth, sessions, limits, cookie, recorded, kills>>
  BY DEF files
<1>3. TypeOK'
  BY <1>1, <1>2 DEF TypeOK, Job
<1>4. Fits(limits)' /\ AtMostOne' /\ OneWorker'
  BY <1>1, <1>2 DEF Fits, Fit, AtMostOne, OneWorker
<1> QED
  BY <1>3, <1>4 DEF IInv

\* A worker takes up a request.
LEMMA RequestIInv ==
    ASSUME IInv, NEW w \in Workers, NEW b \in Browsers,
           NEW p \in Passwords \cup {None}, NEW n \in Passwords \cup {None},
           NEW s \in {"setup_admin", "is_locked", "verify"},
           s = "setup_admin" => p = None, Request(w, b, p, n, <<s>>)
    PROVE  IInv'
<1> DEFINE r == [Idle EXCEPT !.todo = <<s>>, !.who = b, !.was = cookie[b],
                             !.old = p, !.pass = n]
<1>1. cookie[b] \in Sids \cup {None} /\ job \in [Workers -> Job]
        /\ \A v \in Workers : v = w
  BY Parts DEF IInv, TypeOK, OneWorker
<1>2. <<s>> \in Seq(Steps)
  BY DEF Steps
<1>3. r \in Job /\ r.todo = <<s>> /\ r.who = b /\ r.old = p
  BY <1>1, <1>2, IdleJob, Zenon DEF Job
<1>4. job' = [job EXCEPT ![w] = r]
  BY DEF Request
<1> HIDE DEF r
<1>5. job' \in [Workers -> Job] /\ job'[w] = r
  BY <1>1, <1>3, <1>4
<1>6. <<s>> \in Todos /\ First(<<s>>) = s /\ <<s>> # Failing
  BY Firsts
<1>7. Sound(job[w])'
  BY <1>3, <1>5, <1>6 DEF Sound
<1>8. UNCHANGED <<files, cookie, recorded, kills>>
  BY DEF Request
<1> QED
  BY <1>1, <1>5, <1>7, <1>8, JobMoves

\* The setup looks for an account and goes on only where there is none.
LEMMA SetupAdminIInv ==
    ASSUME IInv, NEW w \in Workers, setup_admin(w)
    PROVE  IInv'
<1> DEFINE t == IF auth # None THEN <<>> ELSE <<"save_auth">>
<1>1. /\ job[w] \in Job /\ Sound(job[w]) /\ First(job[w].todo) = "setup_admin"
      /\ job[w].who \in Browsers
  BY Parts, AtFirst DEF IInv, setup_admin, Steps
<1>2. Goto(w, t, job[w]) /\ UNCHANGED <<files, cookie, recorded, kills>>
  BY DEF setup_admin
<1>3. /\ t \in Todos /\ First(t) = (IF auth # None THEN "none" ELSE "save_auth")
      /\ t # Failing
  BY Firsts DEF Failing
<1> HIDE DEF t
<1>4. /\ job' \in [Workers -> Job] /\ job'[w].todo = t
      /\ t # <<>> => job'[w].who = job[w].who /\ job'[w].old = job[w].old
      /\ \A v \in Workers : v = w
  BY <1>1, <1>2, <1>3, GoesOn
<1>5. Sound(job[w])'
  <2>1. CASE t = <<>>
    BY <1>4, <2>1, EndedSound
  <2>2. CASE t # <<>>
    <3>1. auth = None /\ job[w].old = None /\ auth' = auth
      BY <1>1, <1>2, <1>3, <2>2 DEF Sound, files, t
    <3> QED
      BY <1>1, <1>3, <1>4, <2>2, <3>1 DEF Sound
  <2> QED
    BY <2>1, <2>2
<1> QED
  BY <1>2, <1>4, <1>5, JobMoves

\* A password change compares the current password with the account it read.
LEMMA VerifyIInv ==
    ASSUME IInv, NEW w \in Workers, Verify(w)
    PROVE  IInv'
<1> DEFINE t == IF auth # job[w].old THEN <<>>
                ELSE <<"save_auth", "destroy_all", "create", "destroy_old">>
<1>1. job[w] \in Job /\ Sound(job[w]) /\ job[w].who \in Browsers
  BY Parts, AtFirst DEF IInv, Verify, Steps
<1>2. Goto(w, t, job[w]) /\ UNCHANGED <<files, cookie, recorded, kills>>
  BY DEF Verify
<1>3. /\ t \in Todos /\ First(t) = (IF auth # job[w].old THEN "none" ELSE "save_auth")
      /\ t # Failing
  BY Firsts DEF Failing
<1>4. t # <<>> => auth = job[w].old
  OBVIOUS
<1> HIDE DEF t
<1>5. /\ job' \in [Workers -> Job] /\ job'[w].todo = t
      /\ t # <<>> => job'[w].who = job[w].who /\ job'[w].old = job[w].old
      /\ \A v \in Workers : v = w
  BY <1>1, <1>2, <1>3, GoesOn
<1>6. Sound(job[w])'
  <2>1. CASE t = <<>>
    BY <1>5, <2>1, EndedSound
  <2>2. CASE t # <<>>
    <3>1. auth' = job[w].old
      BY <1>2, <1>4, <2>2 DEF files
    <3> QED
      BY <1>1, <1>3, <1>4, <1>5, <2>2, <3>1 DEF Sound
  <2> QED
    BY <2>1, <2>2
<1> QED
  BY <1>2, <1>5, <1>6, JobMoves

\* A step that also moves the files.
LEMMA FilesMove ==
    ASSUME IInv, NEW w \in Workers, \A v \in Workers : v = w,
           job' \in [Workers -> Job], auth' \in Passwords \cup {None},
           sessions' \in [Sids -> {"none", "live", "expired"}],
           limits' \in [Browsers -> Entries], cookie' \in [Browsers -> Sids \cup {None}],
           recorded' \in [Browsers -> 0..MAX_ATTEMPTS + 1], kills' \in 0..MaxKills,
           Fits(limits)', AtMostOne', Sound(job[w])'
    PROVE  IInv'
<1>1. TypeOK'
  BY DEF TypeOK, Job
<1>2. OneWorker'
  BY DEF OneWorker
<1> QED
  BY <1>1, <1>2 DEF IInv

\* A request takes its next step; what is then first follows the step taken.
LEMMA Continues ==
    ASSUME IInv, NEW w \in Workers, NEW step \in Steps, At(w, step), NEW l \in Job,
           l.who = job[w].who, Goto(w, Tail(job[w].todo), l)
    PROVE  /\ job' \in [Workers -> Job] /\ job'[w].todo \in Todos
           /\ job'[w].todo # Failing /\ First(job'[w].todo) \in Follows(step)
           /\ step = "_load" /\ job[w].todo # Failing => First(job'[w].todo) = "clear"
           /\ job'[w].todo # <<>> => /\ job'[w].who \in Browsers /\ job'[w].who = job[w].who
                                     /\ job'[w].data = l.data
           /\ \A v \in Workers : v = w
<1>1. /\ job[w].todo \in Todos /\ job[w].todo # <<>> /\ Head(job[w].todo) = step
      /\ job[w].who \in Browsers
  BY AtFirst
<1> DEFINE t == Tail(job[w].todo)
<1>2. /\ t \in Todos /\ t # Failing /\ First(t) \in Follows(step)
      /\ step = "_load" /\ job[w].todo # Failing => First(t) = "clear"
  BY <1>1, Tails
<1> HIDE DEF t
<1>3. Goto(w, t, l)
  BY DEF t
<1> QED
  BY <1>1, <1>2, <1>3, GoesOn

\* The state as its parts.
LEMMA Known ==
    ASSUME IInv
    PROVE  /\ auth \in Passwords \cup {None}
           /\ sessions \in [Sids -> {"none", "live", "expired"}]
           /\ limits \in [Browsers -> Entries] /\ cookie \in [Browsers -> Sids \cup {None}]
           /\ recorded \in [Browsers -> 0..MAX_ATTEMPTS + 1] /\ kills \in 0..MaxKills
           /\ Fits(limits) /\ AtMostOne
           /\ \A w \in Workers : job[w] \in Job /\ Sound(job[w])
  BY Parts DEF IInv, TypeOK

\* The limit and the sessions are as they were.
LEMMA LimitsKept ==
    ASSUME Fits(limits), UNCHANGED <<limits, recorded>>
    PROVE  Fits(limits)'
  BY DEF Fits, Fit

\* Where the sessions stay, there is still at most one.
LEMMA SessionsKept ==
    ASSUME AtMostOne, UNCHANGED sessions
    PROVE  AtMostOne'
  BY DEF AtMostOne

\* The account is saved, or that fails; the request goes on or ends.
LEMMA SaveAuthIInv ==
    ASSUME IInv, NEW w \in Workers, save_auth(w)
    PROVE  IInv'
<1>1. /\ At(w, "save_auth") /\ UNCHANGED <<sessions, limits, cookie, recorded, kills>>
      /\ \/ auth' \in {job[w].pass, None} /\ Goto(w, Tail(job[w].todo), job[w])
         \/ auth' = auth /\ Goto(w, <<>>, job[w])
  BY DEF save_auth, Continue, Answer
<1>2. job[w] \in Job /\ "save_auth" \in Steps /\ job[w].pass \in Passwords \cup {None}
  BY Known DEF Steps, Job
<1>3. /\ job' \in [Workers -> Job] /\ Sound(job[w])' /\ \A v \in Workers : v = w
  <2>1. CASE Goto(w, Tail(job[w].todo), job[w])
    <3>1. /\ job' \in [Workers -> Job] /\ job'[w].todo \in Todos
          /\ job'[w].todo # Failing /\ First(job'[w].todo) \in Follows("save_auth")
          /\ job'[w].todo # <<>> => job'[w].who \in Browsers
          /\ \A v \in Workers : v = w
      BY <1>1, <1>2, <2>1, Continues
    <3> QED
      BY <3>1, FollowSets, HarmlessSound DEF Harmless
  <2>2. CASE Goto(w, <<>>, job[w])
    <3>1. job' \in [Workers -> Job] /\ job'[w].todo = <<>> /\ \A v \in Workers : v = w
      BY <1>2, <2>2, Firsts, GoesOn
    <3> QED
      BY <3>1, EndedSound
  <2> QED
    BY <1>1, <2>1, <2>2
<1>4. auth' \in Passwords \cup {None}
  BY <1>1, <1>2, Known
<1>5. Fits(limits)' /\ AtMostOne'
  BY <1>1, Known, LimitsKept, SessionsKept
<1> QED
  BY <1>1, <1>3, <1>4, <1>5, Known, FilesMove, Zenon

\* The login reads the limit: locked, open, or over and to be dropped.
LEMMA IsLockedIInv ==
    ASSUME IInv, NEW w \in Workers, is_locked(w)
    PROVE  IInv'
<1> DEFINE b == job[w].who
           lock == limits[b].lock
           t == CASE lock = "yes" -> <<>>
                  [] lock = "over" -> <<"drop", "check_password">>
                  [] OTHER -> <<"check_password">>
           l == [job[w] EXCEPT !.data = limits]
<1>1. /\ Goto(w, t, l) /\ At(w, "is_locked")
      /\ UNCHANGED <<auth, sessions, limits, cookie, recorded, kills>>
  BY DEF is_locked, files
<1>2. job[w] \in Job /\ limits \in [Browsers -> Entries] /\ Fits(limits) /\ b \in Browsers
  BY <1>1, Known, AtFirst DEF Steps
<1>3. l \in Job /\ l.who = b /\ l.data = limits
  BY <1>2 DEF Job
<1>4. lock \in {"yes", "over", "no"} /\ (lock = "over" => recorded[b] = 0)
  BY <1>2 DEF Entries, Fits, Fit
<1>5. /\ t \in Todos /\ t # Failing
      /\ \/ t = <<>>
         \/ First(t) = "drop" /\ lock = "over"
         \/ First(t) = "check_password" /\ lock # "yes"
  <2>1. CASE lock = "yes"
    BY <2>1, Firsts DEF Failing
  <2>2. CASE lock = "over"
    BY <2>2, Firsts
  <2>3. CASE lock = "no"
    BY <2>3, Firsts
  <2> QED
    BY <1>4, <2>1, <2>2, <2>3
<1> HIDE DEF t, l, b, lock
<1>6. /\ job' \in [Workers -> Job] /\ job'[w].todo = t
      /\ t # <<>> => job'[w].who = b /\ job'[w].data = limits
      /\ \A v \in Workers : v = w
  <2>1. /\ job' \in [Workers -> Job] /\ job'[w].todo = t
        /\ t # <<>> => job'[w].who = l.who /\ job'[w].data = l.data
        /\ \A v \in Workers : v = w
    BY <1>1, <1>3, <1>5, GoesOn
  <2> QED
    BY <1>3, <2>1, Zenon
<1>7. Sound(job[w])'
  <2>1. CASE t = <<>>
    BY <1>6, <2>1, EndedSound
  <2>2. CASE t # <<>>
    <3>1. Fits(limits)'
      BY <1>1, <1>2, LimitsKept
    <3> QED
      BY <1>1, <1>2, <1>4, <1>5, <1>6, <2>2, <3>1 DEF Sound, Fits, Fit, lock
  <2> QED
    BY <2>1, <2>2
<1> QED
  BY <1>1, <1>6, <1>7, JobMoves DEF files

\* The entries `data` are not behind the failures `counts`.
AllFit(data, counts) ==
    \A c \in Browsers :
        /\ data[c].lock = "no" => counts[c] <= data[c].count /\ data[c].count < MAX_ATTEMPTS
        /\ data[c].lock = "over" => counts[c] = 0

\* However a save of the limit ends, the file is not behind what it has taken
\* in, if neither what is saved nor what stays is.
LEMMA SaveFits ==
    ASSUME NEW data \in [Browsers -> Entries],
           NEW saved \in [Browsers -> 0..MAX_ATTEMPTS + 1],
           NEW unsaved \in [Browsers -> 0..MAX_ATTEMPTS + 1],
           limits \in [Browsers -> Entries], Save(data, saved, unsaved),
           AllFit(data, saved), AllFit(limits, unsaved)
    PROVE  /\ limits' \in [Browsers -> Entries]
           /\ recorded' \in [Browsers -> 0..MAX_ATTEMPTS + 1]
           /\ Fits(limits)'
<1>1. CASE limits' = data /\ recorded' = saved
  BY <1>1 DEF AllFit, Fits, Fit
<1>2. CASE limits' = limits /\ recorded' = unsaved
  BY <1>2 DEF AllFit, Fits, Fit
<1>3. CASE limits' = Empty /\ recorded' = [b \in Browsers |-> 0]
  <2>1. Empty \in [Browsers -> Entries] /\ recorded' \in [Browsers -> 0..MAX_ATTEMPTS + 1]
    BY <1>3, IdleJob
  <2>2. ASSUME NEW c \in Browsers PROVE limits'[c] = NoEntry /\ recorded'[c] = 0
    BY <1>3 DEF Empty
  <2>3. Fits(limits)'
    BY <2>2 DEF Fits, Fit, NoEntry
  <2> QED
    BY <1>3, <2>1, <2>3
<1> QED
  BY <1>1, <1>2, <1>3 DEF Save

\* The limit is saved without the entry that is over, or of whoever logged in.
LEMMA DropIInv ==
    ASSUME IInv, NEW w \in Workers, NEW step \in {"drop", "clear"}, At(w, step), Drop(w)
    PROVE  IInv'
<1> DEFINE b == job[w].who
           data == job[w].data
           less == [data EXCEPT ![b] = NoEntry]
           counts == IF At(w, "clear") THEN [recorded EXCEPT ![b] = 0] ELSE recorded
<1>1. /\ Goto(w, Tail(job[w].todo), job[w]) /\ Save(less, counts, counts)
      /\ UNCHANGED <<auth, sessions, cookie, kills>>
  BY DEF Drop, Continue
<1>2. /\ job[w] \in Job /\ Sound(job[w]) /\ step \in Steps /\ data \in [Browsers -> Entries]
      /\ limits \in [Browsers -> Entries] /\ Fits(limits)
  BY Known DEF Steps, Job
<1>3. b \in Browsers /\ First(job[w].todo) = step
  BY <1>2, AtFirst
<1>4. Fits(data) /\ (step = "drop" => recorded[b] = 0 /\ limits[b].lock # "yes")
  BY <1>2, <1>3 DEF Sound
<1>5. step = "clear" <=> At(w, "clear")
  BY DEF At
<1>6. /\ job' \in [Workers -> Job] /\ job'[w].todo \in Todos
      /\ job'[w].todo # Failing /\ First(job'[w].todo) \in Follows(step)
      /\ job'[w].todo # <<>> => job'[w].who \in Browsers /\ job'[w].who = b
      /\ \A v \in Workers : v = w
  BY <1>1, <1>2, Continues
<1>7. /\ counts \in [Browsers -> 0..MAX_ATTEMPTS + 1] /\ counts[b] = 0
      /\ \A c \in Browsers \ {b} : counts[c] = recorded[c]
  <2>1. recorded \in [Browsers -> 0..MAX_ATTEMPTS + 1] /\ 0 \in 0..MAX_ATTEMPTS + 1
    BY Known
  <2>2. CASE step = "clear"
    BY <1>3, <1>5, <2>1, <2>2
  <2>3. CASE step = "drop"
    BY <1>4, <1>5, <2>1, <2>3
  <2> QED
    BY <2>2, <2>3
<1>8. /\ less \in [Browsers -> Entries] /\ less[b] = NoEntry
      /\ \A c \in Browsers \ {b} : less[c] = data[c]
  BY <1>2, <1>3, IdleJob
<1> HIDE DEF b, data, less, counts
<1>9. AllFit(less, counts)
  <2> SUFFICES ASSUME NEW c \in Browsers
               PROVE  /\ less[c].lock = "no" => /\ counts[c] <= less[c].count
                                                /\ less[c].count < MAX_ATTEMPTS
                      /\ less[c].lock = "over" => counts[c] = 0
    BY DEF AllFit
  <2>1. CASE c = b
    BY <1>7, <1>8, <2>1 DEF NoEntry
  <2>2. CASE c # b
    BY <1>4, <1>7, <1>8, <2>2 DEF Fits, Fit
  <2> QED
    BY <2>1, <2>2
<1>10. AllFit(limits, counts)
  <2> SUFFICES ASSUME NEW c \in Browsers
               PROVE  /\ limits[c].lock = "no" => /\ counts[c] <= limits[c].count
                                                  /\ limits[c].count < MAX_ATTEMPTS
                      /\ limits[c].lock = "over" => counts[c] = 0
    BY DEF AllFit
  <2>1. limits[c].count \in Nat /\ Fit(c, limits[c])
    BY <1>2, EntryFields DEF Fits
  <2>2. CASE c = b
    BY <1>7, <2>1, <2>2 DEF Fit
  <2>3. CASE c # b
    BY <1>7, <2>1, <2>3 DEF Fit
  <2> QED
    BY <2>2, <2>3
<1>11. /\ limits' \in [Browsers -> Entries]
       /\ recorded' \in [Browsers -> 0..MAX_ATTEMPTS + 1] /\ Fits(limits)'
  BY <1>1, <1>2, <1>7, <1>8, <1>9, <1>10, SaveFits
<1>12. step = "drop" => limits'[b].lock # "yes"
  <2>1. limits' \in {less, limits, Empty}
    BY <1>1 DEF Save
  <2>2. Empty[b].lock # "yes" /\ less[b].lock # "yes"
    BY <1>3, <1>8 DEF Empty, NoEntry
  <2> QED
    BY <1>4, <2>1, <2>2
<1>13. Sound(job[w])'
  <2>1. CASE First(job'[w].todo) = "none"
    BY <1>6, <2>1, HarmlessSound DEF Harmless
  <2>2. CASE First(job'[w].todo) = "check_password" /\ step = "drop"
    <3>1. job'[w].todo # <<>>
      BY <2>2 DEF First
    <3>2. limits'[job'[w].who].lock # "yes"
      BY <1>6, <1>12, <2>2, <3>1
    <3> QED
      BY <1>6, <2>2, <3>1, <3>2 DEF Sound
  <2> QED
    BY <1>6, <2>1, <2>2, FollowSets
<1>14. AtMostOne'
  BY <1>1, Known, SessionsKept
<1> QED
  BY <1>1, <1>6, <1>11, <1>13, <1>14, Known, FilesMove, Zenon

\* The password is compared; the entry is still the one that was open.
LEMMA CheckPasswordIInv ==
    ASSUME IInv, NEW w \in Workers, check_password(w)
    PROVE  IInv'
<1> DEFINE t == CASE auth = None -> <<>>
                  [] auth = job[w].old ->
                       <<"destroy_all", "create", "set_cookie", "_load", "clear">>
                  [] OTHER -> <<"_load", "record_failure">>
<1>1. /\ Goto(w, t, job[w]) /\ At(w, "check_password")
      /\ UNCHANGED <<files, cookie, recorded, kills>>
  BY DEF check_password
<1>2. job[w] \in Job /\ Sound(job[w])
  BY Known
<1>3. job[w].who \in Browsers /\ First(job[w].todo) = "check_password"
  BY <1>1, AtFirst DEF Steps
<1>4. limits[job[w].who].lock # "yes" /\ limits' = limits
  BY <1>1, <1>2, <1>3 DEF Sound, files
<1>5. /\ t \in Todos
      /\ t = <<>> \/ (t # Failing /\ First(t) = "destroy_all")
           \/ (t = Failing /\ First(t) = "_load")
  <2>1. CASE auth = None /\ auth # job[w].old
    BY <2>1, Firsts
  <2>2. CASE auth = job[w].old
    BY <2>2, Firsts
  <2>3. CASE auth # None /\ auth # job[w].old
    BY <2>3, Firsts DEF Failing
  <2> QED
    BY <2>1, <2>2, <2>3
<1> HIDE DEF t
<1>6. /\ job' \in [Workers -> Job] /\ job'[w].todo = t
      /\ t # <<>> => job'[w].who = job[w].who
      /\ \A v \in Workers : v = w
  BY <1>1, <1>2, <1>5, GoesOn
<1>7. Sound(job[w])'
  <2>1. CASE t = <<>>
    BY <1>6, <2>1, EndedSound
  <2>2. CASE t # <<>>
    BY <1>3, <1>4, <1>5, <1>6, <2>2 DEF Sound
  <2> QED
    BY <2>1, <2>2
<1> QED
  BY <1>1, <1>6, <1>7, JobMoves

\* The limit is read again, before it is cleared or counted up.
LEMMA LoadIInv ==
    ASSUME IInv, NEW w \in Workers, Load(w)
    PROVE  IInv'
<1> DEFINE l == [job[w] EXCEPT !.data = limits]
<1>1. /\ Goto(w, Tail(job[w].todo), l) /\ At(w, "_load")
      /\ UNCHANGED <<auth, sessions, limits, cookie, recorded, kills>>
  BY DEF Load, files
<1>2. /\ job[w] \in Job /\ Sound(job[w]) /\ Fits(limits) /\ "_load" \in Steps
      /\ limits \in [Browsers -> Entries]
  BY Known DEF Steps
<1>3. l \in Job /\ l.who = job[w].who /\ l.data = limits
  BY <1>2 DEF Job
<1> HIDE DEF l
<1>4. /\ job' \in [Workers -> Job] /\ job'[w].todo \in Todos
      /\ job'[w].todo # Failing /\ First(job'[w].todo) \in {"clear", "record_failure"}
      /\ job[w].todo # Failing => First(job'[w].todo) = "clear"
      /\ job'[w].todo # <<>> => /\ job'[w].who \in Browsers /\ job'[w].who = job[w].who
                                /\ job'[w].data = limits
      /\ \A v \in Workers : v = w
  <2>1. /\ job' \in [Workers -> Job] /\ job'[w].todo \in Todos
        /\ job'[w].todo # Failing /\ First(job'[w].todo) \in Follows("_load")
        /\ job[w].todo # Failing => First(job'[w].todo) = "clear"
        /\ job'[w].todo # <<>> => /\ job'[w].who \in Browsers /\ job'[w].who = job[w].who
                                  /\ job'[w].data = l.data
        /\ \A v \in Workers : v = w
    BY <1>1, <1>2, <1>3, Continues
  <2> QED
    BY <1>3, <2>1, FollowSets
<1>5. job'[w].todo # <<>>
  BY <1>4 DEF First
<1>6. Fits(limits)'
  BY <1>1, <1>2, LimitsKept
<1>7. job[w].todo = Failing => limits[job[w].who].lock # "yes"
  BY <1>2 DEF Sound
<1>8. Sound(job[w])'
  BY <1>1, <1>4, <1>5, <1>6, <1>7 DEF Sound, Fits, Fit
<1> QED
  BY <1>1, <1>4, <1>8, JobMoves DEF files

\* The failure is counted and answered in one step, so the entry is not behind.
LEMMA RecordFailureIInv ==
    ASSUME IInv, NEW w \in Workers, record_failure(w)
    PROVE  IInv'
<1> DEFINE b == job[w].who
           data == job[w].data
           n == data[b].count + 1
           more == [data EXCEPT ![b] = Entry(n)]
           counts == [recorded EXCEPT ![b] = IF recorded[b] > MAX_ATTEMPTS THEN recorded[b]
                                             ELSE recorded[b] + 1]
<1>1. /\ Goto(w, <<>>, job[w]) /\ At(w, "record_failure") /\ Save(more, counts, recorded)
      /\ UNCHANGED <<auth, sessions, cookie, kills>>
  BY DEF record_failure, Answer
<1>2. /\ job[w] \in Job /\ Sound(job[w]) /\ data \in [Browsers -> Entries]
      /\ recorded \in [Browsers -> 0..MAX_ATTEMPTS + 1]
      /\ limits \in [Browsers -> Entries] /\ Fits(limits)
  BY Known DEF Job
<1>3. b \in Browsers /\ First(job[w].todo) = "record_failure"
  BY <1>1, AtFirst DEF Steps
<1>4. Fits(data) /\ data[b].lock # "yes"
  BY <1>2, <1>3 DEF Sound
<1>5. /\ n \in Nat /\ recorded[b] + 1 <= n /\ recorded[b] \in Nat
      /\ recorded[b] <= MAX_ATTEMPTS
  <2>1. data[b] \in Entries /\ Fit(b, data[b]) /\ recorded[b] \in 0..MAX_ATTEMPTS + 1
    BY <1>2, <1>3, <1>4 DEF Fits
  <2>2. data[b].count \in Nat /\ data[b].lock \in {"no", "over"}
    BY <1>4, <2>1, EntryFields
  <2>3. recorded[b] <= data[b].count /\ recorded[b] <= MAX_ATTEMPTS
    BY <2>1, <2>2 DEF Fit
  <2> HIDE DEF b, data
  <2> QED
    BY <2>1, <2>2, <2>3
<1>6. Entry(n) \in Entries /\ Entry(n).lock # "over"
        /\ (Entry(n).lock = "no" => n < MAX_ATTEMPTS /\ Entry(n).count = n)
  <2> HIDE DEF n
  <2> QED
    BY <1>5 DEF Entry, Entries
<1>7. /\ more \in [Browsers -> Entries] /\ more[b] = Entry(n)
      /\ \A c \in Browsers \ {b} : more[c] = data[c]
  <2> HIDE DEF n, b, data
  <2> QED
    BY <1>2, <1>3, <1>6
<1>8. /\ counts \in [Browsers -> 0..MAX_ATTEMPTS + 1] /\ counts[b] = recorded[b] + 1
      /\ \A c \in Browsers \ {b} : counts[c] = recorded[c]
  <2> HIDE DEF n, b, data
  <2> QED
    BY <1>2, <1>3, <1>5
<1> HIDE DEF n, b, data, more, counts
<1>9. AllFit(more, counts)
  <2> SUFFICES ASSUME NEW c \in Browsers
               PROVE  /\ more[c].lock = "no" => /\ counts[c] <= more[c].count
                                                /\ more[c].count < MAX_ATTEMPTS
                      /\ more[c].lock = "over" => counts[c] = 0
    BY DEF AllFit
  <2>1. CASE c = b
    BY <1>5, <1>6, <1>7, <1>8, <2>1
  <2>2. CASE c # b
    BY <1>4, <1>7, <1>8, <2>2 DEF Fits, Fit
  <2> QED
    BY <2>1, <2>2
<1>10. AllFit(limits, recorded)
  BY <1>2 DEF AllFit, Fits, Fit
<1>11. /\ limits' \in [Browsers -> Entries]
       /\ recorded' \in [Browsers -> 0..MAX_ATTEMPTS + 1] /\ Fits(limits)'
  BY <1>1, <1>2, <1>7, <1>8, <1>9, <1>10, SaveFits
<1>12. job' \in [Workers -> Job] /\ job'[w].todo = <<>> /\ \A v \in Workers : v = w
  BY <1>1, <1>2, Firsts, GoesOn
<1>13. Sound(job[w])' /\ AtMostOne'
  BY <1>1, <1>12, EndedSound, Known, SessionsKept
<1> QED
  BY <1>1, <1>11, <1>12, <1>13, Known, FilesMove, Zenon

\* Every session is removed.
LEMMA DestroyAllIInv ==
    ASSUME IInv, NEW w \in Workers, destroy_all(w)
    PROVE  IInv'
<1>1. /\ Goto(w, Tail(job[w].todo), job[w]) /\ At(w, "destroy_all")
      /\ sessions' = [s \in Sids |-> "none"]
      /\ UNCHANGED <<auth, limits, cookie, recorded, kills>>
  BY DEF destroy_all, Continue
<1>2. job[w] \in Job /\ "destroy_all" \in Steps
  BY Known DEF Steps
<1>3. /\ job' \in [Workers -> Job] /\ job'[w].todo \in Todos
      /\ job'[w].todo # Failing /\ First(job'[w].todo) = "create"
      /\ job'[w].todo # <<>> => job'[w].who \in Browsers
      /\ \A v \in Workers : v = w
  <2>1. /\ job' \in [Workers -> Job] /\ job'[w].todo \in Todos
        /\ job'[w].todo # Failing /\ First(job'[w].todo) \in Follows("destroy_all")
        /\ job'[w].todo # <<>> => job'[w].who \in Browsers
        /\ \A v \in Workers : v = w
    BY <1>1, <1>2, Continues
  <2> QED
    BY <2>1, FollowSets
<1>4. \A s \in Sids : sessions'[s] = "none"
  BY <1>1
<1>5. Sound(job[w])'
  BY <1>3, <1>4 DEF Sound
<1>6. Fits(limits)' /\ AtMostOne'
  BY <1>1, <1>4, Known, LimitsKept DEF AtMostOne
<1> QED
  BY <1>1, <1>3, <1>5, <1>6, Known, FilesMove

\* A session is created; none was left, so it is the only one.
LEMMA CreateIInv ==
    ASSUME IInv, NEW w \in Workers, create(w)
    PROVE  IInv'
<1>1. PICK s \in Sids :
        /\ At(w, "create")
        /\ sessions' \in {[sessions EXCEPT ![s] = "live"], sessions}
        /\ Goto(w, Tail(job[w].todo), [job[w] EXCEPT !.sid = s])
        /\ UNCHANGED <<auth, limits, cookie, recorded, kills>>
  BY DEF create
<1>2. /\ job[w] \in Job /\ Sound(job[w]) /\ "create" \in Steps
      /\ sessions \in [Sids -> {"none", "live", "expired"}]
  BY Known DEF Steps
<1>3. \A t \in Sids : sessions[t] = "none"
  BY <1>1, <1>2, AtFirst DEF Sound
<1>4. [job[w] EXCEPT !.sid = s] \in Job /\ [job[w] EXCEPT !.sid = s].who = job[w].who
  BY <1>2 DEF Job
<1>5. /\ job' \in [Workers -> Job] /\ job'[w].todo \in Todos
      /\ job'[w].todo # Failing /\ First(job'[w].todo) \in {"set_cookie", "destroy_old"}
      /\ job'[w].todo # <<>> => job'[w].who \in Browsers
      /\ \A v \in Workers : v = w
  <2>1. /\ job' \in [Workers -> Job] /\ job'[w].todo \in Todos
        /\ job'[w].todo # Failing /\ First(job'[w].todo) \in Follows("create")
        /\ job'[w].todo # <<>> => job'[w].who \in Browsers
        /\ \A v \in Workers : v = w
    BY <1>1, <1>2, <1>4, Continues, Zenon
  <2> QED
    BY <2>1, FollowSets
<1>6. /\ sessions' \in [Sids -> {"none", "live", "expired"}]
      /\ \A t \in Sids \ {s} : sessions'[t] = "none"
  BY <1>1, <1>2, <1>3
<1>7. Sound(job[w])'
  BY <1>5, HarmlessSound DEF Harmless
<1>8. Fits(limits)' /\ AtMostOne'
  BY <1>1, <1>6, Known, LimitsKept DEF AtMostOne
<1> QED
  BY <1>1, <1>5, <1>6, <1>7, <1>8, Known, FilesMove, Zenon

\* The browser gets the session and the answer.
LEMMA SetCookieIInv ==
    ASSUME IInv, NEW w \in Workers, set_cookie(w)
    PROVE  IInv'
<1>1. /\ Goto(w, Tail(job[w].todo), job[w]) /\ At(w, "set_cookie")
      /\ cookie' = [cookie EXCEPT ![job[w].who] = job[w].sid]
      /\ UNCHANGED <<auth, sessions, limits, recorded, kills>>
  BY DEF set_cookie, Continue, files
<1>2. job[w] \in Job /\ "set_cookie" \in Steps /\ job[w].sid \in Sids \cup {None}
  BY Known DEF Steps, Job
<1>3. /\ job' \in [Workers -> Job] /\ job'[w].todo \in Todos
      /\ job'[w].todo # Failing /\ First(job'[w].todo) = "_load"
      /\ job'[w].todo # <<>> => job'[w].who \in Browsers
      /\ \A v \in Workers : v = w
  <2>1. /\ job' \in [Workers -> Job] /\ job'[w].todo \in Todos
        /\ job'[w].todo # Failing /\ First(job'[w].todo) \in Follows("set_cookie")
        /\ job'[w].todo # <<>> => job'[w].who \in Browsers
        /\ \A v \in Workers : v = w
    BY <1>1, <1>2, Continues
  <2> QED
    BY <2>1, FollowSets
<1>4. cookie' \in [Browsers -> Sids \cup {None}]
  BY <1>1, <1>2, Known, Zenon
<1>5. Sound(job[w])'
  BY <1>3, HarmlessSound DEF Harmless
<1>6. Fits(limits)' /\ AtMostOne'
  BY <1>1, Known, LimitsKept, SessionsKept
<1> QED
  BY <1>1, <1>3, <1>4, <1>5, <1>6, Known, FilesMove

\* Sessions only go: there is still one at most.
LEMMA SessionsGo ==
    ASSUME AtMostOne, \A s \in Sids : sessions'[s] # "none" => sessions[s] # "none"
    PROVE  AtMostOne'
  BY DEF AtMostOne

\* The session the browser had before is removed.
LEMMA DestroyOldIInv ==
    ASSUME IInv, NEW w \in Workers, DestroyOld(w)
    PROVE  IInv'
<1>1. /\ Goto(w, <<>>, job[w])
      /\ sessions' = [s \in Sids |-> IF s = job[w].was THEN "none" ELSE sessions[s]]
      /\ cookie' = [cookie EXCEPT ![job[w].who] = job[w].sid]
      /\ UNCHANGED <<auth, limits, recorded, kills>>
  BY DEF DestroyOld, Answer
<1>2. job[w] \in Job /\ job[w].sid \in Sids \cup {None}
  BY Known DEF Job
<1>3. /\ cookie' \in [Browsers -> Sids \cup {None}]
      /\ sessions' \in [Sids -> {"none", "live", "expired"}]
  BY <1>1, <1>2, Known, Zenon
<1>4. job' \in [Workers -> Job] /\ job'[w].todo = <<>> /\ \A v \in Workers : v = w
  BY <1>1, <1>2, Firsts, GoesOn
<1>5. Sound(job[w])'
  BY <1>4, EndedSound
<1>6. Fits(limits)' /\ AtMostOne'
  BY <1>1, Known, LimitsKept, SessionsGo
<1> QED
  BY <1>1, <1>3, <1>4, <1>5, <1>6, Known, FilesMove

\* A step that is not part of a request, while the only worker is idle.
LEMMA LeaveIInv ==
    ASSUME IInv, NEW w \in Workers, NEW b \in Browsers, Logout(w, b) \/ ReadExpired(w, b)
    PROVE  IInv'
<1>1. /\ job[w] = Idle /\ cookie[b] # None
      /\ sessions' = [sessions EXCEPT ![cookie[b]] = "none"]
      /\ cookie' = [cookie EXCEPT ![b] = None] \/ cookie' = cookie
      /\ UNCHANGED <<auth, limits, job, recorded, kills>>
  BY DEF Logout, ReadExpired
<1>2. /\ cookie' \in [Browsers -> Sids \cup {None}] /\ cookie[b] \in Sids
      /\ sessions' \in [Sids -> {"none", "live", "expired"}]
      /\ \A s \in Sids : sessions'[s] # "none" => sessions[s] # "none"
  BY <1>1, Known
<1>3. job' \in [Workers -> Job] /\ \A v \in Workers : v = w
  BY <1>1, Parts DEF IInv, OneWorker
<1>4. Sound(job[w])'
  BY <1>1, IdleJob, EndedSound
<1>5. Fits(limits)' /\ AtMostOne'
  BY <1>1, <1>2, Known, LimitsKept, SessionsGo
<1> QED
  BY <1>1, <1>2, <1>3, <1>4, <1>5, Known, FilesMove

\* A killed worker has no request any more, and the files stay.
LEMMA KillIInv ==
    ASSUME IInv, NEW w \in Workers, Kill(w)
    PROVE  IInv'
<1>1. /\ job' = [job EXCEPT ![w] = Idle] /\ kills' = kills + 1 /\ kills < MaxKills
      /\ UNCHANGED <<auth, sessions, limits, cookie, recorded>>
  BY DEF Kill, files
<1>2. /\ job' \in [Workers -> Job] /\ job'[w].todo = <<>> /\ \A v \in Workers : v = w
      /\ kills' \in 0..MaxKills
  <2>1. job \in [Workers -> Job] /\ kills \in 0..MaxKills /\ OneWorker
    BY Parts DEF IInv, TypeOK
  <2> QED
    BY <1>1, <2>1, IdleJob DEF OneWorker
<1>3. Sound(job[w])'
  BY <1>2, EndedSound
<1>4. Fits(limits)' /\ AtMostOne'
  BY <1>1, Known, LimitsKept, SessionsKept
<1> QED
  BY <1>1, <1>2, <1>3, <1>4, Known, FilesMove

\* A session that expires leaves at most one.
LEMMA SessionExpiresIInv ==
    ASSUME IInv, NEW s \in Sids, SessionExpires(s)
    PROVE  IInv'
<1>1. /\ sessions[s] = "live" /\ sessions' = [sessions EXCEPT ![s] = "expired"]
      /\ UNCHANGED <<auth, limits, cookie, job, recorded, kills>>
  BY DEF SessionExpires
<1>2. /\ sessions' \in [Sids -> {"none", "live", "expired"}]
      /\ \A t \in Sids : sessions'[t] # "none" => sessions[t] # "none"
  BY <1>1, Known
<1>3. TypeOK'
  BY <1>1, <1>2 DEF IInv, TypeOK
<1>4. Fits(limits)' /\ AtMostOne' /\ OneWorker'
  BY <1>1, <1>2, Known, LimitsKept, SessionsGo DEF IInv, OneWorker
<1>5. ASSUME NEW w \in Workers PROVE Sound(job[w])'
  <2>1. Sound(job[w]) /\ First(job[w].todo) # "create"
    BY <1>1, Known DEF Sound
  <2> QED
    BY <1>1, <2>1 DEF Sound, Fits, Fit
<1> QED
  BY <1>3, <1>4, <1>5 DEF IInv

\* When the lockout ends, the failures are counted from the start.
LEMMA LockoutEndsIInv ==
    ASSUME IInv, NEW b \in Browsers, LockoutEnds(b)
    PROVE  IInv'
<1>1. /\ limits[b].lock = "yes" /\ limits' = [limits EXCEPT ![b].lock = "over"]
      /\ recorded' = [recorded EXCEPT ![b] = 0]
      /\ UNCHANGED <<auth, sessions, cookie, job, kills>>
  BY DEF LockoutEnds
<1>2. /\ limits \in [Browsers -> Entries] /\ recorded \in [Browsers -> 0..MAX_ATTEMPTS + 1]
      /\ Fits(limits)
  BY Known
<1>3. /\ limits' \in [Browsers -> Entries] /\ limits'[b].lock = "over"
      /\ \A c \in Browsers \ {b} : limits'[c] = limits[c]
  BY <1>1, <1>2 DEF Entries
<1>4. /\ recorded' \in [Browsers -> 0..MAX_ATTEMPTS + 1] /\ recorded'[b] = 0
      /\ \A c \in Browsers \ {b} : recorded'[c] = recorded[c]
  BY <1>1, <1>2
<1>5. TypeOK'
  BY <1>1, <1>3, <1>4 DEF IInv, TypeOK
<1>6. Fits(limits)'
  <2> SUFFICES ASSUME NEW c \in Browsers PROVE Fit(c, limits[c])'
    BY DEF Fits
  <2>1. CASE c = b
    BY <1>3, <1>4, <2>1 DEF Fit
  <2>2. CASE c # b
    BY <1>2, <1>3, <1>4, <2>2 DEF Fits, Fit
  <2> QED
    BY <2>1, <2>2
<1>7. AtMostOne' /\ OneWorker'
  BY <1>1, Known, SessionsKept DEF IInv, OneWorker
<1>8. ASSUME NEW w \in Workers PROVE Sound(job[w])'
  <2>1. Sound(job[w]) /\ job[w] \in Job /\ job[w].data \in [Browsers -> Entries]
    BY Known DEF Job
  <2>2. CASE job[w].todo = <<>>
    BY <1>1, <2>2, EndedSound
  <2>3. CASE job[w].todo # <<>>
    <3>1. job[w].who \in Browsers
      BY <2>1, <2>3 DEF Sound
    <3>2. recorded[job[w].who] = 0 => recorded'[job[w].who] = 0
      BY <1>4, <3>1
    <3>3. limits[job[w].who].lock # "yes" => limits'[job[w].who].lock # "yes"
      BY <1>1, <1>3, <3>1
    <3>4. Fits(job[w].data) => Fits(job[w].data)'
      <4> DEFINE data == job[w].data
      <4>1. data \in [Browsers -> Entries] /\ data' = data
        BY <1>1, <2>1
      <4> SUFFICES ASSUME Fits(data), NEW c \in Browsers PROVE Fit(c, data[c])'
        BY DEF Fits
      <4>2. data[c] \in Entries /\ data[c].count \in Nat /\ Fit(c, data[c])
        BY <4>1, EntryFields DEF Fits
      <4> HIDE DEF data
      <4>3. CASE c = b
        BY <1>4, <4>1, <4>2, <4>3 DEF Fit
      <4>4. CASE c # b
        BY <1>4, <4>1, <4>2, <4>4 DEF Fit
      <4> QED
        BY <4>3, <4>4
    <3> QED
      BY <1>1, <2>1, <2>3, <3>1, <3>2, <3>3, <3>4 DEF Sound
  <2> QED
    BY <2>2, <2>3
<1> QED
  BY <1>5, <1>6, <1>7, <1>8 DEF IInv

-----------------------------------------------------------------------------
LEMMA InitIInv == OneWorker /\ Init => IInv
<1> SUFFICES ASSUME OneWorker, Init PROVE IInv
  OBVIOUS
<1>1. TypeOK
  <2>1. job \in [Workers -> Job] /\ limits \in [Browsers -> Entries]
    BY IdleJob DEF Init
  <2>2. /\ sessions \in [Sids -> {"none", "live", "expired"}]
        /\ cookie \in [Browsers -> Sids \cup {None}]
        /\ recorded \in [Browsers -> 0..MAX_ATTEMPTS + 1] /\ kills \in 0..MaxKills
        /\ auth \in Passwords \cup {None}
    BY DEF Init
  <2> QED
    BY <2>1, <2>2 DEF TypeOK, Job
<1>2. Fits(limits)
  BY DEF Init, Fits, Fit, Empty, NoEntry
<1>3. AtMostOne
  BY DEF Init, AtMostOne
<1>4. ASSUME NEW w \in Workers PROVE Sound(job[w])
  <2>1. job[w].todo = <<>> /\ First(<<>>) = "none" /\ <<>> \in Todos /\ <<>> # Failing
    BY IdleJob, Firsts DEF Init, Failing
  <2> QED
    BY <2>1 DEF Sound
<1> QED
  BY <1>1, <1>2, <1>3, <1>4 DEF IInv

\* Every step keeps the invariant.
LEMMA NextIInv == IInv /\ [Next]_vars => IInv'
<1> SUFFICES ASSUME IInv, [Next]_vars PROVE IInv'
  OBVIOUS
<1>1. ASSUME NEW w \in Workers, Drop(w) PROVE IInv'
  BY <1>1, DropIInv DEF Drop
<1>2. ASSUME NEW w \in Workers, Run(w) PROVE IInv'
  BY <1>1, <1>2, SetupAdminIInv, VerifyIInv, SaveAuthIInv, IsLockedIInv,
     CheckPasswordIInv, LoadIInv, RecordFailureIInv, DestroyAllIInv, CreateIInv,
     SetCookieIInv, DestroyOldIInv, Zenon DEF Run
<1>3. ASSUME NEW w \in Workers, NEW b \in Browsers, Serve(w, b) PROVE IInv'
  <2>1. ASSUME NEW p \in Passwords, Setup(w, b, p) PROVE IInv'
    BY <2>1, RequestIInv DEF Setup
  <2>2. ASSUME NEW p \in Passwords, Login(w, b, p) PROVE IInv'
    BY <2>2, RequestIInv DEF Login
  <2>3. ASSUME NEW p \in Passwords, NEW q \in Passwords, Changepw(w, b, p, q) PROVE IInv'
    BY <2>3, RequestIInv DEF Changepw
  <2> QED
    BY <1>3, <2>1, <2>2, <2>3, LeaveIInv, Zenon DEF Serve
<1>4. CASE UNCHANGED vars
  <2>1. UNCHANGED <<auth, sessions, limits, cookie, job, recorded, kills>>
    BY <1>4 DEF vars, files
  <2>2. TypeOK' /\ OneWorker'
    BY <2>1 DEF IInv, TypeOK, OneWorker
  <2>3. Fits(limits)' /\ AtMostOne'
    BY <2>1, Known, LimitsKept, SessionsKept
  <2>4. ASSUME NEW w \in Workers PROVE Sound(job[w])'
    BY <2>1, Known DEF Sound, Fits, Fit
  <2> QED
    BY <2>2, <2>3, <2>4 DEF IInv
<1> QED
  BY <1>2, <1>3, <1>4, KillIInv, SessionExpiresIInv, LockoutEndsIInv, Zenon DEF Next

\* With one worker every variable keeps its type, and a request only ever has
\* steps of the code to take.
THEOREM AuthTypeCorrect == OneWorker /\ Spec => []TypeOK
<1>1. IInv => TypeOK
  BY DEF IInv
<1> QED
  BY <1>1, InitIInv, NextIInv, PTL DEF Spec

\* With one worker, MAX_ATTEMPTS wrong logins that ratelimit.json has taken in
\* lock an address out (record_failure, is_locked), for every limit, whatever
\* logins of other addresses do and whichever saves of the file fail meanwhile.
THEOREM LimitHolds == OneWorker /\ Spec => []LockedOut
<1>1. IInv => LockedOut
  <2> SUFFICES ASSUME IInv, NEW b \in Browsers, recorded[b] >= MAX_ATTEMPTS
               PROVE  limits[b].lock = "yes"
    BY DEF LockedOut
  <2>1. limits[b] \in Entries /\ recorded[b] \in Nat /\ Fit(b, limits[b])
    <3>1. /\ limits \in [Browsers -> Entries] /\ Fits(limits)
          /\ recorded \in [Browsers -> 0..MAX_ATTEMPTS + 1]
      BY Known
    <3> QED
      BY <3>1 DEF Fits
  <2> QED
    BY <2>1, EntryFields DEF Fit
<1> QED
  BY <1>1, InitIInv, NextIInv, PTL DEF Spec

\* With one worker there is never more than one session (login, changepw): each
\* one is made right after destroy_all.
THEOREM SingleSession == OneWorker /\ Spec => []OneSession
<1>1. IInv => OneSession
  <2> SUFFICES ASSUME IInv PROVE Cardinality({s \in Sids : sessions[s] # "none"}) <= 1
    BY DEF OneSession
  <2> DEFINE S == {s \in Sids : sessions[s] # "none"}
  <2>1. \A s, t \in S : s = t
    BY Known DEF AtMostOne
  <2>2. CASE S = {}
    BY <2>2, FS_EmptySet
  <2>3. CASE S # {}
    <3>1. PICK s : S = {s}
      BY <2>1, <2>3
    <3>2. Cardinality({s}) = 1
      BY FS_Singleton, Zenon
    <3> HIDE DEF S
    <3>3. Cardinality(S) <= 1
      BY <3>1, <3>2
    <3> QED
      BY <3>3 DEF S
  <2> QED
    BY <2>2, <2>3
<1> QED
  BY <1>1, InitIInv, NextIInv, PTL DEF Spec

\* With one worker an account is replaced or lost only by the save at the end of
\* a password change that has verified its password (setup_admin,
\* change_password, save_auth), however many setups, kills and failing saves.
THEOREM AccountNeedsItsPassword == OneWorker /\ Spec => VerifiedChange
<1> DEFINE Checked == (auth # None /\ auth' # auth) =>
                        \E w \in Workers : At(w, "save_auth") /\ job[w].old = auth
<1>1. IInv /\ [Next]_vars => [Checked]_vars
  <2> SUFFICES ASSUME IInv, Next, auth' # auth
               PROVE  \E w \in Workers : At(w, "save_auth") /\ job[w].old = auth
    OBVIOUS
  <2>1. PICK w \in Workers : save_auth(w)
    <3>1. ASSUME NEW w \in Workers, NEW b \in Browsers, Serve(w, b) PROVE auth' = auth
      BY <3>1, Zenon DEF Serve, Setup, Login, Changepw, Request, Logout, ReadExpired, files
    <3>2. ASSUME NEW w \in Workers, Kill(w) PROVE auth' = auth
      BY <3>2 DEF Kill, files
    <3>3. ASSUME NEW w \in Workers, Run(w), ~save_auth(w) PROVE auth' = auth
      <4>1. CASE setup_admin(w) \/ Verify(w) \/ is_locked(w) \/ check_password(w) \/ Load(w)
        BY <4>1, Zenon DEF setup_admin, Verify, is_locked, check_password, Load, files
      <4>2. CASE Drop(w) \/ record_failure(w) \/ destroy_all(w) \/ create(w)
                 \/ set_cookie(w) \/ DestroyOld(w)
        BY <4>2, Zenon DEF Drop, record_failure, destroy_all, create, set_cookie,
                           DestroyOld, files
      <4> QED
        BY <3>3, <4>1, <4>2, Zenon DEF Run
    <3>4. ASSUME NEW s \in Sids, SessionExpires(s) PROVE auth' = auth
      BY <3>4 DEF SessionExpires
    <3>5. ASSUME NEW b \in Browsers, LockoutEnds(b) PROVE auth' = auth
      BY <3>5 DEF LockoutEnds
    <3> QED
      BY <3>1, <3>2, <3>3, <3>4, <3>5, Zenon DEF Next
  <2>2. At(w, "save_auth") /\ Sound(job[w])
    BY <2>1, Known DEF save_auth
  <2>3. job[w].old = auth
    BY <2>2, AtFirst DEF Sound, Steps
  <2> QED
    BY <2>2, <2>3
<1> QED
  BY <1>1, InitIInv, NextIInv, PTL DEF Spec, VerifiedChange
==============================================================================

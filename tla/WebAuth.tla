------------------------------ MODULE WebAuth ------------------------------
(***************************************************************************)
(* The administrator's account, sessions and login limit (bin/mkyctl.lua,  *)
(* mkyboot.inc.auth, session and ratelimit, and the setup, login, logout   *)
(* and changepw requests of GetPage).                                      *)
(*                                                                         *)
(* All three live in files that the nginx workers share: auth.json, one    *)
(* file per session, and ratelimit.json.  The script is run anew for every *)
(* request, so a request starts from the files; it reads them, works (one  *)
(* password hash takes 250,000 rounds) and replaces them by renaming, with *)
(* nothing to keep another worker out in between.  A file may not open, or *)
(* what is written may be cut (the disk is full) and renamed all the same: *)
(* a file that was cut cannot be decoded and counts as missing.            *)
(*                                                                         *)
(* A browser is a source address with one session cookie.  It sends back   *)
(* the cookie it was given, or none: session.read and session.destroy do   *)
(* not look at the text before they make a file name of it, and requests   *)
(* with a cookie that is no session id are left out.  The passing of time  *)
(* is left to two actions: a session expires, a lockout is over.           *)
(***************************************************************************)
EXTENDS Integers, Sequences, FiniteSets

CONSTANTS
    Browsers,       \* source addresses
    Workers,        \* nginx workers
    Passwords,
    Sids,           \* session ids, drawn at random: enough never to clash
    Slashed,        \* the ids whose base64 text contains a "/"
    MAX_ATTEMPTS,
    MaxKills,       \* bound on the requests cut short by a server restart
    None

ASSUME AuthAssumption ==
    /\ Slashed \subseteq Sids /\ None \notin Sids \cup Passwords \cup Browsers
    /\ MAX_ATTEMPTS \in Nat \ {0} /\ MaxKills \in Nat

VARIABLES
    auth,       \* auth.json: the password it verifies, None if there is no
                \* file that can be read
    sessions,   \* the session files: id -> live or expired
    limits,     \* ratelimit.json: address -> failures and lockout
    cookie,     \* the cookie a browser holds
    job,        \* a worker's request: steps still to take, and its locals
    recorded,   \* ghost: wrong logins that ratelimit.json has taken in since
                \* the last right one, the last lockout and the last write of
                \* it that was cut
    kills

files == <<auth, sessions, limits>>
vars == <<files, cookie, job, recorded, kills>>

\* An entry of ratelimit.json; no entry is the same as a count of 0.
NoEntry == [count |-> 0, lock |-> "no"]
Empty == [b \in Browsers |-> NoEntry]

Idle == [todo |-> <<>>, who |-> None, was |-> None, old |-> None,
         pass |-> None, sid |-> None, data |-> Empty]

Steps == {"is_locked", "drop", "check_password", "_load", "record_failure",
          "clear", "setup_admin", "verify", "save_auth", "destroy_all",
          "create", "set_cookie", "destroy_old"}

Init ==
    /\ auth = None
    /\ sessions = [s \in Sids |-> "none"]
    /\ limits = Empty
    /\ cookie = [b \in Browsers |-> None]
    /\ job = [w \in Workers |-> Idle]
    /\ recorded = [b \in Browsers |-> 0]
    /\ kills = 0

-----------------------------------------------------------------------------
\* One step of a request.

At(w, step) == job[w].todo # <<>> /\ Head(job[w].todo) = step

\* The request goes on with the steps `todo`, or is answered if there is none.
Goto(w, todo, local) ==
    job' = [job EXCEPT ![w] = IF todo = <<>> THEN Idle
                                             ELSE [local EXCEPT !.todo = todo]]
Continue(w) == Goto(w, Tail(job[w].todo), job[w])
Answer(w) == Goto(w, <<>>, job[w])

\* A request: from a browser with its cookie, with the password it presents and
\* the one it sets.
Request(w, b, pass, new, todo) ==
    /\ job[w] = Idle
    /\ job' = [job EXCEPT ![w] = [Idle EXCEPT !.todo = todo, !.who = b,
                                              !.was = cookie[b],
                                              !.old = pass, !.pass = new]]
    /\ UNCHANGED <<files, cookie, recorded, kills>>

Setup(w, b, p) == Request(w, b, None, p, <<"setup_admin">>)
Login(w, b, p) == Request(w, b, p, None, <<"is_locked">>)
Changepw(w, b, p, q) ==
    sessions[cookie[b]] = "live" /\ Request(w, b, p, q, <<"verify">>)

-----------------------------------------------------------------------------
\* The account.

setup_admin_Unchecked(w) ==
    /\ At(w, "setup_admin")
    /\ Goto(w, <<"save_auth">>, job[w])
    /\ UNCHANGED <<files, cookie, recorded, kills>>

\* setup_admin refuses when the account exists; otherwise it hashes the
\* password, and then saves.
setup_admin(w) ==
    /\ At(w, "setup_admin")
    /\ Goto(w, IF auth # None THEN <<>> ELSE <<"save_auth">>, job[w])
    /\ UNCHANGED <<files, cookie, recorded, kills>>

\* change_password verifies the current password, hashes the new one, saves,
\* and replaces every session by a new one.
Verify(w) ==
    /\ At(w, "verify")
    /\ Goto(w, IF auth # job[w].old THEN <<>>
               ELSE <<"save_auth", "destroy_all", "create", "destroy_old">>,
            job[w])
    /\ UNCHANGED <<files, cookie, recorded, kills>>

\* save_auth answers with an error if the new file cannot be opened or renamed.
\* It does not look whether everything was written.
save_auth(w) ==
    /\ At(w, "save_auth")
    /\ \/ auth' \in {job[w].pass, None} /\ Continue(w)
       \/ auth' = auth /\ Answer(w)
    /\ UNCHANGED <<sessions, limits, cookie, recorded, kills>>

-----------------------------------------------------------------------------
\* The login limit.

\* is_locked reads the file and answers a locked-out address at once.  A
\* lockout that is over is dropped: the rest of what was read is saved.
is_locked(w) ==
    LET b == job[w].who
    IN  /\ At(w, "is_locked")
        /\ Goto(w, CASE limits[b].lock = "yes" -> <<>>
                     [] limits[b].lock = "over" -> <<"drop", "check_password">>
                     [] OTHER -> <<"check_password">>,
                [job[w] EXCEPT !.data = limits])
        /\ UNCHANGED <<files, cookie, recorded, kills>>

\* _save: nobody looks whether it worked.  The file is replaced, is left as it
\* is, or was cut, and then reads as empty.
Save(data, saved, unsaved) ==
    \/ limits' = data /\ recorded' = saved
    \/ limits' = limits /\ recorded' = unsaved
    \/ limits' = Empty /\ recorded' = [b \in Browsers |-> 0]

\* _save without this address: after a lockout, and after a right password.
Drop(w) ==
    LET b == job[w].who
        counts == IF At(w, "clear") THEN [recorded EXCEPT ![b] = 0] ELSE recorded
    IN  /\ At(w, "drop") \/ At(w, "clear")
        /\ Save([job[w].data EXCEPT ![b] = NoEntry], counts, counts)
        /\ Continue(w)
        /\ UNCHANGED <<auth, sessions, cookie, kills>>

check_password(w) ==
    /\ At(w, "check_password")
    /\ Goto(w, CASE auth = None -> <<>>
                 [] auth = job[w].old ->
                      <<"destroy_all", "create", "set_cookie", "_load", "clear">>
                 [] OTHER -> <<"_load", "record_failure">>, job[w])
    /\ UNCHANGED <<files, cookie, recorded, kills>>

\* record_failure and clear read the file again before they change it.
Load(w) ==
    /\ At(w, "_load")
    /\ Goto(w, Tail(job[w].todo), [job[w] EXCEPT !.data = limits])
    /\ UNCHANGED <<files, cookie, recorded, kills>>

Entry_OneMore(n) ==
    [count |-> IF n > MAX_ATTEMPTS THEN MAX_ATTEMPTS ELSE n,
     lock |-> IF n > MAX_ATTEMPTS THEN "yes" ELSE "no"]

\* The entry with its n-th failure; nothing depends on how far the count is
\* past the limit, where a lockout that could not be dropped takes it.
Entry(n) ==
    [count |-> IF n > MAX_ATTEMPTS THEN MAX_ATTEMPTS ELSE n,
     lock |-> IF n >= MAX_ATTEMPTS THEN "yes" ELSE "no"]

record_failure(w) ==
    LET b == job[w].who
    IN  /\ At(w, "record_failure")
        /\ Save([job[w].data EXCEPT ![b] = Entry(@.count + 1)],
                [recorded EXCEPT ![b] = IF @ > MAX_ATTEMPTS THEN @ ELSE @ + 1],
                recorded)
        /\ Answer(w)
        /\ UNCHANGED <<auth, sessions, cookie, kills>>

-----------------------------------------------------------------------------
\* Sessions.

destroy_all_Skipped(w) ==
    /\ At(w, "destroy_all")
    /\ Continue(w)
    /\ UNCHANGED <<files, cookie, recorded, kills>>

destroy_all(w) ==
    /\ At(w, "destroy_all")
    /\ sessions' = [s \in Sids |-> "none"]
    /\ Continue(w)
    /\ UNCHANGED <<auth, limits, cookie, recorded, kills>>

\* create draws an id and writes its file.  Nobody looks whether that worked;
\* for an id with a "/" it never does, as the path names a directory that does
\* not exist.
create(w) ==
    \E s \in Sids :
        /\ At(w, "create")
        /\ sessions[s] = "none" /\ \A b \in Browsers : cookie[b] # s
        /\ \A v \in Workers : job[v].sid # s
        /\ \/ s \notin Slashed /\ sessions' = [sessions EXCEPT ![s] = "live"]
           \/ sessions' = sessions
        /\ Goto(w, Tail(job[w].todo), [job[w] EXCEPT !.sid = s])
        /\ UNCHANGED <<auth, limits, cookie, recorded, kills>>

set_cookie(w) ==
    /\ At(w, "set_cookie")
    /\ cookie' = [cookie EXCEPT ![job[w].who] = job[w].sid]
    /\ Continue(w)
    /\ UNCHANGED <<files, recorded, kills>>

\* The end of a password change: the browser's old session goes, and its
\* cookie is replaced.
DestroyOld(w) ==
    LET b == job[w].who
    IN  /\ At(w, "destroy_old")
        /\ sessions' = [s \in Sids |-> IF s = job[w].was THEN "none"
                                       ELSE sessions[s]]
        /\ cookie' = [cookie EXCEPT ![b] = job[w].sid]
        /\ Answer(w)
        /\ UNCHANGED <<auth, limits, recorded, kills>>

\* Logout destroys the session and clears the cookie; so, for the session,
\* does any request with the cookie of an expired one (session.read).
Logout(w, b) ==
    /\ job[w] = Idle /\ cookie[b] # None
    /\ sessions' = [sessions EXCEPT ![cookie[b]] = "none"]
    /\ cookie' = [cookie EXCEPT ![b] = None]
    /\ UNCHANGED <<auth, limits, job, recorded, kills>>

ReadExpired(w, b) ==
    /\ job[w] = Idle /\ cookie[b] # None /\ sessions[cookie[b]] = "expired"
    /\ sessions' = [sessions EXCEPT ![cookie[b]] = "none"]
    /\ UNCHANGED <<auth, limits, cookie, job, recorded, kills>>

-----------------------------------------------------------------------------
\* Time, and restarts of the web server.

SessionExpires(s) ==
    /\ sessions[s] = "live"
    /\ sessions' = [sessions EXCEPT ![s] = "expired"]
    /\ UNCHANGED <<auth, limits, cookie, job, recorded, kills>>

LockoutEnds(b) ==
    /\ limits[b].lock = "yes"
    /\ limits' = [limits EXCEPT ![b].lock = "over"]
    /\ recorded' = [recorded EXCEPT ![b] = 0]
    /\ UNCHANGED <<auth, sessions, cookie, job, kills>>

Kill(w) ==
    /\ job[w] # Idle /\ kills < MaxKills
    /\ job' = [job EXCEPT ![w] = Idle]
    /\ kills' = kills + 1
    /\ UNCHANGED <<files, cookie, recorded>>

-----------------------------------------------------------------------------
Run(w) ==
    \/ setup_admin(w) \/ Verify(w) \/ save_auth(w)
    \/ is_locked(w) \/ Drop(w) \/ check_password(w) \/ Load(w)
    \/ record_failure(w)
    \/ destroy_all(w) \/ create(w) \/ set_cookie(w) \/ DestroyOld(w)

Serve(w, b) ==
    \/ \E p \in Passwords : Setup(w, b, p) \/ Login(w, b, p)
    \/ /\ cookie[b] # None
       /\ \E p, q \in Passwords : Changepw(w, b, p, q)
    \/ Logout(w, b) \/ ReadExpired(w, b)

Next ==
    \/ \E w \in Workers : Run(w) \/ Kill(w) \/ \E b \in Browsers : Serve(w, b)
    \/ \E s \in Sids : SessionExpires(s)
    \/ \E b \in Browsers : LockoutEnds(b)

Spec == Init /\ [][Next]_vars

-----------------------------------------------------------------------------
Entries == [count : 0..MAX_ATTEMPTS, lock : {"no", "yes", "over"}]

TypeOK ==
    /\ auth \in Passwords \cup {None}
    /\ sessions \in [Sids -> {"none", "live", "expired"}]
    /\ limits \in [Browsers -> Entries]
    /\ cookie \in [Browsers -> Sids \cup {None}]
    /\ job \in [Workers -> [todo : Seq(Steps), who : Browsers \cup {None},
                            was : Sids \cup {None},
                            old : Passwords \cup {None},
                            pass : Passwords \cup {None},
                            sid : Sids \cup {None},
                            data : [Browsers -> Entries]]]
    /\ recorded \in [Browsers -> 0..MAX_ATTEMPTS + 1]
    /\ kills \in 0..MaxKills

\* A login destroys the sessions before it: there is never more than one.
OneSession == Cardinality({s \in Sids : sessions[s] # "none"}) <= 1

\* MAX_ATTEMPTS wrong logins lock an address out: once ratelimit.json has taken
\* in that many the lockout stands, until it is over, the right password came or
\* a write of the file was cut, whatever logins of other addresses do and
\* whichever of their saves fail.
LockedOut ==
    \A b \in Browsers : recorded[b] >= MAX_ATTEMPTS => limits[b].lock = "yes"

\* An account is replaced or lost only at the end of a password change that has
\* verified its password: no setup touches it, whatever is cut short or fails.
VerifiedChange ==
    [][(auth # None /\ auth' # auth) =>
         \E w \in Workers : At(w, "save_auth") /\ job[w].old = auth]_vars

\* Once there is an account there always is one, and setup stays closed.
AccountKept == [][auth # None => auth' # None]_vars

\* The cookie that a successful login or password change hands out names a
\* session that exists.
CookieWorks ==
    [][\A b \in Browsers :
         (cookie'[b] # cookie[b] /\ cookie'[b] # None) =>
             sessions'[cookie'[b]] # "none"]_vars
=============================================================================

----------------------------- MODULE StatusCache -----------------------------
(***************************************************************************)
(* The workstation status snapshot of the web interface (mkyboot.inc.status*)
(* in bin/mkyctl.lua): nginx workers that answer status requests from one  *)
(* cache file and, when it is old, refresh it under a lock file.           *)
(*                                                                         *)
(* Times are kept as ages, counted up to Cap; every comparison of the code *)
(* is with a smaller number, so nothing is lost.  A lock file that does    *)
(* not hold a number and a cache file that does not decode are as good as  *)
(* absent.  The service flags of the snapshot (lsof probes) are left out:  *)
(* no branch reads them.  A missing tgtadm and one that did not start are  *)
(* one status, "failed": no branch tells them apart.                       *)
(***************************************************************************)
EXTENDS Naturals

CONSTANTS
    Workers,   \* nginx worker processes
    IPs,       \* addresses
    Stations,  \* the addresses of workstations
    Shortened, \* per address, what its text may read as when the end is missing
    ttl,       \* status.ttl
    lock_ttl,  \* status.lock_ttl
    max_age,   \* status.max_age
    MaxRun,    \* bound: time a refresh may take
    MaxKills,  \* bound: workers killed during a refresh
    DiskFull,  \* whether writes may fail
    Nothing    \* no snapshot, no lock

Cap == max_age + 1
Ages == 0..Cap

ASSUME StatusAssumption ==
    /\ ttl \in Nat /\ lock_ttl \in Nat /\ max_age \in Nat /\ MaxRun \in Nat /\ MaxKills \in Nat
    /\ DiskFull \in BOOLEAN
    /\ ttl < max_age /\ lock_ttl < max_age
    /\ Stations \subseteq IPs /\ Shortened \in [IPs -> SUBSET IPs]
    /\ \A ip \in IPs : ip \in Shortened[ip]
    /\ \A ip \in IPs : \A cut \in Shortened[ip] : Shortened[cut] \subseteq Shortened[ip]
    /\ Nothing \notin Ages
    /\ Nothing \notin [targets : {"ok", "failed"}, ips : SUBSET IPs, age : Ages]

VARIABLES
    connected,  \* addresses with an iSCSI session now
    on,         \* age of the last moment each address had a session
    cache,      \* status.cache
    lock,       \* status.lock: age of the time it holds
    pc,         \* where each worker is in refresh
    jobs,       \* refreshes each worker has still to try
    age,        \* per worker in refresh, age of the time it read from the clock last
    found,      \* per worker, what tgtadm reported
    kills       \* workers killed so far

statusVars == <<connected, on, cache, lock, pc, jobs, age, found, kills>>
world == <<connected, on>>

Snapshots == [targets : {"ok", "failed"}, ips : SUBSET IPs, age : Ages]
Reports == [targets : {"ok", "failed"}, ips : SUBSET IPs]
NoReport == [targets |-> "failed", ips |-> {}]

StatusTypeOK ==
    /\ connected \in SUBSET IPs
    /\ on \in [IPs -> Ages]
    /\ cache \in Snapshots \cup {Nothing}
    /\ lock \in Ages \cup {Nothing}
    /\ pc \in [Workers -> {"idle", "take", "stamp", "collect", "write"}]
    /\ jobs \in [Workers -> 0..2]
    /\ age \in [Workers -> Ages]
    /\ found \in [Workers -> Reports]
    /\ kills \in 0..MaxKills

StatusInit ==
    /\ connected = {}
    /\ on = [ip \in IPs |-> Cap]
    /\ cache = Nothing
    /\ lock = Nothing
    /\ pc = [w \in Workers |-> "idle"]
    /\ jobs = [w \in Workers |-> 0]
    /\ age = [w \in Workers |-> 0]
    /\ found = [w \in Workers |-> NoReport]
    /\ kills = 0

\* status.state_of
state_of(ip) ==
    IF cache = Nothing THEN "unknown"
    ELSE IF cache.age > max_age \/ cache.targets # "ok" THEN "unknown"
    ELSE IF ip \in cache.ips THEN "online"
    ELSE "offline"

-----------------------------------------------------------------------------
\* status.ensure: a fresh snapshot is served as it is.  An old one is served and
\* a timer job refreshes it; without one a refresh comes before the answer too.
ensure(w) ==
    /\ pc[w] = "idle" /\ jobs[w] = 0
    /\ \/ cache = Nothing /\ jobs' = [jobs EXCEPT ![w] = 2]
       \/ cache # Nothing /\ cache.age > ttl /\ jobs' = [jobs EXCEPT ![w] = 1]
    /\ UNCHANGED <<world, cache, lock, pc, age, found, kills>>

\* refresh returns; what it knew goes with it.
Leave(w, left) ==
    /\ pc' = [pc EXCEPT ![w] = "idle"]
    /\ jobs' = [jobs EXCEPT ![w] = left]
    /\ age' = [age EXCEPT ![w] = 0]
    /\ found' = [found EXCEPT ![w] = NoReport]

Done(w) == Leave(w, jobs[w] - 1)

Held_ForEver == lock # Nothing

\* Somebody holds a lock that is not abandoned.
Held == lock # Nothing /\ lock < lock_ttl

\* status.lock, up to what it decides: it reads the clock, then the lock file.
Lock(w) ==
    /\ pc[w] = "idle" /\ jobs[w] > 0
    /\ \/ Held /\ Done(w)
       \/ /\ ~Held
          /\ pc' = [pc EXCEPT ![w] = "take"]
          /\ UNCHANGED <<jobs, age, found>>
    /\ UNCHANGED <<world, cache, lock, kills>>

\* io.open(lockfile, "wb") empties the file, or fails.
Take(w) ==
    /\ pc[w] = "take"
    /\ \/ /\ pc' = [pc EXCEPT ![w] = "stamp"]
          /\ lock' = Nothing
          /\ UNCHANGED <<jobs, age, found>>
       \/ Done(w) /\ UNCHANGED lock
    /\ UNCHANGED <<world, cache, kills>>

\* The clock value read before the test goes into the file; that the write may
\* fail is not noticed.  refresh then takes the time of the snapshot.
Stamp(w) ==
    /\ pc[w] = "stamp"
    /\ \/ lock' = age[w]
       \/ DiskFull /\ lock' = Nothing
    /\ pc' = [pc EXCEPT ![w] = "collect"]
    /\ age' = [age EXCEPT ![w] = 0]
    /\ UNCHANGED <<world, cache, jobs, found, kills>>

\* What is read from a list of addresses that breaks off: some of them, the last
\* perhaps without its last digits, which may be the address of somebody else.
Cut(ips) ==
    {read \in SUBSET UNION {Shortened[ip] : ip \in ips} :
        read \subseteq ips \/ \E last \in read : read \ {last} \subseteq ips}

\* One tgtadm run.  What a command that was killed, or failed, had printed until
\* then is read as the list.
Collect(w) ==
    /\ pc[w] = "collect"
    /\ \E report \in {[targets |-> "ok", ips |-> ips] : ips \in Cut(connected)} \cup {NoReport} :
         found' = [found EXCEPT ![w] = report]
    /\ pc' = [pc EXCEPT ![w] = "write"]
    /\ UNCHANGED <<world, cache, lock, jobs, age, kills>>

\* status.write puts a file with these addresses in place of the snapshot.
Publish(w, ips, when) ==
    /\ cache' = [targets |-> found[w].targets, ips |-> ips, age |-> when]
    /\ Done(w)

WriteWhole_StampedLate(w) ==
    /\ pc[w] = "write"
    /\ Publish(w, found[w].ips, 0)
    /\ UNCHANGED <<world, lock, kills>>

WriteWhole(w) ==
    /\ pc[w] = "write"
    /\ Publish(w, found[w].ips, age[w])
    /\ UNCHANGED <<world, lock, kills>>

\* fd:write is not checked: a full disk leaves a part of the file, or nothing,
\* to be renamed.  A part may end in the list of addresses, or in the status or
\* the time before it; a time without its last digits is long past.  If the file
\* cannot be made the old snapshot stays.
WriteBadly(w) ==
    /\ pc[w] = "write"
    /\ DiskFull
    /\ \/ \E ips \in Cut(found[w].ips) : Publish(w, ips, age[w])
       \/ /\ \E when \in {age[w], Cap} :
               cache' \in {cache, Nothing, [targets |-> "failed", ips |-> {}, age |-> when]}
          /\ Done(w)
    /\ UNCHANGED <<world, lock, kills>>

\* nginx stops or dies, and its worker with it; the lock file stays.
Kill(w) ==
    /\ jobs[w] > 0
    /\ kills < MaxKills
    /\ kills' = kills + 1
    /\ Leave(w, 0)
    /\ UNCHANGED <<world, cache, lock>>

-----------------------------------------------------------------------------
\* tgtd: a workstation logs in or its session ends.
Connect(ip) ==
    /\ ip \notin connected
    /\ connected' = connected \cup {ip}
    /\ on' = [on EXCEPT ![ip] = 0]
    /\ UNCHANGED <<cache, lock, pc, jobs, age, found, kills>>

Disconnect(ip) ==
    /\ ip \in connected
    /\ connected' = connected \ {ip}
    /\ UNCHANGED <<on, cache, lock, pc, jobs, age, found, kills>>

Older(a) == IF a < Cap THEN a + 1 ELSE Cap

\* A second passes.  No refresh takes longer than MaxRun.
Tick ==
    /\ \A w \in Workers : pc[w] # "idle" => age[w] < MaxRun
    /\ on' = [ip \in IPs |-> IF ip \in connected THEN 0 ELSE Older(on[ip])]
    /\ cache' = IF cache = Nothing THEN Nothing ELSE [cache EXCEPT !.age = Older(@)]
    /\ lock' = IF lock = Nothing THEN Nothing ELSE Older(lock)
    /\ age' = [w \in Workers |-> IF pc[w] = "idle" THEN 0 ELSE Older(age[w])]
    /\ UNCHANGED <<connected, pc, jobs, found, kills>>

Refresh(w) == Lock(w) \/ Take(w) \/ Stamp(w) \/ Collect(w) \/ WriteWhole(w) \/ WriteBadly(w)

StatusNext ==
    \/ \E w \in Workers : ensure(w) \/ Refresh(w) \/ Kill(w)
    \/ \E ip \in Stations : Connect(ip) \/ Disconnect(ip)
    \/ Tick

StatusSpec == StatusInit /\ [][StatusNext]_statusVars

\* Requests come in, and a worker goes on with its refresh.  The workers do not
\* fail for ever at opening the lock file or at writing the snapshot.
StatusFairSpec ==
    /\ StatusSpec
    /\ WF_statusVars(Tick)
    /\ WF_statusVars(\E w \in Workers : ensure(w))
    /\ \A w \in Workers : WF_statusVars(Refresh(w))
    /\ SF_statusVars(\E w \in Workers : Take(w) /\ pc'[w] = "stamp")
    /\ SF_statusVars(\E w \in Workers : WriteWhole(w))

-----------------------------------------------------------------------------
(* Properties *)

\* The address, or one whose text begins with it, had a session in the last a
\* seconds.
Seen(ip, a) == \E q \in IPs : ip \in Shortened[q] /\ on[q] <= a

\* A workstation reported online had a session within the last max_age seconds,
\* or a list broke off within the address of one that had, however long the
\* refresh took and whichever of two refreshes wrote last.
OnlineIsRecent == \A ip \in IPs : state_of(ip) = "online" => Seen(ip, max_age)

\* A workstation reported online had a session itself.
OnlineIsOwn == \A ip \in IPs : state_of(ip) = "online" => on[ip] <= max_age

\* "a failed command ... is deliberately NOT reported as offline": a snapshot
\* that says so of a workstation was taken when it had no session.
OfflineIsAbsent ==
    [][\A w \in Workers :
         pc[w] = "collect" /\ pc'[w] = "write" /\ found'[w].targets = "ok"
         => connected \subseteq found'[w].ips]_statusVars

\* "concurrent requests cannot start overlapping jobs": of two refreshes under
\* way the second started when the lock of the first had run out.
NoOverlap ==
    \A v, w \in Workers :
        v # w /\ pc[v] \in {"collect", "write"} /\ pc[w] \in {"collect", "write"}
        => age[v] >= age[w] + lock_ttl \/ age[w] >= age[v] + lock_ttl

\* A snapshot that is no longer fresh is replaced by a fresh one, also after the
\* worker that held the lock was killed.
Fresh == cache # Nothing /\ cache.age <= ttl
Replaced == ~Fresh ~> Fresh

=============================================================================

---------------------------- MODULE BootPipeline ----------------------------
(***************************************************************************)
(* How a workstation gets its disk (bin/mkyctl.lua, the boot request of    *)
(* GetPage, and the super-mode requests of the admin page).                *)
(*                                                                         *)
(* A boot request runs, in one nginx worker, a fixed sequence of external  *)
(* commands: stop the workstation's iSCSI target, free the NBD device that *)
(* serves its overlay, take a ZFS snapshot of the golden image, make a     *)
(* fresh overlay over it, attach the overlay to a free NBD device through  *)
(* the IPC daemon, and export the device as the target's LUN.  The worker  *)
(* blocks on each command, so requests interleave only across workers, and *)
(* a worker can be killed (?api=server&op=restart) between two commands.   *)
(*                                                                         *)
(* In super mode the overlay lies on the golden image itself and is kept   *)
(* over reboots (a lock file remembers that); leaving super mode commits   *)
(* it into the golden image or abandons it.                                *)
(*                                                                         *)
(* A workstation has one enabled dyndisk image.  What a disk holds is      *)
(* abstracted to the kinds of writes in it: TRUE for those of a super-mode *)
(* session, FALSE for those of a normal one.                               *)
(***************************************************************************)
EXTENDS Integers, Sequences, FiniteSets

CONSTANTS
    Clients,    \* the workstations of the configuration
    Enabled,    \* those with enable = "1"
    Managed,    \* those the administrator switches in and out of super mode
    Workers,    \* the nginx workers
    nbd_nbds,   \* the number of NBD devices, /dev/nbd1 ... /dev/nbd<nbd_nbds>
    MaxFaults,  \* bound on the workers killed in the middle of a request and
                \* the services that stop
    Nothing     \* no workstation

ASSUME PipelineAssumption ==
    /\ Enabled \subseteq Clients /\ Managed \subseteq Clients
    /\ Nothing \notin Clients
    /\ nbd_nbds \in Nat \ {0} /\ MaxFaults \in Nat

\* Lua's nil and false, where a device is expected, are device 0.
Devices == 1..nbd_nbds

\* A workstation's settings: supper = "0"; supper = "1" with the disk not
\* selected (commit = "0"); supper = "1" with the disk selected.
Modes == {"normal", "super", "edit"}

VARIABLES
    conf,       \* the saved configuration (mkyboot.json): workstation -> mode
    golden,     \* the kinds of writes the golden image holds
    snap,       \* a workstation's snapshot of it: none, current or outdated
    child,      \* a workstation's overlay
    lockf,      \* the workstations whose lock file exists
    nbd,        \* device -> the workstation whose overlay qemu-nbd serves on it
    tgt,        \* a workstation's iSCSI target and the device behind its LUN
    session,    \* is the workstation's LUN that of a super-mode boot?
    up,         \* scCheck: DHCP, TFTP and iSCSI all have their port open
    job,        \* a worker's request: commands still to run, and its locals
    faults

disks == <<golden, snap, child, lockf>>
exports == <<nbd, tgt, session, up>>
vars == <<conf, disks, exports, job, faults>>

\* An overlay: what it lies on, whether that still is what the golden image
\* holds, and the writes in it.
NoChild == [base |-> "none", fresh |-> FALSE, has |-> {}]
NoTarget == [on |-> FALSE, lun |-> 0]
Idle == [todo |-> <<>>, who |-> Nothing, dev |-> 0,
         conf |-> [c \in Clients |-> "normal"]]

Boot == <<"tgtstop", "nbdFree", "del", "nbdFree", "del", "unsnap", "snap",
          "mkChild", "search", "busy", "add", "tgtstart", "LunAdd">>
Commit == <<"tgtstop", "nbdFree", "del", "commit", "normal">>
Steps == {Boot[i] : i \in DOMAIN Boot} \cup {Commit[i] : i \in DOMAIN Commit}
            \cup {"kill", "create", "lock", "unlock", "stop", "super", "edit"}

Init ==
    /\ conf = [c \in Clients |-> "normal"]
    /\ golden = {}
    /\ snap = [c \in Clients |-> "none"]
    /\ child = [c \in Clients |-> NoChild]
    /\ lockf = {}
    /\ nbd = [d \in Devices |-> Nothing]
    /\ tgt = [c \in Clients |-> NoTarget]
    /\ session = [c \in Clients |-> FALSE]
    /\ up \in BOOLEAN
    /\ job = [w \in Workers |-> Idle]
    /\ faults = 0

-----------------------------------------------------------------------------
\* One command of a request.

At(w, step) == job[w].todo # <<>> /\ Head(job[w].todo) = step

\* The command is done: `more` comes next, then the rest of the request.
Go(w, more, d) ==
    LET rest == more \o Tail(job[w].todo)
    IN  job' = [job EXCEPT ![w] =
                  IF rest = <<>> THEN Idle
                                 ELSE [@ EXCEPT !.todo = rest, !.dev = d]]
Continue(w) == Go(w, <<>>, job[w].dev)

Who(w) == job[w].who
Mode(w) == job[w].conf[Who(w)]

\* The devices on which qemu-nbd serves c's overlay.
Serving(c) == {d \in Devices : nbd[d] = c}

\* nbd.used: lsof lists qemu-nbd, and tgtd when a LUN is backed by the device.
used(d) == d # 0 /\ (nbd[d] # Nothing \/ \E c \in Clients : tgt[c].lun = d)

-----------------------------------------------------------------------------
\* Requests.

\* A workstation (re)boots and asks for its boot script.  The script, run anew
\* for each request, loads the saved configuration.
BootRequest(w, c) ==
    /\ job[w] = Idle
    /\ job' = [job EXCEPT ![w] =
                 [todo |-> Boot, who |-> c, dev |-> 0, conf |-> conf]]
    /\ UNCHANGED <<conf, disks, exports, faults>>

\* The super-mode requests of the admin page: enable (with or without disks
\* selected), disableUncommit and disableCommitPoint, and disableCommit.  Each
\* loads the whole configuration, and saves the whole of it at its end.
SuperRequest(w, c, todo) ==
    /\ job[w] = Idle
    /\ job' = [job EXCEPT ![w] =
                 [todo |-> todo, who |-> c, dev |-> 0, conf |-> conf]]
    /\ UNCHANGED <<conf, disks, exports, faults>>

disableCommit(w, c) ==
    SuperRequest(w, c, IF conf[c] = "edit" /\ child[c] # NoChild
                       THEN Commit ELSE <<"normal">>)

\* The request's last command: SaveToFile with the workstation's new mode.
\* Enabling super mode without selecting a disk leaves a selected one selected.
SaveToFile(w, mode) ==
    /\ At(w, mode)
    /\ conf' = [job[w].conf EXCEPT ![Who(w)] =
                  IF mode = "super" /\ @ = "edit" THEN "edit" ELSE mode]
    /\ Continue(w)
    /\ UNCHANGED <<disks, exports, faults>>

-----------------------------------------------------------------------------
\* tgtstop, nbdFree, zfsmount.

\* monit starts the services that are down, and may not succeed; unless scCheck
\* then finds all of them up, the target is left as it is.
StopTarget(c) ==
    /\ up' \in {up, TRUE}
    /\ tgt' = IF up' THEN [tgt EXCEPT ![c] = NoTarget] ELSE tgt

tgtstop(w) ==
    /\ At(w, "tgtstop")
    /\ StopTarget(Who(w))
    /\ Continue(w)
    /\ UNCHANGED <<conf, disks, nbd, session, faults>>

\* nbdFree first asks lsof which device serves the overlay ...
nbdFree(w) ==
    /\ At(w, "nbdFree")
    /\ \/ \E d \in Serving(Who(w)) : Go(w, <<>>, d)
       \/ Serving(Who(w)) = {} /\ Go(w, <<>>, 0)
    /\ UNCHANGED <<conf, disks, exports, faults>>

\* ... and then, if one does, stops the target and disconnects the device,
\* whatever it serves by then.
NbdDel(w) ==
    /\ At(w, "del")
    /\ LET d == job[w].dev
       IN  /\ IF d = 0 THEN UNCHANGED <<tgt, up>> ELSE StopTarget(Who(w))
           /\ nbd' = [e \in Devices |-> IF e = d THEN Nothing ELSE nbd[e]]
    /\ Continue(w)
    /\ UNCHANGED <<conf, disks, session, faults>>

\* zfs destroy -f fails while an overlay on the snapshot is served.
Unsnap(w) ==
    /\ At(w, "unsnap")
    /\ snap' = [snap EXCEPT ![Who(w)] =
                  IF child[Who(w)].base = "snap" /\ Serving(Who(w)) # {}
                  THEN @ ELSE "none"]
    /\ Continue(w)
    /\ UNCHANGED <<conf, golden, child, lockf, exports, faults>>

\* zfs snap fails, and the old snapshot is mounted, when it still exists.  Both
\* are tried again until the snapshot is mounted.
Snap(w) ==
    /\ At(w, "snap")
    /\ snap' = [snap EXCEPT ![Who(w)] = IF @ = "none" THEN "fresh" ELSE @]
    /\ Continue(w) \/ UNCHANGED job
    /\ UNCHANGED <<conf, golden, child, lockf, exports, faults>>

-----------------------------------------------------------------------------
\* mkChild.

\* What a new overlay lies on: the golden image for a selected disk in super
\* mode, the workstation's snapshot in the other three cases.
Parent_Super(w) == IF Mode(w) # "normal" THEN "golden" ELSE "snap"
Parent(w) == IF Mode(w) = "edit" THEN "golden" ELSE "snap"

mkChild_KeptByLock(w) ==
    LET c == Who(w)
        old == child[c] # NoChild
        locked == c \in lockf
    IN  /\ At(w, "mkChild")
        /\ Go(w, IF c \notin Enabled THEN <<>>
                 ELSE CASE Mode(w) = "edit" /\ ~locked /\ old ->
                             <<"kill", "create", "lock">>
                        [] Mode(w) = "edit" /\ ~locked /\ ~old ->
                             <<"lock", "create">>
                        [] locked /\ old -> <<"lock">>
                        [] OTHER -> IF old
                                    THEN <<"kill", "unlock", "create">>
                                    ELSE <<"create">>, 0)
        /\ UNCHANGED <<conf, disks, exports, faults>>

\* The four branches of mkChild; nothing is done for a disabled workstation.
mkChild(w) ==
    LET c == Who(w)
        old == child[c] # NoChild
        locked == c \in lockf
    IN  /\ At(w, "mkChild")
        /\ Go(w, IF c \notin Enabled THEN <<>>
                 ELSE CASE Mode(w) = "edit" /\ ~locked /\ old ->
                             <<"kill", "create", "lock">>
                        [] Mode(w) = "edit" /\ ~locked /\ ~old ->
                             <<"lock", "create">>
                        [] Mode(w) = "edit" /\ locked /\ old -> <<"lock">>
                        [] OTHER -> IF old
                                    THEN <<"kill", "unlock", "create">>
                                    ELSE <<"create">>, 0)
        /\ UNCHANGED <<conf, disks, exports, faults>>

\* Kill whoever has the overlay open, then delete it.
KillUsers(w) ==
    /\ At(w, "kill")
    /\ nbd' = [d \in Devices |-> IF nbd[d] = Who(w) THEN Nothing ELSE nbd[d]]
    /\ child' = [child EXCEPT ![Who(w)] = NoChild]
    /\ Continue(w)
    /\ UNCHANGED <<conf, golden, snap, lockf, tgt, session, up, faults>>

LockFile(w) ==
    /\ \/ At(w, "lock") /\ lockf' = lockf \cup {Who(w)}
       \/ At(w, "unlock") /\ lockf' = lockf \ {Who(w)}
    /\ Continue(w)
    /\ UNCHANGED <<conf, golden, snap, child, exports, faults>>

\* qemu-img create, once the parent exists.  It fails when the overlay is being
\* served, and may fail for want of space; nobody looks.
Create(w) ==
    LET c == Who(w)
        base == Parent(w)
    IN  /\ At(w, "create")
        /\ base = "snap" => snap[c] # "none"
        /\ \/ /\ Serving(c) = {}
              /\ child' = [child EXCEPT ![c] =
                             [base |-> base, has |-> {},
                              fresh |-> base = "golden" \/ snap[c] = "fresh"]]
           \/ UNCHANGED child
        /\ Continue(w)
        /\ UNCHANGED <<conf, golden, snap, lockf, exports, faults>>

-----------------------------------------------------------------------------
\* nbdConnect and LunAdd.

search_nbd_FromTheTop ==
    LET free == {d \in 1..nbd_nbds + 1 : d \in Devices => ~used(d)}
    IN  IF free = {} THEN 0 ELSE CHOOSE d \in free : \A e \in free : d >= e

\* The first device that nobody has open; false (0) if there is none.
search_nbd ==
    LET free == {d \in Devices : ~used(d)}
    IN  IF free = {} THEN 0 ELSE CHOOSE d \in free : \A e \in free : d <= e

Search(w) ==
    /\ At(w, "search")
    /\ Go(w, <<>>, search_nbd)
    /\ UNCHANGED <<conf, disks, exports, faults>>

\* usewho = 1, qemu-nbd: disconnect the device.
BusyNbd(w) ==
    /\ At(w, "busy") /\ used(job[w].dev)
    /\ nbd[job[w].dev] # Nothing
    /\ nbd' = [nbd EXCEPT ![job[w].dev] = Nothing]
    /\ UNCHANGED <<conf, disks, tgt, session, up, job, faults>>

BusyTgt_NotStopped(w) ==
    /\ At(w, "busy") /\ used(job[w].dev)
    /\ \E c \in Clients : tgt[c].lun = job[w].dev
    /\ UNCHANGED vars

\* usewho = 2, tgtd: stop the workstation's own target ...
BusyTgt(w) ==
    /\ At(w, "busy") /\ used(job[w].dev)
    /\ \E c \in Clients : tgt[c].lun = job[w].dev
    /\ Go(w, <<"stop", "busy">>, job[w].dev)
    /\ UNCHANGED <<conf, disks, exports, faults>>

\* ... again and again, while there is one.
StopOwn(w) ==
    /\ At(w, "stop")
    /\ IF tgt[Who(w)].on THEN StopTarget(Who(w)) /\ UNCHANGED job
                         ELSE Continue(w) /\ UNCHANGED <<tgt, up>>
    /\ UNCHANGED <<conf, disks, nbd, session, faults>>

NotBusy(w) ==
    /\ At(w, "busy") /\ ~used(job[w].dev)
    /\ Continue(w)
    /\ UNCHANGED <<conf, disks, exports, faults>>

\* nbd.add: client.lua asks the daemon to run qemu-nbd --connect, which fails
\* for no device, a device in use, a missing overlay or one that is already
\* served.  The daemon may not be reached either.  Nobody looks.
NbdAdd(w) ==
    LET d == job[w].dev
        c == Who(w)
    IN  /\ At(w, "add")
        /\ \/ /\ d # 0 /\ child[c] # NoChild /\ Serving(c) = {}
              /\ nbd' = [nbd EXCEPT ![d] = IF @ = Nothing THEN c ELSE @]
           \/ UNCHANGED nbd
        /\ Continue(w)
        /\ UNCHANGED <<conf, disks, tgt, session, up, faults>>

\* LunAdd waits until the target exists; tgtstart creates it if the services are
\* up, after monit, and the workstation is enabled ...
TgtStart(w) ==
    LET c == Who(w)
    IN  /\ At(w, "tgtstart")
        /\ IF tgt[c].on THEN UNCHANGED up ELSE c \in Enabled /\ up' = TRUE
        /\ tgt' = [tgt EXCEPT ![c].on = TRUE]
        /\ Continue(w)
        /\ UNCHANGED <<conf, disks, nbd, session, faults>>

LunAdd_FirstDevice(w) ==
    LET c == Who(w)
    IN  /\ At(w, "LunAdd")
        /\ IF tgt[c].on /\ tgt[c].lun = 0
           THEN /\ tgt' = [tgt EXCEPT ![c].lun = 1]
                /\ session' = [session EXCEPT ![c] = Mode(w) = "edit"]
           ELSE UNCHANGED <<tgt, session>>
        /\ Continue(w)
        /\ UNCHANGED <<conf, disks, nbd, up, faults>>

\* ... and then backs its LUN by the device found above.  Without a device the
\* script fails here; tgtadm refuses a LUN that exists or a target that is gone.
LunAdd(w) ==
    LET c == Who(w)
    IN  /\ At(w, "LunAdd")
        /\ IF tgt[c].on /\ tgt[c].lun = 0 /\ job[w].dev # 0
           THEN /\ tgt' = [tgt EXCEPT ![c].lun = job[w].dev]
                /\ session' = [session EXCEPT ![c] = Mode(w) = "edit"]
           ELSE UNCHANGED <<tgt, session>>
        /\ Continue(w)
        /\ UNCHANGED <<conf, disks, nbd, up, faults>>

-----------------------------------------------------------------------------
\* disableCommit's qemu-img commit merges the overlay into what it lies on and
\* empties it.  It fails, and nobody looks, when the overlay is gone, is being
\* served, or lies on a snapshot, which is read-only.
Merge(w) ==
    LET c == Who(w)
    IN  /\ At(w, "commit")
        /\ IF child[c].base = "golden" /\ Serving(c) = {}
           THEN /\ golden' = golden \cup child[c].has
                /\ child' = [e \in Clients |->
                               IF e = c THEN [child[c] EXCEPT !.has = {}]
                               ELSE [child[e] EXCEPT !.fresh = FALSE]]
                /\ snap' = [e \in Clients |->
                              IF snap[e] = "fresh" THEN "old" ELSE snap[e]]
           ELSE UNCHANGED <<golden, child, snap>>
        /\ Continue(w)
        /\ UNCHANGED <<conf, lockf, exports, faults>>

-----------------------------------------------------------------------------
\* Outside the server.

\* A running workstation writes to the disk behind its LUN.
Write(c) ==
    /\ tgt[c].lun # 0 /\ nbd[tgt[c].lun] # Nothing
    /\ child' = [child EXCEPT ![nbd[tgt[c].lun]].has = @ \cup {session[c]}]
    /\ UNCHANGED <<conf, golden, snap, lockf, exports, job, faults>>

\* A service stops; with tgtd, every target and LUN is gone.
ServiceStops ==
    /\ faults < MaxFaults
    /\ up' = FALSE
    /\ tgt' \in {tgt, [c \in Clients |-> NoTarget]}
    /\ faults' = faults + 1
    /\ UNCHANGED <<conf, disks, nbd, session, job>>

\* monit, with which every page of the server begins, has them up again.
monit ==
    /\ up' = TRUE
    /\ UNCHANGED <<conf, disks, nbd, tgt, session, job, faults>>

\* The web server is restarted while a request runs.
Kill(w) ==
    /\ job[w] # Idle /\ faults < MaxFaults
    /\ job' = [job EXCEPT ![w] = Idle]
    /\ faults' = faults + 1
    /\ UNCHANGED <<conf, disks, exports>>

-----------------------------------------------------------------------------
\* The commands of a request, in the order they are defined above.
Run(w) ==
    \/ \E mode \in Modes : SaveToFile(w, mode)
    \/ tgtstop(w) \/ nbdFree(w) \/ NbdDel(w) \/ Unsnap(w) \/ Snap(w)
    \/ mkChild(w) \/ KillUsers(w) \/ LockFile(w) \/ Create(w)
    \/ Search(w) \/ BusyNbd(w) \/ BusyTgt(w) \/ StopOwn(w) \/ NotBusy(w)
    \/ NbdAdd(w) \/ TgtStart(w) \/ LunAdd(w) \/ Merge(w)

Request(w, c) ==
    \/ BootRequest(w, c)
    \/ /\ c \in Managed
       /\ \/ \E mode \in Modes : SuperRequest(w, c, <<mode>>)
          \/ disableCommit(w, c)

Next ==
    \/ \E w \in Workers : Run(w) \/ Kill(w) \/ \E c \in Clients : Request(w, c)
    \/ \E c \in Clients : Write(c)
    \/ ServiceStops \/ monit

Spec == Init /\ [][Next]_vars

\* The services are down, and the request needs them to make or stop its target.
Down(w) ==
    /\ ~up
    /\ \/ At(w, "tgtstart")
       \/ At(w, "stop") /\ tgt[Who(w)].on

\* The moments at which nbdConnect's loop would find a free device free.
Polls(w) ==
    /\ At(w, "busy") \/ (At(w, "stop") /\ ~tgt[Who(w)].on)
    /\ ~used(job[w].dev)

\* A worker goes on with its request, and leaves a loop whose way out stays open:
\* a snapshot is mounted at some attempt, a parent that exists is seen.  The poll
\* for a free device, twice a second, does not miss for ever a device that is
\* free again and again, for the seconds a reboot takes.
FairSpec ==
    /\ Spec
    /\ \A w \in Workers :
         /\ WF_vars(~Down(w) /\ Run(w)) /\ WF_vars(Run(w) /\ job' # job)
         /\ []<>Polls(w) => []<><<NotBusy(w)>>_vars

-----------------------------------------------------------------------------
TypeOK ==
    /\ conf \in [Clients -> Modes]
    /\ golden \subseteq BOOLEAN
    /\ snap \in [Clients -> {"none", "fresh", "old"}]
    /\ child \in [Clients -> [base : {"none", "snap", "golden"},
                              fresh : BOOLEAN, has : SUBSET BOOLEAN]]
    /\ lockf \subseteq Clients
    /\ nbd \in [Devices -> Clients \cup {Nothing}]
    /\ tgt \in [Clients -> [on : BOOLEAN, lun : 0..nbd_nbds]]
    /\ session \in [Clients -> BOOLEAN]
    /\ up \in BOOLEAN
    /\ job \in [Workers -> [todo : Seq(Steps), who : Clients \cup {Nothing},
                            dev : 0..nbd_nbds, conf : [Clients -> Modes]]]
    /\ faults \in 0..MaxFaults

\* A workstation's LUN never leads to another workstation's overlay: the boot
\* pipeline gives every one a disk of its own.
OwnDisk ==
    \A c \in Clients :
        tgt[c].lun # 0 => nbd[tgt[c].lun] \in {c, Nothing}

\* When a boot outside super mode gives a workstation its LUN, the LUN leads
\* nowhere (the overlay could not be attached) or to an overlay without writes
\* over the golden image as it is then: whatever was written before the reboot
\* is gone, however the boots before it ended.
CleanBoot ==
    [][\A w \in Workers :
         (At(w, "LunAdd") /\ tgt[Who(w)].lun = 0 /\ Mode(w) # "edit") =>
           LET d == tgt'[Who(w)].lun
           IN  (d # 0 /\ nbd[d] # Nothing) =>
                 /\ nbd[d] = Who(w)
                 /\ child[nbd[d]].has = {} /\ child[nbd[d]].fresh]_vars

\* The golden image takes in only what was written in a super-mode session
\* with the disk selected, never the writes of a normal one, whatever the
\* administrator switches while workstations run.
GoldenHasOnlyEdits == golden \subseteq {TRUE}

\* A boot or settings request does not occupy its worker for ever: every loop in
\* nbdConnect, mkChild and LunAdd comes to its end, unless it waits for what no
\* command of its own brings about.  That is: the device it found free has become
\* that of another workstation's target, and stays that; its snapshot has been
\* destroyed by another request for the workstation, which then never takes a
\* new one; the services stay down; or other workers begin a request for the same
\* workstation again and again.
Taken(w) ==
    /\ At(w, "busy") \/ At(w, "stop")
    /\ \E c \in Clients \ {Who(w)} : tgt[c].lun = job[w].dev
Gone(w) == At(w, "create") /\ Parent(w) = "snap" /\ snap[Who(w)] = "none"
RequestEnds ==
    \A w \in Workers :
        \/ job[w] # Idle ~> job[w] = Idle
        \/ <>[]Taken(w) \/ <>[]Gone(w) \/ <>[]Down(w)
        \/ []<><<\E v \in Workers \ {w} : Request(v, Who(w))>>_vars

\* It ends whatever the other requests do.
AlwaysEnds == \A w \in Workers : job[w] # Idle ~> job[w] = Idle

\* disableCommit merges what was written in super mode into the golden image.
EditsMerged ==
    [][\A w \in Workers :
         (At(w, "commit") /\ job'[w].todo = Tail(job[w].todo)) =>
             child[Who(w)].has \cap {TRUE} \subseteq golden']_vars

\* An overlay is committed only into the golden image it was made over.
SafeCommit ==
    [][\A w \in Workers :
         (At(w, "commit") /\ golden' # golden) => child[Who(w)].fresh]_vars
=============================================================================

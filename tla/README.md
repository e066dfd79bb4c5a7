# Verification of MKYBOOT-SERVER

TLA+ models, TLC runs and TLAPS proofs for the parts of MKYBOOT-SERVER that
carry its own logic: the Windows-native server (Go), the Windows launcher (Go)
and the web interface with its boot pipeline (Lua). Paths below are relative to
`src/`.

## The system and its parts

| Part | Source | What it does | Module |
|---|---|---|---|
| Client registry | `server/state.go`, `state_ops.go`, `handlers.go`, `admin_handlers.go` | enrols workstations, takes heartbeats, keeps locks and session timers | `ClientRegistry`, `Enrolment` |
| File writes | `server/atomic.go` | saves configuration, administrator record and registry | `AtomicFile`, `SavedFile` |
| Launcher | `launcher/app.go`, `ui.go`, `server.go`, `tray.go` | shows the server's state, restarts and stops the web service | `Launcher` |
| Status snapshot | `bin/mkyctl.lua` 960-1260 | answers which workstations are connected | `StatusCache` |
| Boot pipeline, super mode | `bin/mkyctl.lua` 430-700, 850-1000, 1260-1400, 1930-2010; `src/image.lua` | gives a workstation its disk at boot, merges a super client's writes | `BootPipeline` |
| NBD daemon | `bin/server.lua`, `bin/client.lua` | runs `qemu-nbd` for the boot pipeline | `IpcDaemon` |
| Web authentication | `bin/mkyctl.lua` 215-370, 1440-1660, request handling | account, sessions, login limit | `WebAuth` |
| Workstation configuration, DHCP export | `bin/mkyctl.lua` 740-840, 1940-2108, the scripts of its pages; `src/cfg.lua` | edits and saves `mkyboot.json`, writes `dhcpd.conf` | `Workstations` |
| Start-up, service, shutdown | `server/main.go`, `server.go`, `service_windows.go`, `config.go` | order of starting and stopping | `ServerStart` |
| Administrator token | `server/admin.go` | provisions the token at the first start | `ServerStart` |
| Image storage | `server/storage*.go` | base images and assignments in memory | not modelled |
| Single instance, launcher configuration | `launcher/instance.go`, `config.go` | Windows handles, one small file | not modelled |
| Pages, JSON API | `bin/mkyctl.lua` 1657-1755, 2199-3497 | text built from state | not modelled |
| Win32 bindings, paths, log, installer | `launcher/win32.go`, `server/paths.go`, `log.go`, `install.sh` | no logic of their own | not modelled |
| TFTP, DHCP, boot scripts of the Go server | named in `server/main.go`, `server.go` | their sources are not in the repository | not modelled |
| iPXE | `src/ipxe` | vendored | not modelled |

How they meet. The registry saves through `atomicWriteFile`; `SavedFile` is the
contract between the two: `AtomicFile` implements it, and `ClientRegistry`
uses the save as one step that succeeds or fails. The boot pipeline asks the
NBD daemon to attach an overlay; `BootPipeline` takes that as one step that may
fail, and `IpcDaemon` models the protocol below it. The launcher watches the
web interface and asks it to restart, which is what kills workers in
`StatusCache`, `BootPipeline`, `WebAuth` and `Workstations`. `Workstations` and
`BootPipeline` share the super mode requests: the former follows the list that
they load and save, the latter what they do to the disks. `ServerStart` saves
its two files through `atomicWriteFile`, in one step as `SavedFile` allows, and
ends where `ClientRegistry` begins.

## The modules

### ClientRegistry

`net/http` runs each request in a goroutine; a handler is a record in `call`
with its place in the code and its locals. Every method of `*state` is one
critical section and one action (`Register`, `Heartbeat`, `SetLock`,
`StartSession`, `EndSession`), its `persistLocked` included: memory changes in
every case, the file (`disk`) only when the save succeeds. `GetState` and the
enforcing `SetLock` of a heartbeat are steps of their own, as the mutex is free
in between. `Crash` drops memory and requests, `Restart` reads the file back
and rebuilds both indexes and the id sequence. `issued` and `acked` are ghosts:
the credentials that were answered, and what was confirmed to an administrator.
A crash here is that of the process. A power loss may also bring back an
earlier version of the file, because the directory is not synced after the
rename; that is in `SavedFile` and `AtomicFile`, and the durability theorems of
the registry do not speak of it.

`Enrolment` is what workstations are promised, in one variable: a MAC address
is enrolled once, under an id and a token of its own.

### AtomicFile

One action per system call of `atomicWriteFile`, each of which may fail, for
several writers of one path. A file that was not synced holds anything after a
power loss. Temporary names are random, one of 2^32; that two calls under way
do not draw the same one is assumed (`Unused`). `SavedFile` is a save in one
step.

### Launcher

The UI thread with a stack of dialog loops (`frames`) that share one answer
slot (`activeDlg`), the polling goroutine, control goroutines, and the server
they talk to. A check is two steps: what the server answers, and what the
launcher makes of it later.

### StatusCache

Workers that look at the snapshot, try the lock file (read, then write),
run `tgtadm` and replace the snapshot. Times are ages up to `max_age + 1`. A
`tgtadm` that is killed at its time limit, or fails, and a file that a full disk
cuts, leave a list that breaks off, perhaps within an address. `Shortened` says
which addresses an address may then read as.

### BootPipeline

A request is a list of commands that one worker carries out one after the
other (`job[w].todo`); a branch puts its commands in front of the rest.
Requests of one worker do not interleave, those of several do, and a restart
of the web server ends a request between two commands. A disk's content is the
set of the kinds of writes in it: those of super-mode sessions, and others.
Images are of type dyndisk, one per workstation. `up` is what `scCheck` finds
out: `tgtstart` and `tgtstop` do nothing while one of the three services is
down, `monit` tries to start it, and `ServiceStops` stops one, with all targets
if it is `tgtd`.

### IpcDaemon

The daemon step by step (`dpc`) and the clients, with the path and the
listening sockets as objects of their own: a client may be connected to a
socket whose path is gone. The daemon never closes a listening socket; the
collector does while Lua code runs. The model can stop: when every client
waits on an old socket the daemon waits in `accept`, nobody connects, and no
collection happens. Its runs therefore do not check for deadlock, and
`ClientEnds` has the premise that requests keep reaching the daemon. A failed
`os.execute` is answered as success or as failure, since `/usr/bin/lua` may be
5.1 (a number, true) or later (nil).

### WebAuth

Setup, login, logout and password change as lists of file operations, for
browsers that hold a cookie. A file may not open, and what is written may be
cut; a file that was cut cannot be decoded and counts as missing. `recorded` is
a ghost: the failures `ratelimit.json` has taken in. A browser sends the cookie
it was given or none; cookies that are no session id are left out. The
properties are checked and proved for one worker; the files have no lock between
workers, and with two the properties fail.

### Workstations

The list `cfg.wks` as a function from slots to entries: nil, `{}`,
`{empty = "true"}` or a machine. A page that lists machines adds their tids to
`seen`, which is what its menus may send back later; `GetMy` opens a form, and
`ApplyMy` sends it when the list may have changed. A request that edits is a
record in `job` with the list it has read: `Load` (and `Reload` for super mode),
`Open`, which empties the file, `Write`, and for `ApplyMy` the two steps of
`ExportDHCP`. Either file may not open, and what is written to it may be cut
(`WriteCut`, `ExportCut`), which nobody looks at; `Kill` ends a request between
any two steps. A request cut short may leave a file that no later request can
read; nothing happens from there on, and the run does not check for deadlock. A table with a hole is encoded as an object whose keys
come back as strings, so that the file counts as garbled. `first`, `last` and
`settled` are ghosts: the list at the start, the last one that was saved, and
whether a machine was applied to the end and no later write was cut short.

### ServerStart

A process is a record in `proc` with its place in `run` (`at`) and in `Execute`
(`svc`), the configuration it has loaded, the token it has made and its number.
Every call that may fail or meet another process is a step. `http.Serve` runs
in a goroutine of its own: `Shutdown` may come before it has registered the
listener (`late`). The service manager is external, modelled from the reports
`Execute` makes: it starts a service that is stopped and sends Stop to one that
runs. Its recovery actions are left out. All processes are taken to have the
same bind addresses. Any storage root may turn out impossible to make. `shown` and `lost` are ghosts; a service writes the token
to a stderr that nobody sees. Starts are bounded and everything may be off, so
the run does not check for deadlock.

## Runs

Passing runs:

| Run | Shows |
|---|---|
| `registry_safety` | With two workstations (one spells its MAC in two ways), two handlers, failing saves and a crash: one client per MAC and per token, indexes that agree, credentials that are durable and accepted, confirmed locks in force, and the refinement of `Enrolment`. |
| `registry_time` | With timers started while the clock runs: a confirmed timer stays in force until a later request changes it, and a workstation whose session has elapsed ends up locked. |
| `atomic_file` | The path always names a whole, synced file; the call implements `SavedFile`. |
| `launcher` | The state on the screen is about the address on the screen; passing states pass; every operation gives the buttons back. |
| `status` | An address shown online had a session within `max_age`, or a list broke off within one that had; a stale snapshot is replaced, although a worker died with the lock. |
| `boot_safety` | One worker, commands that fail, two kills or stopped services: every workstation has its own disk, a normal boot starts clean, the golden image takes in super-mode writes only. |
| `boot_liveness` | Two workers, two workstations, one device: every boot request ends, unless the other worker takes its device or destroys its snapshot for good, or boots the same workstation again and again. |
| `auth_safety` | With saves that fail or are cut: one session at most, lockout after `MAX_ATTEMPTS` recorded failures, and an account that is replaced or lost only by a change that verified its password. |
| `workstations` | One worker, two slots, forms and pages older than the file, one kill: the tid of a machine stays the number of its slot, a new machine gets a free slot, images are marked for commit in super mode only, a save changes one slot, and between requests, from a machine that was applied to the end until a write is cut short, the file is readable and `dhcpd.conf` has every enabled machine. |
| `startup` | A console and a service over the same files and ports, failing calls, a kill, an edited configuration: a process that accepts requests has all its PXE services, a serving console has shown the token it made, a stored token is accounted for, nothing is accepted after Stopped was reported, every start and every stop ends. |
| `ipc` | No request is run twice; ok means it was run; a rejected one never is; the daemon always comes back to its path; a client left behind is let go while requests keep coming. |

One run ends in a counterexample; it states a sentence of the repository,
quoted in `PROJECT.json`: `boot_shared`, where the code attaches two boots of two
workers to one NBD device.

Further statements, most of them of comments and documents, are written down as
properties of the modules. They have no run of their own; TLC finds each one
violated on the instance given here.

| Property | Instance | The code |
|---|---|---|
| `ExpiredReportsLocked` (`server/README.md:102`) | one workstation, `MaxTime = 2` | answers a heartbeat of an elapsed session unlocked when the save of the lock fails |
| `BusyInFlight` (`launcher/app.go:76`) | two goroutines, `MaxDepth = 3`, `MaxControls = 3` | runs two control operations at once; the first to end clears `busy` |
| `NotOnlineYet` (`launcher/app.go:531`) | one address, one operation | puts Online back on the screen while a restart or stop is announced |
| `ClosedMeansInterrupted` (`launcher/app.go:585`) | one address, one operation | reports a refusal that was answered as a closed connection |
| `OfflineIsAbsent` (`bin/mkyctl.lua:979`) | one address | takes a `tgtadm` that was cut off for one that found no session |
| `OnlineIsOwn` | two addresses, one the beginning of the other's text | takes an address that was cut off for that of another workstation |
| `EditsMerged` (`README.md:206`) | one workstation, one worker, one kill | keeps a snapshot-based overlay for a super boot after a kill left a lock file, and commits nothing |
| `SafeCommit` (`README.md:11`) | two workstations, both managed | commits an overlay made over a golden image that has changed since |
| `RequestEnds` (`PHASE4A_UBUNTU_PXE_REPORT.md:107`) | `Enabled = {}` | waits for ever for the target of a disabled workstation |
| `AlwaysEnds` (`PHASE4A_UBUNTU_PXE_REPORT.md:107`) | `boot_liveness` | waits for a device that another workstation's target has, and stops its own target only |
| `AnsweredInPlace` (`launcher/ui.go:808`) | one address, `MaxDepth = 2`, two goroutines | lets a second dialog take the slot of the first, so that a click in one answers the other |
| `NoOverlap` (`bin/mkyctl.lua:977`) | two workers | lets two workers that read the lock before either writes it refresh at once |
| `OneSlotPerSave`, `AtRest` | `workstations` with two workers | loads and saves the whole file without exclusion: a save undoes another one, or garbles it |
| `AtRest` with `settled` taken for TRUE | `workstations` | leaves an empty or cut file after a kill or a full disk |
| `DhcpIsCurrent` | `workstations` | deletes a machine without a new export |
| `DhcpWellFormed` (`PHASE4B_REAL_PXE_DISKLESS_ACCEPTANCE_REPORT.md:84`) | `workstations` | ends a block of `dhcpd.conf` for a disabled machine that it did not open |
| `OfferIsFree` without its premise | `workstations` | offers a slot with a machine when a tid is not its slot, as in `src/cfg.lua:168` |
| `TokenReturned` (`server/server.go:36`) | one start | drops the token it has saved when the storage root cannot be made; later starts take it for provisioned |
| `TokenStable` | two processes | lets the save of a second process replace the token of a serving one |
| `StoppedIsFree` | one service | reports Stopped while TFTP and DHCP still run |
| `RunningServes` | one service | reports Running before `Listen` |
| `EditKept` (`server/main.go:93`) | one edit | saves the defaults over a configuration written after its `Stat` |
| `GoldenHasOnlyEdits` | `boot_safety` with two workers, no kill | runs two requests for one workstation at once: one exports an overlay that the other makes over the golden image |
| `AccountKept` | `auth_safety` | replaces `auth.json` by a file that was cut: the account is gone and setup is open again |
| `OneSession`, `LockedOut`, `VerifiedChange` | `auth_safety` with two workers, `MAX_ATTEMPTS = 2`, no kill | reads and saves account, sessions and login limit without exclusion between workers |
| `CookieWorks` (`README.md:46`) | one id in `Slashed` | hands out a session whose file could not be written |

### Bounds

Two handlers, workers or writers are enough for every race between a check and
its use, and two workstations, addresses or versions for every mix-up of one
with the other. `MaxId`, `MaxToken`, `MaxFiles` count what is handed out, and
leave room for one attempt that fails and is repeated. One crash or kill
(two in `WebAuth` and `IpcDaemon`) can fall between any two steps. `MaxFaults`
counts kills and stopped services of the boot pipeline together: two in
`boot_safety`, where one of the two workstations is switched in and out of super
mode, and none in `boot_liveness`, which also passes with one, in several
minutes. In `status` one workstation comes and goes, and a second address is what
the first reads as when it is cut.
`registry_time` counts to 2, past the end of a session of length 1 begun at
once, and only starts sessions: with `AdminOps = {"start", "end"}` it passes as
well, in several minutes. In
`StatusCache` time passes during a refresh (`MaxRun = 1`), up to `ttl`: a
refresh slower than that never leaves a fresh snapshot. Refreshes overlap
through the race for the lock file; longer ones are covered by the proof. In
`WebAuth` `MAX_ATTEMPTS` has its value, 5. `launcher` has one dialog open at a
time and one control goroutine. `workstations` begins with each kind of list
that the repository ships (a blank second slot, the end of the list, two
machines with one tid) and has one image, as no two are treated differently; the
proofs cover any number of slots, images and workers. `startup` has two starts
in all, so that a process meets another one or its own leavings.
`MaxTries` is 60 in the code; no branch depends on it but the last. Runs with
a liveness property use no symmetry.

### Fairness

- `ClientRegistry`: goroutines run and the mutex is handed on (weak, per
  handler); the service manager restarts the process; enrolled workstations
  keep sending heartbeats, and not every save of a heartbeat fails (strong).
- `Launcher`: the polling goroutine and each control goroutine run (weak);
  their HTTP calls have timeouts. Nothing is assumed of the user.
- `StatusCache`: requests come and refreshes go on (weak); the workers do not
  fail for ever at opening the lock file, and the disk is not full for ever
  (strong).
- `BootPipeline`: a worker goes on (weak), and a loop whose way out stays open is
  left: a snapshot is mounted at some attempt (weak, of the steps that change
  `job`). The loop that polls twice a second for a free device does not miss for
  ever one that is free again and again (`Polls`), since it stays free for the
  seconds a reboot takes. Nothing is assumed of the services: `RequestEnds` has
  the case that they stay down.
- `ServerStart`: the goroutines of a process run (weak, per process); no call
  of `run` waits for another process, and `Shutdown` waits ten seconds at most.
  Nobody has to start, stop or kill a process, and `Accept` need not fail.
- `IpcDaemon`: processes run (weak); a socket is collected when the daemon has
  run Lua code again and again (strong), as allocation drives the collector.

## Proofs

All theorems hold for every value of the constants that satisfies the module's
`ASSUME` (`RegistryAssumption`, `FileAssumption`, `LauncherAssumption`,
`StatusAssumption`, `PipelineAssumption`, `WorkstationsAssumption`,
`ServerStartAssumption`, `IpcAssumption`, `AuthAssumption`). What nginx workers
share without a lock is often right for one worker only; those theorems have
the premise `OneWorker`, and the table above and the run `boot_shared` show what
two workers do. The types of every module are proved; `AtomicFile`,
`StatusCache`, `WebAuth`, `Workstations` and `ServerStart` therefore leave them out of
their runs.

**ClientRegistryProofs.** `Identity` is the inductive invariant. The properties
are not inductive: a crash falls back to the file, so uniqueness needs the
relation between memory and file. `MemoryAhead` says that the file's clients
are in memory under the same identity (a failed save leaves memory ahead, never
behind); `Unused` that the next id and token are new, also after a restart
took the sequence from the file; `Answered` that a credential in a handler's
hands is already on disk; `CallSound` what a handler may rely on between steps.
From it follow `TypeCorrect`, `OneClientPerMACHolds`, `IndexesAgreeHolds`,
`IssuedDurableHolds`, `IssuedAcceptedHolds`, and, since two issued credentials
are two clients of the file, the refinement `EnrolmentHolds`.
`AckedHoldsAlways` has an invariant of its own, `Acks`: both memory and file
agree with what was confirmed, and a missing entry reads as unlocked.

**AtomicFileProofs.** `Whole` says nothing of the file the next rename puts in
place. `IInv` adds that an open call owns its name and its file (`Own`,
`Apart`), and that the file is written before it is synced and synced before it
is renamed (`Written`). `SaveTypeCorrect` is its first conjunct;
`NeverTruncated` is `Spec => []Whole`; `SavingIsAtomic` shows that every step is
a step of `SavedFile` or a stutter: the rename is the `Replace`, and all else
before the return is invisible.

**DisplayProofs.** What the administrator sees, in the launcher (`Launcher`) and
on the web pages (`StatusCache`). `ShownIsCurrent` is inductive by itself.
`AlwaysCurrent` goes through the answers that arrive late, from the poll and
from the check after an operation: `applyResult` compares their address with the
current one, and a new address comes with a state of its own.
`LauncherTypeCorrect` is inductive by itself too; its content is that
`activeDlg` never points past the stack of dialogs, and that the counts of
retries, checks and notices keep their limits. `OnlineAlwaysRecent` rests on the
fact that an address in a snapshot, in the file or still with the worker that
collected it, or one whose text begins with it, had a session no longer ago than
the snapshot's age (`CacheSeen`, `FoundSeen`), since the time is read before the
command is run; what is cut may be cut again (`Shortened` is transitive).

**WorkstationsProofs.** What is saved was read earlier, edited, and kept in a
request while other workers saved. `IInv` therefore says of every list that can
still reach the file (the file itself, those in requests, the defaults while
there is no file) what the properties say of the last one saved (`Sound`), and
of every form and request that what it would store is sound in its slot
(`FormsSound`, `JobsSound`). `TidsStaySlots`, `NewSlotIsFree` and
`MarksStayInSuper` follow for any number of workers: none of the three rests on
exclusion between them.

Two more hold for one worker. `SavesOneSlot` needs that a readable file is the
list saved last (`Latest`) and that a request about to save has changed one slot
of it (`OneEdit`). `FilesAgreeAtRest` needs to know where both files are at
every step of a request while nothing was cut short (`Calm`): the list is empty
between `Open` and `Write`, and dhcpd.conf is behind it until `ExportDHCP` has
closed it. For a list without holes to stay one, every tid that a form or a
request may store must be a slot in use or the one after (`Tight`, `FormsFit`,
`JobsFit`). Its premise `BeginsTight` says so of the lists the server may begin
with, the defaults included: a machine whose tid lies further on is stored
there, and the hole makes the file one that cannot be read back.

**BootPipelineProofs.** `PipelineTypeCorrect` holds for any number of workers:
a request only ever has steps of the code to take, and its device and every LUN
is one of the server's devices or none. The other three have the premise
`OneWorker`. A LUN leads to a device and the device to an overlay, and a boot
changes the two at different steps, so `OwnDisk` is far from inductive. `IInv`
adds that no overlay is served on two devices (`ServedOnce`), that one that is
served exists (`Made`), that what lies on the golden image was written in super
mode and is exported to super-mode sessions only (`EditsOnGolden`), and what a
boot may rely on at each of its thirteen commands and while it makes an overlay
(`Sound`, `Ready`, `Clean`): after `nbdFree` and `del`, run twice, no device
serves the workstation; the device that `busy` accepted stays unused until
`add`; outside super mode the overlay is new, empty and over the snapshot just
taken, or there is none. Its target may still be there, when the services were
down as it was to be stopped, but the LUN leads nowhere (`Blank`). A killed request leaves a state
that the next boot starts from, which is why `Ready` asks nothing of the first
command. `EveryoneGetsOwnDisk`, `GoldenIsEdited` and `BootIsClean` follow.

**ServerStartProofs.** Three invariants on top of the types, which need that a
running process has a number among those given out (`Numbered`). `Bound` relates
the place of a process to the ports it holds and to whether it accepts: from the
end of `startPXE` to the end of the process its PXE ports are its own.
`PXEUnderHttp` and `QuietAfterStopped` follow. `TokenInv` says that a process
has the token it made until it has shown it, that no two running processes have
one number, that a number that is not saved yet is not the one stored, and that
a console past `Show` has shown its number if it is the one stored (`Prints`); it
gives `TokensAccountedFor`.

**IpcDaemonProofs.** A request could be run twice only if its client stood in
two queues, twice in one, or in a queue while it is served; `QueuedOnce` and
`QueuedWait` exclude that, and say that nothing has happened for a client that
still waits. `Looking` says the same of one that has no connection yet,
`Serving` what the daemon knows of the client it has accepted, `HasSocket` that
there is a socket to accept from. `IpcTypeCorrect` and `AnswersTell` follow.

**WebAuthProofs.** The four theorems have the premise `OneWorker`, without
which they are false (see the table above). `Sound` says what a request may rely
on at each of its steps: that the account is still the one it checked when it
saves, that no session is left when it creates one, and that the login limit it
has read, and will save, is not behind the failures recorded since (`Fits`).
Killed requests, saves that fail or are cut, and expiring sessions and lockouts
keep it. `LimitHolds`, `SingleSession`, `AccountNeedsItsPassword` and
`AuthTypeCorrect` follow.

Only model-checked: liveness (`ExpiryEnforced`, `TransientEnds`, `BusyEnds`,
`Replaced`, `RequestEnds`, `ServesAgain`, `ClientEnds`, `StartEnds`,
`StopEnds`), which the prover does not handle. Every invariant and every action
property of the runs is proved.

## What is left out inside the modelled parts

Names, creation times and `LastSeen` of clients; the client list, health and
version pages; the permissions `restrictFileToOwner` sets; painting, tray icon
and start-up registration; the service flags of the status snapshot and a clock
that is set back; dynblock
and iso images and workstations with several images; the hash functions and the
CSRF functions, which nothing calls; the pid file and the log of the daemon, and
a second daemon.

## Not modelled

- Image storage: base images are registered by tests only. No handler and no
  start-up code calls `RegisterExisting`, so the set stays empty and
  `AssignClient` refuses every request; nothing is persisted.
- The launcher's instance lock and configuration, its Win32 bindings, tray icon
  and painting: what can go wrong there depends on Windows handles and messages
  whose behaviour is not in the repository.
- The Go server's TFTP and DHCP services and boot scripts: `server/main.go`
  calls them, their sources are not in the repository. `ServerStart` has the
  ports they bind.
- HTML, JavaScript and JSON that only present state; hash functions; the
  installer, a script that is run once.
- `src/ipxe`: vendored, and by far the largest part of the source tree. The
  models cover the repository's own Go and Lua code.

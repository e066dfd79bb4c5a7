---------------------------- MODULE Workstations ----------------------------
(***************************************************************************)
(* The list of workstations in mkyboot.json and the dhcpd.conf made from   *)
(* it (bin/mkyctl.lua, LoadFromFile, SaveToFile, ExportDHCP, and the       *)
(* requests of the page that add, change and delete a machine or switch    *)
(* its super mode).                                                        *)
(*                                                                         *)
(* The script runs anew for every request.  It loads the whole file, edits *)
(* one slot of cfg.wks and saves the whole file, which io.open(.., "w")    *)
(* empties before anything is written; nothing keeps another nginx worker  *)
(* out in between.  A slot's number is also the tid of its machine and     *)
(* what the page sends back as id: GetMy picks the slot of a new machine,  *)
(* the form goes back with it, and a page may be older than the file.      *)
(*                                                                         *)
(* A file may not open, and what is written to it may be cut (the disk is  *)
(* full), which nobody looks at.  The three loads of a request are two     *)
(* here: the one at the start of the script is repeated before anything is *)
(* decided on it.                                                          *)
(***************************************************************************)
EXTENDS Integers

CONSTANTS
    Hosts,          \* a machine's name, MAC and address
    Images,         \* the numbers of its disk images
    Workers,        \* nginx workers
    Browsers,       \* windows with the form of a machine open
    MaxSlots,       \* bound on the slots of cfg.wks
    Installed,      \* what the file may be at the start: configurations, Missing
    Default,        \* the workstations of cfg.lua
    MaxKills,       \* bound on the requests cut short
    None, Missing, Truncated, Garbled

Slots == 1..MaxSlots

Bare(kind) == [kind |-> kind, host |-> None, tid |-> 0, enable |-> FALSE,
               supper |-> FALSE, commit |-> {}]
Machine(h, k, on) == [kind |-> "machine", host |-> h, tid |-> k,
                      enable |-> on, supper |-> FALSE, commit |-> {}]

\* What a slot holds: nothing (nil), {} (blank), {empty = "true"} (emptied) or
\* a machine.  The page sends tid as a string and DeleteMachine compares
\* strings, GetMy numbers: a number stands for both.  Super mode can be switched
\* on for a slot without a machine.
Vacant == [kind : {"nil", "blank", "emptied"}, host : {None}, tid : {0},
           enable : {FALSE}, supper : BOOLEAN, commit : {{}}]
Occupied == [kind : {"machine"}, host : Hosts, tid : Slots,
             enable : BOOLEAN, supper : BOOLEAN, commit : SUBSET Images]
Entry == Vacant \cup Occupied

Config == [Slots -> Entry]
Unreadable == {Missing, Truncated, Garbled}

ASSUME WorkstationsAssumption ==
    /\ MaxSlots \in Nat /\ MaxKills \in Nat
    /\ Default \in Config /\ Installed \subseteq Config \cup {Missing}
    /\ None \notin Hosts \cup Workers
    /\ Config \cap Unreadable = {}
    /\ Missing # Truncated /\ Missing # Garbled /\ Truncated # Garbled

VARIABLES
    file,       \* mkyboot.json
    dhcp,       \* dhcpd.conf
    form,       \* the form a browser has open
    seen,       \* the tids that the page has shown
    job,        \* a worker's request
    last,       \* ghost: the last configuration saved
    first,      \* ghost: the one at the start
    settled,    \* ghost: a machine was applied to the end, and no later write
                \* was cut short
    kills

vars == <<file, dhcp, form, seen, job, last, first, settled, kills>>

Nothing == [k \in Slots |-> Bare("nil")]
NoForm == [add |-> FALSE, was |-> None, tid |-> 0, supper |-> FALSE,
           commit |-> {}]
Idle == [at |-> "idle", op |-> "none", id |-> 0, data |-> Bare("nil"),
         marks |-> {}, cfg |-> Nothing]

Machines(c) == {k \in Slots : c[k].kind = "machine"}

\* What ExportDHCP writes: a host block for every enabled machine.  The "}"
\* that ends a block is written for the disabled ones too.
Exported(c) ==
    [whole |-> TRUE, by |-> None,
     hosts |-> {c[k].host : k \in {j \in Machines(c) : c[j].enable}},
     unopened |-> \E k \in Machines(c) : ~c[k].enable]

\* dhcpd.conf as installed has no blocks: only ExportDHCP adds them.
Init ==
    /\ file \in Installed
    /\ first = IF file = Missing THEN Default ELSE file
    /\ last = first
    /\ dhcp = Exported(Nothing)
    /\ form = [b \in Browsers |-> NoForm]
    /\ seen = {}
    /\ job = [w \in Workers |-> Idle]
    /\ settled = FALSE
    /\ kills = 0

-----------------------------------------------------------------------------
\* The pages.  A request that only reads takes one step; it fails, and changes
\* nothing, unless the file is whole.

Readable == file \notin Unreadable
Reads(w) == job[w] = Idle /\ Readable

\* A page lists the machines by tid, which its menu sends back as their id.
View(w) ==
    /\ Reads(w)
    /\ seen' = seen \cup {file[k].tid : k \in Machines(file)}
    /\ UNCHANGED <<file, dhcp, form, job, last, first, settled, kills>>

\* The slots ipairs visits: those before the first nil.
Listed(c) == {k \in Slots : \A j \in 1..k : c[j].kind # "nil"}

Offer_Last(c) ==
    LET own == {k \in Listed(c) : c[k].kind = "machine" /\ c[k].tid = k}
        emptied == {k \in Listed(c) : c[k].kind = "emptied"}
    IN  IF emptied # {} THEN {k \in emptied : \A j \in emptied : k <= j}
        ELSE {k \in own : \A j \in own : j <= k}

\* The slot GetMy offers a new machine, if any: the first emptied one, else the
\* one after the last machine whose tid is its slot.
Offer(c) ==
    LET own == {k \in Listed(c) : c[k].kind = "machine" /\ c[k].tid = k}
        emptied == {k \in Listed(c) : c[k].kind = "emptied"}
    IN  IF emptied # {} THEN {k \in emptied : \A j \in emptied : k <= j}
        ELSE {k + 1 : k \in {i \in own : \A j \in own : j <= i}}

\* "Add machine", in the menu of a row: the form of GetMy with id 0.
GetMy_New(w, b) ==
    /\ Reads(w) /\ seen # {} /\ form[b] = NoForm
    /\ \E k \in Offer(file) \cap Slots :
         form' = [form EXCEPT ![b] =
                    [add |-> TRUE, was |-> file[k].host, tid |-> k,
                     supper |-> FALSE, commit |-> {}]]
    /\ UNCHANGED <<file, dhcp, seen, job, last, first, settled, kills>>

\* "Change machine": the form of the machine in that slot, super mode included.
\* Host and enable box are as they are when the form is sent.
GetMy(w, b, k) ==
    /\ Reads(w) /\ k \in seen /\ form[b] = NoForm
    /\ file[k].kind = "machine"
    /\ form' = [form EXCEPT ![b] =
                  [add |-> FALSE, was |-> None, tid |-> file[k].tid,
                   supper |-> file[k].supper, commit |-> file[k].commit]]
    /\ UNCHANGED <<file, dhcp, seen, job, last, first, settled, kills>>

CloseForm(b) ==
    /\ form[b] # NoForm
    /\ form' = [form EXCEPT ![b] = NoForm]
    /\ UNCHANGED <<file, dhcp, seen, job, last, first, settled, kills>>

-----------------------------------------------------------------------------
\* The requests that edit.

Request(w, op, k, data, marks) ==
    /\ job[w] = Idle /\ file # Missing
    /\ job' = [job EXCEPT ![w] =
                [Idle EXCEPT !.at = "load", !.op = op, !.id = k,
                             !.data = data, !.marks = marks]]
    /\ UNCHANGED <<file, dhcp, seen, last, first, settled, kills>>

\* The form is sent with the host as typed and the enable box as ticked; the
\* tid field is disabled in it.
ApplyMy(w, b, h, on) ==
    /\ form[b] # NoForm
    /\ Request(w, "apply", form[b].tid,
               [Machine(h, form[b].tid, on) EXCEPT
                    !.supper = form[b].supper, !.commit = form[b].commit], {})
    /\ form' = [form EXCEPT ![b] = NoForm]

DeleteMachine(w, k) ==
    k \in seen /\ Request(w, "delete", k, Bare("emptied"), {}) /\ UNCHANGED form

SupperOn(w, k, marks) ==
    k \in seen /\ Request(w, "on", k, Bare("nil"), marks) /\ UNCHANGED form

\* disableUncommit, disableCommit and disableCommitPoint.
SupperOff(w, k) ==
    k \in seen /\ Request(w, "off", k, Bare("nil"), {}) /\ UNCHANGED form

\* A request that finds no file saves the workstations of cfg.lua first.
SaveDefault(w) ==
    /\ job[w] = Idle /\ file = Missing
    /\ job' = [job EXCEPT ![w] =
                [Idle EXCEPT !.at = "open", !.op = "default", !.cfg = Default]]
    /\ UNCHANGED <<file, dhcp, form, seen, last, first, settled, kills>>

-----------------------------------------------------------------------------
\* Their steps.

At(w, step) == job[w].at = step
End(w) == job' = [job EXCEPT ![w] = Idle]
Goto(w, step, c) == job' = [job EXCEPT ![w].at = step, ![w].cfg = c]
Answer(w) == End(w) /\ settled' = (settled \/ job[w].op = "apply")
Fail(w) == End(w) /\ settled' = FALSE

Emptied_ByTid(c, k) ==
    [j \in Slots |-> IF c[j].tid = k THEN Bare("emptied") ELSE c[j]]

\* DeleteMachine empties a slot whose tid is its number, and answers ERROR for
\* any other; it saves in both cases.
Emptied(c, k) == IF c[k].tid = k THEN [c EXCEPT ![k] = Bare("emptied")] ELSE c

Stored_Anew(c, k, data) == [j \in Slots |-> IF j \in Offer(c) THEN data ELSE c[j]]

\* ApplyMy stores the form in the slot of its tid: the test that the slot is nil
\* looks the tid up as a string, which is never a key.
Stored(c, k, data) == [c EXCEPT ![k] = data]

\* LoadFromFile: an empty or garbled file is an error, which ends the request.
Load(w) ==
    /\ At(w, "load")
    /\ LET k == job[w].id
           op == job[w].op
       IN  \/ ~Readable /\ End(w)
           \/ Readable /\ op = "apply"
                /\ Goto(w, "open", Stored(file, k, job[w].data))
           \/ Readable /\ op = "delete" /\ Goto(w, "open", Emptied(file, k))
           \/ /\ Readable /\ op \in {"on", "off"}
              /\ IF file[k].kind = "nil" THEN End(w)
                 ELSE Goto(w, "reload", file)
    /\ UNCHANGED <<file, dhcp, form, seen, last, first, settled, kills>>

SetSupper_KeepMarks(e, op, marks) ==
    [e EXCEPT !.supper = op = "on", !.commit = @ \cup marks]

\* Switching on marks the images chosen, switching off unmarks all.
SetSupper(e, op, marks) ==
    [e EXCEPT !.supper = op = "on",
              !.commit = IF op = "on" THEN @ \cup marks ELSE {}]

\* Without a machine there are no images: switching off fails, and so does
\* marking one.
Switchable(e, op, marks) ==
    \/ e.kind = "machine"
    \/ e.kind # "nil" /\ op = "on" /\ marks = {}

\* The super mode requests load once more.
Reload(w) ==
    /\ At(w, "reload")
    /\ LET k == job[w].id
       IN  IF Readable /\ Switchable(file[k], job[w].op, job[w].marks)
           THEN Goto(w, "open",
                     [file EXCEPT ![k] = SetSupper(@, job[w].op, job[w].marks)])
           ELSE End(w)
    /\ UNCHANGED <<file, dhcp, form, seen, last, first, settled, kills>>

\* SaveToFile: io.open empties the file, the table is encoded and written.  If
\* the file does not open the request ends there, with an error.
Open(w) ==
    /\ At(w, "open")
    /\ \/ file' = Truncated /\ Goto(w, "write", job[w].cfg)
       \/ file' = file /\ End(w)
    /\ UNCHANGED <<dhcp, form, seen, last, first, settled, kills>>

\* A table with a hole is no array to the encoder: its numbers come back as
\* strings, and no slot is found again.
Hole(c) == \E k \in Slots : c[k].kind # "nil" /\ k \notin Listed(c)

\* What the file holds after the write.  If another worker has written since
\* the file was emptied, its text may be longer and end this one's.
Written(c) ==
    CASE Hole(c) -> {Garbled}
      [] file \in {Truncated, c} -> {c}
      [] OTHER -> {c, Garbled}

Write_NoExport(w) ==
    LET c == job[w].cfg
    IN  /\ At(w, "write")
        /\ file' \in Written(c)
        /\ last' = IF file' = c THEN c ELSE last
        /\ Answer(w)
        /\ UNCHANGED <<dhcp, form, seen, first, kills>>

\* ApplyMy goes on with the export, the others are answered.
Write(w) ==
    LET c == job[w].cfg
    IN  /\ At(w, "write")
        /\ file' \in Written(c)
        /\ last' = IF file' = c THEN c ELSE last
        /\ IF job[w].op = "apply" THEN Goto(w, "export", c) /\ UNCHANGED settled
           ELSE Answer(w)
        /\ UNCHANGED <<dhcp, form, seen, first, kills>>

\* What is written is cut; the request goes on as if it were not.  Its op, of no
\* use from here on, keeps that it has not saved.
WriteCut(w) ==
    /\ At(w, "write")
    /\ file' = Garbled
    /\ IF job[w].op = "apply"
       THEN job' = [job EXCEPT ![w].at = "export", ![w].op = "none"]
       ELSE End(w)
    /\ settled' = FALSE
    /\ UNCHANGED <<dhcp, form, seen, last, first, kills>>

\* ExportDHCP renames the old file away and opens a new one; a file that is
\* renamed while it is written becomes a backup.
ExportDHCP(w) ==
    /\ At(w, "export")
    /\ dhcp' = [whole |-> FALSE, by |-> w, hosts |-> {}, unopened |-> FALSE]
    /\ Goto(w, "close", job[w].cfg)
    /\ UNCHANGED <<file, form, seen, last, first, settled, kills>>

ExportClose(w) ==
    /\ At(w, "close")
    /\ dhcp' = IF dhcp.by = w THEN Exported(job[w].cfg) ELSE dhcp
    /\ Answer(w)
    /\ UNCHANGED <<file, form, seen, last, first, kills>>

\* The new dhcpd.conf did not open, or what was written to it is cut.
ExportCut(w) ==
    /\ At(w, "close")
    /\ Fail(w)
    /\ UNCHANGED <<file, dhcp, form, seen, last, first, kills>>

\* The web server is stopped or loses power.  Before its save has begun, a
\* request leaves the files alone.
Kill(w) ==
    /\ job[w] # Idle /\ kills < MaxKills
    /\ End(w)
    /\ settled' = (settled /\ job[w].at \in {"load", "reload", "open"})
    /\ kills' = kills + 1
    /\ UNCHANGED <<file, dhcp, form, seen, last, first>>

-----------------------------------------------------------------------------
Run(w) ==
    \/ Load(w) \/ Reload(w) \/ Open(w) \/ Write(w) \/ WriteCut(w)
    \/ ExportDHCP(w) \/ ExportClose(w) \/ ExportCut(w)

Ask(w) ==
    \/ View(w) \/ SaveDefault(w)
    \/ \E b \in Browsers : GetMy_New(w, b)
    \/ \E b \in Browsers, k \in Slots : GetMy(w, b, k)
    \/ \E b \in Browsers, h \in Hosts, on \in BOOLEAN : ApplyMy(w, b, h, on)
    \/ \E k \in Slots : DeleteMachine(w, k) \/ SupperOff(w, k)
    \/ \E k \in Slots, marks \in SUBSET Images : SupperOn(w, k, marks)

Next ==
    \/ \E w \in Workers : Run(w) \/ Ask(w) \/ Kill(w)
    \/ \E b \in Browsers : CloseForm(b)

Spec == Init /\ [][Next]_vars

-----------------------------------------------------------------------------
Steps == {"idle", "load", "reload", "open", "write", "export", "close"}

Job == [at : Steps, id : 0..MaxSlots, data : Entry, marks : SUBSET Images,
        op : {"none", "apply", "delete", "on", "off", "default"},
        cfg : Config]
Form == [add : BOOLEAN, was : Hosts \cup {None}, tid : 0..MaxSlots,
         supper : BOOLEAN, commit : SUBSET Images]
Dhcp == [whole : BOOLEAN, by : Workers \cup {None}, hosts : SUBSET Hosts,
         unopened : BOOLEAN]

\* The values the variables take.
TypeOK ==
    /\ file \in Config \cup Unreadable
    /\ dhcp \in Dhcp
    /\ form \in [Browsers -> Form]
    /\ seen \subseteq Slots
    /\ job \in [Workers -> Job]
    /\ last \in Config /\ first \in Config /\ settled \in BOOLEAN
    /\ kills \in 0..MaxKills

\* The tid of every machine is the number of its slot.
TidIsSlot(c) == \A k \in Machines(c) : c[k].tid = k

\* From a list in which every tid is the number of its slot, no sequence of
\* requests saves one in which it is not: GetMy, the menus and DeleteMachine
\* take the one for the other.
TidsAreSlots == TidIsSlot(first) => TidIsSlot(last)

\* From such a list, the form of a new machine is for a slot that held no
\* machine when GetMy made the form.
OfferIsFree ==
    TidIsSlot(first) => \A b \in Browsers : form[b].add => form[b].was = None

\* An image is marked for commit only while its machine is in super mode.
MarkNeedsSuper(c) == \A k \in Slots : c[k].commit # {} => c[k].supper

\* From a list in which that holds, it holds in every list that is saved,
\* whatever forms, deletions and mode switches came in between.
MarkedInSuper == MarkNeedsSuper(first) => MarkNeedsSuper(last)

\* A save changes the slot its request is about and no other: no machine
\* disappears or changes because another one was edited.
OneSlotPerSave ==
    [][\A j, k \in Slots : last'[j] # last[j] /\ last'[k] # last[k] => j = k]_vars

\* Between requests, from the first machine applied on and again from the first
\* one after a request that was cut short, the file is readable and dhcpd.conf
\* has a block for every enabled machine in it.
Resting == settled /\ \A w \in Workers : job[w] = Idle
AtRest ==
    Resting => /\ file = last
               /\ dhcp.whole
               /\ Exported(last).hosts \subseteq dhcp.hosts

\* Between requests dhcpd.conf has a block for every enabled machine and for
\* nothing else.
DhcpIsCurrent == Resting => dhcp.hosts = Exported(last).hosts

\* Every "}" of dhcpd.conf ends a block that was opened.
DhcpWellFormed == ~dhcp.unopened
=============================================================================

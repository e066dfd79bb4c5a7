------------------------- MODULE WorkstationsProofs -------------------------
(***************************************************************************)
(* What holds of the list of workstations for any number of slots, nginx   *)
(* workers and open forms, and however requests overlap or are cut short:  *)
(* what is saved keeps tids equal to slots and marks within super mode,    *)
(* and GetMy offers a new machine no slot that holds one.  With one worker *)
(* a save changes one slot, and between requests the list and dhcpd.conf   *)
(* agree.                                                                  *)
(***************************************************************************)
EXTENDS Workstations, TLAPS

\* An entry that may be put into slot k of a list that began as f.
EntrySound(f, e, k) ==
    /\ TidIsSlot(f) /\ e.kind = "machine" => e.tid = k
    /\ MarkNeedsSuper(f) /\ e.commit # {} => e.supper

Sound(f, c) ==
    /\ TidIsSlot(f) => TidIsSlot(c)
    /\ MarkNeedsSuper(f) => MarkNeedsSuper(c)

\* The strengthening: what is in the files, the requests and the forms is
\* sound already.
FileSound ==
    /\ file \in Config => Sound(first, file)
    /\ file = Missing => first = Default
JobsSound ==
    \A w \in Workers :
        /\ Sound(first, job[w].cfg)
        /\ EntrySound(first, job[w].data, job[w].id)
FormsSound ==
    \A b \in Browsers :
        /\ form[b] = NoForm \/ form[b].tid \in Slots
        /\ MarkNeedsSuper(first) /\ form[b].commit # {} => form[b].supper

IInv == TypeOK /\ FileSound /\ JobsSound /\ FormsSound /\ Sound(first, last)
            /\ OfferIsFree

-----------------------------------------------------------------------------
\* What an entry holds, with and without a machine.
LEMMA EntryFields ==
    ASSUME NEW e \in Entry
    PROVE  /\ e.kind = "machine" =>
                /\ e \in Occupied /\ e.host \in Hosts /\ e.tid \in Slots
                /\ e.supper \in BOOLEAN /\ e.commit \in SUBSET Images
           /\ e.kind # "machine" =>
                e \in Vacant /\ e.host = None /\ e.tid = 0 /\ e.commit = {}
<1>1. CASE e \in Occupied
  BY <1>1 DEF Occupied
<1>2. CASE e \in Vacant
  BY <1>2, Zenon DEF Vacant
<1> QED
  BY <1>1, <1>2 DEF Entry

\* The entries without a machine, and lists of them, are sound.
LEMMA BareSound ==
    ASSUME NEW f, NEW k, NEW x \in {"nil", "blank", "emptied"}
    PROVE  Bare(x) \in Entry /\ EntrySound(f, Bare(x), k)
  BY DEF Bare, Entry, Vacant, EntrySound

\* The list without machines is sound.
LEMMA NothingSound ==
    ASSUME NEW f
    PROVE  Nothing \in Config /\ Sound(f, Nothing)
<1>1. Nothing \in Config
  BY BareSound DEF Nothing, Config
<1>2. \A k \in Slots : Nothing[k].kind = "nil" /\ Nothing[k].commit = {}
  BY DEF Nothing, Bare
<1> QED
  BY <1>1, <1>2 DEF Sound, TidIsSlot, MarkNeedsSuper, Machines

\* Putting a sound entry into a slot of a sound list leaves it sound.
LEMMA PutSound ==
    ASSUME NEW f, NEW c \in Config, NEW k, NEW e \in Entry,
           Sound(f, c), EntrySound(f, e, k)
    PROVE  [c EXCEPT ![k] = e] \in Config /\ Sound(f, [c EXCEPT ![k] = e])
<1> DEFINE d == [c EXCEPT ![k] = e]
<1>1. d \in Config
  BY Zenon DEF Config
<1>2. \A j \in Slots : d[j] = IF j = k THEN e ELSE c[j]
  BY DEF Config
<1>3. ASSUME TidIsSlot(f) PROVE TidIsSlot(d)
  BY <1>2, <1>3 DEF Sound, EntrySound, TidIsSlot, Machines
<1>4. ASSUME MarkNeedsSuper(f) PROVE MarkNeedsSuper(d)
  BY <1>2, <1>4 DEF Sound, EntrySound, MarkNeedsSuper
<1> QED
  BY <1>1, <1>3, <1>4 DEF Sound

-----------------------------------------------------------------------------
\* What the steps that edit do to a list.

LEMMA EmptiedSound ==
    ASSUME NEW f, NEW c \in Config, NEW k, Sound(f, c)
    PROVE  Emptied(c, k) \in Config /\ Sound(f, Emptied(c, k))
<1>1. Bare("emptied") \in Entry /\ EntrySound(f, Bare("emptied"), k)
  BY BareSound
<1> QED
  BY <1>1, PutSound, Zenon DEF Emptied

\* So do the super mode requests.
LEMMA SwitchSound ==
    ASSUME NEW f, NEW c \in Config, NEW k \in Slots, NEW op,
           NEW marks \in SUBSET Images, Sound(f, c), Switchable(c[k], op, marks)
    PROVE  LET d == [c EXCEPT ![k] = SetSupper(@, op, marks)]
           IN  d \in Config /\ Sound(f, d)
<1> DEFINE e == SetSupper(c[k], op, marks)
<1>1. c[k] \in Entry
  BY DEF Config
<1>2. ASSUME c[k].kind = "machine" PROVE e \in Entry /\ EntrySound(f, e, k)
  <2>1. c[k] \in Occupied
    BY <1>1, <1>2, EntryFields
  <2>2. e \in Entry
    BY <2>1, Zenon DEF SetSupper, Entry, Occupied
  <2>3. e.tid = c[k].tid /\ e.supper = (op = "on")
          /\ e.commit = IF op = "on" THEN c[k].commit \cup marks ELSE {}
    BY <2>1 DEF SetSupper, Occupied
  <2>4. TidIsSlot(f) => e.tid = k
    BY <1>2, <2>3 DEF Sound, TidIsSlot, Machines
  <2> QED
    BY <2>2, <2>3, <2>4, Zenon DEF EntrySound
<1>3. ASSUME c[k].kind # "machine" PROVE e \in Entry /\ EntrySound(f, e, k)
  <2>1. c[k].kind # "nil" /\ op = "on" /\ marks = {}
    BY <1>3 DEF Switchable
  <2>2. c[k] \in Vacant
    BY <1>1, <1>3, EntryFields
  <2>3. e \in Vacant
    BY <2>1, <2>2, Zenon DEF SetSupper, Vacant
  <2>4. e.kind # "machine" /\ e.commit = {}
    BY <2>3 DEF Vacant
  <2> QED
    BY <2>3, <2>4 DEF EntrySound, Entry
<1> QED
  BY <1>2, <1>3, PutSound, Zenon

\* GetMy offers a slot without a machine.
LEMMA OfferFree ==
    ASSUME NEW c \in Config, TidIsSlot(c), NEW k \in Offer(c) \cap Slots
    PROVE  c[k].host = None
<1> DEFINE own == {i \in Listed(c) : c[i].kind = "machine" /\ c[i].tid = i}
           emptied == {i \in Listed(c) : c[i].kind = "emptied"}
<1>1. c[k].kind # "machine"
  <2>1. CASE emptied # {}
    BY <2>1 DEF Offer
  <2>2. CASE emptied = {}
    <3>1. PICK i \in own : k = i + 1 /\ \A j \in own : j <= i
      BY <2>2 DEF Offer
    <3>2. i \in Slots /\ i \in Nat /\ \A j \in 1..i : c[j].kind # "nil"
      BY <3>1, WorkstationsAssumption DEF Listed, Slots
    <3>3. ASSUME c[k].kind = "machine" PROVE FALSE
      <4>1. k \in Listed(c)
        <5>1. \A j \in 1..k : j \in 1..i \/ j = k
          BY <3>1, <3>2
        <5> QED
          BY <5>1, <3>2, <3>3 DEF Listed
      <4>2. c[k].tid = k
        BY <3>3 DEF TidIsSlot, Machines
      <4>3. k \in own
        BY <4>1, <4>2, <3>3
      <4> QED
        BY <4>3, <3>1, <3>2
    <3> QED
      BY <3>3
  <2> QED
    BY <2>1, <2>2
<1>2. c[k] \in Entry
  BY DEF Config
<1> QED
  BY <1>1, <1>2, EntryFields

\* An export names hosts of the list only.
LEMMA ExportTyped ==
    ASSUME NEW c \in Config
    PROVE  Exported(c) \in Dhcp
<1>1. \A k \in Machines(c) : c[k].host \in Hosts
  <2> SUFFICES ASSUME NEW k \in Machines(c) PROVE c[k].host \in Hosts
    OBVIOUS
  <2>1. c[k] \in Entry /\ c[k].kind = "machine"
    BY DEF Machines, Config
  <2> QED
    BY <2>1, EntryFields
<1>2. {c[k].host : k \in {j \in Machines(c) : c[j].enable}} \subseteq Hosts
  BY <1>1
<1>3. (\E k \in Machines(c) : ~c[k].enable) \in BOOLEAN
  OBVIOUS
<1> QED
  BY <1>2, <1>3 DEF Exported, Dhcp

-----------------------------------------------------------------------------
\* The three ways a step leaves its request.

JobsFine == job \in [Workers -> Job] /\ JobsSound

\* A request that ends leaves the requests sound.
LEMMA EndFine ==
    ASSUME IInv, NEW w \in Workers, End(w), first' = first
    PROVE  JobsFine'
<1>1. Bare("nil") \in Entry /\ EntrySound(first, Bare("nil"), 0)
  BY BareSound
<1>2. Nothing \in Config /\ Sound(first, Nothing)
  BY NothingSound
<1>3. Idle \in Job
  BY <1>1, <1>2, WorkstationsAssumption DEF Idle, Job, Steps
<1>4. Idle.cfg = Nothing /\ Idle.data = Bare("nil") /\ Idle.id = 0
  BY DEF Idle
<1>5. job' = [job EXCEPT ![w] = Idle] /\ job \in [Workers -> Job] /\ JobsSound
  BY DEF End, IInv, TypeOK
<1>6. job' \in [Workers -> Job]
  BY <1>3, <1>5
<1>7. \A v \in Workers : job'[v] = IF v = w THEN Idle ELSE job[v]
  BY <1>5
<1>8. JobsSound'
  BY <1>1, <1>2, <1>4, <1>5, <1>7 DEF JobsSound
<1> QED
  BY <1>6, <1>8 DEF JobsFine

\* So does one that goes on with a sound list,
LEMMA GotoFine ==
    ASSUME IInv, NEW w \in Workers, NEW step \in Steps, NEW c \in Config,
           Sound(first, c), Goto(w, step, c), first' = first
    PROVE  JobsFine'
<1> DEFINE r == [job[w] EXCEPT !.at = step, !.cfg = c]
<1>1. job \in [Workers -> Job] /\ JobsSound
  BY DEF IInv, TypeOK
<1>2. job[w] \in Job
  BY <1>1
<1>3. job' = [job EXCEPT ![w] = r]
  BY <1>1, Zenon DEF Goto
<1>4. r \in Job /\ r.cfg = c /\ r.data = job[w].data /\ r.id = job[w].id
  BY <1>2, Zenon DEF Job
<1> HIDE DEF r
<1>5. job' \in [Workers -> Job]
  BY <1>1, <1>3, <1>4
<1>6. \A v \in Workers : job'[v] = IF v = w THEN r ELSE job[v]
  BY <1>1, <1>3
<1>7. JobsSound'
  BY <1>1, <1>4, <1>6 DEF JobsSound
<1> QED
  BY <1>5, <1>7 DEF JobsFine

\* and so does a new one whose entry is sound.
LEMMA RequestFine ==
    ASSUME IInv, NEW w \in Workers, NEW op \in {"apply", "delete", "on", "off"},
           NEW k \in Slots, NEW e \in Entry, NEW marks \in SUBSET Images,
           EntrySound(first, e, k), Request(w, op, k, e, marks)
    PROVE  JobsFine'
<1> DEFINE r == [Idle EXCEPT !.at = "load", !.op = op, !.id = k, !.data = e,
                             !.marks = marks]
<1>1. job \in [Workers -> Job] /\ JobsSound
  BY DEF IInv, TypeOK
<1>2. Nothing \in Config /\ Sound(first, Nothing)
  BY NothingSound
<1>3. job' = [job EXCEPT ![w] = r] /\ first' = first
  BY DEF Request
<1>4. Idle \in Job /\ Idle.cfg = Nothing
  BY <1>2, BareSound, WorkstationsAssumption DEF Idle, Job, Steps
<1>5. k \in 0..MaxSlots
  BY WorkstationsAssumption DEF Slots
<1>6. r \in Job /\ r.cfg = Nothing /\ r.data = e /\ r.id = k
  BY <1>2, <1>4, <1>5, Zenon DEF Job, Steps
<1> HIDE DEF r
<1>7. job' \in [Workers -> Job]
  BY <1>1, <1>3, <1>6
<1>8. \A v \in Workers : job'[v] = IF v = w THEN r ELSE job[v]
  BY <1>1, <1>3
<1>9. JobsSound'
  BY <1>1, <1>2, <1>3, <1>6, <1>8 DEF JobsSound
<1> QED
  BY <1>7, <1>9 DEF JobsFine

-----------------------------------------------------------------------------
\* What the initial states and each kind of step do to the strengthening.

LEMMA InitHolds == Init => IInv
<1> SUFFICES ASSUME Init PROVE IInv
  OBVIOUS
<1>1. first \in Config /\ last = first /\ file \in Config \cup Unreadable
  BY WorkstationsAssumption DEF Init, Unreadable
<1>2. (file \in Config => file = first) /\ (file = Missing => first = Default)
  BY WorkstationsAssumption DEF Init, Unreadable
<1>3. Nothing \in Config /\ Sound(first, Nothing)
  BY NothingSound
<1>4. Bare("nil") \in Entry /\ EntrySound(first, Bare("nil"), 0)
  BY BareSound
<1>5. Sound(first, first)
  BY DEF Sound
<1>6. Idle \in Job /\ Idle.cfg = Nothing /\ Idle.data = Bare("nil") /\ Idle.id = 0
  BY <1>3, <1>4, WorkstationsAssumption DEF Idle, Job, Steps
<1>7. job \in [Workers -> Job] /\ JobsSound
  BY <1>3, <1>4, <1>6 DEF Init, JobsSound
<1>8. NoForm \in Form
  BY WorkstationsAssumption DEF NoForm, Form
<1>9. form \in [Browsers -> Form] /\ FormsSound /\ OfferIsFree
  BY <1>8 DEF Init, FormsSound, OfferIsFree, NoForm
<1>10. dhcp \in Dhcp
  BY <1>3, ExportTyped DEF Init
<1>11. seen \subseteq Slots /\ kills \in 0..MaxKills
  BY WorkstationsAssumption DEF Init
<1>12. settled \in BOOLEAN
  BY Zenon DEF Init
<1>13. TypeOK
  BY <1>1, <1>7, <1>9, <1>10, <1>11, <1>12 DEF TypeOK
<1> QED
  BY <1>1, <1>2, <1>5, <1>7, <1>9, <1>13 DEF IInv, FileSound

\* The file, when it can be read, is a sound list.
LEMMA ReadSound ==
    ASSUME IInv, Readable
    PROVE  file \in Config /\ Sound(first, file)
  BY DEF IInv, TypeOK, FileSound, Readable

\* Steps that change only requests.
LEMMA JobStep ==
    ASSUME IInv, JobsFine', UNCHANGED <<file, dhcp, form, seen, last, first, settled, kills>>
    PROVE  IInv'
  BY DEF IInv, TypeOK, JobsFine, FileSound, FormsSound, OfferIsFree

\* Steps that change only forms.
LEMMA FormStep ==
    ASSUME IInv, NEW b \in Browsers, NEW x \in Form,
           x = NoForm \/ x.tid \in Slots,
           MarkNeedsSuper(first) /\ x.commit # {} => x.supper,
           TidIsSlot(first) /\ x.add => x.was = None,
           form' = [form EXCEPT ![b] = x], first' = first
    PROVE  (form \in [Browsers -> Form] /\ FormsSound /\ OfferIsFree)'
<1>1. form \in [Browsers -> Form] /\ FormsSound /\ OfferIsFree
  BY DEF IInv, TypeOK
<1>2. \A a \in Browsers : form'[a] = IF a = b THEN x ELSE form[a]
  BY <1>1
<1>3. form' \in [Browsers -> Form]
  BY <1>1
<1>4. FormsSound'
  BY <1>1, <1>2 DEF FormsSound
<1>5. OfferIsFree'
  BY <1>1, <1>2 DEF OfferIsFree
<1> QED
  BY <1>3, <1>4, <1>5

\* A closed form.
LEMMA NoFormFine ==
    /\ NoForm \in Form /\ NoForm.commit = {} /\ NoForm.add = FALSE
    /\ NoForm.tid \notin Slots
  BY WorkstationsAssumption DEF NoForm, Form, Slots

\* A step that leaves the forms sound and changes nothing else.
LEMMA FormOnly ==
    ASSUME IInv, (form \in [Browsers -> Form] /\ FormsSound /\ OfferIsFree)',
           UNCHANGED <<file, dhcp, seen, job, last, first, settled, kills>>
    PROVE  IInv'
  BY DEF IInv, TypeOK, FileSound, JobsSound

\* A page shows tids that are slots.
LEMMA ViewStep == ASSUME IInv, NEW w \in Workers, View(w) PROVE IInv'
<1>1. file \in Config
  BY ReadSound DEF View, Reads
<1>2. \A k \in Machines(file) : file[k].tid \in Slots
  <2> SUFFICES ASSUME NEW k \in Machines(file) PROVE file[k].tid \in Slots
    OBVIOUS
  <2>1. file[k] \in Entry /\ file[k].kind = "machine"
    BY <1>1 DEF Machines, Config
  <2> QED
    BY <2>1, EntryFields
<1>3. seen' \subseteq Slots
  BY <1>2 DEF View, IInv, TypeOK
<1> QED
  BY <1>3 DEF View, IInv, TypeOK, FileSound, JobsSound, FormsSound, OfferIsFree

\* GetMy for a new machine: the slot is free.
LEMMA NewFormStep ==
    ASSUME IInv, NEW w \in Workers, NEW b \in Browsers, GetMy_New(w, b)
    PROVE  IInv'
<1>1. PICK k \in Offer(file) \cap Slots :
        form' = [form EXCEPT ![b] =
                   [add |-> TRUE, was |-> file[k].host, tid |-> k,
                    supper |-> FALSE, commit |-> {}]]
  BY Zenon DEF GetMy_New
<1> DEFINE x == [add |-> TRUE, was |-> file[k].host, tid |-> k,
                 supper |-> FALSE, commit |-> {}]
<1>2. file \in Config /\ Sound(first, file)
  BY ReadSound DEF GetMy_New, Reads
<1>3. file[k].host \in Hosts \cup {None}
  <2>1. file[k] \in Entry
    BY <1>2 DEF Config
  <2> QED
    BY <2>1, EntryFields
<1>4. x \in Form
  <2>1. k \in 0..MaxSlots
    BY WorkstationsAssumption DEF Slots
  <2> QED
    BY <1>3, <2>1 DEF Form
<1>5. TidIsSlot(first) => x.was = None
  BY <1>2, OfferFree DEF Sound
<1>6. x.tid \in Slots /\ x.commit = {}
  OBVIOUS
<1>7. form' = [form EXCEPT ![b] = x]
  BY <1>1
<1> HIDE DEF x
<1>8. (form \in [Browsers -> Form] /\ FormsSound /\ OfferIsFree)'
  BY <1>4, <1>5, <1>6, <1>7, FormStep, Zenon DEF GetMy_New
<1> QED
  BY <1>8, FormOnly DEF GetMy_New

\* GetMy for a machine: its form has what its slot has.
LEMMA ChangeFormStep ==
    ASSUME IInv, NEW w \in Workers, NEW b \in Browsers, NEW k \in Slots,
           GetMy(w, b, k)
    PROVE  IInv'
<1> DEFINE x == [add |-> FALSE, was |-> None, tid |-> file[k].tid,
                 supper |-> file[k].supper, commit |-> file[k].commit]
<1>1. file \in Config /\ Sound(first, file)
  BY ReadSound DEF GetMy, Reads
<1>2. file[k] \in Entry /\ file[k].kind = "machine"
  BY <1>1 DEF Config, GetMy
<1>3. file[k].tid \in Slots /\ file[k].supper \in BOOLEAN
        /\ file[k].commit \in SUBSET Images
  BY <1>2, EntryFields
<1>4. file[k].tid \in 0..MaxSlots
  BY <1>3, WorkstationsAssumption DEF Slots
<1>5. x \in Form
  BY <1>3, <1>4 DEF Form
<1>6. MarkNeedsSuper(first) /\ x.commit # {} => x.supper
  BY <1>1 DEF Sound, MarkNeedsSuper
<1>7. x.tid \in Slots /\ x.add = FALSE
  BY <1>3
<1>8. form' = [form EXCEPT ![b] = x]
  BY DEF GetMy
<1> HIDE DEF x
<1>9. (form \in [Browsers -> Form] /\ FormsSound /\ OfferIsFree)'
  BY <1>5, <1>6, <1>7, <1>8, FormStep, Zenon DEF GetMy
<1> QED
  BY <1>9, FormOnly DEF GetMy

\* Closing a form.
LEMMA CloseFormStep ==
    ASSUME IInv, NEW b \in Browsers, CloseForm(b) PROVE IInv'
<1>1. (form \in [Browsers -> Form] /\ FormsSound /\ OfferIsFree)'
  BY NoFormFine, FormStep, Zenon DEF CloseForm
<1> QED
  BY <1>1, FormOnly DEF CloseForm

\* Sending a form: what it stores is sound in the slot it is for.
LEMMA ApplyStep ==
    ASSUME IInv, NEW w \in Workers, NEW b \in Browsers, NEW h \in Hosts,
           NEW on \in BOOLEAN, ApplyMy(w, b, h, on)
    PROVE  IInv'
<1> DEFINE k == form[b].tid
           e == [Machine(h, k, on) EXCEPT !.supper = form[b].supper,
                                          !.commit = form[b].commit]
<1>1. form[b] \in Form /\ k \in Slots
        /\ (MarkNeedsSuper(first) /\ form[b].commit # {} => form[b].supper)
  BY DEF IInv, TypeOK, FormsSound, ApplyMy
<1>2. e \in Occupied
  BY <1>1, Zenon DEF Machine, Form, Occupied
<1>3. e \in Entry
  BY <1>2 DEF Entry
<1>4. e.tid = k /\ e.supper = form[b].supper /\ e.commit = form[b].commit
  BY DEF Machine
<1>5. EntrySound(first, e, k)
  BY <1>1, <1>4 DEF EntrySound
<1>6. Request(w, "apply", k, e, {}) /\ form' = [form EXCEPT ![b] = NoForm]
  BY DEF ApplyMy
<1> HIDE DEF e, k
<1>6a. "apply" \in {"apply", "delete", "on", "off"}
  OBVIOUS
<1>6b. {} \in SUBSET Images
  OBVIOUS
<1>7. JobsFine'
  BY <1>1, <1>3, <1>5, <1>6, <1>6a, <1>6b, RequestFine, Zenon
<1>8. UNCHANGED <<file, dhcp, seen, last, first, settled, kills>>
  BY <1>6 DEF Request
<1>9. (form \in [Browsers -> Form] /\ FormsSound /\ OfferIsFree)'
  BY <1>6, <1>8, NoFormFine, FormStep, Zenon
<1> QED
  BY <1>7, <1>8, <1>9 DEF IInv, TypeOK, JobsFine, FileSound

\* The requests of the menu.
LEMMA MenuStep ==
    ASSUME IInv, NEW w \in Workers, NEW k \in Slots, NEW marks \in SUBSET Images,
           DeleteMachine(w, k) \/ SupperOn(w, k, marks) \/ SupperOff(w, k)
    PROVE  IInv'
<1>1. PICK op \in {"delete", "on", "off"}, x \in {"nil", "emptied"},
           m \in SUBSET Images : Request(w, op, k, Bare(x), m) /\ form' = form
  BY DEF DeleteMachine, SupperOn, SupperOff
<1>2. Bare(x) \in Entry /\ EntrySound(first, Bare(x), k)
  BY BareSound
<1>3. JobsFine'
  BY <1>1, <1>2, RequestFine
<1> QED
  BY <1>1, <1>3, JobStep DEF Request

\* Only a list that began as that of cfg.lua finds no file.
LEMMA SaveDefaultStep == ASSUME IInv, NEW w \in Workers, SaveDefault(w) PROVE IInv'
<1> DEFINE r == [Idle EXCEPT !.at = "open", !.op = "default", !.cfg = Default]
<1>1. job \in [Workers -> Job] /\ JobsSound /\ first = Default
  BY DEF IInv, TypeOK, FileSound, SaveDefault
<1>2. Bare("nil") \in Entry /\ EntrySound(first, Bare("nil"), 0)
  BY BareSound
<1>3. Default \in Config /\ Sound(first, Default)
  BY <1>1, WorkstationsAssumption DEF Sound
<1>3a. Nothing \in Config /\ 0 \in 0..MaxSlots
  BY NothingSound, WorkstationsAssumption
<1>4. Idle \in Job /\ Idle.data = Bare("nil") /\ Idle.id = 0
  BY <1>2, <1>3a DEF Idle, Job, Steps
<1>5. r \in Job /\ r.cfg = Default /\ r.data = Bare("nil") /\ r.id = 0
  BY <1>3, <1>4, Zenon DEF Job, Steps
<1>6. job' = [job EXCEPT ![w] = r] /\ first' = first
  BY DEF SaveDefault
<1> HIDE DEF r
<1>7. job' \in [Workers -> Job]
  BY <1>1, <1>5, <1>6
<1>8. \A v \in Workers : job'[v] = IF v = w THEN r ELSE job[v]
  BY <1>1, <1>6
<1>9. JobsSound'
  BY <1>1, <1>2, <1>3, <1>5, <1>6, <1>8 DEF JobsSound
<1> QED
  BY <1>7, <1>9, JobStep DEF JobsFine, SaveDefault

-----------------------------------------------------------------------------
\* The steps of a request.

LEMMA LoadStep == ASSUME IInv, NEW w \in Workers, Load(w) PROVE IInv'
<1> DEFINE k == job[w].id
           d == job[w].data
<1>1. job[w] \in Job /\ EntrySound(first, d, k) /\ d \in Entry
  BY DEF IInv, TypeOK, JobsSound, Job
<1>2. UNCHANGED <<file, dhcp, form, seen, last, first, settled, kills>>
  BY DEF Load
<1>3. CASE End(w)
  BY <1>2, <1>3, EndFine, JobStep
<1>4. CASE Readable /\ Goto(w, "open", Stored(file, k, d))
  <2>1. Stored(file, k, d) \in Config /\ Sound(first, Stored(file, k, d))
    BY <1>1, <1>4, ReadSound, PutSound, Zenon DEF Stored
  <2> QED
    BY <1>2, <1>4, <2>1, GotoFine, JobStep DEF Steps
<1>5. CASE Readable /\ Goto(w, "open", Emptied(file, k))
  <2>1. Emptied(file, k) \in Config /\ Sound(first, Emptied(file, k))
    BY <1>5, ReadSound, EmptiedSound
  <2> QED
    BY <1>2, <1>5, <2>1, GotoFine, JobStep DEF Steps
<1>6. CASE Readable /\ Goto(w, "reload", file)
  BY <1>2, <1>6, ReadSound, GotoFine, JobStep DEF Steps
<1> QED
  BY <1>3, <1>4, <1>5, <1>6 DEF Load

\* The second load of a super mode request.
LEMMA ReloadStep == ASSUME IInv, NEW w \in Workers, Reload(w) PROVE IInv'
<1> DEFINE k == job[w].id
           d == [file EXCEPT ![k] = SetSupper(@, job[w].op, job[w].marks)]
<1>1. job[w] \in Job /\ job[w].marks \in SUBSET Images
  BY DEF IInv, TypeOK, Job
<1>2. UNCHANGED <<file, dhcp, form, seen, last, first, settled, kills>>
  BY DEF Reload
<1>3. CASE End(w)
  BY <1>2, <1>3, EndFine, JobStep
<1>4. CASE Readable /\ Switchable(file[k], job[w].op, job[w].marks)
           /\ Goto(w, "open", d)
  <2>1. file \in Config /\ Sound(first, file)
    BY <1>4, ReadSound
  <2>2. d \in Config /\ Sound(first, d)
    <3>1. CASE k \in Slots
      BY <3>1, <1>1, <1>4, <2>1, SwitchSound
    <3>2. CASE k \notin Slots
      <4>1. d = file
        BY <3>2, <2>1 DEF Config
      <4> QED
        BY <4>1, <2>1
    <3> QED
      BY <3>1, <3>2
  <2> HIDE DEF d
  <2> QED
    BY <1>2, <1>4, <2>2, GotoFine, JobStep DEF Steps
<1> QED
  BY <1>3, <1>4 DEF Reload

\* A request is answered or fails: the requests stay sound, and the ghost a
\* Boolean.
LEMMA AnswerFine ==
    ASSUME IInv, NEW w \in Workers, Answer(w) \/ Fail(w), first' = first
    PROVE  JobsFine' /\ settled' \in BOOLEAN
<1>1. End(w)
  BY DEF Answer, Fail
<1>2. settled' \in BOOLEAN
  BY Zenon DEF Answer, Fail
<1> QED
  BY <1>1, <1>2, EndFine

\* Emptying the file takes nothing from what was saved.
LEMMA OpenStep == ASSUME IInv, NEW w \in Workers, Open(w) PROVE IInv'
<1>1. job[w].cfg \in Config /\ Sound(first, job[w].cfg)
  BY DEF IInv, TypeOK, JobsSound, Job
<1>2. UNCHANGED <<dhcp, form, seen, last, first, settled, kills>>
  BY DEF Open
<1>3. CASE file' = Truncated /\ Goto(w, "write", job[w].cfg)
  <2>1. JobsFine'
    BY <1>1, <1>2, <1>3, GotoFine DEF Steps
  <2>2. file' \notin Config /\ file' # Missing /\ file' \in Unreadable
    BY <1>3, WorkstationsAssumption DEF Unreadable
  <2> QED
    BY <1>2, <2>1, <2>2 DEF IInv, TypeOK, JobsFine, FileSound, FormsSound, OfferIsFree
<1>4. CASE file' = file /\ End(w)
  BY <1>2, <1>4, EndFine, JobStep
<1> QED
  BY <1>3, <1>4 DEF Open

\* What is written is the request's list or cannot be read.
LEMMA WriteStep == ASSUME IInv, NEW w \in Workers, Write(w) PROVE IInv'
<1> DEFINE c == job[w].cfg
<1>1. c \in Config /\ Sound(first, c)
  BY DEF IInv, TypeOK, JobsSound, Job
<1>2. first' = first
  BY DEF Write
<1>3. JobsFine' /\ settled' \in BOOLEAN
  <2>1. CASE Goto(w, "export", c) /\ settled' = settled
    BY <1>1, <1>2, <2>1, GotoFine DEF Steps, IInv, TypeOK
  <2>2. CASE Answer(w)
    BY <1>2, <2>2, AnswerFine
  <2> QED
    BY <2>1, <2>2 DEF Write
<1>4. file' = c \/ file' = Garbled
  BY DEF Write, Written
<1>5. file' # Missing /\ file' \in Config \cup Unreadable
        /\ (file' \in Config => file' = c)
  BY <1>1, <1>4, WorkstationsAssumption DEF Unreadable
<1>6. last' = c \/ last' = last
  BY DEF Write
<1>7. last' \in Config /\ Sound(first, last')
  BY <1>1, <1>6 DEF IInv, TypeOK
<1>8. FileSound'
  BY <1>1, <1>2, <1>5 DEF FileSound
<1>9. UNCHANGED <<dhcp, form, seen, first, kills>>
  BY DEF Write
<1> QED
  BY <1>3, <1>5, <1>7, <1>8, <1>9, Zenon
  DEF IInv, TypeOK, JobsFine, FormsSound, OfferIsFree

\* What is cut cannot be read either.
LEMMA WriteCutStep == ASSUME IInv, NEW w \in Workers, WriteCut(w) PROVE IInv'
<1>1. UNCHANGED <<dhcp, form, seen, last, first, kills>> /\ settled' = FALSE
  BY DEF WriteCut
<1>2. JobsFine'
  <2>1. CASE End(w)
    BY <1>1, <2>1, EndFine
  <2>2. CASE job' = [job EXCEPT ![w].at = "export", ![w].op = "none"]
    <3> DEFINE r == [job[w] EXCEPT !.at = "export", !.op = "none"]
    <3>1. job \in [Workers -> Job] /\ JobsSound
      BY DEF IInv, TypeOK
    <3>2. job[w] \in Job
      BY <3>1
    <3>3. job' = [job EXCEPT ![w] = r]
      BY <2>2, <3>1, Zenon
    <3>4. r \in Job /\ r.cfg = job[w].cfg /\ r.data = job[w].data /\ r.id = job[w].id
      BY <3>2, Zenon DEF Job, Steps
    <3> HIDE DEF r
    <3>5. job' \in [Workers -> Job] /\ \A v \in Workers : job'[v] = IF v = w THEN r ELSE job[v]
      BY <3>1, <3>3, <3>4
    <3>6. JobsSound'
      BY <1>1, <3>1, <3>4, <3>5 DEF JobsSound
    <3> QED
      BY <3>5, <3>6 DEF JobsFine
  <2> QED
    BY <2>1, <2>2 DEF WriteCut
<1>3. file' \notin Config /\ file' # Missing /\ file' \in Unreadable
  BY WorkstationsAssumption DEF WriteCut, Unreadable
<1> QED
  BY <1>1, <1>2, <1>3 DEF IInv, TypeOK, JobsFine, FileSound, FormsSound, OfferIsFree

\* The export changes only dhcpd.conf.
LEMMA ExportStep ==
    ASSUME IInv, NEW w \in Workers, ExportDHCP(w) \/ ExportClose(w) \/ ExportCut(w)
    PROVE  IInv'
<1>1. job[w].cfg \in Config /\ Sound(first, job[w].cfg) /\ dhcp \in Dhcp
  BY DEF IInv, TypeOK, JobsSound, Job
<1>2. dhcp' \in Dhcp /\ JobsFine' /\ settled' \in BOOLEAN
  <2>1. CASE ExportDHCP(w)
    <3>1. dhcp' \in Dhcp /\ settled' \in BOOLEAN
      BY <2>1 DEF ExportDHCP, Dhcp, IInv, TypeOK
    <3>2. JobsFine'
      BY <1>1, <2>1, GotoFine DEF ExportDHCP, Steps
    <3> QED
      BY <3>1, <3>2
  <2>2. CASE ExportClose(w)
    <3>1. dhcp' \in Dhcp
      BY <1>1, <2>2, ExportTyped DEF ExportClose
    <3>2. JobsFine' /\ settled' \in BOOLEAN
      BY <2>2, AnswerFine DEF ExportClose
    <3> QED
      BY <3>1, <3>2
  <2>3. CASE ExportCut(w)
    BY <1>1, <2>3, AnswerFine DEF ExportCut
  <2> QED
    BY <2>1, <2>2, <2>3
<1>3. UNCHANGED <<file, form, seen, last, first, kills>>
  BY DEF ExportDHCP, ExportClose, ExportCut
<1> QED
  BY <1>2, <1>3 DEF IInv, TypeOK, JobsFine, FileSound, FormsSound, OfferIsFree

\* Cutting a request short leaves what it has written.
LEMMA KillStep == ASSUME IInv, NEW w \in Workers, Kill(w) PROVE IInv'
<1>1. JobsFine'
  BY EndFine DEF Kill
<1>2. kills' \in 0..MaxKills
  BY WorkstationsAssumption DEF Kill, IInv, TypeOK
<1>3. settled' \in BOOLEAN
  BY Zenon DEF Kill
<1> QED
  BY <1>1, <1>2, <1>3
  DEF Kill, IInv, TypeOK, JobsFine, FileSound, FormsSound, OfferIsFree

-----------------------------------------------------------------------------
\* Every step keeps the strengthening.
LEMMA NextKeeps == IInv /\ [Next]_vars => IInv'
<1> SUFFICES ASSUME IInv, [Next]_vars PROVE IInv'
  OBVIOUS
<1>1. CASE UNCHANGED vars
  BY <1>1, Zenon DEF vars, IInv, TypeOK, FileSound, JobsSound, FormsSound, OfferIsFree
<1>2. ASSUME NEW w \in Workers, Run(w) PROVE IInv'
  BY <1>2, LoadStep, ReloadStep, OpenStep, WriteStep, WriteCutStep, ExportStep DEF Run
<1>3. ASSUME NEW w \in Workers, Ask(w) PROVE IInv'
  <2>1. CASE View(w)
    BY <2>1, ViewStep
  <2>2. CASE SaveDefault(w)
    BY <2>2, SaveDefaultStep
  <2>3. CASE \E b \in Browsers : GetMy_New(w, b)
    BY <2>3, NewFormStep
  <2>4. CASE \E b \in Browsers, k \in Slots : GetMy(w, b, k)
    BY <2>4, ChangeFormStep
  <2>5. CASE \E b \in Browsers, h \in Hosts, on \in BOOLEAN : ApplyMy(w, b, h, on)
    BY <2>5, ApplyStep
  <2>6. CASE \E k \in Slots : DeleteMachine(w, k) \/ SupperOff(w, k)
    <3>1. {} \in SUBSET Images
      OBVIOUS
    <3> QED
      BY <2>6, <3>1, MenuStep
  <2>7. CASE \E k \in Slots, marks \in SUBSET Images : SupperOn(w, k, marks)
    BY <2>7, MenuStep
  <2> QED
    BY <1>3, <2>1, <2>2, <2>3, <2>4, <2>5, <2>6, <2>7 DEF Ask
<1>4. ASSUME NEW w \in Workers, Kill(w) PROVE IInv'
  BY <1>4, KillStep
<1>5. ASSUME NEW b \in Browsers, CloseForm(b) PROVE IInv'
  BY <1>5, CloseFormStep
<1> QED
  BY <1>1, <1>2, <1>3, <1>4, <1>5 DEF Next

\* So it holds in every state.
LEMMA Invariance == Spec => []IInv
  BY InitHolds, NextKeeps, PTL DEF Spec

\* The variables keep their types: DeleteMachine leaves nothing of a machine
\* behind, and dhcpd.conf names only hosts that were entered.
THEOREM TypeCorrect == Spec => []TypeOK
<1>1. IInv => TypeOK
  BY DEF IInv
<1> QED
  BY <1>1, Invariance, PTL

\* However many requests overlap and whichever are cut short, from a list whose
\* tids are its slots only such lists are saved.
THEOREM TidsStaySlots == Spec => []TidsAreSlots
<1>1. IInv => TidsAreSlots
  BY DEF IInv, Sound, TidsAreSlots
<1> QED
  BY <1>1, Invariance, PTL

\* However many forms are open, one for a new machine was made for a slot that
\* held none.
THEOREM NewSlotIsFree == Spec => []OfferIsFree
<1>1. IInv => OfferIsFree
  BY DEF IInv
<1> QED
  BY <1>1, Invariance, PTL

\* However many workers switch and store modes at once, an image that is saved
\* as marked for commit belongs to a machine that is saved in super mode.
THEOREM MarksStayInSuper == Spec => []MarkedInSuper
<1>1. IInv => MarkedInSuper
  BY DEF IInv, Sound, MarkedInSuper
<1> QED
  BY <1>1, Invariance, PTL

-----------------------------------------------------------------------------
\* One worker: a save is of one slot, and between requests the file and
\* dhcpd.conf agree.

OneWorker == \E w \in Workers : Workers = {w}

\* A list without holes in which the tid of every machine is a slot in use;
\* a slot in use, or the one after.
Tight(c) == ~Hole(c) /\ \A k \in Machines(c) : c[k].tid \in Listed(c)
Fits(c, t) == t \in Slots /\ \A j \in Slots : j < t => c[j].kind # "nil"

\* The lists that the server may begin with.
BeginsTight == Tight(Default) /\ \A c \in Installed \ {Missing} : Tight(c)

\* The file is what was saved last, if it is a list at all.
Latest == /\ file \in Config => file = last
          /\ file = Missing => last = Default

\* A request about to save has changed one slot.
OneEdit ==
    \A w \in Workers : job[w].at \in {"open", "write"} =>
        \A j \in Slots : j # job[w].id => job[w].cfg[j] = last[j]

\* What is saved, and what a form or a request will save, is tight.
FormsFit == \A b \in Browsers : form[b] = NoForm \/ Fits(last, form[b].tid)
JobsFit ==
    \A w \in Workers :
        /\ job[w].at = "load" /\ job[w].op = "apply" =>
             /\ Fits(last, job[w].id)
             /\ job[w].data.kind = "machine" /\ job[w].data.tid = job[w].id
        /\ job[w].at \in {"open", "write"} =>
             /\ Tight(job[w].cfg)
             /\ \A j \in Slots : last[j].kind # "nil" => job[w].cfg[j].kind # "nil"

\* dhcpd.conf has the enabled machines of the list saved last.
HostsOf(c) == {c[k].host : k \in {j \in Machines(c) : c[j].enable}}
Served == dhcp.whole /\ HostsOf(last) \subseteq dhcp.hosts

\* Where the files are at each step of a request.
Before == {"idle", "load", "reload", "open"}
Calm ==
    \A w \in Workers :
        /\ settled /\ job[w].at \in Before => file = last /\ Served
        /\ settled /\ job[w].at = "write" => Served
        /\ settled /\ job[w].at \in {"open", "write"} /\ job[w].op # "apply" =>
             HostsOf(job[w].cfg) \subseteq HostsOf(last)
        /\ job[w].at = "write" => file = Truncated
        /\ job[w].at \in {"export", "close"} =>
             IF job[w].op = "apply" THEN file = last /\ job[w].cfg = last ELSE ~settled
        /\ job[w].at = "close" => dhcp.by = w

Editing == OneWorker /\ IInv /\ Latest /\ OneEdit
Order == Tight(last) /\ FormsFit /\ JobsFit /\ Calm
Orderly == Editing /\ Order

(* What the steps that edit do to a tight list *)

\* In a tight list a machine's tid is a slot that can be filled,
LEMMA TidFits ==
    ASSUME NEW c \in Config, Tight(c), NEW k \in Machines(c)
    PROVE  Fits(c, c[k].tid)
<1>1. c[k].tid \in Listed(c)
  BY DEF Tight
<1> QED
  BY <1>1, WorkstationsAssumption DEF Listed, Fits, Slots

\* and so is the slot that GetMy offers.
LEMMA OfferFits ==
    ASSUME NEW c \in Config, NEW k \in Offer(c) \cap Slots
    PROVE  Fits(c, k)
<1> DEFINE own == {i \in Listed(c) : c[i].kind = "machine" /\ c[i].tid = i}
           emptied == {i \in Listed(c) : c[i].kind = "emptied"}
<1>1. k \in Listed(c) \/ \E i \in Listed(c) : k = i + 1
  <2>1. CASE emptied # {}
    BY <2>1 DEF Offer
  <2>2. CASE emptied = {}
    BY <2>2 DEF Offer
  <2> QED
    BY <2>1, <2>2
<1> QED
  BY <1>1, WorkstationsAssumption DEF Listed, Fits, Slots

\* A machine stored in such a slot keeps the list tight.
LEMMA PutTight ==
    ASSUME NEW c \in Config, Tight(c), NEW k, Fits(c, k), NEW e \in Entry,
           e.kind = "machine", e.tid = k
    PROVE  Tight([c EXCEPT ![k] = e])
<1> DEFINE d == [c EXCEPT ![k] = e]
<1>1. k \in Slots /\ \A j \in Slots : d[j] = IF j = k THEN e ELSE c[j]
  BY DEF Config, Fits
<1> HIDE DEF d
<1>2. \A j \in Slots : c[j].kind # "nil" => d[j].kind # "nil"
  BY <1>1
<1>3. \A i \in Slots : \A j \in 1..i : j \in Slots
  BY WorkstationsAssumption DEF Slots
<1>4. Listed(c) \subseteq Listed(d)
  BY <1>2, <1>3 DEF Listed
<1>5. k \in Listed(d)
  <2>1. \A j \in 1..k : j \in Slots /\ (j < k \/ j = k)
    BY <1>1, WorkstationsAssumption DEF Slots
  <2>2. \A j \in 1..k : d[j].kind # "nil"
    BY <1>1, <1>2, <2>1 DEF Fits
  <2> QED
    BY <1>1, <2>2 DEF Listed
<1>6. ~Hole(d)
  BY <1>1, <1>4, <1>5 DEF Hole, Tight
<1>7. \A j \in Machines(d) : d[j].tid \in Listed(d)
  BY <1>1, <1>4, <1>5 DEF Machines, Tight
<1> QED
  BY <1>6, <1>7, Zenon DEF Tight, d

\* So does a change that leaves every machine its tid and every slot in use.
LEMMA KeptTight ==
    ASSUME NEW c \in Config, NEW d \in Config, Tight(c),
           \A j \in Slots : /\ c[j].kind = "nil" <=> d[j].kind = "nil"
                            /\ d[j].kind = "machine" =>
                                 c[j].kind = "machine" /\ d[j].tid = c[j].tid
    PROVE  Tight(d)
<1>1. \A i \in Slots : \A j \in 1..i : j \in Slots
  BY WorkstationsAssumption DEF Slots
<1>2. Listed(c) = Listed(d)
  BY <1>1 DEF Listed
<1> QED
  BY <1>2 DEF Tight, Hole, Machines

\* So does a slot that is emptied; it takes no host away but its own.
LEMMA EmptiedTight ==
    ASSUME NEW c \in Config, NEW k \in Slots
    PROVE  LET d == Emptied(c, k)
           IN  /\ \A j \in Slots : c[j].kind # "nil" => d[j].kind # "nil"
               /\ Tight(c) => Tight(d)
               /\ HostsOf(d) \subseteq HostsOf(c)
<1> DEFINE d == Emptied(c, k)
<1>1. Bare("emptied").kind = "emptied" /\ Bare("emptied") \in Entry
  BY BareSound, Zenon DEF Bare
<1>2. d \in Config /\ \A j \in Slots : j # k => d[j] = c[j]
  BY <1>1 DEF Emptied, Config
<1>3. d[k] = c[k] \/ (d[k].kind = "emptied" /\ c[k].tid = k)
  BY <1>1 DEF Emptied, Config
<1>4. c[k].tid = k => c[k].kind = "machine"
  BY EntryFields, WorkstationsAssumption DEF Config, Slots
<1> HIDE DEF d
<1>5. \A j \in Slots : /\ c[j].kind = "nil" <=> d[j].kind = "nil"
                       /\ d[j].kind = "machine" => d[j] = c[j]
  BY <1>2, <1>3, <1>4
<1>6. Tight(c) => Tight(d)
  BY <1>2, <1>5, KeptTight
<1>7. HostsOf(d) \subseteq HostsOf(c)
  BY <1>5 DEF HostsOf, Machines
<1> QED
  BY <1>5, <1>6, <1>7 DEF d

\* So does a change of the mode or of the marks,
LEMMA SameTight ==
    ASSUME NEW c \in Config, NEW d \in Config,
           \A j \in Slots : /\ d[j].kind = c[j].kind /\ d[j].tid = c[j].tid
                            /\ d[j].host = c[j].host /\ d[j].enable = c[j].enable
    PROVE  /\ \A j \in Slots : c[j].kind # "nil" => d[j].kind # "nil"
           /\ Tight(c) => Tight(d)
           /\ HostsOf(d) \subseteq HostsOf(c)
<1>1. Tight(c) => Tight(d)
  BY KeptTight
<1>2. HostsOf(d) \subseteq HostsOf(c)
  BY DEF HostsOf, Machines
<1> QED
  BY <1>1, <1>2

\* which is what SetSupper makes.
LEMMA SwitchTight ==
    ASSUME NEW c \in Config, NEW k \in Slots, NEW op, NEW marks \in SUBSET Images,
           Switchable(c[k], op, marks),
           NEW d, d = [c EXCEPT ![k] = SetSupper(@, op, marks)]
    PROVE  /\ \A j \in Slots : c[j].kind # "nil" => d[j].kind # "nil"
           /\ Tight(c) => Tight(d)
           /\ HostsOf(d) \subseteq HostsOf(c)
<1> DEFINE e == SetSupper(c[k], op, marks)
<1>1. c[k] \in Entry
  BY DEF Config
<1>2. e.kind = c[k].kind /\ e.tid = c[k].tid /\ e.host = c[k].host /\ e.enable = c[k].enable
  <2>1. CASE c[k] \in Vacant
    BY <2>1 DEF SetSupper, Vacant
  <2>2. CASE c[k] \in Occupied
    BY <2>2 DEF SetSupper, Occupied
  <2> QED
    BY <1>1, <2>1, <2>2 DEF Entry
<1>3. d \in Config
  <2>1. Sound(c, c)
    BY DEF Sound
  <2> QED
    BY <2>1, SwitchSound, Zenon
<1> HIDE DEF e
<1>4. \A j \in Slots : d[j] = IF j = k THEN e ELSE c[j]
  BY DEF Config, e
<1>5. \A j \in Slots : /\ d[j].kind = c[j].kind /\ d[j].tid = c[j].tid
                       /\ d[j].host = c[j].host /\ d[j].enable = c[j].enable
  BY <1>2, <1>4
<1> QED
  BY <1>3, <1>5, SameTight, Zenon

-----------------------------------------------------------------------------
(* What becomes of the only request *)

\* With one worker every worker is the one that took the step.
LEMMA Only == ASSUME OneWorker, NEW w \in Workers PROVE \A v \in Workers : v = w
  BY DEF OneWorker

\* A request ends.
LEMMA EndJob ==
    ASSUME IInv, NEW w \in Workers, End(w)
    PROVE  job'[w] = Idle /\ job'[w].at = "idle"
  BY Zenon DEF IInv, TypeOK, End, Idle

\* A request goes on to another step.
LEMMA GotoJob ==
    ASSUME IInv, NEW w \in Workers, NEW step, NEW c, Goto(w, step, c)
    PROVE  /\ job'[w].at = step /\ job'[w].cfg = c
           /\ job'[w].id = job[w].id /\ job'[w].op = job[w].op
           /\ job'[w].data = job[w].data
<1>1. job \in [Workers -> Job] /\ job[w] \in Job
  BY DEF IInv, TypeOK
<1>2. job'[w] = [job[w] EXCEPT !.at = step, !.cfg = c]
  BY <1>1, Zenon DEF Goto
<1> QED
  BY <1>1, <1>2 DEF Job

\* A request whose save was cut ends or goes on, and is then no longer one to
\* apply.
LEMMA CutJob ==
    ASSUME IInv, NEW w \in Workers, WriteCut(w)
    PROVE  job'[w].at = "idle" \/ (job'[w].at = "export" /\ job'[w].op = "none")
<1>1. CASE End(w)
  BY <1>1, EndJob
<1>2. CASE job' = [job EXCEPT ![w].at = "export", ![w].op = "none"]
  <2>1. job \in [Workers -> Job] /\ job[w] \in Job
    BY DEF IInv, TypeOK
  <2>2. job'[w] = [job[w] EXCEPT !.at = "export", !.op = "none"]
    BY <1>2, <2>1, Zenon
  <2> QED
    BY <2>1, <2>2 DEF Job
<1> QED
  BY <1>1, <1>2 DEF WriteCut

\* A request begins.
LEMMA RequestJob ==
    ASSUME IInv, NEW w \in Workers, NEW op, NEW k, NEW e, NEW marks,
           Request(w, op, k, e, marks)
    PROVE  /\ job'[w].at = "load" /\ job'[w].op = op /\ job'[w].id = k
           /\ job'[w].data = e
           /\ job[w] = Idle /\ file # Missing
  BY DEF IInv, TypeOK, Request, Idle

LEMMA IdleAt == Idle.at = "idle"
  BY DEF Idle

\* The defaults are about to be saved.
LEMMA DefaultJob ==
    ASSUME IInv, NEW w \in Workers, SaveDefault(w)
    PROVE  /\ job'[w].at = "open" /\ job'[w].op = "default" /\ job'[w].id = 0
           /\ job'[w].cfg = Default
           /\ job[w] = Idle /\ file = Missing
  BY DEF IInv, TypeOK, SaveDefault, Idle

\* A file that can be read is the list saved last.
LEMMA ReadLatest ==
    ASSUME Editing, Readable
    PROVE  file = last /\ file \in Config
  BY ReadSound DEF Editing, Latest

\* The menu's requests.
LEMMA MenuRequest ==
    ASSUME NEW w, NEW k, NEW marks,
           DeleteMachine(w, k) \/ SupperOn(w, k, marks) \/ SupperOff(w, k)
    PROVE  \E op \in {"delete", "on", "off"}, x \in {"nil", "emptied"} : \E m :
             Request(w, op, k, Bare(x), m) /\ form' = form
  BY DEF DeleteMachine, SupperOn, SupperOff

\* Besides its own steps, a worker does three things: it shows a page, it takes
\* a request, and it begins to save the list of cfg.lua.
LEMMA AskKinds ==
    ASSUME NEW w, Ask(w)
    PROVE  \/ UNCHANGED <<file, dhcp, job, last, first, settled, kills>>
           \/ SaveDefault(w)
           \/ \E op \in {"apply", "delete", "on", "off"} : \E k, e, m : Request(w, op, k, e, m)
<1>1. CASE View(w)
  BY <1>1 DEF View
<1>2. CASE \E b \in Browsers : GetMy_New(w, b)
  BY <1>2 DEF GetMy_New
<1>3. CASE \E b \in Browsers, k \in Slots : GetMy(w, b, k)
  BY <1>3, Zenon DEF GetMy
<1>4. CASE \E b \in Browsers, h \in Hosts, on \in BOOLEAN : ApplyMy(w, b, h, on)
  BY <1>4, Zenon DEF ApplyMy
<1>5. CASE \E k \in Slots : DeleteMachine(w, k) \/ SupperOff(w, k)
  <2>1. PICK k \in Slots : DeleteMachine(w, k) \/ SupperOff(w, k)
    BY <1>5
  <2>2. \E op \in {"delete", "on", "off"} : \E e, m : Request(w, op, k, e, m)
    BY <2>1 DEF DeleteMachine, SupperOff
  <2> QED
    BY <2>2, Zenon
<1>6. CASE \E k \in Slots, marks \in SUBSET Images : SupperOn(w, k, marks)
  <2>1. PICK k \in Slots, marks \in SUBSET Images : SupperOn(w, k, marks)
    BY <1>6
  <2>2. \E op \in {"delete", "on", "off"} : \E e, m : Request(w, op, k, e, m)
    BY <2>1 DEF SupperOn
  <2> QED
    BY <2>2, Zenon
<1> QED
  BY <1>1, <1>2, <1>3, <1>4, <1>5, <1>6, Zenon DEF Ask

-----------------------------------------------------------------------------
\* A save is of one slot.

LEMMA InitEditing == ASSUME OneWorker, Init PROVE Editing
<1>1. IInv
  BY InitHolds
<1>2. Latest
  BY WorkstationsAssumption DEF Init, Latest, Unreadable
<1>3. OneEdit
  BY DEF Init, OneEdit, Idle
<1> QED
  BY <1>1, <1>2, <1>3 DEF Editing

\* What is read from the file and edited differs from it in one slot.
LEMMA LoadEdits ==
    ASSUME Editing, NEW w \in Workers, Load(w) \/ Reload(w)
    PROVE  Latest' /\ OneEdit'
<1>1. IInv /\ OneWorker /\ job[w] \in Job /\ job[w].id \in 0..MaxSlots
        /\ job[w].marks \in SUBSET Images
  BY DEF Editing, IInv, TypeOK, Job
<1>2. UNCHANGED <<file, last>>
  BY DEF Load, Reload
<1>3. Latest'
  BY <1>2 DEF Editing, Latest
<1>4. ASSUME NEW c, Readable, Goto(w, "open", c), \A j \in Slots : j # job[w].id => c[j] = file[j]
      PROVE  OneEdit'
  <2>1. file = last
    BY <1>4, ReadLatest
  <2>2. job'[w].cfg = c /\ job'[w].id = job[w].id
    BY <1>1, <1>4, GotoJob
  <2> QED
    BY <1>1, <1>2, <1>4, <2>1, <2>2, Only DEF OneEdit
<1>5. ASSUME End(w) \/ Goto(w, "reload", file) PROVE OneEdit'
  <2>1. job'[w].at \in {"idle", "reload"}
    BY <1>1, <1>5, EndJob, GotoJob
  <2> QED
    BY <1>1, <2>1, Only DEF OneEdit
<1>6. ASSUME Readable, Goto(w, "open", Stored(file, job[w].id, job[w].data)) PROVE OneEdit'
  <2>1. \A j \in Slots : j # job[w].id =>
          Stored(file, job[w].id, job[w].data)[j] = file[j]
    BY <1>6, ReadLatest DEF Stored, Config
  <2> QED
    BY <1>4, <1>6, <2>1
<1>7. ASSUME Readable, Goto(w, "open", Emptied(file, job[w].id)) PROVE OneEdit'
  <2>1. \A j \in Slots : j # job[w].id => Emptied(file, job[w].id)[j] = file[j]
    BY <1>7, ReadLatest DEF Emptied, Config
  <2> QED
    BY <1>4, <1>7, <2>1
<1>8. ASSUME Readable,
             Goto(w, "open",
                  [file EXCEPT ![job[w].id] = SetSupper(@, job[w].op, job[w].marks)])
      PROVE  OneEdit'
  <2>1. \A j \in Slots : j # job[w].id =>
          [file EXCEPT ![job[w].id] = SetSupper(@, job[w].op, job[w].marks)][j] = file[j]
    BY <1>8, ReadLatest DEF Config
  <2> QED
    BY <1>4, <1>8, <2>1, Zenon
<1>9. CASE Load(w)
  BY <1>3, <1>5, <1>6, <1>7, <1>9, Zenon DEF Load
<1>10. CASE Reload(w)
  BY <1>3, <1>5, <1>8, <1>10, Zenon DEF Reload
<1> QED
  BY <1>9, <1>10

\* What is written differs from what was saved before in one slot.
LEMMA WriteEdits ==
    ASSUME Editing, NEW w \in Workers, Write(w)
    PROVE  /\ Latest' /\ OneEdit'
           /\ \A j \in Slots : j # job[w].id => last'[j] = last[j]
<1> DEFINE c == job[w].cfg
<1>1. IInv /\ OneWorker /\ c \in Config
  BY DEF Editing, IInv, TypeOK, Job
<1>2. file' = c \/ file' = Garbled
  BY DEF Write, Written
<1>3. last' = IF file' = c THEN c ELSE last
  BY DEF Write
<1>4. Latest'
  BY <1>1, <1>2, <1>3, WorkstationsAssumption DEF Latest, Unreadable
<1>5. job'[w].at \in {"export", "idle"}
  BY <1>1, EndJob, GotoJob, Zenon DEF Write, Answer
<1>6. OneEdit'
  BY <1>1, <1>5, Only DEF OneEdit
<1>7. \A j \in Slots : j # job[w].id => c[j] = last[j]
  BY DEF Editing, OneEdit, Write, At
<1> QED
  BY <1>3, <1>4, <1>6, <1>7

LEMMA StepEditing == ASSUME Editing, [Next]_vars PROVE Editing'
<1>1. IInv /\ OneWorker /\ IInv'
  BY NextKeeps DEF Editing
<1>2. ASSUME UNCHANGED <<file, job, last>> PROVE Latest' /\ OneEdit'
  BY <1>2 DEF Editing, Latest, OneEdit
<1>3. ASSUME NEW w \in Workers, Ask(w) PROVE Latest' /\ OneEdit'
  <2>1. CASE SaveDefault(w)
    <3>1. UNCHANGED <<file, last>> /\ last = Default
      BY <2>1 DEF SaveDefault, Editing, Latest
    <3>2. job'[w].cfg = Default
      BY <1>1, <2>1, DefaultJob
    <3> QED
      BY <1>1, <3>1, <3>2, Only DEF Editing, Latest, OneEdit
  <2>2. CASE \E op \in {"apply", "delete", "on", "off"} : \E k, e, m : Request(w, op, k, e, m)
    <3>1. UNCHANGED <<file, last>>
      BY <2>2 DEF Request
    <3>2. job'[w].at = "load"
      BY <1>1, <2>2, RequestJob
    <3> QED
      BY <1>1, <3>1, <3>2, Only DEF Editing, Latest, OneEdit
  <2> QED
    BY <1>2, <1>3, <2>1, <2>2, AskKinds, Zenon
<1>4. ASSUME NEW w \in Workers, Open(w) PROVE Latest' /\ OneEdit'
  <2>1. last' = last /\ At(w, "open")
    BY <1>4 DEF Open
  <2>2. CASE file' = Truncated /\ Goto(w, "write", job[w].cfg)
    <3>1. Latest'
      BY <2>2, WorkstationsAssumption DEF Latest, Unreadable
    <3>2. job'[w].cfg = job[w].cfg /\ job'[w].id = job[w].id
      BY <1>1, <2>2, GotoJob
    <3>3. OneEdit'
      BY <1>1, <2>1, <3>2, Only DEF Editing, OneEdit, At
    <3> QED
      BY <3>1, <3>3
  <2>3. CASE file' = file /\ End(w)
    <3>1. job'[w].at = "idle"
      BY <1>1, <2>3, EndJob
    <3> QED
      BY <1>1, <2>1, <2>3, <3>1, Only DEF Editing, Latest, OneEdit
  <2> QED
    BY <1>4, <2>2, <2>3 DEF Open
<1>5. ASSUME NEW w \in Workers,
             WriteCut(w) \/ ExportDHCP(w) \/ ExportClose(w) \/ ExportCut(w) \/ Kill(w)
      PROVE  Latest' /\ OneEdit'
  <2>1. last' = last /\ (file' = file \/ file' = Garbled)
    BY <1>5 DEF WriteCut, ExportDHCP, ExportClose, ExportCut, Kill
  <2>2. job'[w].at \in {"export", "close", "idle"}
    <3>1. CASE WriteCut(w)
      BY <1>1, <3>1, CutJob
    <3>2. CASE ~WriteCut(w)
      BY <1>1, <1>5, <3>2, EndJob, GotoJob, Zenon
      DEF ExportDHCP, ExportClose, ExportCut, Kill, Answer, Fail
    <3> QED
      BY <3>1, <3>2
  <2>3. Latest'
    BY <2>1, WorkstationsAssumption DEF Editing, Latest, Unreadable
  <2> QED
    BY <1>1, <2>2, <2>3, Only DEF OneEdit
<1>6. Latest' /\ OneEdit'
  <2>1. CASE \E w \in Workers : Run(w)
    BY <2>1, <1>4, <1>5, LoadEdits, WriteEdits, Zenon DEF Run
  <2>2. CASE \E b \in Browsers : CloseForm(b)
    BY <2>2, <1>2 DEF CloseForm
  <2>3. CASE UNCHANGED vars
    BY <2>3, <1>2 DEF vars
  <2> QED
    BY <1>3, <1>5, <2>1, <2>2, <2>3 DEF Next
<1> QED
  BY <1>1, <1>6 DEF Editing, OneWorker

LEMMA AlwaysEditing == OneWorker /\ Spec => []Editing
<1>1. OneWorker /\ Init => Editing
  BY InitEditing
<1>2. Editing /\ [Next]_vars => Editing'
  BY StepEditing
<1> QED
  BY <1>1, <1>2, PTL DEF Spec

\* With one worker a save changes the slot its request is about and no other,
\* for any number of slots, whichever requests are cut short and however old
\* the page is that they come from.
THEOREM SavesOneSlot == OneWorker /\ Spec => OneSlotPerSave
<1>1. ASSUME Editing, [Next]_vars, last' # last
      PROVE  \E i : \A j \in Slots : j # i => last'[j] = last[j]
  <2>1. PICK w \in Workers : Write(w)
    BY <1>1, AskKinds, Zenon
    DEF Next, Run, Load, Reload, Open, WriteCut, ExportDHCP, ExportClose, ExportCut,
        Kill, CloseForm, SaveDefault, Request, vars
  <2> QED
    BY <1>1, <2>1, WriteEdits
<1>2. Editing /\ [Next]_vars =>
        [\A j, k \in Slots : last'[j] # last[j] /\ last'[k] # last[k] => j = k]_vars
  BY <1>1
<1> QED
  BY <1>2, AlwaysEditing, PTL DEF Spec, OneSlotPerSave

-----------------------------------------------------------------------------
\* Between requests the file and dhcpd.conf agree.

LEMMA InitOrder ==
    ASSUME BeginsTight, Init
    PROVE  Order
<1>1. Tight(last)
  BY DEF Init, BeginsTight
<1>2. FormsFit /\ JobsFit
  BY Zenon DEF Init, FormsFit, JobsFit, Idle
<1>3. Calm
  BY DEF Init, Calm, Idle
<1> QED
  BY <1>1, <1>2, <1>3 DEF Order

\* What is said of a list depends on the list alone.
LEMMA SameList ==
    ASSUME last' = last
    PROVE  HostsOf(last)' = HostsOf(last) /\ Tight(last)' = Tight(last)
  BY Zenon DEF HostsOf, Tight, Hole, Listed, Machines

LEMMA SameJobList ==
    ASSUME NEW w, NEW c, job'[w].cfg = c
    PROVE  HostsOf(job[w].cfg)' = HostsOf(c) /\ Tight(job[w].cfg)' = Tight(c)
  BY Zenon DEF HostsOf, Tight, Hole, Listed, Machines

\* The forms apart, a step that only opens or closes one changes nothing.
LEMMA OrderStays ==
    ASSUME Orderly, UNCHANGED <<file, dhcp, job, last, settled>>
    PROVE  (Tight(last) /\ JobsFit /\ Calm)'
<1>1. Tight(last)'
  BY SameList, Zenon DEF Orderly, Order
<1>2. JobsFit'
  <2>1. \A w : Tight(job[w].cfg)' = Tight(job[w].cfg)
    BY SameJobList, Zenon
  <2> QED
    BY <2>1, Zenon DEF Orderly, Order, JobsFit, Fits
<1>3. Calm'
  <2>1. HostsOf(last)' = HostsOf(last) /\ \A w : HostsOf(job[w].cfg)' = HostsOf(job[w].cfg)
    BY Zenon DEF HostsOf, Machines
  <2>2. Served' = Served
    BY <2>1 DEF Served
  <2> QED
    BY <2>1, <2>2, Zenon DEF Orderly, Order, Calm
<1> QED
  BY <1>1, <1>2, <1>3

\* A form fits the list it was made from.
LEMMA PageOrder ==
    ASSUME Orderly, NEW b \in Browsers, NEW x \in Form, x = NoForm \/ Fits(last, x.tid),
           form' = [form EXCEPT ![b] = x],
           UNCHANGED <<file, dhcp, job, last, settled>>
    PROVE  Order'
<1>1. form \in [Browsers -> Form] /\ FormsFit
  BY DEF Orderly, Order, Editing, IInv, TypeOK
<1>2. FormsFit'
  BY <1>1 DEF FormsFit, Fits
<1> QED
  BY <1>2, OrderStays DEF Order

\* Nothing changes where no file, form or request does.
LEMMA SameOrder ==
    ASSUME Orderly, UNCHANGED <<file, dhcp, form, job, last, settled>>
    PROVE  Order'
<1>1. FormsFit'
  BY DEF Orderly, Order, FormsFit, Fits
<1> QED
  BY <1>1, OrderStays DEF Order

LEMMA NewFormOrder ==
    ASSUME Orderly, NEW w \in Workers, NEW b \in Browsers, GetMy_New(w, b)
    PROVE  Order'
<1>1. file = last /\ file \in Config
  BY ReadLatest DEF Orderly, GetMy_New, Reads
<1>2. PICK k \in Offer(file) \cap Slots :
         form' = [form EXCEPT ![b] = [add |-> TRUE, was |-> file[k].host, tid |-> k,
                                      supper |-> FALSE, commit |-> {}]]
  BY Zenon DEF GetMy_New
<1> DEFINE x == [add |-> TRUE, was |-> file[k].host, tid |-> k, supper |-> FALSE,
                 commit |-> {}]
<1>3. x \in Form
  <2>1. file[k] \in Entry
    BY <1>1 DEF Config
  <2>2. file[k].host \in Hosts \cup {None}
    BY <2>1, EntryFields
  <2>3. k \in 0..MaxSlots
    BY WorkstationsAssumption DEF Slots
  <2> QED
    BY <2>2, <2>3 DEF Form
<1>4. Fits(last, x.tid)
  BY <1>1, OfferFits
<1> HIDE DEF x
<1>5. form' = [form EXCEPT ![b] = x]
  BY <1>2 DEF x
<1> QED
  BY <1>3, <1>4, <1>5, PageOrder, Zenon DEF GetMy_New

LEMMA ChangeFormOrder ==
    ASSUME Orderly, NEW w \in Workers, NEW b \in Browsers, NEW k \in Slots, GetMy(w, b, k)
    PROVE  Order'
<1>1. file = last /\ file \in Config
  BY ReadLatest, Zenon DEF Orderly, GetMy, Reads
<1> DEFINE x == [add |-> FALSE, was |-> None, tid |-> file[k].tid,
                 supper |-> file[k].supper, commit |-> file[k].commit]
<1>2. k \in Machines(file)
  BY DEF GetMy, Machines
<1>3. Fits(last, x.tid)
  BY <1>1, <1>2, TidFits DEF Orderly, Order
<1>4. x \in Form
  <2>1. file[k] \in Entry /\ file[k].kind = "machine"
    BY <1>1, <1>2 DEF Config, Machines
  <2>2. /\ file[k].tid \in Slots /\ file[k].supper \in BOOLEAN
        /\ file[k].commit \in SUBSET Images
    BY <2>1, EntryFields
  <2>3. file[k].tid \in 0..MaxSlots
    BY <2>2, WorkstationsAssumption DEF Slots
  <2> QED
    BY <2>2, <2>3 DEF Form
<1>5. form' = [form EXCEPT ![b] = x]
  BY DEF GetMy
<1> HIDE DEF x
<1> QED
  BY <1>3, <1>4, <1>5, PageOrder, Zenon DEF GetMy

\* A new request finds the files as the last one left them.
LEMMA RequestOrder ==
    ASSUME Orderly, NEW w \in Workers, NEW op, NEW k, NEW e, NEW m, Request(w, op, k, e, m),
           op = "apply" => Fits(last, k) /\ e.kind = "machine" /\ e.tid = k,
           FormsFit'
    PROVE  Order'
<1>1. IInv /\ OneWorker
  BY DEF Orderly, Editing
<1>2. UNCHANGED <<file, dhcp, last, settled>>
  BY DEF Request
<1>3. /\ job'[w].at = "load" /\ job'[w].op = op /\ job'[w].id = k /\ job'[w].data = e
      /\ job[w].at = "idle"
  BY <1>1, RequestJob, IdleAt, Zenon
<1>4. JobsFit'
  BY <1>1, <1>2, <1>3, Only DEF JobsFit, Fits
<1>5. Calm'
  <2>1. settled => file = last /\ Served
    BY <1>3, Zenon DEF Orderly, Order, Calm, Before
  <2>2. Served' = Served
    BY <1>2, SameList, Zenon DEF Served
  <2> QED
    BY <1>1, <1>2, <1>3, <2>1, <2>2, Only, Zenon DEF Calm, Before
<1>6. Tight(last)'
  BY <1>2, Zenon DEF Orderly, Order, Tight, Hole, Listed, Machines
<1> QED
  BY <1>4, <1>5, <1>6 DEF Order

LEMMA AskOrder ==
    ASSUME Orderly, NEW w \in Workers, Ask(w)
    PROVE  Order'
<1>1. IInv /\ OneWorker /\ FormsFit /\ Tight(last) /\ Latest
  BY DEF Orderly, Order, Editing
<1>2. CASE View(w)
  BY <1>2, SameOrder, Zenon DEF View
<1>3. CASE \E b \in Browsers : GetMy_New(w, b)
  BY <1>3, NewFormOrder
<1>4. CASE \E b \in Browsers, k \in Slots : GetMy(w, b, k)
  BY <1>4, ChangeFormOrder
<1>5. CASE SaveDefault(w)
  <2>1. UNCHANGED <<file, dhcp, form, last, settled>> /\ file = Missing /\ last = Default
    BY <1>1, <1>5 DEF SaveDefault, Latest
  <2>2. /\ job'[w].at = "open" /\ job'[w].op = "default" /\ job'[w].cfg = last
        /\ job[w].at = "idle"
    BY <1>1, <1>5, <2>1, DefaultJob, IdleAt, Zenon
  <2>3. JobsFit'
    <3>1. Tight(job[w].cfg)'
      BY <1>1, <2>2, SameJobList, Zenon
    <3> QED
      BY <1>1, <2>1, <2>2, <3>1, Only, Zenon DEF JobsFit
  <2>4. Calm'
    <3>1. settled => file = last /\ Served
      BY <2>2, Zenon DEF Orderly, Order, Calm, Before
    <3>2. Served' = Served /\ HostsOf(job[w].cfg)' = HostsOf(last) /\ HostsOf(last)' = HostsOf(last)
      BY <2>1, <2>2, SameList, SameJobList, Zenon DEF Served
    <3> QED
      BY <1>1, <2>1, <2>2, <3>1, <3>2, Only, Zenon DEF Calm, Before
  <2> QED
    BY <1>1, <2>1, <2>3, <2>4, SameList, Zenon DEF Order, FormsFit, Fits
<1>6. ASSUME NEW b \in Browsers, NEW h \in Hosts, NEW on \in BOOLEAN, ApplyMy(w, b, h, on)
      PROVE  Order'
  <2> DEFINE k == form[b].tid
             e == [Machine(h, k, on) EXCEPT !.supper = form[b].supper,
                                            !.commit = form[b].commit]
  <2>1. Request(w, "apply", k, e, {}) /\ form' = [form EXCEPT ![b] = NoForm]
    BY <1>6 DEF ApplyMy
  <2>2. Fits(last, k)
    BY <1>1, <1>6 DEF FormsFit, ApplyMy
  <2>3. e.kind = "machine" /\ e.tid = k
    BY DEF Machine
  <2>4. FormsFit'
    <3>1. last' = last /\ form \in [Browsers -> Form]
      BY <1>1, <2>1 DEF Request, IInv, TypeOK
    <3> QED
      BY <1>1, <2>1, <3>1 DEF FormsFit, Fits
  <2> HIDE DEF e, k
  <2> QED
    BY <2>1, <2>2, <2>3, <2>4, RequestOrder
<1>7. ASSUME NEW k \in Slots, NEW marks,
             DeleteMachine(w, k) \/ SupperOn(w, k, marks) \/ SupperOff(w, k)
      PROVE  Order'
  <2>1. PICK op \in {"delete", "on", "off"}, x \in {"nil", "emptied"} :
             \E m : Request(w, op, k, Bare(x), m) /\ form' = form
    BY <1>7, MenuRequest
  <2>2. PICK m : Request(w, op, k, Bare(x), m) /\ form' = form
    BY <2>1
  <2>3. FormsFit'
    BY <1>1, <2>2 DEF Request, FormsFit, Fits
  <2>4. op # "apply"
    OBVIOUS
  <2> QED
    BY <2>2, <2>3, <2>4, RequestOrder
<1> QED
  BY <1>2, <1>3, <1>4, <1>5, <1>6, <1>7 DEF Ask

\* A request that ends, or goes on to load again, leaves the files alone.
LEMMA LeaveOrder ==
    ASSUME Orderly, NEW w \in Workers, At(w, "load") \/ At(w, "reload"),
           End(w) \/ Goto(w, "reload", file),
           UNCHANGED <<file, dhcp, form, last, settled>>
    PROVE  Order'
<1>1. IInv /\ OneWorker /\ FormsFit /\ Tight(last) /\ Calm
  BY DEF Orderly, Order, Editing
<1>2. job'[w].at \in {"idle", "reload"}
  BY <1>1, EndJob, GotoJob, Zenon
<1>3. JobsFit'
  BY <1>1, <1>2, Only, Zenon DEF JobsFit
<1>4. settled => file = last /\ Served
  BY <1>1, Zenon DEF Calm, At, Before
<1>5. Calm'
  <2>1. Served' = Served
    BY SameList, Zenon DEF Served
  <2> QED
    BY <1>1, <1>2, <1>4, <2>1, Only, Zenon DEF Calm, Before
<1> QED
  BY <1>1, <1>3, <1>5, SameList, Zenon DEF Order, FormsFit, Fits

\* A request that has edited the list.
LEMMA EditOrder ==
    ASSUME Orderly, NEW w \in Workers, At(w, "load") \/ At(w, "reload"),
           NEW c, Goto(w, "open", c), Tight(c),
           \A j \in Slots : last[j].kind # "nil" => c[j].kind # "nil",
           job[w].op # "apply" => HostsOf(c) \subseteq HostsOf(last),
           UNCHANGED <<file, dhcp, form, last, settled>>
    PROVE  Order'
<1>1. IInv /\ OneWorker /\ FormsFit /\ Tight(last) /\ Calm
  BY Zenon DEF Orderly, Order, Editing
<1>2. job'[w].at = "open" /\ job'[w].cfg = c /\ job'[w].op = job[w].op
  <2>1. IInv /\ w \in Workers /\ Goto(w, "open", c)
    BY <1>1
  <2> QED
    BY ONLY <2>1, GotoJob, SMT
<1>3. JobsFit'
  BY <1>1, <1>2, Only, Zenon DEF JobsFit, Tight, Hole, Listed, Machines
<1>4. settled => file = last /\ Served
  BY <1>1, Zenon DEF Calm, At, Before
<1>5. Calm'
  <2>1. HostsOf(last)' = HostsOf(last) /\ HostsOf(job[w].cfg)' = HostsOf(c)
    BY <1>2, Zenon DEF HostsOf, Machines
  <2>2. Served' = Served
    BY <2>1, Zenon DEF Served
  <2> QED
    BY <1>1, <1>2, <1>4, <2>1, <2>2, Only, Zenon DEF Calm, Before
<1> QED
  BY <1>1, <1>3, <1>5, Zenon DEF Order, FormsFit, Fits, Tight, Hole, Listed, Machines

LEMMA LoadOrder ==
    ASSUME Orderly, NEW w \in Workers, Load(w)
    PROVE  Order'
<1> DEFINE k == job[w].id
           e == job[w].data
<1>1. IInv /\ OneWorker /\ Tight(last) /\ JobsFit /\ Editing
  BY DEF Orderly, Order, Editing
<1>2. At(w, "load") /\ UNCHANGED <<file, dhcp, form, last, settled>>
  BY Zenon DEF Load
<1>3. e \in Entry /\ k \in 0..MaxSlots
  BY <1>1 DEF IInv, TypeOK, Job
<1>4. CASE End(w) \/ Goto(w, "reload", file)
  BY <1>2, <1>4, LeaveOrder
<1>5. CASE Readable /\ job[w].op = "apply" /\ Goto(w, "open", Stored(file, k, e))
  <2>1. file = last /\ file \in Config
    BY <1>1, <1>5, ReadLatest, Zenon
  <2>2. Fits(last, k) /\ e.kind = "machine" /\ e.tid = k
    BY <1>1, <1>2, <1>5, Zenon DEF JobsFit, At
  <2>3. Tight(Stored(file, k, e))
    BY <1>1, <1>3, <2>1, <2>2, PutTight, Zenon DEF Stored
  <2>4. \A j \in Slots : last[j].kind # "nil" => Stored(file, k, e)[j].kind # "nil"
    BY <2>1, <2>2 DEF Stored, Config
  <2> QED
    BY <1>2, <1>5, <2>3, <2>4, EditOrder, Zenon
<1>6. CASE Readable /\ Goto(w, "open", Emptied(file, k))
  <2>1. file = last /\ file \in Config
    BY <1>1, <1>6, ReadLatest
  <2>2. CASE k \in Slots
    BY <1>1, <1>2, <1>6, <2>1, <2>2, EmptiedTight, EditOrder, Zenon
  <2>3. CASE k \notin Slots
    <3>1. Emptied(file, k) = file
      BY <2>1, <2>3 DEF Emptied, Config
    <3> QED
      BY <1>1, <1>2, <1>6, <2>1, <3>1, EditOrder, Zenon
  <2> QED
    BY <2>2, <2>3
<1> QED
  BY <1>4, <1>5, <1>6, Zenon DEF Load

LEMMA ReloadOrder ==
    ASSUME Orderly, NEW w \in Workers, Reload(w)
    PROVE  Order'
<1> DEFINE k == job[w].id
           d == [file EXCEPT ![k] = SetSupper(@, job[w].op, job[w].marks)]
<1>1. IInv /\ Tight(last) /\ Editing /\ job[w].marks \in SUBSET Images
  BY DEF Orderly, Order, Editing, IInv, TypeOK, Job
<1>2. At(w, "reload") /\ UNCHANGED <<file, dhcp, form, last, settled>>
  BY DEF Reload
<1>3. CASE End(w)
  BY <1>2, <1>3, LeaveOrder
<1>4. CASE Readable /\ Switchable(file[k], job[w].op, job[w].marks) /\ Goto(w, "open", d)
  <2>1. file = last /\ file \in Config
    BY <1>1, <1>4, ReadLatest, Zenon
  <2>2. /\ Tight(d) /\ \A j \in Slots : last[j].kind # "nil" => d[j].kind # "nil"
        /\ HostsOf(d) \subseteq HostsOf(last)
    <3>1. CASE k \in Slots
      <4>1. file \in Config /\ Switchable(file[k], job[w].op, job[w].marks)
        BY <1>4, <2>1
      <4>2. /\ \A j \in Slots : file[j].kind # "nil" => d[j].kind # "nil"
            /\ Tight(file) => Tight(d)
            /\ HostsOf(d) \subseteq HostsOf(file)
        BY <1>1, <3>1, <4>1, SwitchTight, Zenon
      <4> HIDE DEF d
      <4> QED
        BY <1>1, <2>1, <4>2
    <3>2. CASE k \notin Slots
      <4>1. d = file
        BY <2>1, <3>2 DEF Config
      <4> QED
        BY <1>1, <2>1, <4>1, Zenon
    <3> QED
      BY <3>1, <3>2, Zenon
  <2> HIDE DEF d
  <2> QED
    BY <1>2, <1>4, <2>2, EditOrder, Zenon
<1> QED
  BY <1>3, <1>4 DEF Reload

LEMMA OpenOrder ==
    ASSUME Orderly, NEW w \in Workers, Open(w)
    PROVE  Order'
<1>1. IInv /\ OneWorker /\ FormsFit /\ Tight(last) /\ JobsFit /\ Calm
  BY DEF Orderly, Order, Editing
<1>2. At(w, "open") /\ UNCHANGED <<dhcp, form, last, settled>>
  BY DEF Open
<1>3. settled => /\ file = last /\ Served
                 /\ job[w].op # "apply" => HostsOf(job[w].cfg) \subseteq HostsOf(last)
  BY <1>1, <1>2, Zenon DEF Calm, At, Before
<1>4. HostsOf(last)' = HostsOf(last) /\ Served' = Served
  BY <1>2, SameList, Zenon DEF Served
<1>5. CASE file' = Truncated /\ Goto(w, "write", job[w].cfg)
  <2>1. /\ job'[w].at = "write" /\ job'[w].cfg = job[w].cfg /\ job'[w].op = job[w].op
    <3>1. ASSUME NEW c, Goto(w, "write", c)
          PROVE  job'[w].at = "write" /\ job'[w].cfg = c /\ job'[w].op = job[w].op
      BY <1>1, <3>1, GotoJob, Zenon
    <3> QED
      BY <1>5, <3>1, Zenon
  <2>2. JobsFit'
    <3>1. Tight(job[w].cfg)' = Tight(job[w].cfg)
      BY <2>1, SameJobList, Zenon
    <3> QED
      BY <1>1, <1>2, <2>1, <3>1, Only, Zenon DEF JobsFit, At
  <2>3. Calm'
    <3>1. HostsOf(job[w].cfg)' = HostsOf(job[w].cfg)
      BY <2>1, SameJobList, Zenon
    <3> QED
      BY <1>1, <1>2, <1>3, <1>4, <1>5, <2>1, <3>1, Only, Zenon DEF Calm, Before
  <2> QED
    BY <1>1, <1>2, <2>2, <2>3, SameList, Zenon DEF Order, FormsFit, Fits
<1>6. CASE file' = file /\ End(w)
  <2>1. job'[w].at = "idle"
    BY <1>1, <1>6, EndJob
  <2>2. JobsFit' /\ Calm'
    BY <1>1, <1>2, <1>3, <1>4, <1>6, <2>1, Only, Zenon DEF JobsFit, Calm
  <2> QED
    BY <1>1, <1>2, <2>2, SameList, Zenon DEF Order, FormsFit, Fits
<1> QED
  BY <1>5, <1>6 DEF Open

\* A tight list is written as it is: it can be read again.
LEMMA WriteOrder ==
    ASSUME Orderly, NEW w \in Workers, Write(w)
    PROVE  Order'
<1> DEFINE c == job[w].cfg
<1>1. IInv /\ OneWorker /\ FormsFit /\ Tight(last) /\ JobsFit /\ Calm
  BY DEF Orderly, Order, Editing
<1>2. /\ At(w, "write") /\ file' \in Written(c) /\ last' = (IF file' = c THEN c ELSE last)
      /\ UNCHANGED <<dhcp, form>>
  BY DEF Write
<1>3. Tight(c) /\ \A j \in Slots : last[j].kind # "nil" => c[j].kind # "nil"
  BY <1>1, <1>2, Zenon DEF JobsFit, At
<1>4. file' = c /\ last' = c
  <2>1. file = Truncated /\ ~Hole(c)
    BY <1>1, <1>2, <1>3, Zenon DEF Calm, At, Tight
  <2> QED
    BY <1>2, <2>1 DEF Written
<1>5. Tight(last)'
  BY <1>3, <1>4 DEF Tight, Hole, Listed, Machines
<1>6. FormsFit'
  <2>1. \A j \in Slots : last[j].kind # "nil" => last'[j].kind # "nil"
    BY <1>3, <1>4
  <2> QED
    BY <1>1, <1>2, <2>1 DEF FormsFit, Fits
<1>7. \/ /\ job[w].op = "apply" /\ job'[w].at = "export" /\ job'[w].cfg = c
         /\ job'[w].op = job[w].op
      \/ job[w].op # "apply" /\ job'[w].at = "idle" /\ settled' = settled
  <2>1. \/ job[w].op = "apply" /\ Goto(w, "export", c)
        \/ job[w].op # "apply" /\ End(w) /\ settled' = (settled \/ job[w].op = "apply")
    BY Zenon DEF Write, Answer
  <2>2. CASE job[w].op = "apply" /\ Goto(w, "export", c)
    BY <1>1, <2>2, GotoJob, Zenon
  <2>3. CASE job[w].op # "apply" /\ End(w) /\ settled' = (settled \/ job[w].op = "apply")
    <3>1. settled \in BOOLEAN
      BY <1>1 DEF IInv, TypeOK
    <3> QED
      BY <1>1, <2>3, <3>1, EndJob
  <2> QED
    BY <2>1, <2>2, <2>3, Zenon
<1>8. JobsFit'
  BY <1>1, <1>7, Only, Zenon DEF JobsFit
<1>9. ASSUME settled, job[w].op # "apply" PROVE Served'
  <2>1. dhcp.whole /\ HostsOf(last) \subseteq dhcp.hosts /\ HostsOf(c) \subseteq HostsOf(last)
    BY <1>1, <1>2, <1>9 DEF Calm, At, Served
  <2>2. HostsOf(last') \subseteq dhcp.hosts
    BY <1>4, <2>1
  <2> QED
    BY <1>2, <2>1, <2>2, Zenon DEF Served, HostsOf, Machines
<1>10. Calm'
  BY <1>1, <1>4, <1>7, <1>9, Only, Zenon DEF Calm, Before
<1> QED
  BY <1>5, <1>6, <1>8, <1>10 DEF Order

\* After a save that was cut nothing is claimed.
LEMMA WriteCutOrder ==
    ASSUME Orderly, NEW w \in Workers, WriteCut(w)
    PROVE  Order'
<1>1. IInv /\ OneWorker /\ FormsFit /\ Tight(last)
  BY DEF Orderly, Order, Editing
<1>2. UNCHANGED <<form, last>> /\ ~settled'
  BY DEF WriteCut
<1>3. job'[w].at = "idle" \/ (job'[w].at = "export" /\ job'[w].op = "none")
  BY <1>1, CutJob
<1>4. JobsFit' /\ Calm'
  BY <1>1, <1>2, <1>3, Only, Zenon DEF JobsFit, Calm
<1> QED
  BY <1>1, <1>2, <1>4, SameList, Zenon DEF Order, FormsFit, Fits

LEMMA ExportOrder ==
    ASSUME Orderly, NEW w \in Workers,
           ExportDHCP(w) \/ ExportClose(w) \/ ExportCut(w) \/ Kill(w)
    PROVE  Order'
<1>1. IInv /\ OneWorker /\ FormsFit /\ Tight(last) /\ Calm
  BY DEF Orderly, Order, Editing
<1>2. UNCHANGED <<file, form, last>>
  BY DEF ExportDHCP, ExportClose, ExportCut, Kill
<1>3. job'[w].at \in {"close", "idle"}
  BY <1>1, EndJob, GotoJob, Zenon
  DEF ExportDHCP, ExportClose, ExportCut, Kill, Answer, Fail
<1>4. JobsFit'
  BY <1>1, <1>3, Only, Zenon DEF JobsFit
<1>5. Calm'
  <2>1. CASE ExportDHCP(w)
    <3>1. At(w, "export") /\ dhcp'.by = w /\ settled' = settled
            /\ Goto(w, "close", job[w].cfg)
      BY <2>1, Zenon DEF ExportDHCP
    <3>2. job'[w].at = "close" /\ job'[w].cfg = job[w].cfg /\ job'[w].op = job[w].op
      <4>1. ASSUME NEW c, Goto(w, "close", c)
            PROVE  job'[w].at = "close" /\ job'[w].cfg = c /\ job'[w].op = job[w].op
        BY <1>1, <4>1, GotoJob, Zenon
      <4> QED
        BY <3>1, <4>1, Zenon
    <3>3. IF job[w].op = "apply" THEN file = last /\ job[w].cfg = last ELSE ~settled
      BY <1>1, <3>1, Zenon DEF Calm, At
    <3> QED
      BY <1>1, <1>2, <3>1, <3>2, <3>3, Only, Zenon DEF Calm, Before
  <2>2. CASE ExportClose(w)
    <3>1. At(w, "close") /\ settled' = (settled \/ job[w].op = "apply")
            /\ dhcp' = (IF dhcp.by = w THEN Exported(job[w].cfg) ELSE dhcp)
      BY <2>2 DEF ExportClose, Answer
    <3>2. job'[w].at = "idle"
      BY <1>1, <2>2, EndJob, Zenon DEF ExportClose, Answer
    <3>3. settled' => file = last /\ dhcp' = Exported(last)
      BY <1>1, <3>1, Zenon DEF Calm, At
    <3>4. dhcp' = Exported(last) => Served'
      <4>1. Exported(last).whole /\ Exported(last).hosts = HostsOf(last)
        BY DEF Exported, HostsOf
      <4>2. HostsOf(last)' = HostsOf(last)
        BY <1>2, SameList, Zenon DEF HostsOf
      <4>3. Served' <=> dhcp'.whole /\ HostsOf(last)' \subseteq dhcp'.hosts
        BY Zenon DEF Served
      <4> QED
        BY <4>1, <4>2, <4>3, Zenon
    <3> QED
      BY <1>1, <1>2, <3>2, <3>3, <3>4, Only, Zenon DEF Calm
  <2>3. CASE ExportCut(w)
    <3>1. ~settled' /\ End(w)
      BY <2>3 DEF ExportCut, Fail
    <3>2. job'[w].at = "idle"
      BY <1>1, <3>1, EndJob
    <3> QED
      BY <1>1, <3>1, <3>2, Only, Zenon DEF Calm
  <2>4. CASE Kill(w)
    <3>1. settled' => settled /\ job[w].at \in Before
      BY <2>4, Zenon DEF Kill, Before
    <3>2. dhcp' = dhcp /\ job'[w].at = "idle"
      BY <1>1, <2>4, EndJob DEF Kill
    <3>3. settled' => file = last /\ Served
      BY <1>1, <3>1 DEF Calm
    <3>4. Served' = Served
      BY <1>2, <3>2, SameList, Zenon DEF Served
    <3> QED
      BY <1>1, <1>2, <3>2, <3>3, <3>4, Only, Zenon DEF Calm
  <2> QED
    BY <2>1, <2>2, <2>3, <2>4
<1> QED
  BY <1>1, <1>2, <1>4, <1>5, Zenon DEF Order, FormsFit, Fits, Tight, Hole, Listed, Machines

LEMMA StepOrderly == ASSUME Orderly, [Next]_vars PROVE Orderly'
<1>1. Editing'
  BY StepEditing DEF Orderly
<1>2. ASSUME NEW w \in Workers, Run(w) \/ Ask(w) \/ Kill(w) PROVE Order'
  BY <1>2, AskOrder, LoadOrder, ReloadOrder, OpenOrder, WriteOrder, WriteCutOrder,
     ExportOrder DEF Run
<1>3. ASSUME NEW b \in Browsers, CloseForm(b) PROVE Order'
  BY <1>3, NoFormFine, PageOrder, Zenon DEF CloseForm
<1>4. CASE UNCHANGED vars
  BY <1>1, <1>4, SameOrder DEF vars, Orderly
<1> QED
  BY <1>1, <1>2, <1>3, <1>4 DEF Next, Orderly

\* With one worker, and lists to begin with that have no holes and no tid beyond
\* them: between requests, from the first ApplyMy that is answered on, and again
\* from the first one after a request or a write that was cut short, mkyboot.json
\* holds the list saved last and dhcpd.conf a block for each of its enabled
\* machines, for any number of slots and of open forms.  GetMy offers no slot beyond the first
\* free one, and a slot that was once in use stays a part of the list, so that
\* the form of a page made long ago does not leave a hole either.
THEOREM FilesAgreeAtRest == OneWorker /\ BeginsTight /\ Spec => []AtRest
<1>1. OneWorker /\ BeginsTight /\ Init => Orderly
  BY InitEditing, InitOrder DEF Orderly
<1>2. Orderly /\ [Next]_vars => Orderly'
  BY StepOrderly
<1>3. Orderly => AtRest
  <2> SUFFICES ASSUME Orderly, Resting
               PROVE  /\ file = last /\ dhcp.whole
                      /\ Exported(last).hosts \subseteq dhcp.hosts
    BY DEF AtRest
  <2>1. PICK w \in Workers : job[w] = Idle
    BY DEF Orderly, Editing, OneWorker, Resting
  <2>2. job[w].at = "idle" /\ settled
    BY <2>1 DEF Idle, Resting
  <2>3. file = last /\ Served
    BY <2>2 DEF Orderly, Order, Calm, Before
  <2> QED
    BY <2>3, Zenon DEF Served, HostsOf, Exported
<1> QED
  BY <1>1, <1>2, <1>3, PTL DEF Spec
==============================================================================

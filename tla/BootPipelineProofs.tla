------------------------- MODULE BootPipelineProofs -------------------------
(***************************************************************************)
(* What a boot gives a workstation, for any number of workstations, NBD    *)
(* devices, killed requests and failing services, where one worker serves  *)
(* the requests.                                                           *)
(* With two of them a device can be found free by both, and a workstation  *)
(* may get the disk of another one.                                        *)
(***************************************************************************)
EXTENDS BootPipeline, WellFoundedInduction, TLAPS

OneWorker == \A v, w \in Workers : v = w

\* The commands of a boot from the k-th on; those that mkChild puts before the
\* search for a device; and the commands of the other requests.
Rest(k) == SubSeq(Boot, k, Len(Boot))
Making == {<<"create">>, <<"unlock", "create">>, <<"kill", "unlock", "create">>}
MakingEdit == {<<"create">>, <<"lock">>, <<"lock", "create">>, <<"create", "lock">>,
               <<"kill", "create", "lock">>}
Others == {<<"tgtstop", "nbdFree", "del", "commit", "normal">>,
           <<"nbdFree", "del", "commit", "normal">>, <<"del", "commit", "normal">>,
           <<"commit", "normal">>, <<"normal">>, <<"super">>, <<"edit">>}

\* The overlay that a boot outside super mode begins with, unless none is made.
CleanChild == [base |-> "snap", fresh |-> TRUE, has |-> {}]
Clean(j) ==
    j.who \in Enabled /\ j.conf[j.who] # "edit" =>
        child[j.who] \in {CleanChild, NoChild}

\* A workstation's LUN leads nowhere.
Blank(c) == tgt[c].lun = 0 \/ nbd[tgt[c].lun] = Nothing

\* What a boot relies on at its k-th command.  Its target may still be there, if
\* the services were down when it was to be stopped.
Ready(j, k) ==
    LET c == j.who
    IN  /\ c \in Clients
        /\ k = 5 => Serving(c) \subseteq {j.dev}
        /\ k \in 6..11 => Serving(c) = {}
        /\ k = 7 => snap[c] # "old"
        /\ k \in {8, 9} => snap[c] = "fresh"
        /\ k \in {10, 11} => ~used(j.dev)
        /\ k \in {12, 13} => Blank(c)
        /\ k = 13 => c \in Enabled
        /\ k \in {12, 13} /\ j.dev # 0 => nbd[j.dev] \in {c, Nothing}

\* Outside super mode the old overlay is gone when the new one is made.
Fits(j, m) ==
    j.conf[j.who] # "edit" =>
        /\ m \in Making
        /\ m = <<"kill", "unlock", "create">> \/ child[j.who] = NoChild

Sound(j) ==
    \/ j.todo \in Others \cup {<<>>}
    \/ \E k \in 1..Len(Boot) : j.todo = Rest(k) /\ Ready(j, k) /\ (k > 8 => Clean(j))
    \/ \E m \in Making \cup MakingEdit :
         j.todo = m \o Rest(9) /\ Ready(j, 9) /\ Fits(j, m)

\* No overlay is served on two devices.
ServedOnce == \A d, e \in Devices : nbd[d] = nbd[e] /\ nbd[d] # Nothing => d = e

\* What lies on the golden image was written in super mode, and a workstation
\* whose LUN leads to such a disk is in super mode.
EditsOnGolden ==
    \A c \in Clients :
        child[c].base = "golden" =>
            child[c].has \subseteq {TRUE} /\ (Blank(c) \/ session[c])

\* An overlay that is served exists, and one that does not holds nothing.
Made ==
    /\ \A c \in Clients : child[c].base = "none" => child[c] = NoChild
    /\ \A d \in Devices : nbd[d] # Nothing => child[nbd[d]].base # "none"

\* Only an enabled workstation has a target.
TargetsEnabled == \A c \in Clients : tgt[c].on => c \in Enabled

-----------------------------------------------------------------------------
\* The facts about sequences that the lists of commands need.

LEMMA EmptySeq ==
    ASSUME NEW S
    PROVE  /\ <<>> \in Seq(S) /\ Len(<<>>) = 0
           /\ \A s \in Seq(S) : s # <<>> => Len(s) \in Nat \ {0}
OBVIOUS

LEMMA SeqEqual ==
    ASSUME NEW S, NEW s \in Seq(S), NEW r \in Seq(S), Len(s) = Len(r),
           \A i \in 1..Len(s) : s[i] = r[i]
    PROVE  s = r
OBVIOUS

LEMMA ConcatProperties ==
    ASSUME NEW S, NEW s \in Seq(S), NEW r \in Seq(S)
    PROVE  /\ s \o r \in Seq(S) /\ Len(s \o r) = Len(s) + Len(r)
           /\ \A i \in 1..Len(s) + Len(r) :
                (s \o r)[i] = IF i <= Len(s) THEN s[i] ELSE r[i - Len(s)]
OBVIOUS

LEMMA ConcatEmptySeq ==
    ASSUME NEW S, NEW s \in Seq(S)
    PROVE  <<>> \o s = s
BY ConcatProperties, EmptySeq, SeqEqual

LEMMA HeadTailProperties ==
    ASSUME NEW S, NEW s \in Seq(S), s # <<>>
    PROVE  /\ Head(s) \in S /\ Head(s) = s[1]
           /\ Tail(s) \in Seq(S) /\ Len(Tail(s)) = Len(s) - 1
           /\ \A i \in 1..Len(Tail(s)) : Tail(s)[i] = s[i + 1]
OBVIOUS

LEMMA SuffixProperties ==
    ASSUME NEW S, NEW s \in Seq(S), NEW k \in 1..Len(s)
    PROVE  /\ SubSeq(s, k, Len(s)) \in Seq(S)
           /\ Len(SubSeq(s, k, Len(s))) = Len(s) - k + 1
           /\ Head(SubSeq(s, k, Len(s))) = s[k]
           /\ Tail(SubSeq(s, k, Len(s))) = SubSeq(s, k + 1, Len(s))
           /\ k = 1 => SubSeq(s, k, Len(s)) = s
OBVIOUS

-----------------------------------------------------------------------------
\* The commands of a request.

\* The steps of a boot and of a commit, counted.
LEMMA BootSeq ==
    /\ Boot \in Seq(Steps) /\ Len(Boot) = 13
    /\ Commit \in Seq(Steps) /\ Len(Commit) = 5
<1>1. \A i \in 1..13 : Boot[i] \in Steps
    BY DEF Boot, Steps
<1>2. \A i \in 1..5 : Commit[i] \in Steps
    BY DEF Commit, Steps
<1>. QED  BY <1>1, <1>2 DEF Boot, Commit

\* The steps, written out.
LEMMA StepsAre ==
    Steps = {"tgtstop", "nbdFree", "del", "unsnap", "snap", "mkChild", "search",
             "busy", "add", "tgtstart", "LunAdd", "commit", "normal", "kill",
             "create", "lock", "unlock", "stop", "super", "edit"}
<1>1. {Boot[i] : i \in DOMAIN Boot} =
        {"tgtstop", "nbdFree", "del", "unsnap", "snap", "mkChild", "search",
         "busy", "add", "tgtstart", "LunAdd"}
    BY DEF Boot
<1>2. {Commit[i] : i \in DOMAIN Commit} =
        {"tgtstop", "nbdFree", "del", "commit", "normal"}
    BY DEF Commit
<1>. QED  BY <1>1, <1>2 DEF Steps

\* The k-th command is the head of what remains, and what follows it the tail.
LEMMA RestOfBoot ==
    ASSUME NEW k \in 1..13
    PROVE  /\ Rest(k) \in Seq(Steps) /\ Rest(k) # <<>>
           /\ Head(Rest(k)) = Boot[k]
           /\ Tail(Rest(k)) = IF k = 13 THEN <<>> ELSE Rest(k + 1)
<1>1. /\ Head(SubSeq(Boot, k, 13)) = Boot[k]
      /\ Tail(SubSeq(Boot, k, 13)) = SubSeq(Boot, k + 1, 13)
      /\ SubSeq(Boot, k, 13) \in Seq(Steps)
      /\ Len(SubSeq(Boot, k, 13)) = 13 - k + 1
  <2>1. k \in 1..Len(Boot) /\ Boot \in Seq(Steps)
      BY BootSeq
  <2>2. /\ Head(SubSeq(Boot, k, Len(Boot))) = Boot[k]
        /\ Tail(SubSeq(Boot, k, Len(Boot))) = SubSeq(Boot, k + 1, Len(Boot))
        /\ SubSeq(Boot, k, Len(Boot)) \in Seq(Steps)
        /\ Len(SubSeq(Boot, k, Len(Boot))) = Len(Boot) - k + 1
      BY <2>1, SuffixProperties, Zenon
  <2>. QED  BY <2>2, BootSeq, Zenon
<1>4. SubSeq(Boot, k, 13) # <<>>
  <2>1. Len(SubSeq(Boot, k, 13)) # 0
      BY <1>1
  <2>. QED  BY <2>1, EmptySeq, Zenon
<1>5. k = 13 => SubSeq(Boot, k + 1, 13) = <<>>
  <2>1. \A s \in Seq(Steps) : Len(s) = 13 => SubSeq(s, 13 + 1, 13) = <<>>
      OBVIOUS
  <2>. QED  BY <2>1, BootSeq
<1>. QED  BY <1>1, <1>4, <1>5, BootSeq, Zenon DEF Rest

\* What a command leaves of the requests other than a boot.
LEMMA RestOfOthers ==
    ASSUME NEW t \in Others
    PROVE  /\ t \in Seq(Steps) /\ t # <<>> /\ Tail(t) \in Others \cup {<<>>}
           /\ Head(t) \in {"tgtstop", "nbdFree", "del", "commit"} \cup Modes
           /\ Head(t) = "tgtstop" => Tail(t) = <<"nbdFree", "del", "commit", "normal">>
<1>1. CASE t = <<"tgtstop", "nbdFree", "del", "commit", "normal">>
    BY <1>1, StepsAre DEF Others
<1>2. CASE t = <<"nbdFree", "del", "commit", "normal">>
    BY <1>2, StepsAre DEF Others
<1>3. CASE t = <<"del", "commit", "normal">>
    BY <1>3, StepsAre DEF Others
<1>4. CASE t = <<"commit", "normal">>
    BY <1>4, StepsAre DEF Others
<1>5. CASE t = <<"normal">>
    BY <1>5, StepsAre DEF Others, Modes
<1>6. CASE t = <<"super">>
    BY <1>6, StepsAre DEF Others, Modes
<1>7. CASE t = <<"edit">>
    BY <1>7, StepsAre DEF Others, Modes
<1>. QED  BY <1>1, <1>2, <1>3, <1>4, <1>5, <1>6, <1>7 DEF Others

\* What a command leaves of mkChild's.
LEMMA RestOfMaking ==
    ASSUME NEW m \in Making \cup MakingEdit
    PROVE  /\ m \in Seq(Steps) /\ m # <<>>
           /\ Head(m) \in {"kill", "lock", "unlock", "create"}
           /\ Tail(m) \in Making \cup MakingEdit \cup {<<>>}
           /\ m \in Making => Tail(m) \in Making \cup {<<>>}
           /\ m \in Making => (Tail(m) = <<>> <=> Head(m) = "create")
<1>1. CASE m = <<"create">>
    BY <1>1, StepsAre DEF Making, MakingEdit
<1>2. CASE m = <<"unlock", "create">>
    BY <1>2, StepsAre DEF Making, MakingEdit
<1>3. CASE m = <<"kill", "unlock", "create">>
    BY <1>3, StepsAre DEF Making, MakingEdit
<1>4. CASE m = <<"lock">>
    BY <1>4, StepsAre DEF Making, MakingEdit
<1>5. CASE m = <<"lock", "create">>
    BY <1>5, StepsAre DEF Making, MakingEdit
<1>6. CASE m = <<"create", "lock">>
    BY <1>6, StepsAre DEF Making, MakingEdit
<1>7. CASE m = <<"kill", "create", "lock">>
    BY <1>7, StepsAre DEF Making, MakingEdit
<1>. QED  BY <1>1, <1>2, <1>3, <1>4, <1>5, <1>6, <1>7 DEF Making, MakingEdit

\* What comes first of two sequences put together.
LEMMA ConcatHead ==
    ASSUME NEW S, NEW m \in Seq(S), m # <<>>, NEW r \in Seq(S)
    PROVE  /\ m \o r \in Seq(S) /\ m \o r # <<>>
           /\ Head(m \o r) = Head(m) /\ Tail(m \o r) = Tail(m) \o r
<1>1. /\ m \o r \in Seq(S) /\ Len(m \o r) = Len(m) + Len(r)
      /\ \A i \in 1 .. Len(m) + Len(r) :
           (m \o r)[i] = IF i <= Len(m) THEN m[i] ELSE r[i - Len(m)]
    BY ConcatProperties
<1>2. /\ Tail(m) \in Seq(S) /\ Len(Tail(m)) = Len(m) - 1 /\ Len(m) > 0
      /\ \A i \in 1 .. Len(m) - 1 : Tail(m)[i] = m[i + 1]
    BY HeadTailProperties, EmptySeq
<1>3. m \o r # <<>>
    BY <1>1, <1>2, EmptySeq
<1>4. /\ Tail(m \o r) \in Seq(S) /\ Len(Tail(m \o r)) = Len(m) + Len(r) - 1
      /\ \A i \in 1 .. Len(m) + Len(r) - 1 : Tail(m \o r)[i] = (m \o r)[i + 1]
    BY <1>1, <1>3, HeadTailProperties
<1>5. /\ Tail(m) \o r \in Seq(S) /\ Len(Tail(m) \o r) = Len(m) - 1 + Len(r)
      /\ \A i \in 1 .. Len(m) - 1 + Len(r) :
           (Tail(m) \o r)[i] = IF i <= Len(m) - 1 THEN Tail(m)[i] ELSE r[i - (Len(m) - 1)]
    BY <1>2, ConcatProperties
<1>6. \A i \in 1 .. Len(m) + Len(r) - 1 : Tail(m \o r)[i] = (Tail(m) \o r)[i]
    BY <1>1, <1>2, <1>4, <1>5
<1>7. Tail(m \o r) = Tail(m) \o r
    BY <1>4, <1>5, <1>6, SeqEqual
<1>8. Head(m \o r) = Head(m)
    BY <1>1, <1>2, <1>3
<1>. QED  BY <1>1, <1>3, <1>7, <1>8

-----------------------------------------------------------------------------
\* Type correctness, for any number of workers: besides the types, a request
\* that has commands to run is of a workstation.

Jobs == [todo : Seq(Steps), who : Clients \cup {Nothing}, dev : 0..nbd_nbds,
         conf : [Clients -> Modes]]
JobOK == /\ job \in [Workers -> Jobs]
         /\ \A w \in Workers : job[w].todo # <<>> => job[w].who \in Clients
TypeInv == TypeOK /\ JobOK

\* What JobOK says of a request at one of its commands.
LEMMA AtType ==
    ASSUME JobOK, NEW w \in Workers, NEW step, At(w, step)
    PROVE  /\ job[w].who \in Clients /\ job[w].dev \in 0..nbd_nbds
           /\ job[w].conf \in [Clients -> Modes]
           /\ job[w].todo \in Seq(Steps) /\ job[w].todo # <<>>
           /\ Tail(job[w].todo) \in Seq(Steps)
<1>1. /\ job[w].who \in Clients /\ job[w].dev \in 0..nbd_nbds
      /\ job[w].conf \in [Clients -> Modes]
      /\ job[w].todo \in Seq(Steps) /\ job[w].todo # <<>>
    BY DEF JobOK, Jobs, At
<1>. QED  BY <1>1, HeadTailProperties

\* A worker without a request has nothing to do.
LEMMA IdleType == Idle \in Jobs /\ Idle.todo = <<>>
<1>1. <<>> \in Seq(Steps)
    BY EmptySeq
<1>. QED  BY <1>1, PipelineAssumption DEF Idle, Jobs, Modes

\* A request that goes on keeps steps of the code to take.
LEMMA GoType ==
    ASSUME JobOK, NEW w \in Workers, NEW step, At(w, step),
           NEW more \in Seq(Steps), NEW d \in 0..nbd_nbds, Go(w, more, d)
    PROVE  JobOK'
<1> DEFINE rest == more \o Tail(job[w].todo)
           next == [job[w] EXCEPT !.todo = rest, !.dev = d]
<1>1. rest \in Seq(Steps)
    BY AtType, ConcatProperties
<1>2. next \in Jobs /\ next.who \in Clients
  <2>. HIDE DEF rest
  <2>1. job[w] \in Jobs /\ job[w].who \in Clients
      BY AtType DEF JobOK
  <2>. QED  BY <1>1, <2>1, Zenon DEF Jobs
<1>3. job' = [job EXCEPT ![w] = IF rest = <<>> THEN Idle ELSE next]
    BY DEF Go
<1>. HIDE DEF rest, next
<1>4. (IF rest = <<>> THEN Idle ELSE next) \in Jobs
    BY <1>2, IdleType
<1>5. job' \in [Workers -> Jobs]
    BY <1>3, <1>4 DEF JobOK
<1>6. ASSUME NEW v \in Workers, job'[v].todo # <<>>
      PROVE  job'[v].who \in Clients
  <2>1. CASE v = w
      BY <2>1, <1>2, <1>3, <1>6, IdleType DEF JobOK
  <2>2. CASE v # w
      BY <2>2, <1>3, <1>6 DEF JobOK
  <2>. QED  BY <2>1, <2>2
<1>. QED  BY <1>5, <1>6 DEF JobOK

\* So does one that goes on with what it had.
LEMMA ContinueType ==
    ASSUME JobOK, NEW w \in Workers, NEW step, At(w, step), Continue(w)
    PROVE  JobOK'
BY AtType, GoType, EmptySeq, Zenon DEF Continue

\* The search finds a device that nobody has open, or none.
LEMMA SearchType ==
    search_nbd \in 0..nbd_nbds /\ ~used(search_nbd)
<1> DEFINE free == {d \in Devices : ~used(d)}
<1>1. CASE free = {}
    BY <1>1, PipelineAssumption DEF search_nbd, used
<1>2. CASE free # {}
  <2> DEFINE less == {p \in Nat \X Nat : p[1] < p[2]}
  <2>1. IsWellFoundedOn(less, Nat)
      BY NatLessThanWellFounded DEF OpToRel
  <2>2. free \subseteq Nat
      BY DEF Devices
  <2>3. PICK d \in free : \A e \in free : ~(<<e, d>> \in less)
      BY <1>2, <2>1, <2>2, WFMin, Zenon
  <2>4. \A e \in free : d <= e
    <3>1. \A x, y \in Nat : x < y => <<x, y>> \in less
        OBVIOUS
    <3>. HIDE DEF less
    <3>2. d \in Nat /\ \A e \in free : e \in Nat /\ ~(e < d)
        BY <2>2, <2>3, <3>1, Zenon
    <3>. QED  BY <3>2
  <2>5. search_nbd = CHOOSE x \in free : \A e \in free : x <= e
      BY <1>2 DEF search_nbd
  <2>6. search_nbd \in free
      BY <2>4, <2>5
  <2>. QED  BY <2>6, PipelineAssumption DEF Devices
<1>. QED  BY <1>1, <1>2

LEMMA InitType == Init => TypeInv
<1>. SUFFICES ASSUME Init PROVE TypeInv
    OBVIOUS
<1>1. JobOK
    BY IdleType DEF Init, JobOK
<1>2. /\ child \in [Clients -> [base : {"none", "snap", "golden"},
                                fresh : BOOLEAN, has : SUBSET BOOLEAN]]
      /\ nbd \in [Devices -> Clients \cup {Nothing}]
      /\ tgt \in [Clients -> [on : BOOLEAN, lun : 0..nbd_nbds]]
    BY PipelineAssumption DEF Init, NoChild, NoTarget
<1>3. /\ conf \in [Clients -> Modes] /\ golden \subseteq BOOLEAN
      /\ snap \in [Clients -> {"none", "fresh", "old"}]
      /\ lockf \subseteq Clients /\ session \in [Clients -> BOOLEAN]
      /\ faults \in 0..MaxFaults
    BY PipelineAssumption DEF Init, Modes
<1>4. up \in BOOLEAN
    BY Zenon DEF Init
<1>. QED  BY <1>1, <1>2, <1>3, <1>4, Zenon DEF TypeInv, TypeOK, JobOK, Jobs

\* The overlays' type.
Overlays == [base : {"none", "snap", "golden"}, fresh : BOOLEAN, has : SUBSET BOOLEAN]

LEMMA RequestType ==
    ASSUME TypeInv, NEW w \in Workers, NEW c \in Clients, Request(w, c)
    PROVE  TypeInv'
<1>1. UNCHANGED <<conf, golden, snap, child, lockf, nbd, tgt, session, up, faults>>
    BY DEF Request, BootRequest, SuperRequest, disableCommit, disks, exports
<1>2. /\ Boot \in Seq(Steps) /\ Commit \in Seq(Steps) /\ <<"normal">> \in Seq(Steps)
      /\ \A mode \in Modes : <<mode>> \in Seq(Steps)
    BY BootSeq, StepsAre DEF Modes
<1>3. PICK t \in Seq(Steps) :
        job' = [job EXCEPT ![w] = [todo |-> t, who |-> c, dev |-> 0, conf |-> conf]]
    BY <1>2, Zenon DEF Request, BootRequest, SuperRequest, disableCommit
<1>4. [todo |-> t, who |-> c, dev |-> 0, conf |-> conf] \in Jobs
    BY PipelineAssumption DEF Jobs, TypeInv, TypeOK
<1>5. JobOK'
    BY <1>3, <1>4 DEF TypeInv, JobOK
<1>. QED  BY <1>1, <1>5 DEF TypeInv, TypeOK, JobOK, Jobs

LEMMA KillType ==
    ASSUME TypeInv, NEW w \in Workers, Kill(w)
    PROVE  TypeInv'
<1>1. UNCHANGED <<conf, golden, snap, child, lockf, nbd, tgt, session, up>>
    BY DEF Kill, disks, exports
<1>2. faults' \in 0..MaxFaults
    BY PipelineAssumption DEF Kill, TypeInv, TypeOK
<1>3. JobOK'
    BY IdleType DEF Kill, TypeInv, JobOK
<1>. QED  BY <1>1, <1>2, <1>3 DEF TypeInv, TypeOK, JobOK, Jobs

LEMMA WriteType ==
    ASSUME TypeInv, NEW c \in Clients, Write(c)
    PROVE  TypeInv'
<1> DEFINE d == nbd[tgt[c].lun]
<1>1. UNCHANGED <<conf, golden, snap, lockf, nbd, tgt, session, up, job, faults>>
    BY DEF Write, exports
<1>2. d \in Clients
    BY PipelineAssumption DEF Write, TypeInv, TypeOK, Devices
<1>3. child' = [child EXCEPT ![d] = [@ EXCEPT !.has = child[d].has \cup {session[c]}]]
    BY DEF Write
<1>. HIDE DEF d
<1>4. child[d] \in Overlays /\ session[c] \in BOOLEAN /\ child \in [Clients -> Overlays]
    BY <1>2 DEF TypeInv, TypeOK, Overlays
<1>5. [child[d] EXCEPT !.has = child[d].has \cup {session[c]}] \in Overlays
    BY <1>4 DEF Overlays
<1>6. child' \in [Clients -> Overlays]
    BY <1>3, <1>4, <1>5, Zenon
<1>. QED  BY <1>1, <1>6 DEF TypeInv, TypeOK, JobOK, Jobs, Overlays

\* A step that changes the devices and the targets.
LEMMA ExportsType ==
    ASSUME TypeInv, JobOK', faults' = faults, UNCHANGED <<conf, golden, snap, child, lockf>>,
           nbd' \in [Devices -> Clients \cup {Nothing}],
           tgt' \in [Clients -> [on : BOOLEAN, lun : 0..nbd_nbds]],
           session' \in [Clients -> BOOLEAN], up' \in BOOLEAN
    PROVE  TypeInv'
BY DEF TypeInv, TypeOK, JobOK, Jobs

\* A step that changes the disks.
LEMMA DisksType ==
    ASSUME TypeInv, JobOK', faults' = faults, UNCHANGED <<conf, nbd, tgt, session, up>>,
           golden' \subseteq BOOLEAN, lockf' \subseteq Clients,
           snap' \in [Clients -> {"none", "fresh", "old"}],
           child' \in [Clients -> Overlays]
    PROVE  TypeInv'
BY DEF TypeInv, TypeOK, JobOK, Jobs, Overlays

\* The branches of mkChild.
LEMMA mkChildGoes ==
    ASSUME NEW w, mkChild(w)
    PROVE  \E m \in Making \cup MakingEdit \cup {<<>>} :
             /\ Go(w, m, 0)
             /\ Who(w) \notin Enabled <=> m = <<>>
             /\ Mode(w) # "edit" => m \in Making \cup {<<>>}
             /\ m \in Making =>
                  m = <<"kill", "unlock", "create">> \/ child[Who(w)] = NoChild
<1> DEFINE old == child[Who(w)] # NoChild
           locked == Who(w) \in lockf
<1>7. /\ <<>> \notin Making
      /\ <<"kill", "create", "lock">> \in MakingEdit /\ <<"kill", "create", "lock">> # <<>>
      /\ <<"kill", "create", "lock">> \notin Making
      /\ <<"lock">> \in MakingEdit /\ <<"lock">> # <<>> /\ <<"lock">> \notin Making
    BY DEF Making, MakingEdit
<1>1. CASE Who(w) \notin Enabled
  <2>1. Go(w, <<>>, 0)
      BY <1>1 DEF mkChild
  <2>. QED  BY <1>1, <1>7, <2>1, Zenon
<1>2. CASE Who(w) \in Enabled /\ Mode(w) = "edit" /\ ~locked /\ old
  <2>1. Go(w, <<"kill", "create", "lock">>, 0)
      BY <1>2 DEF mkChild
  <2>. QED  BY <1>2, <1>7, <2>1, Zenon
<1>3. CASE Who(w) \in Enabled /\ Mode(w) = "edit" /\ ~locked /\ ~old
  <2>1. Go(w, <<"lock", "create">>, 0)
      BY <1>3 DEF mkChild
  <2>. QED  BY <1>3, <2>1, Zenon DEF MakingEdit
<1>4. CASE Who(w) \in Enabled /\ Mode(w) = "edit" /\ locked /\ old
  <2>1. Go(w, <<"lock">>, 0)
      BY <1>4 DEF mkChild
  <2>. QED  BY <1>4, <1>7, <2>1, Zenon
<1>5. CASE Who(w) \in Enabled /\ ~(Mode(w) = "edit" /\ ~locked) /\ ~(Mode(w) = "edit" /\ old)
           /\ old
  <2>1. Go(w, <<"kill", "unlock", "create">>, 0)
      BY <1>5 DEF mkChild
  <2>. QED  BY <1>5, <2>1 DEF Making
<1>6. CASE Who(w) \in Enabled /\ ~(Mode(w) = "edit" /\ ~locked) /\ ~old
  <2>1. Go(w, <<"create">>, 0)
      BY <1>6 DEF mkChild
  <2>. QED  BY <1>6, <2>1 DEF Making
<1>. QED  BY <1>1, <1>2, <1>3, <1>4, <1>5, <1>6, Zenon

\* An overlay that was never made counts as one.
LEMMA NoChildType == NoChild \in Overlays
BY DEF NoChild, Overlays

LEMMA SaveType ==
    ASSUME TypeInv, NEW w \in Workers, NEW mode \in Modes, SaveToFile(w, mode)
    PROVE  TypeInv'
<1>1. JobOK' /\ job[w].conf \in [Clients -> Modes]
    BY AtType, ContinueType DEF SaveToFile, TypeInv
<1>2. conf' \in [Clients -> Modes]
  <2>1. \A old : (IF mode = "super" /\ old = "edit" THEN "edit" ELSE mode) \in Modes
      BY DEF Modes
  <2>. QED  BY <1>1, <2>1, Zenon DEF SaveToFile
<1>3. UNCHANGED <<golden, snap, child, lockf, nbd, tgt, session, up, faults>>
    BY DEF SaveToFile, disks, exports
<1>. QED  BY <1>1, <1>2, <1>3 DEF TypeInv, TypeOK, JobOK, Jobs

Targets == [on : BOOLEAN, lun : 0..nbd_nbds]

\* A target is stopped or, while services are down, left alone.
LEMMA StopsTarget ==
    ASSUME TypeOK, NEW c, StopTarget(c)
    PROVE  /\ up' \in BOOLEAN /\ tgt' \in [Clients -> Targets]
           /\ \A e \in Clients : tgt'[e] = tgt[e] \/ tgt'[e] = NoTarget
<1>1. tgt \in [Clients -> Targets] /\ NoTarget \in Targets
    BY PipelineAssumption DEF TypeOK, Targets, NoTarget
<1>2. up' \in BOOLEAN
    BY Zenon DEF TypeOK, StopTarget
<1>3. tgt' = tgt \/ tgt' = [tgt EXCEPT ![c] = NoTarget]
    BY Zenon DEF StopTarget
<1>. HIDE DEF NoTarget, Targets
<1>. QED  BY <1>1, <1>2, <1>3, Zenon

LEMMA StopType ==
    ASSUME TypeInv, NEW w \in Workers,
           tgtstop(w) \/ nbdFree(w) \/ NbdDel(w) \/ BusyNbd(w) \/ BusyTgt(w)
             \/ StopOwn(w) \/ NotBusy(w)
    PROVE  TypeInv'
<1>. USE DEF TypeInv, disks, exports
<1>1. /\ nbd \in [Devices -> Clients \cup {Nothing}] /\ tgt \in [Clients -> Targets]
      /\ session \in [Clients -> BOOLEAN]
    BY DEF TypeOK, Targets
<1>2. up \in BOOLEAN
    BY Zenon DEF TypeOK
<1>3. CASE tgtstop(w)
  <2>1. JobOK'
      BY <1>3, ContinueType DEF tgtstop
  <2>2. up' \in BOOLEAN /\ tgt' \in [Clients -> Targets]
      BY <1>3, StopsTarget, Zenon DEF tgtstop
  <2>. QED  BY <1>1, <1>3, <2>1, <2>2, ExportsType, Zenon DEF tgtstop, Targets
<1>4. CASE nbdFree(w)
  <2>1. Serving(Who(w)) \subseteq 0..nbd_nbds /\ 0 \in 0..nbd_nbds
      BY PipelineAssumption DEF Serving, Devices
  <2>2. JobOK'
      BY <1>4, <2>1, GoType, EmptySeq, Zenon DEF nbdFree
  <2>. QED  BY <1>1, <1>2, <1>4, <2>2, ExportsType, Zenon DEF nbdFree, Targets
<1>5. CASE NbdDel(w)
  <2>1. JobOK'
      BY <1>5, ContinueType DEF NbdDel
  <2>2. up' \in BOOLEAN /\ tgt' \in [Clients -> Targets]
      BY <1>1, <1>2, <1>5, StopsTarget, Zenon DEF NbdDel
  <2>3. nbd' \in [Devices -> Clients \cup {Nothing}]
      BY <1>1, <1>5, Zenon DEF NbdDel
  <2>. QED  BY <1>1, <1>5, <2>1, <2>2, <2>3, ExportsType, Zenon DEF NbdDel, Targets
<1>6. CASE BusyNbd(w)
  <2>1. JobOK' /\ nbd' \in [Devices -> Clients \cup {Nothing}]
      BY <1>1, <1>6, Zenon DEF BusyNbd, JobOK
  <2>. QED  BY <1>1, <1>2, <1>6, <2>1, ExportsType, Zenon DEF BusyNbd, Targets
<1>7. CASE BusyTgt(w)
  <2>1. <<"stop", "busy">> \in Seq(Steps)
      BY StepsAre
  <2>2. JobOK'
      BY <1>7, <2>1, GoType, AtType, Zenon DEF BusyTgt
  <2>. QED  BY <1>1, <1>2, <1>7, <2>2, ExportsType, Zenon DEF BusyTgt, Targets
<1>8. CASE StopOwn(w)
  <2>1. JobOK'
      BY <1>8, ContinueType, Zenon DEF StopOwn, JobOK
  <2>2. up' \in BOOLEAN /\ tgt' \in [Clients -> Targets]
      BY <1>1, <1>2, <1>8, StopsTarget, Zenon DEF StopOwn
  <2>. QED  BY <1>1, <1>8, <2>1, <2>2, ExportsType, Zenon DEF StopOwn, Targets
<1>9. CASE NotBusy(w)
  <2>1. JobOK'
      BY <1>9, ContinueType DEF NotBusy
  <2>. QED  BY <1>1, <1>2, <1>9, <2>1, ExportsType, Zenon DEF NotBusy, Targets
<1>. QED  BY <1>3, <1>4, <1>5, <1>6, <1>7, <1>8, <1>9

LEMMA AttachType ==
    ASSUME TypeInv, NEW w \in Workers,
           Search(w) \/ NbdAdd(w) \/ TgtStart(w) \/ LunAdd(w)
    PROVE  TypeInv'
<1>. USE DEF TypeInv, disks, exports
<1>1. /\ nbd \in [Devices -> Clients \cup {Nothing}]
      /\ tgt \in [Clients -> [on : BOOLEAN, lun : 0..nbd_nbds]]
      /\ session \in [Clients -> BOOLEAN]
    BY DEF TypeOK
<1>6. up \in BOOLEAN
    BY Zenon DEF TypeOK
<1>2. CASE Search(w)
  <2>1. JobOK'
      BY <1>2, GoType, SearchType, EmptySeq, Zenon DEF Search
  <2>. QED  BY <1>1, <1>2, <2>1, <1>6, ExportsType, Zenon DEF Search
<1>3. CASE NbdAdd(w)
  <2>1. JobOK' /\ job[w].who \in Clients
      BY <1>3, AtType, ContinueType, Zenon DEF NbdAdd
  <2>2. nbd' \in [Devices -> Clients \cup {Nothing}]
      BY <1>1, <1>3, <2>1, Zenon DEF NbdAdd, Who
  <2>. QED  BY <1>1, <1>3, <2>1, <2>2, <1>6, ExportsType, Zenon DEF NbdAdd
<1>4. CASE TgtStart(w)
  <2>1. JobOK'
      BY <1>4, ContinueType DEF TgtStart
  <2>2. tgt' \in [Clients -> [on : BOOLEAN, lun : 0..nbd_nbds]]
      BY <1>1, <1>4, Zenon DEF TgtStart
  <2>3. up' \in BOOLEAN
      BY <1>4, <1>6, Zenon DEF TgtStart
  <2>. QED  BY <1>1, <1>4, <2>1, <2>2, <2>3, ExportsType, Zenon DEF TgtStart
<1>5. CASE LunAdd(w)
  <2>1. JobOK' /\ job[w].dev \in 0..nbd_nbds
      BY <1>5, AtType, ContinueType DEF LunAdd
  <2>2. tgt' \in [Clients -> [on : BOOLEAN, lun : 0..nbd_nbds]]
      BY <1>1, <1>5, <2>1 DEF LunAdd
  <2>3. session' \in [Clients -> BOOLEAN]
      BY <1>1, <1>5, Zenon DEF LunAdd
  <2>. QED  BY <1>1, <1>5, <2>1, <2>2, <2>3, <1>6, ExportsType, Zenon DEF LunAdd
<1>. QED  BY <1>2, <1>3, <1>4, <1>5

LEMMA OverlayType ==
    ASSUME TypeInv, NEW w \in Workers,
           Unsnap(w) \/ Snap(w) \/ mkChild(w) \/ KillUsers(w) \/ LockFile(w)
             \/ Create(w) \/ Merge(w)
    PROVE  TypeInv'
<1>. USE DEF TypeInv, disks, exports
<1>1. /\ golden \subseteq BOOLEAN /\ snap \in [Clients -> {"none", "fresh", "old"}]
      /\ child \in [Clients -> Overlays] /\ lockf \subseteq Clients
    BY DEF TypeOK, Overlays
<1>2. CASE Unsnap(w)
  <2>1. JobOK'
      BY <1>2, ContinueType DEF Unsnap
  <2>. QED  BY <1>1, <1>2, <2>1, DisksType, Zenon DEF Unsnap
<1>3. CASE Snap(w)
  <2>1. JobOK'
      BY <1>3, ContinueType, Zenon DEF Snap, JobOK
  <2>. QED  BY <1>1, <1>3, <2>1, DisksType, Zenon DEF Snap
<1>4. CASE mkChild(w)
  <2>1. 0 \in 0..nbd_nbds /\ \A m \in Making \cup MakingEdit \cup {<<>>} : m \in Seq(Steps)
    <3>1. 0 \in 0..nbd_nbds
        BY PipelineAssumption
    <3>. QED  BY <3>1, RestOfMaking, EmptySeq, Zenon
  <2>2. \E m \in Making \cup MakingEdit \cup {<<>>} : Go(w, m, 0)
      BY <1>4, mkChildGoes
  <2>3. JobOK'
      BY <1>4, <2>1, <2>2, GoType DEF mkChild
  <2>. QED  BY <1>1, <1>4, <2>3, DisksType DEF mkChild
<1>5. CASE KillUsers(w)
  <2>1. JobOK' /\ job[w].who \in Clients
      BY <1>5, AtType, ContinueType, Zenon DEF KillUsers
  <2>2. child' \in [Clients -> Overlays]
      BY <1>1, <1>5, NoChildType, Zenon DEF KillUsers
  <2>3. nbd' \in [Devices -> Clients \cup {Nothing}]
      BY <1>5 DEF KillUsers, TypeOK
  <2>. QED  BY <1>5, <2>1, <2>2, <2>3, Zenon DEF KillUsers, TypeOK, JobOK, Jobs, Overlays
<1>6. CASE LockFile(w)
  <2>1. JobOK' /\ job[w].who \in Clients
      BY <1>6, AtType, ContinueType, Zenon DEF LockFile
  <2>2. lockf' \subseteq Clients
      BY <1>1, <1>6, <2>1 DEF LockFile, Who
  <2>. QED  BY <1>1, <1>6, <2>1, <2>2, DisksType DEF LockFile
<1>7. CASE Create(w)
  <2>1. JobOK'
      BY <1>7, ContinueType DEF Create
  <2>2. [base |-> Parent(w), has |-> {},
         fresh |-> Parent(w) = "golden" \/ snap[Who(w)] = "fresh"] \in Overlays
      BY DEF Parent, Overlays
  <2>3. child' \in [Clients -> Overlays]
      BY <1>1, <1>7, <2>2, Zenon DEF Create
  <2>. QED  BY <1>1, <1>7, <2>1, <2>3, DisksType, Zenon DEF Create
<1>8. CASE Merge(w)
  <2>1. JobOK' /\ Who(w) \in Clients
      BY <1>8, AtType, ContinueType, Zenon DEF Merge, Who
  <2>2. child[Who(w)] \in Overlays
      BY <1>1, <2>1
  <2>3. golden' \subseteq BOOLEAN
      BY <1>1, <1>8, <2>2 DEF Merge, Overlays
  <2>4. child' \in [Clients -> Overlays]
    <3>1. \A e \in Clients : /\ [child[e] EXCEPT !.has = {}] \in Overlays
                             /\ [child[e] EXCEPT !.fresh = FALSE] \in Overlays
        BY <1>1, Zenon DEF Overlays
    <3>2. CASE child' = [e \in Clients |->
                           IF e = Who(w) THEN [child[Who(w)] EXCEPT !.has = {}]
                           ELSE [child[e] EXCEPT !.fresh = FALSE]]
        BY <2>1, <3>1, <3>2, Zenon
    <3>3. CASE child' = child
        BY <1>1, <3>3
    <3>. QED  BY <1>8, <3>2, <3>3 DEF Merge
  <2>5. snap' \in [Clients -> {"none", "fresh", "old"}]
      BY <1>1, <1>8 DEF Merge
  <2>. QED  BY <1>1, <1>8, <2>1, <2>3, <2>4, <2>5, DisksType DEF Merge
<1>. QED  BY <1>2, <1>3, <1>4, <1>5, <1>6, <1>7, <1>8

LEMMA ServicesType ==
    ASSUME TypeInv, ServiceStops \/ monit
    PROVE  TypeInv'
<1>1. UNCHANGED <<conf, golden, snap, child, lockf, nbd, session, job>>
    BY DEF ServiceStops, monit, disks
<1>2. up' \in BOOLEAN
    BY Zenon DEF ServiceStops, monit
<1>3. faults' \in 0..MaxFaults
    BY PipelineAssumption DEF ServiceStops, monit, TypeInv, TypeOK
<1>4. tgt' \in [Clients -> Targets]
  <2>1. tgt \in [Clients -> Targets] /\ NoTarget \in Targets
      BY PipelineAssumption DEF TypeInv, TypeOK, Targets, NoTarget
  <2>. QED  BY <2>1, Zenon DEF ServiceStops, monit
<1>. QED  BY <1>1, <1>2, <1>3, <1>4, Zenon DEF TypeInv, TypeOK, JobOK, Jobs, Targets

\* Every variable keeps its type, with any number of workers, whichever of them
\* are killed in the middle of a request and whichever services stop: a worker's
\* commands are those of a request, its device is one of the server's or none,
\* and so is a LUN's.
THEOREM PipelineTypeCorrect == Spec => []TypeOK
<1>1. Init => TypeInv
    BY InitType
<1>2. TypeInv /\ [Next]_vars => TypeInv'
  <2>. SUFFICES ASSUME TypeInv, [Next]_vars PROVE TypeInv'
      OBVIOUS
  <2>1. ASSUME NEW w \in Workers, Run(w) PROVE TypeInv'
      BY <2>1, SaveType, StopType, AttachType, OverlayType DEF Run
  <2>2. ASSUME NEW w \in Workers, Kill(w) PROVE TypeInv'
      BY <2>2, KillType
  <2>3. ASSUME NEW w \in Workers, NEW c \in Clients, Request(w, c) PROVE TypeInv'
      BY <2>3, RequestType
  <2>4. ASSUME NEW c \in Clients, Write(c) PROVE TypeInv'
      BY <2>4, WriteType
  <2>5. CASE ServiceStops \/ monit
      BY <2>5, ServicesType
  <2>6. CASE UNCHANGED vars
      BY <2>6, Zenon DEF vars, disks, exports, TypeInv, TypeOK, JobOK, Jobs
  <2>. QED  BY <2>1, <2>2, <2>3, <2>4, <2>5, <2>6 DEF Next
<1>3. TypeInv => TypeOK
    BY DEF TypeInv
<1>. QED  BY <1>1, <1>2, <1>3, PTL DEF Spec

-----------------------------------------------------------------------------
\* Where the only worker is, and where a command takes it.

InOthers(w, step) ==
    /\ Tail(job[w].todo) \in Others \cup {<<>>}
    /\ step \in {"tgtstop", "nbdFree", "del", "commit"} \cup Modes

InBoot(w, step, k) ==
    /\ step = Boot[k] /\ job[w].todo = Rest(k)
    /\ Tail(job[w].todo) = IF k = 13 THEN <<>> ELSE Rest(k + 1)
    /\ Ready(job[w], k) /\ (k > 8 => Clean(job[w]))

InMaking(w, step, m) ==
    /\ step = Head(m) /\ Tail(job[w].todo) = Tail(m) \o Rest(9)
    /\ Ready(job[w], 9) /\ Fits(job[w], m)

\* Where in a boot each step stands.
LEMMA BootIndex ==
    ASSUME NEW k \in 1..13
    PROVE  /\ Boot[k] = "tgtstop" <=> k = 1
           /\ Boot[k] = "nbdFree" <=> k \in {2, 4}
           /\ Boot[k] = "del" <=> k \in {3, 5}
           /\ Boot[k] = "unsnap" <=> k = 6
           /\ Boot[k] = "snap" <=> k = 7
           /\ Boot[k] = "mkChild" <=> k = 8
           /\ Boot[k] = "search" <=> k = 9
           /\ Boot[k] = "busy" <=> k = 10
           /\ Boot[k] = "add" <=> k = 11
           /\ Boot[k] = "tgtstart" <=> k = 12
           /\ Boot[k] = "LunAdd" <=> k = 13
           /\ Boot[k] \notin {"kill", "lock", "unlock", "create", "commit", "stop"} \cup Modes
BY DEF Boot, Modes

\* A step is taken in a boot, while an overlay is made, or in one of the other
\* requests.
LEMMA Where ==
    ASSUME NEW w, NEW step, At(w, step), Sound(job[w])
    PROVE  \/ InOthers(w, step)
           \/ \E k \in 1..13 : InBoot(w, step, k)
           \/ \E m \in Making \cup MakingEdit : InMaking(w, step, m)
<1>1. job[w].todo # <<>> /\ Head(job[w].todo) = step
    BY DEF At
<1>2. CASE job[w].todo \in Others \cup {<<>>}
    BY <1>1, <1>2, RestOfOthers DEF InOthers
<1>3. ASSUME NEW k \in 1..Len(Boot), job[w].todo = Rest(k), Ready(job[w], k),
             k > 8 => Clean(job[w])
      PROVE  k \in 1..13 /\ InBoot(w, step, k)
    BY <1>1, <1>3, RestOfBoot, BootSeq, Zenon DEF InBoot
<1>4. ASSUME NEW m \in Making \cup MakingEdit, job[w].todo = m \o Rest(9),
             Ready(job[w], 9), Fits(job[w], m)
      PROVE  InMaking(w, step, m)
  <2>1. Rest(9) \in Seq(Steps)
      BY RestOfBoot
  <2>2. m \in Seq(Steps) /\ m # <<>>
      BY RestOfMaking
  <2>3. Head(job[w].todo) = Head(m) /\ Tail(job[w].todo) = Tail(m) \o Rest(9)
      BY <1>4, <2>1, <2>2, ConcatHead
  <2>. QED  BY <1>1, <1>4, <2>3 DEF InMaking
<1>. QED  BY <1>2, <1>3, <1>4, Zenon DEF Sound

\* The same for each command.
LEMMA WhereCommand ==
    ASSUME NEW w, NEW step, At(w, step), Sound(job[w])
    PROVE  /\ step = "tgtstop" => InOthers(w, step) \/ InBoot(w, step, 1)
           /\ step = "nbdFree" =>
                InOthers(w, step) \/ InBoot(w, step, 2) \/ InBoot(w, step, 4)
           /\ step = "del" =>
                InOthers(w, step) \/ InBoot(w, step, 3) \/ InBoot(w, step, 5)
           /\ step = "unsnap" => InBoot(w, step, 6)
           /\ step = "snap" => InBoot(w, step, 7)
           /\ step = "mkChild" => InBoot(w, step, 8)
           /\ step = "search" => InBoot(w, step, 9)
           /\ step = "busy" => InBoot(w, step, 10)
           /\ step # "stop"
           /\ step = "add" => InBoot(w, step, 11)
           /\ step = "tgtstart" => InBoot(w, step, 12)
           /\ step = "LunAdd" => InBoot(w, step, 13)
           /\ step \in {"commit"} \cup Modes => InOthers(w, step)
           /\ step \in {"kill", "lock", "unlock", "create"} =>
                \E m \in Making \cup MakingEdit : InMaking(w, step, m)
<1>1. CASE InOthers(w, step)
    BY <1>1 DEF InOthers, Modes
<1>2. CASE \E k \in 1..13 : InBoot(w, step, k)
  <2>1. PICK k \in 1..13 : InBoot(w, step, k)
      BY <1>2
  <2>2. step = Boot[k]
      BY <2>1 DEF InBoot
  <2>. QED  BY <2>1, <2>2, BootIndex
<1>3. CASE \E m \in Making \cup MakingEdit : InMaking(w, step, m)
  <2>1. step \in {"kill", "lock", "unlock", "create"}
      BY <1>3, RestOfMaking DEF InMaking
  <2>. QED  BY <1>3, <2>1 DEF Modes
<1>. QED  BY <1>1, <1>2, <1>3, Where, Zenon

\* What a command leaves of its request.
LEMMA GoesOn ==
    ASSUME JobOK, NEW w \in Workers, NEW step, At(w, step), NEW more \in Seq(Steps), NEW d,
           Go(w, more, d)
    PROVE  /\ job'[w].todo = more \o Tail(job[w].todo)
           /\ job'[w].todo # <<>> =>
                job'[w].who = job[w].who /\ job'[w].conf = job[w].conf /\ job'[w].dev = d
<1> DEFINE rest == more \o Tail(job[w].todo)
           next == [job[w] EXCEPT !.todo = rest, !.dev = d]
<1>1. job'[w] = IF rest = <<>> THEN Idle ELSE next
    BY DEF Go, JobOK
<1>2. job[w] \in Jobs
    BY DEF JobOK
<1>. HIDE DEF rest
<1>3. next.todo = rest /\ next.who = job[w].who /\ next.conf = job[w].conf /\ next.dev = d
    BY <1>2 DEF Jobs
<1>4. job'[w].todo = rest
    BY <1>1, <1>3, IdleType
<1>5. job'[w].todo # <<>> =>
        job'[w].who = job[w].who /\ job'[w].conf = job[w].conf /\ job'[w].dev = d
    BY <1>1, <1>3, <1>4
<1>. QED  BY <1>4, <1>5 DEF rest

\* A request that goes on has the rest of its steps left.
LEMMA ContinuesOn ==
    ASSUME JobOK, NEW w \in Workers, NEW step, At(w, step), NEW d, Go(w, <<>>, d)
    PROVE  /\ job'[w].todo = Tail(job[w].todo)
           /\ job'[w].todo # <<>> =>
                job'[w].who = job[w].who /\ job'[w].conf = job[w].conf /\ job'[w].dev = d
<1>1. Tail(job[w].todo) \in Seq(Steps)
    BY AtType
<1>2. <<>> \o Tail(job[w].todo) = Tail(job[w].todo)
    BY <1>1, ConcatEmptySeq
<1>3. <<>> \in Seq(Steps)
    BY EmptySeq
<1>. QED  BY <1>2, <1>3, GoesOn, Zenon

\* In a boot the next step is the one that follows.
LEMMA NextCommand ==
    ASSUME JobOK, NEW w \in Workers, NEW step, At(w, step), NEW k \in 1..12,
           InBoot(w, step, k), NEW d, Go(w, <<>>, d)
    PROVE  /\ job'[w].todo = Rest(k + 1) /\ job'[w].who = job[w].who
           /\ job'[w].conf = job[w].conf /\ job'[w].dev = d
<1>1. job'[w].todo = Rest(k + 1)
  <2>1. job'[w].todo = Tail(job[w].todo)
      BY ContinuesOn
  <2>2. Tail(job[w].todo) = Rest(k + 1)
      BY DEF InBoot
  <2>. QED  BY <2>1, <2>2
<1>2. job'[w].todo # <<>>
  <2>1. k + 1 \in 1..13
      OBVIOUS
  <2>2. Rest(k + 1) # <<>>
      BY <2>1, RestOfBoot, Zenon
  <2>. QED  BY <1>1, <2>2
<1>. QED  BY <1>1, <1>2, ContinuesOn

\* The same for each command.
Went(w, k, d) ==
    /\ job'[w].todo = Rest(k) /\ job'[w].who = job[w].who
    /\ job'[w].conf = job[w].conf /\ job'[w].dev = d

LEMMA NextCommands ==
    ASSUME JobOK, NEW w \in Workers, NEW step, At(w, step), NEW d, Go(w, <<>>, d)
    PROVE  /\ InBoot(w, step, 1) => Went(w, 2, d)
           /\ InBoot(w, step, 2) => Went(w, 3, d)
           /\ InBoot(w, step, 3) => Went(w, 4, d)
           /\ InBoot(w, step, 4) => Went(w, 5, d)
           /\ InBoot(w, step, 5) => Went(w, 6, d)
           /\ InBoot(w, step, 6) => Went(w, 7, d)
           /\ InBoot(w, step, 7) => Went(w, 8, d)
           /\ InBoot(w, step, 8) => Went(w, 9, d)
           /\ InBoot(w, step, 9) => Went(w, 10, d)
           /\ InBoot(w, step, 10) => Went(w, 11, d)
           /\ InBoot(w, step, 11) => Went(w, 12, d)
           /\ InBoot(w, step, 12) => Went(w, 13, d)
<1>1. ASSUME NEW k \in 1..12, NEW n, n = k + 1, InBoot(w, step, k)
      PROVE  Went(w, n, d)
    BY <1>1, NextCommand DEF Went
<1>2. InBoot(w, step, 1) => Went(w, 2, d)
  <2>1. 1 \in 1..12 /\ 2 = 1 + 1
      OBVIOUS
  <2>. QED  BY <1>1, <2>1, Zenon
<1>3. InBoot(w, step, 2) => Went(w, 3, d)
  <2>1. 2 \in 1..12 /\ 3 = 2 + 1
      OBVIOUS
  <2>. QED  BY <1>1, <2>1, Zenon
<1>4. InBoot(w, step, 3) => Went(w, 4, d)
  <2>1. 3 \in 1..12 /\ 4 = 3 + 1
      OBVIOUS
  <2>. QED  BY <1>1, <2>1, Zenon
<1>5. InBoot(w, step, 4) => Went(w, 5, d)
  <2>1. 4 \in 1..12 /\ 5 = 4 + 1
      OBVIOUS
  <2>. QED  BY <1>1, <2>1, Zenon
<1>6. InBoot(w, step, 5) => Went(w, 6, d)
  <2>1. 5 \in 1..12 /\ 6 = 5 + 1
      OBVIOUS
  <2>. QED  BY <1>1, <2>1, Zenon
<1>7. InBoot(w, step, 6) => Went(w, 7, d)
  <2>1. 6 \in 1..12 /\ 7 = 6 + 1
      OBVIOUS
  <2>. QED  BY <1>1, <2>1, Zenon
<1>8. InBoot(w, step, 7) => Went(w, 8, d)
  <2>1. 7 \in 1..12 /\ 8 = 7 + 1
      OBVIOUS
  <2>. QED  BY <1>1, <2>1, Zenon
<1>9. InBoot(w, step, 8) => Went(w, 9, d)
  <2>1. 8 \in 1..12 /\ 9 = 8 + 1
      OBVIOUS
  <2>. QED  BY <1>1, <2>1, Zenon
<1>10. InBoot(w, step, 9) => Went(w, 10, d)
  <2>1. 9 \in 1..12 /\ 10 = 9 + 1
      OBVIOUS
  <2>. QED  BY <1>1, <2>1, Zenon
<1>11. InBoot(w, step, 10) => Went(w, 11, d)
  <2>1. 10 \in 1..12 /\ 11 = 10 + 1
      OBVIOUS
  <2>. QED  BY <1>1, <2>1, Zenon
<1>12. InBoot(w, step, 11) => Went(w, 12, d)
  <2>1. 11 \in 1..12 /\ 12 = 11 + 1
      OBVIOUS
  <2>. QED  BY <1>1, <2>1, Zenon
<1>13. InBoot(w, step, 12) => Went(w, 13, d)
  <2>1. 12 \in 1..12 /\ 13 = 12 + 1
      OBVIOUS
  <2>. QED  BY <1>1, <2>1, Zenon
<1>. QED  BY <1>2, <1>3, <1>4, <1>5, <1>6, <1>7,
              <1>8, <1>9, <1>10, <1>11, <1>12, <1>13, Zenon

\* What each command of a boot relies on, written out.
Own(j) == j.dev # 0 => nbd[j.dev] \in {j.who, Nothing}

LEMMA Relies ==
    ASSUME NEW w, NEW step
    PROVE  LET j == job[w]
               c == job[w].who
           IN  /\ InBoot(w, step, 5) => Serving(c) \subseteq {j.dev}
               /\ InBoot(w, step, 6) => Serving(c) = {}
               /\ InBoot(w, step, 7) => Serving(c) = {} /\ snap[c] # "old"
               /\ InBoot(w, step, 8) => Serving(c) = {} /\ snap[c] = "fresh" /\ Tail(j.todo) = Rest(9)
               /\ InBoot(w, step, 9) => Serving(c) = {} /\ Clean(j)
               /\ InBoot(w, step, 10) => Serving(c) = {} /\ ~used(j.dev) /\ Clean(j)
               /\ InBoot(w, step, 11) => Serving(c) = {} /\ ~used(j.dev) /\ Clean(j)
               /\ InBoot(w, step, 12) => Blank(c) /\ Own(j) /\ Clean(j)
               /\ InBoot(w, step, 13) => /\ Blank(c) /\ c \in Enabled /\ Own(j)
                                          /\ Clean(j) /\ Tail(j.todo) = <<>>
<1>1. ASSUME InBoot(w, step, 5)
      PROVE  Serving(job[w].who) \subseteq {job[w].dev}
  <2>1. Ready(job[w], 5)
      BY <1>1, Zenon DEF InBoot
  <2>2. Serving(job[w].who) \subseteq {job[w].dev}
      BY <2>1 DEF Ready, Own
  <2>. QED  BY <2>2
<1>2. ASSUME InBoot(w, step, 6)
      PROVE  Serving(job[w].who) = {}
  <2>1. Ready(job[w], 6)
      BY <1>2, Zenon DEF InBoot
  <2>2. Serving(job[w].who) = {}
      BY <2>1 DEF Ready, Own
  <2>. QED  BY <2>2
<1>3. ASSUME InBoot(w, step, 7)
      PROVE  /\ Serving(job[w].who) = {} /\ snap[job[w].who] # "old"
  <2>1. Ready(job[w], 7)
      BY <1>3, Zenon DEF InBoot
  <2>2. Serving(job[w].who) = {} /\ snap[job[w].who] # "old"
      BY <2>1 DEF Ready, Own
  <2>. QED  BY <2>2
<1>4. ASSUME InBoot(w, step, 8)
      PROVE  /\ Serving(job[w].who) = {} /\ snap[job[w].who] = "fresh"
             /\ Tail(job[w].todo) = Rest(9)
  <2>1. Ready(job[w], 8)
      BY <1>4, Zenon DEF InBoot
  <2>2. Serving(job[w].who) = {} /\ snap[job[w].who] = "fresh"
      BY <2>1 DEF Ready, Own
  <2>3. Tail(job[w].todo) = Rest(9)
      BY <1>4 DEF InBoot
  <2>. QED  BY <2>2, <2>3
<1>5. ASSUME InBoot(w, step, 9)
      PROVE  /\ Serving(job[w].who) = {} /\ Clean(job[w])
  <2>1. Ready(job[w], 9)
      BY <1>5, Zenon DEF InBoot
  <2>2. Serving(job[w].who) = {}
      BY <2>1 DEF Ready, Own
  <2>3. 9 > 8
      OBVIOUS
  <2>4. Clean(job[w])
      BY <1>5, <2>3, Zenon DEF InBoot
  <2>. QED  BY <2>2, <2>4
<1>6. ASSUME InBoot(w, step, 10)
      PROVE  /\ Serving(job[w].who) = {} /\ ~used(job[w].dev)
             /\ Clean(job[w])
  <2>1. Ready(job[w], 10)
      BY <1>6, Zenon DEF InBoot
  <2>2. Serving(job[w].who) = {} /\ ~used(job[w].dev)
      BY <2>1 DEF Ready, Own
  <2>3. 10 > 8
      OBVIOUS
  <2>4. Clean(job[w])
      BY <1>6, <2>3, Zenon DEF InBoot
  <2>. QED  BY <2>2, <2>4
<1>7. ASSUME InBoot(w, step, 11)
      PROVE  /\ Serving(job[w].who) = {} /\ ~used(job[w].dev)
             /\ Clean(job[w])
  <2>1. Ready(job[w], 11)
      BY <1>7, Zenon DEF InBoot
  <2>2. Serving(job[w].who) = {} /\ ~used(job[w].dev)
      BY <2>1 DEF Ready, Own
  <2>3. 11 > 8
      OBVIOUS
  <2>4. Clean(job[w])
      BY <1>7, <2>3, Zenon DEF InBoot
  <2>. QED  BY <2>2, <2>4
<1>8. ASSUME InBoot(w, step, 12)
      PROVE  /\ Blank(job[w].who) /\ Own(job[w])
             /\ Clean(job[w])
  <2>1. Ready(job[w], 12)
      BY <1>8, Zenon DEF InBoot
  <2>2. Blank(job[w].who) /\ Own(job[w])
      BY <2>1 DEF Ready, Own
  <2>3. 12 > 8
      OBVIOUS
  <2>4. Clean(job[w])
      BY <1>8, <2>3, Zenon DEF InBoot
  <2>. QED  BY <2>2, <2>4
<1>9. ASSUME InBoot(w, step, 13)
      PROVE  /\ Blank(job[w].who) /\ job[w].who \in Enabled
             /\ Own(job[w]) /\ Clean(job[w]) /\ Tail(job[w].todo) = <<>>
  <2>1. Ready(job[w], 13)
      BY <1>9, Zenon DEF InBoot
  <2>2. Blank(job[w].who) /\ job[w].who \in Enabled /\ Own(job[w])
      BY <2>1 DEF Ready, Own
  <2>3. 13 > 8
      OBVIOUS
  <2>4. Clean(job[w]) /\ Tail(job[w].todo) = <<>>
      BY <1>9, <2>3, Zenon DEF InBoot
  <2>. QED  BY <2>2, <2>4
<1>. QED  BY <1>1, <1>2, <1>3, <1>4, <1>5, <1>6, <1>7, <1>8, <1>9, Zenon

-----------------------------------------------------------------------------
\* The inductive invariant.

Disks == /\ OwnDisk /\ ServedOnce /\ EditsOnGolden /\ Made /\ TargetsEnabled
         /\ GoldenHasOnlyEdits

IInv == /\ OneWorker /\ TypeInv /\ Disks
        /\ \A w \in Workers : Sound(job[w])

\* With one worker it is enough to look at the one that took the step.
LEMMA OnlyWorker ==
    ASSUME OneWorker, NEW w \in Workers, TypeInv', Disks', Sound(job[w])'
    PROVE  IInv'
BY DEF IInv, OneWorker

\* A request that does not boot relies on nothing.
LEMMA SoundOthers ==
    ASSUME JobOK, NEW w \in Workers, NEW step, At(w, step), InOthers(w, step),
           NEW d, Go(w, <<>>, d)
    PROVE  Sound(job[w])'
<1>1. job'[w].todo \in Others \cup {<<>>}
    BY ContinuesOn, Zenon DEF InOthers
<1>. QED  BY <1>1 DEF Sound

\* What a boot relies on, from the step it has come to.
LEMMA SoundBoot ==
    ASSUME NEW w, NEW k \in 1..13, job'[w].todo = Rest(k), Ready(job[w], k)',
           k > 8 => Clean(job[w])'
    PROVE  Sound(job[w])'
BY BootSeq, Zenon DEF Sound, Rest

\* The same, written out for each command.
Arrived(w) ==
    /\ (job[w].who \in Clients)'
    /\ \/ job'[w].todo \in {Rest(1), Rest(2), Rest(3), Rest(4)}
       \/ job'[w].todo = Rest(5) /\ Serving(job[w].who)' \subseteq {job'[w].dev}
       \/ /\ Serving(job[w].who)' = {}
          /\ \/ job'[w].todo = Rest(6)
             \/ job'[w].todo = Rest(7) /\ (snap[job[w].who] # "old")'
             \/ job'[w].todo = Rest(8) /\ (snap[job[w].who] = "fresh")'
             \/ job'[w].todo = Rest(9) /\ (snap[job[w].who] = "fresh")' /\ Clean(job[w])'
             \/ /\ job'[w].todo \in {Rest(10), Rest(11)}
                /\ Clean(job[w])' /\ ~used(job[w].dev)'
       \/ /\ Blank(job[w].who)' /\ Clean(job[w])' /\ Own(job[w])'
          /\ \/ job'[w].todo = Rest(12)
             \/ job'[w].todo = Rest(13) /\ (job[w].who \in Enabled)'

LEMMA SoundAt ==
    ASSUME NEW w, Arrived(w)
    PROVE  Sound(job[w])'
<1>1. ASSUME job'[w].todo = Rest(1),
             (job[w].who \in Clients)'
      PROVE  Sound(job[w])'
  <2>1. 1 \in 1..13 /\ ~(1 > 8)
      OBVIOUS
  <2>2. Ready(job[w], 1)'
      BY <1>1 DEF Ready, Own
  <2>. QED  BY <1>1, <2>1, <2>2, SoundBoot, Zenon
<1>2. ASSUME job'[w].todo = Rest(2),
             (job[w].who \in Clients)'
      PROVE  Sound(job[w])'
  <2>1. 2 \in 1..13 /\ ~(2 > 8)
      OBVIOUS
  <2>2. Ready(job[w], 2)'
      BY <1>2 DEF Ready, Own
  <2>. QED  BY <1>2, <2>1, <2>2, SoundBoot, Zenon
<1>3. ASSUME job'[w].todo = Rest(3),
             (job[w].who \in Clients)'
      PROVE  Sound(job[w])'
  <2>1. 3 \in 1..13 /\ ~(3 > 8)
      OBVIOUS
  <2>2. Ready(job[w], 3)'
      BY <1>3 DEF Ready, Own
  <2>. QED  BY <1>3, <2>1, <2>2, SoundBoot, Zenon
<1>4. ASSUME job'[w].todo = Rest(4),
             (job[w].who \in Clients)'
      PROVE  Sound(job[w])'
  <2>1. 4 \in 1..13 /\ ~(4 > 8)
      OBVIOUS
  <2>2. Ready(job[w], 4)'
      BY <1>4 DEF Ready, Own
  <2>. QED  BY <1>4, <2>1, <2>2, SoundBoot, Zenon
<1>5. ASSUME job'[w].todo = Rest(5),
             (job[w].who \in Clients /\ Serving(job[w].who) \subseteq {job[w].dev})'
      PROVE  Sound(job[w])'
  <2>1. 5 \in 1..13 /\ ~(5 > 8)
      OBVIOUS
  <2>2. Ready(job[w], 5)'
      BY <1>5 DEF Ready, Own
  <2>. QED  BY <1>5, <2>1, <2>2, SoundBoot, Zenon
<1>6. ASSUME job'[w].todo = Rest(6),
             (job[w].who \in Clients /\ Serving(job[w].who) = {})'
      PROVE  Sound(job[w])'
  <2>1. 6 \in 1..13 /\ ~(6 > 8)
      OBVIOUS
  <2>2. Ready(job[w], 6)'
      BY <1>6 DEF Ready, Own
  <2>. QED  BY <1>6, <2>1, <2>2, SoundBoot, Zenon
<1>7. ASSUME job'[w].todo = Rest(7),
             (job[w].who \in Clients /\ Serving(job[w].who) = {} /\ snap[job[w].who] # "old")'
      PROVE  Sound(job[w])'
  <2>1. 7 \in 1..13 /\ ~(7 > 8)
      OBVIOUS
  <2>2. Ready(job[w], 7)'
      BY <1>7 DEF Ready, Own
  <2>. QED  BY <1>7, <2>1, <2>2, SoundBoot, Zenon
<1>8. ASSUME job'[w].todo = Rest(8),
             (job[w].who \in Clients /\ Serving(job[w].who) = {} /\ snap[job[w].who] = "fresh")'
      PROVE  Sound(job[w])'
  <2>1. 8 \in 1..13 /\ ~(8 > 8)
      OBVIOUS
  <2>2. Ready(job[w], 8)'
      BY <1>8 DEF Ready, Own
  <2>. QED  BY <1>8, <2>1, <2>2, SoundBoot, Zenon
<1>9. ASSUME job'[w].todo = Rest(9),
             (job[w].who \in Clients /\ Serving(job[w].who) = {} /\ snap[job[w].who] = "fresh")',
             Clean(job[w])'
      PROVE  Sound(job[w])'
  <2>1. 9 \in 1..13
      OBVIOUS
  <2>2. Ready(job[w], 9)'
      BY <1>9 DEF Ready, Own
  <2>. QED  BY <1>9, <2>1, <2>2, SoundBoot, Zenon
<1>10. ASSUME job'[w].todo = Rest(10),
             (job[w].who \in Clients /\ Serving(job[w].who) = {} /\ ~used(job[w].dev))', Clean(job[w])'
      PROVE  Sound(job[w])'
  <2>1. 10 \in 1..13
      OBVIOUS
  <2>2. Ready(job[w], 10)'
      BY <1>10 DEF Ready, Own
  <2>. QED  BY <1>10, <2>1, <2>2, SoundBoot, Zenon
<1>11. ASSUME job'[w].todo = Rest(11),
             (job[w].who \in Clients /\ Serving(job[w].who) = {} /\ ~used(job[w].dev))', Clean(job[w])'
      PROVE  Sound(job[w])'
  <2>1. 11 \in 1..13
      OBVIOUS
  <2>2. Ready(job[w], 11)'
      BY <1>11 DEF Ready, Own
  <2>. QED  BY <1>11, <2>1, <2>2, SoundBoot, Zenon
<1>12. ASSUME job'[w].todo = Rest(12),
             (job[w].who \in Clients /\ Blank(job[w].who) /\ Own(job[w]))', Clean(job[w])'
      PROVE  Sound(job[w])'
  <2>1. 12 \in 1..13
      OBVIOUS
  <2>2. Ready(job[w], 12)'
      BY <1>12 DEF Ready, Own
  <2>. QED  BY <1>12, <2>1, <2>2, SoundBoot, Zenon
<1>13. ASSUME job'[w].todo = Rest(13),
             (job[w].who \in Clients /\ Blank(job[w].who) /\ job[w].who \in Enabled /\ Own(job[w]))', Clean(job[w])'
      PROVE  Sound(job[w])'
  <2>1. 13 \in 1..13
      OBVIOUS
  <2>2. Ready(job[w], 13)'
      BY <1>13 DEF Ready, Own
  <2>. QED  BY <1>13, <2>1, <2>2, SoundBoot, Zenon
<1>. QED  BY <1>1, <1>2, <1>3, <1>4, <1>5, <1>6, <1>7,
              <1>8, <1>9, <1>10, <1>11, <1>12, <1>13, Zenon DEF Arrived

LEMMA SaveIInv ==
    ASSUME IInv, NEW w \in Workers, NEW mode \in Modes, SaveToFile(w, mode)
    PROVE  IInv'
<1>1. JobOK /\ OneWorker /\ Sound(job[w]) /\ At(w, mode) /\ Continue(w)
    BY DEF IInv, TypeInv, SaveToFile
<1>2. InOthers(w, mode)
    BY <1>1, WhereCommand
<1>3. Sound(job[w])'
    BY <1>1, <1>2, SoundOthers DEF Continue
<1>4. Disks'
    BY Zenon DEF IInv, Disks, OwnDisk, ServedOnce, EditsOnGolden,
                Made, TargetsEnabled, Blank, GoldenHasOnlyEdits,
           SaveToFile, disks, exports
<1>. QED  BY <1>1, <1>3, <1>4, SaveType, OnlyWorker DEF IInv

\* A LUN that leads somewhere leads to a device.
LEMMA LunDevice ==
    ASSUME tgt \in [Clients -> [on : BOOLEAN, lun : 0..nbd_nbds]], NEW c \in Clients,
           tgt[c].lun # 0
    PROVE  tgt[c].lun \in Devices
<1>1. tgt[c].lun \in 0..nbd_nbds
    OBVIOUS
<1>. QED  BY <1>1, PipelineAssumption DEF Devices

\* A step that stops targets and disconnects devices harms no disk.
LEMMA ReleaseDisks ==
    ASSUME IInv, UNCHANGED <<golden, child, session>>,
           \A e \in Clients : tgt'[e] = tgt[e] \/ tgt'[e] = NoTarget,
           \A d \in Devices : nbd'[d] = nbd[d] \/ nbd'[d] = Nothing
    PROVE  Disks'
<1>1. NoTarget.lun = 0 /\ ~NoTarget.on
    BY Zenon DEF NoTarget
<1>2. tgt \in [Clients -> [on : BOOLEAN, lun : 0..nbd_nbds]]
    BY DEF IInv, TypeInv, TypeOK
<1>3. \A e \in Clients : tgt'[e].lun # 0 => tgt'[e].lun = tgt[e].lun /\ tgt[e].lun \in Devices
    BY <1>1, <1>2, LunDevice, Zenon
<1>4. \A e \in Clients : Blank(e) => Blank(e)'
    BY <1>3, Zenon DEF Blank
<1>5. OwnDisk'
    BY <1>3, Zenon DEF IInv, Disks, OwnDisk
<1>6. ServedOnce' /\ Made'
    BY Zenon DEF IInv, Disks, ServedOnce, Made, NoChild
<1>7. EditsOnGolden'
    BY <1>4, Zenon DEF IInv, Disks, EditsOnGolden
<1>8. TargetsEnabled' /\ GoldenHasOnlyEdits'
    BY <1>1, Zenon DEF IInv, Disks, TargetsEnabled, GoldenHasOnlyEdits
<1>. QED  BY <1>5, <1>6, <1>7, <1>8 DEF Disks

LEMMA tgtstopIInv ==
    ASSUME IInv, NEW w \in Workers, tgtstop(w)
    PROVE  IInv'
<1>1. JobOK /\ OneWorker /\ Sound(job[w]) /\ At(w, "tgtstop") /\ Continue(w)
    BY DEF IInv, TypeInv, tgtstop
<1>2. job[w].who \in Clients
    BY <1>1, AtType
<1>3. \A e \in Clients : tgt'[e] = tgt[e] \/ tgt'[e] = NoTarget
    BY StopsTarget, Zenon DEF IInv, TypeInv, tgtstop
<1>4. Disks'
    BY <1>3, ReleaseDisks, Zenon DEF tgtstop, disks
<1>5. ASSUME InOthers(w, "tgtstop")
      PROVE  Sound(job[w])'
    BY <1>1, <1>5, SoundOthers DEF Continue
<1>6. ASSUME InBoot(w, "tgtstop", 1)
      PROVE  Sound(job[w])'
  <2>1. job'[w].todo = Rest(2) /\ job'[w].who = job[w].who
      BY <1>1, <1>6, NextCommands, Zenon DEF Continue, Went
  <2>. QED  BY <1>2, <2>1, SoundAt, Zenon DEF Arrived
<1>7. Sound(job[w])'
    BY <1>1, <1>5, <1>6, WhereCommand, Zenon
<1>. QED  BY <1>1, <1>4, <1>7, StopType, OnlyWorker, Zenon DEF IInv

LEMMA nbdFreeIInv ==
    ASSUME IInv, NEW w \in Workers, nbdFree(w)
    PROVE  IInv'
<1>1. JobOK /\ OneWorker /\ Sound(job[w]) /\ At(w, "nbdFree")
    BY DEF IInv, TypeInv, nbdFree
<1>2. job[w].who \in Clients
    BY <1>1, AtType
<1>3. UNCHANGED <<golden, snap, child, lockf, nbd, tgt, session>>
    BY DEF nbdFree, disks, exports
<1>4. Disks'
    BY <1>3, Zenon DEF IInv, Disks, OwnDisk, ServedOnce, EditsOnGolden,
                Made, TargetsEnabled, Blank, GoldenHasOnlyEdits
<1>5. PICK d : Go(w, <<>>, d) /\ Serving(job[w].who) \subseteq {d}
    BY <1>2, PipelineAssumption DEF nbdFree, Who, Serving, IInv, Disks, ServedOnce
<1>6. ASSUME InOthers(w, "nbdFree")
      PROVE  Sound(job[w])'
    BY <1>1, <1>5, <1>6, SoundOthers
<1>7. ASSUME InBoot(w, "nbdFree", 2) \/ InBoot(w, "nbdFree", 4)
      PROVE  Sound(job[w])'
  <2>1. Went(w, 3, d) \/ Went(w, 5, d)
      BY <1>1, <1>5, <1>7, NextCommands, Zenon
  <2>2. job'[w].who = job[w].who /\ job'[w].dev = d
      BY <2>1, Zenon DEF Went
  <2>3. Serving(job[w].who)' \subseteq {d}
      BY <1>3, <1>5, <2>2, Zenon DEF Serving
  <2>. QED  BY <1>2, <2>1, <2>2, <2>3, SoundAt, Zenon DEF Went, Arrived
<1>8. Sound(job[w])'
    BY <1>1, <1>6, <1>7, WhereCommand, Zenon
<1>. QED  BY <1>1, <1>4, <1>8, StopType, OnlyWorker, Zenon DEF IInv

LEMMA NbdDelIInv ==
    ASSUME IInv, NEW w \in Workers, NbdDel(w)
    PROVE  IInv'
<1> DEFINE c == job[w].who
           d == job[w].dev
<1>1. JobOK /\ OneWorker /\ Sound(job[w]) /\ At(w, "del") /\ Continue(w)
    BY DEF IInv, TypeInv, NbdDel
<1>2. c \in Clients
    BY <1>1, AtType
<1>3. /\ nbd' = [e \in Devices |-> IF e = d THEN Nothing ELSE nbd[e]]
      /\ UNCHANGED <<golden, snap, child, lockf, session>>
    BY DEF NbdDel, disks
<1>4. \A e \in Clients : tgt'[e] = tgt[e] \/ tgt'[e] = NoTarget
    BY StopsTarget, Zenon DEF IInv, TypeInv, NbdDel
<1>5. \A e \in Devices : nbd'[e] = nbd[e] \/ nbd'[e] = Nothing
    BY <1>3
<1>6. Disks'
    BY <1>3, <1>4, <1>5, ReleaseDisks, Zenon
<1>7. ASSUME InOthers(w, "del")
      PROVE  Sound(job[w])'
    BY <1>1, <1>7, SoundOthers DEF Continue
<1>8. ASSUME InBoot(w, "del", 3) \/ InBoot(w, "del", 5)
      PROVE  Sound(job[w])'
  <2>1. (InBoot(w, "del", 5) /\ Went(w, 6, d)) \/ Went(w, 4, d)
      BY <1>1, <1>8, NextCommands, Zenon DEF Continue
  <2>2. job'[w].who = c
      BY <2>1, Zenon DEF Went
  <2>3. ASSUME InBoot(w, "del", 5)
        PROVE  Serving(c)' = {}
    <3>1. Serving(c) \subseteq {d}
        BY <2>3, Relies, Zenon
    <3>2. Serving(c)' = {e \in Devices : nbd'[e] = c}
        BY <2>2, Zenon DEF Serving
    <3>. QED  BY <1>2, <1>3, <3>1, <3>2, PipelineAssumption DEF Serving
  <2>. QED  BY <1>2, <2>1, <2>2, <2>3, SoundAt, Zenon DEF Went, Arrived
<1>9. Sound(job[w])'
    BY <1>1, <1>7, <1>8, WhereCommand, Zenon
<1>. QED  BY <1>1, <1>6, <1>9, StopType, OnlyWorker, Zenon DEF IInv

LEMMA SnapIInv ==
    ASSUME IInv, NEW w \in Workers, Unsnap(w) \/ Snap(w)
    PROVE  IInv'
<1> DEFINE c == job[w].who
<1>1. JobOK /\ OneWorker /\ Sound(job[w])
    BY DEF IInv, TypeInv
<1>2. UNCHANGED <<golden, child, lockf, nbd, tgt, session>>
    BY DEF Unsnap, Snap, exports
<1>3. snap \in [Clients -> {"none", "fresh", "old"}]
    BY DEF IInv, TypeInv, TypeOK
<1>4. Disks'
    BY <1>2, Zenon DEF IInv, Disks, OwnDisk, ServedOnce, EditsOnGolden,
                Made, TargetsEnabled, Blank, GoldenHasOnlyEdits
<1>5. ASSUME Unsnap(w)
      PROVE  Sound(job[w])'
  <2>1. At(w, "unsnap") /\ c \in Clients
      BY <1>1, <1>5, AtType DEF Unsnap
  <2>2. InBoot(w, "unsnap", 6)
      BY <1>1, <2>1, WhereCommand
  <2>3. job'[w].todo = Rest(7) /\ job'[w].who = c
      BY <1>1, <2>1, <2>2, <1>5, NextCommands, Zenon DEF Continue, Went, Unsnap
  <2>4. Serving(c) = {}
      BY <2>2, Relies, Zenon
  <2>5. snap'[c] = "none"
      BY <1>3, <1>5, <2>1, <2>4, Zenon DEF Unsnap, Who
  <2>6. Serving(c)' = {}
      BY <1>2, <2>3, <2>4, Zenon DEF Serving
  <2>7. snap'[c] # "old"
      BY <2>5
  <2>. QED  BY <2>1, <2>3, <2>6, <2>7, SoundAt, Zenon DEF Arrived
<1>6. ASSUME Snap(w)
      PROVE  Sound(job[w])'
  <2>1. At(w, "snap") /\ c \in Clients
      BY <1>1, <1>6, AtType, Zenon DEF Snap
  <2>2. InBoot(w, "snap", 7)
      BY <1>1, <2>1, WhereCommand
  <2>3. job'[w].who = c /\ job'[w].todo \in {Rest(7), Rest(8)}
    <3>1. CASE UNCHANGED job
        BY <2>2, <3>1, Zenon DEF InBoot
    <3>2. CASE Continue(w)
        BY <1>1, <2>1, <2>2, <3>2, NextCommands, Zenon DEF Continue, Went
    <3>. QED  BY <1>6, <3>1, <3>2, Zenon DEF Snap
  <2>4. Serving(c) = {} /\ snap[c] # "old"
      BY <2>2, Relies, Zenon
  <2>5. snap'[c] = "fresh"
      BY <1>3, <1>6, <2>1, <2>4 DEF Snap, Who
  <2>6. Serving(c)' = {}
      BY <1>2, <2>3, <2>4, Zenon DEF Serving
  <2>7. snap'[c] # "old"
      BY <2>5
  <2>. QED  BY <2>1, <2>3, <2>5, <2>6, <2>7, SoundAt, Zenon DEF Arrived
<1>. QED  BY <1>1, <1>4, <1>5, <1>6, OverlayType, OnlyWorker DEF IInv

\* The same while it makes an overlay.
LEMMA SoundMaking ==
    ASSUME NEW w, NEW m \in Making \cup MakingEdit, job'[w].todo = m \o Rest(9),
           Ready(job[w], 9)', Fits(job[w], m)'
    PROVE  Sound(job[w])'
<1>1. job'[w].todo = (m \o Rest(9))'
    BY DEF Rest, Boot
<1>. QED  BY <1>1, Zenon DEF Sound

LEMMA ReadyToSearch ==
    ASSUME NEW w, (job[w].who \in Clients)', Serving(job[w].who)' = {},
           (snap[job[w].who] = "fresh")'
    PROVE  Ready(job[w], 9)'
BY DEF Ready

LEMMA mkChildIInv ==
    ASSUME IInv, NEW w \in Workers, mkChild(w)
    PROVE  IInv'
<1> DEFINE c == job[w].who
<1>1. JobOK /\ OneWorker /\ Sound(job[w]) /\ At(w, "mkChild")
    BY DEF IInv, TypeInv, mkChild
<1>2. c \in Clients
    BY <1>1, AtType
<1>3. UNCHANGED <<golden, snap, child, lockf, nbd, tgt, session>>
    BY DEF mkChild, disks, exports
<1>4. Disks'
    BY <1>3, Zenon DEF IInv, Disks, OwnDisk, ServedOnce, EditsOnGolden,
                Made, TargetsEnabled, Blank, GoldenHasOnlyEdits
<1>5. InBoot(w, "mkChild", 8)
    BY <1>1, WhereCommand
<1>6. Serving(c) = {} /\ snap[c] = "fresh" /\ Tail(job[w].todo) = Rest(9)
    BY <1>5, Relies, Zenon
<1>7. ASSUME job'[w].who = c
      PROVE  Serving(c)' = {} /\ (snap[c] = "fresh")'
    BY <1>3, <1>6, <1>7, Zenon DEF Serving
<1>8. PICK m \in Making \cup MakingEdit \cup {<<>>} :
             /\ Go(w, m, 0)
             /\ Who(w) \notin Enabled <=> m = <<>>
             /\ Mode(w) # "edit" => m \in Making \cup {<<>>}
             /\ m \in Making => m = <<"kill", "unlock", "create">> \/ child[c] = NoChild
    BY mkChildGoes DEF Who
<1>9. ASSUME m = <<>> PROVE Sound(job[w])'
  <2>1. job'[w].todo = Rest(9) /\ job'[w].who = c
      BY <1>1, <1>5, <1>8, <1>9, NextCommands, Zenon DEF Went
  <2>2. Clean(job[w])'
      BY <1>8, <1>9, <2>1 DEF Clean, Who
  <2>. QED  BY <1>2, <1>7, <2>1, <2>2, SoundAt, Zenon DEF Arrived
<1>10. ASSUME m # <<>> PROVE Sound(job[w])'
  <2>1. m \in Making \cup MakingEdit /\ m \in Seq(Steps) /\ Rest(9) \in Seq(Steps)
      BY <1>10, RestOfMaking, RestOfBoot
  <2>2. job'[w].todo = m \o Rest(9)
      BY <1>1, <1>6, <1>8, <2>1, GoesOn, Zenon
  <2>3. job'[w].todo # <<>>
      BY <1>10, <2>1, <2>2, ConcatHead
  <2>4. job'[w].who = c /\ job'[w].conf = job[w].conf
      BY <1>1, <1>8, <2>1, <2>3, GoesOn
  <2>5. Fits(job[w], m)'
      BY <1>3, <1>8, <1>10, <2>4 DEF Mode, Who, Fits, NoChild
  <2>6. Ready(job[w], 9)'
      BY <1>2, <1>7, <2>4, ReadyToSearch, Zenon
  <2>. QED  BY <2>1, <2>2, <2>5, <2>6, SoundMaking, Zenon
<1>. QED  BY <1>1, <1>4, <1>9, <1>10, OverlayType, OnlyWorker, Zenon DEF IInv

\* A command of mkChild's: what follows it is more of them, or the search for a
\* device once, outside super mode, the overlay is made.
LEMMA MakingGoes ==
    ASSUME JobOK, NEW w \in Workers, NEW step, At(w, step),
           NEW m \in Making \cup MakingEdit, InMaking(w, step, m), Continue(w)
    PROVE  /\ job'[w].who = job[w].who /\ job'[w].conf = job[w].conf
           /\ \/ /\ job'[w].todo = Rest(9)
                 /\ Mode(w) # "edit" => step = "create"
              \/ /\ Tail(m) \in Making \cup MakingEdit /\ job'[w].todo = Tail(m) \o Rest(9)
                 /\ Mode(w) # "edit" => Tail(m) \in Making
           /\ Mode(w) # "edit" => m \in Making
<1>1. job'[w].todo = Tail(m) \o Rest(9)
    BY ContinuesOn, Zenon DEF Continue, InMaking
<1>2. Rest(9) \in Seq(Steps) /\ Rest(9) # <<>>
    BY RestOfBoot
<1>6. job'[w].todo # <<>> => job'[w].who = job[w].who /\ job'[w].conf = job[w].conf
    BY ContinuesOn, Zenon DEF Continue
<1>5. Mode(w) # "edit" => m \in Making
    BY Zenon DEF InMaking, Fits, Mode, Who
<1>3. CASE Tail(m) = <<>>
  <2>1. job'[w].todo = Rest(9)
      BY <1>1, <1>2, <1>3, ConcatEmptySeq, Zenon
  <2>2. Mode(w) # "edit" => step = "create"
      BY <1>3, RestOfMaking DEF InMaking, Fits, Mode, Who
  <2>. QED  BY <1>2, <1>5, <1>6, <2>1, <2>2, Zenon
<1>4. CASE Tail(m) # <<>>
  <2>1. Tail(m) \in Making \cup MakingEdit
      BY <1>4, RestOfMaking
  <2>2. Mode(w) # "edit" => Tail(m) \in Making
      BY <1>4, RestOfMaking DEF InMaking, Fits, Mode, Who
  <2>3. Tail(m) \in Seq(Steps)
      BY <2>1, RestOfMaking
  <2>4. job'[w].todo # <<>>
      BY <1>1, <1>2, <1>4, <2>3, ConcatHead
  <2>. QED  BY <1>1, <1>5, <1>6, <2>1, <2>2, <2>4, Zenon
<1>. QED  BY <1>3, <1>4, Zenon

\* What they rely on.
LEMMA MakingRelies ==
    ASSUME NEW w, NEW step, NEW m, InMaking(w, step, m)
    PROVE  Serving(job[w].who) = {} /\ snap[job[w].who] = "fresh"
<1>1. Ready(job[w], 9)
    BY Zenon DEF InMaking
<1>. QED  BY <1>1 DEF Ready

LEMMA SoundSearch ==
    ASSUME NEW w, job'[w].todo = Rest(9), Ready(job[w], 9)', Clean(job[w])'
    PROVE  Sound(job[w])'
<1>1. 9 \in 1..13
    OBVIOUS
<1>. QED  BY <1>1, SoundBoot, Zenon

\* Outside super mode the overlay is made last.
LEMMA MakingTail ==
    ASSUME NEW w, NEW step, NEW m \in Making \cup MakingEdit, InMaking(w, step, m),
           Mode(w) # "edit", Tail(m) \in Making \cup MakingEdit
    PROVE  step # "create"
<1>1. m \in Making /\ step = Head(m)
    BY Zenon DEF InMaking, Fits, Mode, Who
<1>2. Tail(m) # <<>>
    BY RestOfMaking
<1>. QED  BY <1>1, <1>2, RestOfMaking

\* The steps that make an overlay come to the end of a boot with a clean one.
LEMMA MakingSound ==
    ASSUME JobOK, NEW w \in Workers, NEW step, At(w, step),
           NEW m \in Making \cup MakingEdit, InMaking(w, step, m), Continue(w),
           UNCHANGED snap,
           \A d \in Devices : nbd'[d] = nbd[d] \/ nbd'[d] = Nothing,
           IF step = "create" THEN Clean(job[w])'
           ELSE Mode(w) # "edit" => child'[Who(w)] = NoChild
    PROVE  Sound(job[w])'
<1> DEFINE c == job[w].who
<1>1. c \in Clients
    BY AtType
<1>2. job'[w].who = c /\ job'[w].conf = job[w].conf
    BY MakingGoes, Zenon
<1>3. Ready(job[w], 9)'
  <2>1. Serving(c) = {} /\ snap[c] = "fresh"
      BY MakingRelies, Zenon
  <2>2. Serving(c)' = {}
      BY <1>1, <1>2, <2>1, PipelineAssumption, Zenon DEF Serving
  <2>3. (snap[c] = "fresh")'
      BY <1>2, <2>1, Zenon
  <2>. QED  BY <1>1, <1>2, <2>2, <2>3, ReadyToSearch, Zenon
<1>4. CASE job'[w].todo = Rest(9) /\ (Mode(w) # "edit" => step = "create")
  <2>1. Clean(job[w])'
      BY <1>2, <1>4, Zenon DEF Clean, Mode, Who
  <2>. QED  BY <1>3, <1>4, <2>1, SoundSearch, Zenon
<1>5. CASE /\ Tail(m) \in Making \cup MakingEdit /\ job'[w].todo = Tail(m) \o Rest(9)
           /\ Mode(w) # "edit" => Tail(m) \in Making
  <2>1. Mode(w) # "edit" => child'[c] = NoChild
    <3>1. Mode(w) # "edit" => step # "create"
        BY <1>5, MakingTail, Zenon
    <3>. QED  BY <3>1, Zenon DEF Who
  <2>2. Fits(job[w], Tail(m))'
      BY <1>2, <1>5, <2>1, Zenon DEF Mode, Who, Fits, NoChild
  <2>. QED  BY <1>3, <1>5, <2>2, SoundMaking, Zenon
<1>. QED  BY <1>4, <1>5, MakingGoes, Zenon

\* What must hold of the overlays after a step.
LEMMA StillMade ==
    ASSUME \A e \in Clients : child'[e].base = "none" => child'[e] = NoChild,
           \A d \in Devices : nbd'[d] # Nothing => child'[nbd'[d]].base # "none"
    PROVE  Made'
BY DEF Made, NoChild

LEMMA KillUsersIInv ==
    ASSUME IInv, NEW w \in Workers, KillUsers(w)
    PROVE  IInv'
<1> DEFINE c == job[w].who
<1>1. JobOK /\ OneWorker /\ Sound(job[w]) /\ At(w, "kill") /\ Continue(w)
    BY DEF IInv, TypeInv, KillUsers
<1>2. c \in Clients
    BY <1>1, AtType
<1>3. /\ nbd' = [d \in Devices |-> IF nbd[d] = c THEN Nothing ELSE nbd[d]]
      /\ child' = [child EXCEPT ![c] = NoChild]
      /\ UNCHANGED <<golden, snap, lockf, tgt, session>>
    BY DEF KillUsers, Who
<1>4. /\ child \in [Clients -> Overlays]
      /\ tgt \in [Clients -> [on : BOOLEAN, lun : 0..nbd_nbds]]
    BY DEF IInv, TypeInv, TypeOK, Overlays
<1>5. \A d \in Devices : nbd'[d] = nbd[d] \/ nbd'[d] = Nothing
    BY <1>3
<1>6. Disks'
  <2>1. OwnDisk'
      BY <1>3, <1>4, <1>5, PipelineAssumption DEF IInv, Disks, OwnDisk, Devices
  <2>2. ServedOnce'
      BY <1>5 DEF IInv, Disks, ServedOnce
  <2>5. \A e \in Clients : tgt[e].lun # 0 => tgt[e].lun \in Devices
      BY <1>4, LunDevice, Zenon
  <2>6. \A e \in Clients : Blank(e) => Blank(e)'
      BY <1>3, <1>5, <2>5, Zenon DEF Blank
  <2>7. Made'
    <3>1. \A e \in Clients : child'[e] = NoChild \/ child'[e] = child[e]
        BY <1>3, <1>4, Zenon
    <3>2. \A e \in Clients : e # c => child'[e] = child[e]
        BY <1>3, <1>4, Zenon
    <3>3. \A d \in Devices : nbd'[d] # Nothing => nbd'[d] = nbd[d] /\ nbd[d] # c
        BY <1>3
    <3>4. \A d \in Devices : nbd[d] \in Clients \cup {Nothing}
        BY DEF IInv, TypeInv, TypeOK
    <3>5. \A e \in Clients : child'[e].base = "none" => child'[e] = NoChild
        BY <3>1, Zenon DEF IInv, Disks, Made
    <3>6. ASSUME NEW d \in Devices, nbd'[d] # Nothing
          PROVE  child'[nbd'[d]].base # "none"
      <4>1. nbd'[d] = nbd[d] /\ nbd[d] # c /\ nbd[d] \in Clients
          BY <3>3, <3>4, <3>6, Zenon
      <4>2. child'[nbd[d]] = child[nbd[d]]
          BY <3>2, <4>1, Zenon
      <4>. QED  BY <3>6, <4>1, <4>2, Zenon DEF IInv, Disks, Made
    <3>. QED  BY <3>5, <3>6, StillMade
  <2>3. \A e \in Clients : child'[e].base = "golden" => child'[e] = child[e]
      BY <1>3, <1>4 DEF NoChild
  <2>4. EditsOnGolden'
      BY <1>3, <2>3, <2>6, Zenon DEF IInv, Disks, EditsOnGolden
  <2>. QED  BY <1>3, <2>1, <2>2, <2>4, <2>7, Zenon DEF IInv, Disks, TargetsEnabled,
              GoldenHasOnlyEdits
<1>7. Sound(job[w])'
  <2>1. PICK m \in Making \cup MakingEdit : InMaking(w, "kill", m)
      BY <1>1, WhereCommand
  <2>2. child'[c] = NoChild
      BY <1>2, <1>3, <1>4, Zenon
  <2>. QED  BY <1>1, <1>3, <1>5, <2>1, <2>2, MakingSound DEF Who
<1>. QED  BY <1>1, <1>6, <1>7, OverlayType, OnlyWorker, Zenon DEF IInv

LEMMA LockFileIInv ==
    ASSUME IInv, NEW w \in Workers, LockFile(w)
    PROVE  IInv'
<1>1. JobOK /\ OneWorker /\ Sound(job[w]) /\ Continue(w)
    BY DEF IInv, TypeInv, LockFile
<1>2. UNCHANGED <<golden, snap, child, nbd, tgt, session>>
    BY DEF LockFile, exports
<1>3. Disks'
    BY <1>2, Zenon DEF IInv, Disks, OwnDisk, ServedOnce, EditsOnGolden,
                Made, TargetsEnabled, Blank, GoldenHasOnlyEdits
<1>4. ASSUME NEW step \in {"lock", "unlock"}, At(w, step)
      PROVE  Sound(job[w])'
  <2>1. PICK m \in Making \cup MakingEdit : InMaking(w, step, m)
      BY <1>1, <1>4, WhereCommand
  <2>2. Mode(w) # "edit" => child[Who(w)] = NoChild
    <3>1. Mode(w) # "edit" => m \in Making /\ m # <<"kill", "unlock", "create">>
        BY <1>4, <2>1 DEF InMaking, Fits, Mode, Who
    <3>. QED  BY <2>1, <3>1, Zenon DEF InMaking, Fits, Mode, Who
  <2>. QED  BY <1>1, <1>2, <1>4, <2>1, <2>2, MakingSound
<1>5. Sound(job[w])'
    BY <1>4 DEF LockFile
<1>. QED  BY <1>1, <1>3, <1>5, OverlayType, OnlyWorker, Zenon DEF IInv

\* The overlay a boot makes outside super mode is clean: the one before it is
\* not served, and the snapshot is of the golden image as it is.  If it cannot be
\* made there is none.
LEMMA CreateIInv ==
    ASSUME IInv, NEW w \in Workers, Create(w)
    PROVE  IInv'
<1> DEFINE c == job[w].who
<1>1. JobOK /\ OneWorker /\ Sound(job[w]) /\ At(w, "create") /\ Continue(w)
    BY DEF IInv, TypeInv, Create
<1>2. c \in Clients
    BY <1>1, AtType
<1>3. PICK m \in Making \cup MakingEdit : InMaking(w, "create", m)
    BY <1>1, WhereCommand
<1>4. Serving(c) = {} /\ snap[c] = "fresh"
    BY <1>3, MakingRelies, Zenon
<1>5. /\ child \in [Clients -> Overlays]
      /\ tgt \in [Clients -> [on : BOOLEAN, lun : 0..nbd_nbds]]
    BY DEF IInv, TypeInv, TypeOK, Overlays
<1>6. UNCHANGED <<golden, snap, lockf, nbd, tgt, session>>
    BY DEF Create, exports
<1>7. /\ \A e \in Clients : e # c => child'[e] = child[e]
      /\ \/ child'[c] = child[c]
         \/ child'[c] = [base |-> Parent(w), has |-> {},
                         fresh |-> Parent(w) = "golden" \/ snap[c] = "fresh"]
    BY <1>2, <1>5, Zenon DEF Create, Who
<1>8. Disks'
  <2>1. Blank(c)
    <3>1. tgt[c].lun # 0 => nbd[tgt[c].lun] # c
        BY <1>2, <1>4, <1>5, LunDevice DEF Serving
    <3>. QED  BY <1>2, <3>1 DEF IInv, Disks, OwnDisk, Blank
  <2>2. \A e \in Clients : Blank(e)' <=> Blank(e)
      BY <1>6, Zenon DEF Blank
  <2>3. child'[c] = child[c] \/ (child'[c].has = {} /\ child'[c].base # "none")
    <3>1. Parent(w) # "none"
        BY DEF Parent
    <3>2. \A f : /\ [base |-> Parent(w), has |-> {}, fresh |-> f].has = {}
                 /\ [base |-> Parent(w), has |-> {}, fresh |-> f].base = Parent(w)
        OBVIOUS
    <3>. QED  BY <1>7, <3>1, <3>2, Zenon
  <2>4. EditsOnGolden'
      BY <1>6, <1>7, <2>1, <2>2, <2>3, Zenon DEF IInv, Disks, EditsOnGolden
  <2>5. Made'
    <3>1. \A d \in Devices : nbd[d] \in Clients \cup {Nothing}
        BY DEF IInv, TypeInv, TypeOK
    <3>2. \A e \in Clients : child'[e] = child[e] \/ child'[e].base # "none"
        BY <1>7, <2>3, Zenon
    <3>3. \A e \in Clients : child'[e].base = "none" => child'[e] = NoChild
        BY <3>2, Zenon DEF IInv, Disks, Made
    <3>4. ASSUME NEW d \in Devices, nbd'[d] # Nothing
          PROVE  child'[nbd'[d]].base # "none"
      <4>1. nbd'[d] = nbd[d] /\ nbd[d] \in Clients
          BY <1>6, <3>1, <3>4, Zenon
      <4>. QED  BY <3>2, <3>4, <4>1, Zenon DEF IInv, Disks, Made
    <3>. QED  BY <3>3, <3>4, StillMade
  <2>. QED  BY <1>6, <2>4, <2>5, Zenon DEF IInv, Disks, OwnDisk, ServedOnce, TargetsEnabled,
              GoldenHasOnlyEdits
<1>9. Clean(job[w])'
  <2>1. job'[w].who = c /\ job'[w].conf = job[w].conf
      BY <1>1, <1>3, MakingGoes, Zenon
  <2>2. job[w].conf[c] # "edit" => child[c] = NoChild
    <3>1. job[w].conf[c] # "edit" => m \in Making /\ m # <<"kill", "unlock", "create">>
        BY <1>3 DEF InMaking, Fits
    <3>. QED  BY <1>3, <3>1, Zenon DEF InMaking, Fits
  <2>3. job[w].conf[c] # "edit" => Parent(w) = "snap"
      BY Zenon DEF Parent, Mode, Who
  <2>4. job[w].conf[c] # "edit" => child'[c] \in {CleanChild, NoChild}
      BY <1>4, <1>7, <2>2, <2>3 DEF CleanChild
  <2>. QED  BY <2>1, <2>4, Zenon DEF Clean, CleanChild, NoChild
<1>10. Sound(job[w])'
    BY <1>1, <1>3, <1>6, <1>9, MakingSound, Zenon
<1>. QED  BY <1>1, <1>8, <1>10, OverlayType, OnlyWorker, Zenon DEF IInv

\* The commands that follow leave it as it is.
LEMMA CleanStill ==
    ASSUME NEW w, Clean(job[w]), child' = child,
           job'[w].who = job[w].who, job'[w].conf = job[w].conf
    PROVE  Clean(job[w])'
BY Zenon DEF Clean, CleanChild, NoChild

LEMMA SearchIInv ==
    ASSUME IInv, NEW w \in Workers, Search(w)
    PROVE  IInv'
<1> DEFINE c == job[w].who
<1>1. JobOK /\ OneWorker /\ Sound(job[w]) /\ At(w, "search")
    BY DEF IInv, TypeInv, Search
<1>2. c \in Clients
    BY <1>1, AtType
<1>3. UNCHANGED <<golden, snap, child, lockf, nbd, tgt, session>>
    BY DEF Search, disks, exports
<1>4. Disks'
    BY <1>3, Zenon DEF IInv, Disks, OwnDisk, ServedOnce, EditsOnGolden,
                Made, TargetsEnabled, Blank, GoldenHasOnlyEdits
<1>5. InBoot(w, "search", 9)
    BY <1>1, WhereCommand
<1>6. /\ job'[w].todo = Rest(10) /\ job'[w].who = c /\ job'[w].conf = job[w].conf
      /\ job'[w].dev = search_nbd
    BY <1>1, <1>5, NextCommands, Zenon DEF Search, Went
<1>7. Serving(c) = {} /\ Clean(job[w])
    BY <1>5, Relies, Zenon
<1>8. Serving(c)' = {} /\ Clean(job[w])' /\ ~used(job[w].dev)'
    BY <1>3, <1>6, <1>7, CleanStill, SearchType, Zenon DEF Serving, used
<1>9. Sound(job[w])'
    BY <1>2, <1>6, <1>8, SoundAt, Zenon DEF Arrived
<1>. QED  BY <1>1, <1>4, <1>9, AttachType, OnlyWorker DEF IInv

\* The device is free, and nobody else takes it.
LEMMA BusyIInv ==
    ASSUME IInv, NEW w \in Workers
    PROVE  ~BusyNbd(w) /\ ~BusyTgt(w) /\ ~StopOwn(w)
<1>1. Sound(job[w])
    BY DEF IInv
<1>2. ~At(w, "stop")
    BY <1>1, WhereCommand
<1>3. At(w, "busy") => InBoot(w, "busy", 10)
    BY <1>1, WhereCommand
<1>4. At(w, "busy") => ~used(job[w].dev)
    BY <1>3, Relies, Zenon
<1>. QED  BY <1>2, <1>4, Zenon DEF BusyNbd, BusyTgt, StopOwn

LEMMA NotBusyIInv ==
    ASSUME IInv, NEW w \in Workers, NotBusy(w)
    PROVE  IInv'
<1> DEFINE c == job[w].who
<1>1. JobOK /\ OneWorker /\ Sound(job[w]) /\ At(w, "busy") /\ Continue(w)
    BY DEF IInv, TypeInv, NotBusy
<1>2. c \in Clients
    BY <1>1, AtType
<1>3. UNCHANGED <<golden, snap, child, lockf, nbd, tgt, session>>
    BY DEF NotBusy, disks, exports
<1>4. Disks'
    BY <1>3, Zenon DEF IInv, Disks, OwnDisk, ServedOnce, EditsOnGolden,
                Made, TargetsEnabled, Blank, GoldenHasOnlyEdits
<1>5. InBoot(w, "busy", 10)
    BY <1>1, WhereCommand
<1>6. /\ job'[w].todo = Rest(11) /\ job'[w].who = c /\ job'[w].conf = job[w].conf
      /\ job'[w].dev = job[w].dev
    BY <1>1, <1>5, NextCommands, Zenon DEF Continue, Went
<1>7. Serving(c) = {} /\ Clean(job[w])
    BY <1>5, Relies, Zenon
<1>8. Serving(c)' = {} /\ ~used(job[w].dev)'
    BY <1>3, <1>6, <1>7, Zenon DEF Serving, used, NotBusy
<1>9. Clean(job[w])'
    BY <1>3, <1>6, <1>7, CleanStill, Zenon
<1>10. Sound(job[w])'
    BY <1>2, <1>6, <1>8, <1>9, SoundAt, Zenon DEF Arrived
<1>. QED  BY <1>1, <1>4, <1>10, StopType, OnlyWorker, Zenon DEF IInv

\* The device is free when the overlay is attached to it, so no LUN leads to it.
LEMMA NbdAddIInv ==
    ASSUME IInv, NEW w \in Workers, NbdAdd(w)
    PROVE  IInv'
<1> DEFINE c == job[w].who
           d == job[w].dev
<1>1. JobOK /\ OneWorker /\ Sound(job[w]) /\ At(w, "add") /\ Continue(w)
    BY DEF IInv, TypeInv, NbdAdd
<1>2. c \in Clients /\ d \in 0..nbd_nbds
    BY <1>1, AtType
<1>3. /\ tgt \in [Clients -> [on : BOOLEAN, lun : 0..nbd_nbds]]
      /\ nbd \in [Devices -> Clients \cup {Nothing}]
    BY DEF IInv, TypeInv, TypeOK
<1>4. UNCHANGED <<golden, snap, child, lockf, tgt, session>>
    BY DEF NbdAdd, disks
<1>5. InBoot(w, "add", 11)
    BY <1>1, WhereCommand
<1>6. /\ job'[w].todo = Rest(12) /\ job'[w].who = c /\ job'[w].conf = job[w].conf
      /\ job'[w].dev = d
    BY <1>1, <1>5, NextCommands, Zenon DEF Continue, Went
<1>7. Serving(c) = {} /\ Clean(job[w]) /\ ~used(d)
    BY <1>5, Relies, Zenon
<1>8. d # 0 => /\ d \in Devices /\ nbd[d] = Nothing /\ nbd'[d] \in {c, Nothing}
               /\ \A e \in Clients : tgt[e].lun # d
  <2>1. d # 0 => d \in Devices
      BY <1>2, PipelineAssumption DEF Devices
  <2>2. d # 0 => nbd[d] = Nothing /\ \A e \in Clients : tgt[e].lun # d
      BY <1>7, <2>1, Zenon DEF used
  <2>3. d # 0 => nbd'[d] \in {c, Nothing}
      BY <1>3, <2>1, <2>2 DEF NbdAdd, Who
  <2>. QED  BY <2>1, <2>2, <2>3, Zenon
<1>9. \A e \in Devices : e = d \/ nbd'[e] = nbd[e]
    BY <1>3, Zenon DEF NbdAdd
<1>10. Disks'
  <2>1. OwnDisk'
    <3>1. \A e \in Clients : tgt[e].lun # 0 => tgt[e].lun \in Devices /\ tgt[e].lun # d
        BY <1>3, <1>8, LunDevice, Zenon
    <3>. QED  BY <1>4, <1>9, <3>1 DEF IInv, Disks, OwnDisk
  <2>2. ServedOnce'
    <3>1. \A e \in Devices : nbd[e] # c
        BY <1>7 DEF Serving
    <3>2. d \in Devices => d # 0
        BY PipelineAssumption DEF Devices
    <3>3. d \in Devices => nbd'[d] \in {c, Nothing}
        BY <1>8, <3>2, Zenon
    <3>. QED  BY <1>9, <3>1, <3>3 DEF IInv, Disks, ServedOnce
  <2>3. \A e \in Clients : Blank(e) => Blank(e)'
    <3>1. \A e \in Clients : tgt[e].lun # 0 => tgt[e].lun \in Devices /\ tgt[e].lun # d
        BY <1>3, <1>8, LunDevice, Zenon
    <3>. QED  BY <1>4, <1>9, <3>1, Zenon DEF Blank
  <2>4. EditsOnGolden'
      BY <1>4, <2>3, Zenon DEF IInv, Disks, EditsOnGolden
  <2>5. Made'
    <3>1. \A e \in Devices :
            nbd'[e] = nbd[e] \/ (nbd'[e] = c /\ child[c] # NoChild)
        BY <1>2, <1>3 DEF NbdAdd, Who
    <3>. QED  BY <1>2, <1>4, <3>1, Zenon DEF IInv, Disks, Made, NoChild
  <2>. QED  BY <1>4, <2>1, <2>2, <2>4, <2>5, Zenon DEF IInv, Disks, TargetsEnabled,
              GoldenHasOnlyEdits
<1>11. Blank(c)' /\ Own(job[w])' /\ Clean(job[w])'
  <2>1. Own(job[w])' /\ Clean(job[w])'
      BY <1>4, <1>6, <1>7, <1>8, CleanStill, Zenon DEF Own
  <2>2. tgt[c].lun # 0 => nbd[tgt[c].lun] # c /\ tgt[c].lun # d /\ tgt[c].lun \in Devices
      BY <1>2, <1>3, <1>7, <1>8, LunDevice DEF Serving
  <2>3. tgt[c].lun # 0 => nbd[tgt[c].lun] = Nothing
      BY <1>2, <2>2 DEF IInv, Disks, OwnDisk
  <2>4. tgt'[c].lun = 0 \/ nbd'[tgt'[c].lun] = Nothing
      BY <1>4, <1>9, <2>2, <2>3, Zenon
  <2>. QED  BY <1>6, <2>1, <2>4, Zenon DEF Blank
<1>12. Sound(job[w])'
    BY <1>2, <1>6, <1>11, SoundAt, Zenon DEF Arrived
<1>. QED  BY <1>1, <1>10, <1>12, AttachType, OnlyWorker DEF IInv

LEMMA TgtStartIInv ==
    ASSUME IInv, NEW w \in Workers, TgtStart(w)
    PROVE  IInv'
<1> DEFINE c == job[w].who
           d == job[w].dev
<1>1. JobOK /\ OneWorker /\ Sound(job[w]) /\ At(w, "tgtstart") /\ Continue(w)
    BY DEF IInv, TypeInv, TgtStart
<1>2. c \in Clients
    BY <1>1, AtType, Zenon
<1>3. tgt \in [Clients -> [on : BOOLEAN, lun : 0..nbd_nbds]]
    BY DEF IInv, TypeInv, TypeOK
<1>4. UNCHANGED <<golden, snap, child, lockf, nbd, session>>
    BY DEF TgtStart, disks
<1>5. \A e \in Clients : tgt'[e].lun = tgt[e].lun
    BY <1>3 DEF TgtStart
<1>6. Disks'
  <2>1. TargetsEnabled'
      BY <1>2, <1>3, Zenon DEF IInv, Disks, TargetsEnabled, TgtStart, Who
  <2>2. \A e \in Clients : Blank(e)' <=> Blank(e)
      BY <1>4, <1>5, Zenon DEF Blank
  <2>. QED  BY <1>4, <1>5, <2>1, <2>2, Zenon DEF IInv, Disks, OwnDisk, ServedOnce, EditsOnGolden,
                Made, NoChild, GoldenHasOnlyEdits
<1>7. InBoot(w, "tgtstart", 12)
    BY <1>1, WhereCommand
<1>8. /\ job'[w].todo = Rest(13) /\ job'[w].who = c /\ job'[w].conf = job[w].conf
      /\ job'[w].dev = d
    BY <1>1, <1>7, NextCommands, Zenon DEF Continue, Went
<1>9. Blank(c) /\ Clean(job[w]) /\ Own(job[w])
    BY <1>7, Relies, Zenon
<1>10. c \in Enabled
    BY <1>2, Zenon DEF TgtStart, Who, IInv, Disks, TargetsEnabled
<1>11. Blank(c)' /\ Own(job[w])' /\ Clean(job[w])'
    BY <1>2, <1>4, <1>5, <1>8, <1>9, CleanStill, Zenon DEF Blank, Own
<1>12. Sound(job[w])'
    BY <1>2, <1>8, <1>10, <1>11, SoundAt, Zenon DEF Arrived
<1>. QED  BY <1>1, <1>6, <1>12, AttachType, OnlyWorker, Zenon DEF IInv

\* The last command of a boot.
LEMMA AtLunAdd ==
    ASSUME IInv, NEW w \in Workers, At(w, "LunAdd")
    PROVE  LET c == job[w].who
               d == job[w].dev
           IN  /\ c \in Clients /\ c \in Enabled /\ d \in 0..nbd_nbds
               /\ d # 0 => nbd[d] \in {c, Nothing}
               /\ job[w].conf[c] # "edit" => child[c] \in {CleanChild, NoChild}
               /\ Tail(job[w].todo) = <<>>
<1>1. JobOK /\ Sound(job[w])
    BY DEF IInv, TypeInv
<1>2. InBoot(w, "LunAdd", 13)
    BY <1>1, WhereCommand
<1>3. job[w].who \in Clients /\ job[w].dev \in 0..nbd_nbds
    BY <1>1, AtType, Zenon
<1>4. /\ job[w].who \in Enabled /\ Clean(job[w]) /\ Own(job[w])
      /\ Tail(job[w].todo) = <<>>
    BY <1>2, Relies, Zenon
<1>. QED  BY <1>3, <1>4, Zenon DEF Clean, Own

LEMMA CleanBase ==
    /\ CleanChild.base # "golden" /\ CleanChild.has = {} /\ CleanChild.fresh
    /\ NoChild.base = "none" /\ NoChild.base # "golden"
BY DEF CleanChild, NoChild

LEMMA LunAddIInv ==
    ASSUME IInv, NEW w \in Workers, LunAdd(w)
    PROVE  IInv'
<1> DEFINE c == job[w].who
           d == job[w].dev
<1>1. JobOK /\ OneWorker /\ At(w, "LunAdd") /\ Continue(w)
    BY DEF IInv, TypeInv, LunAdd
<1>2. /\ c \in Clients /\ d \in 0..nbd_nbds
      /\ d # 0 => nbd[d] \in {c, Nothing}
      /\ job[w].conf[c] # "edit" => child[c] \in {CleanChild, NoChild}
      /\ Tail(job[w].todo) = <<>>
    BY <1>1, AtLunAdd, Zenon
<1>3. /\ tgt \in [Clients -> [on : BOOLEAN, lun : 0..nbd_nbds]]
      /\ session \in [Clients -> BOOLEAN]
    BY DEF IInv, TypeInv, TypeOK
<1>4. UNCHANGED <<golden, snap, child, lockf, nbd>>
    BY DEF LunAdd, disks
<1>5. /\ \A e \in Clients : e # c => tgt'[e] = tgt[e] /\ session'[e] = session[e]
      /\ tgt'[c].on = tgt[c].on
      /\ \/ tgt'[c] = tgt[c] /\ session'[c] = session[c]
         \/ d # 0 /\ tgt'[c].lun = d /\ session'[c] = (job[w].conf[c] = "edit")
  <2>1. CASE UNCHANGED <<tgt, session>>
      BY <2>1, Zenon
  <2>2. CASE /\ d # 0 /\ tgt' = [tgt EXCEPT ![c].lun = d]
             /\ session' = [session EXCEPT ![c] = job[w].conf[c] = "edit"]
    <3>1. /\ \A e \in Clients : e # c => tgt'[e] = tgt[e] /\ session'[e] = session[e]
          /\ session'[c] = (job[w].conf[c] = "edit")
          /\ tgt'[c] = [tgt[c] EXCEPT !.lun = d]
        BY <1>2, <1>3, <2>2, Zenon
    <3>2. tgt'[c].on = tgt[c].on /\ tgt'[c].lun = d
        BY <1>2, <1>3, <3>1
    <3>. QED  BY <2>2, <3>1, <3>2, Zenon
  <2>. QED  BY <2>1, <2>2, Zenon DEF LunAdd, Who, Mode
<1>6. Disks'
  <2>1. OwnDisk'
      BY <1>2, <1>4, <1>5, Zenon DEF IInv, Disks, OwnDisk
  <2>2. EditsOnGolden'
    <3>2. \A e \in Clients : Blank(e)' <=> tgt'[e].lun = 0 \/ nbd[tgt'[e].lun] = Nothing
        BY <1>4, Zenon DEF Blank
    <3>3. \A e \in Clients : tgt'[e] = tgt[e] => (Blank(e)' <=> Blank(e))
        BY <3>2, Zenon DEF Blank
    <3>1. ASSUME NEW e \in Clients, child[e].base = "golden", ~Blank(e)'
          PROVE  session'[e]
      <4>1. CASE e = c
        <5>1. child[c].base = "golden" => job[w].conf[c] = "edit"
            BY <1>2, CleanBase, Zenon
        <5>. QED  BY <1>5, <3>1, <3>3, <4>1, <5>1, Zenon DEF IInv, Disks, EditsOnGolden
      <4>2. CASE e # c
          BY <1>5, <3>1, <3>3, <4>2, Zenon DEF IInv, Disks, EditsOnGolden
      <4>. QED  BY <4>1, <4>2
    <3>. QED  BY <1>4, <3>1, Zenon DEF IInv, Disks, EditsOnGolden
  <2>3. TargetsEnabled'
      BY <1>5, Zenon DEF IInv, Disks, TargetsEnabled
  <2>. QED  BY <1>4, <2>1, <2>2, <2>3, Zenon DEF IInv, Disks, ServedOnce, Made, NoChild,
              GoldenHasOnlyEdits
<1>7. Sound(job[w])'
  <2>1. job'[w].todo = <<>>
      BY <1>1, <1>2, ContinuesOn, Zenon DEF Continue
  <2>. QED  BY <2>1 DEF Sound
<1>. QED  BY <1>1, <1>6, <1>7, AttachType, OnlyWorker DEF IInv

LEMMA MergeIInv ==
    ASSUME IInv, NEW w \in Workers, Merge(w)
    PROVE  IInv'
<1> DEFINE c == job[w].who
<1>1. JobOK /\ OneWorker /\ Sound(job[w]) /\ At(w, "commit") /\ Continue(w)
    BY DEF IInv, TypeInv, Merge
<1>2. c \in Clients
    BY <1>1, AtType
<1>3. child \in [Clients -> Overlays]
    BY DEF IInv, TypeInv, TypeOK, Overlays
<1>4. UNCHANGED <<lockf, nbd, tgt, session>>
    BY DEF Merge, exports
<1>5. golden' = golden \/ (child[c].base = "golden" /\ golden' = golden \cup child[c].has)
    BY DEF Merge, Who
<1>6. ASSUME NEW e \in Clients
      PROVE  child'[e].base = child[e].base /\ child'[e].has \subseteq child[e].has
  <2>1. child[e] \in Overlays
      BY <1>3
  <2>2. /\ [child[e] EXCEPT !.has = {}].base = child[e].base
        /\ [child[e] EXCEPT !.has = {}].has = {}
        /\ [child[e] EXCEPT !.fresh = FALSE].base = child[e].base
        /\ [child[e] EXCEPT !.fresh = FALSE].has = child[e].has
      BY <2>1 DEF Overlays
  <2>3. child'[e] \in {child[e], [child[e] EXCEPT !.has = {}], [child[e] EXCEPT !.fresh = FALSE]}
      BY DEF Merge
  <2>. QED  BY <2>2, <2>3, Zenon
<1>7. Disks'
  <2>1. GoldenHasOnlyEdits'
      BY <1>2, <1>5, Zenon DEF IInv, Disks, EditsOnGolden, GoldenHasOnlyEdits
  <2>2. \A e \in Clients : Blank(e)' <=> Blank(e)
      BY <1>4, Zenon DEF Blank
  <2>3. EditsOnGolden'
      BY <1>4, <1>6, <2>2, Zenon DEF IInv, Disks, EditsOnGolden
  <2>4. Made'
    <3>1. \A d \in Devices : nbd[d] \in Clients \cup {Nothing}
        BY DEF IInv, TypeInv, TypeOK
    <3>2. \A d \in Devices : nbd'[d] # Nothing => child'[nbd'[d]].base # "none"
        BY <1>4, <1>6, <3>1, Zenon DEF IInv, Disks, Made
    <3>3. ASSUME NEW e \in Clients, child[e] = NoChild
          PROVE  child'[e] = NoChild
      <4>1. [NoChild EXCEPT !.has = {}] = NoChild /\ [NoChild EXCEPT !.fresh = FALSE] = NoChild
        <5>1. NoChild.has = {} /\ NoChild.fresh = FALSE
            BY DEF NoChild
        <5>. QED  BY <5>1, NoChildType DEF Overlays
      <4>2. child'[e] \in {child[e], [child[e] EXCEPT !.has = {}],
                            [child[e] EXCEPT !.fresh = FALSE]}
          BY DEF Merge
      <4>. QED  BY <3>3, <4>1, <4>2, Zenon
    <3>. QED  BY <1>6, <3>2, <3>3, Zenon DEF IInv, Disks, Made, NoChild
  <2>. QED  BY <1>4, <2>1, <2>3, <2>4, Zenon DEF IInv, Disks, OwnDisk, ServedOnce, TargetsEnabled
<1>8. Sound(job[w])'
  <2>1. InOthers(w, "commit")
      BY <1>1, WhereCommand
  <2>. QED  BY <1>1, <2>1, SoundOthers DEF Continue
<1>. QED  BY <1>1, <1>7, <1>8, OverlayType, OnlyWorker, Zenon DEF IInv

\* A step outside the request.
LEMMA SoundKept ==
    ASSUME NEW w, Sound(job[w]), UNCHANGED <<snap, nbd, job>>,
           \A e \in Clients : tgt'[e] = tgt[e] \/ tgt'[e] = NoTarget,
           \A k \in 9..13 : Ready(job[w], k) => child'[job[w].who] = child[job[w].who]
    PROVE  Sound(job[w])'
<1>1. \A k \in 1..13 : Ready(job[w], k) => Ready(job[w], k)'
  <2> SUFFICES ASSUME NEW k \in 1..13, Ready(job[w], k) PROVE Ready(job[w], k)'
      OBVIOUS
  <2>1. NoTarget.lun = 0
      BY DEF NoTarget
  <2>2. /\ Serving(job[w].who)' = Serving(job[w].who)
        /\ ~used(job[w].dev) => ~used(job[w].dev)'
        /\ job[w].who \in Clients /\ Blank(job[w].who) => Blank(job[w].who)'
      BY <2>1, Zenon DEF Serving, used, Blank
  <2>. QED  BY <2>2, Zenon DEF Ready
<1>2. CASE job[w].todo \in Others \cup {<<>>}
    BY <1>2, Zenon DEF Sound
<1>3. CASE \E k \in 1..Len(Boot) : job[w].todo = Rest(k) /\ Ready(job[w], k)
                                     /\ (k > 8 => Clean(job[w]))
  <2>1. PICK k \in 1..13 : job[w].todo = Rest(k) /\ Ready(job[w], k)
                             /\ (k > 8 => Clean(job[w]))
      BY <1>3, BootSeq
  <2>2. job'[w].todo = Rest(k) /\ Ready(job[w], k)'
      BY <1>1, <2>1, Zenon
  <2>3. k > 8 => k \in 9..13
      OBVIOUS
  <2>4. k > 8 => Clean(job[w])'
      BY <2>1, <2>3, Zenon DEF Clean, CleanChild, NoChild
  <2>. QED  BY <2>2, <2>4, SoundBoot
<1>4. CASE \E m \in Making \cup MakingEdit :
             job[w].todo = m \o Rest(9) /\ Ready(job[w], 9) /\ Fits(job[w], m)
  <2>1. PICK m \in Making \cup MakingEdit :
             job[w].todo = m \o Rest(9) /\ Ready(job[w], 9) /\ Fits(job[w], m)
      BY <1>4, Zenon
  <2>2. 9 \in 1..13 /\ 9 \in 9..13
      OBVIOUS
  <2>3. Ready(job[w], 9)'
      BY <1>1, <2>1, <2>2, Zenon
  <2>4. Fits(job[w], m)'
      BY <2>1, <2>2, Zenon DEF Fits, Making, NoChild
  <2>. QED  BY <2>1, <2>3, <2>4, SoundMaking, Zenon
<1>. QED  BY <1>2, <1>3, <1>4, Zenon DEF Sound

\* A workstation writes to its own overlay, never to that of one that boots.
LEMMA WriteIInv ==
    ASSUME IInv, NEW c \in Clients, Write(c)
    PROVE  IInv'
<1>1. UNCHANGED <<golden, snap, lockf, nbd, tgt, session, job>>
    BY DEF Write, exports
<1>2. /\ child \in [Clients -> Overlays] /\ session[c] \in BOOLEAN
      /\ tgt \in [Clients -> [on : BOOLEAN, lun : 0..nbd_nbds]]
    BY DEF IInv, TypeInv, TypeOK, Overlays
<1>3. tgt[c].lun # 0 /\ nbd[tgt[c].lun] = c
    BY DEF Write, IInv, Disks, OwnDisk
<1>4. \A e \in Clients : e # c => child'[e] = child[e]
    BY <1>2, <1>3 DEF Write
<1>5. child'[c].base = child[c].base /\ child'[c].has = child[c].has \cup {session[c]}
  <2>1. child[c] \in Overlays
      BY <1>2
  <2>2. child'[c] = [child[c] EXCEPT !.has = child[c].has \cup {session[c]}]
      BY <1>2, <1>3 DEF Write
  <2>. QED  BY <2>1, <2>2 DEF Overlays
<1>6. Disks'
  <2>1. EditsOnGolden'
    <3>1. ~Blank(c)
        BY <1>3, PipelineAssumption, Zenon DEF Blank
    <3>2. child'[c].base = "golden" => child'[c].has \subseteq {TRUE} /\ session[c]
        BY <1>2, <1>5, <3>1, Zenon DEF IInv, Disks, EditsOnGolden
    <3>3. \A e \in Clients : Blank(e)' <=> Blank(e)
        BY <1>1, Zenon DEF Blank
    <3>. QED  BY <1>1, <1>4, <3>2, <3>3, Zenon DEF IInv, Disks, EditsOnGolden
  <2>2. Made'
    <3>1. \A d \in Devices : nbd[d] \in Clients \cup {Nothing}
        BY DEF IInv, TypeInv, TypeOK
    <3>2. tgt[c].lun \in Devices
        BY <1>2, <1>3, LunDevice, Zenon
    <3>3. child[c].base # "none"
        BY <1>3, <3>2, PipelineAssumption, Zenon DEF IInv, Disks, Made
    <3>. QED  BY <1>1, <1>4, <1>5, <3>1, <3>3, Zenon DEF IInv, Disks, Made, NoChild
  <2>. QED  BY <1>1, <2>1, <2>2, Zenon DEF IInv, Disks, OwnDisk, ServedOnce, TargetsEnabled,
              GoldenHasOnlyEdits
<1>7. ASSUME NEW w \in Workers
      PROVE  Sound(job[w])'
  <2>1. ASSUME NEW k \in 9..13, Ready(job[w], k)
        PROVE  child'[job[w].who] = child[job[w].who]
    <3>1. job[w].who \in Clients /\ (Serving(job[w].who) = {} \/ Blank(job[w].who))
        BY <2>1 DEF Ready
    <3>2. tgt[c].lun \in Devices
        BY <1>2, <1>3, LunDevice, Zenon
    <3>3. c \in Clients /\ Serving(c) # {} /\ ~Blank(c)
        BY <1>3, <3>2, PipelineAssumption DEF Serving, Blank
    <3>. QED  BY <1>4, <3>1, <3>3, Zenon
  <2>2. Sound(job[w]) /\ \A e \in Clients : tgt'[e] = tgt[e] \/ tgt'[e] = NoTarget
      BY <1>1 DEF IInv
  <2>. QED  BY <1>1, <2>1, <2>2, SoundKept
<1>8. TypeInv'
    BY WriteType DEF IInv
<1>. QED  BY <1>6, <1>7, <1>8 DEF IInv, OneWorker

LEMMA RequestIInv ==
    ASSUME IInv, NEW w \in Workers, NEW c \in Clients, Request(w, c)
    PROVE  IInv'
<1>1. UNCHANGED <<golden, snap, child, lockf, nbd, tgt, session>>
    BY Zenon DEF Request, BootRequest, SuperRequest, disableCommit, disks, exports
<1>2. Disks'
    BY <1>1, Zenon DEF IInv, Disks, OwnDisk, ServedOnce, EditsOnGolden,
                Made, TargetsEnabled, Blank, GoldenHasOnlyEdits
<1>3. JobOK /\ OneWorker
    BY DEF IInv, TypeInv
<1>4. PICK t \in Others \cup {Boot} :
        job' = [job EXCEPT ![w] = [todo |-> t, who |-> c, dev |-> 0, conf |-> conf]]
  <2>1. Commit \in Others /\ \A mode \in Modes : <<mode>> \in Others
      BY DEF Commit, Others, Modes
  <2>. QED  BY <2>1 DEF Request, BootRequest, SuperRequest, disableCommit, Modes
<1>5. job'[w].todo = t /\ job'[w].who = c
    BY <1>3, <1>4 DEF JobOK
<1>6. Rest(1) = Boot
    BY BootSeq, SuffixProperties DEF Rest
<1>7. Sound(job[w])'
  <2>1. CASE t \in Others
      BY <1>5, <2>1, Zenon DEF Sound
  <2>2. CASE t = Boot
      BY <1>5, <1>6, <2>2, SoundAt, Zenon DEF Arrived
  <2>. QED  BY <2>1, <2>2
<1>. QED  BY <1>2, <1>3, <1>7, RequestType, OnlyWorker DEF IInv

LEMMA KillIInv ==
    ASSUME IInv, NEW w \in Workers, Kill(w)
    PROVE  IInv'
<1>1. Disks'
    BY Zenon DEF IInv, Disks, OwnDisk, ServedOnce, EditsOnGolden,
                Made, TargetsEnabled, Blank, GoldenHasOnlyEdits,
           Kill, disks, exports
<1>2. job'[w].todo = <<>>
    BY IdleType DEF Kill, IInv, TypeInv, JobOK
<1>3. Sound(job[w])'
    BY <1>2 DEF Sound
<1>. QED  BY <1>1, <1>3, KillType, OnlyWorker DEF IInv

LEMMA InitIInv ==
    ASSUME OneWorker, Init
    PROVE  IInv
<1>1. TypeInv
    BY InitType
<1>2. \A c \in Clients : tgt[c].lun = 0 /\ child[c].base = "none"
    BY DEF Init, NoTarget, NoChild
<1>5. \A c \in Clients : child[c] = NoChild /\ ~tgt[c].on
    BY Zenon DEF Init, NoTarget
<1>3. Disks
    BY <1>2, <1>5, Zenon DEF Init, Disks, OwnDisk, ServedOnce, EditsOnGolden,
                Made, TargetsEnabled, Blank, GoldenHasOnlyEdits
<1>4. \A w \in Workers : Sound(job[w])
    BY IdleType DEF Init, Sound
<1>. QED  BY <1>1, <1>3, <1>4 DEF IInv

LEMMA StepIInv ==
    ASSUME IInv, [Next]_vars
    PROVE  IInv'
<1>1. ASSUME NEW w \in Workers, Run(w)
      PROVE  IInv'
    BY <1>1, SaveIInv, tgtstopIInv, nbdFreeIInv, NbdDelIInv, SnapIInv, mkChildIInv,
       KillUsersIInv, LockFileIInv, CreateIInv, SearchIInv, BusyIInv, NotBusyIInv,
       NbdAddIInv, TgtStartIInv, LunAddIInv, MergeIInv DEF Run
<1>2. ASSUME NEW w \in Workers, Kill(w)
      PROVE  IInv'
    BY <1>2, KillIInv
<1>3. ASSUME NEW w \in Workers, NEW c \in Clients, Request(w, c)
      PROVE  IInv'
    BY <1>3, RequestIInv
<1>4. ASSUME NEW c \in Clients, Write(c)
      PROVE  IInv'
    BY <1>4, WriteIInv
<1>5. CASE ServiceStops \/ monit \/ UNCHANGED vars
  <2>1. /\ UNCHANGED <<golden, snap, child, nbd, session, job>>
        /\ \A e \in Clients : tgt'[e] = tgt[e] \/ tgt'[e] = NoTarget
      BY <1>5, Zenon DEF ServiceStops, monit, vars, disks, exports
  <2>2. TypeInv'
    <3>1. CASE UNCHANGED vars
        BY <3>1, Zenon DEF vars, disks, exports, IInv, TypeInv, TypeOK, JobOK, Jobs
    <3>. QED  BY <1>5, <3>1, ServicesType DEF IInv
  <2>3. Disks'
      BY <2>1, ReleaseDisks, Zenon
  <2>4. ASSUME NEW w \in Workers
        PROVE  Sound(job[w])'
      BY <2>1, SoundKept, Zenon DEF IInv
  <2>. QED  BY <2>2, <2>3, <2>4 DEF IInv, OneWorker
<1>. QED  BY <1>1, <1>2, <1>3, <1>4, <1>5 DEF Next

LEMMA Inductive == OneWorker /\ Spec => []IInv
<1>1. OneWorker /\ Init => IInv
    BY InitIInv
<1>2. IInv /\ [Next]_vars => IInv'
    BY StepIInv
<1>. QED  BY <1>1, <1>2, PTL DEF Spec

\* With one worker, a workstation's LUN never leads to another workstation's
\* overlay, for any number of workstations, of devices and of killed requests:
\* the device LunAdd exports served nothing when nbdConnect found it, and
\* nothing but the workstation's own overlay was attached to it since.
THEOREM EveryoneGetsOwnDisk == OneWorker /\ Spec => []OwnDisk
<1>1. IInv => OwnDisk
    BY DEF IInv, Disks
<1>. QED  BY <1>1, Inductive, PTL

\* With one worker, the golden image takes in nothing but what was written in a
\* super-mode session with the disk selected, however the administrator
\* switches workstations in and out of super mode while they run.
THEOREM GoldenIsEdited == OneWorker /\ Spec => []GoldenHasOnlyEdits
<1>1. IInv => GoldenHasOnlyEdits
    BY DEF IInv, Disks
<1>. QED  BY <1>1, Inductive, PTL

\* With one worker, a boot outside super mode exports nothing, or an overlay
\* without writes over the golden image as it is then, however the requests
\* before it ended, and whichever of its own commands failed.
THEOREM BootIsClean == OneWorker /\ Spec => CleanBoot
<1>1. ASSUME IInv, [Next]_vars, NEW w \in Workers, At(w, "LunAdd"), tgt[Who(w)].lun = 0,
             Mode(w) # "edit", tgt'[Who(w)].lun # 0, nbd[tgt'[Who(w)].lun] # Nothing
      PROVE  LET d == tgt'[Who(w)].lun
             IN  /\ nbd[d] = Who(w)
                 /\ child[nbd[d]].has = {} /\ child[nbd[d]].fresh
  <2> DEFINE c == job[w].who
  <2>1. /\ c \in Clients /\ job[w].dev \in 0..nbd_nbds
        /\ job[w].dev # 0 => nbd[job[w].dev] \in {c, Nothing}
        /\ child[c] \in {CleanChild, NoChild}
      BY <1>1, AtLunAdd, Zenon DEF Mode, Who
  <2>2. NoTarget.lun = 0 /\ [e \in Clients |-> NoTarget][c] = NoTarget
      BY <2>1 DEF NoTarget
  <2>3. PICK v \in Workers : Run(v)
      BY <1>1, <2>2, Zenon DEF Next, Kill, Request, BootRequest, SuperRequest, disableCommit,
              Write, ServiceStops, monit, exports, vars, Who
  <2>4. Run(w)
      BY <1>1, <2>3 DEF IInv, OneWorker
  <2>5. LunAdd(w)
      BY <1>1, <2>4, Zenon DEF Run, At, SaveToFile, tgtstop, nbdFree, NbdDel, Unsnap, Snap, mkChild,
              KillUsers, LockFile, Create, Search, BusyNbd, BusyTgt, StopOwn, NotBusy, NbdAdd,
              TgtStart, Merge, Modes
  <2>6. job[w].dev # 0 /\ tgt' = [tgt EXCEPT ![c].lun = job[w].dev]
      BY <1>1, <2>5 DEF LunAdd, Who
  <2>7. tgt \in [Clients -> [on : BOOLEAN, lun : 0..nbd_nbds]]
      BY <1>1 DEF IInv, TypeInv, TypeOK
  <2>8. tgt'[c].lun = job[w].dev /\ job[w].dev \in Devices
      BY <2>1, <2>6, <2>7 DEF Devices
  <2>9. nbd[job[w].dev] = c /\ child[c].base # "none"
      BY <1>1, <2>1, <2>6, <2>8, Zenon DEF Who, IInv, Disks, Made
  <2>. QED  BY <2>1, <2>8, <2>9, CleanBase, Zenon DEF Who
<1>2. IInv /\ [Next]_vars =>
        [\A w \in Workers :
           (At(w, "LunAdd") /\ tgt[Who(w)].lun = 0 /\ Mode(w) # "edit") =>
             LET d == tgt'[Who(w)].lun
             IN  (d # 0 /\ nbd[d] # Nothing) =>
                   /\ nbd[d] = Who(w)
                   /\ child[nbd[d]].has = {} /\ child[nbd[d]].fresh]_vars
    BY <1>1, Zenon
<1>. QED  BY <1>2, Inductive, PTL DEF Spec, CleanBoot
==============================================================================

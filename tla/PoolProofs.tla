----------------------------- MODULE PoolProofs -----------------------------
(***************************************************************************)
(* Type correctness of the pool, proved: Spec => []TypeOK.                 *)
(*                                                                         *)
(* TypeOK is inductive as it stands: a job's step says whether it is about *)
(* an instance (PoolPCs, in JobRec), which is what makes inst[job[j].inst] *)
(* a record wherever a step writes it.  There is a lemma for each action,  *)
(* <Action>Type: the action keeps TypeOK.                                  *)
(***************************************************************************)
EXTENDS PoolProperties, FiniteSetTheorems, TLAPS

\* The parts of TypeOK that most actions write.
JobsOK == job \in [Jobs -> JobRec]
InstOK == inst \in [Instances -> InstanceRec]
DevOK  == dev \in [Devices -> DeviceRec]

-----------------------------------------------------------------------------
(* Records, jobs and budgets *)

\* A job that is done, goes to a step it may take, or goes to end its instance, is still a job.
LEMMA JobSteps ==
    ASSUME JobsOK, NEW j \in Jobs
    PROVE  /\ Done(j) => JobsOK'
           /\ \A pc \in PCs : /\ Goto(j, pc) /\ pc # "offer"
                              /\ pc \in PoolPCs \/ job[j].pc \notin PoolPCs
                              => JobsOK'
           /\ job[j].pc \notin PoolPCs /\ GotoEnd(j) => JobsOK'
  <1>1. Done(j) => JobsOK'
    BY DEF JobsOK, Done, JobRec, Idle, PCs, PoolPCs, NoInstance, NoUser, NoDisplay, NoDevice
  <1>2. ASSUME NEW pc \in PCs, Goto(j, pc), pc # "offer", pc \in PoolPCs \/ job[j].pc \notin PoolPCs
        PROVE  JobsOK'
    BY <1>2 DEF JobsOK, Goto, JobRec
  <1>3. ASSUME job[j].pc \notin PoolPCs, GotoEnd(j) PROVE JobsOK'
    BY <1>3 DEF JobsOK, GotoEnd, EndJob, JobOf, JobRec, Idle, PCs, PoolPCs, NoInstance, NoUser, NoDisplay, NoDevice
  <1> QED BY <1>1, <1>2, <1>3

\* Spending an event of the budget leaves a budget.
LEMMA Budgeted ==
    ASSUME left \in [Events -> Nat]
    PROVE  /\ Free => left' \in [Events -> Nat]
           /\ \A e \in Events : Spend(e) => left' \in [Events -> Nat]
  BY DEF Free, Spend

\* A value put at two arguments of a function of functions leaves it one.
LEMMA Updated ==
    ASSUME NEW S, NEW T, NEW V, NEW f \in [S -> [T -> V]], NEW d, NEW u, NEW v \in V
    PROVE  [f EXCEPT ![d][u] = v] \in [S -> [T -> V]]
  OBVIOUS

\* The turn given back (DeviceRec::busy dropped) leaves the devices' records.
LEMMA Released == ASSUME DevOK, NEW d PROVE Release(d) \in [Devices -> DeviceRec]
  BY DEF DevOK, DeviceRec, Release

\* A thread spawned has a slot of its own, free until now.
LEMMA FreshJob ==
    ASSUME HasJob
    PROVE  NewJob \in Jobs /\ job[NewJob].pc = "free"
  BY DEF HasJob, NewJob, FreeJobs

\* A job's new record put in its slot.
LEMMA JobPut ==
    ASSUME JobsOK, NEW j, NEW r \in JobRec
    PROVE  [job EXCEPT ![j] = r] \in [Jobs -> JobRec]
  BY DEF JobsOK

\* An instance's new record put in the pool's map.
LEMMA InstPut ==
    ASSUME InstOK, NEW i, NEW r \in InstanceRec
    PROVE  [inst EXCEPT ![i] = r] \in [Instances -> InstanceRec]
  BY DEF InstOK

\* set_state and its likes: an instance's new state.
LEMMA StateSet ==
    ASSUME InstOK, NEW i, NEW s \in InstanceStates
    PROVE  [inst EXCEPT ![i].state = s] \in [Instances -> InstanceRec]
  <1> DEFINE r == [inst[i] EXCEPT !.state = s]
  <1>1. CASE i \in Instances
    <2>1. inst[i] \in InstanceRec BY <1>1 DEF InstOK
    <2>2. r \in InstanceRec BY <2>1 DEF InstanceRec
    <2>3. [inst EXCEPT ![i] = r] \in [Instances -> InstanceRec] BY <2>2, InstPut
    <2> QED BY <2>3
  <1>2. CASE i \notin Instances
    BY <1>2 DEF InstOK
  <1> QED BY <1>1, <1>2

\* The device's turn taken by a job.
LEMMA TurnTaken ==
    ASSUME DevOK, NEW d, NEW j \in Jobs
    PROVE  [dev EXCEPT ![d].busy = j] \in [Devices -> DeviceRec]
  BY DEF DevOK, DeviceRec

\* A job for an instance is a job, whichever step it begins at.
LEMMA JobFor ==
    ASSUME NEW i \in Instances, NEW pc \in PCs, pc # "offer"
    PROVE  JobOf(pc, i) \in JobRec /\ EndJob(i) \in JobRec
  <1>1. ASSUME NEW s \in PCs, s # "offer" PROVE JobOf(s, i) \in JobRec
    <2> DEFINE Rec == [pc : PCs, inst : Instances \cup {NoInstance}, dev : Devices \cup {NoDevice},
                       user : Users \cup {NoUser}, hwc : Displays \cup {NoDisplay}, flag : BOOLEAN,
                       boot : Devices \cup {NoDevice}, count : Nat]
    <2>1. Idle \in Rec BY DEF Idle, PCs, NoInstance, NoUser, NoDisplay, NoDevice
    <2>2. JobOf(s, i) \in Rec /\ JobOf(s, i).pc = s /\ JobOf(s, i).inst = i
      BY <1>1, <2>1 DEF JobOf
    <2> QED BY <1>1, <2>2 DEF JobRec
  <1>2. EndJob(i) \in JobRec
    <2>1. JobOf("end", i) \in JobRec BY <1>1 DEF PCs
    <2>2. EndJob(i) = [JobOf("end", i) EXCEPT !.flag = TRUE] BY DEF EndJob
    <2> QED BY <2>1, <2>2 DEF JobRec
  <1> QED BY <1>1, <1>2

\* A step about an instance knows which.
LEMMA JobInst ==
    ASSUME TypeOK, NEW j \in Jobs, job[j].pc \notin PoolPCs
    PROVE  job[j].inst \in Instances
  BY DEF TypeOK, JobRec

\* What DeviceRec::booting, InstanceRec::new and a free slot begin as is of their types.
LEMMA NewDeviceOK == NewDevice \in DeviceRec /\ Idle \in JobRec /\ AbsentInstance \in InstanceRec
  BY DEF NewDevice, DeviceRec, DeviceStates, Idle, JobRec, PCs, PoolPCs, AbsentInstance,
         InstanceRec, InstanceStates, NoInstance, NoUser, NoDisplay, NoDevice

-----------------------------------------------------------------------------
(* The helpers of the actions *)

\* place: the device it gives, booted or not, has the build counted as installed.
LEMMA BuildPlaced ==
    ASSUME TypeOK, NEW b \in Builds \cup {NoBuild}, NEW d \in Devices
    PROVE  /\ WithBuild(b, d) \in [Devices -> DeviceRec]
           /\ NextDevice(d) \in Nat \ {0}
           /\ BootOf(d) \in Devices \cup {NoDevice}
  <1> DEFINE rec == IF d = next.device THEN NewDevice ELSE dev[d]
  <1>1. rec \in DeviceRec BY NewDeviceOK DEF TypeOK
  <1> HIDE DEF rec
  <1>2. [rec EXCEPT !.installed[PackageOf[b]] = b, !.idle = FALSE] \in DeviceRec
    BY <1>1 DEF DeviceRec
  <1>3. WithBuild(b, d) = [dev EXCEPT ![d] = [rec EXCEPT !.installed[PackageOf[b]] = b, !.idle = FALSE]]
    BY DEF WithBuild, rec
  <1>4. WithBuild(b, d) \in [Devices -> DeviceRec] BY <1>2, <1>3 DEF TypeOK
  <1>5. NextDevice(d) \in Nat \ {0} BY ConstantsOK DEF NextDevice, TypeOK, Devices
  <1> QED BY <1>4, <1>5 DEF BootOf

\* A boot done, its job goes on to run_launch, to the next device to warm, or to nothing.
LEMMA AfterBootType == ASSUME TypeOK, NEW j \in Jobs, AfterBoot(j) PROVE JobsOK'
  <1>1. CASE job[j].inst = NoInstance
    BY <1>1, JobSteps DEF TypeOK, JobsOK, AfterBoot, PCs, PoolPCs
  <1>2. CASE job[j].inst # NoInstance /\ ~Exists(job[j].inst)
    BY <1>2, JobSteps DEF TypeOK, JobsOK, AfterBoot
  <1>3. CASE job[j].inst # NoInstance /\ Exists(job[j].inst)
    <2> DEFINE i == job[j].inst
               r == [JobOf("wait", i) EXCEPT !.dev = inst[i].device]
    <2>1. i \in Instances BY <1>3 DEF TypeOK, JobRec
    <2>2. r \in JobRec
      BY <2>1 DEF TypeOK, InstanceRec, JobOf, Idle, JobRec, PCs, PoolPCs, NoInstance, NoUser, NoDisplay, NoDevice
    <2>3. job' = [job EXCEPT ![j] = r] BY <1>3 DEF AfterBoot, TypeOK
    <2> QED BY <2>2, <2>3, JobPut DEF JobsOK, TypeOK
  <1> QED BY <1>1, <1>2, <1>3

\* What device_gone makes of an instance is an instance's record, whatever it decided.
LEMMA GoneFrom ==
    ASSUME NEW rec \in InstanceRec, NEW relaunch \in BOOLEAN, NEW again \in BOOLEAN,
           NEW c \in Jobs \cup {NoJob}
    PROVE  AfterGone(rec, relaunch, again, c) \in InstanceRec
  <1> DEFINE off == [rec EXCEPT !.hwc = NoDisplay]
  <1>1. off \in InstanceRec BY DEF InstanceRec, NoDisplay
  <1>2. /\ [off EXCEPT !.user = NoUser, !.state = "restarting", !.countdown = c] \in InstanceRec
        /\ [off EXCEPT !.user = NoUser] \in InstanceRec
        /\ [off EXCEPT !.state = "ended"] \in InstanceRec
    <2>1. [off EXCEPT !.user = NoUser] \in InstanceRec BY <1>1 DEF InstanceRec, NoUser
    <2>2. [off EXCEPT !.state = "ended"] \in InstanceRec BY <1>1 DEF InstanceRec, InstanceStates
    <2>3. [off EXCEPT !.user = NoUser, !.state = "restarting"] \in InstanceRec
      BY <2>1 DEF InstanceRec, InstanceStates
    <2>4. [off EXCEPT !.user = NoUser, !.state = "restarting", !.countdown = c] \in InstanceRec
      BY <2>3 DEF InstanceRec
    <2> QED BY <2>1, <2>2, <2>4
  <1> QED BY <1>1, <1>2 DEF AfterGone

\* device_gone over the pool's maps: the device gone, its instances ended.
LEMMA DeviceEnded ==
    ASSUME TypeOK, NEW d
    PROVE  Gone(d) \in [Devices -> DeviceRec] /\ AllEnd(d) \in [Instances -> InstanceRec]
  <1>1. Gone(d) \in [Devices -> DeviceRec]
    <2>1. CASE d \in Devices
      <3> DEFINE s == IF dev[d].state = "absent" THEN dev[d].state ELSE "gone"
      <3>1. s \in DeviceStates BY <2>1 DEF TypeOK, DeviceRec, DeviceStates
      <3>2. Gone(d) = [dev EXCEPT ![d] = [dev[d] EXCEPT !.state = s]]
        BY <2>1 DEF TypeOK, Gone
      <3> HIDE DEF s
      <3>3. [dev EXCEPT ![d] = [dev[d] EXCEPT !.state = s]] \in [Devices -> DeviceRec]
        <4>1. dev[d] \in DeviceRec BY <2>1 DEF TypeOK
        <4>2. [dev[d] EXCEPT !.state = s] \in DeviceRec BY <3>1, <4>1 DEF DeviceRec
        <4> QED BY <4>2 DEF TypeOK
      <3> QED BY <3>2, <3>3
    <2>2. CASE d \notin Devices
      BY <2>2 DEF TypeOK, Gone
    <2> QED BY <2>1, <2>2
  <1>2. \A i \in Instances : AfterGone(inst[i], FALSE, FALSE, NoJob) \in InstanceRec
    BY GoneFrom DEF TypeOK
  <1> QED BY <1>1, <1>2 DEF AllEnd, TypeOK

\* mark_idle changes when the devices fell idle, nothing else.
LEMMA IdleMarked ==
    ASSUME DevOK, NEW ins
    PROVE  MarkIdle(dev, ins) \in [Devices -> DeviceRec]
  <1>1. \A d \in Devices : dev[d] \in DeviceRec BY DEF DevOK
  <1>2. \A d \in Devices : \A b \in BOOLEAN : [dev[d] EXCEPT !.idle = b] \in DeviceRec
    BY <1>1 DEF DeviceRec
  <1>3. \A d \in Devices : (dev[d].idle \/ dev[d].state = "ready") \in BOOLEAN
    OBVIOUS
  <1> QED BY <1>2, <1>3 DEF MarkIdle

\* remove_display: its window, card and markers go.
LEMMA DisplayRemoved ==
    ASSUME TypeOK, NEW d, NEW h, NEW i, RemoveDisplay(d, h, i)
    PROVE  /\ shown' \in [Devices -> [Displays -> Instances \cup {NoInstance}]]
           /\ card' \in [Devices -> [Displays -> Instances \cup {NoInstance}]]
           /\ mark' \in [Devices -> SUBSET Displays]
           /\ hurt' \in SUBSET Instances
  <1>1. shown' \in [Devices -> [Displays -> Instances \cup {NoInstance}]]
    <2>1. [shown EXCEPT ![d][h] = NoInstance] \in [Devices -> [Displays -> Instances \cup {NoInstance}]]
      BY Updated DEF TypeOK
    <2> QED BY <2>1 DEF TypeOK, RemoveDisplay
  <1>2. card' \in [Devices -> [Displays -> Instances \cup {NoInstance}]]
    <2>1. [card EXCEPT ![d][h] = NoInstance] \in [Devices -> [Displays -> Instances \cup {NoInstance}]]
      BY Updated DEF TypeOK
    <2> QED BY <2>1 DEF TypeOK, RemoveDisplay
  <1>3. mark' \in [Devices -> SUBSET Displays]
    <2>1. mark \in [Devices -> SUBSET Displays] BY DEF TypeOK
    <2>2. [mark EXCEPT ![d] = @ \ {h}] \in [Devices -> SUBSET Displays] BY <2>1
    <2> QED BY <2>1, <2>2 DEF RemoveDisplay
  <1>4. hurt' \in SUBSET Instances BY DEF TypeOK, RemoveDisplay, Onlookers
  <1> QED BY <1>1, <1>2, <1>3, <1>4

\* hwc.take(): the record has no display any more.
LEMMA DisplayTaken ==
    ASSUME TypeOK, NEW i
    PROVE  [inst EXCEPT ![i].hwc = NoDisplay] \in [Instances -> InstanceRec]
  <1> DEFINE r == [inst[i] EXCEPT !.hwc = NoDisplay]
  <1>1. InstOK BY DEF TypeOK, InstOK
  <1>2. CASE i \in Instances
    <2>1. inst[i] \in InstanceRec BY <1>1, <1>2 DEF InstOK
    <2>2. r \in InstanceRec BY <2>1 DEF InstanceRec
    <2>3. [inst EXCEPT ![i] = r] \in [Instances -> InstanceRec] BY <1>1, <2>2, InstPut
    <2> QED BY <2>3
  <1>3. CASE i \notin Instances
    BY <1>1, <1>3 DEF InstOK
  <1> QED BY <1>2, <1>3

\* show: the card in its window, or the display taken from the record and removed.
LEMMA CardShown ==
    ASSUME TypeOK, NEW d, NEW h, NEW i \in Instances, ShowCard(d, h, i)
    PROVE  /\ InstOK'
           /\ left' \in [Events -> Nat]
           /\ shown' \in [Devices -> [Displays -> Instances \cup {NoInstance}]]
           /\ card' \in [Devices -> [Displays -> Instances \cup {NoInstance}]]
           /\ mark' \in [Devices -> SUBSET Displays]
           /\ hurt' \in SUBSET Instances
  <1>1. left' \in [Events -> Nat]
    <2>1. Fails(d) => left' \in [Events -> Nat] BY Budgeted DEF TypeOK, Fails, Events
    <2>2. Free => left' \in [Events -> Nat] BY Budgeted DEF TypeOK
    <2> QED BY <2>1, <2>2 DEF ShowCard
  <1>2. CASE card' = [card EXCEPT ![d][h] = i] /\ UNCHANGED <<inst, shown, mark, hurt>>
    <2>1. card' \in [Devices -> [Displays -> Instances \cup {NoInstance}]]
      BY <1>2, Updated DEF TypeOK
    <2> QED BY <1>1, <1>2, <2>1 DEF TypeOK, InstOK
  <1>3. CASE RemoveDisplay(d, h, i) /\ inst' = [inst EXCEPT ![i].hwc = NoDisplay]
    BY <1>1, <1>3, DisplayTaken, DisplayRemoved DEF InstOK
  <1>4. CASE UNCHANGED <<inst, shown, card, mark, hurt>>
    BY <1>1, <1>4 DEF TypeOK, InstOK
  <1> QED BY <1>2, <1>3, <1>4 DEF ShowCard

\* count_end and halting's counting up leave an instance's record.
LEMMA EndCounted ==
    ASSUME NEW rec \in InstanceRec, NEW b \in BOOLEAN
    PROVE  Counted(rec, b) \in InstanceRec /\ CountEnd(rec, b) \in InstanceRec
  <1>1. rec.halting \in Nat /\ rec.quick_ends \in Nat BY DEF InstanceRec
  <1>2. (IF b THEN rec.halting + 1 ELSE rec.halting) \in Nat
        /\ (IF b THEN rec.quick_ends + 1 ELSE 0) \in Nat
    BY <1>1
  <1>3. \A n \in Nat : [rec EXCEPT !.halting = n] \in InstanceRec /\ [rec EXCEPT !.quick_ends = n] \in InstanceRec
    BY DEF InstanceRec
  <1> QED BY <1>2, <1>3 DEF Counted, CountEnd

\* ended_on_its_own goes on off the lock with what it read under it.
LEMMA GoesOn ==
    ASSUME TypeOK, NEW j \in Jobs, job[j].inst \in Instances, NEW pc \in PCs, pc # "offer",
           NEW h \in Displays \cup {NoDisplay}, NEW b \in BOOLEAN
    PROVE  [job EXCEPT ![j].pc = pc, ![j].hwc = h, ![j].flag = b] \in [Jobs -> JobRec]
  <1> DEFINE r == [job[j] EXCEPT !.pc = pc, !.hwc = h, !.flag = b]
  <1>1. job[j] \in JobRec BY DEF TypeOK
  <1>2. r \in JobRec BY <1>1 DEF JobRec
  <1>3. [job EXCEPT ![j].pc = pc, ![j].hwc = h, ![j].flag = b] = [job EXCEPT ![j] = r]
    BY DEF TypeOK
  <1> QED BY <1>2, <1>3, JobPut DEF TypeOK, JobsOK

\* close: an ended one's card goes, a live one is to end.
LEMMA ClosedOn ==
    ASSUME TypeOK, NEW i \in Instances, NEW j \in Jobs, CloseOn(i, j)
    PROVE  DevOK' /\ InstOK' /\ JobsOK'
  <1> DEFINE d == inst[i].device
             h == inst[i].hwc
             card_up == h # NoDisplay /\ There(d)
  <1>0. DevOK'
    <2> DEFINE off == [inst EXCEPT ![i].hwc = NoDisplay, ![i].closed = @ \/ card_up]
    <2>1. dev' = MarkIdle(dev, off) \/ dev' = dev BY DEF CloseOn
    <2> HIDE DEF off
    <2>2. DevOK BY DEF TypeOK, DevOK
    <2>3. MarkIdle(dev, off) \in [Devices -> DeviceRec] BY <2>2, IdleMarked
    <2> QED BY <2>1, <2>2, <2>3 DEF DevOK
  <1>1. inst[i] \in InstanceRec /\ InstOK /\ JobsOK BY DEF TypeOK, InstOK, JobsOK
  <1>2. CASE inst[i].state = "ended"
    <2>1. InstOK'
      <3>1. [inst[i] EXCEPT !.hwc = NoDisplay, !.closed = @ \/ card_up] \in InstanceRec
        <4> DEFINE b == inst[i].closed \/ card_up
        <4>1. b \in BOOLEAN BY <1>1 DEF InstanceRec
        <4> HIDE DEF b
        <4>2. [inst[i] EXCEPT !.hwc = NoDisplay, !.closed = b] \in InstanceRec
          BY <1>1, <4>1 DEF InstanceRec
        <4> QED BY <4>2 DEF b
      <3>2. inst' = [inst EXCEPT ![i] = [inst[i] EXCEPT !.hwc = NoDisplay, !.closed = @ \/ card_up]]
        BY <1>1, <1>2 DEF CloseOn, InstOK
      <3> QED BY <1>1, <3>1, <3>2, InstPut DEF InstOK
    <2>2. CASE card_up
      <3>1. JobOf("remove", i) \in JobRec /\ JobOf("remove", i).pc = "remove" /\ JobOf("remove", i).inst = i
        BY JobFor DEF PCs, JobOf, Idle
      <3>2. [JobOf("remove", i) EXCEPT !.dev = d, !.hwc = h] \in JobRec
        BY <1>1, <3>1 DEF JobRec, InstanceRec
      <3>3. job' = [job EXCEPT ![j] = [JobOf("remove", i) EXCEPT !.dev = d, !.hwc = h]]
        BY <1>2, <2>2 DEF CloseOn
      <3> QED BY <1>0, <1>1, <2>1, <3>2, <3>3, JobPut DEF JobsOK
    <2>3. CASE ~card_up
      <3>1. job' = [job EXCEPT ![j] = Idle] BY <1>2, <2>3 DEF CloseOn
      <3> QED BY <1>0, <1>1, <2>1, <3>1, NewDeviceOK, JobPut DEF JobsOK
    <2> QED BY <2>2, <2>3
  <1>3. CASE inst[i].state # "ended"
    <2>1. [inst[i] EXCEPT !.state = "closing", !.closed = TRUE, !.countdown = NoJob] \in InstanceRec
      BY <1>1 DEF InstanceRec, InstanceStates
    <2>2. inst' = [inst EXCEPT ![i] = [inst[i] EXCEPT !.state = "closing", !.closed = TRUE, !.countdown = NoJob]]
      BY <1>1, <1>3 DEF CloseOn, InstOK
    <2>3. EndJob(i) \in JobRec BY JobFor DEF PCs
    <2>4. job' = [job EXCEPT ![j] = EndJob(i)] BY <1>3 DEF CloseOn
    <2> QED BY <1>0, <1>1, <2>1, <2>2, <2>3, <2>4, InstPut, JobPut DEF InstOK, JobsOK
  <1> QED BY <1>2, <1>3

\* window_closed and show_window write an instance's asking and headless.
LEMMA WindowAnswered ==
    ASSUME TypeOK, NEW i \in Instances, NEW b \in BOOLEAN
    PROVE  /\ Answered(i) \in [Instances -> InstanceRec]
           /\ [inst EXCEPT ![i].headless = b] \in [Instances -> InstanceRec]
           /\ [Answered(i) EXCEPT ![i].headless = b] \in [Instances -> InstanceRec]
  <1>1. InstOK BY DEF TypeOK, InstOK
  <1> DEFINE quiet == [inst[i] EXCEPT !.asking = FALSE]
  <1>5. inst[i] \in InstanceRec BY <1>1 DEF InstOK
  <1>6. quiet \in InstanceRec BY <1>5 DEF InstanceRec
  <1>7. Answered(i) = [inst EXCEPT ![i] = quiet] BY DEF Answered
  <1>2. Answered(i) \in [Instances -> InstanceRec] BY <1>1, <1>6, <1>7, InstPut
  <1>3. [inst EXCEPT ![i].headless = b] \in [Instances -> InstanceRec]
    <2>1. [inst[i] EXCEPT !.headless = b] \in InstanceRec BY <1>5 DEF InstanceRec
    <2>2. [inst EXCEPT ![i] = [inst[i] EXCEPT !.headless = b]] \in [Instances -> InstanceRec]
      BY <1>1, <2>1, InstPut
    <2> QED BY <2>2
  <1>4. [Answered(i) EXCEPT ![i].headless = b] \in [Instances -> InstanceRec]
    <2> DEFINE a == Answered(i)
    <2>1. a[i] \in InstanceRec BY <1>2
    <2>2. [a[i] EXCEPT !.headless = b] \in InstanceRec BY <2>1 DEF InstanceRec
    <2>3. [a EXCEPT ![i] = [a[i] EXCEPT !.headless = b]] \in [Instances -> InstanceRec]
      BY <1>2, <2>2
    <2> QED BY <2>3
  <1> QED BY <1>2, <1>3, <1>4

\* stop_device's first section: the device closing, its countdowns called off.
LEMMA StopSectionType ==
    ASSUME TypeOK, NEW d \in Devices, NEW by_hand \in BOOLEAN, NEW j \in Jobs,
           StopSection(d, by_hand, j), left' \in [Events -> Nat]
    PROVE  TypeOK'
  <1>1. DevOK'
    <2>1. \A rec \in DeviceRec : [rec EXCEPT !.state = "closing"] \in DeviceRec
      BY DEF DeviceRec, DeviceStates
    <2>2. dev' = [dev EXCEPT ![d] = [dev[d] EXCEPT !.state = "closing"]] BY DEF StopSection, TypeOK
    <2> QED BY <2>1, <2>2 DEF TypeOK, DevOK
  <1>2. InstOK'
    <2>1. \A rec \in InstanceRec : [rec EXCEPT !.state = "ended", !.countdown = NoJob] \in InstanceRec
      BY DEF InstanceRec, InstanceStates
    <2> QED BY <2>1 DEF TypeOK, InstOK, StopSection
  <1>3. JobsOK'
    <2> DEFINE r(pc) == [Idle EXCEPT !.pc = pc, !.dev = d]
    <2>1. r("cold") \in JobRec /\ r("stop_guest") \in JobRec
      BY DEF Idle, JobRec, PCs, PoolPCs, NoInstance, NoUser, NoDisplay, NoDevice
    <2>2. job' = [job EXCEPT ![j] = r("cold")] \/ job' = [job EXCEPT ![j] = r("stop_guest")]
      BY DEF StopSection
    <2> HIDE DEF r
    <2> QED BY <2>1, <2>2, JobPut DEF TypeOK, JobsOK
  <1>4. cold' \in BOOLEAN BY DEF TypeOK, StopSection
  <1> QED BY <1>1, <1>2, <1>3, <1>4 DEF TypeOK, DevOK, InstOK, JobsOK, StopSection, guest

\* A device's process ends: its apps, displays and cards with it.
LEMMA GuestEnded ==
    ASSUME TypeOK, NEW D, GuestEnds(D)
    PROVE  /\ phase' \in [Devices -> {"unborn", "alive", "dead"}]
           /\ app' \in [Devices -> [Users -> Instances \cup {NoInstance}]]
           /\ shown' \in [Devices -> [Displays -> Instances \cup {NoInstance}]]
           /\ card' \in [Devices -> [Displays -> Instances \cup {NoInstance}]]
           /\ mark' \in [Devices -> SUBSET Displays]
           /\ UNCHANGED <<bytes, made>>
  BY DEF TypeOK, GuestEnds, NoApps, NoDisplays

\* The jobs the ticker spawns for a device.
LEMMA TickerJob ==
    ASSUME NEW d \in Devices, NEW pc \in {"died", "stop", "spare"}
    PROVE  [Idle EXCEPT !.pc = pc, !.dev = d] \in JobRec
  <1>1. pc \in PCs /\ pc \in PoolPCs /\ pc # "offer" BY DEF PCs, PoolPCs
  <1> QED BY <1>1 DEF Idle, JobRec, NoInstance, NoUser, NoDisplay, NoDevice

\* to_warm is a number: finitely many devices are up.
LEMMA WarmCount ==
    ASSUME NEW length
    PROVE  ToWarm(IdleViews(length), keep_warm, max_devices) \in Nat
  <1> DEFINE view == [d \in OpenDevices |->
                [id |-> d, ready |-> dev[d].state = "ready",
                 running |-> Cardinality({i \in Instances :
                                HoldsDevice(inst[i]) /\ inst[i].device = d}),
                 idle |-> IF dev[d].idle THEN length[d] ELSE NotIdle]]
             up == Cardinality(IdleViews(length))
  <1>1. IsFiniteSet(OpenDevices)
    <2>1. IsFiniteSet(Devices) BY ConstantsOK, FS_Interval DEF Devices
    <2>2. OpenDevices \in SUBSET Devices BY DEF OpenDevices
    <2> QED BY <2>1, <2>2, FS_Subset
  <1>2. IdleViews(length) = {view[d] : d \in OpenDevices} BY DEF IdleViews
  <1>3. view \in Surjection(OpenDevices, IdleViews(length))
    <2> DEFINE V == IdleViews(length)
    <2>1. view = [d \in OpenDevices |-> view[d]] OBVIOUS
    <2> HIDE DEF view
    <2> QED BY <1>2, <2>1 DEF Surjection
  <1>4. up \in Nat BY <1>1, <1>3, FS_Surjection, FS_CardinalityType
  <1> HIDE DEF up
  <1>5. keep_warm \in Nat /\ max_devices \in Nat BY ConstantsOK
  <1>6. \A a, b \in Nat : Monus(a, b) \in Nat BY DEF Monus
  <1>7. ToWarm(IdleViews(length), keep_warm, max_devices) \in {Monus(keep_warm, up), Monus(max_devices, up)}
    BY DEF ToWarm, up
  <1> QED BY <1>4, <1>5, <1>6, <1>7

\* sparing set or cleared.
LEMMA SparingSet ==
    ASSUME DevOK, NEW d, NEW b \in BOOLEAN
    PROVE  [dev EXCEPT ![d].sparing = b] \in [Devices -> DeviceRec]
  BY DEF DevOK, DeviceRec

-----------------------------------------------------------------------------
(* A launch *)

\* launch_package up to its thread: the instance made and placed.
LEMMA LaunchType == ASSUME TypeOK, NEW b \in Builds, Launch(b) PROVE TypeOK'
  <1> DEFINE i == next.instance
             d == PlacedOn(b)
  <1>1. i \in Instances /\ d \in Devices /\ NewJob \in Jobs BY FreshJob DEF Launch
  <1>2. DevOK' BY <1>1, BuildPlaced DEF Launch, DevOK
  <1>3. InstOK'
    <2>1. [AbsentInstance EXCEPT !.state = "waiting", !.device = d, !.apk = b] \in InstanceRec
      BY <1>1, NewDeviceOK DEF InstanceRec, InstanceStates
    <2> QED BY <2>1 DEF Launch, InstOK, TypeOK
  <1>4. next' \in [device : Nat \ {0}, instance : Nat \ {0}]
    BY <1>1, BuildPlaced, ConstantsOK DEF Launch, Instances, TypeOK
  <1>5. JobsOK'
    <2>1. [JobOf("warm_again", i) EXCEPT !.boot = BootOf(d)] \in JobRec
      BY <1>1, BuildPlaced DEF JobOf, Idle, JobRec, PCs, PoolPCs, NoInstance, NoUser, NoDisplay, NoDevice
    <2> QED BY <1>1, <2>1, JobPut DEF Launch, JobsOK, TypeOK
  <1> QED BY <1>2, <1>3, <1>4, <1>5 DEF TypeOK, DevOK, InstOK, JobsOK, Launch, guest

\* warm, asked for by hand.
LEMMA AskWarmType == ASSUME TypeOK, AskWarm PROVE TypeOK'
  <1>1. left' \in [Events -> Nat] BY Budgeted DEF TypeOK, AskWarm, Events
  <1>2. JobsOK'
    <2>1. [JobOf("warm_again", NoInstance) EXCEPT !.count = 1] \in JobRec
      BY DEF JobOf, Idle, JobRec, PCs, PoolPCs, NoInstance, NoUser, NoDisplay, NoDevice
    <2> QED BY FreshJob, <2>1, JobPut DEF AskWarm, JobsOK, TypeOK
  <1> QED BY <1>1, <1>2 DEF TypeOK, JobsOK, AskWarm, pool, guest

\* warm_again under the lock.
LEMMA WarmAgainType == ASSUME TypeOK, NEW j \in Jobs, WarmAgain(j) PROVE TypeOK'
  <1>1. JobsOK' BY JobSteps DEF TypeOK, JobsOK, WarmAgain, AfterWarm, PCs, PoolPCs
  <1> QED BY <1>1 DEF TypeOK, JobsOK, WarmAgain, guest

\* keep_cold(false) off the lock.
LEMMA UncoldType == ASSUME TypeOK, NEW j \in Jobs, Uncold(j) PROVE TypeOK'
  <1>1. JobsOK' BY JobSteps DEF TypeOK, JobsOK, Uncold, AfterWarm, PCs, PoolPCs
  <1> QED BY <1>1 DEF TypeOK, JobsOK, Uncold, guest

\* boot, started or failed.
LEMMA BootType == ASSUME TypeOK, NEW j \in Jobs, Boot(j) PROVE TypeOK'
  <1>1. JobsOK' BY AfterBootType, JobSteps DEF TypeOK, JobsOK, Boot, PCs, PoolPCs
  <1>2. left' \in [Events -> Nat] BY Budgeted DEF TypeOK, Boot, Events
  <1>3. phase' \in [Devices -> {"unborn", "alive", "dead"}] BY DEF TypeOK, Boot
  <1> QED BY <1>1, <1>2, <1>3 DEF TypeOK, JobsOK, Boot, pool

\* A boot that failed ends its device and what is on it.
LEMMA BootFailedType == ASSUME TypeOK, NEW j \in Jobs, BootFailed(j) PROVE TypeOK'
  <1>1. JobsOK' BY AfterBootType DEF BootFailed
  <1>2. DevOK' /\ InstOK' BY DeviceEnded DEF BootFailed, DevOK, InstOK
  <1> QED BY <1>1, <1>2 DEF TypeOK, JobsOK, DevOK, InstOK, BootFailed, guest

\* run_launch's looks at its device.
LEMMA WaitType == ASSUME TypeOK, NEW j \in Jobs, Wait(j) PROVE TypeOK'
  <1>1. JobsOK' BY JobSteps DEF TypeOK, JobsOK, Wait, At, PCs, PoolPCs
  <1>2. left' \in [Events -> Nat] BY Budgeted DEF TypeOK, Wait, Events
  <1> QED BY <1>1, <1>2 DEF TypeOK, JobsOK, Wait, pool, guest

\* set_state(Installing).
LEMMA SetType == ASSUME TypeOK, NEW j \in Jobs, Set(j) PROVE TypeOK'
  <1>1. JobsOK' BY JobSteps DEF TypeOK, JobsOK, Set, At, PCs, PoolPCs
  <1>2. InstOK' BY StateSet DEF TypeOK, InstOK, Set, InstanceStates
  <1> QED BY <1>1, <1>2 DEF TypeOK, JobsOK, InstOK, Set, guest

\* The turn taken, or the launch called off.
LEMMA TurnType == ASSUME TypeOK, NEW j \in Jobs, Turn(j) PROVE TypeOK'
  <1>1. JobsOK' BY JobSteps DEF TypeOK, JobsOK, Turn, At, PCs, PoolPCs
  <1>2. DevOK' 
    <2>1. [dev EXCEPT ![job[j].dev].busy = j] \in [Devices -> DeviceRec]
      BY TurnTaken DEF TypeOK, DevOK
    <2>2. dev' = dev \/ dev' = [dev EXCEPT ![job[j].dev].busy = j] BY DEF Turn
    <2> QED BY <2>1, <2>2 DEF TypeOK, DevOK
  <1> QED BY <1>1, <1>2 DEF TypeOK, JobsOK, DevOK, Turn, guest

\* The build installed, or not.
LEMMA InstallType == ASSUME TypeOK, NEW j \in Jobs, Install(j) PROVE TypeOK'
  <1>1. JobsOK' BY JobSteps DEF TypeOK, JobsOK, Install, At, PCs, PoolPCs, GiveUp
  <1>2. left' \in [Events -> Nat] BY Budgeted DEF TypeOK, Install, Fails, Events
  <1>3. DevOK'
    <2>1. dev' = dev \/ dev' = Release(job[j].dev) BY DEF Install, GiveUp
    <2> QED BY <2>1, Released DEF TypeOK, DevOK
  <1>4. job[j].inst \in Instances BY DEF TypeOK, Install, At, JobRec, PoolPCs
  <1>5. inst[job[j].inst].apk \in Builds \cup {NoBuild} BY <1>4 DEF TypeOK, InstanceRec
  <1>6. bytes' \in [Devices -> [Packages -> Builds \cup {NoBuild}]]
    <2>1. ASSUME NEW b \in Builds \cup {NoBuild}
          PROVE  [bytes EXCEPT ![job[j].dev][Package(job[j].inst)] = b]
                    \in [Devices -> [Packages -> Builds \cup {NoBuild}]]
      BY Updated DEF TypeOK
    <2>2. \/ UNCHANGED bytes
          \/ \E b \in {NoBuild, inst[job[j].inst].apk} :
                bytes' = [bytes EXCEPT ![job[j].dev][Package(job[j].inst)] = b]
      BY DEF Install
    <2>3. CASE UNCHANGED bytes BY <2>3 DEF TypeOK
    <2>4. ASSUME NEW b \in {NoBuild, inst[job[j].inst].apk},
                 bytes' = [bytes EXCEPT ![job[j].dev][Package(job[j].inst)] = b]
          PROVE  bytes' \in [Devices -> [Packages -> Builds \cup {NoBuild}]]
      <3>1. b \in Builds \cup {NoBuild} BY <1>5
      <3> QED BY <2>1, <2>4, <3>1
    <2> QED BY <2>2, <2>3, <2>4
  <1>7. app' \in [Devices -> [Users -> Instances \cup {NoInstance}]] BY DEF TypeOK, Install
  <1>8. hurt' \in SUBSET Instances BY DEF TypeOK, Install, Others
  <1> QED BY <1>1, <1>2, <1>3, <1>6, <1>7, <1>8 DEF TypeOK, JobsOK, DevOK, Install

\* A user made whose making failed is made all the same.
LEMMA UserLeft ==
    ASSUME TypeOK, NEW d, MayLeaveUser(d) PROVE made' \in [Devices -> 0..MaxUser]
  <1>1. CASE UNCHANGED made BY <1>1 DEF TypeOK
  <1>2. CASE Alive(d) /\ made[d] < MaxUser /\ made' = [made EXCEPT ![d] = @ + 1]
    <2>1. made \in [Devices -> 0..MaxUser] /\ d \in Devices BY <1>2 DEF TypeOK, Alive
    <2>2. made[d] + 1 \in 0..MaxUser BY <1>2, <2>1, ConstantsOK
    <2> QED BY <1>2, <2>1, <2>2
  <1> QED BY <1>1, <1>2 DEF MayLeaveUser

\* The user picked, or a new one made.
LEMMA PickType == ASSUME TypeOK, NEW j \in Jobs, Pick(j) PROVE TypeOK'
  <1> DEFINE d == job[j].dev
             i == job[j].inst
             known == IF There(d) THEN dev[d].users ELSE {}
             new == made[d] + 1
             With(u) == job' = [job EXCEPT ![j].pc = "record", ![j].user = u]
  <1>1. i \in Instances BY DEF TypeOK, Pick, At, JobRec, PoolPCs
  <1>2. ASSUME NEW u \in Users \cup {NoUser}, With(u) PROVE JobsOK'
    <2>1. [job[j] EXCEPT !.pc = "record", !.user = u] \in JobRec
      <3>1. job[j] \in JobRec /\ "record" \in PCs BY DEF TypeOK, PCs
      <3> QED BY <1>1, <1>2, <3>1 DEF JobRec
    <2>2. job' = [job EXCEPT ![j] = [job[j] EXCEPT !.pc = "record", !.user = u]]
      BY <1>2 DEF TypeOK
    <2> QED BY <2>1, <2>2, JobPut DEF JobsOK, TypeOK
  <1>3. known \subseteq Users BY DEF TypeOK, There, DeviceRec
  <1>4. inst[i].user \in Users \cup {NoUser} BY <1>1 DEF TypeOK, InstanceRec
  <1>5. JobsOK'
    <2>1. CASE \E u \in Users \cup {NoUser} : With(u) BY <1>2, <2>1
    <2>2. CASE Goto(j, "failed")
      BY <2>2, JobSteps DEF TypeOK, JobsOK, Pick, At, PCs, PoolPCs
    <2> QED BY <1>3, <1>4, <2>1, <2>2 DEF Pick, GiveUp
  <1>6. left' \in [Events -> Nat] BY Budgeted DEF TypeOK, Pick, Fails, Events
  <1>7. made' \in [Devices -> 0..MaxUser]
    <2>1. CASE MayLeaveUser(d) BY <2>1, UserLeft
    <2>2. CASE UNCHANGED made BY <2>2 DEF TypeOK
    <2>3. CASE new \in Users /\ made' = [made EXCEPT ![d] = new]
      <3>1. new \in 0..MaxUser /\ made \in [Devices -> 0..MaxUser]
        BY <2>3, ConstantsOK DEF TypeOK, Users
      <3> HIDE DEF d, new
      <3> QED BY <2>3, <3>1
    <2>4. MayLeaveUser(d) \/ UNCHANGED made \/ (new \in Users /\ made' = [made EXCEPT ![d] = new])
      BY DEF Pick
    <2> QED BY <2>1, <2>2, <2>3, <2>4
  <1>8. DevOK'
    <2>1. ASSUME There(d), new \in Users
          PROVE [dev EXCEPT ![d].users = @ \cup {new}] \in [Devices -> DeviceRec]
      <3>1. dev[d] \in DeviceRec BY <2>1 DEF There, TypeOK
      <3>2. [dev[d] EXCEPT !.users = @ \cup {new}] \in DeviceRec BY <2>1, <3>1 DEF DeviceRec
      <3> QED BY <2>1, <3>2 DEF There, TypeOK
    <2>2. DevOK /\ Release(d) \in [Devices -> DeviceRec] BY Released DEF TypeOK, DevOK
    <2> QED BY <2>1, <2>2 DEF Pick, GiveUp, DevOK
  <1> QED BY <1>5, <1>6, <1>7, <1>8 DEF TypeOK, JobsOK, DevOK, Pick

\* The user recorded, the instance starting.
LEMMA RecordType == ASSUME TypeOK, NEW j \in Jobs, Record(j) PROVE TypeOK'
  <1>1. JobsOK' BY JobSteps DEF TypeOK, JobsOK, Record, At, PCs, PoolPCs
  <1>2. InstOK'
    <2>1. job[j].user \in Users \cup {NoUser} BY DEF TypeOK, JobRec
    <2> DEFINE i == job[j].inst
    <2>2. [inst EXCEPT ![i].user = job[j].user, ![i].state = "starting"] \in [Instances -> InstanceRec]
      <3>1. i \in Instances BY DEF TypeOK, Record, At, JobRec, PoolPCs
      <3>2. inst[i] \in InstanceRec BY <3>1 DEF TypeOK
      <3>3. [inst[i] EXCEPT !.user = job[j].user, !.state = "starting"] \in InstanceRec
        BY <2>1, <3>2 DEF InstanceRec, InstanceStates
      <3> QED BY <3>1, <3>3, InstPut DEF TypeOK, InstOK
    <2> QED BY <2>2 DEF TypeOK, InstOK, Record
  <1>3. DevOK' BY Released DEF TypeOK, DevOK, Record
  <1> QED BY <1>1, <1>2, <1>3 DEF TypeOK, JobsOK, InstOK, DevOK, Record, guest

\* The display kept or added.
LEMMA DisplayType == ASSUME TypeOK, NEW j \in Jobs, Display(j) PROVE TypeOK'
  <1> DEFINE d == job[j].dev
             i == job[j].inst
             kept == inst[i].hwc
             On(h, k) == job' = [job EXCEPT ![j].pc = "keep", ![j].hwc = h, ![j].flag = k]
  <1>1. i \in Instances BY DEF TypeOK, Display, At, JobRec, PoolPCs
  <1>2. kept \in Displays \cup {NoDisplay} BY <1>1 DEF TypeOK, InstanceRec
  <1>3. ASSUME NEW h \in Displays \cup {NoDisplay}, NEW k \in BOOLEAN, On(h, k) PROVE JobsOK'
    <2>1. [job[j] EXCEPT !.pc = "keep", !.hwc = h, !.flag = k] \in JobRec
      <3>1. job[j] \in JobRec /\ "keep" \in PCs BY DEF TypeOK, PCs
      <3> QED BY <1>1, <1>3, <3>1 DEF JobRec
    <2>2. job' = [job EXCEPT ![j] = [job[j] EXCEPT !.pc = "keep", !.hwc = h, !.flag = k]]
      BY <1>3 DEF TypeOK
    <2> QED BY <2>1, <2>2, JobPut DEF JobsOK, TypeOK
  <1>4. JobsOK'
    <2>1. CASE On(kept, TRUE) BY <1>2, <1>3, <2>1
    <2>2. CASE \E h \in NewDisplays(d) : On(h, FALSE) BY <1>3, <2>2 DEF NewDisplays
    <2>3. CASE GotoEnd(j) BY <2>3, JobSteps DEF TypeOK, JobsOK, Display, At, PoolPCs
    <2> QED BY <2>1, <2>2, <2>3 DEF Display
  <1>5. left' \in [Events -> Nat]
    <2>1. Fails(d) => left' \in [Events -> Nat] BY Budgeted DEF TypeOK, Fails, Events
    <2>2. Free => left' \in [Events -> Nat] BY Budgeted DEF TypeOK
    <2> QED BY <2>1, <2>2 DEF Display
  <1>6. DevOK'
    <2>1. UNCHANGED dev \/ dev' = Release(d) BY DEF Display
    <2>2. DevOK /\ Release(d) \in [Devices -> DeviceRec] BY Released DEF TypeOK, DevOK
    <2> QED BY <2>1, <2>2 DEF DevOK
  <1>7. shown' \in [Devices -> [Displays -> Instances \cup {NoInstance}]]
    <2>1. ASSUME NEW h, shown' = [shown EXCEPT ![d][h] = i] PROVE shown' \in [Devices -> [Displays -> Instances \cup {NoInstance}]]
      BY <1>1, <2>1, Updated DEF TypeOK
    <2>2. UNCHANGED shown \/ \E h \in NewDisplays(d) : shown' = [shown EXCEPT ![d][h] = i]
      BY DEF Display
    <2> QED BY <2>1, <2>2 DEF TypeOK
  <1> QED BY <1>4, <1>5, <1>6, <1>7 DEF TypeOK, JobsOK, DevOK, Display

\* The display recorded, its card taken away.
LEMMA KeepType == ASSUME TypeOK, NEW j \in Jobs, Keep(j) PROVE TypeOK'
  <1>1. JobsOK' BY JobSteps DEF TypeOK, JobsOK, Keep, At, PCs, PoolPCs
  <1>2. InstOK'
    <2>1. job[j].hwc \in Displays \cup {NoDisplay} /\ job[j].flag \in BOOLEAN BY DEF TypeOK, JobRec
    <2> DEFINE i == job[j].inst
    <2>2. ASSUME NEW h \in Displays \cup {NoDisplay}, NEW k \in BOOLEAN
          PROVE  RecordDisplay(i, h, k) \in [Instances -> InstanceRec]
      <3>1. InstOK BY DEF TypeOK, InstOK
      <3>2. i \in Instances BY DEF TypeOK, Keep, At, JobRec, PoolPCs
      <3>3. inst[i] \in InstanceRec BY <3>1, <3>2 DEF InstOK
      <3>4. [inst[i] EXCEPT !.hwc = h, !.headless = @ /\ k] \in InstanceRec
        <4>1. [inst[i] EXCEPT !.hwc = h] \in InstanceRec BY <2>2, <3>3 DEF InstanceRec
        <4> DEFINE b == inst[i].headless /\ k
        <4>2. b \in BOOLEAN OBVIOUS
        <4> HIDE DEF b
        <4>3. [inst[i] EXCEPT !.hwc = h, !.headless = b] \in InstanceRec
          BY <4>1, <4>2 DEF InstanceRec
        <4> QED BY <3>3, <4>3 DEF b, InstanceRec
      <3>5. [inst EXCEPT ![i] = [inst[i] EXCEPT !.hwc = h, !.headless = @ /\ k]] \in [Instances -> InstanceRec]
        BY <3>1, <3>4, InstPut
      <3> QED BY <3>1, <3>2, <3>5 DEF InstOK, RecordDisplay
    <2> QED BY <2>1, <2>2 DEF InstOK, Keep
  <1>3. DevOK' BY Released DEF TypeOK, DevOK, Keep
  <1>4. left' \in [Events -> Nat] BY Budgeted DEF TypeOK, Keep, Events
  <1>5. card' \in [Devices -> [Displays -> Instances \cup {NoInstance}]]
    <2>1. [card EXCEPT ![job[j].dev][job[j].hwc] = NoInstance]
             \in [Devices -> [Displays -> Instances \cup {NoInstance}]]
      BY Updated DEF TypeOK
    <2> QED BY <2>1 DEF TypeOK, Keep
  <1> QED BY <1>1, <1>2, <1>3, <1>4, <1>5 DEF TypeOK, JobsOK, InstOK, DevOK, Keep

\* The app started, or not.
LEMMA StartType == ASSUME TypeOK, NEW j \in Jobs, Start(j) PROVE TypeOK'
  <1>1. JobsOK' BY JobSteps DEF TypeOK, JobsOK, Start, At, PCs, PoolPCs, GiveUp
  <1>2. DevOK' BY Released DEF TypeOK, DevOK, Start, GiveUp
  <1>3. left' \in [Events -> Nat] BY Budgeted DEF TypeOK, Start, Fails, Events
  <1>4. job[j].inst \in Instances BY DEF TypeOK, Start, At, JobRec, PoolPCs
  <1>5. app' \in [Devices -> [Users -> Instances \cup {NoInstance}]]
    <2>1. [app EXCEPT ![job[j].dev][job[j].user] = job[j].inst]
             \in [Devices -> [Users -> Instances \cup {NoInstance}]]
      BY <1>4, Updated DEF TypeOK
    <2> QED BY <2>1 DEF TypeOK, Start
  <1>6. hurt' \in SUBSET Instances BY DEF TypeOK, Start, Others
  <1> QED BY <1>1, <1>2, <1>3, <1>5, <1>6 DEF TypeOK, JobsOK, DevOK, Start

\* Running, or to be undone.
LEMMA StartedType == ASSUME TypeOK, NEW j \in Jobs, Started(j) PROVE TypeOK'
  <1>1. JobsOK'
    <2>1. job[j].inst \in Instances BY DEF TypeOK, Started, At, JobRec, PoolPCs
    <2>2. JobOf("end", job[j].inst) \in JobRec BY <2>1, JobFor DEF PCs
    <2> QED BY <2>2, JobPut, JobSteps DEF TypeOK, JobsOK, Started
  <1>2. InstOK'
    <2>1. [inst EXCEPT ![job[j].inst].state = "running"] \in [Instances -> InstanceRec]
      BY StateSet DEF TypeOK, InstOK, InstanceStates
    <2> QED BY <2>1 DEF TypeOK, InstOK, Started
  <1>3. DevOK' BY Released DEF TypeOK, DevOK, Started
  <1> QED BY <1>1, <1>2, <1>3 DEF TypeOK, JobsOK, InstOK, DevOK, Started, guest

\* take_ended of a start that failed.
LEMMA StartFailedType == ASSUME TypeOK, NEW j \in Jobs, StartFailed(j) PROVE TypeOK'
  <1>1. JobsOK'
    <2>1. job[j].inst \in Instances BY DEF TypeOK, StartFailed, At, JobRec, PoolPCs
    <2>2. JobOf("own_read", job[j].inst) \in JobRec BY <2>1, JobFor DEF PCs
    <2> QED BY <2>2, JobPut, JobSteps DEF TypeOK, JobsOK, StartFailed
  <1>2. InstOK'
    <2>1. [inst EXCEPT ![job[j].inst].state = "closing"] \in [Instances -> InstanceRec]
      BY StateSet DEF TypeOK, InstOK, InstanceStates
    <2> QED BY <2>1 DEF TypeOK, InstOK, StartFailed
  <1> QED BY <1>1, <1>2 DEF TypeOK, JobsOK, InstOK, StartFailed, guest

\* not_started.
LEMMA FailedType == ASSUME TypeOK, NEW j \in Jobs, Failed(j) PROVE TypeOK'
  <1>1. JobsOK' BY JobSteps DEF TypeOK, JobsOK, Failed, At, PCs, PoolPCs
  <1> QED BY <1>1 DEF TypeOK, JobsOK, Failed, pool, guest

\* not_restarted.
LEMMA NotRestartedType == ASSUME TypeOK, NEW j \in Jobs, NotRestarted(j) PROVE TypeOK'
  <1> DEFINE i == job[j].inst
  <1>1. i \in Instances BY DEF TypeOK, NotRestarted, At, JobRec, PoolPCs
  <1>2. JobsOK'
    <2>1. There(inst[i].device) =>
            [JobOf("own_card", i) EXCEPT !.dev = inst[i].device, !.hwc = inst[i].hwc] \in JobRec
      BY <1>1 DEF TypeOK, There, InstanceRec, JobOf, Idle, JobRec, PCs, NoInstance, NoUser, NoDisplay, NoDevice
    <2> QED BY <2>1, JobPut, JobSteps DEF TypeOK, JobsOK, NotRestarted
  <1>3. InstOK'
    <2>1. [inst EXCEPT ![job[j].inst].state = "ended"] \in [Instances -> InstanceRec]
      BY StateSet DEF TypeOK, InstOK, InstanceStates
    <2> QED BY <2>1 DEF TypeOK, InstOK, NotRestarted
  <1>4. DevOK' BY IdleMarked DEF TypeOK, DevOK, NotRestarted
  <1> QED BY <1>2, <1>3, <1>4 DEF TypeOK, JobsOK, InstOK, DevOK, NotRestarted, guest

-----------------------------------------------------------------------------
(* An end *)

\* end looks at its instance's device.
LEMMA EndType == ASSUME TypeOK, NEW j \in Jobs, End(j) PROVE TypeOK'
  <1>1. JobsOK'
    <2> DEFINE r == [job[j] EXCEPT !.pc = "undo", !.dev = inst[job[j].inst].device]
    <2>1. job[j] \in JobRec /\ job[j].inst \in Instances BY JobInst DEF TypeOK, End, At, PoolPCs
    <2>2. inst[job[j].inst] \in InstanceRec BY <2>1 DEF TypeOK
    <2>3. r \in JobRec
      <3>1. "undo" \in PCs BY DEF PCs
      <3> QED BY <2>1, <2>2, <3>1 DEF JobRec, InstanceRec
    <2>4. CASE job' = [job EXCEPT ![j].pc = "undo", ![j].dev = inst[job[j].inst].device]
      <3>1. job' = [job EXCEPT ![j] = r] BY <2>4 DEF TypeOK
      <3> QED BY <2>3, <3>1, JobPut DEF TypeOK, JobsOK
    <2>5. CASE AfterUndo(j)
      BY <2>5, JobSteps DEF TypeOK, JobsOK, AfterUndo, End, At, PCs, PoolPCs
    <2> QED BY <2>4, <2>5 DEF End
  <1> QED BY <1>1 DEF TypeOK, JobsOK, End, pool, guest

\* cleanup under the device's turn.
LEMMA UndoType == ASSUME TypeOK, NEW j \in Jobs, Undo(j) PROVE TypeOK'
  <1> DEFINE d == job[j].dev
             i == job[j].inst
             u == IF inst[i].state = "ended" THEN NoUser ELSE inst[i].user
             h == inst[i].hwc
  <1>1. JobsOK' BY JobSteps DEF TypeOK, JobsOK, Undo, AfterUndo, At, PCs, PoolPCs
  <1>2. InstOK' BY DisplayTaken DEF Undo, TakeDisplay, InstOK
  <1>3. app' \in [Devices -> [Users -> Instances \cup {NoInstance}]]
    <2>1. [app EXCEPT ![d][u] = NoInstance] \in [Devices -> [Users -> Instances \cup {NoInstance}]]
      BY Updated DEF TypeOK
    <2> QED BY <2>1 DEF TypeOK, Undo
  <1>4. shown' \in [Devices -> [Displays -> Instances \cup {NoInstance}]]
    <2>1. [shown EXCEPT ![d][h] = NoInstance] \in [Devices -> [Displays -> Instances \cup {NoInstance}]]
      BY Updated DEF TypeOK
    <2> QED BY <2>1 DEF TypeOK, Undo
  <1>5. card' \in [Devices -> [Displays -> Instances \cup {NoInstance}]]
    <2>1. [card EXCEPT ![d][h] = NoInstance] \in [Devices -> [Displays -> Instances \cup {NoInstance}]]
      BY Updated DEF TypeOK
    <2> QED BY <2>1 DEF TypeOK, Undo
  <1>6. mark' \in [Devices -> SUBSET Displays] BY DEF TypeOK, Undo
  <1>7. hurt' \in SUBSET Instances BY DEF TypeOK, Undo, Others, Onlookers
  <1> QED BY <1>1, <1>2, <1>3, <1>4, <1>5, <1>6, <1>7 DEF TypeOK, JobsOK, InstOK, Undo

\* The instance ended.
LEMMA EndedType == ASSUME TypeOK, NEW j \in Jobs, Ended(j) PROVE TypeOK'
  <1> DEFINE i == job[j].inst
  <1>1. JobsOK' BY JobSteps DEF TypeOK, JobsOK, Ended
  <1>2. InstOK'
    <2>1. i \in Instances BY JobInst DEF Ended, At, PoolPCs
    <2>2. inst[i] \in InstanceRec BY <2>1 DEF TypeOK
    <2>3. [inst[i] EXCEPT !.state = "ended", !.countdown = NoJob] \in InstanceRec
      BY <2>2 DEF InstanceRec, InstanceStates
    <2>4. [inst EXCEPT ![i].state = "ended", ![i].countdown = NoJob] \in [Instances -> InstanceRec]
      BY <2>1, <2>3, InstPut DEF TypeOK, InstOK
    <2> QED BY <2>4 DEF TypeOK, InstOK, Ended
  <1>3. DevOK' BY IdleMarked DEF TypeOK, DevOK, Ended
  <1> QED BY <1>1, <1>2, <1>3 DEF TypeOK, JobsOK, InstOK, DevOK, Ended, guest

\* ended_on_its_own reads where its instance is.
LEMMA OwnReadType == ASSUME TypeOK, NEW j \in Jobs, OwnRead(j) PROVE TypeOK'
  <1> DEFINE i == job[j].inst
             r == [job[j] EXCEPT !.pc = "own_end", !.dev = inst[i].device, !.user = inst[i].user]
  <1>1. JobsOK'
    <2>1. job[j] \in JobRec /\ i \in Instances BY JobInst DEF TypeOK, OwnRead, At, PoolPCs
    <2>2. inst[i] \in InstanceRec BY <2>1 DEF TypeOK
    <2>3. r \in JobRec
      <3>1. "own_end" \in PCs BY DEF PCs
      <3> QED BY <2>1, <2>2, <3>1 DEF JobRec, InstanceRec
    <2>4. CASE job' = [job EXCEPT ![j].pc = "own_end", ![j].dev = inst[i].device, ![j].user = inst[i].user]
      <3>1. job' = [job EXCEPT ![j] = r] BY <2>4 DEF TypeOK
      <3> QED BY <2>3, <3>1, JobPut DEF TypeOK, JobsOK
    <2>5. CASE Done(j) BY <2>5, JobSteps DEF TypeOK, JobsOK
    <2> QED BY <2>4, <2>5 DEF OwnRead
  <1> QED BY <1>1 DEF TypeOK, JobsOK, OwnRead, pool, guest

\* ended_on_its_own decides under the lock, in each of its four ways.
LEMMA OwnEndType == ASSUME TypeOK, NEW j \in Jobs, OwnEnd(j) PROVE TypeOK'
  <1> DEFINE i == job[j].inst
             d == job[j].dev
             halt == Alive(d) /\ job[j].user # NoUser
             rec == Counted(inst[i], halt)
             Then(pc, h) == [job EXCEPT ![j].pc = pc, ![j].hwc = h, ![j].flag = halt]
             after == IF halt THEN "halt" ELSE "halted"
             OnItsOwn(r, auto) ==
               IF auto /\ ~stopping /\ MayRestart(r)
               THEN /\ HasJob
                    /\ inst' = [inst EXCEPT ![i] = [r EXCEPT
                           !.state = "restarting", !.countdown = NewJob]]
                    /\ job' = [Then(after, NoDisplay) EXCEPT ![NewJob] = JobOf("count", i)]
               ELSE IF ~ShowsCard(r)
               THEN /\ inst' = [inst EXCEPT ![i] =
                           [[r EXCEPT !.state = "ended"] EXCEPT !.hwc = NoDisplay]]
                    /\ job' = Then("own_remove", [r EXCEPT !.state = "ended"].hwc)
               ELSE /\ inst' = [inst EXCEPT ![i] = [r EXCEPT !.state = "ended"]]
                    /\ job' = Then("own_card", IF Alive(d) THEN r.hwc ELSE NoDisplay)
  <1>1. i \in Instances BY JobInst DEF OwnEnd, At, PoolPCs
  <1>2. halt \in BOOLEAN BY DEF Alive
  <1>3. rec \in InstanceRec BY <1>1, <1>2, EndCounted DEF TypeOK
  <1>4. \A pc \in PCs \ {"offer"}, h \in Displays \cup {NoDisplay} : Then(pc, h) \in [Jobs -> JobRec]
    BY <1>1, <1>2, GoesOn
  <1>5. /\ "own_remove" \in PCs \ {"offer"} /\ "own_card" \in PCs \ {"offer"}
        /\ after \in PCs \ {"offer"} /\ "count" \in PCs
    BY DEF PCs
  <1> HIDE DEF halt, rec, after
  <1>6. ASSUME NEW r \in InstanceRec, NEW s \in InstanceStates, NEW c \in Jobs
        PROVE  /\ [r EXCEPT !.state = s] \in InstanceRec
               /\ [[r EXCEPT !.state = s] EXCEPT !.hwc = NoDisplay] \in InstanceRec
               /\ [r EXCEPT !.state = s, !.countdown = c] \in InstanceRec
               /\ r.hwc \in Displays \cup {NoDisplay}
    BY <1>6 DEF InstanceRec
  <1>7. CASE ~Live(i) \/ inst[i].closed
    <2>1. JobsOK' BY <1>7, JobSteps DEF TypeOK, JobsOK, OwnEnd, At, PCs, PoolPCs
    <2>2. UNCHANGED inst BY <1>7 DEF OwnEnd
    <2> QED BY <2>1, <2>2 DEF TypeOK, JobsOK, OwnEnd, guest
  <1>8. ASSUME NEW r \in InstanceRec,
               inst' = [inst EXCEPT ![i] = [[r EXCEPT !.state = "ended"] EXCEPT !.hwc = NoDisplay]],
               job' = Then("own_remove", [r EXCEPT !.state = "ended"].hwc)
        PROVE  InstOK' /\ JobsOK'
    <2>1. InstOK' BY <1>6, <1>8, InstPut DEF TypeOK, InstOK, InstanceStates
    <2>2. [r EXCEPT !.state = "ended"].hwc \in Displays \cup {NoDisplay} BY <1>8 DEF InstanceRec
    <2> QED BY <1>4, <1>5, <1>8, <2>1, <2>2 DEF JobsOK
  <1>9. ASSUME NEW quick \in BOOLEAN, NEW auto \in AutoRestart,
               OnItsOwn(CountEnd(rec, quick), auto)
        PROVE  InstOK' /\ JobsOK'
    <2> DEFINE r == CountEnd(rec, quick)
    <2>1. r \in InstanceRec BY <1>3, <1>9, EndCounted
    <2> HIDE DEF r
    <2>2. ASSUME HasJob,
                 inst' = [inst EXCEPT ![i] = [r EXCEPT !.state = "restarting", !.countdown = NewJob]],
                 job' = [Then(after, NoDisplay) EXCEPT ![NewJob] = JobOf("count", i)]
          PROVE  InstOK' /\ JobsOK'
      <3>1. NewJob \in Jobs BY <2>2, FreshJob
      <3>2. InstOK' BY <1>6, <2>1, <2>2, <3>1, InstPut DEF TypeOK, InstOK, InstanceStates
      <3>3. Then(after, NoDisplay) \in [Jobs -> JobRec] BY <1>4, <1>5
      <3>4. JobOf("count", i) \in JobRec BY <1>1, <1>5, JobFor
      <3> HIDE DEF Then
      <3> QED BY <2>2, <3>1, <3>2, <3>3, <3>4 DEF JobsOK
    <2>3. ASSUME inst' = [inst EXCEPT ![i] = [r EXCEPT !.state = "ended"]],
                 job' = Then("own_card", IF Alive(d) THEN r.hwc ELSE NoDisplay)
          PROVE  InstOK' /\ JobsOK'
      <3>1. InstOK' BY <1>6, <2>1, <2>3, InstPut DEF TypeOK, InstOK, InstanceStates
      <3>2. (IF Alive(d) THEN r.hwc ELSE NoDisplay) \in Displays \cup {NoDisplay} BY <2>1 DEF InstanceRec
      <3> QED BY <1>4, <1>5, <2>3, <3>1, <3>2 DEF JobsOK
    <2> QED BY <1>8, <1>9, <2>1, <2>2, <2>3 DEF r
  <1>10. CASE ~(~Live(i) \/ inst[i].closed)
    <2> DEFINE OnPurpose ==
                 /\ inst' = [inst EXCEPT ![i] = [[rec EXCEPT !.state = "ended"] EXCEPT !.hwc = NoDisplay]]
                 /\ job' = Then("own_remove", [rec EXCEPT !.state = "ended"].hwc)
    <2>0. OnPurpose \/ \E quick \in BOOLEAN, auto \in AutoRestart : OnItsOwn(CountEnd(rec, quick), auto)
      BY <1>10, Zenon DEF OwnEnd, halt, rec, after
    <2>1. InstOK' /\ JobsOK'
      <3>1. CASE OnPurpose BY <1>3, <1>8, <3>1
      <3>2. ASSUME NEW quick \in BOOLEAN, NEW auto \in AutoRestart,
                   OnItsOwn(CountEnd(rec, quick), auto)
            PROVE  InstOK' /\ JobsOK'
        BY <1>9, <3>2
      <3> HIDE DEF OnPurpose, OnItsOwn
      <3> QED BY <2>0, <3>1, <3>2
    <2> QED BY <2>1 DEF TypeOK, InstOK, JobsOK, OwnEnd, guest
  <1> QED BY <1>7, <1>10

\* The display of an end with no card removed.
LEMMA OwnRemoveType == ASSUME TypeOK, NEW j \in Jobs, OwnRemove(j) PROVE TypeOK'
  <1>1. JobsOK' BY JobSteps DEF TypeOK, JobsOK, OwnRemove, AfterShow, At, PCs, PoolPCs
  <1> QED BY <1>1, DisplayRemoved DEF TypeOK, JobsOK, OwnRemove, pool

\* An end's card shown.
LEMMA OwnCardType == ASSUME TypeOK, NEW j \in Jobs, OwnCard(j) PROVE TypeOK'
  <1>1. JobsOK' BY JobSteps DEF TypeOK, JobsOK, OwnCard, AfterShow, At, PCs, PoolPCs
  <1>2. job[j].inst \in Instances BY JobInst DEF OwnCard, At, PoolPCs
  <1> QED BY <1>1, <1>2, CardShown DEF TypeOK, JobsOK, InstOK, OwnCard

\* halt's stop under the turn.
LEMMA HaltType == ASSUME TypeOK, NEW j \in Jobs, Halt(j) PROVE TypeOK'
  <1>1. JobsOK' BY JobSteps DEF TypeOK, JobsOK, Halt, At, PCs, PoolPCs
  <1>2. app' \in [Devices -> [Users -> Instances \cup {NoInstance}]]
    <2>1. [app EXCEPT ![job[j].dev][job[j].user] = NoInstance]
             \in [Devices -> [Users -> Instances \cup {NoInstance}]]
      BY Updated DEF TypeOK
    <2> QED BY <2>1 DEF TypeOK, Halt, StopUser
  <1>3. hurt' \in SUBSET Instances BY DEF TypeOK, Halt, StopUser, Others
  <1> QED BY <1>1, <1>2, <1>3 DEF TypeOK, JobsOK, Halt, pool

\* halt's count down, which does not go below zero.
LEMMA HaltedType == ASSUME TypeOK, NEW j \in Jobs, Halted(j) PROVE TypeOK'
  <1> DEFINE i == job[j].inst
  <1>1. JobsOK' BY JobSteps DEF TypeOK, JobsOK, Halted
  <1>2. InstOK'
    <2>1. i \in Instances BY JobInst DEF Halted, At, PoolPCs
    <2>2. inst[i] \in InstanceRec BY <2>1 DEF TypeOK
    <2>3. Monus(inst[i].halting, 1) \in Nat BY <2>2 DEF InstanceRec, Monus
    <2>4. [inst[i] EXCEPT !.halting = Monus(@, 1)] \in InstanceRec BY <2>2, <2>3 DEF InstanceRec
    <2>5. [inst EXCEPT ![i].halting = Monus(@, 1)] \in [Instances -> InstanceRec]
      BY <2>1, <2>4, InstPut DEF TypeOK, InstOK
    <2> QED BY <2>5 DEF TypeOK, InstOK, Halted
  <1>3. DevOK' BY IdleMarked DEF TypeOK, DevOK, Halted
  <1> QED BY <1>1, <1>2, <1>3 DEF TypeOK, JobsOK, InstOK, DevOK, Halted, guest

-----------------------------------------------------------------------------
(* A restart *)

\* A countdown that is another's by now, or over.
LEMMA CountOverType == ASSUME TypeOK, NEW j \in Jobs, CountOver(j) PROVE TypeOK'
  <1>1. JobsOK' BY JobSteps DEF TypeOK, JobsOK, CountOver
  <1> QED BY <1>1 DEF TypeOK, JobsOK, CountOver, pool, guest

\* count_down reads the display.
LEMMA CountType == ASSUME TypeOK, NEW j \in Jobs, Count(j) PROVE TypeOK'
  <1> DEFINE i == job[j].inst
             d == inst[i].device
             h == inst[i].hwc
             r == [job[j] EXCEPT !.pc = "count_card", !.dev = d, !.hwc = h]
  <1>1. job[j] \in JobRec /\ i \in Instances BY JobInst DEF TypeOK, Count, At, PoolPCs
  <1>2. inst[i] \in InstanceRec BY <1>1 DEF TypeOK
  <1>3. r \in JobRec
    <2>1. "count_card" \in PCs BY DEF PCs
    <2> QED BY <1>1, <1>2, <2>1 DEF JobRec, InstanceRec
  <1>4. job' = [job EXCEPT ![j] = r] BY DEF TypeOK, Count
  <1>5. JobsOK' BY <1>3, <1>4, JobPut DEF TypeOK, JobsOK
  <1> QED BY <1>5 DEF TypeOK, JobsOK, Count, pool, guest

\* count_down's card.
LEMMA CountCardType == ASSUME TypeOK, NEW j \in Jobs, CountCard(j) PROVE TypeOK'
  <1>1. JobsOK' BY JobSteps DEF TypeOK, JobsOK, CountCard, At, PCs, PoolPCs
  <1>2. job[j].inst \in Instances BY JobInst DEF CountCard, At, PoolPCs
  <1> QED BY <1>1, <1>2, CardShown DEF TypeOK, JobsOK, InstOK, CountCard

\* The countdown at its end.
LEMMA CountEndsType == ASSUME TypeOK, NEW j \in Jobs, CountEnds(j) PROVE TypeOK'
  <1>1. JobsOK' BY JobSteps DEF TypeOK, JobsOK, CountEnds, At, PCs, PoolPCs
  <1> QED BY <1>1 DEF TypeOK, JobsOK, CountEnds, pool, guest

\* relaunch takes the instance.
LEMMA RelaunchType == ASSUME TypeOK, NEW j \in Jobs, Relaunch(j) PROVE TypeOK'
  <1> DEFINE i == job[j].inst
  <1>1. JobsOK' BY JobSteps DEF TypeOK, JobsOK, Relaunch, At, PCs, PoolPCs
  <1>2. InstOK'
    <2>1. i \in Instances BY JobInst DEF Relaunch, At, PoolPCs
    <2>2. inst[i] \in InstanceRec BY <2>1 DEF TypeOK
    <2>3. [inst[i] EXCEPT !.state = "waiting", !.countdown = NoJob] \in InstanceRec
      BY <2>2 DEF InstanceRec, InstanceStates
    <2>4. [inst EXCEPT ![i].state = "waiting", ![i].countdown = NoJob] \in [Instances -> InstanceRec]
      BY <2>1, <2>3, InstPut DEF TypeOK, InstOK
    <2> QED BY <2>4 DEF TypeOK, InstOK, Relaunch
  <1> QED BY <1>1, <1>2 DEF TypeOK, JobsOK, InstOK, Relaunch, guest

\* relaunch places it: where it is, or anew.
LEMMA PlaceAgainType == ASSUME TypeOK, NEW j \in Jobs, PlaceAgain(j) PROVE TypeOK'
  <1> DEFINE i == job[j].inst
             d == inst[i].device
             b == inst[i].apk
             n == PlacedOn(b)
             kept == There(d) /\ inst[i].hwc # NoDisplay
             Stays == /\ dev' = [dev EXCEPT ![d].installed[Package(i)] = b, ![d].idle = FALSE]
                      /\ job' = [job EXCEPT ![j].pc = "warm_again", ![j].boot = NoDevice]
                      /\ UNCHANGED <<inst, next>>
             Moves == /\ n \in Devices
                      /\ dev' = WithBuild(b, n)
                      /\ next' = [next EXCEPT !.device = NextDevice(n)]
                      /\ inst' = Moved(i, n)
                      /\ job' = [job EXCEPT ![j].pc = IF kept THEN "leave_display" ELSE "warm_again",
                                            ![j].dev = d, ![j].hwc = inst[i].hwc,
                                            ![j].boot = BootOf(n)]
  <1>1. i \in Instances /\ job[j] \in JobRec BY JobInst DEF PlaceAgain, At, PoolPCs, TypeOK
  <1>2. inst[i] \in InstanceRec BY <1>1 DEF TypeOK
  <1>3. /\ d \in Devices \cup {NoDevice} /\ b \in Builds \cup {NoBuild}
        /\ inst[i].hwc \in Displays \cup {NoDisplay}
    BY <1>2 DEF InstanceRec
  <1>4. left' \in [Events -> Nat] BY Budgeted DEF TypeOK, PlaceAgain, Events
  <1>5. \/ (Done(j) \/ Goto(j, "not_restarted")) /\ UNCHANGED <<dev, inst, next>>
        \/ Stays
        \/ Moves
    BY DEF PlaceAgain
  <1> DEFINE Kept == DevOK' /\ InstOK' /\ JobsOK' /\ next' \in [device : Nat \ {0}, instance : Nat \ {0}]
  <1>6. ASSUME (Done(j) \/ Goto(j, "not_restarted")) /\ UNCHANGED <<dev, inst, next>> PROVE Kept
    <2>1. JobsOK' BY <1>6, JobSteps DEF TypeOK, JobsOK, PlaceAgain, At, PCs, PoolPCs
    <2> QED BY <1>6, <2>1 DEF TypeOK, DevOK, InstOK
  <1>7. ASSUME Stays PROVE Kept
    <2>1. DevOK'
      <3> DEFINE r == [dev[d] EXCEPT !.installed[Package(i)] = b, !.idle = FALSE]
      <3>1. CASE d \in Devices
        <4>1. dev[d] \in DeviceRec BY <3>1 DEF TypeOK
        <4>2. r \in DeviceRec BY <1>3, <4>1 DEF DeviceRec
        <4>3. dev' = [dev EXCEPT ![d] = r] BY <1>7, <3>1 DEF TypeOK
        <4> QED BY <4>2, <4>3 DEF TypeOK, DevOK
      <3>2. CASE d \notin Devices
        <4>0. dev' = [dev EXCEPT ![d].installed[Package(i)] = b, ![d].idle = FALSE] BY <1>7
        <4>2. dev \in [Devices -> DeviceRec] BY DEF TypeOK
        <4> HIDE DEF d, b, i
        <4>1. dev' = dev BY <3>2, <4>0, <4>2
        <4> QED BY <4>1, <4>2 DEF DevOK
      <3> QED BY <3>1, <3>2
    <2>2. JobsOK'
      <3> DEFINE r == [job[j] EXCEPT !.pc = "warm_again", !.boot = NoDevice]
      <3>1. "warm_again" \in PCs BY DEF PCs
      <3>2. r \in JobRec BY <1>1, <3>1 DEF JobRec
      <3>3. job' = [job EXCEPT ![j] = r] BY <1>7 DEF TypeOK
      <3> QED BY <3>2, <3>3, JobPut DEF TypeOK, JobsOK
    <2> QED BY <1>7, <2>1, <2>2 DEF TypeOK, InstOK
  <1>8. ASSUME Moves PROVE Kept
    <2>1. DevOK' BY <1>3, <1>8, BuildPlaced DEF DevOK
    <2>2. next' \in [device : Nat \ {0}, instance : Nat \ {0}]
      <3>1. NextDevice(n) \in Nat \ {0} BY <1>3, <1>8, BuildPlaced
      <3> QED BY <1>8, <3>1 DEF TypeOK
    <2>3. InstOK'
      <3>1. [inst[i] EXCEPT !.device = n, !.hwc = NoDisplay, !.user = NoUser] \in InstanceRec
        BY <1>2, <1>8 DEF InstanceRec
      <3>2. Moved(i, n) = [inst EXCEPT ![i] = [inst[i] EXCEPT !.device = n, !.hwc = NoDisplay, !.user = NoUser]]
        BY <1>1 DEF Moved, TypeOK
      <3> QED BY <1>8, <3>1, <3>2, InstPut DEF TypeOK, InstOK
    <2>4. JobsOK'
      <3> DEFINE pc == IF kept THEN "leave_display" ELSE "warm_again"
                 r == [job[j] EXCEPT !.pc = pc, !.dev = d, !.hwc = inst[i].hwc, !.boot = BootOf(n)]
      <3>1. pc \in PCs /\ pc # "offer" BY DEF PCs
      <3>2. BootOf(n) \in Devices \cup {NoDevice} BY <1>3, <1>8, BuildPlaced
      <3>3. job' = [job EXCEPT ![j] = r] BY <1>8 DEF TypeOK
      <3> HIDE DEF pc
      <3>4. r \in JobRec BY <1>1, <1>3, <3>1, <3>2 DEF JobRec
      <3> QED BY <3>3, <3>4, JobPut DEF TypeOK, JobsOK
    <2> QED BY <2>1, <2>2, <2>3, <2>4
  <1>9. Kept BY <1>5, <1>6, <1>7, <1>8
  <1> QED BY <1>4, <1>9 DEF TypeOK, DevOK, InstOK, JobsOK, PlaceAgain, guest

\* Its window on the device it left.
LEMMA LeaveDisplayType == ASSUME TypeOK, NEW j \in Jobs, LeaveDisplay(j) PROVE TypeOK'
  <1>1. JobsOK' BY JobSteps DEF TypeOK, JobsOK, LeaveDisplay, At, PCs, PoolPCs
  <1> QED BY <1>1, DisplayRemoved DEF TypeOK, JobsOK, LeaveDisplay, pool

\* restart: its countdown and, of one running, its stop.
LEMMA RestartType == ASSUME TypeOK, NEW i \in Instances, Restart(i) PROVE TypeOK'
  <1> DEFINE d == inst[i].device
             halt == inst[i].state = "running" /\ There(d) /\ inst[i].user # NoUser
             keeps == inst[i].state = "running" \/ inst[i].user \notin UsersTaken(d, i)
             rec == Counted(inst[i], halt)
             u == IF keeps THEN inst[i].user ELSE NoUser
             r == [rec EXCEPT !.state = "restarting", !.countdown = NewJob,
                      !.user = u, !.quick_ends = 0, !.closed = FALSE]
  <1>1. NewJob \in Jobs BY FreshJob DEF Restart
  <1>2. halt => NewJob2 \in Jobs BY DEF Restart, HasJobs2, NewJob2, FreeJobs
  <1>3. inst[i] \in InstanceRec BY DEF TypeOK
  <1>4. halt \in BOOLEAN OBVIOUS
  <1>5. rec \in InstanceRec BY <1>3, <1>4, EndCounted
  <1>6. left' \in [Events -> Nat] BY Budgeted DEF TypeOK, Restart, Events
  <1>7. inst' = [inst EXCEPT ![i] = r]
    BY DEF Restart
  <1>8. JobOf("count", i) \in JobRec
    BY JobFor DEF PCs
  <1>9. ASSUME halt
        PROVE  [JobOf("halt", i) EXCEPT !.dev = d, !.user = inst[i].user, !.flag = TRUE] \in JobRec
    <2>1. JobOf("halt", i) \in JobRec /\ JobOf("halt", i).pc = "halt" /\ JobOf("halt", i).inst = i
      BY JobFor DEF PCs, JobOf, Idle
    <2> QED BY <1>3, <2>1 DEF JobRec, InstanceRec
  <1>10. JobsOK'
    <2> DEFINE counted == [job EXCEPT ![NewJob] = JobOf("count", i)]
    <2>1. counted \in [Jobs -> JobRec] BY <1>8, JobPut DEF TypeOK, JobsOK
    <2>2. CASE ~halt BY <2>1, <2>2 DEF Restart, JobsOK
    <2>3. CASE halt
      <3>1. job' = [counted EXCEPT ![NewJob2] = [JobOf("halt", i) EXCEPT
                       !.dev = d, !.user = inst[i].user, !.flag = TRUE]]
        BY <2>3 DEF Restart
      <3> HIDE DEF counted
      <3> QED BY <1>9, <2>1, <2>3, <3>1 DEF JobsOK
    <2> QED BY <2>2, <2>3
  <1>11. u \in Users \cup {NoUser} BY <1>3 DEF InstanceRec
  <1> HIDE DEF rec, halt, keeps, u
  <1>12. InstOK'
    <2>1. r \in InstanceRec BY <1>1, <1>5, <1>11 DEF InstanceRec, InstanceStates
    <2> QED BY <1>7, <2>1, InstPut DEF TypeOK, InstOK
  <1> QED BY <1>6, <1>10, <1>12 DEF TypeOK, InstOK, JobsOK, Restart, guest

-----------------------------------------------------------------------------
(* close, the windows, clear_ended *)

\* close.
LEMMA CloseType == ASSUME TypeOK, NEW i \in Instances, Close(i) PROVE TypeOK'
  <1>1. DevOK' /\ InstOK' /\ JobsOK' BY ClosedOn, FreshJob DEF Close
  <1>2. left' \in [Events -> Nat] BY Budgeted DEF TypeOK, Close, Events
  <1> QED BY <1>1, <1>2 DEF TypeOK, DevOK, InstOK, JobsOK, Close, guest

\* close, of a window closed.
LEMMA CloseWindowType == ASSUME TypeOK, NEW j \in Jobs, CloseWindow(j) PROVE TypeOK'
  <1>1. job[j].inst \in Instances BY JobInst DEF CloseWindow, At, PoolPCs
  <1>2. CASE CloseOn(job[j].inst, j)
    <2>1. DevOK' /\ InstOK' /\ JobsOK' BY <1>1, <1>2, ClosedOn
    <2> QED BY <2>1 DEF TypeOK, DevOK, InstOK, JobsOK, CloseWindow, guest
  <1>3. CASE Done(j) /\ UNCHANGED <<dev, inst>>
    <2>1. JobsOK' BY <1>3, JobSteps DEF TypeOK, JobsOK
    <2> QED BY <1>3, <2>1 DEF TypeOK, JobsOK, CloseWindow, guest
  <1> QED BY <1>2, <1>3 DEF CloseWindow

\* remove_cards.
LEMMA RemoveType == ASSUME TypeOK, NEW j \in Jobs, Remove(j) PROVE TypeOK'
  <1>1. JobsOK' BY JobSteps DEF TypeOK, JobsOK, Remove
  <1> QED BY <1>1, DisplayRemoved DEF TypeOK, JobsOK, Remove, pool

\* follow_windows.
LEMMA TickWindowType == ASSUME TypeOK, NEW i \in Instances, TickWindow(i) PROVE TypeOK'
  <1> DEFINE d == inst[i].device
             h == inst[i].hwc
  <1>1. inst[i] \in InstanceRec /\ InstOK /\ JobsOK /\ NewJob \in Jobs
    BY FreshJob DEF TypeOK, InstOK, JobsOK, TickWindow
  <1>2. CASE inst[i].state = "ended"
    <2>1. InstOK' BY <1>2, DisplayTaken DEF TickWindow, TakeDisplay, InstOK
    <2>2. JobOf("remove", i) \in JobRec /\ JobOf("remove", i).pc = "remove" /\ JobOf("remove", i).inst = i
      BY JobFor DEF PCs, JobOf, Idle
    <2>3. [JobOf("remove", i) EXCEPT !.dev = d, !.hwc = h] \in JobRec
      BY <1>1, <2>2 DEF JobRec, InstanceRec
    <2>4. JobsOK' BY <1>1, <1>2, <2>3, JobPut DEF TickWindow, JobsOK
    <2> QED BY <2>1, <2>4 DEF TypeOK, InstOK, JobsOK, TickWindow, guest
  <1>3. CASE inst[i].state # "ended"
    <2>1. InstOK'
      <3>1. Asks \in BOOLEAN BY ConstantsOK
      <3>2. [inst[i] EXCEPT !.asking = Asks] \in InstanceRec BY <1>1, <3>1 DEF InstanceRec
      <3>3. inst' = [inst EXCEPT ![i] = [inst[i] EXCEPT !.asking = Asks]]
        BY <1>1, <1>3 DEF TickWindow, InstOK
      <3> QED BY <1>1, <3>2, <3>3, InstPut DEF InstOK
    <2>2. JobsOK'
      <3>1. JobOf("ask", i) \in JobRec /\ JobOf("close", i) \in JobRec BY JobFor DEF PCs
      <3> DEFINE r == JobOf(IF Asks THEN "ask" ELSE "close", i)
      <3>2. r \in JobRec BY <3>1
      <3>3. job' = [job EXCEPT ![NewJob] = r] BY <1>3 DEF TickWindow
      <3> HIDE DEF r
      <3> QED BY <1>1, <3>2, <3>3, JobPut DEF JobsOK
    <2> QED BY <2>1, <2>2 DEF TypeOK, InstOK, JobsOK, TickWindow, guest
  <1> QED BY <1>2, <1>3

\* window_closed.
LEMMA AskType == ASSUME TypeOK, NEW j \in Jobs, Ask(j) PROVE TypeOK'
  <1>1. job[j].inst \in Instances BY JobInst DEF Ask, At, PoolPCs
  <1>2. JobsOK' BY JobSteps DEF TypeOK, JobsOK, Ask, At, PCs, PoolPCs
  <1>3. InstOK'
    <2> DEFINE i == job[j].inst
    <2>1. Answered(i) \in [Instances -> InstanceRec] BY <1>1, WindowAnswered
    <2>2. [Answered(i) EXCEPT ![i].headless = TRUE] \in [Instances -> InstanceRec] BY <1>1, WindowAnswered
    <2>3. inst' \in {Answered(i), [Answered(i) EXCEPT ![i].headless = TRUE], inst} BY DEF Ask
    <2> HIDE DEF i
    <2> QED BY <2>1, <2>2, <2>3 DEF TypeOK, InstOK
  <1>4. mark' \in [Devices -> SUBSET Displays] BY DEF TypeOK, Ask
  <1> QED BY <1>2, <1>3, <1>4 DEF TypeOK, InstOK, JobsOK, Ask

\* show_window reads the display.
LEMMA ShowWindowType == ASSUME TypeOK, NEW i \in Instances, ShowWindow(i) PROVE TypeOK'
  <1>1. left' \in [Events -> Nat] BY Budgeted DEF TypeOK, ShowWindow, Events
  <1>2. inst[i] \in InstanceRec BY DEF TypeOK
  <1>3. JobOf("open", i) \in JobRec /\ JobOf("open", i).pc = "open" /\ JobOf("open", i).inst = i
    BY JobFor DEF PCs, JobOf, Idle
  <1>4. [JobOf("open", i) EXCEPT !.dev = inst[i].device, !.hwc = inst[i].hwc] \in JobRec
    BY <1>2, <1>3 DEF JobRec, InstanceRec
  <1>5. JobsOK' BY <1>4, FreshJob, JobPut DEF TypeOK, JobsOK, ShowWindow
  <1> QED BY <1>1, <1>5 DEF TypeOK, JobsOK, ShowWindow, pool, guest

\* show_window opens it.
LEMMA OpenWindowType == ASSUME TypeOK, NEW j \in Jobs, OpenWindow(j) PROVE TypeOK'
  <1>1. job[j].inst \in Instances BY JobInst DEF OpenWindow, At, PoolPCs
  <1>2. JobsOK' BY JobSteps DEF TypeOK, JobsOK, OpenWindow
  <1>3. InstOK' BY <1>1, WindowAnswered DEF TypeOK, InstOK, OpenWindow
  <1>4. mark' \in [Devices -> SUBSET Displays] BY DEF TypeOK, OpenWindow
  <1> QED BY <1>2, <1>3, <1>4 DEF TypeOK, InstOK, JobsOK, OpenWindow

\* clear_ended, over all of the ended.
LEMMA ClearType == ASSUME TypeOK, Clear PROVE TypeOK'
  <1> DEFINE off(rec) == IF rec.state = "restarting"
                         THEN [rec EXCEPT !.state = "ended", !.closed = TRUE, !.countdown = NoJob]
                         ELSE rec
             ended == {i \in Instances : inst[i].state \in {"restarting", "ended"}}
             cards == {i \in ended : inst[i].hwc # NoDisplay /\ There(inst[i].device)}
             slot  == CHOOSE f \in Slots(cards) : TRUE
             RemoveOf(i) == [JobOf("remove", i) EXCEPT !.dev = inst[i].device, !.hwc = inst[i].hwc]
  <1>1. left' \in [Events -> Nat] BY Budgeted DEF TypeOK, Clear, Events
  <1>2. \A i \in Instances : inst[i] \in InstanceRec BY DEF TypeOK
  <1>3. InstOK'
    <2>1. \A i \in Instances : Forgotten(inst[i]) \in InstanceRec
      <3> TAKE i \in Instances
      <3>1. inst[i].apk \in Builds \cup {NoBuild} BY <1>2 DEF InstanceRec
      <3>2. [AbsentInstance EXCEPT !.apk = inst[i].apk] \in InstanceRec
        BY <3>1, NewDeviceOK DEF InstanceRec
      <3> QED BY <3>2 DEF Forgotten
    <2>2. \A i \in Instances : off(inst[i]) \in InstanceRec
      <3>1. \A rec \in InstanceRec :
               [rec EXCEPT !.state = "ended", !.closed = TRUE, !.countdown = NoJob] \in InstanceRec
        BY DEF InstanceRec, InstanceStates
      <3> QED BY <1>2, <3>1
    <2> HIDE DEF off
    <2>3. \A i \in Instances : [off(inst[i]) EXCEPT !.hwc = IF i \in cards THEN NoDisplay ELSE @] \in InstanceRec
      <3>1. \A rec \in InstanceRec :
               [rec EXCEPT !.hwc = NoDisplay] \in InstanceRec /\ [rec EXCEPT !.hwc = @] \in InstanceRec
        BY DEF InstanceRec
      <3> QED BY <2>2, <3>1
    <2>4. inst' = [i \in Instances |->
               IF i \notin ended THEN inst[i]
               ELSE IF Forgets(inst[i]) THEN Forgotten(inst[i])
               ELSE [off(inst[i]) EXCEPT !.hwc = IF i \in cards THEN NoDisplay ELSE @]]
      BY Zenon DEF Clear, off
    <2> HIDE DEF ended, cards
    <2> QED BY <1>2, <2>1, <2>3, <2>4 DEF InstOK
  <1>4. JobsOK'
    <2>1. \A i \in Instances : RemoveOf(i) \in JobRec
      <3> TAKE i \in Instances
      <3>1. JobOf("remove", i) \in JobRec /\ JobOf("remove", i).pc = "remove" /\ JobOf("remove", i).inst = i
        BY JobFor DEF PCs, JobOf, Idle
      <3> QED BY <1>2, <3>1 DEF JobRec, InstanceRec
    <2>2. job' = [j \in Jobs |->
               IF \E i \in cards : slot[i] = j
               THEN RemoveOf(CHOOSE i \in cards : slot[i] = j) ELSE job[j]]
      BY Zenon DEF Clear
    <2>3. \A i \in cards : i \in Instances OBVIOUS
    <2> HIDE DEF cards, slot, RemoveOf
    <2> QED BY <2>1, <2>2, <2>3 DEF TypeOK, JobsOK
  <1> QED BY <1>1, <1>3, <1>4 DEF TypeOK, InstOK, JobsOK, Clear, guest

-----------------------------------------------------------------------------
(* Devices that stop or die *)

\* kill.
LEMMA KillType == ASSUME TypeOK, NEW d \in Devices, Kill(d) PROVE TypeOK'
  <1>1. left' \in [Events -> Nat] BY Budgeted DEF TypeOK, Kill, Events
  <1> QED BY <1>1, FreshJob, StopSectionType DEF Kill

\* The idle close's stop_device.
LEMMA StopType == ASSUME TypeOK, NEW j \in Jobs, Stop(j) PROVE TypeOK'
  <1>1. left' \in [Events -> Nat] BY Budgeted DEF TypeOK, Stop
  <1>2. CASE There(job[j].dev) BY <1>1, <1>2, StopSectionType DEF Stop, There
  <1>3. CASE ~There(job[j].dev)
    <2>1. JobsOK' BY <1>3, JobSteps DEF TypeOK, JobsOK, Stop
    <2> QED BY <1>1, <1>3, <2>1 DEF TypeOK, JobsOK, Stop, pool, guest
  <1> QED BY <1>2, <1>3

\* keep_cold(true).
LEMMA KeepColdType == ASSUME TypeOK, NEW j \in Jobs, KeepCold(j) PROVE TypeOK'
  <1>1. JobsOK' BY JobSteps DEF TypeOK, JobsOK, KeepCold, PCs, PoolPCs
  <1> QED BY <1>1 DEF TypeOK, JobsOK, KeepCold, guest

\* device::halt.
LEMMA StopGuestType == ASSUME TypeOK, NEW j \in Jobs, StopGuest(j) PROVE TypeOK'
  <1>1. JobsOK' BY JobSteps DEF TypeOK, JobsOK, StopGuest, PCs, PoolPCs
  <1> QED BY <1>1, GuestEnded DEF TypeOK, JobsOK, StopGuest, pool

\* device_gone after a stop.
LEMMA StopEndsType == ASSUME TypeOK, NEW j \in Jobs, StopEnds(j) PROVE TypeOK'
  <1>1. JobsOK' BY JobSteps DEF TypeOK, JobsOK, StopEnds
  <1> QED BY <1>1, DeviceEnded DEF TypeOK, JobsOK, StopEnds, guest

\* device_gone of one that died: each instance by its own settings, each countdown with a thread of its own.
LEMMA DiedType == ASSUME TypeOK, NEW j \in Jobs, Died(j) PROVE TypeOK'
  <1> DEFINE d == job[j].dev
             relaunch == ~stopping
             runs == {i \in InstancesOn(d) : inst[i].state = "running" /\ ~inst[i].closed}
  <1>1. PICK auto \in [runs -> AutoRestart], quick \in [runs -> BOOLEAN] :
          LET counts == {i \in runs : relaunch /\ auto[i]}
              rec(i) == IF i \in counts THEN CountEnd(inst[i], quick[i]) ELSE inst[i]
              again  == {i \in counts : MayRestart(rec(i))}
              slot   == CHOOSE f \in Slots(again) : TRUE
          IN  /\ Slots(again) # {}
              /\ inst' = [i \in Instances |->
                    IF i \notin InstancesOn(d) THEN inst[i]
                    ELSE AfterGone(rec(i), relaunch, i \in again,
                                   IF i \in again THEN slot[i] ELSE NoJob)]
              /\ job' = [k \in Jobs |->
                    IF k = j THEN Idle
                    ELSE IF \E i \in again : slot[i] = k
                    THEN JobOf("count", CHOOSE i \in again : slot[i] = k)
                    ELSE job[k]]
    BY DEF Died
  <1> DEFINE counts == {i \in runs : relaunch /\ auto[i]}
             rec(i) == IF i \in counts THEN CountEnd(inst[i], quick[i]) ELSE inst[i]
             again  == {i \in counts : MayRestart(rec(i))}
             slot   == CHOOSE f \in Slots(again) : TRUE
  <1>2. Slots(again) # {} BY <1>1
  <1>3. inst' = [i \in Instances |->
           IF i \notin InstancesOn(d) THEN inst[i]
           ELSE AfterGone(rec(i), relaunch, i \in again, IF i \in again THEN slot[i] ELSE NoJob)]
    BY <1>1
  <1>4. job' = [k \in Jobs |->
           IF k = j THEN Idle
           ELSE IF \E i \in again : slot[i] = k
           THEN JobOf("count", CHOOSE i \in again : slot[i] = k)
           ELSE job[k]]
    BY <1>1
  <1>5. \A i \in again : i \in Instances BY DEF InstancesOn
  <1>6. \A i \in Instances : rec(i) \in InstanceRec
    <2> TAKE i \in Instances
    <2>1. inst[i] \in InstanceRec BY DEF TypeOK
    <2>2. ASSUME i \in counts PROVE CountEnd(inst[i], quick[i]) \in InstanceRec
      <3>1. quick[i] \in BOOLEAN BY <2>2
      <3> QED BY <2>1, <3>1, EndCounted
    <2> QED BY <2>1, <2>2
  <1>7. \A i \in again : slot[i] \in Jobs
    <2>1. slot \in Slots(again) BY <1>2
    <2> HIDE DEF again, slot
    <2> QED BY <2>1 DEF Slots, FreeJobs
  <1>8. relaunch \in BOOLEAN BY DEF TypeOK
  <1> HIDE DEF rec, again, slot, relaunch
  <1>9. InstOK'
    <2>1. \A i \in Instances :
            AfterGone(rec(i), relaunch, i \in again, IF i \in again THEN slot[i] ELSE NoJob) \in InstanceRec
      <3> TAKE i \in Instances
      <3> DEFINE c == IF i \in again THEN slot[i] ELSE NoJob
                 b == i \in again
      <3>1. c \in Jobs \cup {NoJob} /\ b \in BOOLEAN BY <1>7
      <3> HIDE DEF c, b
      <3>2. AfterGone(rec(i), relaunch, b, c) \in InstanceRec BY <1>6, <1>8, <3>1, GoneFrom
      <3> QED BY <3>2 DEF b, c
    <2>2. \A i \in Instances : inst[i] \in InstanceRec BY DEF TypeOK
    <2> QED BY <1>3, <2>1, <2>2 DEF InstOK
  <1>10. JobsOK'
    <2>1. \A i \in Instances : JobOf("count", i) \in JobRec BY JobFor DEF PCs
    <2>2. Idle \in JobRec BY NewDeviceOK
    <2> QED BY <1>4, <1>5, <2>1, <2>2 DEF TypeOK, JobsOK
  <1>11. DevOK' BY DeviceEnded DEF Died, DevOK
  <1> QED BY <1>9, <1>10, <1>11 DEF TypeOK, InstOK, JobsOK, DevOK, Died, guest

-----------------------------------------------------------------------------
(* The ticker *)

\* A device ready.
LEMMA TickReadyType == ASSUME TypeOK, NEW d \in Devices, TickReady(d) PROVE TypeOK'
  <1>1. \A rec \in DeviceRec : [rec EXCEPT !.state = "ready", !.idle = TRUE] \in DeviceRec
    BY DEF DeviceRec, DeviceStates
  <1>2. dev' = [dev EXCEPT ![d] = [dev[d] EXCEPT !.state = "ready", !.idle = TRUE]]
    BY DEF TickReady, TypeOK
  <1>3. DevOK' BY <1>1, <1>2 DEF TypeOK, DevOK
  <1> QED BY <1>3 DEF TypeOK, DevOK, TickReady, guest

\* A device dead or given up.
LEMMA TickGoneType == ASSUME TypeOK, NEW d \in Devices, TickGone(d) PROVE TypeOK'
  <1>1. left' \in [Events -> Nat] BY Budgeted DEF TypeOK, TickGone, Events
  <1>2. [Idle EXCEPT !.pc = "died", !.dev = d] \in JobRec BY TickerJob
  <1>3. JobsOK' BY <1>2, FreshJob, JobPut DEF TypeOK, JobsOK, TickGone
  <1> QED BY <1>1, <1>3 DEF TypeOK, JobsOK, TickGone, pool, guest

\* mark_idle.
LEMMA TickIdleType == ASSUME TypeOK, TickIdle PROVE TypeOK'
  <1>1. DevOK' BY IdleMarked DEF TypeOK, DevOK, TickIdle
  <1> QED BY <1>1 DEF TypeOK, DevOK, TickIdle, guest

\* to_close.
LEMMA TickCloseType == ASSUME TypeOK, NEW d \in Devices, TickClose(d) PROVE TypeOK'
  <1>1. left' \in [Events -> Nat] BY Budgeted DEF TypeOK, TickClose, Events
  <1>2. [Idle EXCEPT !.pc = "stop", !.dev = d] \in JobRec BY TickerJob
  <1>3. JobsOK' BY <1>2, FreshJob, JobPut DEF TypeOK, JobsOK, TickClose
  <1> QED BY <1>1, <1>3 DEF TypeOK, JobsOK, TickClose, pool, guest

\* to_warm.
LEMMA TickWarmType == ASSUME TypeOK, TickWarm PROVE TypeOK'
  <1> DEFINE n == ToWarm(IdleViews([d \in Devices |-> 0]), keep_warm, max_devices)
  <1>1. n \in Nat BY WarmCount
  <1>2. job' = [job EXCEPT ![NewJob] = [Idle EXCEPT !.pc = "warm", !.flag = TRUE, !.count = n]]
    BY DEF TickWarm
  <1> HIDE DEF n
  <1>3. [Idle EXCEPT !.pc = "warm", !.flag = TRUE, !.count = n] \in JobRec
    BY <1>1 DEF Idle, JobRec, PCs, PoolPCs, NoInstance, NoUser, NoDisplay, NoDevice
  <1>4. JobsOK' BY <1>2, <1>3, JobPut DEF TypeOK, JobsOK
  <1> QED BY <1>4 DEF TypeOK, JobsOK, TickWarm, pool, guest

\* add_device.
LEMMA WarmType == ASSUME TypeOK, NEW j \in Jobs, Warm(j) PROVE TypeOK'
  <1> DEFINE d == next.device
  <1>1. CASE Done(j) /\ UNCHANGED <<dev, next>>
    <2>1. JobsOK' BY <1>1, JobSteps DEF TypeOK, JobsOK
    <2> QED BY <1>1, <2>1 DEF TypeOK, JobsOK, Warm, guest
  <1>2. CASE /\ d \in Devices
             /\ dev' = [dev EXCEPT ![d] = NewDevice]
             /\ next' = [next EXCEPT !.device = d + 1]
             /\ job' = [job EXCEPT ![j].pc = "boot", ![j].boot = d, ![j].count = Monus(@, 1)]
    <2>1. DevOK' BY <1>2, NewDeviceOK DEF TypeOK, DevOK
    <2>2. next' \in [device : Nat \ {0}, instance : Nat \ {0}]
      <3>1. d + 1 \in Nat \ {0} BY DEF TypeOK
      <3> QED BY <1>2, <3>1 DEF TypeOK
    <2>3. JobsOK'
      <3> DEFINE n == Monus(job[j].count, 1)
                 r == [job[j] EXCEPT !.pc = "boot", !.boot = d, !.count = n]
      <3>1. job[j] \in JobRec BY DEF TypeOK
      <3>2. n \in Nat BY <3>1 DEF JobRec, Monus
      <3>3. "boot" \in PCs /\ "boot" \in PoolPCs BY DEF PCs, PoolPCs
      <3>4. job' = [job EXCEPT ![j] = r] BY <1>2 DEF TypeOK
      <3> HIDE DEF n
      <3>5. r \in JobRec BY <1>2, <3>1, <3>2, <3>3 DEF JobRec
      <3> QED BY <3>4, <3>5, JobPut DEF TypeOK, JobsOK
    <2> QED BY <2>1, <2>2, <2>3 DEF TypeOK, DevOK, JobsOK, Warm, guest
  <1> QED BY <1>1, <1>2 DEF Warm

\* spare_users wants one.
LEMMA TickSpareType == ASSUME TypeOK, NEW d \in Devices, TickSpare(d) PROVE TypeOK'
  <1>1. left' \in [Events -> Nat] BY Budgeted DEF TypeOK, TickSpare, Events
  <1>2. [Idle EXCEPT !.pc = "spare", !.dev = d] \in JobRec BY TickerJob
  <1>3. JobsOK' BY <1>2, FreshJob, JobPut DEF TypeOK, JobsOK, TickSpare
  <1>4. DevOK' BY SparingSet DEF TypeOK, DevOK, TickSpare
  <1> QED BY <1>1, <1>3, <1>4 DEF TypeOK, JobsOK, DevOK, TickSpare, guest

\* spare_users makes one.
LEMMA SpareType == ASSUME TypeOK, NEW j \in Jobs, Spare(j) PROVE TypeOK'
  <1> DEFINE d == job[j].dev
             new == made[d] + 1
  <1>1. left' \in [Events -> Nat] BY Budgeted DEF TypeOK, Spare, Fails, Events
  <1>2. DevOK'
    <2>1. dev' \in {dev, [dev EXCEPT ![d].sparing = FALSE]} BY DEF Spare
    <2> HIDE DEF d
    <2>2. DevOK BY DEF TypeOK, DevOK
    <2>3. [dev EXCEPT ![d].sparing = FALSE] \in [Devices -> DeviceRec] BY <2>2, SparingSet
    <2> QED BY <2>1, <2>2, <2>3 DEF DevOK
  <1>3. CASE /\ Alive(d) /\ new \in Users
             /\ made' = [made EXCEPT ![d] = new]
             /\ job' = [job EXCEPT ![j].pc = "offer", ![j].user = new]
    <2>1. made' \in [Devices -> 0..MaxUser]
      <3>1. new \in 0..MaxUser BY <1>3, ConstantsOK DEF Users
      <3> HIDE DEF new
      <3> QED BY <1>3, <3>1 DEF TypeOK
    <2>2. JobsOK'
      <3> DEFINE r == [job[j] EXCEPT !.pc = "offer", !.user = new]
      <3>1. job[j] \in JobRec BY DEF TypeOK
      <3>2. "offer" \in PCs /\ "offer" \in PoolPCs BY DEF PCs, PoolPCs
      <3>3. job' = [job EXCEPT ![j] = r] BY <1>3 DEF TypeOK
      <3> HIDE DEF new
      <3>4. r \in JobRec BY <1>3, <3>1, <3>2 DEF JobRec
      <3> QED BY <3>3, <3>4, JobPut DEF TypeOK, JobsOK
    <2> QED BY <1>1, <1>2, <2>1, <2>2 DEF TypeOK, DevOK, JobsOK, Spare
  <1>4. CASE Done(j) /\ (UNCHANGED made \/ MayLeaveUser(d))
    <2>1. JobsOK' BY <1>4, JobSteps DEF TypeOK, JobsOK
    <2>2. made' \in [Devices -> 0..MaxUser] BY <1>4, UserLeft DEF TypeOK
    <2> QED BY <1>1, <1>2, <1>4, <2>1, <2>2 DEF TypeOK, DevOK, JobsOK, Spare
  <1> QED BY <1>3, <1>4 DEF Spare

\* spare_users offers it.
LEMMA OfferType == ASSUME TypeOK, NEW j \in Jobs, Offer(j) PROVE TypeOK'
  <1> DEFINE d == job[j].dev
             known == IF There(d) THEN dev[d].users \cup {job[j].user} ELSE dev[d].users
  <1>1. job[j].user \in Users BY DEF TypeOK, JobRec, Offer, At
  <1>2. JobsOK' BY JobSteps DEF TypeOK, JobsOK, Offer
  <1>3. DevOK'
    <2>1. CASE d \in Devices
      <3>1. dev[d] \in DeviceRec BY <2>1 DEF TypeOK
      <3>2. known \in SUBSET Users BY <1>1, <3>1 DEF DeviceRec
      <3>3. dev' = [dev EXCEPT ![d] = [dev[d] EXCEPT !.sparing = FALSE, !.users = known]]
        BY <2>1 DEF Offer, TypeOK
      <3> HIDE DEF known
      <3>4. [dev[d] EXCEPT !.sparing = FALSE, !.users = known] \in DeviceRec
        BY <3>1, <3>2 DEF DeviceRec
      <3> QED BY <3>3, <3>4 DEF TypeOK, DevOK
    <2>2. CASE d \notin Devices BY <2>2 DEF Offer, TypeOK, DevOK
    <2> QED BY <2>1, <2>2
  <1> QED BY <1>2, <1>3 DEF TypeOK, DevOK, JobsOK, Offer, guest

\* follow_logs and check_running.
LEMMA TickEndedType == ASSUME TypeOK, NEW i \in Instances, TickEnded(i) PROVE TypeOK'
  <1>1. InstOK' BY StateSet DEF TypeOK, InstOK, TickEnded, InstanceStates
  <1>2. JobOf("own_read", i) \in JobRec BY JobFor DEF PCs
  <1>3. JobsOK' BY <1>2, FreshJob, JobPut DEF TypeOK, JobsOK, TickEnded
  <1> QED BY <1>1, <1>3 DEF TypeOK, InstOK, JobsOK, TickEnded, guest

-----------------------------------------------------------------------------
(* The environment *)

\* An app that ends by itself.
LEMMA CrashType == ASSUME TypeOK, NEW d \in Devices, NEW u \in Users, Crash(d, u) PROVE TypeOK'
  <1>1. left' \in [Events -> Nat] BY Budgeted DEF TypeOK, Crash, Events
  <1>2. [app EXCEPT ![d][u] = NoInstance] \in [Devices -> [Users -> Instances \cup {NoInstance}]]
    BY Updated DEF TypeOK
  <1> QED BY <1>1, <1>2 DEF TypeOK, Crash, pool

\* A device that dies.
LEMMA DeathType == ASSUME TypeOK, NEW d \in Devices, Death(d) PROVE TypeOK'
  <1>1. left' \in [Events -> Nat] BY Budgeted DEF TypeOK, Death, Events
  <1> QED BY <1>1, GuestEnded DEF TypeOK, Death, pool

\* A window closed.
LEMMA PersonClosesType ==
    ASSUME TypeOK, NEW d \in Devices, NEW h \in Displays, PersonCloses(d, h)
    PROVE  TypeOK'
  <1>1. left' \in [Events -> Nat] BY Budgeted DEF TypeOK, PersonCloses, Events
  <1>2. mark' \in [Devices -> SUBSET Displays] BY DEF TypeOK, PersonCloses
  <1> QED BY <1>1, <1>2 DEF TypeOK, PersonCloses, pool

\* shutdown.
LEMMA QuitType == ASSUME TypeOK, Quit PROVE TypeOK'
  <1>1. left' \in [Events -> Nat] BY Budgeted DEF TypeOK, Quit, Events
  <1>2. JobOf("stop_all", NoInstance) \in JobRec
    BY DEF JobOf, Idle, JobRec, PCs, PoolPCs, NoInstance, NoUser, NoDisplay, NoDevice
  <1>3. JobsOK' BY <1>2, FreshJob, JobPut DEF TypeOK, JobsOK, Quit
  <1> QED BY <1>1, <1>3 DEF TypeOK, JobsOK, Quit, guest

\* shutdown's stops.
LEMMA StopAllType == ASSUME TypeOK, NEW j \in Jobs, StopAll(j) PROVE TypeOK'
  <1>1. JobsOK' BY JobSteps DEF TypeOK, JobsOK, StopAll
  <1> QED BY <1>1, GuestEnded DEF TypeOK, JobsOK, StopAll, pool

-----------------------------------------------------------------------------
(* The theorem *)

\* The pool as it opens is of its types.
LEMMA InitType == Init => TypeOK
  <1> SUFFICES ASSUME Init PROVE TypeOK OBVIOUS
  <1>1. AbsentDevice \in DeviceRec /\ [NewDevice EXCEPT !.state = "ready", !.idle = TRUE] \in DeviceRec
    BY NewDeviceOK DEF AbsentDevice, DeviceRec, DeviceStates
  <1>2. DevOK BY <1>1 DEF Init, DevOK
  <1>3. InstOK /\ JobsOK BY NewDeviceOK DEF Init, InstOK, JobsOK
  <1>4. next \in [device : Nat \ {0}, instance : Nat \ {0}] BY ConstantsOK DEF Init
  <1>5. made \in [Devices -> 0..MaxUser] /\ left \in [Events -> Nat] BY ConstantsOK DEF Init
  <1> QED BY <1>2, <1>3, <1>4, <1>5
          DEF TypeOK, DevOK, InstOK, JobsOK, Init, NoApps, NoDisplays

\* Every step keeps them: one fact above for each action.
LEMMA StepType == TypeOK /\ [Next]_vars => TypeOK'
  <1> SUFFICES ASSUME TypeOK, [Next]_vars PROVE TypeOK' OBVIOUS
  <1>1. ASSUME NEW j \in Jobs, LaunchStep(j) PROVE TypeOK'
    BY <1>1, WarmAgainType, UncoldType, BootType, BootFailedType, WaitType, SetType, TurnType,
       InstallType, PickType, RecordType, DisplayType, KeepType, StartType, StartedType,
       StartFailedType, FailedType, NotRestartedType DEF LaunchStep
  <1>2. ASSUME NEW j \in Jobs, EndStep(j) PROVE TypeOK'
    BY <1>2, EndType, UndoType, EndedType, OwnReadType, OwnEndType, OwnRemoveType, OwnCardType,
       HaltType, HaltedType DEF EndStep
  <1>3. ASSUME NEW j \in Jobs, RestartStep(j) PROVE TypeOK'
    BY <1>3, CountOverType, CountType, CountCardType, CountEndsType, RelaunchType,
       PlaceAgainType, LeaveDisplayType DEF RestartStep
  <1>4. ASSUME NEW j \in Jobs, StopStep(j) PROVE TypeOK'
    BY <1>4, StopType, KeepColdType, StopGuestType, StopEndsType, DiedType DEF StopStep
  <1>5. ASSUME NEW j \in Jobs, OtherStep(j) PROVE TypeOK'
    BY <1>5, WarmType, SpareType, OfferType, RemoveType, AskType, CloseWindowType,
       OpenWindowType, StopAllType DEF OtherStep
  <1>6. ASSUME Ticker PROVE TypeOK'
    BY <1>6, TickReadyType, TickGoneType, TickCloseType, TickSpareType, TickWindowType,
       TickEndedType, TickIdleType, TickWarmType DEF Ticker
  <1>7. ASSUME Person PROVE TypeOK'
    BY <1>7, LaunchType, CloseType, RestartType, ShowWindowType, KillType, PersonClosesType,
       AskWarmType, ClearType, QuitType DEF Person
  <1>8. ASSUME Environment PROVE TypeOK'
    BY <1>8, CrashType, DeathType DEF Environment
  <1>9. ASSUME UNCHANGED vars PROVE TypeOK'
    BY <1>9 DEF TypeOK, vars, pool, guest
  <1> QED BY <1>1, <1>2, <1>3, <1>4, <1>5, <1>6, <1>7, <1>8, <1>9 DEF Next, Thread

\* The pool's records, threads and devices keep to their types for every number
\* of devices, instances, users, displays and threads, every budget and every
\* setting: in particular no step about an instance (run_launch, end, halt,
\* relaunch and their parts) is ever taken without one, and no stop of an
\* instance is counted below zero (halt's saturating_sub).
THEOREM TypeCorrect == Spec => []TypeOK
  <1> QED BY InitType, StepType, PTL DEF Spec
=============================================================================

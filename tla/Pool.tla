-------------------------------- MODULE Pool --------------------------------
(***************************************************************************)
(* The pool of Android devices (crates/omni-pool/src/pool.rs): devices     *)
(* booted and stopped, instances of apps placed on them, installed,        *)
(* started, watched, closed and started again, by the threads the pool     *)
(* spawns.                                                                 *)
(*                                                                         *)
(* An action is one section under the pool's lock (Pool::state), or one    *)
(* command to a device; a thread is a job with a program counter.  The     *)
(* device's turn (DeviceRec::busy) is the one lock held across steps.  The *)
(* guest is what the device itself is doing: the builds installed on it,   *)
(* the app each of its users runs, its displays and the cards on them.     *)
(*                                                                         *)
(* Time is left out: a delay is over, a limit passed, an idle device       *)
(* overdue whenever the step that asks finds it so.                        *)
(***************************************************************************)
EXTENDS Plan, Naturals

CONSTANTS
    MaxDevice,     \* device ids ever given: 1..MaxDevice
    MaxInstance,   \* instance ids ever given: 1..MaxInstance
    MaxUser,       \* users ever made on one device, besides user 0
    MaxDisplay,    \* composer ids a device's displays take: 1..MaxDisplay
    Jobs,          \* slots for the threads alive at once
    Packages, Builds, PackageOf,
    Budgets,       \* how many of each event the environment issues: one of these
    Adopted,       \* devices found running when the pool opens (Pool::adopt)
    AutoRestart,   \* settings an end may find: a set of BOOLEANs
    QUICK_ENDS,    \* quick ends in a row that stop the auto restarts
    max_devices, keep_warm, warm_on_start,   \* Config
    Asks           \* somebody answers for a closed window (Pool::close_ask)

Events == {"crash", "death", "fail", "close", "restart", "kill", "clear",
           "window", "show", "idle", "spare", "warm", "quit"}

Devices   == 1..MaxDevice
Instances == 1..MaxInstance
Users     == 1..MaxUser
Displays  == 1..MaxDisplay

NoDevice   == 0
NoInstance == 0
NoUser     == 0
NoDisplay  == 0
CONSTANT NoJob

ASSUME ConstantsOK ==
    /\ MaxDevice \in Nat \ {0} /\ MaxInstance \in Nat \ {0}
    /\ MaxUser \in Nat \ {0} /\ MaxDisplay \in Nat \ {0}
    /\ Adopted \in 0..MaxDevice
    /\ PackageOf \in [Builds -> Packages] /\ NoBuild \notin Builds
    /\ Budgets \subseteq [Events -> Nat]
    /\ AutoRestart \subseteq BOOLEAN /\ QUICK_ENDS \in Nat
    /\ max_devices \in Nat /\ keep_warm \in Nat
    /\ warm_on_start \in BOOLEAN /\ Asks \in BOOLEAN
    /\ NoJob \notin Jobs /\ IsFiniteSet(Jobs)

VARIABLES
    dev,        \* State::devices
    inst,       \* State::instances
    next,       \* State::next_device, next_instance
    cold,       \* State::cold
    coldFile,   \* pool.cold beside the settings
    stopping,   \* Pool::stopping
    job,        \* the threads
    phase,      \* guest: a device's process: unborn, alive, dead
    bytes,      \* guest: the build of each package installed
    made,       \* guest: how many users were made
    app,        \* guest: the instance whose app each user runs
    shown,      \* guest: the instance each display was added for
    card,       \* guest: the instance whose card a display shows
    mark,       \* guest: displays whose window the person closed
    left,       \* what is left of the budget
    hurt        \* instances another one's thread stopped or closed (history)

guest == <<phase, bytes, made, app, shown, card, mark>>
pool  == <<dev, inst, next, cold, coldFile, stopping>>
vars  == <<pool, job, guest, left, hurt>>

-----------------------------------------------------------------------------
(* Types *)

DeviceStates == {"absent", "booting", "ready", "closing", "gone"}
InstanceStates == {"absent", "waiting", "installing", "starting", "running",
                   "closing", "restarting", "ended"}

DeviceRec ==
    [state : DeviceStates, installed : [Packages -> Builds \cup {NoBuild}],
     users : SUBSET Users, busy : Jobs \cup {NoJob},
     sparing : BOOLEAN, idle : BOOLEAN]

InstanceRec ==
    [state : InstanceStates, device : Devices \cup {NoDevice},
     apk : Builds \cup {NoBuild}, user : Users \cup {NoUser},
     hwc : Displays \cup {NoDisplay}, countdown : Jobs \cup {NoJob},
     closed : BOOLEAN, halting : Nat, headless : BOOLEAN, asking : BOOLEAN,
     quick_ends : Nat]

PCs == {"free",
        \* launch_package's tail: warm_again, keep_cold, boot
        "warm_again", "uncold", "boot", "boot_failed",
        \* run_launch
        "wait", "set", "turn", "install", "pick", "record", "display",
        "keep", "start", "started", "start_failed", "failed", "not_restarted",
        \* end, cleanup
        "end", "undo", "ended",
        \* ended_on_its_own, halt
        "own_read", "own_end", "own_remove", "own_card", "halt", "halted",
        \* count_down, relaunch
        "count", "count_card", "relaunch", "place", "leave_display",
        \* stop_device, device_gone
        "stop", "cold", "stop_guest", "gone", "died",
        \* add_device, spare_users
        "warm", "spare", "offer",
        \* remove_cards, window_closed, close, show_window
        "remove", "ask", "close", "open",
        \* shutdown
        "stop_all"}

\* The steps that are about no instance, or may be.
PoolPCs == {"free", "warm_again", "uncold", "boot", "boot_failed", "stop", "cold",
            "stop_guest", "gone", "died", "warm", "spare", "offer", "stop_all"}

\* What a thread knows: its instance, a device and a user on it, a display,
\* how its step goes on, the device it is to boot, and how many to warm.
JobRec ==
    {r \in [pc : PCs, inst : Instances \cup {NoInstance},
            dev : Devices \cup {NoDevice}, user : Users \cup {NoUser},
            hwc : Displays \cup {NoDisplay}, flag : BOOLEAN,
            boot : Devices \cup {NoDevice}, count : Nat] :
        /\ r.pc \notin PoolPCs => r.inst \in Instances
        /\ r.pc = "offer" => r.user \in Users}

Idle == [pc |-> "free", inst |-> NoInstance, dev |-> NoDevice,
         user |-> NoUser, hwc |-> NoDisplay, flag |-> FALSE,
         boot |-> NoDevice, count |-> 0]

AbsentInstance ==
    [state |-> "absent", device |-> NoDevice, apk |-> NoBuild,
     user |-> NoUser, hwc |-> NoDisplay, countdown |-> NoJob,
     closed |-> FALSE, halting |-> 0, headless |-> FALSE, asking |-> FALSE,
     quick_ends |-> 0]

TypeOK ==
    /\ dev \in [Devices -> DeviceRec]
    /\ inst \in [Instances -> InstanceRec]
    /\ next \in [device : Nat \ {0}, instance : Nat \ {0}]
    /\ cold \in BOOLEAN /\ coldFile \in BOOLEAN /\ stopping \in BOOLEAN
    /\ job \in [Jobs -> JobRec]
    /\ phase \in [Devices -> {"unborn", "alive", "dead"}]
    /\ bytes \in [Devices -> [Packages -> Builds \cup {NoBuild}]]
    /\ made \in [Devices -> 0..MaxUser]
    /\ app \in [Devices -> [Users -> Instances \cup {NoInstance}]]
    /\ shown \in [Devices -> [Displays -> Instances \cup {NoInstance}]]
    /\ card \in [Devices -> [Displays -> Instances \cup {NoInstance}]]
    /\ mark \in [Devices -> SUBSET Displays]
    /\ left \in [Events -> Nat]
    /\ hurt \in SUBSET Instances

-----------------------------------------------------------------------------
(* The pool's records *)

There(d)    == d \in Devices /\ dev[d].state \in {"booting", "ready", "closing"}
Open(d)     == dev[d].state \in {"booting", "ready"}
Exists(i)   == inst[i].state # "absent"
Live(i)     == inst[i].state \notin {"absent", "ended"}
LiveOn(d)   == {i \in Instances : Live(i) /\ inst[i].device = d}
Package(i)  == PackageOf[inst[i].apk]
Alive(d)    == d \in Devices /\ phase[d] = "alive"

\* A check of run_launch's: the instance is closing, ended or forgotten.
CalledOff(i) == inst[i].state \in {"closing", "ended", "absent"}

\* (Variant: an instance that ended gives its user back before its stop.)
UsersTakenByLive(d, except) ==
    {inst[i].user : i \in {o \in Instances \ {except} :
        Live(o) /\ inst[o].device = d /\ inst[o].user # NoUser}}

UsersTaken(d, except) ==
    {inst[i].user : i \in {o \in Instances \ {except} :
        /\ Exists(o) /\ inst[o].device = d /\ inst[o].user # NoUser
        /\ (Live(o) \/ inst[o].halting > 0)}}

HoldsDevice(rec) == rec.state # "absent" /\ (rec.state # "ended" \/ rec.hwc # NoDisplay)

\* mark_idle, over the records as they become.
MarkIdle(dv, ins) ==
    [d \in Devices |->
        IF \E i \in Instances : HoldsDevice(ins[i]) /\ ins[i].device = d
        THEN [dv[d] EXCEPT !.idle = FALSE]
        ELSE [dv[d] EXCEPT !.idle = @ \/ dv[d].state = "ready"]]

OpenDevices == {d \in Devices : Open(d)}

DeviceViews ==
    {[id |-> d, ready |-> dev[d].state = "ready",
      installed |-> dev[d].installed,
      running |-> {Package(i) : i \in LiveOn(d)},
      closing |-> FALSE] : d \in OpenDevices}

\* DeviceRec::booting
NewDevice == [state |-> "booting", installed |-> [p \in Packages |-> NoBuild],
              users |-> {}, busy |-> NoJob, sparing |-> FALSE, idle |-> FALSE]

\* place: a device, its build this one from now on, or NoDevice when
\* max_devices run already.
PlacedOn(b) ==
    LET p == Place(DeviceViews, PackageOf[b], b)
    IN  IF p.rule # "boot" THEN p.id
        ELSE IF max_devices > 0 /\ Cardinality(OpenDevices) >= max_devices
        THEN NoDevice ELSE next.device

WithBuild(b, d) ==
    LET rec == IF d = next.device THEN NewDevice ELSE dev[d]
    IN  [dev EXCEPT ![d] = [rec EXCEPT !.installed[PackageOf[b]] = b,
                                       !.idle = FALSE]]

NextDevice(d) == IF d = next.device THEN d + 1 ELSE next.device
BootOf(d)     == IF d = next.device THEN d ELSE NoDevice

-----------------------------------------------------------------------------
(* Jobs *)

FreeJobs == {j \in Jobs : job[j].pc = "free"}
NewJob   == CHOOSE j \in FreeJobs : TRUE
HasJob   == FreeJobs # {}
NewJob2  == CHOOSE j \in FreeJobs \ {NewJob} : TRUE
HasJobs2 == HasJob /\ FreeJobs \ {NewJob} # {}

At(j, pc)   == job[j].pc = pc
Goto(j, pc) == job' = [job EXCEPT ![j].pc = pc]
Done(j)     == job' = [job EXCEPT ![j] = Idle]
JobOf(pc, i) == [Idle EXCEPT !.pc = pc, !.inst = i]

\* end(id, why): cleanup, then (flag) the instance ended.
EndJob(i)   == [JobOf("end", i) EXCEPT !.flag = TRUE]
GotoEnd(j)  == job' = [job EXCEPT ![j] = EndJob(@.inst)]

\* One thread ticks: not while it ends a device that died, boots the ones it
\* warms, or closes an instance itself.
TickerFree ==
    /\ ~stopping
    /\ \A j \in Jobs :
          /\ ~At(j, "died")
          /\ ~(At(j, "close") /\ ~Asks)
          /\ ~(job[j].pc \in {"warm", "boot", "boot_failed"} /\ job[j].flag)

\* An event of the environment's, while its budget lasts.
Spend(e) == left[e] > 0 /\ left' = [left EXCEPT ![e] = @ - 1]
Free     == UNCHANGED left

\* (Variant: the turn is not given back.)
ReleaseNever(d) == dev
Release(d) == [dev EXCEPT ![d].busy = NoJob]

-----------------------------------------------------------------------------
(* Commands to a device: what they do to the guest *)

\* A whole device's process ends: apps, displays and cards with it.
NoApps     == [u \in Users |-> NoInstance]
NoDisplays == [h \in Displays |-> NoInstance]
GuestEnds(D) ==
    /\ phase' = [d \in Devices |-> IF d \in D /\ phase[d] = "alive" THEN "dead" ELSE phase[d]]
    /\ app'   = [d \in Devices |-> IF d \in D THEN NoApps ELSE app[d]]
    /\ shown' = [d \in Devices |-> IF d \in D THEN NoDisplays ELSE shown[d]]
    /\ card'  = [d \in Devices |-> IF d \in D THEN NoDisplays ELSE card[d]]
    /\ mark'  = [d \in Devices |-> IF d \in D THEN {} ELSE mark[d]]
    /\ UNCHANGED <<bytes, made>>

\* Another instance than i, up and not closed, that a command of i's thread
\* stops: its app, or the display its record names.
Others(k, i) == {o \in Instances \ {i} : o = k /\ Live(o) /\ ~inst[o].closed}
Onlookers(d, h, i) ==
    {o \in Instances \ {i} : inst[o].device = d /\ inst[o].hwc = h /\ ~inst[o].closed}

\* device::stop of user u, asked by i's thread.
StopUser(d, u, i) ==
    IF u \in Users /\ Alive(d)
    THEN /\ app' = [app EXCEPT ![d][u] = NoInstance]
         /\ hurt' = hurt \cup Others(app[d][u], i)
    ELSE UNCHANGED <<app, hurt>>

\* remove_display: the display's window closes, its markers go.
RemoveDisplay(d, h, i) ==
    IF h \in Displays /\ d \in Devices
    THEN /\ shown' = [shown EXCEPT ![d][h] = NoInstance]
         /\ card'  = [card EXCEPT ![d][h] = NoInstance]
         /\ mark'  = [mark EXCEPT ![d] = @ \ {h}]
         /\ hurt'  = hurt \cup Onlookers(d, h, i)
    ELSE UNCHANGED <<shown, card, mark, hurt>>

\* Composer::add_display gives one more than the highest id up.
NewDisplays(d) ==
    LET up == {h \in Displays : shown[d][h] # NoInstance}
    IN  {h \in Displays : /\ \A k \in up : k < h
                          /\ h = 1 \/ h - 1 \in up}

\* device::install: the package's apps are killed, whoever runs them.
PackageUsers(d, p) ==
    {u \in Users : app[d][u] # NoInstance /\ Package(app[d][u]) = p}

-----------------------------------------------------------------------------
(* device_gone *)

InstancesOn(d) == {i \in Instances : Exists(i) /\ inst[i].device = d}

\* (Variant: the countdown begun is not noted.)
AfterGoneUnnoted(rec, relaunch, again, c) ==
    LET off == [rec EXCEPT !.hwc = NoDisplay]
    IN  IF rec.state = "ended" THEN off
        ELSE IF again THEN [off EXCEPT !.user = NoUser, !.state = "restarting"]
        ELSE IF relaunch /\ rec.state = "restarting" /\ ~rec.closed
        THEN [off EXCEPT !.user = NoUser]
        ELSE [off EXCEPT !.state = "ended"]

\* What the end of its device makes of an instance: `again` when it starts
\* again by itself, its countdown the job c.
AfterGone(rec, relaunch, again, c) ==
    LET off == [rec EXCEPT !.hwc = NoDisplay]
    IN  IF rec.state = "ended" THEN off
        ELSE IF again
        THEN [off EXCEPT !.user = NoUser, !.state = "restarting", !.countdown = c]
        ELSE IF relaunch /\ rec.state = "restarting" /\ ~rec.closed
        THEN [off EXCEPT !.user = NoUser]
        ELSE [off EXCEPT !.state = "ended"]

Gone(d) == [dev EXCEPT ![d].state = IF @ = "absent" THEN @ ELSE "gone"]

\* A device stopped, or never booted: all of its instances end.
AllEnd(d) ==
    [i \in Instances |-> IF i \in InstancesOn(d)
                         THEN AfterGone(inst[i], FALSE, FALSE, NoJob)
                         ELSE inst[i]]

\* count_end: quick ends in a row, and whether an auto restart may follow.
CountEnd(rec, quick) == [rec EXCEPT !.quick_ends = IF quick THEN @ + 1 ELSE 0]
MayRestart(rec) == rec.quick_ends < QUICK_ENDS

\* (Variant: it is counted only once it is done.)
CountedNot(rec, halt) == rec
\* A stop of its user counted, before it is let off the lock.
Counted(rec, halt) == [rec EXCEPT !.halting = IF halt THEN @ + 1 ELSE @]

\* Slots for a thread for each of S.
Slots(S) == {f \in [S -> FreeJobs] : \A x, y \in S : f[x] = f[y] => x = y}

-----------------------------------------------------------------------------
(* A launch: launch_package, then run_launch on a thread of its own *)

Launch(b) ==
    LET i == next.instance
        d == PlacedOn(b)
    IN  /\ i \in Instances /\ d \in Devices /\ HasJob
        /\ dev' = WithBuild(b, d)
        /\ inst' = [inst EXCEPT ![i] = [AbsentInstance EXCEPT
                       !.state = "waiting", !.device = d, !.apk = b]]
        /\ next' = [device |-> NextDevice(d), instance |-> i + 1]
        /\ job' = [job EXCEPT ![NewJob] = [JobOf("warm_again", i) EXCEPT
                      !.boot = BootOf(d)]]
        /\ UNCHANGED <<cold, coldFile, stopping, guest, left, hurt>>

\* Pool::warm boots one more device, whatever max_devices says.
AskWarm ==
    /\ Spend("warm") /\ HasJob
    /\ job' = [job EXCEPT ![NewJob] = [JobOf("warm_again", NoInstance) EXCEPT !.count = 1]]
    /\ UNCHANGED <<pool, guest, hurt>>

AfterWarm(j) == IF job[j].inst = NoInstance THEN "warm" ELSE "boot"

WarmAgain(j) ==
    /\ At(j, "warm_again")
    /\ cold' = FALSE
    /\ Goto(j, IF cold THEN "uncold" ELSE AfterWarm(j))
    /\ UNCHANGED <<dev, inst, next, coldFile, stopping, guest, left, hurt>>

\* keep_cold(false): off the lock.
Uncold(j) ==
    /\ At(j, "uncold")
    /\ coldFile' = FALSE
    /\ Goto(j, AfterWarm(j))
    /\ UNCHANGED <<dev, inst, next, cold, stopping, guest, left, hurt>>

\* Its boot done, a job goes on: the ticker's with its next one, a launch's
\* with run_launch (none, if its instance is forgotten).
AfterBoot(j) ==
    IF job[j].inst = NoInstance
    THEN IF job[j].count > 0 THEN Goto(j, "warm") ELSE Done(j)
    ELSE IF Exists(job[j].inst)
    THEN job' = [job EXCEPT ![j] = [JobOf("wait", @.inst) EXCEPT
                    !.dev = inst[job[j].inst].device]]
    ELSE Done(j)

Boot(j) ==
    LET d == job[j].boot
    IN  /\ At(j, "boot")
        /\ \/ /\ d # NoDevice /\ ~stopping /\ There(d)
              /\ phase' = [phase EXCEPT ![d] = "alive"]
              /\ AfterBoot(j) /\ Free
           \/ /\ d # NoDevice /\ stopping
              /\ Goto(j, "boot_failed") /\ Free /\ UNCHANGED phase
           \/ /\ d # NoDevice /\ ~stopping /\ There(d) /\ Spend("fail")
              /\ Goto(j, "boot_failed") /\ UNCHANGED phase
           \/ /\ (d = NoDevice) \/ (~stopping /\ ~There(d))
              /\ AfterBoot(j) /\ Free /\ UNCHANGED phase
        /\ UNCHANGED <<pool, bytes, made, app, shown, card, mark, hurt>>

BootFailed(j) ==
    /\ At(j, "boot_failed")
    /\ dev' = Gone(job[j].boot)
    /\ inst' = AllEnd(job[j].boot)
    /\ AfterBoot(j)
    /\ UNCHANGED <<next, cold, coldFile, stopping, guest, left, hurt>>

\* run_launch: each look at its device, and at whether it is called off.
Wait(j) ==
    LET s == dev[job[j].dev].state
    IN  /\ At(j, "wait")
        /\ \/ s = "ready" /\ Goto(j, "set") /\ Free
           \/ s = "booting" /\ CalledOff(job[j].inst) /\ Done(j) /\ Free
           \/ s = "booting" /\ GotoEnd(j) /\ Spend("fail")        \* BOOT_LIMIT
           \/ s \in {"closing", "gone"} /\ GotoEnd(j) /\ Free
        /\ UNCHANGED <<pool, guest, hurt>>

\* set_state(id, Installing): whatever the state became since that look.
Set(j) ==
    LET i == job[j].inst
    IN  /\ At(j, "set")
        /\ inst' = IF Exists(i) THEN [inst EXCEPT ![i].state = "installing"] ELSE inst
        /\ IF There(job[j].dev) THEN Goto(j, "turn") ELSE Done(j)
        /\ UNCHANGED <<dev, next, cold, coldFile, stopping, guest, left, hurt>>

\* The device's turn taken, unless the launch was called off meanwhile.
Turn(j) ==
    LET d == job[j].dev
    IN  /\ At(j, "turn") /\ dev[d].busy = NoJob
        /\ IF CalledOff(job[j].inst)
           THEN Done(j) /\ UNCHANGED dev
           ELSE Goto(j, "install") /\ dev' = [dev EXCEPT ![d].busy = j]
        /\ UNCHANGED <<inst, next, cold, coldFile, stopping, guest, left, hurt>>

\* A device command fails because the device is gone, or for a reason of its own.
Fails(d) == IF Alive(d) THEN Spend("fail") ELSE Free

\* The turn given back before every end.
GiveUp(j, pc) == Goto(j, pc) /\ dev' = Release(job[j].dev)

Install(j) ==
    LET d == job[j].dev
        i == job[j].inst
        b == inst[i].apk
        p == Package(i)
        killed == PackageUsers(d, p)
        Put(build) == /\ Alive(d)
                      /\ bytes' = [bytes EXCEPT ![d][p] = build]
                      /\ app' = [app EXCEPT ![d] = [u \in Users |->
                                    IF u \in killed THEN NoInstance ELSE @[u]]]
                      /\ hurt' = hurt \cup UNION {Others(app[d][u], i) : u \in killed}
    IN  /\ At(j, "install")
        /\ \/ /\ bytes[d][p] = b /\ Goto(j, "pick") /\ Free
              /\ UNCHANGED <<dev, bytes, app, hurt>>
           \/ /\ bytes[d][p] # b /\ Put(b)
              /\ Goto(j, "pick") /\ Free /\ UNCHANGED dev
           \/ /\ bytes[d][p] # b /\ Fails(d) /\ GiveUp(j, "failed")
              /\ \/ UNCHANGED <<bytes, app, hurt>>
                 \/ \E build \in {NoBuild, b} : Put(build)
        /\ UNCHANGED <<inst, next, cold, coldFile, stopping, phase, made, shown, card, mark>>

\* device::create_user: a user made, or failed -- perhaps after it was made.
MayLeaveUser(d) ==
    \/ UNCHANGED made
    \/ Alive(d) /\ made[d] < MaxUser /\ made' = [made EXCEPT ![d] = @ + 1]

\* Its user: its own, else any that is free, else a new one -- chosen under
\* the lock, recorded under it again only in Record.
Pick(j) ==
    LET d == job[j].dev
        i == job[j].inst
        known == IF There(d) THEN dev[d].users ELSE {}
        free  == known \ UsersTaken(d, i)
        new   == made[d] + 1
        With(u) == job' = [job EXCEPT ![j].pc = "record", ![j].user = u]
    IN  /\ At(j, "pick")
        /\ \/ /\ inst[i].user \in free /\ With(inst[i].user)
              /\ Free /\ UNCHANGED <<dev, made>>
           \/ /\ inst[i].user \notin free
              /\ \E u \in free : With(u)
              /\ Free /\ UNCHANGED <<dev, made>>
           \/ /\ free = {} /\ Alive(d) /\ new \in Users
              /\ made' = [made EXCEPT ![d] = new]
              /\ dev' = IF There(d) THEN [dev EXCEPT ![d].users = @ \cup {new}] ELSE dev
              /\ With(new) /\ Free
           \/ /\ free = {}
              /\ IF new \in Users THEN Fails(d) /\ MayLeaveUser(d) ELSE Free /\ UNCHANGED made
              /\ GiveUp(j, "failed")
        /\ UNCHANGED <<inst, next, cold, coldFile, stopping, phase, bytes, app, shown, card, mark, hurt>>

Record(j) ==
    LET i == job[j].inst
    IN  /\ At(j, "record")
        /\ IF inst[i].state = "installing"
           THEN /\ inst' = [inst EXCEPT ![i].user = job[j].user, ![i].state = "starting"]
                /\ Goto(j, "display") /\ UNCHANGED dev
           ELSE /\ Done(j) /\ dev' = Release(job[j].dev) /\ UNCHANGED inst
        /\ UNCHANGED <<next, cold, coldFile, stopping, guest, left, hurt>>

\* The display it kept, its card still on it, or a new one: device::add_display
\* fails with none added -- or, Android not enabling it, with one nobody records.
Display(j) ==
    LET d == job[j].dev
        i == job[j].inst
        kept == inst[i].hwc
        On(h, k) == job' = [job EXCEPT ![j].pc = "keep", ![j].hwc = h, ![j].flag = k]
    IN  /\ At(j, "display")
        /\ \/ /\ kept # NoDisplay /\ On(kept, TRUE) /\ Free
              /\ UNCHANGED <<dev, shown>>
           \/ /\ kept = NoDisplay /\ Alive(d)
              /\ \E h \in NewDisplays(d) :
                    /\ shown' = [shown EXCEPT ![d][h] = i]
                    /\ On(h, FALSE)
              /\ Free /\ UNCHANGED dev
           \/ /\ kept = NoDisplay
              /\ IF NewDisplays(d) # {} THEN Fails(d) ELSE Free
              /\ \/ UNCHANGED shown
                 \/ Alive(d) /\ \E h \in NewDisplays(d) : shown' = [shown EXCEPT ![d][h] = i]
              /\ GotoEnd(j) /\ dev' = Release(d)
        /\ UNCHANGED <<inst, next, cold, coldFile, stopping, phase, bytes, made, app, card, mark, hurt>>

\* (Variant: an instance called off records no display.)
RecordDisplayUnlessOff(i, h, kept) ==
    IF CalledOff(i) THEN inst ELSE [inst EXCEPT ![i].hwc = h, ![i].headless = @ /\ kept]

\* Recorded whatever its state: an end that comes takes it from there.
RecordDisplay(i, h, kept) ==
    IF Exists(i) THEN [inst EXCEPT ![i].hwc = h, ![i].headless = @ /\ kept] ELSE inst

\* Its display recorded; a cookie store that cannot be handed over ends it
\* here; a kept display's card is taken away.
Keep(j) ==
    LET d == job[j].dev
        i == job[j].inst
        h == job[j].hwc
        kept == job[j].flag
    IN  /\ At(j, "keep")
        /\ inst' = RecordDisplay(i, h, kept)
        /\ \/ /\ Goto(j, "start") /\ Free /\ UNCHANGED dev
              /\ card' = IF kept THEN [card EXCEPT ![d][h] = NoInstance] ELSE card
           \/ /\ Spend("fail")
              /\ IF kept THEN Goto(j, "not_restarted") ELSE GotoEnd(j)
              /\ dev' = Release(d) /\ UNCHANGED card
        /\ UNCHANGED <<next, cold, coldFile, stopping, phase, bytes, made, app, shown, mark, hurt>>

\* device::start: the app comes up as its user, or does not -- or does, and the
\* command fails all the same.
Start(j) ==
    LET d == job[j].dev
        i == job[j].inst
        u == job[j].user
        ComesUp == /\ Alive(d)
                   /\ app' = [app EXCEPT ![d][u] = i]
                   /\ hurt' = hurt \cup Others(app[d][u], i)
    IN  /\ At(j, "start")
        /\ \/ ComesUp /\ Goto(j, "started") /\ Free /\ UNCHANGED dev
           \/ /\ Fails(d) /\ GiveUp(j, "start_failed")
              /\ ComesUp \/ UNCHANGED <<app, hurt>>
        /\ UNCHANGED <<inst, next, cold, coldFile, stopping, phase, bytes, made, shown, card, mark>>

\* Running -- or, called off meanwhile, undone once the turn is given back.
Started(j) ==
    LET i == job[j].inst
    IN  /\ At(j, "started")
        /\ dev' = Release(job[j].dev)
        /\ IF inst[i].state = "starting"
           THEN /\ inst' = [inst EXCEPT ![i].state = "running"]
                /\ Done(j)
           ELSE /\ job' = [job EXCEPT ![j] = JobOf("end", i)]
                /\ UNCHANGED inst
        /\ UNCHANGED <<next, cold, coldFile, stopping, guest, left, hurt>>

\* (Variant: taken out of the starting, and nobody ends it.)
StartFailedAlone(j) ==
    LET i == job[j].inst
    IN  /\ At(j, "start_failed")
        /\ inst' = IF inst[i].state = "starting"
                   THEN [inst EXCEPT ![i].state = "closing"] ELSE inst
        /\ Done(j)
        /\ UNCHANGED <<dev, next, cold, coldFile, stopping, guest, left, hurt>>

\* take_ended(Starting) of a start that failed.
StartFailed(j) ==
    LET i == job[j].inst
    IN  /\ At(j, "start_failed")
        /\ IF inst[i].state = "starting"
           THEN /\ inst' = [inst EXCEPT ![i].state = "closing"]
                /\ job' = [job EXCEPT ![j] = JobOf("own_read", i)]
           ELSE Done(j) /\ UNCHANGED inst
        /\ UNCHANGED <<dev, next, cold, coldFile, stopping, guest, left, hurt>>

\* not_started: on a kept display its card says so, else it ends.
Failed(j) ==
    LET i == job[j].inst
        kept == inst[i].hwc # NoDisplay
    IN  /\ At(j, "failed")
        /\ IF kept THEN Goto(j, "not_restarted") ELSE GotoEnd(j)
        /\ UNCHANGED <<pool, guest, left, hurt>>

\* not_restarted: ended, with a card on the display it still has.
NotRestarted(j) ==
    LET i == job[j].inst
        ends == inst[i].state \in {"waiting", "installing", "starting"} /\ ~inst[i].closed
        ins == [inst EXCEPT ![i].state = "ended"]
        d == inst[i].device
    IN  /\ At(j, "not_restarted")
        /\ IF ~ends
           THEN Done(j) /\ UNCHANGED <<dev, inst>>
           ELSE /\ inst' = ins
                /\ dev' = MarkIdle(dev, ins)
                /\ IF There(d) /\ inst[i].hwc # NoDisplay
                   THEN job' = [job EXCEPT ![j] = [JobOf("own_card", i) EXCEPT
                                   !.dev = d, !.hwc = inst[i].hwc]]
                   ELSE Done(j)
        /\ UNCHANGED <<next, cold, coldFile, stopping, guest, left, hurt>>

-----------------------------------------------------------------------------
(* end and cleanup: flag says that the instance ends after it *)

\* (Variant: every end is only a cleanup.)
AfterUndoOnly(j) == Done(j)
AfterUndo(j) == IF job[j].flag THEN Goto(j, "ended") ELSE Done(j)

End(j) ==
    LET i == job[j].inst
        d == inst[i].device
    IN  /\ At(j, "end")
        /\ IF Exists(i) /\ There(d) /\ Alive(d)
           THEN job' = [job EXCEPT ![j].pc = "undo", ![j].dev = d]
           ELSE AfterUndo(j)
        /\ UNCHANGED <<pool, guest, left, hurt>>

\* (Variant: read, not taken.)
ReadDisplay(i) == inst
\* i.hwc.take()
TakeDisplay(i) == [inst EXCEPT ![i].hwc = NoDisplay]

\* Under the device's turn: its app and user stopped -- not an ended one's --
\* and its display, taken from its record, removed.
Undo(j) ==
    LET i == job[j].inst
        d == job[j].dev
        u == IF inst[i].state = "ended" THEN NoUser ELSE inst[i].user
        h == inst[i].hwc
    IN  /\ At(j, "undo") /\ dev[d].busy = NoJob
        /\ inst' = TakeDisplay(i)
        /\ app' = IF u # NoUser /\ Alive(d) THEN [app EXCEPT ![d][u] = NoInstance] ELSE app
        /\ shown' = IF h # NoDisplay THEN [shown EXCEPT ![d][h] = NoInstance] ELSE shown
        /\ card' = IF h # NoDisplay THEN [card EXCEPT ![d][h] = NoInstance] ELSE card
        /\ mark' = [mark EXCEPT ![d] = @ \ {h}]
        /\ hurt' = hurt \cup (IF u # NoUser THEN Others(app[d][u], i) ELSE {})
                        \cup (IF h # NoDisplay THEN Onlookers(d, h, i) ELSE {})
        /\ AfterUndo(j)
        /\ UNCHANGED <<dev, next, cold, coldFile, stopping, phase, bytes, made, left>>

Ended(j) ==
    LET i == job[j].inst
        ins == IF Exists(i)
               THEN [inst EXCEPT ![i].state = "ended", ![i].countdown = NoJob]
               ELSE inst
    IN  /\ At(j, "ended")
        /\ inst' = ins
        /\ dev' = MarkIdle(dev, ins)
        /\ Done(j)
        /\ UNCHANGED <<next, cold, coldFile, stopping, guest, left, hurt>>

-----------------------------------------------------------------------------
(* ended_on_its_own and halt: flag says that a stop of its user follows *)

OwnRead(j) ==
    LET i == job[j].inst
        d == inst[i].device
    IN  /\ At(j, "own_read")
        /\ IF Exists(i) /\ There(d)
           THEN job' = [job EXCEPT ![j].pc = "own_end", ![j].dev = d,
                                   ![j].user = inst[i].user]
           ELSE Done(j)
        /\ UNCHANGED <<pool, guest, left, hurt>>

\* A card could never be closed with no window to show it in.
ShowsCard(rec) == ~rec.headless

\* What its end comes to, under the lock: closed on purpose, restarting,
\* ended with no window, or ended with a card.
OwnEnd(j) ==
    LET i == job[j].inst
        d == job[j].dev
        halt == Alive(d) /\ job[j].user # NoUser
        rec == Counted(inst[i], halt)
        Then(pc, h) == [job EXCEPT ![j].pc = pc, ![j].hwc = h, ![j].flag = halt]
        after == IF halt THEN "halt" ELSE "halted"
        Taken(r) == /\ inst' = [inst EXCEPT ![i] = [r EXCEPT !.hwc = NoDisplay]]
                    /\ job' = Then("own_remove", r.hwc)
    IN  /\ At(j, "own_end")
        /\ IF ~Live(i) \/ inst[i].closed
           THEN Goto(j, "halted") /\ UNCHANGED inst
           ELSE \/ Taken([rec EXCEPT !.state = "ended"])        \* on_purpose
                \/ \E quick \in BOOLEAN, auto \in AutoRestart :
                     LET r == CountEnd(rec, quick)
                     IN  IF auto /\ ~stopping /\ MayRestart(r)
                         THEN /\ HasJob
                              /\ inst' = [inst EXCEPT ![i] = [r EXCEPT
                                     !.state = "restarting", !.countdown = NewJob]]
                              /\ job' = [Then(after, NoDisplay) EXCEPT
                                     ![NewJob] = JobOf("count", i)]
                         ELSE IF ~ShowsCard(r)
                         THEN Taken([r EXCEPT !.state = "ended"])
                         ELSE /\ inst' = [inst EXCEPT ![i] = [r EXCEPT !.state = "ended"]]
                              /\ job' = Then("own_card", IF Alive(d) THEN r.hwc ELSE NoDisplay)
        /\ UNCHANGED <<dev, next, cold, coldFile, stopping, guest, left, hurt>>

AfterShow(j) == Goto(j, IF job[j].flag THEN "halt" ELSE "halted")

OwnRemove(j) ==
    /\ At(j, "own_remove")
    /\ RemoveDisplay(job[j].dev, job[j].hwc, job[j].inst)
    /\ AfterShow(j)
    /\ UNCHANGED <<pool, phase, bytes, made, app, left>>

\* show: the card in its window -- or, when there can be none, the display
\* taken from the record, if it is there yet, and removed.
ShowCard(d, h, i) ==
    \/ /\ h # NoDisplay /\ Alive(d) /\ shown[d][h] # NoInstance
       /\ card' = [card EXCEPT ![d][h] = i]
       /\ Free /\ UNCHANGED <<inst, shown, mark, hurt>>
    \/ /\ h # NoDisplay
       /\ IF shown[d][h] # NoInstance THEN Fails(d) ELSE Free
       /\ IF inst[i].hwc = h
          THEN /\ inst' = [inst EXCEPT ![i].hwc = NoDisplay]
               /\ RemoveDisplay(d, h, i)
          ELSE UNCHANGED <<inst, shown, card, mark, hurt>>
    \/ h = NoDisplay /\ Free /\ UNCHANGED <<inst, shown, card, mark, hurt>>

OwnCard(j) ==
    /\ At(j, "own_card")
    /\ ShowCard(job[j].dev, job[j].hwc, job[j].inst)
    /\ AfterShow(j)
    /\ UNCHANGED <<dev, next, cold, coldFile, stopping, phase, bytes, made, app>>

\* halt: the stop under the device's turn; then its user is free again.
Halt(j) ==
    /\ At(j, "halt") /\ dev[job[j].dev].busy = NoJob
    /\ StopUser(job[j].dev, job[j].user, job[j].inst)
    /\ Goto(j, "halted")
    /\ UNCHANGED <<pool, phase, bytes, made, shown, card, mark, left>>

\* (Variants: a plain subtraction, counted or not; none at all.)
HaltedPlain(j) ==
    LET i == job[j].inst
        ins == [inst EXCEPT ![i].halting = @ - 1]
    IN  /\ At(j, "halted")
        /\ inst' = ins
        /\ dev' = MarkIdle(dev, ins)
        /\ Done(j)
        /\ UNCHANGED <<next, cold, coldFile, stopping, guest, left, hurt>>
HaltedUncounted(j) ==
    /\ At(j, "halted")
    /\ dev' = MarkIdle(dev, inst)
    /\ Done(j)
    /\ UNCHANGED <<inst, next, cold, coldFile, stopping, guest, left, hurt>>

\* The stop uncounted, and the idle devices marked (after a restart's stop the
\* ticker does that, within its second).
Halted(j) ==
    LET i == job[j].inst
        ins == IF job[j].flag /\ Exists(i)
               THEN [inst EXCEPT ![i].halting = Monus(@, 1)] ELSE inst
    IN  /\ At(j, "halted")
        /\ inst' = ins
        /\ dev' = MarkIdle(dev, ins)
        /\ Done(j)
        /\ UNCHANGED <<next, cold, coldFile, stopping, guest, left, hurt>>

-----------------------------------------------------------------------------
(* A restart's countdown and its relaunch.  A countdown's id is the job that *)
(* follows it.                                                               *)

Counting(j) ==
    LET i == job[j].inst
    IN  inst[i].state = "restarting" /\ ~inst[i].closed /\ inst[i].countdown = j

CountOver(j) ==
    /\ At(j, "count") /\ (stopping \/ ~Counting(j))
    /\ Done(j)
    /\ UNCHANGED <<pool, guest, left, hurt>>

\* Its card shown with the new count: the display read under the lock, the
\* card sent after it.
Count(j) ==
    LET i == job[j].inst
        d == inst[i].device
        h == inst[i].hwc
    IN  /\ At(j, "count") /\ ~stopping /\ Counting(j)
        /\ There(d) /\ h # NoDisplay /\ card[d][h] # i
        /\ job' = [job EXCEPT ![j].pc = "count_card", ![j].dev = d, ![j].hwc = h]
        /\ UNCHANGED <<pool, guest, left, hurt>>

CountCard(j) ==
    /\ At(j, "count_card")
    /\ ShowCard(job[j].dev, job[j].hwc, job[j].inst)
    /\ Goto(j, "count")
    /\ UNCHANGED <<dev, next, cold, coldFile, stopping, phase, bytes, made, app>>

CountEnds(j) ==
    /\ At(j, "count") /\ ~stopping /\ Counting(j)
    /\ inst[job[j].inst].halting = 0
    /\ Goto(j, "relaunch")
    /\ UNCHANGED <<pool, guest, left, hurt>>

\* Taken out of the countdown under the lock, unless it is another by now.
Relaunch(j) ==
    LET i == job[j].inst
    IN  /\ At(j, "relaunch")
        /\ IF Counting(j) /\ inst[i].halting = 0
           THEN /\ inst' = [inst EXCEPT ![i].state = "waiting", ![i].countdown = NoJob]
                /\ Goto(j, "place")
           ELSE Done(j) /\ UNCHANGED inst
        /\ UNCHANGED <<dev, next, cold, coldFile, stopping, guest, left, hurt>>

\* Another build of its package runs on the device: never touched.
OtherBuild(i, d) ==
    /\ There(d)
    /\ dev[d].installed[Package(i)] \notin {inst[i].apk, NoBuild}
    /\ \E k \in LiveOn(d) \ {i} : Package(k) = Package(i)

\* Its display and user were the device's it leaves.
Moved(i, n) == [inst EXCEPT ![i].device = n, ![i].hwc = NoDisplay, ![i].user = NoUser]

\* Where it goes: its own device while that is ready and may run its build,
\* nowhere when that is being stopped (the stop ends it), else placed anew.
PlaceAgain(j) ==
    LET i == job[j].inst
        d == inst[i].device
        b == inst[i].apk
        stays == dev[d].state = "ready" /\ ~OtherBuild(i, d)
        n == PlacedOn(b)
        kept == There(d) /\ inst[i].hwc # NoDisplay
    IN  /\ At(j, "place")
        /\ \/ /\ inst[i].state # "waiting" \/ inst[i].closed
              /\ Done(j) /\ Free /\ UNCHANGED <<dev, inst, next>>
           \/ /\ inst[i].state = "waiting" /\ ~inst[i].closed /\ Spend("fail")   \* remake
              /\ Goto(j, "not_restarted") /\ UNCHANGED <<dev, inst, next>>
           \/ /\ inst[i].state = "waiting" /\ ~inst[i].closed
              /\ Free
              /\ \/ /\ dev[d].state = "closing"
                    /\ Done(j) /\ UNCHANGED <<dev, inst, next>>
                 \/ /\ stays
                    /\ dev' = [dev EXCEPT ![d].installed[Package(i)] = b, ![d].idle = FALSE]
                    /\ job' = [job EXCEPT ![j].pc = "warm_again", ![j].boot = NoDevice]
                    /\ UNCHANGED <<inst, next>>
                 \/ /\ dev[d].state # "closing" /\ ~stays /\ n = NoDevice
                    /\ Goto(j, "not_restarted") /\ UNCHANGED <<dev, inst, next>>
                 \/ /\ dev[d].state # "closing" /\ ~stays /\ n \in Devices
                    /\ dev' = WithBuild(b, n)
                    /\ next' = [next EXCEPT !.device = NextDevice(n)]
                    /\ inst' = Moved(i, n)
                    /\ job' = [job EXCEPT ![j].pc = IF kept THEN "leave_display" ELSE "warm_again",
                                          ![j].dev = d, ![j].hwc = inst[i].hwc,
                                          ![j].boot = BootOf(n)]
        /\ UNCHANGED <<cold, coldFile, stopping, guest, hurt>>

\* Its window on the device it left closes.
LeaveDisplay(j) ==
    /\ At(j, "leave_display")
    /\ RemoveDisplay(job[j].dev, job[j].hwc, job[j].inst)
    /\ Goto(j, "warm_again")
    /\ UNCHANGED <<pool, phase, bytes, made, app, left>>

\* (Variant: one starting too.)
RestartableEarly(i) == inst[i].state \in {"starting", "running", "ended", "restarting"}

\* Refused on the way up and closing.
Restartable(i) == inst[i].state \in {"running", "ended", "restarting"}

\* restart: one running is stopped first.
Restart(i) ==
    LET d == inst[i].device
        running == inst[i].state = "running"
        halt == running /\ There(d) /\ inst[i].user # NoUser
        keeps == running \/ inst[i].user \notin UsersTaken(d, i)
        again == [Counted(inst[i], halt) EXCEPT
                     !.state = "restarting", !.countdown = NewJob,
                     !.user = IF keeps THEN inst[i].user ELSE NoUser,
                     !.quick_ends = 0, !.closed = FALSE]
    IN  /\ Spend("restart") /\ ~stopping /\ Restartable(i)
        /\ HasJob /\ (halt => HasJobs2)
        /\ inst' = [inst EXCEPT ![i] = again]
        /\ LET counted == [job EXCEPT ![NewJob] = JobOf("count", i)]
           IN  job' = IF halt
                      THEN [counted EXCEPT ![NewJob2] = [JobOf("halt", i) EXCEPT
                               !.dev = d, !.user = inst[i].user, !.flag = TRUE]]
                      ELSE counted
        /\ UNCHANGED <<dev, next, cold, coldFile, stopping, guest, hurt>>

-----------------------------------------------------------------------------
(* close, the person's windows, clear_ended *)

\* close, on the thread j: an ended one's card goes, and may leave its device
\* idle; a live one ends.
CloseOn(i, j) ==
    LET d == inst[i].device
        h == inst[i].hwc
        card_up == h # NoDisplay /\ There(d)
        off == [inst EXCEPT ![i].hwc = NoDisplay, ![i].closed = @ \/ card_up]
    IN  IF inst[i].state = "ended"
        THEN /\ inst' = off
             /\ dev' = IF card_up THEN MarkIdle(dev, off) ELSE dev
             /\ job' = [job EXCEPT ![j] =
                   IF card_up THEN [JobOf("remove", i) EXCEPT !.dev = d, !.hwc = h]
                   ELSE Idle]
        ELSE /\ inst' = [inst EXCEPT ![i].state = "closing", ![i].closed = TRUE,
                                     ![i].countdown = NoJob]
             /\ job' = [job EXCEPT ![j] = EndJob(i)]
             /\ UNCHANGED dev

Close(i) ==
    /\ Spend("close") /\ HasJob /\ Exists(i)
    /\ inst[i].state = "ended" => inst[i].hwc # NoDisplay
    /\ CloseOn(i, NewJob)
    /\ UNCHANGED <<next, cold, coldFile, stopping, guest, hurt>>

\* remove_cards, on a thread of its own.
Remove(j) ==
    /\ At(j, "remove")
    /\ RemoveDisplay(job[j].dev, job[j].hwc, job[j].inst)
    /\ Done(j)
    /\ UNCHANGED <<pool, phase, bytes, made, app, left>>

\* follow_windows: a closed window of a live instance is asked about -- with
\* nobody to ask, its instance is closed --; an ended one's display is taken
\* from it.
TickWindow(i) ==
    LET d == inst[i].device
        h == inst[i].hwc
    IN  /\ TickerFree /\ HasJob
        /\ Exists(i) /\ There(d) /\ h \in mark[d] /\ inst[i].state # "closing"
        /\ IF inst[i].state = "ended"
           THEN /\ inst' = TakeDisplay(i)
                /\ job' = [job EXCEPT ![NewJob] = [JobOf("remove", i) EXCEPT
                              !.dev = d, !.hwc = h]]
           ELSE /\ ~inst[i].asking
                /\ inst' = [inst EXCEPT ![i].asking = Asks]
                /\ job' = [job EXCEPT ![NewJob] =
                              JobOf(IF Asks THEN "ask" ELSE "close", i)]
        /\ UNCHANGED <<dev, next, cold, coldFile, stopping, guest, left, hurt>>

\* (Variant: the answer is not noted for one that ended meanwhile.)
AnsweredLive(i) == IF Live(i) THEN [inst EXCEPT ![i].asking = FALSE] ELSE inst
Answered(i) == [inst EXCEPT ![i].asking = FALSE]

\* window_closed: the answer, to close it or to keep it running headless --
\* which stands back if it ended meanwhile.
Ask(j) ==
    LET i == job[j].inst
        d == inst[i].device
        live == Live(i) /\ inst[i].state # "closing" /\ ~inst[i].closed
        keeps == live /\ There(d) /\ inst[i].hwc # NoDisplay
    IN  /\ At(j, "ask")
        /\ \/ /\ Exists(i) /\ inst' = Answered(i)
              /\ Goto(j, "close") /\ UNCHANGED mark
           \/ /\ Exists(i) /\ keeps
              /\ inst' = [Answered(i) EXCEPT ![i].headless = TRUE]
              /\ mark' = [mark EXCEPT ![d] = @ \ {inst[i].hwc}]
              /\ Done(j)
           \/ /\ Exists(i) /\ ~keeps /\ inst' = Answered(i)
              /\ Done(j) /\ UNCHANGED mark
           \/ ~Exists(i) /\ Done(j) /\ UNCHANGED <<inst, mark>>
        /\ UNCHANGED <<dev, next, cold, coldFile, stopping, phase, bytes, made, app, shown, card, left, hurt>>

\* close, of an instance whose window was.
CloseWindow(j) ==
    LET i == job[j].inst
    IN  /\ At(j, "close")
        /\ IF Exists(i) THEN CloseOn(i, j) ELSE Done(j) /\ UNCHANGED <<dev, inst>>
        /\ UNCHANGED <<next, cold, coldFile, stopping, guest, left, hurt>>

\* show_window: a headless instance's window again.
ShowWindow(i) ==
    LET d == inst[i].device
    IN  /\ Spend("show") /\ HasJob
        /\ Live(i) /\ inst[i].state # "closing" /\ ~inst[i].closed
        /\ ~inst[i].asking /\ inst[i].headless
        /\ There(d) /\ inst[i].hwc # NoDisplay
        /\ job' = [job EXCEPT ![NewJob] = [JobOf("open", i) EXCEPT
                      !.dev = d, !.hwc = inst[i].hwc]]
        /\ UNCHANGED <<pool, guest, hurt>>

OpenWindow(j) ==
    LET i == job[j].inst
        d == job[j].dev
        h == job[j].hwc
        up == Alive(d) /\ shown[d][h] # NoInstance
    IN  /\ At(j, "open")
        /\ mark' = IF up THEN [mark EXCEPT ![d] = @ \ {h}] ELSE mark
        /\ inst' = IF up /\ Exists(i) THEN [inst EXCEPT ![i].headless = FALSE] ELSE inst
        /\ Done(j)
        /\ UNCHANGED <<dev, next, cold, coldFile, stopping, phase, bytes, made, app, shown, card, left, hurt>>

\* What is left of a forgotten instance: that its id was given.
Forgotten(rec) == [AbsentInstance EXCEPT !.apk = rec.apk]

\* Kept, ended, while its stop is under way.
Forgets(rec) == rec.halting = 0

\* clear_ended: the countdowns called off, the ended forgotten -- but for one
\* whose stop is under way --, their cards' displays taken and removed.
Clear ==
    LET off(rec) == IF rec.state = "restarting"
                    THEN [rec EXCEPT !.state = "ended", !.closed = TRUE, !.countdown = NoJob]
                    ELSE rec
        ended == {i \in Instances : inst[i].state \in {"restarting", "ended"}}
        cards == {i \in ended : inst[i].hwc # NoDisplay /\ There(inst[i].device)}
        slot  == CHOOSE f \in Slots(cards) : TRUE
        RemoveOf(i) == [JobOf("remove", i) EXCEPT !.dev = inst[i].device, !.hwc = inst[i].hwc]
    IN  /\ Spend("clear") /\ Slots(cards) # {} /\ ended # {}
        /\ inst' = [i \in Instances |->
               IF i \notin ended THEN inst[i]
               ELSE IF Forgets(inst[i]) THEN Forgotten(inst[i])
               ELSE [off(inst[i]) EXCEPT !.hwc = IF i \in cards THEN NoDisplay ELSE @]]
        /\ job' = [j \in Jobs |->
               IF \E i \in cards : slot[i] = j
               THEN RemoveOf(CHOOSE i \in cards : slot[i] = j) ELSE job[j]]
        /\ UNCHANGED <<dev, next, cold, coldFile, stopping, guest, hurt>>

-----------------------------------------------------------------------------
(* stop_device and device_gone *)

\* The first section of a stop: the device closing, its countdowns called
\* off; the last one stopped by hand makes the pool cold.
StopSection(d, by_hand, j) ==
    LET last == /\ by_hand /\ ~cold
                /\ \A e \in OpenDevices : e = d
    IN  /\ dev' = [dev EXCEPT ![d].state = "closing"]
        /\ inst' = [i \in Instances |->
               IF inst[i].state = "restarting" /\ inst[i].device = d
               THEN [inst[i] EXCEPT !.state = "ended", !.countdown = NoJob]
               ELSE inst[i]]
        /\ cold' = (cold \/ last)
        /\ job' = [job EXCEPT ![j] = [Idle EXCEPT
              !.pc = IF last THEN "cold" ELSE "stop_guest", !.dev = d]]
        /\ UNCHANGED <<next, coldFile, stopping, guest, hurt>>

Kill(d) ==
    /\ There(d) /\ HasJob /\ Spend("kill")
    /\ StopSection(d, TRUE, NewJob)

\* The idle close's, on the thread the ticker gave it.
Stop(j) ==
    /\ At(j, "stop") /\ Free
    /\ IF There(job[j].dev)
       THEN StopSection(job[j].dev, FALSE, j)
       ELSE Done(j) /\ UNCHANGED <<pool, guest, hurt>>

\* keep_cold(true): off the lock.
KeepCold(j) ==
    /\ At(j, "cold")
    /\ coldFile' = TRUE
    /\ Goto(j, "stop_guest")
    /\ UNCHANGED <<dev, inst, next, cold, stopping, guest, left, hurt>>

StopGuest(j) ==
    /\ At(j, "stop_guest")
    /\ GuestEnds({job[j].dev})
    /\ Goto(j, "gone")
    /\ UNCHANGED <<pool, left, hurt>>

StopEnds(j) ==
    /\ At(j, "gone")
    /\ dev' = Gone(job[j].dev)
    /\ inst' = AllEnd(job[j].dev)
    /\ Done(j)
    /\ UNCHANGED <<next, cold, coldFile, stopping, guest, left, hurt>>

\* The ticker saw a device dead: what ran there may start again elsewhere.
Died(j) ==
    LET d == job[j].dev
        relaunch == ~stopping
        runs == {i \in InstancesOn(d) : inst[i].state = "running" /\ ~inst[i].closed}
    IN  /\ At(j, "died")
        /\ \E auto \in [runs -> AutoRestart], quick \in [runs -> BOOLEAN] :
             LET counts == {i \in runs : relaunch /\ auto[i]}
                 rec(i) == IF i \in counts THEN CountEnd(inst[i], quick[i]) ELSE inst[i]
                 again  == {i \in counts : MayRestart(rec(i))}
                 slot   == CHOOSE f \in Slots(again) : TRUE
             IN  /\ Slots(again) # {}
                 /\ inst' = [i \in Instances |->
                       IF i \notin InstancesOn(d) THEN inst[i]
                       ELSE AfterGone(rec(i), relaunch, i \in again,
                                      IF i \in again THEN slot[i] ELSE NoJob)]
                 /\ job' = [k \in Jobs |->
                       IF k = j THEN Idle
                       ELSE IF \E i \in again : slot[i] = k
                       THEN JobOf("count", CHOOSE i \in again : slot[i] = k)
                       ELSE job[k]]
        /\ dev' = Gone(d)
        /\ UNCHANGED <<next, cold, coldFile, stopping, guest, left, hurt>>

-----------------------------------------------------------------------------
(* The ticker *)

TickReady(d) ==
    /\ TickerFree /\ dev[d].state = "booting" /\ Alive(d)
    /\ dev' = [dev EXCEPT ![d].state = "ready", ![d].idle = TRUE]
    /\ UNCHANGED <<inst, next, cold, coldFile, stopping, job, guest, left, hurt>>

\* Dead -- or, booting for longer than BOOT_LIMIT, given up.
TickGone(d) ==
    /\ TickerFree /\ Open(d) /\ HasJob
    /\ \/ phase[d] = "dead" /\ Free
       \/ phase[d] # "dead" /\ dev[d].state = "booting" /\ Spend("fail")
    /\ job' = [job EXCEPT ![NewJob] = [Idle EXCEPT !.pc = "died", !.dev = d]]
    /\ UNCHANGED <<pool, guest, hurt>>

TickIdle ==
    /\ TickerFree
    /\ dev' = MarkIdle(dev, inst) /\ dev' # dev
    /\ UNCHANGED <<inst, next, cold, coldFile, stopping, job, guest, left, hurt>>

IdleViews(length) ==
    {[id |-> d, ready |-> dev[d].state = "ready",
      running |-> Cardinality({i \in Instances :
                      HoldsDevice(inst[i]) /\ inst[i].device = d}),
      idle |-> IF dev[d].idle THEN length[d] ELSE NotIdle] : d \in OpenDevices}

\* idle_close_minutes is 1 here: idle for 0 not yet, 1 and 2 overdue.
TickClose(d) ==
    /\ TickerFree /\ HasJob /\ Spend("idle")
    /\ \E length \in [Devices -> 0..2] : d \in ToClose(IdleViews(length), 1, keep_warm)
    /\ job' = [job EXCEPT ![NewJob] = [Idle EXCEPT !.pc = "stop", !.dev = d]]
    /\ UNCHANGED <<pool, guest, hurt>>

\* How many to warm, decided here; each booted by Warm, which looks at cold
\* again and at nothing else (flag: add_device's unless_cold).
TickWarm ==
    LET n == ToWarm(IdleViews([d \in Devices |-> 0]), keep_warm, max_devices)
    IN  /\ TickerFree /\ warm_on_start /\ ~cold /\ HasJob /\ n > 0
        /\ job' = [job EXCEPT ![NewJob] = [Idle EXCEPT
                      !.pc = "warm", !.flag = TRUE, !.count = n]]
        /\ UNCHANGED <<pool, guest, left, hurt>>

\* add_device
Warm(j) ==
    LET d == next.device
    IN  /\ At(j, "warm")
        /\ IF job[j].flag /\ cold
           THEN Done(j) /\ UNCHANGED <<dev, next>>
           ELSE /\ d \in Devices
                /\ dev' = [dev EXCEPT ![d] = NewDevice]
                /\ next' = [next EXCEPT !.device = d + 1]
                /\ job' = [job EXCEPT ![j].pc = "boot", ![j].boot = d,
                                      ![j].count = Monus(@, 1)]
        /\ UNCHANGED <<inst, cold, coldFile, stopping, guest, left, hurt>>

\* settling; whether one running started lately is the clock's to say.
Settling(i) == inst[i].state \in {"waiting", "installing", "starting", "closing", "restarting"}

TickSpare(d) ==
    /\ TickerFree /\ HasJob /\ Spend("spare")
    /\ dev[d].state = "ready" /\ ~dev[d].sparing
    /\ dev[d].users \subseteq UsersTaken(d, NoInstance)
    /\ \A i \in Instances : ~(inst[i].device = d /\ Settling(i))
    /\ dev' = [dev EXCEPT ![d].sparing = TRUE]
    /\ job' = [job EXCEPT ![NewJob] = [Idle EXCEPT !.pc = "spare", !.dev = d]]
    /\ UNCHANGED <<inst, next, cold, coldFile, stopping, guest, hurt>>

\* (Variant: offered as soon as it is made.)
SpareAtOnce(j) ==
    LET d == job[j].dev
        new == made[d] + 1
    IN  /\ At(j, "spare") /\ dev[d].busy = NoJob /\ Alive(d) /\ new \in Users
        /\ made' = [made EXCEPT ![d] = new]
        /\ dev' = [dev EXCEPT ![d].users = @ \cup {new}]
        /\ job' = [job EXCEPT ![j].pc = "offer", ![j].user = new]
        /\ UNCHANGED <<inst, next, cold, coldFile, stopping, phase, bytes, app, shown, card, mark, left, hurt>>

\* Its making skipped when a launch has the turn; offered once started.
Spare(j) ==
    LET d == job[j].dev
        new == made[d] + 1
    IN  /\ At(j, "spare")
        /\ \/ /\ dev[d].busy = NoJob /\ Alive(d) /\ new \in Users
              /\ made' = [made EXCEPT ![d] = new]
              /\ job' = [job EXCEPT ![j].pc = "offer", ![j].user = new]
              /\ UNCHANGED dev
              /\ Free
           \/ /\ IF dev[d].busy = NoJob /\ new \in Users
                 THEN Fails(d) /\ MayLeaveUser(d) ELSE Free /\ UNCHANGED made
              /\ dev' = [dev EXCEPT ![d].sparing = FALSE]
              /\ Done(j)
        /\ UNCHANGED <<inst, next, cold, coldFile, stopping, phase, bytes, app, shown, card, mark, hurt>>

Offer(j) ==
    LET d == job[j].dev
    IN  /\ At(j, "offer")
        /\ dev' = [dev EXCEPT ![d].sparing = FALSE,
                     ![d].users = IF There(d) THEN @ \cup {job[j].user} ELSE @]
        /\ Done(j)
        /\ UNCHANGED <<inst, next, cold, coldFile, stopping, guest, left, hurt>>

\* follow_logs, check_running: a running one whose app is not there.
TickEnded(i) ==
    LET d == inst[i].device
        u == inst[i].user
    IN  /\ TickerFree /\ HasJob
        /\ inst[i].state = "running" /\ d \in Devices /\ dev[d].state = "ready" /\ Alive(d)
        /\ IF u = NoUser THEN TRUE ELSE app[d][u] # i
        /\ inst' = [inst EXCEPT ![i].state = "closing"]
        /\ job' = [job EXCEPT ![NewJob] = JobOf("own_read", i)]
        /\ UNCHANGED <<dev, next, cold, coldFile, stopping, guest, left, hurt>>

-----------------------------------------------------------------------------
(* The environment: apps and devices that end, windows closed, the app quit *)

Crash(d, u) ==
    /\ app[d][u] # NoInstance /\ Spend("crash")
    /\ app' = [app EXCEPT ![d][u] = NoInstance]
    /\ UNCHANGED <<pool, job, phase, bytes, made, shown, card, mark, hurt>>

Death(d) ==
    /\ Alive(d) /\ Spend("death")
    /\ GuestEnds({d})
    /\ UNCHANGED <<pool, job, hurt>>

PersonCloses(d, h) ==
    /\ shown[d][h] # NoInstance /\ h \notin mark[d] /\ Spend("window")
    /\ mark' = [mark EXCEPT ![d] = @ \cup {h}]
    /\ UNCHANGED <<pool, job, phase, bytes, made, app, shown, card, hurt>>

\* shutdown, stopping every device after it when the settings say so.
Quit ==
    /\ ~stopping /\ Spend("quit")
    /\ stopping' = TRUE
    /\ \/ HasJob /\ job' = [job EXCEPT ![NewJob] = JobOf("stop_all", NoInstance)]
       \/ UNCHANGED job
    /\ UNCHANGED <<dev, inst, next, cold, coldFile, guest, hurt>>

StopAll(j) ==
    /\ At(j, "stop_all")
    /\ GuestEnds({d \in Devices : There(d)})
    /\ Done(j)
    /\ UNCHANGED <<pool, left, hurt>>

-----------------------------------------------------------------------------
AbsentDevice == [NewDevice EXCEPT !.state = "absent"]

Init ==
    /\ dev = [d \in Devices |-> IF d <= Adopted
                 THEN [NewDevice EXCEPT !.state = "ready", !.idle = TRUE]
                 ELSE AbsentDevice]
    /\ inst = [i \in Instances |-> AbsentInstance]
    /\ next = [device |-> Adopted + 1, instance |-> 1]
    /\ cold = FALSE /\ coldFile = FALSE /\ stopping = FALSE
    /\ job = [j \in Jobs |-> Idle]
    /\ phase = [d \in Devices |-> IF d <= Adopted THEN "alive" ELSE "unborn"]
    /\ bytes = [d \in Devices |-> [p \in Packages |-> NoBuild]]
    /\ made = [d \in Devices |-> 0]
    /\ app = [d \in Devices |-> NoApps]
    /\ shown = [d \in Devices |-> NoDisplays]
    /\ card = [d \in Devices |-> NoDisplays]
    /\ mark = [d \in Devices |-> {}]
    /\ left \in Budgets
    /\ hurt = {}

LaunchStep(j) ==
    \/ WarmAgain(j) \/ Uncold(j) \/ Boot(j) \/ BootFailed(j)
    \/ Wait(j) \/ Set(j) \/ Turn(j) \/ Install(j) \/ Pick(j) \/ Record(j)
    \/ Display(j) \/ Keep(j) \/ Start(j) \/ Started(j) \/ StartFailed(j)
    \/ Failed(j) \/ NotRestarted(j)

EndStep(j) ==
    \/ End(j) \/ Undo(j) \/ Ended(j)
    \/ OwnRead(j) \/ OwnEnd(j) \/ OwnRemove(j) \/ OwnCard(j) \/ Halt(j) \/ Halted(j)

RestartStep(j) ==
    \/ CountOver(j) \/ Count(j) \/ CountCard(j) \/ CountEnds(j)
    \/ Relaunch(j) \/ PlaceAgain(j) \/ LeaveDisplay(j)

StopStep(j) == \/ Stop(j) \/ KeepCold(j) \/ StopGuest(j) \/ StopEnds(j) \/ Died(j)

OtherStep(j) ==
    \/ Warm(j) \/ Spare(j) \/ Offer(j) \/ Remove(j) \/ Ask(j) \/ CloseWindow(j)
    \/ OpenWindow(j) \/ StopAll(j)

Thread(j) ==
    LaunchStep(j) \/ EndStep(j) \/ RestartStep(j) \/ StopStep(j) \/ OtherStep(j)

Ticker ==
    \/ \E d \in Devices : TickReady(d) \/ TickGone(d) \/ TickClose(d) \/ TickSpare(d)
    \/ \E i \in Instances : TickWindow(i) \/ TickEnded(i)
    \/ TickIdle \/ TickWarm

Person ==
    \/ \E b \in Builds : Launch(b)
    \/ \E i \in Instances : Close(i) \/ Restart(i) \/ ShowWindow(i)
    \/ \E d \in Devices : Kill(d)
    \/ \E d \in Devices, h \in Displays : PersonCloses(d, h)
    \/ AskWarm \/ Clear \/ Quit

Environment ==
    \/ \E d \in Devices, u \in Users : Crash(d, u)
    \/ \E d \in Devices : Death(d)

Next == (\E j \in Jobs : Thread(j)) \/ Ticker \/ Person \/ Environment

Spec == Init /\ [][Next]_vars
=============================================================================

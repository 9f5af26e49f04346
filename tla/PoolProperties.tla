--------------------------- MODULE PoolProperties ---------------------------
(***************************************************************************)
(* What the pool promises (modelled in Pool): the safety invariants, the   *)
(* action properties and, under the fairness of its threads, what must     *)
(* come about.                                                             *)
(***************************************************************************)
EXTENDS Pool

\* The display an instance's record names on a device that is up is the one
\* added for it, no other instance's.
DisplaysOwned ==
    \A i \in Instances :
        LET d == inst[i].device
            h == inst[i].hwc
        IN  h # NoDisplay /\ Alive(d) => shown[d][h] = i

\* A display that is up is some record's, or in the hands of a thread that
\* will record or remove it: none is left behind with its window.
DisplaysKept ==
    \A d \in Devices, h \in Displays :
        shown[d][h] # NoInstance =>
            \/ \E i \in Instances : inst[i].device = d /\ inst[i].hwc = h
            \/ \E j \in Jobs : /\ job[j].dev = d /\ job[j].hwc = h
                               /\ job[j].pc \in {"keep", "remove", "own_remove", "leave_display"}

\* What is installed, started or running on a device is of the build the pool
\* counts the device by: no placement, restart or relaunch gives a device to
\* another build while one is there (plan's "never touched").
OneBuild ==
    \A i \in Instances :
        /\ inst[i].state \in {"installing", "starting", "running"}
        /\ There(inst[i].device)
        => dev[inst[i].device].installed[Package(i)] = inst[i].apk

\* No thread stops another instance's app, installs over it, or removes its
\* display, and none finds another build in the place of its own (plan, relaunch,
\* halt, cleanup).
NobodyHurt == hurt = {} /\ OneBuild

\* The steps of a launch that hold its device's turn.
Holding == {"install", "pick", "record", "display", "keep", "start", "started"}

\* A device's turn is held by one install-and-start, which is under way there,
\* and given back before every end of it: none is lost, none taken twice.
TurnKept ==
    /\ \A j \in Jobs : job[j].pc \in Holding => dev[job[j].dev].busy = j
    /\ \A d \in Devices : dev[d].busy # NoJob =>
          job[dev[d].busy].pc \in Holding /\ job[dev[d].busy].dev = d

\* One launch works on an instance at a time.
LaunchPCs == Holding \cup {"warm_again", "uncold", "boot", "wait", "set", "turn", "place", "leave_display"}
OneLaunch ==
    \A j, k \in Jobs :
        /\ job[j].pc \in LaunchPCs /\ job[k].pc \in LaunchPCs
        /\ job[j].inst = job[k].inst /\ job[j].inst # NoInstance
        => j = k

\* An instance counting down has the thread of its countdown; two restarts, a
\* device's death and a close never leave it to none.
RestartFollowed ==
    \A i \in Instances : inst[i].state = "restarting" /\ ~stopping =>
        LET j == inst[i].countdown
        IN  j # NoJob /\ job[j].inst = i /\ job[j].pc \in {"count", "count_card", "relaunch"}

\* Nobody is stranded: an instance on its way up, or closing, has a thread
\* whose work it is, or a device whose stop will end it.
WorkedOn(i) == \E j \in Jobs :
    job[j].inst = i /\ job[j].pc \notin {"free", "ask", "open", "remove", "halt", "halted"}
NobodyStranded ==
    \A i \in Instances :
        inst[i].state \in {"waiting", "installing", "starting", "closing"} =>
            \/ WorkedOn(i)
            \/ dev[inst[i].device].state = "closing"

\* An instance whose closed window is being asked about is answered: the
\* ticker passes over its window until then.
AskingAnswered ==
    \A i \in Instances :
        inst[i].asking => \E j \in Jobs : At(j, "ask") /\ job[j].inst = i

\* A user made ahead is no instance's before it was started once and offered.
SpareUntouched ==
    \A j \in Jobs, i \in Instances :
        At(j, "offer") /\ Exists(i) /\ inst[i].device = job[j].dev
        => inst[i].user # job[j].user

-----------------------------------------------------------------------------
\* An instance is up while its record says starting or running, or a launch of
\* it called off meanwhile is yet to undo what it started (run_launch, halt).
Up == {i \in Instances :
          \/ inst[i].state \in {"starting", "running"}
          \/ \E j \in Jobs : job[j].inst = i /\ job[j].pc \in {"display", "keep", "start", "started"}}
Promise == INSTANCE Tenancy WITH Nobody <- NoInstance, tenant <- app,
               alive <- {d \in Devices : phase[d] = "alive"},
               up <- Up, crashes <- left["crash"]

\* The pool keeps the abstract promise of Tenancy: the apps its threads start
\* and stop under the devices' turns (run_launch, halt, cleanup) are tenants of
\* users of their own, and none but one brought down on purpose is put out.
KeepsTenancy == Promise!Spec

-----------------------------------------------------------------------------
\* Threads run on, and the ticker ticks.
Fairness ==
    /\ \A j \in Jobs : WF_vars(Thread(j) /\ UNCHANGED left)
    /\ \A d \in Devices : WF_vars(TickReady(d)) /\ WF_vars(TickGone(d))
    /\ \A i \in Instances : WF_vars(TickWindow(i)) /\ WF_vars(TickEnded(i))

FairSpec == Spec /\ Fairness

\* An instance closed (close, a window the person closed) ends, or is started
\* anew by a restart.
CloseDone == \A i \in Instances :
    inst[i].closed ~> (inst[i].state \in {"ended", "absent"} \/ ~inst[i].closed)

\* What is closing ends: each way there (close, take_ended, an app that is gone)
\* has a thread that cleans up and says so, and waits for no turn for ever.
ClosingEnds == \A i \in Instances :
    inst[i].state = "closing" ~> inst[i].state # "closing"

\* A countdown comes to its end in a pool that nobody quits: the instance starts again,
\* or ends -- the stops it waits for (halting) get done, and count_down's thread runs on
\* (relaunch).
RestartGoes == left["quit"] = 0 =>
    \A i \in Instances : inst[i].state = "restarting" ~> inst[i].state # "restarting"

\* A launch comes to its end, running or not, where nobody quits and no device dies or is
\* killed under it (CloseDone): its device boots or fails (BOOT_LIMIT), and its turn there
\* comes (run_launch).
LaunchSettles == (\A e \in {"quit", "death", "kill"} : left[e] = 0) =>
    \A i \in Instances :
        inst[i].state \in {"waiting", "installing", "starting"} ~>
            inst[i].state \notin {"waiting", "installing", "starting"}
=============================================================================

-------------------------- MODULE PoolThreadProofs --------------------------
(***************************************************************************)
(* The pool's threads and what is kept by them, proved: the turns of the   *)
(* devices, Spec => []TurnKept, the countdowns, Spec => []RestartFollowed, *)
(* the questions about windows, Spec => []AskingAnswered, and, as long as  *)
(* an instance has one launch at a time, the users made ahead,             *)
(* Spec /\ []OneLaunch => []SpareUntouched.                                *)
(*                                                                         *)
(* TurnKept is not inductive: a launch that takes a turn must be at a      *)
(* device that is there, or the turn would go with a device made later in  *)
(* its slot (a device record begins with its turn free).  TurnInv adds     *)
(* that: a launch at its turn is at a device that was made, and what was   *)
(* made has an id below the next one's.  A launch comes to its turn only   *)
(* after Set, which finds its device there, and no device is unmade.       *)
(*                                                                         *)
(* Nor is RestartFollowed: a countdown's thread that has counted to its    *)
(* end relaunches the instance only if no stop of its user is under way,   *)
(* and would leave it counting down otherwise.  WatchInv adds that none    *)
(* is then: a stop is counted only where a new countdown begins.  Nor      *)
(* AskingAnswered, without the thread being at its question.               *)
(*                                                                         *)
(* SpareUntouched needs most: whatever user a device offers, a record      *)
(* names or a launch is about to record was made, and is none being made   *)
(* ahead; those are the newest, each one thread's; and a launch is where   *)
(* its instance's record says it is (OnDevice), for it records on the      *)
(* device it read at its start.  That last part is where a second launch   *)
(* of the instance would break it, placing it elsewhere in between.        *)
(***************************************************************************)
EXTENDS PoolProofs

\* A device that is there was made before the next one will be.
MadeBefore == \A d \in Devices : dev[d].state # "absent" => d < next.device

\* A launch that waits for a turn, or has it, does so at a device that is there.
TurnThere ==
    \A j \in Jobs : job[j].pc \in Holding \cup {"turn"} =>
        job[j].dev \in Devices /\ dev[job[j].dev].state # "absent"

\* The inductive invariant.
TurnInv == TypeOK /\ MadeBefore /\ TurnThere /\ TurnKept

\* What most steps do: no turn is taken or given back,
SameTurns ==
    \A d \in Devices :
        /\ dev'[d].busy = dev[d].busy
        /\ dev[d].state # "absent" => dev'[d].state # "absent"
        /\ dev'[d].state # "absent" => d < next'.device
\* and no thread comes to one, or gives up its own.
SameHolders ==
    \A j \in Jobs :
        /\ job'[j].pc \in Holding \cup {"turn"} =>
              /\ job'[j].dev = job[j].dev
              /\ job[j].pc \in Holding \cup {"turn"}
        /\ job'[j].pc \in Holding <=> job[j].pc \in Holding

-----------------------------------------------------------------------------
(* What a step makes of the threads *)

\* A thread's own step leaves the others: all but the two that begin countdowns.
LEMMA OwnSlot ==
    ASSUME TypeOK, NEW j \in Jobs, Thread(j), ~OwnEnd(j), ~Died(j)
    PROVE  \A k \in Jobs \ {j} : job'[k] = job[k]
  <1>0. job = [k \in Jobs |-> job[k]] BY DEF TypeOK
  <1>1. CASE WarmAgain(j) BY <1>0, <1>1 DEF WarmAgain, Goto
  <1>2. CASE Uncold(j) BY <1>0, <1>2 DEF Uncold, Goto
  <1>3. CASE Boot(j) BY <1>0, <1>3 DEF Boot, AfterBoot, Goto, Done
  <1>4. CASE BootFailed(j) BY <1>0, <1>4 DEF BootFailed, AfterBoot, Goto, Done
  <1>5. CASE Wait(j) BY <1>0, <1>5 DEF Wait, Goto, GotoEnd, Done
  <1>6. CASE Set(j) BY <1>0, <1>6 DEF Set, Goto, Done
  <1>7. CASE Turn(j) BY <1>0, <1>7 DEF Turn, Goto, Done
  <1>8. CASE Install(j) BY <1>0, <1>8 DEF Install, Goto, GiveUp
  <1>9. CASE Pick(j) BY Zenon, <1>0, <1>9 DEF Pick, Goto, GiveUp
  <1>10. CASE Record(j) BY <1>0, <1>10 DEF Record, Goto, Done
  <1>11. CASE Display(j) BY Zenon, <1>0, <1>11 DEF Display, GotoEnd
  <1>12. CASE Keep(j) BY <1>0, <1>12 DEF Keep, Goto, GotoEnd
  <1>13. CASE Start(j) BY <1>0, <1>13 DEF Start, Goto, GiveUp
  <1>14. CASE Started(j) BY <1>0, <1>14 DEF Started, Done
  <1>15. CASE StartFailed(j) BY <1>0, <1>15 DEF StartFailed, Done
  <1>16. CASE Failed(j) BY <1>0, <1>16 DEF Failed, Goto, GotoEnd
  <1>17. CASE NotRestarted(j) BY <1>0, <1>17 DEF NotRestarted, Done
  <1>18. CASE End(j) BY <1>0, <1>18 DEF End, AfterUndo, Goto, Done
  <1>19. CASE Undo(j) BY <1>0, <1>19 DEF Undo, AfterUndo, Goto, Done
  <1>20. CASE Ended(j) BY <1>0, <1>20 DEF Ended, Done
  <1>21. CASE OwnRead(j) BY <1>0, <1>21 DEF OwnRead, Done
  <1>22. CASE OwnRemove(j) BY <1>0, <1>22 DEF OwnRemove, AfterShow, Goto
  <1>23. CASE OwnCard(j) BY <1>0, <1>23 DEF OwnCard, AfterShow, Goto
  <1>24. CASE Halt(j) BY <1>0, <1>24 DEF Halt, Goto
  <1>25. CASE Halted(j) BY <1>0, <1>25 DEF Halted, Done
  <1>26. CASE PlaceAgain(j) BY Zenon, <1>0, <1>26 DEF PlaceAgain, Goto, Done
  <1>27. CASE LeaveDisplay(j) BY <1>0, <1>27 DEF LeaveDisplay, Goto
  <1>28. CASE Stop(j) BY Zenon, <1>0, <1>28 DEF Stop, StopSection, Done
  <1>29. CASE KeepCold(j) BY <1>0, <1>29 DEF KeepCold, Goto
  <1>30. CASE StopGuest(j) BY <1>0, <1>30 DEF StopGuest, Goto
  <1>31. CASE StopEnds(j) BY <1>0, <1>31 DEF StopEnds, Done
  <1>32. CASE Warm(j) BY <1>0, <1>32 DEF Warm, Done
  <1>33. CASE Spare(j) BY <1>0, <1>33 DEF Spare, Done
  <1>34. CASE Offer(j) BY <1>0, <1>34 DEF Offer, Done
  <1>35. CASE Remove(j) BY <1>0, <1>35 DEF Remove, Done
  <1>36. CASE CloseWindow(j) BY <1>0, <1>36 DEF CloseWindow, CloseOn, Done
  <1>37. CASE OpenWindow(j) BY <1>0, <1>37 DEF OpenWindow, Done
  <1>38. CASE StopAll(j) BY <1>0, <1>38 DEF StopAll, Done
  <1>39. CASE CountOver(j) BY <1>0, <1>39 DEF CountOver, Done
  <1>40. CASE Count(j) BY <1>0, <1>40 DEF Count
  <1>41. CASE CountCard(j) BY <1>0, <1>41 DEF CountCard, Goto
  <1>42. CASE CountEnds(j) BY <1>0, <1>42 DEF CountEnds, Goto
  <1>43. CASE Relaunch(j) BY <1>0, <1>43 DEF Relaunch, Goto, Done
  <1>44. CASE Ask(j) BY <1>0, <1>44 DEF Ask, Goto, Done
  <1> QED
    BY <1>1, <1>2, <1>3, <1>4, <1>5, <1>6, <1>7, <1>8, <1>9, <1>10, <1>11, <1>12, <1>13, <1>14,
       <1>15, <1>16, <1>17, <1>18, <1>19, <1>20, <1>21, <1>22, <1>23, <1>24, <1>25, <1>26, <1>27,
           <1>28, <1>29, <1>30, <1>31, <1>32, <1>33, <1>34, <1>35, <1>36, <1>37, <1>38, <1>39,
       <1>40, <1>41, <1>42, <1>43, <1>44
    DEF Thread, LaunchStep, EndStep, RestartStep, StopStep, OtherStep

\* ended_on_its_own goes on, and spawns a countdown's thread at most, in a free slot.
LEMMA OwnEndSlots ==
    ASSUME TypeOK, NEW j \in Jobs, OwnEnd(j), NEW k \in Jobs
    PROVE  \/ job'[k] = job[k]
           \/ /\ job'[k].pc \in {"halted", "halt", "own_remove", "own_card", "count"}
              /\ job[k].pc \in {"own_end", "free"}
  <1> DEFINE halt == Alive(job[j].dev) /\ job[j].user # NoUser
             Then(pc, h) == [job EXCEPT ![j].pc = pc, ![j].hwc = h, ![j].flag = halt]
             after == IF halt THEN "halt" ELSE "halted"
             i == job[j].inst
  <1>1. job[j].pc = "own_end" /\ job[j] \in JobRec /\ job = [x \in Jobs |-> job[x]]
    BY Zenon DEF OwnEnd, At, TypeOK
  <1>2. \/ Goto(j, "halted")
        \/ \E h : job' = Then("own_remove", h) \/ job' = Then("own_card", h)
        \/ HasJob /\ job' = [Then(after, NoDisplay) EXCEPT ![NewJob] = JobOf("count", i)]
    BY Zenon DEF OwnEnd
  <1>3. CASE Goto(j, "halted") BY <1>1, <1>3 DEF Goto, JobRec
  <1>4. ASSUME NEW pc \in {"own_remove", "own_card"}, NEW h, job' = Then(pc, h)
        PROVE  \/ job'[k] = job[k]
               \/ job'[k].pc \in {"own_remove", "own_card"} /\ job[k].pc = "own_end"
    <2> HIDE DEF halt
    <2> QED BY <1>1, <1>4 DEF JobRec
  <1>5. CASE HasJob /\ job' = [Then(after, NoDisplay) EXCEPT ![NewJob] = JobOf("count", i)]
    <2> DEFINE n == NewJob
    <2>1. n \in Jobs /\ job[n].pc = "free" BY <1>5, FreshJob
    <2>2. JobOf("count", i).pc = "count" BY DEF JobOf, Idle
    <2>3. after \in {"halt", "halted"} OBVIOUS
    <2> HIDE DEF n, after, halt
    <2>4. /\ job'[n].pc = "count" /\ job'[j].pc = after
          /\ k \notin {j, n} => job'[k] = job[k]
      BY <1>1, <1>5, <2>1, <2>2 DEF n, JobRec
    <2> QED BY <1>1, <2>1, <2>3, <2>4
  <1> QED BY Zenon, <1>2, <1>3, <1>4, <1>5

\* device_gone's thread is done, and those it spawns count down.
LEMMA DiedSlots ==
    ASSUME NEW j \in Jobs, Died(j), NEW k \in Jobs
    PROVE  \/ job'[k] = job[k]
           \/ job'[k].pc \in {"free", "count"} /\ job[k].pc \in {"free", "died"}
  <1>1. job[j].pc = "died" /\ \A i : JobOf("count", i).pc = "count" /\ Idle.pc = "free"
    BY Zenon DEF Died, At, JobOf, Idle
  <1> DEFINE slotsOf(S) == CHOOSE f \in Slots(S) : TRUE
  <1>2. PICK S \in SUBSET Instances :
          /\ Slots(S) # {}
          /\ job' = [q \in Jobs |-> IF q = j THEN Idle
                                    ELSE IF \E i \in S : slotsOf(S)[i] = q
                                    THEN JobOf("count", CHOOSE i \in S : slotsOf(S)[i] = q)
                                    ELSE job[q]]
    <2> DEFINE runs == {i \in InstancesOn(job[j].dev) : inst[i].state = "running" /\ ~inst[i].closed}
    <2>1. PICK auto \in [runs -> AutoRestart], quick \in [runs -> BOOLEAN] :
            LET counts == {i \in runs : ~stopping /\ auto[i]}
                rec(i) == IF i \in counts THEN CountEnd(inst[i], quick[i]) ELSE inst[i]
                again  == {i \in counts : MayRestart(rec(i))}
                slot   == CHOOSE f \in Slots(again) : TRUE
            IN  /\ Slots(again) # {}
                /\ job' = [q \in Jobs |->
                      IF q = j THEN Idle
                      ELSE IF \E i \in again : slot[i] = q
                      THEN JobOf("count", CHOOSE i \in again : slot[i] = q)
                      ELSE job[q]]
      BY DEF Died
    <2> DEFINE counts == {i \in runs : ~stopping /\ auto[i]}
               rec(i) == IF i \in counts THEN CountEnd(inst[i], quick[i]) ELSE inst[i]
               again  == {i \in counts : MayRestart(rec(i))}
    <2>2. again \in SUBSET Instances BY DEF InstancesOn
    <2> WITNESS again \in SUBSET Instances
    <2> QED BY <2>1
  <1> DEFINE slot == slotsOf(S)
  <1>3. \A i \in S : job[slot[i]].pc = "free"
    <2>1. slot \in Slots(S) BY <1>2
    <2> HIDE DEF slot
    <2> QED BY <2>1 DEF Slots, FreeJobs
  <1> HIDE DEF slotsOf
  <1>4. CASE k = j BY <1>1, <1>2, <1>4
  <1>5. CASE k # j /\ \E i \in S : slot[i] = k
    <2>1. job[k].pc = "free" BY <1>3, <1>5
    <2>2. job'[k] = JobOf("count", CHOOSE i \in S : slot[i] = k) BY <1>2, <1>5
    <2> QED BY <1>1, <2>1, <2>2
  <1>6. CASE k # j /\ ~\E i \in S : slot[i] = k BY <1>2, <1>6
  <1> QED BY <1>4, <1>5, <1>6

\* restart spawns the threads of its countdown and its stop.
LEMMA RestartSlots ==
    ASSUME TypeOK, NEW i \in Instances, Restart(i), NEW k \in Jobs
    PROVE  job'[k] = job[k] \/ (job'[k].pc \in {"count", "halt"} /\ job[k].pc = "free")
  <1> DEFINE halt == inst[i].state = "running" /\ There(inst[i].device) /\ inst[i].user # NoUser
             n == NewJob
             m == NewJob2
             counted == [job EXCEPT ![n] = JobOf("count", i)]
             r == [JobOf("halt", i) EXCEPT !.dev = inst[i].device, !.user = inst[i].user, !.flag = TRUE]
  <1>1. n \in Jobs /\ job[n].pc = "free" BY FreshJob DEF Restart
  <1>2. halt => m \in Jobs \ {n} /\ job[m].pc = "free"
    BY DEF Restart, HasJobs2, NewJob2, FreeJobs
  <1>3. JobOf("count", i).pc = "count" /\ r.pc = "halt" BY DEF JobOf, Idle
  <1>4. job' = IF halt THEN [counted EXCEPT ![m] = r] ELSE counted BY DEF Restart
  <1> HIDE DEF halt, n, m, r
  <1>5. /\ job'[n].pc = "count"
        /\ halt => job'[m].pc = "halt"
        /\ k # n /\ ~(halt /\ k = m) => job'[k] = job[k]
    BY <1>1, <1>2, <1>3, <1>4 DEF TypeOK
  <1> QED BY <1>1, <1>2, <1>5

\* clear_ended spawns remove_cards.
LEMMA ClearSlots ==
    ASSUME Clear, NEW k \in Jobs
    PROVE  job'[k] = job[k] \/ (job'[k].pc = "remove" /\ job[k].pc = "free")
  <1> DEFINE ended == {i \in Instances : inst[i].state \in {"restarting", "ended"}}
             cards == {i \in ended : inst[i].hwc # NoDisplay /\ There(inst[i].device)}
             slot  == CHOOSE f \in Slots(cards) : TRUE
             RemoveOf(i) == [JobOf("remove", i) EXCEPT !.dev = inst[i].device, !.hwc = inst[i].hwc]
  <1>1. /\ Slots(cards) # {}
        /\ job' = [j \in Jobs |->
               IF \E i \in cards : slot[i] = j
               THEN RemoveOf(CHOOSE i \in cards : slot[i] = j) ELSE job[j]]
    BY Zenon DEF Clear
  <1>2. \A i : RemoveOf(i).pc = "remove" BY DEF JobOf, Idle
  <1>3. slot \in Slots(cards) BY Zenon, <1>1
  <1> HIDE DEF cards, slot, RemoveOf
  <1>4. \A i \in cards : job[slot[i]].pc = "free" BY <1>3 DEF Slots, FreeJobs
  <1> QED BY <1>1, <1>2, <1>4

-----------------------------------------------------------------------------
(* The steps that leave turns alone *)

\* A step that leaves turns and holders alone keeps the invariant.
LEMMA Undisturbed ==
    ASSUME TurnInv, TypeOK', SameTurns, SameHolders
    PROVE  TurnInv'
  <1>1. /\ \A j \in Jobs : job[j] \in JobRec
        /\ \A d \in Devices : dev[d].busy \in Jobs \cup {NoJob}
    BY DEF TurnInv, TypeOK, DeviceRec
  <1>2. MadeBefore' BY DEF SameTurns, MadeBefore
  <1>3. TurnThere' BY DEF TurnInv, TurnThere, SameTurns, SameHolders
  <1>4. ASSUME NEW j \in Jobs, job'[j].pc \in Holding PROVE dev'[job'[j].dev].busy = j
    <2>1. job[j].pc \in Holding /\ job'[j].dev = job[j].dev BY <1>4 DEF SameHolders
    <2>2. job[j].dev \in Devices BY <2>1 DEF TurnInv, TurnThere
    <2> QED BY <2>1, <2>2 DEF TurnInv, TurnKept, SameTurns
  <1>5. ASSUME NEW d \in Devices, dev'[d].busy # NoJob
        PROVE  job'[dev'[d].busy].pc \in Holding /\ job'[dev'[d].busy].dev = d
    <2> DEFINE k == dev[d].busy
    <2>1. dev'[d].busy = k BY DEF SameTurns
    <2>2. k \in Jobs BY <1>1, <1>5, <2>1
    <2>3. job[k].pc \in Holding /\ job[k].dev = d BY <1>5, <2>1 DEF TurnInv, TurnKept
    <2> QED BY <2>1, <2>2, <2>3 DEF SameHolders
  <1> QED BY <1>2, <1>3, <1>4, <1>5 DEF TurnInv, TurnKept

\* Most steps write no device at all.
LEMMA Untouched ==
    ASSUME TurnInv
    PROVE  UNCHANGED <<dev, next>> => SameTurns
  BY DEF TurnInv, MadeBefore, SameTurns

\* mark_idle takes no turn.
LEMMA Marked ==
    ASSUME TurnInv, UNCHANGED next, NEW ins, dev' = MarkIdle(dev, ins)
    PROVE  SameTurns
  <1>1. \A d \in Devices : dev[d] \in DeviceRec BY DEF TurnInv, TypeOK
  <1>2. \A d \in Devices : dev'[d].state = dev[d].state /\ dev'[d].busy = dev[d].busy
    BY <1>1 DEF MarkIdle, DeviceRec
  <1> QED BY <1>2 DEF TurnInv, MadeBefore, SameTurns

\* device_gone takes no turn, and leaves the device's record.
LEMMA Left ==
    ASSUME TurnInv, UNCHANGED next, NEW d, dev' = Gone(d)
    PROVE  SameTurns
  <1>1. \A e \in Devices : dev[e] \in DeviceRec BY DEF TurnInv, TypeOK
  <1>2. \A e \in Devices : /\ dev'[e].busy = dev[e].busy
                           /\ dev[e].state = "absent" <=> dev'[e].state = "absent"
    BY <1>1 DEF Gone, DeviceRec, TurnInv, TypeOK
  <1> QED BY <1>2 DEF TurnInv, MadeBefore, SameTurns

\* A thread without a turn, at a step where none is held or awaited next.
LEMMA Passes ==
    ASSUME TurnInv, NEW j \in Jobs, job[j].pc \notin Holding
    PROVE  /\ UNCHANGED job => SameHolders
           /\ \A r : /\ r.pc \notin Holding \cup {"turn"}
                     /\ job' = [job EXCEPT ![j] = r]
                     => SameHolders
           /\ Done(j) => SameHolders
           /\ GotoEnd(j) => SameHolders
           /\ \A pc \in PCs \ (Holding \cup {"turn"}) : Goto(j, pc) => SameHolders
  <1>1. job = [k \in Jobs |-> job[k]] /\ job[j] \in JobRec BY DEF TurnInv, TypeOK
  <1>2. UNCHANGED job => SameHolders BY DEF SameHolders
  <1>3. ASSUME NEW r, r.pc \notin Holding \cup {"turn"}, job' = [job EXCEPT ![j] = r]
        PROVE  SameHolders
    <2>1. job'[j] = r /\ \A k \in Jobs \ {j} : job'[k] = job[k] BY <1>1, <1>3
    <2> QED BY <1>3, <2>1 DEF SameHolders
  <1>4. Done(j) => SameHolders
    <2>1. Idle.pc \notin Holding \cup {"turn"} BY DEF Idle, Holding
    <2> QED BY <1>3, <2>1 DEF Done
  <1>5. GotoEnd(j) => SameHolders
    <2>1. EndJob(job[j].inst).pc \notin Holding \cup {"turn"} BY DEF EndJob, JobOf, Idle, Holding
    <2>2. GotoEnd(j) => job' = [job EXCEPT ![j] = EndJob(job[j].inst)] BY <1>1 DEF GotoEnd
    <2> QED BY <1>3, <2>1, <2>2
  <1>6. ASSUME NEW pc \in PCs \ (Holding \cup {"turn"}), Goto(j, pc) PROVE SameHolders
    <2>1. [job[j] EXCEPT !.pc = pc].pc = pc BY <1>1 DEF JobRec
    <2>2. job' = [job EXCEPT ![j] = [job[j] EXCEPT !.pc = pc]] BY <1>1, <1>6 DEF Goto
    <2> QED BY <1>3, <1>6, <2>1, <2>2
  <1> QED BY <1>2, <1>3, <1>4, <1>5, <1>6

\* The same, the thread knowing more than it did.
LEMMA Steps ==
    ASSUME TurnInv, NEW j \in Jobs, job[j].pc \notin Holding,
           NEW pc, pc \notin Holding \cup {"turn"}
    PROVE  /\ \A d : job' = [job EXCEPT ![j].pc = pc, ![j].dev = d] => SameHolders
           /\ \A d, h : job' = [job EXCEPT ![j].pc = pc, ![j].dev = d, ![j].hwc = h] => SameHolders
           /\ \A d, u : job' = [job EXCEPT ![j].pc = pc, ![j].dev = d, ![j].user = u] => SameHolders
           /\ \A u : job' = [job EXCEPT ![j].pc = pc, ![j].user = u] => SameHolders
           /\ \A h, b : job' = [job EXCEPT ![j].pc = pc, ![j].hwc = h, ![j].flag = b] => SameHolders
  <1>1. job = [k \in Jobs |-> job[k]] /\ job[j] \in JobRec BY DEF TurnInv, TypeOK
  <1>2. ASSUME job'[j].pc = pc, \A k \in Jobs \ {j} : job'[k] = job[k] PROVE SameHolders
    BY <1>2 DEF SameHolders
  <1>3. ASSUME NEW d, job' = [job EXCEPT ![j].pc = pc, ![j].dev = d] PROVE SameHolders
    BY <1>1, <1>2, <1>3 DEF JobRec
  <1>4. ASSUME NEW d, NEW h, job' = [job EXCEPT ![j].pc = pc, ![j].dev = d, ![j].hwc = h]
        PROVE  SameHolders
    BY <1>1, <1>2, <1>4 DEF JobRec
  <1>5. ASSUME NEW d, NEW u, job' = [job EXCEPT ![j].pc = pc, ![j].dev = d, ![j].user = u]
        PROVE  SameHolders
    BY <1>1, <1>2, <1>5 DEF JobRec
  <1>6. ASSUME NEW u, job' = [job EXCEPT ![j].pc = pc, ![j].user = u] PROVE SameHolders
    BY <1>1, <1>2, <1>6 DEF JobRec
  <1>7. ASSUME NEW h, NEW b, job' = [job EXCEPT ![j].pc = pc, ![j].hwc = h, ![j].flag = b]
        PROVE  SameHolders
    BY <1>1, <1>2, <1>7 DEF JobRec
  <1> QED BY Zenon, <1>3, <1>4, <1>5, <1>6, <1>7

\* A thread spawned at a step where no turn is held or awaited.
LEMMA JobAdded ==
    ASSUME TurnInv, HasJob, NEW r, r.pc \notin Holding \cup {"turn"},
           job' = [job EXCEPT ![NewJob] = r]
    PROVE  SameHolders
  <1>1. NewJob \in Jobs /\ job[NewJob].pc \notin Holding BY FreshJob DEF Holding
  <1> QED BY <1>1, Passes

-----------------------------------------------------------------------------
(* Where launches go *)

\* A nonempty set of ids has a least one.
LEMMA LeastId ==
    ASSUME NEW T, T \subseteq Nat, T # {}
    PROVE  \E x \in T : \A y \in T : x <= y
  <1> DEFINE R == {p \in Nat \X Nat : p[1] < p[2]}
  <1>1. IsWellFoundedOn(R, Nat) BY NatLessThanWellFounded DEF OpToRel
  <1>2. \E x \in T : \A y \in T : ~(<<y, x>> \in R) BY <1>1, WFMin
  <1>3. \A x, y \in Nat : <<y, x>> \in R <=> y < x OBVIOUS
  <1>4. PICK x \in T : \A y \in T : ~(<<y, x>> \in R) BY <1>2
  <1>5. \A y \in T : x \in Nat /\ y \in Nat /\ ~(y < x) BY <1>3, <1>4
  <1>6. \A y \in T : x <= y BY <1>5
  <1> QED BY <1>6

\* plan's order of devices, ready ones first and then by id, has a first one.
LEMMA FirstIn ==
    ASSUME NEW V, V # {}, \A v \in V : v.id \in Nat /\ v.ready \in BOOLEAN,
           \A v, w \in V : v.id = w.id => v = w
    PROVE  FirstOf(V) \in V
  <1> DEFINE Ready == {v \in V : v.ready}
             W == IF Ready # {} THEN Ready ELSE V
  <1>1. PICK v \in W : \A w \in W : v.id <= w.id
    <2> DEFINE ids == {w.id : w \in W}
    <2>1. ids \subseteq Nat /\ ids # {} OBVIOUS
    <2> HIDE DEF ids
    <2>2. \E n \in ids : \A m \in ids : n <= m BY <2>1, LeastId
    <2> QED BY <2>2 DEF ids
  <1>2. v \in V /\ \A e \in V \ {v} : Before(v, e) BY <1>1 DEF Before
  <1> QED BY <1>2 DEF FirstOf

\* place: the device a launch goes to is up, or it is the next one.
LEMMA PlacedThere ==
    ASSUME TypeOK, NEW b, PlacedOn(b) \in Devices
    PROVE  PlacedOn(b) \in OpenDevices \cup {next.device}
  <1> DEFINE p == Place(DeviceViews, PackageOf[b], b)
  <1> DEFINE view(d) == [id |-> d, ready |-> dev[d].state = "ready",
                         installed |-> dev[d].installed,
                         running |-> {Package(i) : i \in LiveOn(d)},
                         closing |-> FALSE]
  <1>0. /\ DeviceViews = {view(d) : d \in OpenDevices}
        /\ \A d : view(d).id = d /\ view(d).ready \in BOOLEAN
        /\ OpenDevices \subseteq Nat
    BY DEF DeviceViews, OpenDevices, Devices
  <1> HIDE DEF view
  <1>1. \A v \in DeviceViews : v.id \in OpenDevices /\ v.id \in Nat /\ v.ready \in BOOLEAN
    BY <1>0
  <1>2. \A v, w \in DeviceViews : v.id = w.id => v = w BY <1>0
  <1>3. \A V \in SUBSET DeviceViews : V # {} => FirstOf(V).id \in OpenDevices
    BY <1>1, <1>2, FirstIn
  <1>4. p.rule # "boot" => p.id \in OpenDevices
    BY <1>3 DEF Place
  <1>5. /\ PlacedOn(b) \in {p.id, NoDevice, next.device}
        /\ (PlacedOn(b) = p.id => p.rule # "boot" \/ p.id = NoDevice)
    BY DEF PlacedOn, Place, NoDevice
  <1> QED BY <1>4, <1>5 DEF Devices, NoDevice

\* The next device's slot is nobody's yet: no launch holds or awaits its turn.
LEMMA NobodyThere ==
    ASSUME TurnInv, next.device \in Devices
    PROVE  dev[next.device].busy = NoJob
  <1> DEFINE d == next.device
  <1> SUFFICES ASSUME dev[d].busy # NoJob PROVE FALSE OBVIOUS
  <1>1. dev[d].busy \in Jobs BY DEF TurnInv, TypeOK, DeviceRec
  <1>2. dev[d].state # "absent" BY <1>1 DEF TurnInv, TurnKept, TurnThere
  <1>3. d < d BY <1>2 DEF TurnInv, MadeBefore
  <1> QED BY <1>3 DEF TurnInv, TypeOK

\* place gives a device there is, or makes the next one, whose turn is free.
LEMMA Built ==
    ASSUME TurnInv, NEW b, NEW d \in Devices, dev' = WithBuild(b, d),
           dev[d].state # "absent" \/ d = next.device,
           next'.device = NextDevice(d)
    PROVE  SameTurns
  <1> DEFINE rec == IF d = next.device THEN NewDevice ELSE dev[d]
             new == [rec EXCEPT !.installed[PackageOf[b]] = b, !.idle = FALSE]
  <1>1. dev[d] \in DeviceRec /\ next.device \in Nat BY DEF TurnInv, TypeOK
  <1>2. rec.busy = dev[d].busy /\ rec.state # "absent" /\ rec \in DeviceRec
    BY <1>1, NobodyThere, NewDeviceOK DEF NewDevice
  <1>3. dev' = [dev EXCEPT ![d] = new] BY DEF WithBuild, rec, new
  <1> HIDE DEF rec
  <1>4. new.busy = dev[d].busy /\ new.state # "absent" BY <1>2 DEF DeviceRec
  <1> HIDE DEF new
  <1>5. /\ \A e \in Devices \ {d} : dev'[e] = dev[e]
        /\ dev'[d] = new
    BY <1>3 DEF TurnInv, TypeOK
  <1>6. /\ \A e \in Devices : e < next.device => e < next'.device
        /\ d < next'.device
    <2>1. \A e \in Devices : e \in Nat BY DEF Devices
    <2>2. d # next.device => d < next.device BY DEF TurnInv, MadeBefore
    <2> QED BY <1>1, <2>1, <2>2 DEF NextDevice
  <1> QED BY <1>4, <1>5, <1>6 DEF TurnInv, MadeBefore, SameTurns

\* add_device makes the next device, whose turn is free.
LEMMA NewThere ==
    ASSUME TurnInv, next.device \in Devices,
           dev' = [dev EXCEPT ![next.device] = NewDevice],
           next' = [next EXCEPT !.device = next.device + 1]
    PROVE  SameTurns
  <1> DEFINE d == next.device
  <1>1. next'.device = d + 1 /\ d \in Nat BY DEF TurnInv, TypeOK
  <1>2. dev'[d] = NewDevice /\ \A e \in Devices \ {d} : dev'[e] = dev[e] BY DEF TurnInv, TypeOK
  <1>3. dev[d].busy = NoJob /\ NewDevice.busy = NoJob /\ NewDevice.state # "absent"
    BY NobodyThere DEF NewDevice
  <1>4. \A e \in Devices : e < d => e < d + 1 BY <1>1 DEF Devices
  <1> HIDE DEF d
  <1>5. \A e \in Devices : /\ dev'[e].busy = dev[e].busy
                           /\ dev[e].state # "absent" => dev'[e].state # "absent"
    BY <1>2, <1>3
  <1>6. \A e \in Devices : dev'[e].state # "absent" => e < d + 1
    BY <1>1, <1>2, <1>4 DEF TurnInv, MadeBefore, d
  <1> QED BY <1>1, <1>5, <1>6 DEF SameTurns

-----------------------------------------------------------------------------
(* Turns taken and given back *)

\* run_launch takes a turn that is free.
LEMMA TurnTakenUp ==
    ASSUME TurnInv, TypeOK', UNCHANGED next, NEW j \in Jobs, job[j].pc = "turn",
           dev[job[j].dev].busy = NoJob, Goto(j, "install"),
           dev' = [dev EXCEPT ![job[j].dev].busy = j]
    PROVE  TurnInv'
  <1> DEFINE d == job[j].dev
  <1>1. d \in Devices /\ dev[d].state # "absent" BY DEF TurnInv, TurnThere
  <1>2. /\ job'[j].pc = "install" /\ job'[j].dev = d
        /\ \A k \in Jobs \ {j} : job'[k] = job[k]
    BY DEF TurnInv, TypeOK, Goto, JobRec
  <1>3. /\ dev'[d].busy = j
        /\ \A e \in Devices : dev'[e].state = dev[e].state
        /\ \A e \in Devices \ {d} : dev'[e].busy = dev[e].busy
    BY <1>1 DEF TurnInv, TypeOK, DeviceRec
  <1>4. MadeBefore' BY <1>3 DEF TurnInv, MadeBefore
  <1>5. TurnThere' BY <1>1, <1>2, <1>3 DEF TurnInv, TurnThere
  <1>6. ASSUME NEW k \in Jobs, job'[k].pc \in Holding PROVE dev'[job'[k].dev].busy = k
    <2>1. CASE k = j BY <1>2, <1>3, <2>1
    <2>2. CASE k # j
      <3>1. /\ job'[k] = job[k] /\ job[k].dev \in Devices /\ dev[job[k].dev].busy = k
        BY <1>2, <1>6, <2>2 DEF TurnInv, TurnThere, TurnKept
      <3>2. job[k].dev # d BY <3>1, ConstantsOK
      <3> QED BY <1>3, <3>1, <3>2
    <2> QED BY <2>1, <2>2
  <1>7. ASSUME NEW e \in Devices, dev'[e].busy # NoJob
        PROVE  job'[dev'[e].busy].pc \in Holding /\ job'[dev'[e].busy].dev = e
    <2>1. CASE e = d BY <1>2, <1>3, <2>1 DEF Holding
    <2>2. CASE e # d
      <3> DEFINE k == dev[e].busy
      <3>1. dev'[e].busy = k BY <1>3, <2>2
      <3>2. k \in Jobs /\ job[k].pc \in Holding /\ job[k].dev = e
        BY <1>7, <3>1 DEF TurnInv, TurnKept, TypeOK, DeviceRec
      <3>3. k # j BY <3>2 DEF Holding
      <3> QED BY <1>2, <3>1, <3>2, <3>3
    <2> QED BY <2>1, <2>2
  <1> QED BY <1>4, <1>5, <1>6, <1>7 DEF TurnInv, TurnKept

\* run_launch goes on under its turn.
LEMMA GoesOnHolding ==
    ASSUME TurnInv, TypeOK', NEW j \in Jobs, job[j].pc \in Holding, NEW pc \in Holding,
           Goto(j, pc), UNCHANGED <<dev, next>>
    PROVE  TurnInv'
  <1>1. /\ job'[j].pc = pc /\ job'[j].dev = job[j].dev
        /\ \A k \in Jobs \ {j} : job'[k] = job[k]
    BY DEF TurnInv, TypeOK, Goto, JobRec
  <1>2. SameHolders BY <1>1 DEF SameHolders
  <1> QED BY <1>2, Untouched, Undisturbed

\* A holder that gives its turn back and goes where none is held.
LEMMA TurnGivenBack ==
    ASSUME TurnInv, TypeOK', NEW j \in Jobs, job[j].pc \in Holding,
           dev' = Release(job[j].dev), UNCHANGED next,
           job'[j].pc \notin Holding \cup {"turn"},
           \A k \in Jobs \ {j} : job'[k] = job[k]
    PROVE  TurnInv'
  <1> DEFINE d == job[j].dev
  <1>1. d \in Devices /\ dev[d].busy = j BY DEF TurnInv, TurnThere, TurnKept
  <1>2. /\ dev' = [dev EXCEPT ![d].busy = NoJob]
        /\ \A e \in Devices : dev'[e].state = dev[e].state
        /\ \A e \in Devices \ {d} : dev'[e].busy = dev[e].busy
        /\ dev'[d].busy = NoJob
    BY <1>1 DEF Release, TurnInv, TypeOK, DeviceRec
  <1>3. MadeBefore' BY <1>2 DEF TurnInv, MadeBefore
  <1>4. TurnThere' BY <1>2 DEF TurnInv, TurnThere
  <1>5. ASSUME NEW k \in Jobs, job'[k].pc \in Holding PROVE dev'[job'[k].dev].busy = k
    <2>1. k # j /\ job'[k] = job[k] BY <1>5
    <2>2. job[k].dev \in Devices /\ dev[job[k].dev].busy = k
      BY <1>5, <2>1 DEF TurnInv, TurnThere, TurnKept
    <2> QED BY <1>1, <1>2, <2>1, <2>2
  <1>6. ASSUME NEW e \in Devices, dev'[e].busy # NoJob
        PROVE  job'[dev'[e].busy].pc \in Holding /\ job'[dev'[e].busy].dev = e
    <2> DEFINE k == dev[e].busy
    <2>1. e # d /\ dev'[e].busy = k BY <1>2, <1>6
    <2>2. k \in Jobs BY <1>6, <2>1 DEF TurnInv, TypeOK, DeviceRec
    <2>3. job[k].pc \in Holding /\ job[k].dev = e BY <1>6, <2>1 DEF TurnInv, TurnKept
    <2>4. k # j BY <2>1, <2>3
    <2> QED BY <2>1, <2>2, <2>3, <2>4
  <1> QED BY <1>3, <1>4, <1>5, <1>6 DEF TurnInv, TurnKept

\* run_launch ends, or goes to end its instance, its turn given back first.
LEMMA HoldingDone ==
    ASSUME TurnInv, TypeOK', UNCHANGED next, NEW j \in Jobs, job[j].pc \in Holding,
           dev' = Release(job[j].dev),
           Done(j) \/ GotoEnd(j) \/ job' = [job EXCEPT ![j] = JobOf("end", job[j].inst)]
    PROVE  TurnInv'
  <1>1. /\ Idle.pc = "free" /\ JobOf("end", job[j].inst).pc = "end"
        /\ EndJob(job[j].inst).pc = "end"
    BY DEF EndJob, JobOf, Idle
  <1>2. job' \in {[job EXCEPT ![j] = r] :
                   r \in {Idle, JobOf("end", job[j].inst), EndJob(job[j].inst)}}
    BY DEF TurnInv, TypeOK, Done, GotoEnd
  <1>3. job'[j].pc \in {"free", "end"} /\ \A k \in Jobs \ {j} : job'[k] = job[k]
    BY <1>1, <1>2 DEF TurnInv, TypeOK
  <1> QED BY <1>3, TurnGivenBack DEF Holding

\* run_launch gives up, its turn given back first.
LEMMA GivenUp ==
    ASSUME TurnInv, TypeOK', UNCHANGED next, NEW j \in Jobs, job[j].pc \in Holding,
           NEW pc, pc \notin Holding \cup {"turn"}, GiveUp(j, pc)
    PROVE  TurnInv'
  <1>1. job'[j].pc = pc /\ \A k \in Jobs \ {j} : job'[k] = job[k]
    BY DEF TurnInv, TypeOK, GiveUp, Goto, JobRec
  <1> QED BY <1>1, TurnGivenBack DEF GiveUp

-----------------------------------------------------------------------------
(* The steps of threads *)

\* A boot done, its job goes on without a turn.
LEMMA BootedOn ==
    ASSUME TurnInv, NEW j \in Jobs, job[j].pc \notin Holding, AfterBoot(j)
    PROVE  SameHolders
  <1> DEFINE i == job[j].inst
             r == [JobOf("wait", i) EXCEPT !.dev = inst[i].device]
  <1>1. r.pc = "wait" BY DEF JobOf, Idle
  <1>2. \/ Done(j) \/ Goto(j, "warm") \/ job' = [job EXCEPT ![j] = r]
    BY DEF AfterBoot, TurnInv, TypeOK
  <1> HIDE DEF r
  <1> QED BY <1>1, <1>2, Passes DEF PCs, Holding

\* A user picked or made is all that a pick writes of its device.
LEMMA PickKeeps ==
    ASSUME TypeOK, NEW j \in Jobs, job[j].pc = "pick", Pick(j),
           \E u : job' = [job EXCEPT ![j].pc = "record", ![j].user = u]
    PROVE  dev' = dev \/ \E us : dev' = [dev EXCEPT ![job[j].dev].users = us]
  <1>1. ASSUME GiveUp(j, "failed") PROVE FALSE
    <2>1. job'[j].pc = "failed" BY <1>1 DEF GiveUp, Goto, TypeOK, JobRec
    <2>2. job'[j].pc = "record" BY DEF TypeOK, JobRec
    <2> QED BY <2>1, <2>2
  <1>2. \/ UNCHANGED dev
        \/ \E us : dev' = [dev EXCEPT ![job[j].dev].users = us]
    BY <1>1 DEF Pick
  <1> QED BY <1>2

\* The steps of a launch: the one that takes a turn, those under it, and those that give it back.
LEMMA LaunchTurns == ASSUME TurnInv, TypeOK', NEW j \in Jobs, LaunchStep(j) PROVE TurnInv'
  <1>0. job[j] \in JobRec /\ job = [k \in Jobs |-> job[k]] BY DEF TurnInv, TypeOK
  <1>1. CASE WarmAgain(j)
    <2>1. SameTurns BY <1>1, Untouched DEF WarmAgain
    <2>2. SameHolders BY <1>1, Passes DEF WarmAgain, At, AfterWarm, PCs, Holding
    <2> QED BY <2>1, <2>2, Undisturbed
  <1>2. CASE Uncold(j)
    <2>1. SameTurns BY <1>2, Untouched DEF Uncold
    <2>2. SameHolders BY <1>2, Passes DEF Uncold, At, AfterWarm, PCs, Holding
    <2> QED BY <2>1, <2>2, Undisturbed
  <1>3. CASE Boot(j)
    <2>1. SameTurns BY <1>3, Untouched DEF Boot, pool
    <2>2. AfterBoot(j) => SameHolders BY <1>3, BootedOn DEF Boot, At, Holding
    <2>3. SameHolders BY <1>3, <2>2, Passes DEF Boot, At, PCs, Holding
    <2> QED BY <2>1, <2>3, Undisturbed
  <1>4. CASE BootFailed(j)
    <2>1. SameTurns BY <1>4, Left DEF BootFailed
    <2>2. SameHolders BY <1>4, BootedOn DEF BootFailed, At, Holding
    <2> QED BY <2>1, <2>2, Undisturbed
  <1>5. CASE Wait(j)
    <2>1. SameTurns BY <1>5, Untouched DEF Wait, pool
    <2>2. SameHolders BY <1>5, Passes DEF Wait, At, PCs, Holding
    <2> QED BY <2>1, <2>2, Undisturbed
  <1>6. CASE Set(j)
    <2>1. UNCHANGED <<dev, next>> /\ job[j].pc = "set" BY <1>6 DEF Set, At
    <2>2. CASE Done(j)
      <3>1. SameTurns BY <2>1, Untouched
      <3>2. SameHolders BY <2>1, <2>2, Passes DEF Holding
      <3> QED BY <3>1, <3>2, Undisturbed
    <2>3. CASE There(job[j].dev) /\ Goto(j, "turn")
      <3>1. /\ job'[j].pc = "turn" /\ job'[j].dev = job[j].dev
            /\ \A k \in Jobs \ {j} : job'[k] = job[k]
        BY <1>0, <2>3 DEF Goto, JobRec
      <3>2. MadeBefore' BY <2>1 DEF TurnInv, MadeBefore
      <3>3. TurnThere' BY <2>1, <2>3, <3>1 DEF TurnInv, TurnThere, There
      <3>4. TurnKept'
        <4>1. \A k \in Jobs : job'[k].pc \in Holding => k # j /\ job'[k] = job[k]
          BY <3>1 DEF Holding
        <4>2. \A d \in Devices : dev[d].busy # NoJob => dev[d].busy \in Jobs \ {j}
          <5>1. \A d \in Devices : dev[d].busy \in Jobs \cup {NoJob} BY DEF TurnInv, TypeOK, DeviceRec
          <5> QED BY <2>1, <5>1 DEF TurnInv, TurnKept, Holding
        <4> QED BY <2>1, <3>1, <4>1, <4>2 DEF TurnInv, TurnKept
      <3> QED BY <3>2, <3>3, <3>4 DEF TurnInv
    <2> QED BY <1>6, <2>2, <2>3 DEF Set
  <1>7. CASE Turn(j)
    <2>1. UNCHANGED next /\ job[j].pc = "turn" /\ dev[job[j].dev].busy = NoJob BY <1>7 DEF Turn, At
    <2>2. CASE Done(j) /\ UNCHANGED dev
      <3>1. SameTurns BY <2>1, <2>2, Untouched
      <3>2. SameHolders BY <2>1, <2>2, Passes DEF Holding
      <3> QED BY <3>1, <3>2, Undisturbed
    <2>3. CASE Goto(j, "install") /\ dev' = [dev EXCEPT ![job[j].dev].busy = j]
      BY <2>1, <2>3, TurnTakenUp
    <2> QED BY <1>7, <2>2, <2>3 DEF Turn
  <1>8. CASE Install(j)
    <2>1. job[j].pc = "install" /\ UNCHANGED next BY <1>8 DEF Install, At
    <2>2. CASE Goto(j, "pick") /\ UNCHANGED dev BY <2>1, <2>2, GoesOnHolding DEF Holding
    <2>3. CASE GiveUp(j, "failed") BY <2>1, <2>3, GivenUp DEF Holding
    <2> QED BY <1>8, <2>2, <2>3 DEF Install
  <1>9. CASE Pick(j)
    <2>1. job[j].pc = "pick" /\ UNCHANGED next BY <1>9 DEF Pick, At
    <2>2. CASE GiveUp(j, "failed") BY <2>1, <2>2, GivenUp DEF Holding
    <2>3. CASE \E u : job' = [job EXCEPT ![j].pc = "record", ![j].user = u]
      <3>1. SameTurns
        <4>1. \A e \in Devices : dev'[e].busy = dev[e].busy /\ dev'[e].state = dev[e].state
          <5>1. dev' = dev \/ \E us : dev' = [dev EXCEPT ![job[j].dev].users = us]
            BY <1>9, <2>1, <2>3, PickKeeps DEF TurnInv
          <5>2. \A e \in Devices : dev[e] \in DeviceRec BY DEF TurnInv, TypeOK
          <5>3. ASSUME NEW us, dev' = [dev EXCEPT ![job[j].dev].users = us], NEW e \in Devices
                PROVE  dev'[e].busy = dev[e].busy /\ dev'[e].state = dev[e].state
            BY <5>2, <5>3 DEF TurnInv, TypeOK, DeviceRec
          <5> QED BY <5>1, <5>3
        <4> QED BY <2>1, <4>1 DEF TurnInv, MadeBefore, SameTurns
      <3>2. SameHolders BY <1>0, <2>1, <2>3 DEF SameHolders, Holding, JobRec
      <3> QED BY <3>1, <3>2, Undisturbed
    <2>4. \/ GiveUp(j, "failed")
          \/ \E u : job' = [job EXCEPT ![j].pc = "record", ![j].user = u]
      BY <1>9 DEF Pick
    <2> QED BY <2>2, <2>3, <2>4
  <1>10. CASE Record(j)
    <2>1. job[j].pc = "record" /\ UNCHANGED next BY <1>10 DEF Record, At
    <2>2. CASE Goto(j, "display") /\ UNCHANGED dev BY <2>1, <2>2, GoesOnHolding DEF Holding
    <2>3. CASE Done(j) /\ dev' = Release(job[j].dev) BY <2>1, <2>3, HoldingDone DEF Holding
    <2> QED BY <1>10, <2>2, <2>3 DEF Record
  <1>11. CASE Display(j)
    <2>1. job[j].pc = "display" /\ UNCHANGED next BY Zenon, <1>11 DEF Display, At
    <2>2. CASE (\E h, k : job' = [job EXCEPT ![j].pc = "keep", ![j].hwc = h, ![j].flag = k]) /\ UNCHANGED dev
      <3>1. SameTurns BY <2>1, <2>2, Untouched
      <3>2. SameHolders BY <1>0, <2>1, <2>2 DEF SameHolders, Holding, JobRec
      <3> QED BY <3>1, <3>2, Undisturbed
    <2>3. CASE GotoEnd(j) /\ dev' = Release(job[j].dev) BY <2>1, <2>3, HoldingDone DEF Holding
    <2> QED BY Zenon, <1>11, <2>2, <2>3 DEF Display
  <1>12. CASE Keep(j)
    <2>1. job[j].pc = "keep" /\ UNCHANGED next BY <1>12 DEF Keep, At
    <2>2. CASE Goto(j, "start") /\ UNCHANGED dev BY <2>1, <2>2, GoesOnHolding DEF Holding
    <2>3. CASE GiveUp(j, "not_restarted") BY <2>1, <2>3, GivenUp DEF Holding
    <2>4. CASE GotoEnd(j) /\ dev' = Release(job[j].dev) BY <2>1, <2>4, HoldingDone DEF Holding
    <2> QED BY <1>12, <2>2, <2>3, <2>4 DEF Keep, GiveUp
  <1>13. CASE Start(j)
    <2>1. job[j].pc = "start" /\ UNCHANGED next BY <1>13 DEF Start, At
    <2>2. CASE Goto(j, "started") /\ UNCHANGED dev BY <2>1, <2>2, GoesOnHolding DEF Holding
    <2>3. CASE GiveUp(j, "start_failed") BY <2>1, <2>3, GivenUp DEF Holding
    <2> QED BY <1>13, <2>2, <2>3 DEF Start
  <1>14. CASE Started(j)
    <2>1. job[j].pc = "started" /\ UNCHANGED next /\ dev' = Release(job[j].dev) BY <1>14 DEF Started, At
    <2>2. Done(j) \/ job' = [job EXCEPT ![j] = JobOf("end", job[j].inst)] BY <1>14 DEF Started
    <2> QED BY <2>1, <2>2, HoldingDone DEF Holding
  <1>15. CASE StartFailed(j)
    <2>1. SameTurns BY <1>15, Untouched DEF StartFailed
    <2>2. JobOf("own_read", job[j].inst).pc = "own_read" BY DEF JobOf, Idle
    <2>3. SameHolders BY <1>15, <2>2, Passes DEF StartFailed, At, Holding
    <2> QED BY <2>1, <2>3, Undisturbed
  <1>16. CASE Failed(j)
    <2>1. SameTurns BY <1>16, Untouched DEF Failed, pool
    <2>2. SameHolders BY <1>16, Passes DEF Failed, At, PCs, Holding
    <2> QED BY <2>1, <2>2, Undisturbed
  <1>17. CASE NotRestarted(j)
    <2>1. SameTurns BY <1>17, Untouched, Marked DEF NotRestarted
    <2>2. \A d, h : [JobOf("own_card", job[j].inst) EXCEPT !.dev = d, !.hwc = h].pc = "own_card" BY DEF JobOf, Idle
    <2>3. SameHolders BY <1>17, <2>2, Passes DEF NotRestarted, At, Holding
    <2> QED BY <2>1, <2>3, Undisturbed
  <1> QED BY <1>1, <1>2, <1>3, <1>4, <1>5, <1>6, <1>7, <1>8, <1>9, <1>10, <1>11, <1>12, <1>13,
             <1>14, <1>15, <1>16, <1>17 DEF LaunchStep

\* ended_on_its_own spawns a countdown's thread at most, without a turn.
LEMMA OwnEndHolds == ASSUME TurnInv, NEW j \in Jobs, OwnEnd(j) PROVE SameHolders
  <1>1. TypeOK BY DEF TurnInv
  <1> QED BY <1>1, OwnEndSlots DEF SameHolders, Holding

\* The steps of an end take no turn between them: Undo and Halt only wait for it to be free.
LEMMA EndTurns == ASSUME TurnInv, TypeOK', NEW j \in Jobs, EndStep(j) PROVE TurnInv'
  <1>0. job[j] \in JobRec /\ job = [k \in Jobs |-> job[k]] BY DEF TurnInv, TypeOK
  <1>1. CASE End(j)
    <2>1. SameTurns BY <1>1, Untouched DEF End, pool
    <2>2. CASE job' = [job EXCEPT ![j].pc = "undo", ![j].dev = inst[job[j].inst].device]
      <3>1. SameHolders BY Zenon, <1>0, <1>1, <2>2, Steps DEF End, At, Holding
      <3> QED BY <2>1, <3>1, Undisturbed
    <2>3. CASE AfterUndo(j)
      <3>1. SameHolders BY <1>1, <2>3, Passes DEF End, At, AfterUndo, PCs, Holding
      <3> QED BY <2>1, <3>1, Undisturbed
    <2> QED BY <1>1, <2>2, <2>3 DEF End
  <1>2. CASE Undo(j)
    <2>1. SameTurns BY <1>2, Untouched DEF Undo
    <2>2. SameHolders BY <1>2, Passes DEF Undo, At, AfterUndo, PCs, Holding
    <2> QED BY <2>1, <2>2, Undisturbed
  <1>3. CASE Ended(j)
    <2>1. SameTurns BY <1>3, Marked DEF Ended
    <2>2. SameHolders BY <1>3, Passes DEF Ended, At, Holding
    <2> QED BY <2>1, <2>2, Undisturbed
  <1>4. CASE OwnRead(j)
    <2>1. SameTurns BY <1>4, Untouched DEF OwnRead, pool
    <2>2. job[j].pc = "own_read" BY <1>4 DEF OwnRead, At
    <2>3. CASE \E d, u : job' = [job EXCEPT ![j].pc = "own_end", ![j].dev = d, ![j].user = u]
      <3>1. job[j].pc \notin Holding /\ "own_end" \notin Holding \cup {"turn"} BY <2>2 DEF Holding
      <3>2. PICK d, u : job' = [job EXCEPT ![j].pc = "own_end", ![j].dev = d, ![j].user = u] BY Zenon, <2>3
      <3>3. SameHolders BY Zenon, <3>1, <3>2, Steps
      <3> QED BY <2>1, <3>3, Undisturbed
    <2>4. CASE Done(j)
      <3>1. SameHolders BY <2>2, <2>4, Passes DEF Holding
      <3> QED BY <2>1, <3>1, Undisturbed
    <2> QED BY Zenon, <1>4, <2>3, <2>4 DEF OwnRead
  <1>5. CASE OwnEnd(j)
    <2>1. SameTurns BY Zenon, <1>5, Untouched DEF OwnEnd
    <2>2. SameHolders BY <1>5, OwnEndHolds
    <2> QED BY <2>1, <2>2, Undisturbed
  <1>6. CASE OwnRemove(j)
    <2>1. SameTurns BY <1>6, Untouched DEF OwnRemove, pool
    <2>2. SameHolders BY <1>6, Passes DEF OwnRemove, At, AfterShow, PCs, Holding
    <2> QED BY <2>1, <2>2, Undisturbed
  <1>7. CASE OwnCard(j)
    <2>1. SameTurns BY <1>7, Untouched DEF OwnCard
    <2>2. SameHolders BY <1>7, Passes DEF OwnCard, At, AfterShow, PCs, Holding
    <2> QED BY <2>1, <2>2, Undisturbed
  <1>8. CASE Halt(j)
    <2>1. SameTurns BY <1>8, Untouched DEF Halt, pool
    <2>2. SameHolders BY <1>8, Passes DEF Halt, At, PCs, Holding
    <2> QED BY <2>1, <2>2, Undisturbed
  <1>9. CASE Halted(j)
    <2>1. SameTurns BY <1>9, Marked DEF Halted
    <2>2. SameHolders BY <1>9, Passes DEF Halted, At, Holding
    <2> QED BY <2>1, <2>2, Undisturbed
  <1> QED BY <1>1, <1>2, <1>3, <1>4, <1>5, <1>6, <1>7, <1>8, <1>9 DEF EndStep

\* relaunch's placing takes no turn.
LEMMA PlacedAgain == ASSUME TurnInv, TypeOK', NEW j \in Jobs, PlaceAgain(j) PROVE TurnInv'
  <1> DEFINE i == job[j].inst
             d == inst[i].device
             b == inst[i].apk
             n == PlacedOn(b)
             kept == There(d) /\ inst[i].hwc # NoDisplay
  <1>1. job[j].pc = "place" /\ job[j] \in JobRec /\ job = [k \in Jobs |-> job[k]]
    BY Zenon DEF PlaceAgain, At, TurnInv, TypeOK
  <1>2. \/ (Done(j) \/ Goto(j, "not_restarted")) /\ UNCHANGED <<dev, next>>
        \/ /\ dev' = [dev EXCEPT ![d].installed[Package(i)] = b, ![d].idle = FALSE]
           /\ job' = [job EXCEPT ![j].pc = "warm_again", ![j].boot = NoDevice]
           /\ UNCHANGED next
        \/ /\ n \in Devices
           /\ dev' = WithBuild(b, n)
           /\ next' = [next EXCEPT !.device = NextDevice(n)]
           /\ job' = [job EXCEPT ![j].pc = IF kept THEN "leave_display" ELSE "warm_again",
                                 ![j].dev = d, ![j].hwc = inst[i].hwc,
                                 ![j].boot = BootOf(n)]
    BY Zenon DEF PlaceAgain
  <1>3. CASE (Done(j) \/ Goto(j, "not_restarted")) /\ UNCHANGED <<dev, next>>
    <2>1. SameTurns BY <1>3, Untouched
    <2>2. SameHolders BY <1>1, <1>3, Passes DEF PCs, Holding
    <2> QED BY <2>1, <2>2, Undisturbed
  <1>4. CASE /\ dev' = [dev EXCEPT ![d].installed[Package(i)] = b, ![d].idle = FALSE]
             /\ job' = [job EXCEPT ![j].pc = "warm_again", ![j].boot = NoDevice]
             /\ UNCHANGED next
    <2>1. SameTurns
      <3>1. \A e \in Devices : dev[e] \in DeviceRec BY DEF TurnInv, TypeOK
      <3>2. \A e \in Devices : dev'[e].busy = dev[e].busy /\ dev'[e].state = dev[e].state
        <4> DEFINE r == [dev[d] EXCEPT !.installed[Package(i)] = b, !.idle = FALSE]
        <4>1. d \in Devices => r.busy = dev[d].busy /\ r.state = dev[d].state
          BY <3>1 DEF DeviceRec
        <4>2. dev' = [dev EXCEPT ![d] = r] BY Zenon, <1>4 DEF TurnInv, TypeOK
        <4> HIDE DEF r
        <4> QED BY <4>1, <4>2 DEF TurnInv, TypeOK
      <3> QED BY Zenon, <1>4, <3>2 DEF TurnInv, MadeBefore, SameTurns
    <2>2. job'[j].pc = "warm_again" /\ \A k \in Jobs \ {j} : job'[k] = job[k]
      BY <1>1, <1>4 DEF JobRec
    <2>3. SameHolders BY <1>1, <2>2 DEF SameHolders, Holding
    <2> QED BY <2>1, <2>3, Undisturbed
  <1>5. CASE /\ n \in Devices
             /\ dev' = WithBuild(b, n)
             /\ next' = [next EXCEPT !.device = NextDevice(n)]
             /\ job' = [job EXCEPT ![j].pc = IF kept THEN "leave_display" ELSE "warm_again",
                                   ![j].dev = d, ![j].hwc = inst[i].hwc,
                                   ![j].boot = BootOf(n)]
    <2>1. n = next.device \/ dev[n].state # "absent"
      BY <1>5, PlacedThere DEF TurnInv, OpenDevices, Open
    <2>2. next'.device = NextDevice(n) BY <1>5 DEF TurnInv, TypeOK
    <2>3. SameTurns BY <1>5, <2>1, <2>2, Built
    <2>4. job'[j].pc \in {"leave_display", "warm_again"} /\ \A k \in Jobs \ {j} : job'[k] = job[k]
      BY Zenon, <1>1, <1>5 DEF JobRec
    <2>5. SameHolders BY <1>1, <2>4 DEF SameHolders, Holding
    <2> QED BY <2>3, <2>5, Undisturbed
  <1> QED BY Zenon, <1>2, <1>3, <1>4, <1>5

\* Nor do a restart's steps.
LEMMA RestartTurns == ASSUME TurnInv, TypeOK', NEW j \in Jobs, RestartStep(j) PROVE TurnInv'
  <1>1. CASE CountOver(j)
    <2>1. SameTurns BY <1>1, Untouched DEF CountOver, pool
    <2>2. SameHolders BY <1>1, Passes DEF CountOver, At, Holding
    <2> QED BY <2>1, <2>2, Undisturbed
  <1>2. CASE Count(j)
    <2>1. SameTurns BY <1>2, Untouched DEF Count, pool
    <2>2. SameHolders BY Zenon, <1>2, Steps DEF Count, At, Holding
    <2> QED BY <2>1, <2>2, Undisturbed
  <1>3. CASE CountCard(j)
    <2>1. SameTurns BY <1>3, Untouched DEF CountCard
    <2>2. SameHolders BY <1>3, Passes DEF CountCard, At, PCs, Holding
    <2> QED BY <2>1, <2>2, Undisturbed
  <1>4. CASE CountEnds(j)
    <2>1. SameTurns BY <1>4, Untouched DEF CountEnds, pool
    <2>2. SameHolders BY <1>4, Passes DEF CountEnds, At, PCs, Holding
    <2> QED BY <2>1, <2>2, Undisturbed
  <1>5. CASE Relaunch(j)
    <2>1. SameTurns BY <1>5, Untouched DEF Relaunch
    <2>2. SameHolders BY <1>5, Passes DEF Relaunch, At, PCs, Holding
    <2> QED BY <2>1, <2>2, Undisturbed
  <1>6. CASE PlaceAgain(j) BY <1>6, PlacedAgain
  <1>7. CASE LeaveDisplay(j)
    <2>1. SameTurns BY <1>7, Untouched DEF LeaveDisplay, pool
    <2>2. SameHolders BY <1>7, Passes DEF LeaveDisplay, At, PCs, Holding
    <2> QED BY <2>1, <2>2, Undisturbed
  <1> QED BY <1>1, <1>2, <1>3, <1>4, <1>5, <1>6, <1>7 DEF RestartStep

\* stop_device takes no turn: it stops a device under whoever has it.
LEMMA Stopped ==
    ASSUME TurnInv, NEW d \in Devices, There(d), NEW by_hand, NEW j \in Jobs, job[j].pc \notin Holding,
           StopSection(d, by_hand, j)
    PROVE  SameTurns /\ SameHolders
  <1>1. SameTurns
    <2>1. \A e \in Devices : dev[e] \in DeviceRec BY DEF TurnInv, TypeOK
    <2>2. \A e \in Devices : /\ dev'[e].busy = dev[e].busy
                             /\ dev'[e].state \in {"closing", dev[e].state}
                             /\ dev'[e].state # dev[e].state => e = d
      BY Zenon, <2>1 DEF StopSection, TurnInv, TypeOK, DeviceRec
    <2> QED BY Zenon, <2>2 DEF StopSection, There, TurnInv, MadeBefore, SameTurns
  <1>2. SameHolders
    <2> DEFINE r(pc) == [Idle EXCEPT !.pc = pc, !.dev = d]
    <2>1. r("cold").pc = "cold" /\ r("stop_guest").pc = "stop_guest" BY DEF Idle
    <2>2. job' = [job EXCEPT ![j] = r("cold")] \/ job' = [job EXCEPT ![j] = r("stop_guest")]
      BY Zenon DEF StopSection
    <2> HIDE DEF r
    <2> QED BY <2>1, <2>2, Passes DEF Holding
  <1> QED BY <1>1, <1>2

\* The threads device_gone spawns begin without a turn.
LEMMA DiedHolds == ASSUME TurnInv, NEW j \in Jobs, Died(j) PROVE SameHolders
  BY DiedSlots DEF SameHolders, Holding

\* The steps of a stop, and of a device's death.
LEMMA StopTurns == ASSUME TurnInv, TypeOK', NEW j \in Jobs, StopStep(j) PROVE TurnInv'
  <1>1. CASE Stop(j)
    <2>1. CASE There(job[j].dev)
      <3>1. SameTurns /\ SameHolders BY <1>1, <2>1, Stopped DEF Stop, At, There, Holding
      <3> QED BY <3>1, Undisturbed
    <2>2. CASE ~There(job[j].dev)
      <3>1. SameTurns BY <1>1, <2>2, Untouched DEF Stop, pool
      <3>2. SameHolders BY <1>1, <2>2, Passes DEF Stop, At, Holding
      <3> QED BY <3>1, <3>2, Undisturbed
    <2> QED BY <2>1, <2>2
  <1>2. CASE KeepCold(j)
    <2>1. SameTurns BY <1>2, Untouched DEF KeepCold
    <2>2. SameHolders BY <1>2, Passes DEF KeepCold, At, PCs, Holding
    <2> QED BY <2>1, <2>2, Undisturbed
  <1>3. CASE StopGuest(j)
    <2>1. SameTurns BY <1>3, Untouched DEF StopGuest, pool
    <2>2. SameHolders BY <1>3, Passes DEF StopGuest, At, PCs, Holding
    <2> QED BY <2>1, <2>2, Undisturbed
  <1>4. CASE StopEnds(j)
    <2>1. SameTurns BY <1>4, Left DEF StopEnds
    <2>2. SameHolders BY <1>4, Passes DEF StopEnds, At, Holding
    <2> QED BY <2>1, <2>2, Undisturbed
  <1>5. CASE Died(j)
    <2>1. SameTurns BY <1>5, Left DEF Died
    <2>2. SameHolders BY <1>5, DiedHolds
    <2> QED BY <2>1, <2>2, Undisturbed
  <1> QED BY <1>1, <1>2, <1>3, <1>4, <1>5 DEF StopStep

\* close's thread has no turn.
LEMMA ClosedHolds ==
    ASSUME TurnInv, NEW i, NEW j \in Jobs, job[j].pc \notin Holding, CloseOn(i, j)
    PROVE  SameHolders
  <1> DEFINE r == [JobOf("remove", i) EXCEPT !.dev = inst[i].device, !.hwc = inst[i].hwc]
  <1>1. r.pc = "remove" /\ EndJob(i).pc = "end" /\ Idle.pc = "free" BY DEF JobOf, EndJob, Idle
  <1>2. \/ job' = [job EXCEPT ![j] = r]
        \/ job' = [job EXCEPT ![j] = Idle]
        \/ job' = [job EXCEPT ![j] = EndJob(i)]
    BY DEF CloseOn
  <1> HIDE DEF r
  <1> QED BY <1>1, <1>2, Passes DEF Holding

\* close takes no turn.
LEMMA ClosedTurns ==
    ASSUME TurnInv, UNCHANGED next, NEW i, NEW j \in Jobs, CloseOn(i, j)
    PROVE  SameTurns
  <1> DEFINE off == [inst EXCEPT ![i].hwc = NoDisplay,
                       ![i].closed = @ \/ (inst[i].hwc # NoDisplay /\ There(inst[i].device))]
  <1>1. dev' = MarkIdle(dev, off) \/ UNCHANGED <<dev, next>> BY DEF CloseOn
  <1> HIDE DEF off
  <1> QED BY <1>1, Marked, Untouched

\* Warming, spare users, cards removed and windows answered.
LEMMA OtherTurns == ASSUME TurnInv, TypeOK', NEW j \in Jobs, OtherStep(j) PROVE TurnInv'
  <1>0. /\ job[j] \in JobRec /\ job = [k \in Jobs |-> job[k]]
        /\ \A e \in Devices : dev[e] \in DeviceRec
    BY DEF TurnInv, TypeOK
  <1>1. CASE Warm(j)
    <2>1. job[j].pc = "warm" BY <1>1 DEF Warm, At
    <2>2. CASE Done(j) /\ UNCHANGED <<dev, next>>
      <3>1. SameTurns BY <2>2, Untouched
      <3>2. SameHolders BY <2>1, <2>2, Passes DEF Holding
      <3> QED BY <3>1, <3>2, Undisturbed
    <2>3. CASE /\ next.device \in Devices
               /\ dev' = [dev EXCEPT ![next.device] = NewDevice]
               /\ next' = [next EXCEPT !.device = next.device + 1]
               /\ job' = [job EXCEPT ![j].pc = "boot", ![j].boot = next.device,
                                     ![j].count = Monus(@, 1)]
      <3>1. SameTurns BY <2>3, NewThere
      <3>2. job'[j].pc = "boot" /\ \A k \in Jobs \ {j} : job'[k] = job[k]
        BY <1>0, <2>3 DEF JobRec
      <3>3. SameHolders BY <2>1, <3>2 DEF SameHolders, Holding
      <3> QED BY <3>1, <3>3, Undisturbed
    <2> QED BY <1>1, <2>2, <2>3 DEF Warm
  <1>2. CASE Spare(j)
    <2>1. SameTurns
      <3>1. dev' = dev \/ dev' = [dev EXCEPT ![job[j].dev].sparing = FALSE] BY <1>2 DEF Spare
      <3>2. \A e \in Devices : dev'[e].busy = dev[e].busy /\ dev'[e].state = dev[e].state
        <4>1. CASE dev' = dev BY <4>1
        <4>2. CASE dev' = [dev EXCEPT ![job[j].dev].sparing = FALSE]
          BY <1>0, <4>2 DEF TurnInv, TypeOK, DeviceRec
        <4> QED BY <3>1, <4>1, <4>2
      <3>3. UNCHANGED next BY <1>2 DEF Spare
      <3> QED BY <3>2, <3>3 DEF TurnInv, MadeBefore, SameTurns
    <2>2. job[j].pc = "spare" BY <1>2 DEF Spare, At
    <2>3. CASE \E u : job' = [job EXCEPT ![j].pc = "offer", ![j].user = u]
      <3>1. job'[j].pc = "offer" /\ \A k \in Jobs \ {j} : job'[k] = job[k]
        BY <1>0, <2>3 DEF JobRec
      <3>2. SameHolders BY <2>2, <3>1 DEF SameHolders, Holding
      <3> QED BY <2>1, <3>2, Undisturbed
    <2>4. CASE Done(j)
      <3>1. SameHolders BY <2>2, <2>4, Passes DEF Holding
      <3> QED BY <2>1, <3>1, Undisturbed
    <2> QED BY <1>2, <2>3, <2>4 DEF Spare
  <1>3. CASE Offer(j)
    <2>1. SameTurns
      <3> DEFINE d == job[j].dev
                 r == [dev[d] EXCEPT !.sparing = FALSE,
                          !.users = IF There(d) THEN @ \cup {job[j].user} ELSE @]
      <3>1. dev' = [dev EXCEPT ![d] = r] BY <1>3 DEF Offer, TurnInv, TypeOK
      <3>2. d \in Devices => r.busy = dev[d].busy /\ r.state = dev[d].state
        BY <1>0 DEF DeviceRec
      <3> HIDE DEF r
      <3>3. \A e \in Devices : dev'[e].busy = dev[e].busy /\ dev'[e].state = dev[e].state
        BY <3>1, <3>2 DEF TurnInv, TypeOK
      <3> QED BY <1>3, <3>3 DEF Offer, TurnInv, MadeBefore, SameTurns
    <2>2. SameHolders BY <1>3, Passes DEF Offer, At, Holding
    <2> QED BY <2>1, <2>2, Undisturbed
  <1>4. CASE Remove(j)
    <2>1. SameTurns BY <1>4, Untouched DEF Remove, pool
    <2>2. SameHolders BY <1>4, Passes DEF Remove, At, Holding
    <2> QED BY <2>1, <2>2, Undisturbed
  <1>5. CASE Ask(j)
    <2>1. SameTurns BY <1>5, Untouched DEF Ask
    <2>2. SameHolders BY <1>5, Passes DEF Ask, At, PCs, Holding
    <2> QED BY <2>1, <2>2, Undisturbed
  <1>6. CASE CloseWindow(j)
    <2>1. SameTurns
      <3>1. UNCHANGED next BY <1>6 DEF CloseWindow
      <3>2. CASE CloseOn(job[j].inst, j) BY <3>1, <3>2, ClosedTurns
      <3>3. CASE UNCHANGED <<dev, inst>> BY <3>1, <3>3, Untouched
      <3> QED BY <1>6, <3>2, <3>3 DEF CloseWindow
    <2>2. job[j].pc = "close" BY <1>6 DEF CloseWindow, At
    <2>3. SameHolders BY <1>6, <2>2, Passes, ClosedHolds DEF CloseWindow, Holding
    <2> QED BY <2>1, <2>3, Undisturbed
  <1>7. CASE OpenWindow(j)
    <2>1. SameTurns BY <1>7, Untouched DEF OpenWindow
    <2>2. SameHolders BY <1>7, Passes DEF OpenWindow, At, Holding
    <2> QED BY <2>1, <2>2, Undisturbed
  <1>8. CASE StopAll(j)
    <2>1. SameTurns BY <1>8, Untouched DEF StopAll, pool
    <2>2. SameHolders BY <1>8, Passes DEF StopAll, At, Holding
    <2> QED BY <2>1, <2>2, Undisturbed
  <1> QED BY <1>1, <1>2, <1>3, <1>4, <1>5, <1>6, <1>7, <1>8 DEF OtherStep

-----------------------------------------------------------------------------
(* The ticker, the person, the environment *)

\* The ticker's steps.
LEMMA TickerTurns == ASSUME TurnInv, TypeOK', Ticker PROVE TurnInv'
  <1>0. \A d \in Devices : dev[d] \in DeviceRec BY DEF TurnInv, TypeOK
  <1>1. ASSUME NEW d \in Devices, TickReady(d) PROVE TurnInv'
    <2>1. SameTurns
      <3> DEFINE r == [dev[d] EXCEPT !.state = "ready", !.idle = TRUE]
      <3>1. dev' = [dev EXCEPT ![d] = r] BY <1>1 DEF TickReady, TurnInv, TypeOK
      <3>2. r.busy = dev[d].busy /\ r.state = "ready" BY <1>0 DEF DeviceRec
      <3> HIDE DEF r
      <3>3. \A e \in Devices : /\ dev'[e].busy = dev[e].busy
                               /\ dev'[e].state # dev[e].state => e = d /\ dev'[e].state = "ready"
        BY <3>1, <3>2 DEF TurnInv, TypeOK
      <3> QED BY <1>1, <3>3 DEF TickReady, TurnInv, MadeBefore, SameTurns
    <2>2. SameHolders BY <1>1 DEF TickReady, SameHolders
    <2> QED BY <2>1, <2>2, Undisturbed
  <1>2. ASSUME NEW d \in Devices, TickGone(d) PROVE TurnInv'
    <2>1. SameTurns BY <1>2, Untouched DEF TickGone, pool
    <2>2. [Idle EXCEPT !.pc = "died", !.dev = d].pc = "died" BY DEF Idle
    <2>3. SameHolders BY <1>2, <2>2, JobAdded DEF TickGone, Holding
    <2> QED BY <2>1, <2>3, Undisturbed
  <1>3. ASSUME NEW d \in Devices, TickClose(d) PROVE TurnInv'
    <2>1. SameTurns BY <1>3, Untouched DEF TickClose, pool
    <2>2. [Idle EXCEPT !.pc = "stop", !.dev = d].pc = "stop" BY DEF Idle
    <2>3. SameHolders BY <1>3, <2>2, JobAdded DEF TickClose, Holding
    <2> QED BY <2>1, <2>3, Undisturbed
  <1>4. ASSUME NEW d \in Devices, TickSpare(d) PROVE TurnInv'
    <2>1. SameTurns
      <3>1. \A e \in Devices : dev'[e].busy = dev[e].busy /\ dev'[e].state = dev[e].state
        BY <1>0, <1>4 DEF TickSpare, TurnInv, TypeOK, DeviceRec
      <3> QED BY <1>4, <3>1 DEF TickSpare, TurnInv, MadeBefore, SameTurns
    <2>2. [Idle EXCEPT !.pc = "spare", !.dev = d].pc = "spare" BY DEF Idle
    <2>3. SameHolders BY <1>4, <2>2, JobAdded DEF TickSpare, Holding
    <2> QED BY <2>1, <2>3, Undisturbed
  <1>5. ASSUME NEW i \in Instances, TickWindow(i) PROVE TurnInv'
    <2>1. SameTurns BY <1>5, Untouched DEF TickWindow
    <2> DEFINE r == [JobOf("remove", i) EXCEPT !.dev = inst[i].device, !.hwc = inst[i].hwc]
               s == JobOf(IF Asks THEN "ask" ELSE "close", i)
    <2>2. r.pc = "remove" /\ s.pc \in {"ask", "close"} BY DEF JobOf, Idle
    <2>3. HasJob /\ (job' = [job EXCEPT ![NewJob] = r] \/ job' = [job EXCEPT ![NewJob] = s])
      BY <1>5 DEF TickWindow
    <2> HIDE DEF r, s
    <2>4. SameHolders BY <2>2, <2>3, JobAdded DEF Holding
    <2> QED BY <2>1, <2>4, Undisturbed
  <1>6. ASSUME NEW i \in Instances, TickEnded(i) PROVE TurnInv'
    <2>1. SameTurns BY <1>6, Untouched DEF TickEnded
    <2>2. JobOf("own_read", i).pc = "own_read" BY DEF JobOf, Idle
    <2>3. SameHolders BY <1>6, <2>2, JobAdded DEF TickEnded, Holding
    <2> QED BY <2>1, <2>3, Undisturbed
  <1>7. ASSUME TickIdle PROVE TurnInv'
    <2>1. SameTurns BY <1>7, Marked DEF TickIdle
    <2>2. SameHolders BY <1>7 DEF TickIdle, SameHolders
    <2> QED BY <2>1, <2>2, Undisturbed
  <1>8. ASSUME TickWarm PROVE TurnInv'
    <2>1. SameTurns BY <1>8, Untouched DEF TickWarm, pool
    <2>2. \A n : [Idle EXCEPT !.pc = "warm", !.flag = TRUE, !.count = n].pc = "warm" BY DEF Idle
    <2>3. SameHolders BY <1>8, <2>2, JobAdded DEF TickWarm, Holding
    <2> QED BY <2>1, <2>3, Undisturbed
  <1> QED BY <1>1, <1>2, <1>3, <1>4, <1>5, <1>6, <1>7, <1>8 DEF Ticker

\* restart's threads, of its countdown and its stop, begin without a turn.
LEMMA RestartHolds == ASSUME TurnInv, NEW i \in Instances, Restart(i) PROVE SameHolders
  <1>1. TypeOK BY DEF TurnInv
  <1> QED BY <1>1, RestartSlots DEF SameHolders, Holding

\* clear_ended's remove_cards has no turn.
LEMMA ClearHolds == ASSUME TurnInv, Clear PROVE SameHolders
  BY ClearSlots DEF SameHolders, Holding

\* What is asked of the pool.
LEMMA PersonTurns == ASSUME TurnInv, TypeOK', Person PROVE TurnInv'
  <1>1. ASSUME NEW b \in Builds, Launch(b) PROVE TurnInv'
    <2> DEFINE d == PlacedOn(b)
               r == [JobOf("warm_again", next.instance) EXCEPT !.boot = BootOf(d)]
    <2>1. d \in Devices /\ dev' = WithBuild(b, d) /\ next'.device = NextDevice(d)
      BY <1>1 DEF Launch
    <2>2. d = next.device \/ dev[d].state # "absent"
      BY <2>1, PlacedThere DEF TurnInv, OpenDevices, Open
    <2> HIDE DEF d
    <2>3. SameTurns BY <2>1, <2>2, Built
    <2>4. r.pc = "warm_again" BY DEF JobOf, Idle
    <2>5. HasJob /\ job' = [job EXCEPT ![NewJob] = r] BY <1>1 DEF Launch, d
    <2> HIDE DEF r
    <2>6. SameHolders BY <2>4, <2>5, JobAdded DEF Holding
    <2> QED BY <2>3, <2>6, Undisturbed
  <1>2. ASSUME NEW i \in Instances, Close(i) PROVE TurnInv'
    <2>1. SameTurns BY <1>2, FreshJob, ClosedTurns DEF Close
    <2>2. NewJob \in Jobs /\ job[NewJob].pc \notin Holding BY <1>2, FreshJob DEF Close, Holding
    <2>3. SameHolders BY <1>2, <2>2, ClosedHolds DEF Close
    <2> QED BY <2>1, <2>3, Undisturbed
  <1>3. ASSUME NEW i \in Instances, Restart(i) PROVE TurnInv'
    <2>1. SameTurns BY <1>3, Untouched DEF Restart
    <2>2. SameHolders BY <1>3, RestartHolds
    <2> QED BY <2>1, <2>2, Undisturbed
  <1>4. ASSUME NEW i \in Instances, ShowWindow(i) PROVE TurnInv'
    <2>1. SameTurns BY <1>4, Untouched DEF ShowWindow, pool
    <2>2. \A d, h : [JobOf("open", i) EXCEPT !.dev = d, !.hwc = h].pc = "open" BY DEF JobOf, Idle
    <2>3. SameHolders BY <1>4, <2>2, JobAdded DEF ShowWindow, Holding
    <2> QED BY <2>1, <2>3, Undisturbed
  <1>5. ASSUME NEW d \in Devices, Kill(d) PROVE TurnInv'
    <2>1. NewJob \in Jobs /\ job[NewJob].pc \notin Holding BY <1>5, FreshJob DEF Kill, Holding
    <2>2. SameTurns /\ SameHolders BY <1>5, <2>1, Stopped DEF Kill
    <2> QED BY <2>2, Undisturbed
  <1>6. ASSUME NEW d \in Devices, NEW h \in Displays, PersonCloses(d, h) PROVE TurnInv'
    <2>1. SameTurns BY <1>6, Untouched DEF PersonCloses, pool
    <2>2. SameHolders BY <1>6 DEF PersonCloses, SameHolders
    <2> QED BY <2>1, <2>2, Undisturbed
  <1>7. ASSUME AskWarm PROVE TurnInv'
    <2>1. SameTurns BY <1>7, Untouched DEF AskWarm, pool
    <2>2. [JobOf("warm_again", NoInstance) EXCEPT !.count = 1].pc = "warm_again" BY DEF JobOf, Idle
    <2>3. SameHolders BY Zenon, <1>7, <2>2, JobAdded DEF AskWarm, Holding
    <2> QED BY <2>1, <2>3, Undisturbed
  <1>8. ASSUME Clear PROVE TurnInv'
    <2>1. SameTurns BY Zenon, <1>8, Untouched DEF Clear
    <2>2. SameHolders BY <1>8, ClearHolds
    <2> QED BY <2>1, <2>2, Undisturbed
  <1>9. ASSUME Quit PROVE TurnInv'
    <2>1. SameTurns BY <1>9, Untouched DEF Quit
    <2>2. JobOf("stop_all", NoInstance).pc = "stop_all" BY DEF JobOf, Idle
    <2>3. CASE UNCHANGED job
      <3>1. SameHolders BY <2>3 DEF SameHolders
      <3> QED BY <2>1, <3>1, Undisturbed
    <2>4. CASE HasJob /\ job' = [job EXCEPT ![NewJob] = JobOf("stop_all", NoInstance)]
      <3>1. SameHolders BY <2>2, <2>4, JobAdded DEF Holding
      <3> QED BY <2>1, <3>1, Undisturbed
    <2> QED BY <1>9, <2>3, <2>4 DEF Quit
  <1> QED BY <1>1, <1>2, <1>3, <1>4, <1>5, <1>6, <1>7, <1>8, <1>9 DEF Person

\* The environment writes none of the pool's records.
LEMMA EnvironmentTurns == ASSUME TurnInv, TypeOK', Environment PROVE TurnInv'
  <1>1. UNCHANGED <<dev, next, job>> BY DEF Environment, Crash, Death, pool
  <1>2. SameTurns BY <1>1, Untouched
  <1>3. SameHolders BY <1>1 DEF SameHolders
  <1> QED BY <1>2, <1>3, Undisturbed

-----------------------------------------------------------------------------
(* The theorem *)

\* The pool opens with nobody at a turn.
LEMMA InitTurns == Init => TurnInv
  <1> SUFFICES ASSUME Init PROVE TurnInv OBVIOUS
  <1>1. TypeOK BY InitType
  <1>2. \A d \in Devices : dev[d].busy = NoJob /\ (dev[d].state # "absent" => d <= Adopted)
    BY DEF Init, NewDevice, AbsentDevice
  <1>3. MadeBefore
    <2>1. next.device = Adopted + 1 BY DEF Init
    <2> QED BY <1>2, <2>1, ConstantsOK DEF MadeBefore, Devices
  <1>4. \A j \in Jobs : job[j].pc \notin Holding \cup {"turn"} BY DEF Init, Idle, Holding
  <1> QED BY <1>1, <1>2, <1>3, <1>4 DEF TurnInv, TurnThere, TurnKept

\* Every step keeps the invariant.
LEMMA StepTurns == TurnInv /\ [Next]_vars => TurnInv'
  <1> SUFFICES ASSUME TurnInv, [Next]_vars PROVE TurnInv' OBVIOUS
  <1>1. TypeOK' BY StepType DEF TurnInv
  <1>2. ASSUME NEW j \in Jobs, Thread(j) PROVE TurnInv'
    BY <1>1, <1>2, LaunchTurns, EndTurns, RestartTurns, StopTurns, OtherTurns DEF Thread
  <1>3. ASSUME UNCHANGED vars PROVE TurnInv'
    <2>1. SameTurns BY <1>3, Untouched DEF vars, pool
    <2>2. SameHolders BY <1>3 DEF vars, SameHolders
    <2> QED BY <1>1, <2>1, <2>2, Undisturbed
  <1> QED BY <1>1, <1>2, <1>3, TickerTurns, PersonTurns, EnvironmentTurns DEF Next

\* A device's turn (DeviceRec::busy) is held by one install-and-start at a time,
\* which works on that device, and none is lost: each thread that has one gives it
\* back whichever way its launch goes on -- failed, called off, running --, a device
\* that dies or is stopped under it included.
THEOREM TurnsKept == Spec => []TurnKept
  <1>1. TurnInv => TurnKept BY DEF TurnInv
  <1> QED BY <1>1, InitTurns, StepTurns, PTL DEF Spec

-----------------------------------------------------------------------------
(* The countdowns and the questions: what each step makes of a record *)

\* The steps of a thread that something waits for: an instance counting down, or asked about.
Watching == {"count", "count_card", "relaunch", "ask"}

\* An instance counting down has its countdown's thread, which relaunches it only once
\* no stop of its user is under way.
Followed(i) ==
    inst[i].state = "restarting" /\ ~stopping =>
        LET j == inst[i].countdown
        IN  /\ ~inst[i].closed /\ j \in Jobs /\ job[j].inst = i
            /\ \/ job[j].pc \in {"count", "count_card"}
               \/ job[j].pc = "relaunch" /\ inst[i].halting = 0

\* An instance asked about has the thread that asks.
Asked(i) ==
    inst[i].asking => Exists(i) /\ \E j \in Jobs : At(j, "ask") /\ job[j].inst = i

\* The inductive invariant.
WatchInv == TypeOK /\ \A i \in Instances : Followed(i) /\ Asked(i)

\* What a step makes of an instance: if it counts down, either it did before, by the
\* same countdown, with no stop of its user begun, or its countdown begins now;
RecordGoes(i) ==
    /\ inst'[i].state = "restarting" /\ ~stopping =>
          \/ /\ inst[i].state = "restarting" /\ inst'[i].countdown = inst[i].countdown
             /\ inst'[i].closed = inst[i].closed
             /\ inst[i].halting = 0 => inst'[i].halting = 0
          \/ LET k == inst'[i].countdown
             IN  ~inst'[i].closed /\ k \in Jobs /\ job'[k].pc = "count" /\ job'[k].inst = i
    /\ inst'[i].asking =>
          /\ inst[i].asking \/ \E k \in Jobs : job'[k].pc = "ask" /\ job'[k].inst = i
          /\ inst'[i].state # "absent" \/ (inst[i].asking /\ inst[i].state = "absent")
RecordsGo == \A i \in Instances : RecordGoes(i)

\* of a thread that is watched for, nothing.
WatchersStay == \A k \in Jobs : job[k].pc \in Watching => job'[k] = job[k]

\* Only the watchers' own steps are left to look at.
LEMMA Watched ==
    ASSUME WatchInv, TypeOK', RecordsGo, WatchersStay, stopping => stopping'
    PROVE  WatchInv'
  <1>1. ASSUME NEW i \in Instances PROVE Followed(i)'
    <2>1. SUFFICES ASSUME inst'[i].state = "restarting", ~stopping
          PROVE  LET j == inst'[i].countdown
                 IN  /\ ~inst'[i].closed /\ j \in Jobs /\ job'[j].inst = i
                     /\ \/ job'[j].pc \in {"count", "count_card"}
                        \/ job'[j].pc = "relaunch" /\ inst'[i].halting = 0
      BY DEF Followed
    <2>2. Followed(i) BY DEF WatchInv
    <2> QED BY <2>1, <2>2 DEF Followed, RecordsGo, RecordGoes, WatchersStay, Watching
  <1>2. ASSUME NEW i \in Instances PROVE Asked(i)'
    BY DEF WatchInv, Asked, At, Exists, RecordsGo, RecordGoes, WatchersStay, Watching
  <1> QED BY <1>1, <1>2 DEF WatchInv

\* A step that writes no record.
LEMMA SameRecords == ASSUME UNCHANGED inst PROVE RecordsGo
  BY DEF RecordsGo, RecordGoes

\* One that writes a record other than in what is watched.
LEMMA RecordSet ==
    ASSUME TypeOK, NEW i \in Instances, NEW r, inst' = [inst EXCEPT ![i] = r],
           r.state # "restarting" \/ (/\ r.state = inst[i].state /\ r.countdown = inst[i].countdown
                                      /\ r.closed = inst[i].closed
                                      /\ inst[i].halting = 0 => r.halting = 0),
           r.asking => inst[i].asking /\ (r.state # "absent" \/ inst[i].state = "absent")
    PROVE  RecordsGo
  BY DEF TypeOK, RecordsGo, RecordGoes

\* A thread that is not watched for, at a step of its own.
LEMMA OtherThread ==
    ASSUME NEW j \in Jobs, job[j].pc \notin Watching, \A k \in Jobs \ {j} : job'[k] = job[k]
    PROVE  WatchersStay
  BY DEF WatchersStay

\* Threads begun in free slots.
LEMMA NewThreads ==
    ASSUME \A k \in Jobs : job'[k] # job[k] => job[k].pc = "free"
    PROVE  WatchersStay
  BY DEF WatchersStay, Watching

\* A thread that is not watched for leaves those that are, but where it begins countdowns.
LEMMA ThreadsStay ==
    ASSUME TypeOK, NEW j \in Jobs, Thread(j), job[j].pc \notin Watching \cup {"own_end", "died"}
    PROVE  WatchersStay
  <1>1. ~OwnEnd(j) /\ ~Died(j) BY Zenon DEF OwnEnd, Died, At
  <1> QED BY <1>1, OwnSlot, OtherThread

\* Steps that write no record.
Recordless(j) ==
    \/ WarmAgain(j) \/ Uncold(j) \/ Boot(j) \/ Wait(j) \/ Turn(j) \/ Install(j) \/ Pick(j)
    \/ Display(j) \/ Start(j) \/ Failed(j) \/ End(j) \/ OwnRead(j) \/ OwnRemove(j) \/ Halt(j)
    \/ CountOver(j) \/ Count(j) \/ CountEnds(j) \/ LeaveDisplay(j)
    \/ KeepCold(j) \/ StopGuest(j) \/ Warm(j) \/ Spare(j) \/ Offer(j) \/ Remove(j) \/ StopAll(j)
LEMMA NoRecord == ASSUME NEW j \in Jobs, Recordless(j) PROVE UNCHANGED inst /\ RecordsGo
  <1>1. UNCHANGED inst
    BY Zenon DEF Recordless, WarmAgain, Uncold, Boot, Wait, Turn, Install, Pick, Display, Start, Failed,
       End, OwnRead, OwnRemove, Halt, CountOver, Count, CountEnds, LeaveDisplay, KeepCold,
       StopGuest, Warm, Spare, Offer, Remove, StopAll, pool
  <1> QED BY <1>1, SameRecords

\* Steps that write their own instance's record, not in what is watched.
LEMMA RecordWritten ==
    ASSUME TypeOK, NEW j \in Jobs, NEW i \in Instances, i = job[j].inst,
           \A k \in Instances \ {i} : inst'[k] = inst[k], RecordGoes(i)
    PROVE  RecordsGo
  BY DEF RecordsGo, RecordGoes

\* Steps that write the record of the thread's own instance.
Recording(j) ==
    \/ Set(j) \/ Record(j) \/ Keep(j) \/ Started(j) \/ StartFailed(j) \/ NotRestarted(j)
    \/ Undo(j) \/ Ended(j) \/ OpenWindow(j) \/ OwnCard(j) \/ CountCard(j)

\* They write nothing that is watched, but to end what was watched for.
LEMMA OwnRecord ==
    ASSUME TypeOK, NEW j \in Jobs, Recording(j)
    PROVE  RecordsGo /\ \A k \in Instances \ {job[j].inst} : inst'[k] = inst[k]
  <1> DEFINE i == job[j].inst
  <1>1. /\ i \in Instances /\ inst = [k \in Instances |-> inst[k]]
        /\ \A k \in Instances : inst[k] \in InstanceRec
    BY Zenon DEF TypeOK, JobRec, PoolPCs, At, Recording, Set, Record, Keep, Started, StartFailed,
           NotRestarted, Undo, Ended, OpenWindow, OwnCard, CountCard
  <1> SUFFICES RecordGoes(i) /\ \A k \in Instances \ {i} : inst'[k] = inst[k]
    BY <1>1, RecordWritten
  <1>2. CASE Set(j)
    <2>1. \A k \in Instances \ {i} : inst'[k] = inst[k] BY <1>1, <1>2 DEF Set
    <2>2. RecordGoes(i) BY <1>1, <1>2 DEF Set, RecordGoes, InstanceRec
    <2> QED BY <2>1, <2>2
  <1>3. CASE Record(j)
    <2>1. \A k \in Instances \ {i} : inst'[k] = inst[k] BY <1>1, <1>3 DEF Record
    <2>2. \/ inst'[i] = inst[i]
          \/ inst'[i].state = "starting" /\ inst'[i].asking = inst[i].asking
      BY <1>1, <1>3 DEF Record, InstanceRec
    <2>3. RecordGoes(i) BY <2>2 DEF RecordGoes
    <2> QED BY <2>1, <2>3
  <1>4. CASE Keep(j)
    <2>1. \A k \in Instances \ {i} : inst'[k] = inst[k]
      BY <1>1, <1>4 DEF Keep, RecordDisplay, Exists
    <2>2. RecordGoes(i) BY Zenon, <1>1, <1>4 DEF Keep, RecordDisplay, Exists, RecordGoes, InstanceRec
    <2> QED BY <2>1, <2>2
  <1>5. CASE Started(j)
    <2>1. \A k \in Instances \ {i} : inst'[k] = inst[k] BY <1>1, <1>5 DEF Started
    <2>2. RecordGoes(i) BY <1>1, <1>5 DEF Started, RecordGoes, InstanceRec
    <2> QED BY <2>1, <2>2
  <1>6. CASE StartFailed(j)
    <2>1. \A k \in Instances \ {i} : inst'[k] = inst[k] BY <1>1, <1>6 DEF StartFailed
    <2>2. RecordGoes(i) BY <1>1, <1>6 DEF StartFailed, RecordGoes, InstanceRec
    <2> QED BY <2>1, <2>2
  <1>7. CASE NotRestarted(j)
    <2>1. \A k \in Instances \ {i} : inst'[k] = inst[k] BY <1>1, <1>7 DEF NotRestarted
    <2>2. inst'[i] = inst[i] \/ (inst'[i].state = "ended" /\ inst'[i].asking = inst[i].asking)
      BY <1>1, <1>7 DEF NotRestarted, InstanceRec
    <2>3. RecordGoes(i) BY <2>2 DEF RecordGoes
    <2> QED BY <2>1, <2>3
  <1>8. CASE Undo(j)
    <2>1. \A k \in Instances \ {i} : inst'[k] = inst[k] BY <1>1, <1>8 DEF Undo, TakeDisplay
    <2>2. RecordGoes(i) BY Zenon, <1>1, <1>8 DEF Undo, TakeDisplay, RecordGoes, InstanceRec
    <2> QED BY <2>1, <2>2
  <1>9. CASE Ended(j)
    <2>1. \A k \in Instances \ {i} : inst'[k] = inst[k] BY <1>1, <1>9 DEF Ended, Exists
    <2>2. RecordGoes(i) BY Zenon, <1>1, <1>9 DEF Ended, Exists, RecordGoes, InstanceRec
    <2> QED BY <2>1, <2>2
  <1>10. CASE OpenWindow(j)
    <2>1. \A k \in Instances \ {i} : inst'[k] = inst[k] BY <1>1, <1>10 DEF OpenWindow, Exists
    <2>2. RecordGoes(i) BY Zenon, <1>1, <1>10 DEF OpenWindow, Exists, RecordGoes, InstanceRec
    <2> QED BY <2>1, <2>2
  <1>11. CASE OwnCard(j)
    <2>1. \A k \in Instances \ {i} : inst'[k] = inst[k] BY <1>1, <1>11 DEF OwnCard, ShowCard
    <2>2. RecordGoes(i) BY <1>1, <1>11 DEF OwnCard, ShowCard, RecordGoes, InstanceRec
    <2> QED BY <2>1, <2>2
  <1>12. CASE CountCard(j)
    <2>1. \A k \in Instances \ {i} : inst'[k] = inst[k] BY <1>1, <1>12 DEF CountCard, ShowCard
    <2>2. RecordGoes(i) BY <1>1, <1>12 DEF CountCard, ShowCard, RecordGoes, InstanceRec
    <2> QED BY <2>1, <2>2
  <1> QED BY <1>2, <1>3, <1>4, <1>5, <1>6, <1>7, <1>8, <1>9, <1>10, <1>11, <1>12 DEF Recording

\* An instance placed again waits there.
LEMMA PlaceGoes == ASSUME TypeOK, NEW j \in Jobs, PlaceAgain(j) PROVE RecordsGo
  <1> DEFINE i == job[j].inst
  <1>1. i \in Instances BY Zenon DEF TypeOK, PlaceAgain, At, JobRec, PoolPCs
  <1>2. UNCHANGED inst \/ (inst[i].state = "waiting" /\ \E n : inst' = Moved(i, n))
    BY Zenon DEF PlaceAgain
  <1>3. ASSUME inst[i].state = "waiting", NEW n, inst' = Moved(i, n) PROVE RecordsGo
    <2>1. inst = [k \in Instances |-> inst[k]] /\ inst[i] \in InstanceRec BY <1>1 DEF TypeOK
    <2>2. \A k \in Instances \ {i} : inst'[k] = inst[k] BY <1>3, <2>1 DEF Moved
    <2>3. inst'[i].state = "waiting" /\ inst'[i].asking = inst[i].asking
      BY <1>1, <1>3, <2>1 DEF Moved, InstanceRec
    <2> QED BY <1>1, <2>2, <2>3 DEF RecordsGo, RecordGoes
  <1> QED BY <1>2, <1>3, SameRecords

\* An instance closed counts down no more.
LEMMA ClosingGoes ==
    ASSUME TypeOK, NEW i \in Instances, NEW j, CloseOn(i, j)
    PROVE  RecordsGo
  <1>1. inst = [k \in Instances |-> inst[k]] /\ inst[i] \in InstanceRec BY DEF TypeOK
  <1>2. \A k \in Instances \ {i} : inst'[k] = inst[k] BY <1>1 DEF CloseOn
  <1>3. inst'[i].state \in {"ended", "closing"} /\ inst'[i].asking = inst[i].asking
    <2>1. CASE inst[i].state = "ended"
      <3>1. inst'[i].state = "ended" /\ inst'[i].asking = inst[i].asking
        BY <1>1, <2>1 DEF CloseOn, InstanceRec
      <3> QED BY <3>1
    <2>2. CASE inst[i].state # "ended" BY <1>1, <2>2 DEF CloseOn, InstanceRec
    <2> QED BY <2>1, <2>2
  <1> QED BY <1>2, <1>3 DEF RecordsGo, RecordGoes

\* Nor one whose window a person closed.
LEMMA WindowGoes == ASSUME TypeOK, NEW j \in Jobs, CloseWindow(j) PROVE RecordsGo
  <1>1. job[j].inst \in Instances BY DEF TypeOK, CloseWindow, At, JobRec, PoolPCs
  <1> QED BY <1>1, ClosingGoes, SameRecords DEF CloseWindow

\* The instances of a device that never started, or was stopped, end or stay.
LEMMA AllEndGoes == ASSUME TypeOK, NEW d, inst' = AllEnd(d) PROVE RecordsGo
  <1>1. inst = [k \in Instances |-> inst[k]] /\ \A k \in Instances : inst[k] \in InstanceRec
    BY DEF TypeOK
  <1>2. ASSUME NEW i \in Instances
      PROVE inst'[i] = inst[i] \/ (inst'[i].state = "ended" /\ inst'[i].asking = inst[i].asking)
    BY Zenon, <1>1 DEF AllEnd, AfterGone, InstanceRec
  <1> QED BY <1>2 DEF RecordsGo, RecordGoes

\* So do those of one being stopped.
LEMMA StopGoes == ASSUME TypeOK, NEW d, NEW by_hand, NEW j, StopSection(d, by_hand, j)
    PROVE RecordsGo
  <1>1. inst = [k \in Instances |-> inst[k]] /\ \A k \in Instances : inst[k] \in InstanceRec
    BY DEF TypeOK
  <1>2. ASSUME NEW i \in Instances
      PROVE inst'[i] = inst[i] \/ (inst'[i].state = "ended" /\ inst'[i].asking = inst[i].asking)
    BY Zenon, <1>1 DEF StopSection, InstanceRec
  <1> QED BY <1>2 DEF RecordsGo, RecordGoes

\* A countdown begun: its thread is there.
LEMMA Begins ==
    ASSUME TypeOK, NEW i \in Instances, NEW r, inst' = [inst EXCEPT ![i] = r],
           r.state = "restarting", ~r.closed, r.countdown \in Jobs, r.asking => inst[i].asking,
           job'[r.countdown].pc = "count", job'[r.countdown].inst = i
    PROVE  RecordsGo
  BY DEF TypeOK, RecordsGo, RecordGoes

\* ended_on_its_own: ended, or counting down with a thread begun for it.
LEMMA OwnEndGoes == ASSUME TypeOK, NEW j \in Jobs, OwnEnd(j) PROVE RecordsGo /\ WatchersStay
  <1> DEFINE i == job[j].inst
             halt == Alive(job[j].dev) /\ job[j].user # NoUser
             rec == Counted(inst[i], halt)
             Then(pc, h) == [job EXCEPT ![j].pc = pc, ![j].hwc = h, ![j].flag = halt]
             after == IF halt THEN "halt" ELSE "halted"
             Ends(r) == /\ inst' = [inst EXCEPT ![i] = r]
                        /\ r.state = "ended" /\ r.asking = inst[i].asking
                        /\ \E pc, h : job' = Then(pc, h)
             Restarts(r) ==
                /\ HasJob /\ r.countdown = NewJob /\ ~r.closed /\ r.asking = inst[i].asking
                /\ r.state = "restarting"
                /\ inst' = [inst EXCEPT ![i] = r]
                /\ job' = [Then(after, NoDisplay) EXCEPT ![NewJob] = JobOf("count", i)]
  <1>1. /\ job[j].pc = "own_end" /\ job[j] \in JobRec /\ job = [k \in Jobs |-> job[k]]
        /\ i \in Instances /\ inst[i] \in InstanceRec
    BY Zenon DEF OwnEnd, At, TypeOK, JobRec, PoolPCs
  <1>2. halt \in BOOLEAN BY DEF Alive
  <1>3. rec \in InstanceRec /\ rec.closed = inst[i].closed /\ rec.asking = inst[i].asking
    BY <1>1, <1>2, EndCounted DEF Counted, InstanceRec
  <1> HIDE DEF halt, rec, after
  <1>4. ASSUME NEW quick \in BOOLEAN
        PROVE  LET r == CountEnd(rec, quick)
               IN r \in InstanceRec /\ r.closed = rec.closed /\ r.asking = rec.asking
    BY <1>3, EndCounted DEF CountEnd, InstanceRec
  <1>5. ASSUME NEW r \in InstanceRec, r.closed = inst[i].closed, r.asking = inst[i].asking
        PROVE  /\ LET e == [r EXCEPT !.state = "ended"]
                  IN  e.state = "ended" /\ e.asking = inst[i].asking
               /\ LET e == [[r EXCEPT !.state = "ended"] EXCEPT !.hwc = NoDisplay]
                  IN  e.state = "ended" /\ e.asking = inst[i].asking
               /\ LET e == [r EXCEPT !.state = "restarting", !.countdown = NewJob]
                  IN  /\ e.countdown = NewJob /\ e.closed = inst[i].closed
                      /\ e.asking = inst[i].asking /\ e.state = "restarting"
    BY <1>5 DEF InstanceRec
  <1>6. CASE Goto(j, "halted") /\ UNCHANGED inst
    BY <1>1, <1>6, SameRecords, OtherThread DEF Goto, Watching
  <1>7. ASSUME NEW r, Ends(r) PROVE RecordsGo /\ WatchersStay
    <2>1. \A k \in Jobs \ {j} : job'[k] = job[k] BY <1>1, <1>7
    <2> QED BY <1>1, <1>7, <2>1, RecordSet, OtherThread DEF Watching
  <1>8. ASSUME NEW r, Restarts(r) PROVE RecordsGo /\ WatchersStay
    <2> DEFINE n == NewJob
    <2>1. n \in Jobs /\ job[n].pc = "free" BY <1>8, FreshJob
    <2> HIDE DEF n
    <2>2. job'[n] = JobOf("count", i) /\ \A k \in Jobs \ {j, n} : job'[k] = job[k]
      BY <1>1, <1>8, <2>1 DEF n
    <2>3. job'[n].pc = "count" /\ job'[n].inst = i BY <2>2 DEF JobOf, Idle
    <2>4. WatchersStay BY <1>1, <2>1, <2>2 DEF WatchersStay, Watching
    <2> QED BY <1>1, <1>8, <2>1, <2>3, <2>4, Begins DEF n
  <1>9. \/ Goto(j, "halted") /\ UNCHANGED inst
        \/ (\E r : Ends(r)) \/ (~inst[i].closed /\ \E r : Restarts(r))
    <2>1. CASE ~Live(i) \/ inst[i].closed BY Zenon, <2>1 DEF OwnEnd
    <2>2. CASE ~(~Live(i) \/ inst[i].closed)
      <3> DEFINE Taken(r) ==
                    /\ inst' = [inst EXCEPT
                          ![i] = [[r EXCEPT !.state = "ended"] EXCEPT !.hwc = NoDisplay]]
                    /\ \E h : job' = Then("own_remove", h)
                 Card(r) ==
                    /\ inst' = [inst EXCEPT ![i] = [r EXCEPT !.state = "ended"]]
                    /\ \E h : job' = Then("own_card", h)
                 Anew(r) ==
                    /\ HasJob
                    /\ inst' = [inst EXCEPT
                          ![i] = [r EXCEPT !.state = "restarting", !.countdown = NewJob]]
                    /\ job' = [Then(after, NoDisplay) EXCEPT ![NewJob] = JobOf("count", i)]
      <3>1. \/ Taken(rec)
            \/ \E quick \in BOOLEAN :
                 LET r == CountEnd(rec, quick) IN Anew(r) \/ Taken(r) \/ Card(r)
        BY <2>2, Zenon DEF OwnEnd, halt, rec, after
      <3>2. ASSUME NEW r \in InstanceRec, r.closed = inst[i].closed, r.asking = inst[i].asking
            PROVE  /\ Taken(r) => \E q : Ends(q)
                   /\ Card(r) => \E q : Ends(q)
                   /\ Anew(r) => \E q : Restarts(q)
        <4>1. Taken(r) => Ends([[r EXCEPT !.state = "ended"] EXCEPT !.hwc = NoDisplay])
          BY Zenon, <1>5, <3>2
        <4>2. Card(r) => Ends([r EXCEPT !.state = "ended"]) BY Zenon, <1>5, <3>2
        <4>3. Anew(r) => Restarts([r EXCEPT !.state = "restarting", !.countdown = NewJob])
          BY <1>5, <2>2, <3>2
        <4> HIDE DEF Taken, Card, Anew, Ends, Restarts
        <4> QED BY <4>1, <4>2, <4>3
      <3>3. CASE Taken(rec) BY Zenon, <1>3, <3>2, <3>3
      <3>4. ASSUME NEW quick \in BOOLEAN,
                   LET r == CountEnd(rec, quick) IN Anew(r) \/ Taken(r) \/ Card(r)
            PROVE  (\E r : Ends(r)) \/ (\E r : Restarts(r))
        <4> DEFINE r == CountEnd(rec, quick)
        <4>1. r \in InstanceRec /\ r.closed = inst[i].closed /\ r.asking = inst[i].asking
          BY <1>3, <1>4
        <4> HIDE DEF r, Anew, Taken, Card, Ends, Restarts
        <4> QED BY <3>2, <3>4, <4>1 DEF r
      <3> HIDE DEF Anew, Taken, Card, Ends, Restarts
      <3> QED BY <2>2, <3>1, <3>3, <3>4
    <2> QED BY Zenon, <2>1, <2>2
  <1> QED BY Zenon, <1>6, <1>7, <1>8, <1>9

\* device_gone, of a device that died: as of one stopped, or a countdown begun for each
\* that starts again.
LEMMA DiedGoes == ASSUME TypeOK, NEW j \in Jobs, Died(j) PROVE RecordsGo /\ WatchersStay
  <1> DEFINE d == job[j].dev
             relaunch == ~stopping
             runs == {i \in InstancesOn(d) : inst[i].state = "running" /\ ~inst[i].closed}
  <1>1. PICK auto \in [runs -> AutoRestart], quick \in [runs -> BOOLEAN] :
          LET counts == {i \in runs : relaunch /\ auto[i]}
              rec(i) == IF i \in counts THEN CountEnd(inst[i], quick[i]) ELSE inst[i]
              again  == {i \in counts : MayRestart(rec(i))}
              slot   == CHOOSE f \in Slots(again) : TRUE
          IN  /\ Slots(again) # {}
              /\ inst' = [i \in Instances |->
                    IF i \notin InstancesOn(d) THEN inst[i]
                    ELSE AfterGone(rec(i), relaunch, i \in again,
                                   IF i \in again THEN slot[i] ELSE NoJob)]
              /\ job' = [k \in Jobs |->
                    IF k = j THEN Idle
                    ELSE IF \E i \in again : slot[i] = k
                    THEN JobOf("count", CHOOSE i \in again : slot[i] = k)
                    ELSE job[k]]
    BY DEF Died
  <1> DEFINE counts == {i \in runs : relaunch /\ auto[i]}
             rec(i) == IF i \in counts THEN CountEnd(inst[i], quick[i]) ELSE inst[i]
             again  == {i \in counts : MayRestart(rec(i))}
             slot   == CHOOSE f \in Slots(again) : TRUE
  <1>2. Slots(again) # {} BY <1>1
  <1>3. inst' = [i \in Instances |->
           IF i \notin InstancesOn(d) THEN inst[i]
           ELSE AfterGone(rec(i), relaunch, i \in again, IF i \in again THEN slot[i] ELSE NoJob)]
    BY <1>1
  <1>4. job' = [k \in Jobs |->
           IF k = j THEN Idle
           ELSE IF \E i \in again : slot[i] = k
           THEN JobOf("count", CHOOSE i \in again : slot[i] = k)
           ELSE job[k]]
    BY <1>1
  <1>5. \A i \in again : i \in Instances /\ ~inst[i].closed BY DEF InstancesOn
  <1>6. \A i \in Instances : /\ inst[i] \in InstanceRec /\ rec(i) \in InstanceRec
                             /\ rec(i).closed = inst[i].closed /\ rec(i).asking = inst[i].asking
                             /\ rec(i).state = inst[i].state /\ rec(i).halting = inst[i].halting
                             /\ rec(i).countdown = inst[i].countdown
    <2> TAKE i \in Instances
    <2>1. inst[i] \in InstanceRec BY DEF TypeOK
    <2>2. CASE i \in counts
      <3>1. quick[i] \in BOOLEAN BY <2>2
      <3> DEFINE q == quick[i]
      <3>2. rec(i) = CountEnd(inst[i], q) BY <2>2
      <3> HIDE DEF q, rec
      <3> QED BY <2>1, <3>1, <3>2, EndCounted DEF CountEnd, InstanceRec, q
    <2>3. CASE i \notin counts BY <2>1, <2>3
    <2> QED BY <2>2, <2>3
  <1>7. /\ \A i \in again : slot[i] \in Jobs /\ job[slot[i]].pc = "free"
        /\ \A x, y \in again : slot[x] = slot[y] => x = y
    <2>1. slot \in Slots(again) BY <1>2
    <2> HIDE DEF again, slot
    <2> QED BY <2>1 DEF Slots, FreeJobs
  <1>8. job[j].pc = "died" BY DEF Died, At
  <1>9. stopping \in BOOLEAN BY DEF TypeOK
  <1> HIDE DEF rec, again, slot
  <1>10. ASSUME NEW i \in again
         PROVE  slot[i] \in Jobs /\ job'[slot[i]].pc = "count" /\ job'[slot[i]].inst = i
    <2> DEFINE k == slot[i]
    <2>1. k \in Jobs /\ k # j BY <1>7, <1>8
    <2>2. (CHOOSE x \in again : slot[x] = k) = i BY <1>7
    <2>3. job'[k] = JobOf("count", CHOOSE x \in again : slot[x] = k) BY <1>4, <2>1
    <2> QED BY <2>1, <2>2, <2>3 DEF JobOf, Idle
  <1>11. WatchersStay
    <2>1. ASSUME NEW k \in Jobs, job[k].pc \in Watching PROVE job'[k] = job[k]
      <3>1. k # j /\ ~\E i \in again : slot[i] = k BY <1>7, <1>8, <2>1 DEF Watching
      <3> QED BY <1>4, <3>1
    <2> QED BY <2>1 DEF WatchersStay
  <1>12. ASSUME NEW i \in Instances PROVE RecordGoes(i)
    <2> DEFINE c == IF i \in again THEN slot[i] ELSE NoJob
               b == i \in again
    <2>1. CASE i \notin InstancesOn(d) BY <1>3, <2>1 DEF RecordGoes
    <2>2. CASE i \in InstancesOn(d)
      <3>1. inst'[i] = AfterGone(rec(i), relaunch, b, c) BY <1>3, <2>2
      <3>2. rec(i) \in InstanceRec BY <1>6
      <3>3. CASE i \in again
        <4>1. b = TRUE /\ c = slot[i] /\ ~inst[i].closed BY <1>5, <3>3
        <4>2. /\ inst'[i].asking = inst[i].asking /\ inst'[i].closed = inst[i].closed
              /\ inst'[i].state = "restarting" => inst'[i].countdown = slot[i]
              /\ inst'[i].state # "absent"
          BY <1>6, <3>1, <3>2, <4>1 DEF AfterGone, InstanceRec
        <4> QED BY <1>10, <3>3, <4>1, <4>2 DEF RecordGoes
      <3>4. CASE i \notin again
        <4>1. b = FALSE BY <3>4
        <4>2. /\ inst'[i].asking = inst[i].asking /\ inst'[i].state # "absent"
              /\ \/ inst'[i].state = "ended"
                 \/ /\ inst[i].state = "restarting" /\ inst'[i].countdown = inst[i].countdown
                    /\ inst'[i].closed = inst[i].closed /\ inst'[i].halting = inst[i].halting
          BY <1>6, <3>1, <3>2, <4>1 DEF AfterGone, InstanceRec
        <4> QED BY <4>2 DEF RecordGoes
      <3> QED BY <3>3, <3>4
    <2> QED BY <2>1, <2>2
  <1> QED BY <1>11, <1>12 DEF RecordsGo

\* A stop of a user that is over is one less under way.
LEMMA HaltedGoes == ASSUME TypeOK, NEW j \in Jobs, Halted(j) PROVE RecordsGo
  <1> DEFINE i == job[j].inst
             m == Monus(inst[i].halting, 1)
             r == [inst[i] EXCEPT !.halting = m]
  <1>1. i \in Instances /\ inst[i] \in InstanceRec /\ inst = [k \in Instances |-> inst[k]]
    BY DEF TypeOK, Halted, At, JobRec, PoolPCs
  <1>2. inst[i].halting = 0 => m = 0 BY DEF Monus
  <1>3. UNCHANGED inst \/ inst' = [inst EXCEPT ![i] = r] BY <1>1 DEF Halted
  <1> HIDE DEF m
  <1>4. /\ r.state = inst[i].state /\ r.countdown = inst[i].countdown /\ r.closed = inst[i].closed
        /\ r.halting = m /\ r.asking = inst[i].asking
    BY <1>1 DEF InstanceRec
  <1> HIDE DEF r
  <1> QED BY <1>1, <1>2, <1>3, <1>4, RecordSet, SameRecords

\* clear_ended calls countdowns off.
LEMMA ClearGoes == ASSUME TypeOK, Clear PROVE RecordsGo /\ WatchersStay
  <1> DEFINE off(rec) == IF rec.state = "restarting"
                         THEN [rec EXCEPT !.state = "ended", !.closed = TRUE, !.countdown = NoJob]
                         ELSE rec
             ended == {i \in Instances : inst[i].state \in {"restarting", "ended"}}
             cards == {i \in ended : inst[i].hwc # NoDisplay /\ There(inst[i].device)}
             slot  == CHOOSE f \in Slots(cards) : TRUE
             RemoveOf(i) == [JobOf("remove", i) EXCEPT !.dev = inst[i].device,
             !.hwc = inst[i].hwc]
             n(i) == IF i \in cards THEN NoDisplay ELSE off(inst[i]).hwc
  <1>1. /\ Slots(cards) # {}
        /\ job' = [j \in Jobs |->
               IF \E i \in cards : slot[i] = j
               THEN RemoveOf(CHOOSE i \in cards : slot[i] = j) ELSE job[j]]
    BY Zenon DEF Clear
  <1>2. inst' = [i \in Instances |->
               IF i \notin ended THEN inst[i]
               ELSE IF Forgets(inst[i]) THEN Forgotten(inst[i])
               ELSE [off(inst[i]) EXCEPT !.hwc = n(i)]]
    BY Zenon DEF Clear
  <1>3. slot \in Slots(cards) BY Zenon, <1>1
  <1>4. WatchersStay
    <2> HIDE DEF cards, slot, RemoveOf
    <2>1. \A i \in cards : job[slot[i]].pc = "free" BY <1>3 DEF Slots, FreeJobs
    <2> QED BY <1>1, <2>1 DEF WatchersStay, Watching
  <1>5. ASSUME NEW i \in Instances PROVE RecordGoes(i)
    <2>1. inst[i] \in InstanceRec BY DEF TypeOK
    <2>2. CASE i \notin ended BY Zenon, <1>2, <2>2 DEF RecordGoes
    <2>3. CASE i \in ended /\ Forgets(inst[i])
      <3>1. Forgotten(inst[i]).state = "absent" /\ ~Forgotten(inst[i]).asking
        BY DEF Forgotten, AbsentInstance
      <3> QED BY Zenon, <1>2, <2>3, <3>1 DEF RecordGoes
    <2>4. CASE i \in ended /\ ~Forgets(inst[i])
      <3> DEFINE x == n(i)
                 o == off(inst[i])
      <3>1. o \in InstanceRec /\ o.state = "ended" /\ o.asking = inst[i].asking
        BY <2>1, <2>4 DEF InstanceRec, InstanceStates
      <3>2. inst'[i] = [o EXCEPT !.hwc = x] BY Zenon, <1>2, <2>4
      <3> HIDE DEF x, o
      <3> QED BY <3>1, <3>2 DEF RecordGoes, InstanceRec
    <2> QED BY <2>2, <2>3, <2>4
  <1> QED BY <1>4, <1>5 DEF RecordsGo

\* restart: counted down anew, by a thread of its own.
LEMMA RestartGoesOn == ASSUME TypeOK, NEW i \in Instances, Restart(i)
    PROVE RecordsGo /\ WatchersStay
  <1> DEFINE d == inst[i].device
             halt == inst[i].state = "running" /\ There(d) /\ inst[i].user # NoUser
             keeps == inst[i].state = "running" \/ inst[i].user \notin UsersTaken(d, i)
             rec == Counted(inst[i], halt)
             u == IF keeps THEN inst[i].user ELSE NoUser
             n == NewJob
             r == [rec EXCEPT !.state = "restarting", !.countdown = n,
                      !.user = u, !.quick_ends = 0, !.closed = FALSE]
             counted == [job EXCEPT ![n] = JobOf("count", i)]
  <1>1. n \in Jobs /\ job[n].pc = "free" BY FreshJob DEF Restart
  <1>2. halt => NewJob2 \in Jobs \ {n} /\ job[NewJob2].pc = "free"
    BY DEF Restart, HasJobs2, NewJob2, FreeJobs
  <1>3. inst[i] \in InstanceRec /\ job = [k \in Jobs |-> job[k]] BY DEF TypeOK
  <1>4. halt \in BOOLEAN OBVIOUS
  <1>5. rec \in InstanceRec /\ rec.asking = inst[i].asking
    BY <1>3, <1>4, EndCounted DEF Counted, InstanceRec
  <1>6. inst' = [inst EXCEPT ![i] = r] BY DEF Restart
  <1>7. IF halt
        THEN \E q : job' = [counted EXCEPT ![NewJob2] = q]
        ELSE job' = counted
    BY DEF Restart
  <1>8. JobOf("count", i).pc = "count" /\ JobOf("count", i).inst = i BY DEF JobOf, Idle
  <1> HIDE DEF halt, rec, u, n
  <1>9. /\ job'[n] = JobOf("count", i)
        /\ \A k \in Jobs : job'[k] # job[k] => job[k].pc = "free"
    BY <1>1, <1>2, <1>3, <1>7
  <1>10. r.state = "restarting" /\ r.countdown = n /\ ~r.closed /\ r.asking = inst[i].asking
    BY <1>5 DEF InstanceRec
  <1> HIDE DEF r
  <1> QED BY <1>1, <1>6, <1>8, <1>9, <1>10, Begins, NewThreads

\* The watchers' own steps.
LEMMA WatcherStep ==
    ASSUME WatchInv, TypeOK', NEW j \in Jobs, Thread(j), job[j].pc \in Watching
    PROVE  WatchInv'
  <1> DEFINE i == job[j].inst
  <1>0. /\ TypeOK /\ i \in Instances /\ job[j] \in JobRec /\ job = [k \in Jobs |-> job[k]]
        /\ \A k \in Instances : inst[k] \in InstanceRec /\ Followed(k) /\ Asked(k)
    BY Zenon DEF WatchInv, TypeOK, JobRec, PoolPCs, Watching
  <1>1. \/ CountOver(j) \/ Count(j) \/ CountCard(j) \/ CountEnds(j) \/ Relaunch(j) \/ Ask(j)
    BY Zenon DEF Watching, At, Thread, LaunchStep, EndStep, RestartStep, StopStep, OtherStep,
           WarmAgain, Uncold, Boot, BootFailed, Wait, Set, Turn, Install, Pick, Record, Display,
           Keep,
           Start, Started, StartFailed, Failed, NotRestarted, End, Undo, Ended, OwnRead, OwnEnd,
           OwnRemove, OwnCard, Halt, Halted, PlaceAgain, LeaveDisplay, Stop, KeepCold, StopGuest,
           StopEnds, Died, Warm, Spare, Offer, Remove, CloseWindow, OpenWindow, StopAll
  <1>2. ASSUME \A k \in Jobs \ {j} : job'[k] = job[k], RecordsGo, UNCHANGED stopping,
               job[j].pc # "ask",
               \/ job'[j].inst = i /\ job'[j].pc \in {"count", "count_card"}
               \/ job'[j].inst = i /\ job'[j].pc = "relaunch" /\ inst'[i].halting = 0
               \/ stopping \/ inst'[i].state # "restarting" \/ inst'[i].countdown # j
        PROVE  WatchInv'
    <2>1. ASSUME NEW k \in Instances PROVE Followed(k)'
      <3>1. CASE inst'[k].countdown = j /\ k = i
        <4>1. RecordGoes(k) BY <1>2 DEF RecordsGo
        <4>2. Followed(k) BY <1>0
        <4> QED BY <1>2, <3>1, <4>1, <4>2 DEF Followed, RecordGoes
      <3>2. CASE inst'[k].countdown # j \/ k # i
        <4>1. RecordGoes(k) BY <1>2 DEF RecordsGo
        <4>2. Followed(k) BY <1>0
        <4> QED BY <1>2, <3>2, <4>1, <4>2 DEF Followed, RecordGoes
      <3> QED BY <3>1, <3>2
    <2>2. ASSUME NEW k \in Instances PROVE Asked(k)'
      <3>1. RecordGoes(k) BY <1>2 DEF RecordsGo
      <3>2. Asked(k) BY <1>0
      <3> QED BY <1>2, <3>1, <3>2 DEF RecordGoes, Asked, At, Exists
    <2> QED BY <2>1, <2>2 DEF WatchInv
  <1>3. CASE CountOver(j)
    <2>1. RecordsGo BY <1>3, SameRecords DEF CountOver, pool
    <2> QED BY <1>0, <1>2, <1>3, <2>1 DEF CountOver, At, Done, Counting, Followed, pool
  <1>4. CASE Count(j)
    <2>1. RecordsGo BY <1>4, SameRecords DEF Count, pool
    <2>2. job'[j].pc = "count_card" /\ job'[j].inst = i /\ \A k \in Jobs \ {j} : job'[k] = job[k]
      BY <1>0, <1>4 DEF Count, JobRec
    <2> QED BY <1>2, <1>4, <2>1, <2>2 DEF Count, At, pool
  <1>5. CASE CountCard(j)
    <2>1. RecordsGo BY <1>0, <1>5, OwnRecord DEF Recording
    <2>2. job'[j].pc = "count" /\ job'[j].inst = i /\ \A k \in Jobs \ {j} : job'[k] = job[k]
      BY <1>0, <1>5 DEF CountCard, Goto, JobRec
    <2> QED BY <1>2, <1>5, <2>1, <2>2 DEF CountCard, At
  <1>6. CASE CountEnds(j)
    <2>1. RecordsGo BY <1>6, SameRecords DEF CountEnds, pool
    <2>2. /\ job'[j].pc = "relaunch" /\ job'[j].inst = i /\ inst'[i].halting = 0
          /\ \A k \in Jobs \ {j} : job'[k] = job[k]
      BY <1>0, <1>6 DEF CountEnds, Goto, JobRec, pool
    <2> QED BY <1>2, <1>6, <2>1, <2>2 DEF CountEnds, At, pool
  <1>7. CASE Relaunch(j)
    <2>1. \A k \in Jobs \ {j} : job'[k] = job[k] BY <1>0, <1>7 DEF Relaunch, Goto, Done
    <2>2. CASE Counting(j) /\ inst[i].halting = 0
      <3>1. inst' = [inst EXCEPT ![i] = [inst[i] EXCEPT !.state = "waiting", !.countdown = NoJob]]
        BY <1>0, <1>7, <2>2 DEF Relaunch, TypeOK
      <3> DEFINE r == [inst[i] EXCEPT !.state = "waiting", !.countdown = NoJob]
      <3>2. r.state = "waiting" /\ r.asking = inst[i].asking BY <1>0 DEF InstanceRec
      <3> HIDE DEF r
      <3>3. RecordsGo BY <1>0, <3>1, <3>2, RecordSet DEF r
      <3>4. inst'[i].state = "waiting" BY <1>0, <3>1, <3>2 DEF r, TypeOK
      <3> QED BY <1>2, <1>7, <2>1, <3>3, <3>4 DEF Relaunch, At
    <2>3. CASE ~(Counting(j) /\ inst[i].halting = 0)
      <3>1. UNCHANGED inst /\ job[j].pc = "relaunch" /\ UNCHANGED stopping
        BY <1>7, <2>3 DEF Relaunch, At
      <3>2. Followed(i) BY <1>0
      <3>3. stopping \/ inst[i].state # "restarting" \/ inst[i].countdown # j
        BY <2>3, <3>1, <3>2 DEF Followed, Counting
      <3> QED BY <1>2, <2>1, <3>1, <3>3, SameRecords
    <2> QED BY <2>2, <2>3
  <1>8. CASE Ask(j)
    <2>1. /\ job[j].pc = "ask" /\ UNCHANGED stopping /\ \A k \in Jobs \ {j} : job'[k] = job[k]
      BY <1>0, <1>8 DEF Ask, At, Goto, Done
    <2>2. \/ UNCHANGED inst /\ ~Exists(i)
          \/ inst' = Answered(i) \/ inst' = [Answered(i) EXCEPT ![i].headless = TRUE]
      BY <1>8 DEF Ask
    <2>3. \A k \in Instances \ {i} : inst'[k] = inst[k]
      BY <1>0, <2>2 DEF Answered, TypeOK
    <2>4. /\ inst'[i].state = inst[i].state /\ inst'[i].countdown = inst[i].countdown
          /\ inst'[i].closed = inst[i].closed /\ inst'[i].halting = inst[i].halting
          /\ inst'[i].asking => inst[i].asking /\ ~Exists(i)
      <3>1. inst[i] \in InstanceRec /\ inst = [k \in Instances |-> inst[k]] BY <1>0 DEF TypeOK
      <3>2. CASE UNCHANGED inst /\ ~Exists(i) BY <3>2
      <3>3. CASE inst' = Answered(i) BY <1>0, <3>1, <3>3 DEF Answered, InstanceRec
      <3>4. CASE inst' = [Answered(i) EXCEPT ![i].headless = TRUE]
        BY <1>0, <3>1, <3>4 DEF Answered, InstanceRec
      <3> QED BY <2>2, <3>2, <3>3, <3>4
    <2>5. ASSUME NEW k \in Instances PROVE Followed(k)'
      <3>1. Followed(k) BY <1>0
      <3> QED BY <2>1, <2>3, <2>4, <3>1 DEF Followed
    <2>6. ASSUME NEW k \in Instances PROVE Asked(k)'
      <3>1. Asked(k) BY <1>0
      <3> QED BY <2>1, <2>3, <2>4, <3>1 DEF Asked, At, Exists
    <2> QED BY <2>5, <2>6 DEF WatchInv
  <1> QED BY <1>1, <1>3, <1>4, <1>5, <1>6, <1>7, <1>8

\* Every other thread's step.
LEMMA ThreadWatched ==
    ASSUME WatchInv, TypeOK', NEW j \in Jobs, Thread(j)
    PROVE  WatchInv'
  <1>0. TypeOK BY DEF WatchInv
  <1>1. CASE job[j].pc \in Watching BY <1>1, WatcherStep
  <1>2. CASE job[j].pc \notin Watching
    <2>1. RecordsGo
      <3>1. Recordless(j) => RecordsGo BY NoRecord
      <3>2. LaunchStep(j) => RecordsGo
        BY <1>0, <3>1, OwnRecord, AllEndGoes
        DEF LaunchStep, Recordless, Recording, BootFailed
      <3>3. EndStep(j) => RecordsGo
        BY <1>0, <3>1, OwnRecord, HaltedGoes, OwnEndGoes DEF EndStep, Recordless, Recording
      <3>4. RestartStep(j) => RecordsGo
        <4>1. ~Relaunch(j) BY <1>2 DEF Relaunch, At, Watching
        <4> QED BY <1>0, <3>1, <4>1, OwnRecord, PlaceGoes
          DEF RestartStep, Recordless, Recording
      <3>5. StopStep(j) => RecordsGo
        BY <1>0, <3>1, StopGoes, AllEndGoes, DiedGoes, SameRecords
        DEF StopStep, Recordless, Stop, StopEnds, pool
      <3>6. OtherStep(j) => RecordsGo
        <4>1. ~Ask(j) BY <1>2 DEF Ask, At, Watching
        <4> QED BY <1>0, <3>1, <4>1, WindowGoes, OwnRecord
          DEF OtherStep, Recordless, Recording
      <3> QED BY <3>2, <3>3, <3>4, <3>5, <3>6 DEF Thread
    <2>2. WatchersStay
      <3>1. CASE job[j].pc \in {"own_end", "died"}
        <4>1. OwnEnd(j) \/ Died(j)
          BY Zenon, <3>1 DEF At, Thread, LaunchStep, EndStep, RestartStep, StopStep, OtherStep,
             WarmAgain, Uncold, Boot, BootFailed, Wait, Set, Turn, Install, Pick, Record, Display,
             Keep, Start, Started, StartFailed, Failed, NotRestarted, End, Undo, Ended, OwnRead,
             OwnRemove, OwnCard, Halt, Halted, CountOver, Count, CountCard, CountEnds, Relaunch,
             PlaceAgain, LeaveDisplay, Stop, KeepCold, StopGuest, StopEnds, Warm, Spare, Offer,
             Remove, Ask, CloseWindow, OpenWindow, StopAll
        <4> QED BY <1>0, <4>1, OwnEndGoes, DiedGoes
      <3>2. CASE job[j].pc \notin {"own_end", "died"} BY <1>0, <1>2, <3>2, ThreadsStay
      <3> QED BY <3>1, <3>2
    <2>3. UNCHANGED stopping
      BY Zenon DEF Thread, LaunchStep, EndStep, RestartStep, StopStep, OtherStep, pool,
             WarmAgain, Uncold, Boot, BootFailed, Wait, Set, Turn, Install, Pick, Record, Display,
             Keep, Start, Started, StartFailed, Failed, NotRestarted, End, Undo, Ended, OwnRead,
             OwnEnd, OwnRemove, OwnCard, Halt, Halted, CountOver, Count, CountCard, CountEnds,
             Relaunch, PlaceAgain, LeaveDisplay, Stop, StopSection, KeepCold, StopGuest, StopEnds,
             Died, Warm, Spare, Offer, Remove, Ask, CloseWindow, OpenWindow, StopAll
    <2> QED BY <2>1, <2>2, <2>3, Watched
  <1> QED BY <1>1, <1>2

\* A thread begun in a free slot, nothing else of the threads written.
LEMMA OneThread == ASSUME TypeOK, HasJob, NEW r, job' = [job EXCEPT ![NewJob] = r]
    PROVE WatchersStay
  <1>1. NewJob \in Jobs /\ job[NewJob].pc = "free" BY FreshJob
  <1>2. job = [k \in Jobs |-> job[k]] BY DEF TypeOK
  <1> QED BY <1>1, <1>2, NewThreads

\* The ticker asks about a window by a thread, and passes over it until it is answered.
LEMMA TickerWatched == ASSUME WatchInv, TypeOK', Ticker PROVE WatchInv'
  <1>0. TypeOK /\ UNCHANGED stopping
    BY Zenon DEF WatchInv, Ticker, TickReady, TickGone, TickClose, TickSpare, TickWindow, TickEnded,
           TickIdle, TickWarm, pool
  <1>1. UNCHANGED job => WatchersStay BY DEF WatchersStay
  <1>2. ASSUME UNCHANGED inst, WatchersStay PROVE WatchInv'
    BY <1>0, <1>2, SameRecords, Watched
  <1>3. ASSUME NEW d \in Devices, TickReady(d) \/ TickGone(d) \/ TickClose(d) \/ TickSpare(d)
        PROVE  WatchInv'
    BY <1>0, <1>1, <1>2, <1>3, OneThread DEF TickReady, TickGone, TickClose, TickSpare, pool
  <1>4. ASSUME TickIdle \/ TickWarm PROVE WatchInv'
    BY <1>0, <1>1, <1>2, <1>4, OneThread DEF TickIdle, TickWarm, pool
  <1>5. ASSUME NEW i \in Instances, TickEnded(i) PROVE WatchInv'
    <2>1. inst' = [inst EXCEPT ![i] = [inst[i] EXCEPT !.state = "closing"]]
      BY <1>0, <1>5 DEF TickEnded, TypeOK
    <2>2. inst[i] \in InstanceRec BY <1>0 DEF TypeOK
    <2> DEFINE r == [inst[i] EXCEPT !.state = "closing"]
    <2>3. r.state = "closing" /\ r.asking = inst[i].asking BY <2>2 DEF InstanceRec
    <2> HIDE DEF r
    <2>4. RecordsGo BY <1>0, <2>1, <2>3, RecordSet DEF r
    <2>5. WatchersStay BY <1>0, <1>5, OneThread DEF TickEnded
    <2> QED BY <1>0, <2>4, <2>5, Watched
  <1>6. ASSUME NEW i \in Instances, TickWindow(i) PROVE WatchInv'
    <2>1. WatchersStay BY <1>0, <1>6, OneThread DEF TickWindow
    <2>2. RecordsGo
      <3>1. inst = [k \in Instances |-> inst[k]] /\ inst[i] \in InstanceRec BY <1>0 DEF TypeOK
      <3>2. CASE inst[i].state = "ended"
        <4>1. inst' = TakeDisplay(i) BY <1>6, <3>2 DEF TickWindow
        <4>2. /\ inst'[i].state = "ended" /\ inst'[i].asking = inst[i].asking
              /\ \A k \in Instances \ {i} : inst'[k] = inst[k]
          BY <3>1, <3>2, <4>1 DEF TakeDisplay, InstanceRec
        <4> QED BY <4>2 DEF RecordsGo, RecordGoes
      <3>3. CASE inst[i].state # "ended"
        <4> DEFINE n == NewJob
        <4>1. n \in Jobs BY <1>6, FreshJob DEF TickWindow
        <4> HIDE DEF n
        <4>2. inst' = [inst EXCEPT ![i].asking = Asks]
          BY <1>6, <3>3 DEF TickWindow
        <4>3. job' = [job EXCEPT ![n] = JobOf(IF Asks THEN "ask" ELSE "close", i)]
          BY <1>6, <3>3 DEF TickWindow, n
        <4>4. Asks => job'[n].pc = "ask" /\ job'[n].inst = i
          BY <1>0, <4>1, <4>3 DEF JobOf, Idle, TypeOK
        <4>5. /\ inst'[i].asking = Asks /\ inst'[i].state = inst[i].state
              /\ inst'[i].countdown = inst[i].countdown /\ inst'[i].closed = inst[i].closed
              /\ inst'[i].halting = inst[i].halting
              /\ \A k \in Instances \ {i} : inst'[k] = inst[k]
          BY <3>1, <4>2 DEF InstanceRec
        <4>6. inst[i].state # "absent" BY <1>6 DEF TickWindow, Exists
        <4> QED BY <4>1, <4>4, <4>5, <4>6 DEF RecordsGo, RecordGoes
      <3> QED BY <3>2, <3>3
    <2> QED BY <1>0, <2>1, <2>2, Watched
  <1> QED BY <1>3, <1>4, <1>5, <1>6 DEF Ticker

\* What is asked of the pool.
LEMMA PersonWatched == ASSUME WatchInv, TypeOK', Person PROVE WatchInv'
  <1>0. TypeOK BY DEF WatchInv
  <1>1. ASSUME NEW b \in Builds, Launch(b) PROVE WatchInv'
    <2> DEFINE i == next.instance
               r == [AbsentInstance EXCEPT !.state = "waiting", !.device = PlacedOn(b), !.apk = b]
    <2>1. i \in Instances /\ inst' = [inst EXCEPT ![i] = r] /\ UNCHANGED stopping
      BY <1>1 DEF Launch
    <2>2. r.state = "waiting" /\ ~r.asking BY DEF AbsentInstance
    <2> HIDE DEF r
    <2>3. RecordsGo BY <1>0, <2>1, <2>2, RecordSet
    <2>4. WatchersStay BY <1>0, <1>1, OneThread DEF Launch
    <2> QED BY <2>1, <2>3, <2>4, Watched
  <1>2. ASSUME NEW i \in Instances, Close(i) PROVE WatchInv'
    <2>1. RecordsGo BY <1>0, <1>2, ClosingGoes DEF Close
    <2>2. WatchersStay BY <1>0, <1>2, OneThread DEF Close, CloseOn
    <2> QED BY <1>2, <2>1, <2>2, Watched DEF Close
  <1>3. ASSUME NEW i \in Instances, Restart(i) PROVE WatchInv'
    BY Zenon, <1>0, <1>3, RestartGoesOn, Watched DEF Restart
  <1>4. ASSUME NEW i \in Instances, ShowWindow(i) PROVE WatchInv'
    BY <1>0, <1>4, SameRecords, OneThread, Watched DEF ShowWindow, pool
  <1>5. ASSUME NEW d \in Devices, Kill(d) PROVE WatchInv'
    BY Zenon, <1>0, <1>5, StopGoes, OneThread, Watched DEF Kill, StopSection
  <1>6. ASSUME NEW d \in Devices, NEW h \in Displays, PersonCloses(d, h) PROVE WatchInv'
    BY <1>6, SameRecords, Watched DEF PersonCloses, WatchersStay, pool
  <1>7. ASSUME AskWarm
      PROVE WatchInv' BY Zenon, <1>0, <1>7, SameRecords, OneThread, Watched DEF AskWarm, pool
  <1>8. ASSUME Clear PROVE WatchInv' BY Zenon, <1>0, <1>8, ClearGoes, Watched DEF Clear
  <1>9. ASSUME Quit PROVE WatchInv'
    <2>1. UNCHANGED job => WatchersStay BY DEF WatchersStay
    <2> QED BY <1>0, <1>9, <2>1, SameRecords, OneThread, Watched DEF Quit
  <1> QED BY <1>1, <1>2, <1>3, <1>4, <1>5, <1>6, <1>7, <1>8, <1>9 DEF Person

\* The pool opens with nothing to watch for.
LEMMA InitWatched == Init => WatchInv
  <1>1. Init => \A i \in Instances : inst[i].state = "absent" /\ ~inst[i].asking
    BY DEF Init, AbsentInstance
  <1> QED BY <1>1, InitType DEF WatchInv, Followed, Asked

\* Every step keeps the invariant.
LEMMA StepWatched == WatchInv /\ [Next]_vars => WatchInv'
  <1> SUFFICES ASSUME WatchInv, [Next]_vars PROVE WatchInv' OBVIOUS
  <1>1. TypeOK' BY StepType DEF WatchInv
  <1>2. ASSUME UNCHANGED <<inst, job, stopping>> PROVE WatchInv'
    BY <1>1, <1>2, SameRecords, Watched DEF WatchersStay
  <1>3. Environment \/ UNCHANGED vars => UNCHANGED <<inst, job, stopping>>
    BY DEF Environment, Crash, Death, vars, pool
  <1> QED BY <1>1, <1>2, <1>3, ThreadWatched, TickerWatched, PersonWatched DEF Next

\* Until the pool stops, an instance counting down is followed by its countdown's own
\* thread: a second restart, the death or the stop of its device, a close, an end on its
\* own, a relaunch that finds a stop under way -- none leaves it counted down by nobody
\* (count_down, restart, ended_on_its_own, device_gone).
THEOREM CountdownsFollowed == Spec => []RestartFollowed
  <1>1. WatchInv => RestartFollowed
    BY ConstantsOK DEF WatchInv, Followed, RestartFollowed
  <1> QED BY <1>1, InitWatched, StepWatched, PTL DEF Spec

\* An instance that is being asked about has the thread that asks, and that will note
\* the answer whatever the instance became: the ticker never passes over its window for
\* ever (follow_windows, window_closed).
THEOREM QuestionsAnswered == Spec => []AskingAnswered
  <1>1. WatchInv => AskingAnswered BY DEF WatchInv, Asked, AskingAnswered
  <1> QED BY <1>1, InitWatched, StepWatched, PTL DEF Spec

-----------------------------------------------------------------------------
(* The users made ahead: what each step makes of a device's users *)

\* The steps of a launch up to its user's record, in which its device is what it read.
Launching == {"wait", "set", "turn", "install", "pick", "record"}

\* A user that was made, and is not one being made ahead.
Kept(d, u) ==
    /\ u \in 1..made[d]
    /\ \A j \in Jobs : At(j, "offer") /\ job[j].dev = d => job[j].user # u

\* An instance there is has an id below the next one's.
Given == \A i \in Instances : Exists(i) => i < next.instance

\* A launch on its way is at its instance's device, unless that is forgotten.
OnDevice == \A j \in Jobs : job[j].pc \in Launching =>
    /\ job[j].inst < next.instance
    /\ Exists(job[j].inst) => inst[job[j].inst].device = job[j].dev

\* The users a device offers, a record names or a launch has picked are kept.
UsersKept ==
    /\ \A d \in Devices : \A u \in dev[d].users : Kept(d, u)
    /\ \A i \in Instances :
          Exists(i) /\ inst[i].device \in Devices /\ inst[i].user # NoUser
          => Kept(inst[i].device, inst[i].user)
    /\ \A j \in Jobs : At(j, "record") => job[j].dev \in Devices /\ Kept(job[j].dev, job[j].user)

\* Users made ahead are made, and each is one thread's.
SparesOK ==
    /\ \A j \in Jobs : At(j, "offer") => job[j].dev \in Devices /\ job[j].user <= made[job[j].dev]
    /\ \A j, k \in Jobs : /\ At(j, "offer") /\ At(k, "offer")
                          /\ job[j].dev = job[k].dev /\ job[j].user = job[k].user
                          => j = k

\* The inductive invariant.
SpareInv == TypeOK /\ Given /\ OnDevice /\ UsersKept /\ SparesOK

\* What a step may do.  Users are only made,
MadeOn == \A d \in Devices : made[d] <= made'[d]
\* one made ahead stays its thread's, or is the newest and the only one of the step;
SparesGo == \A j \in Jobs : job'[j].pc = "offer" =>
    \/ job[j].pc = "offer" /\ job'[j].dev = job[j].dev /\ job'[j].user = job[j].user
    \/ /\ job'[j].dev \in Devices
       /\ made[job'[j].dev] < job'[j].user /\ job'[j].user = made'[job'[j].dev]
       /\ \A k \in Jobs \ {j} : job'[k] = job[k]
\* a launch stays at its device, or comes to the one of its instance, and picks one kept;
LaunchesGo == \A j \in Jobs : job'[j].pc \in Launching =>
    /\ \/ job[j].pc \in Launching /\ job'[j].inst = job[j].inst /\ job'[j].dev = job[j].dev
       \/ Exists(job'[j].inst) /\ job'[j].dev = inst[job'[j].inst].device
    /\ job'[j].pc = "record" =>
          \/ job[j].pc = "record" /\ job'[j].dev = job[j].dev /\ job'[j].user = job[j].user
          \/ \E d \in Devices : \E u : job'[j].dev = d /\ job'[j].user = u /\ Kept(d, u)'
\* an instance stays at its device, or no launch goes by where it was, and gets one kept;
PlacesGo == \A i \in Instances : inst'[i].state # "absent" =>
    /\ i < next'.instance
    /\ \/ Exists(i) /\ inst'[i].device = inst[i].device
       \/ \A j \in Jobs : job'[j].pc \in Launching => job'[j].inst # i
    /\ \/ inst'[i].user = NoUser
       \/ Exists(i) /\ inst'[i].device = inst[i].device /\ inst'[i].user = inst[i].user
       \/ \E d \in Devices : \E u : inst'[i].device = d /\ inst'[i].user = u /\ Kept(d, u)'
\* and a device offers what it did, or another kept.
UsersGo == \A d \in Devices : \A u \in dev'[d].users : u \in dev[d].users \/ Kept(d, u)'

\* What is kept stays so.
LEMMA KeptOn ==
    ASSUME SpareInv, TypeOK', MadeOn, SparesGo, NEW d \in Devices, NEW u, Kept(d, u)
    PROVE  Kept(d, u)'
  <1>1. made[d] \in Nat /\ made'[d] \in Nat /\ made[d] <= made'[d]
    BY ConstantsOK DEF SpareInv, TypeOK, MadeOn
  <1>2. u \in 1..made[d] BY DEF Kept
  <1>3. u \in 1..made'[d] BY <1>1, <1>2
  <1>4. ASSUME NEW j \in Jobs, job'[j].pc = "offer", job'[j].dev = d PROVE job'[j].user # u
    <2>1. CASE job[j].pc = "offer" /\ job'[j].dev = job[j].dev /\ job'[j].user = job[j].user
      BY <1>4, <2>1 DEF Kept, At
    <2>2. CASE made[d] < job'[j].user BY <1>1, <1>2, <2>2
    <2> QED BY <1>4, <2>1, <2>2 DEF SparesGo
  <1> QED BY <1>3, <1>4 DEF Kept, At

\* A step that does no more keeps the invariant.
LEMMA SparesFramed ==
    ASSUME SpareInv, TypeOK', MadeOn, SparesGo, LaunchesGo, PlacesGo, UsersGo,
           next.instance <= next'.instance
    PROVE  SpareInv'
  <1>1. /\ next.instance \in Nat /\ next'.instance \in Nat
        /\ \A d \in Devices : made[d] \in Nat /\ made'[d] \in Nat
    BY ConstantsOK DEF SpareInv, TypeOK
  <1>2. \A j \in Jobs : /\ job'[j].pc \in Launching => job'[j].inst \in Instances
                        /\ job[j].pc \in Launching => job[j].inst \in Instances
    BY DEF SpareInv, TypeOK, JobRec, PoolPCs, Launching
  <1>3. Given' BY DEF PlacesGo, Given, Exists
  <1>4. OnDevice'
    <2>1. SUFFICES ASSUME NEW j \in Jobs, job'[j].pc \in Launching
                   PROVE  /\ job'[j].inst < next'.instance
                          /\ inst'[job'[j].inst].state # "absent"
                             => inst'[job'[j].inst].device = job'[j].dev
      BY DEF OnDevice, Exists
    <2> DEFINE i == job'[j].inst
    <2>2. i \in Instances /\ i \in Nat BY <1>2, <2>1, ConstantsOK DEF Instances
    <2>3. i < next.instance
      BY <2>1, <2>2 DEF LaunchesGo, SpareInv, OnDevice, Given
    <2>4. Exists(i) => inst[i].device = job'[j].dev
      BY <2>1 DEF LaunchesGo, SpareInv, OnDevice
    <2> QED BY <1>1, <2>1, <2>2, <2>3, <2>4 DEF PlacesGo
  <1>5. UsersKept'
    <2>1. ASSUME NEW d \in Devices, NEW u \in dev'[d].users PROVE Kept(d, u)'
      BY <2>1, KeptOn DEF UsersGo, SpareInv, UsersKept
    <2>2. ASSUME NEW i \in Instances, inst'[i].state # "absent", inst'[i].device \in Devices,
                 inst'[i].user # NoUser
          PROVE  Kept(inst[i].device, inst[i].user)'
      <3>1. CASE Exists(i) /\ inst'[i].device = inst[i].device /\ inst'[i].user = inst[i].user
        <4> DEFINE d == inst[i].device
                   u == inst[i].user
        <4>1. d \in Devices /\ Kept(d, u) BY <2>2, <3>1 DEF SpareInv, UsersKept
        <4> HIDE DEF d, u
        <4>2. ASSUME NEW e, NEW v, e = d, v = u PROVE Kept(e, v)'
          BY <4>1, <4>2, KeptOn
        <4>3. inst'[i].device = d /\ inst'[i].user = u BY <3>1 DEF d, u
        <4> QED BY <4>2, <4>3 DEF Kept, At
      <3>2. CASE \E d \in Devices : \E u : inst'[i].device = d /\ inst'[i].user = u /\ Kept(d, u)'
        BY <3>2 DEF Kept, At
      <3> QED BY <2>2, <3>1, <3>2 DEF PlacesGo
    <2>3. ASSUME NEW j \in Jobs, job'[j].pc = "record"
          PROVE  job'[j].dev \in Devices /\ Kept(job[j].dev, job[j].user)'
      <3>1. CASE job[j].pc = "record" /\ job'[j].dev = job[j].dev /\ job'[j].user = job[j].user
        <4> DEFINE d == job[j].dev
                   u == job[j].user
        <4>1. d \in Devices /\ Kept(d, u) BY <3>1 DEF SpareInv, UsersKept, At
        <4> HIDE DEF d, u
        <4>2. ASSUME NEW e, NEW v, e = d, v = u PROVE Kept(e, v)'
          BY <4>1, <4>2, KeptOn
        <4>3. job'[j].dev = d /\ job'[j].user = u BY <3>1 DEF d, u
        <4> QED BY <4>1, <4>2, <4>3 DEF Kept, At
      <3>2. CASE \E d \in Devices : \E u : job'[j].dev = d /\ job'[j].user = u /\ Kept(d, u)'
        BY <3>2 DEF Kept, At
      <3> QED BY <2>3, <3>1, <3>2 DEF LaunchesGo, Launching
    <2> QED BY <2>1, <2>2, <2>3 DEF UsersKept, Exists, At
  <1>6. SparesOK'
    <2>1. ASSUME NEW j \in Jobs, job'[j].pc = "offer"
          PROVE  /\ job'[j].dev \in Devices /\ job'[j].user <= made'[job'[j].dev]
                 /\ \A k \in Jobs : /\ job'[k].pc = "offer"
                                    /\ job'[j].dev = job'[k].dev /\ job'[j].user = job'[k].user
                                    => j = k
      <3> DEFINE Stays(k) == job[k].pc = "offer" /\ job'[k].dev = job[k].dev
                             /\ job'[k].user = job[k].user
                 Comes(k) == /\ job'[k].dev \in Devices
                             /\ made[job'[k].dev] < job'[k].user
                             /\ job'[k].user = made'[job'[k].dev]
                             /\ \A m \in Jobs \ {k} : job'[m] = job[m]
      <3>1. \A k \in Jobs : job'[k].pc = "offer" => Stays(k) \/ Comes(k) BY DEF SparesGo
      <3>2. \A k \in Jobs : job'[k].pc = "offer" => job'[k].user \in Nat
        BY ConstantsOK DEF TypeOK, JobRec, Users
      <3>3. \A k \in Jobs : Stays(k) =>
               job'[k].dev \in Devices /\ job'[k].user <= made[job'[k].dev]
        BY DEF SpareInv, SparesOK, At
      <3>4. job'[j].dev \in Devices /\ job'[j].user <= made'[job'[j].dev]
        <4>1. CASE Comes(j) BY <2>1, <3>2, <4>1, <1>1
        <4>2. CASE Stays(j)
          <5>1. job'[j].dev \in Devices /\ job'[j].user <= made[job'[j].dev] BY <3>3, <4>2
          <5> QED BY <1>1, <2>1, <3>2, <5>1 DEF MadeOn
        <4> QED BY <2>1, <3>1, <4>1, <4>2
      <3>5. ASSUME NEW k \in Jobs, job'[k].pc = "offer", job'[j].dev = job'[k].dev,
                   job'[j].user = job'[k].user
            PROVE  j = k
        <4>1. CASE Stays(j) /\ Stays(k) BY <3>5, <4>1 DEF SpareInv, SparesOK, At
        <4>2. CASE Comes(j) /\ j # k
          <5>1. job'[k] = job[k] BY <4>2
          <5>2. Stays(k) BY <3>5, <5>1
          <5>3. job'[k].user <= made[job'[k].dev] BY <3>3, <5>2
          <5>4. job'[j].dev \in Devices /\ made[job'[j].dev] < job'[j].user BY <4>2
          <5> HIDE DEF Comes, Stays
          <5> QED BY <1>1, <2>1, <3>2, <3>5, <5>3, <5>4
        <4>3. CASE Comes(k) /\ j # k
          <5>1. job'[j] = job[j] BY <4>3
          <5>2. Stays(j) BY <2>1, <5>1
          <5> QED BY <1>1, <2>1, <3>2, <3>3, <3>5, <4>3, <5>2
        <4> QED BY <2>1, <3>1, <3>5, <4>1, <4>2, <4>3
      <3> QED BY <3>4, <3>5
    <2> QED BY <2>1 DEF SparesOK, At
  <1> QED BY <1>3, <1>4, <1>5, <1>6 DEF SpareInv

-----------------------------------------------------------------------------
(* The steps that come to no user *)

\* What most steps make of a thread, of a record and of the devices' users.
ThreadGoes(j) ==
    \/ job'[j].pc \notin Launching \cup {"offer"}
    \/ job'[j] = job[j]
    \/ /\ job[j].pc \in Launching /\ job'[j].pc \in Launching \ {"record"}
       /\ job'[j].inst = job[j].inst /\ job'[j].dev = job[j].dev
    \/ /\ job'[j].pc = "wait" /\ Exists(job'[j].inst)
       /\ job'[j].dev = inst[job'[j].inst].device
RecordStays(i) == inst'[i].state # "absent" =>
    /\ Exists(i) /\ inst'[i].device = inst[i].device
    /\ inst'[i].user \in {inst[i].user, NoUser}
NoMoreUsers == \A d \in Devices : dev'[d].users \subseteq dev[d].users

\* They keep the invariant.
LEMMA SparesStay ==
    ASSUME SpareInv, TypeOK', MadeOn, NoMoreUsers, next'.instance = next.instance,
           \A j \in Jobs : ThreadGoes(j), \A i \in Instances : RecordStays(i)
    PROVE  SpareInv'
  <1>1. SparesGo BY DEF SparesGo, ThreadGoes, Launching
  <1>2. LaunchesGo BY DEF LaunchesGo, ThreadGoes
  <1>3. PlacesGo BY DEF PlacesGo, RecordStays, SpareInv, Given
  <1>4. UsersGo BY DEF UsersGo, NoMoreUsers
  <1>5. next.instance <= next'.instance BY DEF SpareInv, TypeOK
  <1> QED BY <1>1, <1>2, <1>3, <1>4, <1>5, SparesFramed

\* A record written in nothing that matters here.
LEMMA RecordPut ==
    ASSUME TypeOK, NEW i \in Instances, NEW r, inst' = [inst EXCEPT ![i] = r],
           r.state # "absent" => Exists(i) /\ r.device = inst[i].device,
           r.user \in {inst[i].user, NoUser}
    PROVE  \A k \in Instances : RecordStays(k)
  BY DEF TypeOK, RecordStays, Exists

\* No record written.
LEMMA RecordsSame == ASSUME UNCHANGED inst PROVE \A k \in Instances : RecordStays(k)
  BY DEF RecordStays, Exists

\* mark_idle, device_gone, a turn taken or given back: the users stay.
LEMMA UsersSame ==
    ASSUME DevOK
    PROVE  /\ UNCHANGED dev => NoMoreUsers
           /\ \A ins : dev' = MarkIdle(dev, ins) => NoMoreUsers
           /\ \A d : dev' = Gone(d) => NoMoreUsers
           /\ \A d : dev' = Release(d) => NoMoreUsers
           /\ \A d, j : dev' = [dev EXCEPT ![d].busy = j] => NoMoreUsers
           /\ \A d, s : dev' = [dev EXCEPT ![d].state = s] => NoMoreUsers
           /\ \A d, b : dev' = [dev EXCEPT ![d].sparing = b] => NoMoreUsers
           /\ \A d, s, b : dev' = [dev EXCEPT ![d].state = s, ![d].idle = b] => NoMoreUsers
  <1>1. /\ dev = [e \in Devices |-> dev[e]] /\ \A e \in Devices : dev[e] \in DeviceRec
    BY DEF DevOK
  <1>2. UNCHANGED dev => NoMoreUsers BY DEF NoMoreUsers
  <1>3. ASSUME NEW ins, dev' = MarkIdle(dev, ins) PROVE NoMoreUsers
    BY <1>1, <1>3 DEF MarkIdle, DeviceRec, NoMoreUsers
  <1>4. ASSUME NEW d, dev' = Gone(d) PROVE NoMoreUsers
    BY <1>1, <1>4 DEF Gone, DeviceRec, NoMoreUsers
  <1>5. ASSUME NEW d, dev' = Release(d) PROVE NoMoreUsers
    BY <1>1, <1>5 DEF Release, DeviceRec, NoMoreUsers
  <1>6. ASSUME NEW d, NEW j, dev' = [dev EXCEPT ![d].busy = j] PROVE NoMoreUsers
    BY <1>1, <1>6 DEF DeviceRec, NoMoreUsers
  <1>7. ASSUME NEW d, NEW s, dev' = [dev EXCEPT ![d].state = s] PROVE NoMoreUsers
    BY <1>1, <1>7 DEF DeviceRec, NoMoreUsers
  <1>8. ASSUME NEW d, NEW b, dev' = [dev EXCEPT ![d].sparing = b] PROVE NoMoreUsers
    BY <1>1, <1>8 DEF DeviceRec, NoMoreUsers
  <1>9. ASSUME NEW d, NEW s, NEW b, dev' = [dev EXCEPT ![d].state = s, ![d].idle = b]
        PROVE  NoMoreUsers
    BY <1>1, <1>9 DEF DeviceRec, NoMoreUsers
  <1> QED BY <1>2, <1>3, <1>4, <1>5, <1>6, <1>7, <1>8, <1>9

\* place's device offers the users it did, or is a new one without.
LEMMA UsersBuilt ==
    ASSUME DevOK, NEW b, NEW d, dev' = WithBuild(b, d)
    PROVE  NoMoreUsers
  <1>1. /\ dev = [e \in Devices |-> dev[e]] /\ \A e \in Devices : dev[e] \in DeviceRec
    BY DEF DevOK
  <1> DEFINE rec == IF d = next.device THEN NewDevice ELSE dev[d]
             new == [rec EXCEPT !.installed[PackageOf[b]] = b, !.idle = FALSE]
  <1>2. d \in Devices => new.users \subseteq dev[d].users
    BY <1>1, NewDeviceOK DEF DeviceRec, NewDevice
  <1>3. dev' = [dev EXCEPT ![d] = new] BY DEF WithBuild
  <1> HIDE DEF new
  <1> QED BY <1>1, <1>2, <1>3 DEF NoMoreUsers

\* A thread at the end of its boot goes to wait at its instance's device.
LEMMA BootGoes == ASSUME TypeOK, NEW j \in Jobs, AfterBoot(j) PROVE ThreadGoes(j)
  <1>1. job[j] \in JobRec /\ job = [k \in Jobs |-> job[k]] BY DEF TypeOK
  <1>2. Idle.pc = "free" BY DEF Idle
  <1>3. CASE Goto(j, "warm") BY <1>1, <1>3 DEF Goto, JobRec, ThreadGoes, Launching
  <1>4. CASE Done(j) BY <1>1, <1>2, <1>4 DEF Done, ThreadGoes, Launching
  <1>5. CASE /\ Exists(job[j].inst)
             /\ job' = [job EXCEPT ![j] = [JobOf("wait", @.inst) EXCEPT
                          !.dev = inst[job[j].inst].device]]
    <2> DEFINE i == job[j].inst
               r == [JobOf("wait", i) EXCEPT !.dev = inst[i].device]
    <2>1. r.pc = "wait" /\ r.inst = i /\ r.dev = inst[i].device BY DEF JobOf, Idle
    <2>2. job'[j] = r BY <1>1, <1>5
    <2> QED BY <1>5, <2>1, <2>2 DEF ThreadGoes
  <1> QED BY <1>3, <1>4, <1>5 DEF AfterBoot

\* A launch's step, but its pick, goes on at its device or gives up.
LEMMA LaunchGoes ==
    ASSUME TypeOK, NEW j \in Jobs, LaunchStep(j), ~Pick(j)
    PROVE  ThreadGoes(j)
  <1>1. job[j] \in JobRec /\ job = [k \in Jobs |-> job[k]] BY DEF TypeOK
  <1>2. /\ Idle.pc = "free" /\ EndJob(job[j].inst).pc = "end"
        /\ JobOf("end", job[j].inst).pc = "end" /\ JobOf("own_read", job[j].inst).pc = "own_read"
        /\ \A d, h : [JobOf("own_card", job[j].inst) EXCEPT !.dev = d, !.hwc = h].pc = "own_card"
    BY DEF Idle, EndJob, JobOf
  <1>3. /\ Done(j) => ThreadGoes(j)
        /\ GotoEnd(j) => ThreadGoes(j)
        /\ \A pc : Goto(j, pc) /\ pc \notin Launching \cup {"offer"} => ThreadGoes(j)
        /\ \A pc : /\ Goto(j, pc) /\ pc \in Launching \ {"record"}
                   /\ job[j].pc \in Launching
                   => ThreadGoes(j)
    BY <1>1, <1>2 DEF Done, GotoEnd, Goto, JobRec, ThreadGoes, Launching
  <1>4. CASE WarmAgain(j) BY <1>3, <1>4 DEF WarmAgain, AfterWarm, Launching
  <1>5. CASE Uncold(j) BY <1>3, <1>5 DEF Uncold, AfterWarm, Launching
  <1>6. CASE Boot(j) BY <1>3, <1>6, BootGoes DEF Boot, Launching
  <1>7. CASE BootFailed(j) BY <1>7, BootGoes DEF BootFailed
  <1>8. CASE Wait(j) BY <1>3, <1>8 DEF Wait, At, Launching
  <1>9. CASE Set(j) BY <1>3, <1>9 DEF Set, At, Launching
  <1>10. CASE Turn(j) BY <1>3, <1>10 DEF Turn, At, Launching
  <1>11. CASE Install(j) BY <1>3, <1>11 DEF Install, GiveUp, At, Launching
  <1>12. CASE Record(j) BY <1>3, <1>12 DEF Record, Launching
  <1>13. CASE Display(j)
    <2>1. \/ \E h, k : job' = [job EXCEPT ![j].pc = "keep", ![j].hwc = h, ![j].flag = k]
          \/ GotoEnd(j)
      BY Zenon, <1>13 DEF Display
    <2>2. ASSUME NEW h, NEW k,
                 job' = [job EXCEPT ![j].pc = "keep", ![j].hwc = h, ![j].flag = k]
          PROVE  ThreadGoes(j)
      <3>1. job'[j].pc = "keep" BY <1>1, <2>2 DEF JobRec
      <3> QED BY <3>1 DEF ThreadGoes, Launching
    <2> QED BY Zenon, <1>3, <2>1, <2>2
  <1>14. CASE Keep(j) BY <1>3, <1>14 DEF Keep, Launching
  <1>15. CASE Start(j) BY <1>3, <1>15 DEF Start, GiveUp, Launching
  <1>16. CASE Started(j)
    BY <1>1, <1>2, <1>3, <1>16 DEF Started, ThreadGoes, Launching
  <1>17. CASE StartFailed(j)
    BY <1>1, <1>2, <1>3, <1>17 DEF StartFailed, ThreadGoes, Launching
  <1>18. CASE Failed(j) BY <1>3, <1>18 DEF Failed, Launching
  <1>19. CASE NotRestarted(j)
    <2>1. Done(j) \/ \E d, h : job' = [job EXCEPT ![j] =
             [JobOf("own_card", job[j].inst) EXCEPT !.dev = d, !.hwc = h]]
      BY Zenon, <1>19 DEF NotRestarted
    <2>2. ASSUME NEW d, NEW h, job' = [job EXCEPT ![j] =
                    [JobOf("own_card", job[j].inst) EXCEPT !.dev = d, !.hwc = h]]
          PROVE  ThreadGoes(j)
      <3>1. job'[j].pc = "own_card" BY <1>1, <1>2, <2>2
      <3> QED BY <3>1 DEF ThreadGoes, Launching
    <2> QED BY Zenon, <1>3, <2>1, <2>2
  <1> QED BY <1>4, <1>5, <1>6, <1>7, <1>8, <1>9, <1>10, <1>11, <1>12, <1>13, <1>14, <1>15,
             <1>16, <1>17, <1>18, <1>19 DEF LaunchStep

\* A relaunch that finds a place, or none, comes to no step that uses a device.
LEMMA PlacedTo ==
    ASSUME TypeOK, NEW j \in Jobs, PlaceAgain(j)
    PROVE  job'[j].pc \in {"free", "not_restarted", "warm_again", "leave_display"}
  <1> DEFINE i == job[j].inst
             d == inst[i].device
             pc == IF There(d) /\ inst[i].hwc # NoDisplay THEN "leave_display" ELSE "warm_again"
             Leaves == job' = [job EXCEPT ![j].pc = pc, ![j].dev = d, ![j].hwc = inst[i].hwc,
                                          ![j].boot = BootOf(PlacedOn(inst[i].apk))]
             Remains == job' = [job EXCEPT ![j].pc = "warm_again", ![j].boot = NoDevice]
  <1>1. job[j] \in JobRec /\ job = [k \in Jobs |-> job[k]] /\ Idle.pc = "free"
    BY DEF TypeOK, Idle
  <1>2. Done(j) \/ Goto(j, "not_restarted") \/ Remains \/ Leaves BY Zenon DEF PlaceAgain
  <1>3. pc \in {"leave_display", "warm_again"} OBVIOUS
  <1>4. CASE Done(j) \/ Goto(j, "not_restarted") \/ Remains
    BY <1>1, <1>4 DEF Done, Goto, JobRec
  <1> HIDE DEF pc, i, d
  <1>5. CASE Leaves BY <1>1, <1>3, <1>5 DEF JobRec
  <1> QED BY <1>2, <1>4, <1>5

\* The other threads come to no launch but by a boot, and to no offer but by a spare.
LEMMA OtherGoes ==
    ASSUME TypeOK, NEW j \in Jobs, Thread(j), ~LaunchStep(j), ~OwnEnd(j), ~Died(j), ~Spare(j)
    PROVE  ThreadGoes(j)
  <1>1. job[j] \in JobRec /\ job = [k \in Jobs |-> job[k]] BY DEF TypeOK
  <1>2. Idle.pc = "free" BY DEF Idle
  <1>3. /\ Done(j) => ThreadGoes(j)
        /\ \A pc : Goto(j, pc) /\ pc \notin Launching \cup {"offer"} => ThreadGoes(j)
        /\ \A r : job' = [job EXCEPT ![j] = r] /\ r.pc \notin Launching \cup {"offer"}
                  => ThreadGoes(j)
        /\ job'[j].pc \notin Launching \cup {"offer"} => ThreadGoes(j)
    BY <1>1, <1>2 DEF Done, Goto, JobRec, ThreadGoes, Launching
  <1>4. AfterUndo(j) => ThreadGoes(j) BY <1>3 DEF AfterUndo, Launching
  <1>5. AfterShow(j) => ThreadGoes(j) BY <1>3 DEF AfterShow, Launching
  <1>6. CASE End(j)
    <2>1. AfterUndo(j) \/ \E d : job' = [job EXCEPT ![j].pc = "undo", ![j].dev = d]
      BY <1>6 DEF End
    <2> QED BY Zenon, <1>1, <1>3, <1>4, <2>1 DEF JobRec, Launching
  <1>7. CASE Undo(j) BY <1>4, <1>7 DEF Undo
  <1>8. CASE Ended(j) \/ Halted(j) BY <1>3, <1>8 DEF Ended, Halted
  <1>9. CASE OwnRead(j)
    <2>1. Done(j) \/ \E d, u : job' = [job EXCEPT ![j].pc = "own_end", ![j].dev = d, ![j].user = u]
      BY Zenon, <1>9 DEF OwnRead
    <2> QED BY Zenon, <1>1, <1>3, <2>1 DEF JobRec, Launching
  <1>10. CASE OwnRemove(j) \/ OwnCard(j) BY <1>5, <1>10 DEF OwnRemove, OwnCard
  <1>11. CASE Halt(j) BY <1>3, <1>11 DEF Halt, Launching
  <1>12. CASE CountOver(j) \/ CountCard(j) \/ CountEnds(j)
    BY <1>3, <1>12 DEF CountOver, CountCard, CountEnds, Launching
  <1>13. CASE Count(j)
    <2>1. \E d, h : job' = [job EXCEPT ![j].pc = "count_card", ![j].dev = d, ![j].hwc = h]
      BY Zenon, <1>13 DEF Count
    <2> QED BY <1>1, <1>3, <2>1 DEF JobRec, Launching
  <1>14. CASE Relaunch(j) BY <1>3, <1>14 DEF Relaunch, Launching
  <1>15. CASE PlaceAgain(j) BY <1>15, PlacedTo DEF ThreadGoes, Launching
  <1>16. CASE LeaveDisplay(j) BY <1>3, <1>16 DEF LeaveDisplay, Launching
  <1>17. CASE Stop(j)
    <2>1. \A d : /\ [Idle EXCEPT !.pc = "cold", !.dev = d].pc = "cold"
                 /\ [Idle EXCEPT !.pc = "stop_guest", !.dev = d].pc = "stop_guest"
      BY DEF Idle
    <2>2. \/ Done(j)
          \/ \E d : \/ job' = [job EXCEPT ![j] = [Idle EXCEPT !.pc = "cold", !.dev = d]]
                    \/ job' = [job EXCEPT ![j] = [Idle EXCEPT !.pc = "stop_guest", !.dev = d]]
      BY Zenon, <1>17 DEF Stop, StopSection
    <2> QED BY Zenon, <1>3, <2>1, <2>2 DEF Launching
  <1>18. CASE KeepCold(j) \/ StopGuest(j) BY <1>3, <1>18 DEF KeepCold, StopGuest, Launching
  <1>19. CASE StopEnds(j) \/ Offer(j) \/ Remove(j) \/ OpenWindow(j) \/ StopAll(j)
    BY <1>3, <1>19 DEF StopEnds, Offer, Remove, OpenWindow, StopAll
  <1>20. CASE Warm(j)
    <2>1. Done(j) \/ \E d, n : job' = [job EXCEPT ![j].pc = "boot", ![j].boot = d, ![j].count = n]
      BY Zenon, <1>20 DEF Warm
    <2> QED BY Zenon, <1>1, <1>3, <2>1 DEF JobRec, Launching
  <1>21. CASE Ask(j) BY <1>3, <1>21 DEF Ask, Launching
  <1>22. CASE CloseWindow(j)
    <2>1. /\ EndJob(job[j].inst).pc = "end"
          /\ \A d, h : [JobOf("remove", job[j].inst) EXCEPT !.dev = d, !.hwc = h].pc = "remove"
      BY DEF EndJob, JobOf, Idle
    <2>2. \/ Done(j) \/ job' = [job EXCEPT ![j] = EndJob(job[j].inst)]
          \/ \E d, h : job' = [job EXCEPT ![j] =
                [JobOf("remove", job[j].inst) EXCEPT !.dev = d, !.hwc = h]]
      BY Zenon, <1>22 DEF CloseWindow, CloseOn, Done
    <2> QED BY Zenon, <1>3, <2>1, <2>2 DEF Launching
  <1> QED BY <1>6, <1>7, <1>8, <1>9, <1>10, <1>11, <1>12, <1>13, <1>14, <1>15, <1>16, <1>17,
             <1>18, <1>19, <1>20, <1>21, <1>22
          DEF Thread, EndStep, RestartStep, StopStep, OtherStep

\* One thread begun at a step that is no launch's own.
LEMMA SlotTaken ==
    ASSUME TypeOK, HasJob, NEW r, r.pc \notin Launching \cup {"offer"},
           job' = [job EXCEPT ![NewJob] = r], NEW k \in Jobs
    PROVE  ThreadGoes(k)
  BY FreshJob DEF TypeOK, ThreadGoes

\* Every thread's step but a pick's and a spare's.
LEMMA ThreadsGo ==
    ASSUME TypeOK, NEW j \in Jobs, Thread(j), ~Pick(j), ~Spare(j), NEW k \in Jobs
    PROVE  ThreadGoes(k)
  <1>1. CASE OwnEnd(j) BY <1>1, OwnEndSlots DEF ThreadGoes, Launching
  <1>2. CASE Died(j) BY <1>2, DiedSlots DEF ThreadGoes, Launching
  <1>3. CASE ~OwnEnd(j) /\ ~Died(j)
    <2>1. k # j => job'[k] = job[k] BY <1>3, OwnSlot
    <2>2. ThreadGoes(j) BY <1>3, LaunchGoes, OtherGoes
    <2> QED BY <2>1, <2>2 DEF ThreadGoes
  <1> QED BY <1>1, <1>2, <1>3

-----------------------------------------------------------------------------
(* What the steps make of records and of the devices' users *)

\* A thread's own instance stays where it is, as its user or as none.
LEMMA OwnStays ==
    ASSUME TypeOK, NEW j \in Jobs, Recording(j), ~Record(j), NEW k \in Instances
    PROVE  RecordStays(k)
  <1> DEFINE i == job[j].inst
  <1>1. /\ i \in Instances /\ inst = [x \in Instances |-> inst[x]]
        /\ \A x \in Instances : inst[x] \in InstanceRec
    BY Zenon DEF TypeOK, JobRec, PoolPCs, At, Recording, Set, Record, Keep, Started, StartFailed,
           NotRestarted, Undo, Ended, OpenWindow, OwnCard, CountCard
  <1>2. k # i => RecordStays(k) BY OwnRecord DEF RecordStays, Exists
  <1>3. CASE Set(j) BY <1>1, <1>3 DEF Set, RecordStays, Exists, InstanceRec
  <1>4. CASE Keep(j) BY <1>1, <1>4 DEF Keep, RecordDisplay, RecordStays, Exists, InstanceRec
  <1>5. CASE Started(j) BY <1>1, <1>5 DEF Started, RecordStays, Exists, InstanceRec
  <1>6. CASE StartFailed(j) BY <1>1, <1>6 DEF StartFailed, RecordStays, Exists, InstanceRec
  <1>7. CASE NotRestarted(j)
    <2>1. \/ UNCHANGED inst
          \/ inst' = [inst EXCEPT ![i].state = "ended"] /\ inst[i].state # "absent"
      BY <1>7 DEF NotRestarted
    <2> QED BY <1>1, <2>1 DEF RecordStays, Exists, InstanceRec
  <1>8. CASE Undo(j) BY <1>1, <1>8 DEF Undo, TakeDisplay, RecordStays, Exists, InstanceRec
  <1>9. CASE Ended(j) BY <1>1, <1>9 DEF Ended, RecordStays, Exists, InstanceRec
  <1>10. CASE OpenWindow(j) BY <1>1, <1>10 DEF OpenWindow, RecordStays, Exists, InstanceRec
  <1>11. CASE OwnCard(j) BY <1>1, <1>11 DEF OwnCard, ShowCard, RecordStays, Exists, InstanceRec
  <1>12. CASE CountCard(j)
    BY <1>1, <1>12 DEF CountCard, ShowCard, RecordStays, Exists, InstanceRec
  <1> QED BY <1>3, <1>4, <1>5, <1>6, <1>7, <1>8, <1>9, <1>10, <1>11, <1>12 DEF Recording

\* An instance closed.
LEMMA ClosedStays ==
    ASSUME TypeOK, NEW i \in Instances, Exists(i), NEW j, CloseOn(i, j), NEW k \in Instances
    PROVE  RecordStays(k)
  <1> DEFINE up == inst[i].hwc # NoDisplay /\ There(inst[i].device)
             off == [inst[i] EXCEPT !.hwc = NoDisplay, !.closed = @ \/ up]
             end == [inst[i] EXCEPT !.state = "closing", !.closed = TRUE, !.countdown = NoJob]
  <1>1. inst' = [inst EXCEPT ![i] = off] \/ inst' = [inst EXCEPT ![i] = end] BY DEF CloseOn
  <1> HIDE DEF up
  <1>2. /\ off.device = inst[i].device /\ off.user = inst[i].user
        /\ end.device = inst[i].device /\ end.user = inst[i].user
    BY DEF TypeOK, InstanceRec
  <1> HIDE DEF off, end
  <1> QED BY <1>1, <1>2, RecordPut

\* A stop uncounted, a countdown over, a question answered, a close.
LEMMA AnswerStays ==
    ASSUME TypeOK, NEW j \in Jobs, Halted(j) \/ Relaunch(j) \/ Ask(j) \/ CloseWindow(j),
           NEW k \in Instances
    PROVE  RecordStays(k)
  <1> DEFINE i == job[j].inst
  <1>1. /\ i \in Instances /\ inst = [x \in Instances |-> inst[x]]
        /\ \A x \in Instances : inst[x] \in InstanceRec
    BY DEF TypeOK, JobRec, PoolPCs, At, Halted, Relaunch, Ask, CloseWindow
  <1>2. CASE Halted(j)
    <2> DEFINE m == Monus(inst[i].halting, 1)
    <2>1. UNCHANGED inst \/ (Exists(i) /\ inst' = [inst EXCEPT ![i].halting = m])
      BY <1>1, <1>2 DEF Halted
    <2> HIDE DEF m
    <2> QED BY <1>1, <2>1 DEF RecordStays, Exists, InstanceRec
  <1>3. CASE Relaunch(j) BY <1>1, <1>3 DEF Relaunch, Counting, RecordStays, Exists, InstanceRec
  <1>4. CASE Ask(j)
    <2>1. \/ UNCHANGED inst
          \/ Exists(i) /\ inst' = Answered(i)
          \/ Exists(i) /\ inst' = [Answered(i) EXCEPT ![i].headless = TRUE]
      BY Zenon, <1>4 DEF Ask
    <2>2. CASE Exists(i) /\ inst' = Answered(i)
      BY <1>1, <2>2 DEF Answered, RecordStays, Exists, InstanceRec
    <2>3. CASE Exists(i) /\ inst' = [Answered(i) EXCEPT ![i].headless = TRUE]
      BY <1>1, <2>3 DEF Answered, RecordStays, Exists, InstanceRec
    <2> QED BY <2>1, <2>2, <2>3, RecordsSame
  <1>5. CASE CloseWindow(j) BY <1>1, <1>5, ClosedStays, RecordsSame DEF CloseWindow
  <1> QED BY <1>2, <1>3, <1>4, <1>5

\* The instances of a device that ends, or is being stopped.
LEMMA EndedStay ==
    ASSUME TypeOK, NEW d,
           inst' = AllEnd(d) \/ \E by_hand, j : StopSection(d, by_hand, j), NEW k \in Instances
    PROVE  RecordStays(k)
  <1>1. inst = [x \in Instances |-> inst[x]] /\ \A x \in Instances : inst[x] \in InstanceRec
    BY DEF TypeOK
  <1>2. CASE inst' = AllEnd(d)
    BY Zenon, <1>1, <1>2 DEF AllEnd, AfterGone, InstancesOn, RecordStays, Exists, InstanceRec
  <1>3. ASSUME NEW by_hand, NEW j, StopSection(d, by_hand, j) PROVE RecordStays(k)
    BY Zenon, <1>1, <1>3 DEF StopSection, RecordStays, Exists, InstanceRec
  <1> QED BY <1>2, <1>3

\* ended_on_its_own.
LEMMA OwnEndStays == ASSUME TypeOK, NEW j \in Jobs, OwnEnd(j), NEW k \in Instances
    PROVE RecordStays(k)
  <1> DEFINE i == job[j].inst
             halt == Alive(job[j].dev) /\ job[j].user # NoUser
             rec == Counted(inst[i], halt)
             Puts(r) == inst' = [inst EXCEPT ![i] = r]
             Same(r) == r.device = inst[i].device /\ r.user = inst[i].user
             Taken(r) == [[r EXCEPT !.state = "ended"] EXCEPT !.hwc = NoDisplay]
             Anew(r) == [r EXCEPT !.state = "restarting", !.countdown = NewJob]
             Card(r) == [r EXCEPT !.state = "ended"]
  <1>1. i \in Instances /\ inst[i] \in InstanceRec
    BY Zenon DEF OwnEnd, At, TypeOK, JobRec, PoolPCs
  <1>2. halt \in BOOLEAN BY DEF Alive
  <1>3. rec \in InstanceRec /\ Same(rec) BY <1>1, <1>2, EndCounted DEF Counted, InstanceRec
  <1>4. \/ UNCHANGED inst
        \/ /\ Exists(i)
           /\ \/ Puts(Taken(rec))
              \/ \E quick \in BOOLEAN :
                   LET r == CountEnd(rec, quick) IN Puts(Taken(r)) \/ Puts(Anew(r)) \/ Puts(Card(r))
    BY Zenon DEF OwnEnd, Live, Exists
  <1> HIDE DEF halt, rec
  <1>5. ASSUME NEW quick \in BOOLEAN
        PROVE  LET r == CountEnd(rec, quick) IN r \in InstanceRec /\ Same(r)
    BY <1>3, EndCounted DEF CountEnd, InstanceRec
  <1>6. ASSUME NEW r \in InstanceRec, Same(r), Exists(i),
               Puts(Taken(r)) \/ Puts(Anew(r)) \/ Puts(Card(r))
        PROVE  RecordStays(k)
    <2>1. Same(Taken(r)) /\ Same(Anew(r)) /\ Same(Card(r)) BY <1>6 DEF InstanceRec
    <2> HIDE DEF Taken, Anew, Card
    <2> QED BY <1>1, <1>6, <2>1, RecordPut
  <1>7. CASE UNCHANGED inst BY <1>7, RecordsSame
  <1>8. ASSUME Exists(i), Puts(Taken(rec)) PROVE RecordStays(k) BY Zenon, <1>3, <1>6, <1>8
  <1>9. ASSUME Exists(i), NEW quick \in BOOLEAN,
               LET r == CountEnd(rec, quick) IN Puts(Taken(r)) \/ Puts(Anew(r)) \/ Puts(Card(r))
        PROVE  RecordStays(k)
    <2> DEFINE r == CountEnd(rec, quick)
    <2>1. r \in InstanceRec /\ Same(r) BY <1>5
    <2> HIDE DEF r, Taken, Anew, Card
    <2> QED BY <1>6, <1>9, <2>1 DEF r
  <1> HIDE DEF Puts, Taken, Anew, Card
  <1> QED BY <1>4, <1>7, <1>8, <1>9

\* device_gone, of a device that died.
LEMMA DiedStays == ASSUME TypeOK, NEW j \in Jobs, Died(j), NEW k \in Instances PROVE RecordStays(k)
  <1> DEFINE d == job[j].dev
             relaunch == ~stopping
             runs == {i \in InstancesOn(d) : inst[i].state = "running" /\ ~inst[i].closed}
  <1>1. PICK auto \in [runs -> AutoRestart], quick \in [runs -> BOOLEAN] :
          LET counts == {i \in runs : relaunch /\ auto[i]}
              rec(i) == IF i \in counts THEN CountEnd(inst[i], quick[i]) ELSE inst[i]
              again  == {i \in counts : MayRestart(rec(i))}
              slot   == CHOOSE f \in Slots(again) : TRUE
          IN  inst' = [i \in Instances |->
                 IF i \notin InstancesOn(d) THEN inst[i]
                 ELSE AfterGone(rec(i), relaunch, i \in again,
                                IF i \in again THEN slot[i] ELSE NoJob)]
    BY DEF Died
  <1> DEFINE counts == {i \in runs : relaunch /\ auto[i]}
             rec(i) == IF i \in counts THEN CountEnd(inst[i], quick[i]) ELSE inst[i]
             again  == {i \in counts : MayRestart(rec(i))}
             slot   == CHOOSE f \in Slots(again) : TRUE
             r == rec(k)
             b == k \in again
             c == IF k \in again THEN slot[k] ELSE NoJob
  <1>2. inst'[k] = IF k \notin InstancesOn(d) THEN inst[k] ELSE AfterGone(r, relaunch, b, c)
    BY <1>1
  <1>3. r \in InstanceRec /\ r.device = inst[k].device /\ r.user = inst[k].user
    <2>1. inst[k] \in InstanceRec BY DEF TypeOK
    <2>2. CASE k \in counts
      <3> DEFINE q == quick[k]
      <3>1. q \in BOOLEAN BY <2>2
      <3>2. r = CountEnd(inst[k], q) BY <2>2
      <3> HIDE DEF q, r
      <3> QED BY <2>1, <3>1, <3>2, EndCounted DEF CountEnd, InstanceRec
    <2>3. CASE k \notin counts BY <2>1, <2>3
    <2> QED BY <2>2, <2>3
  <1> HIDE DEF r, b, c, d, relaunch
  <1>4. CASE k \notin InstancesOn(d) BY <1>2, <1>4 DEF RecordStays, Exists
  <1>5. CASE k \in InstancesOn(d)
    <2>1. inst'[k] = AfterGone(r, relaunch, b, c) /\ Exists(k) BY <1>2, <1>5 DEF InstancesOn
    <2>2. inst'[k].device = r.device /\ inst'[k].user \in {r.user, NoUser}
      BY <1>3, <2>1 DEF AfterGone, InstanceRec
    <2> QED BY <1>3, <2>1, <2>2 DEF RecordStays
  <1> QED BY <1>4, <1>5

\* clear_ended: forgotten, or ended on its device.
LEMMA ClearStays == ASSUME TypeOK, Clear, NEW i \in Instances PROVE RecordStays(i)
  <1> DEFINE off(rec) == IF rec.state = "restarting"
                         THEN [rec EXCEPT !.state = "ended", !.closed = TRUE, !.countdown = NoJob]
                         ELSE rec
             ended == {k \in Instances : inst[k].state \in {"restarting", "ended"}}
             cards == {k \in ended : inst[k].hwc # NoDisplay /\ There(inst[k].device)}
             x == IF i \in cards THEN NoDisplay ELSE off(inst[i]).hwc
             o == off(inst[i])
  <1>1. inst'[i] = IF i \notin ended THEN inst[i]
                   ELSE IF Forgets(inst[i]) THEN Forgotten(inst[i])
                   ELSE [o EXCEPT !.hwc = x]
    BY Zenon DEF Clear
  <1>2. inst[i] \in InstanceRec BY DEF TypeOK
  <1>3. o \in InstanceRec /\ o.device = inst[i].device /\ o.user = inst[i].user
    BY Zenon, <1>2 DEF InstanceRec, InstanceStates
  <1>4. i \in ended => Exists(i) BY DEF Exists
  <1>5. Forgotten(inst[i]).state = "absent" BY DEF Forgotten, AbsentInstance
  <1> HIDE DEF x, o, ended
  <1> QED BY <1>1, <1>3, <1>4, <1>5 DEF RecordStays, Exists, InstanceRec

\* restart: its user its own, or none.
LEMMA RestartStays ==
    ASSUME TypeOK, NEW i \in Instances, Restart(i), NEW k \in Instances
    PROVE  RecordStays(k)
  <1> DEFINE d == inst[i].device
             halt == inst[i].state = "running" /\ There(d) /\ inst[i].user # NoUser
             keeps == inst[i].state = "running" \/ inst[i].user \notin UsersTaken(d, i)
             rec == Counted(inst[i], halt)
             u == IF keeps THEN inst[i].user ELSE NoUser
             r == [rec EXCEPT !.state = "restarting", !.countdown = NewJob,
                      !.user = u, !.quick_ends = 0, !.closed = FALSE]
  <1>1. inst[i] \in InstanceRec /\ halt \in BOOLEAN BY DEF TypeOK
  <1>2. rec \in InstanceRec /\ rec.device = inst[i].device
    BY <1>1, EndCounted DEF Counted, InstanceRec
  <1>3. u \in {inst[i].user, NoUser} OBVIOUS
  <1>4. inst' = [inst EXCEPT ![i] = r] /\ Exists(i) BY DEF Restart, Restartable, Exists
  <1> HIDE DEF rec, u
  <1>5. r.device = inst[i].device /\ r.user = u BY <1>2 DEF InstanceRec
  <1> HIDE DEF r
  <1> QED BY <1>3, <1>4, <1>5, RecordPut

\* A thread's step but the two that place an instance or record its user.
LEMMA ThreadStays ==
    ASSUME TypeOK, NEW j \in Jobs, Thread(j), ~Record(j), ~PlaceAgain(j), NEW k \in Instances
    PROVE  RecordStays(k)
  <1>1. Recordless(j) => RecordStays(k) BY NoRecord, RecordsSame
  <1>2. LaunchStep(j) => RecordStays(k)
    BY <1>1, OwnStays, EndedStay DEF LaunchStep, Recordless, Recording, BootFailed
  <1>3. EndStep(j) => RecordStays(k)
    BY <1>1, OwnStays, AnswerStays, OwnEndStays DEF EndStep, Recordless, Recording
  <1>4. RestartStep(j) => RecordStays(k)
    BY <1>1, OwnStays, AnswerStays DEF RestartStep, Recordless, Recording
  <1>5. StopStep(j) => RecordStays(k)
    BY <1>1, EndedStay, DiedStays, RecordsSame DEF StopStep, Recordless, Stop, StopEnds, pool
  <1>6. OtherStep(j) => RecordStays(k)
    BY <1>1, OwnStays, AnswerStays DEF OtherStep, Recordless, Recording
  <1> QED BY <1>2, <1>3, <1>4, <1>5, <1>6 DEF Thread

\* Nor does a thread's step but a pick or an offer give a device more users,
LEMMA ThreadUsers ==
    ASSUME TypeOK, NEW j \in Jobs, Thread(j), ~Pick(j), ~Offer(j), ~PlaceAgain(j)
    PROVE  NoMoreUsers
  <1>0. DevOK BY DEF TypeOK, DevOK
  <1>1. CASE LaunchStep(j)
    BY Zenon, <1>0, <1>1, UsersSame
    DEF LaunchStep, WarmAgain, Uncold, Boot, BootFailed, Wait, Set, Turn, Install, Record, Display,
        Keep, Start, Started, StartFailed, Failed, NotRestarted, GiveUp, pool
  <1>2. CASE EndStep(j)
    BY Zenon, <1>0, <1>2, UsersSame
    DEF EndStep, End, Undo, Ended, OwnRead, OwnEnd, OwnRemove, OwnCard, Halt, Halted, pool
  <1>3. CASE RestartStep(j)
    BY <1>0, <1>3, UsersSame
    DEF RestartStep, CountOver, Count, CountCard, CountEnds, Relaunch, LeaveDisplay, pool
  <1>4. CASE StopStep(j)
    BY Zenon, <1>0, <1>4, UsersSame
    DEF StopStep, Stop, StopSection, KeepCold, StopGuest, StopEnds, Died, pool
  <1>5. CASE OtherStep(j)
    <2>1. CASE Warm(j)
      <3>1. UNCHANGED dev \/ dev' = [dev EXCEPT ![next.device] = NewDevice]
        BY <2>1 DEF Warm
      <3>2. NewDevice.users = {} BY DEF NewDevice
      <3> QED BY <1>0, <3>1, <3>2 DEF NoMoreUsers, DevOK
    <2>2. CASE Spare(j) \/ Remove(j) \/ Ask(j) \/ OpenWindow(j) \/ StopAll(j)
      BY <1>0, <2>2, UsersSame DEF Spare, Remove, Ask, OpenWindow, StopAll, pool
    <2>3. CASE CloseWindow(j)
      BY <1>0, <2>3, UsersSame DEF CloseWindow, CloseOn
    <2> QED BY <1>5, <2>1, <2>2, <2>3 DEF OtherStep
  <1> QED BY <1>1, <1>2, <1>3, <1>4, <1>5 DEF Thread

\* or make one, but a pick's or a spare's; ids of instances are a launch's to give.
LEMMA ThreadMakes ==
    ASSUME TypeOK, NEW j \in Jobs, Thread(j)
    PROVE  /\ ~Pick(j) /\ ~Spare(j) => UNCHANGED made
           /\ next'.instance = next.instance
  <1>0. \A d : LET n == [next EXCEPT !.device = d] IN n.instance = next.instance BY DEF TypeOK
  <1>1. CASE LaunchStep(j)
    BY Zenon, <1>1
    DEF LaunchStep, WarmAgain, Uncold, Boot, BootFailed, Wait, Set, Turn, Install, Pick, Record, Display,
        Keep, Start, Started, StartFailed, Failed, NotRestarted, pool, guest
  <1>2. CASE EndStep(j)
    BY Zenon, <1>2
    DEF EndStep, End, Undo, Ended, OwnRead, OwnEnd, OwnRemove, OwnCard, Halt, Halted, pool, guest
  <1>3. CASE PlaceAgain(j)
    <2>1. UNCHANGED made BY Zenon, <1>3 DEF PlaceAgain, guest
    <2>2. UNCHANGED next \/ \E d : next' = [next EXCEPT !.device = d] BY Zenon, <1>3 DEF PlaceAgain
    <2> QED BY Zenon, <1>0, <2>1, <2>2
  <1>4. CASE RestartStep(j) /\ ~PlaceAgain(j)
    BY <1>4 DEF RestartStep, CountOver, Count, CountCard, CountEnds, Relaunch, LeaveDisplay, pool, guest
  <1>5. CASE StopStep(j)
    BY Zenon, <1>5 DEF StopStep, Stop, StopSection, KeepCold, StopGuest, StopEnds, Died, GuestEnds,
                pool, guest
  <1>6. CASE Warm(j)
    <2>1. UNCHANGED made BY <1>6 DEF Warm, guest
    <2>2. UNCHANGED next \/ \E d : next' = [next EXCEPT !.device = d] BY <1>6 DEF Warm
    <2> QED BY Zenon, <1>0, <2>1, <2>2
  <1>7. CASE Spare(j) BY <1>7 DEF Spare
  <1>8. CASE Remove(j) \/ OpenWindow(j) \/ StopAll(j)
    BY <1>8 DEF Remove, OpenWindow, StopAll, GuestEnds, pool
  <1>9. CASE Ask(j) BY <1>9 DEF Ask
  <1>10. CASE CloseWindow(j) \/ Offer(j) BY <1>10 DEF CloseWindow, Offer, guest
  <1> QED BY <1>1, <1>2, <1>3, <1>4, <1>5, <1>6, <1>7, <1>8, <1>9, <1>10
          DEF Thread, RestartStep, OtherStep

-----------------------------------------------------------------------------
(* Every step keeps the invariant *)

\* A thread's, but the five that are about a user.
LEMMA MostSpares ==
    ASSUME SpareInv, TypeOK', NEW j \in Jobs, Thread(j),
           ~Pick(j), ~Record(j), ~PlaceAgain(j), ~Spare(j), ~Offer(j)
    PROVE  SpareInv'
  <1>0. TypeOK BY DEF SpareInv
  <1>1. UNCHANGED made /\ next'.instance = next.instance BY <1>0, ThreadMakes
  <1>2. MadeOn BY <1>0, <1>1, ConstantsOK DEF MadeOn, TypeOK
  <1>3. NoMoreUsers BY <1>0, ThreadUsers
  <1>4. \A k \in Jobs : ThreadGoes(k) BY <1>0, ThreadsGo
  <1>5. \A i \in Instances : RecordStays(i) BY <1>0, ThreadStays
  <1> QED BY <1>1, <1>2, <1>3, <1>4, <1>5, SparesStay

\* run_launch's choice of a user: one the device offers, or one it makes.
LEMMA PickSpares ==
    ASSUME SpareInv, TypeOK', NEW j \in Jobs, Pick(j)
    PROVE  SpareInv'
  <1> DEFINE d == job[j].dev
             new == made[d] + 1
             With(u) == job' = [job EXCEPT ![j].pc = "record", ![j].user = u]
             Old == /\ There(d) /\ \E u \in dev[d].users : With(u)
                    /\ UNCHANGED <<dev, made>>
             New == /\ Alive(d) /\ made' = [made EXCEPT ![d] = new] /\ With(new)
                    /\ UNCHANGED dev \/ dev' = [dev EXCEPT ![d].users = @ \cup {new}]
             None == MayLeaveUser(d) /\ GiveUp(j, "failed")
  <1>1. /\ TypeOK /\ job[j].pc = "pick" /\ job[j] \in JobRec /\ UNCHANGED <<inst, next>>
        /\ job = [k \in Jobs |-> job[k]] /\ made = [e \in Devices |-> made[e]]
        /\ dev = [e \in Devices |-> dev[e]] /\ \A e \in Devices : dev[e] \in DeviceRec
        /\ \A e \in Devices : made[e] \in Nat
        /\ next.instance \in Nat
    BY ConstantsOK DEF Pick, At, SpareInv, TypeOK
  <1>2. Old \/ New \/ None
    <2> DEFINE known == IF There(d) THEN dev[d].users ELSE {}
               free == known \ UsersTaken(d, job[j].inst)
               Mine == /\ inst[job[j].inst].user \in free /\ With(inst[job[j].inst].user)
                       /\ UNCHANGED <<dev, made>>
               Free1 == (\E u \in free : With(u)) /\ UNCHANGED <<dev, made>>
               Made == /\ Alive(d) /\ made' = [made EXCEPT ![d] = new]
                       /\ dev' = IF There(d) THEN [dev EXCEPT ![d].users = @ \cup {new}] ELSE dev
                       /\ With(new)
               Fails1 == MayLeaveUser(d) /\ GiveUp(j, "failed")
    <2>1. Mine \/ Free1 \/ Made \/ Fails1 BY Zenon DEF Pick, MayLeaveUser
    <2>2. \A u \in free : There(d) /\ u \in dev[d].users OBVIOUS
    <2> HIDE DEF free, With
    <2>3. Mine => Old BY <2>2
    <2>4. Free1 => Old BY <2>2
    <2>5. Made => New OBVIOUS
    <2> QED BY <2>1, <2>3, <2>4, <2>5
  <1> HIDE DEF Old, New, None
  <1>3. MadeOn
    <2>1. UNCHANGED made \/ made' = [made EXCEPT ![d] = @ + 1]
      BY <1>2 DEF Old, New, None, MayLeaveUser
    <2> HIDE DEF d
    <2> QED BY <1>1, <2>1 DEF MadeOn
  <1>4. /\ \A k \in Jobs \ {j} : job'[k] = job[k]
        /\ job'[j].pc \in {"record", "failed"} /\ job'[j].inst = job[j].inst /\ job'[j].dev = d
    <2>1. Goto(j, "failed") \/ \E u : With(u) BY <1>2 DEF Old, New, None, GiveUp
    <2>2. CASE Goto(j, "failed") BY <1>1, <2>2 DEF Goto, JobRec
    <2>3. ASSUME NEW u, With(u)
          PROVE  /\ \A k \in Jobs \ {j} : job'[k] = job[k]
                 /\ job'[j].pc = "record" /\ job'[j].inst = job[j].inst /\ job'[j].dev = d
      BY <1>1, <2>3 DEF JobRec
    <2> QED BY <2>1, <2>2, <2>3
  <1>5. SparesGo BY <1>1, <1>4 DEF SparesGo
  <1>6. ASSUME New, NEW e, NEW v, e = d, v = new PROVE e \in Devices /\ Kept(e, v)'
    <2>2. e \in Devices /\ made'[e] = v /\ made[e] \in Nat /\ v = made[e] + 1
      BY Zenon, <1>1, <1>6 DEF New, Alive
    <2>3. ASSUME NEW k \in Jobs, job'[k].pc = "offer", job'[k].dev = e PROVE job'[k].user # v
      <3>1. job'[k] = job[k] BY <1>4, <2>3
      <3>2. job[k].user <= made[e] /\ job[k].user \in Users
        BY <1>1, <2>3, <3>1 DEF SpareInv, SparesOK, At, TypeOK, JobRec
      <3>3. job[k].user \in Nat BY <3>2, ConstantsOK DEF Users
      <3> QED BY <2>2, <3>1, <3>2, <3>3
    <2>4. v \in 1..made'[e] BY <2>2
    <2> QED BY <2>2, <2>3, <2>4 DEF Kept, At
  <1>7. \A e \in Devices : \A u : Kept(e, u) => Kept(e, u)'
    BY <1>3, <1>5, KeptOn
  <1>8. job'[j].pc = "record" => \E e \in Devices : \E u :
           job'[j].dev = e /\ job'[j].user = u /\ Kept(e, u)'
    <2>1. CASE Old
      <3>1. PICK u \in dev[d].users : With(u) BY <2>1 DEF Old
      <3>2. d \in Devices BY <2>1 DEF Old, There
      <3>3. Kept(d, u) BY <3>2 DEF SpareInv, UsersKept
      <3>4. \A e \in Devices : e = d => Kept(e, u)' BY <1>7, <3>3
      <3>5. job'[j].user = u BY <1>1, <3>1 DEF JobRec
      <3> QED BY <1>4, <3>2, <3>4, <3>5
    <2>2. CASE New
      <3>1. job'[j].user = new BY Zenon, <1>1, <2>2 DEF New, JobRec
      <3> QED BY <1>4, <1>6, <2>2, <3>1
    <2>3. CASE None
      <3>1. job'[j].pc = "failed" BY <1>1, <2>3 DEF None, GiveUp, Goto, JobRec
      <3> QED BY <3>1
    <2> QED BY <1>2, <2>1, <2>2, <2>3
  <1>9. LaunchesGo
    BY <1>1, <1>4, <1>8 DEF LaunchesGo, Launching
  <1>10. PlacesGo BY <1>1 DEF PlacesGo, SpareInv, Given, Exists
  <1>11. UsersGo
    <2>1. CASE UNCHANGED dev BY <2>1 DEF UsersGo
    <2>2. CASE None
      <3>1. dev' = Release(d) BY <2>2 DEF None, GiveUp
      <3>2. NoMoreUsers BY <1>1, <3>1, UsersSame DEF TypeOK, DevOK
      <3> QED BY <3>2 DEF NoMoreUsers, UsersGo
    <2>3. CASE New /\ dev' = [dev EXCEPT ![d].users = @ \cup {new}]
      <3>1. \A e \in Devices : dev'[e].users \subseteq
               IF e = d THEN dev[e].users \cup {new} ELSE dev[e].users
        BY <1>1, <2>3 DEF DeviceRec
      <3>2. ASSUME NEW e \in Devices, NEW v \in dev'[e].users PROVE v \in dev[e].users \/ Kept(e, v)'
        BY <1>6, <2>3, <3>1, <3>2
      <3> QED BY <3>2 DEF UsersGo
    <2> QED BY <1>2, <2>1, <2>2, <2>3 DEF Old, New
  <1> QED BY <1>1, <1>3, <1>5, <1>9, <1>10, <1>11, SparesFramed

\* Its record: the instance gets the user picked, on the device it was picked on.
LEMMA RecordSpares ==
    ASSUME SpareInv, TypeOK', NEW j \in Jobs, Record(j)
    PROVE  SpareInv'
  <1> DEFINE i == job[j].inst
             d == job[j].dev
             u == job[j].user
  <1>1. /\ TypeOK /\ At(j, "record") /\ i \in Instances /\ UNCHANGED <<next, made>>
        /\ inst = [k \in Instances |-> inst[k]] /\ \A k \in Instances : inst[k] \in InstanceRec
        /\ LaunchStep(j) /\ ~Pick(j)
    BY DEF Record, guest, SpareInv, TypeOK, JobRec, PoolPCs, At, LaunchStep, Pick
  <1>2. MadeOn /\ next.instance <= next'.instance
    BY <1>1, ConstantsOK DEF MadeOn, TypeOK
  <1>3. \A k \in Jobs : ThreadGoes(k)
    <2>1. ~Spare(j) /\ Thread(j) BY <1>1 DEF Spare, At, Thread
    <2> QED BY <1>1, <2>1, ThreadsGo
  <1>4. SparesGo BY <1>3 DEF SparesGo, ThreadGoes, Launching
  <1>5. LaunchesGo BY <1>3 DEF LaunchesGo, ThreadGoes
  <1>6. ASSUME NEW e, NEW v, e = d, v = u PROVE e \in Devices /\ Kept(e, v)'
    <2>1. e \in Devices /\ Kept(e, v) BY <1>1, <1>6 DEF SpareInv, UsersKept
    <2> QED BY <1>2, <1>4, <2>1, KeptOn
  <1>7. PlacesGo
    <2>1. CASE UNCHANGED inst BY <1>1, <2>1 DEF PlacesGo, SpareInv, Given, Exists
    <2>2. CASE inst[i].state = "installing"
               /\ inst' = [inst EXCEPT ![i].user = u, ![i].state = "starting"]
      <3>1. Exists(i) /\ inst[i].device = d /\ i < next.instance
        BY <1>1, <2>2 DEF Exists, SpareInv, OnDevice, Given, At, Launching
      <3>2. inst'[i].device = d /\ inst'[i].user = u BY <1>1, <2>2, <3>1 DEF InstanceRec
      <3>3. \A k \in Instances \ {i} : inst'[k] = inst[k] BY <1>1, <2>2
      <3>4. \E e \in Devices : \E v : inst'[i].device = e /\ inst'[i].user = v /\ Kept(e, v)'
        BY <1>6, <3>2
      <3> HIDE DEF d, u, i
      <3> QED BY <1>1, <3>1, <3>2, <3>3, <3>4 DEF PlacesGo, SpareInv, Given, Exists
    <2> QED BY <2>1, <2>2 DEF Record
  <1>8. UsersGo
    <2>1. UNCHANGED dev \/ dev' = Release(d) BY DEF Record
    <2>2. NoMoreUsers BY <1>1, <2>1, UsersSame DEF TypeOK, DevOK
    <2> QED BY <2>2 DEF NoMoreUsers, UsersGo
  <1> QED BY <1>2, <1>4, <1>5, <1>7, <1>8, SparesFramed

\* relaunch: a place of its own device, or of another that no other launch of it knows.
LEMMA PlaceSpares ==
    ASSUME SpareInv, OneLaunch, TypeOK', NEW j \in Jobs, PlaceAgain(j)
    PROVE  SpareInv'
  <1> DEFINE i == job[j].inst
             b == inst[i].apk
             n == PlacedOn(b)
  <1>1. /\ TypeOK /\ At(j, "place") /\ i \in Instances /\ UNCHANGED made
        /\ inst = [k \in Instances |-> inst[k]] /\ \A k \in Instances : inst[k] \in InstanceRec
        /\ dev = [e \in Devices |-> dev[e]] /\ \A e \in Devices : dev[e] \in DeviceRec
        /\ Thread(j) /\ ~Pick(j) /\ ~Spare(j) /\ DevOK
    BY Zenon DEF PlaceAgain, guest, SpareInv, TypeOK, JobRec, PoolPCs, At, Thread, RestartStep, Pick, Spare,
           DevOK
  <1>2. MadeOn /\ next'.instance = next.instance /\ next.instance \in Nat
    BY <1>1, ConstantsOK, ThreadMakes DEF MadeOn, TypeOK
  <1>3. \A k \in Jobs : ThreadGoes(k) BY <1>1, ThreadsGo
  <1>4. NoMoreUsers
    <2> DEFINE Stays == dev' = [dev EXCEPT ![inst[i].device].installed[Package(i)] = b,
                                           ![inst[i].device].idle = FALSE]
    <2>1. UNCHANGED dev \/ Stays \/ dev' = WithBuild(b, n) BY Zenon DEF PlaceAgain
    <2>2. CASE Stays BY Zenon, <1>1, <2>2 DEF DeviceRec, NoMoreUsers
    <2> HIDE DEF Stays, b, n
    <2> QED BY <1>1, <2>1, <2>2, UsersSame, UsersBuilt
  <1>5. CASE UNCHANGED inst
    <2>1. \A k \in Instances : RecordStays(k) BY <1>5, RecordsSame
    <2> QED BY <1>2, <1>3, <1>4, <2>1, SparesStay
  <1>6. CASE inst[i].state = "waiting" /\ inst' = Moved(i, n)
    <2>1. Exists(i) /\ i < next.instance BY <1>1, <1>6 DEF Exists, SpareInv, Given
    <2>2. inst'[i].user = NoUser /\ \A k \in Instances \ {i} : inst'[k] = inst[k]
      BY Zenon, <1>1, <1>6 DEF Moved, InstanceRec
    <2>3. ASSUME NEW k \in Jobs, job'[k].pc \in Launching PROVE job'[k].inst # i
      <3>1. i # NoInstance BY <1>1, ConstantsOK DEF Instances, NoInstance
      <3>2. k # j BY <1>1, <2>3, PlacedTo DEF Launching
      <3>3. job'[k] = job[k] BY Zenon, <1>1, <3>2, OwnSlot DEF At, OwnEnd, Died
      <3>4. job[k].pc \in LaunchPCs /\ job[j].pc \in LaunchPCs
        BY <1>1, <2>3, <3>3 DEF LaunchPCs, Holding, Launching, At
      <3> QED BY <3>1, <3>2, <3>3, <3>4 DEF OneLaunch
    <2>4. PlacesGo
      <3> HIDE DEF i
      <3> QED BY <1>1, <1>2, <2>1, <2>2, <2>3 DEF PlacesGo, SpareInv, Given, Exists
    <2>5. SparesGo BY <1>3 DEF SparesGo, ThreadGoes, Launching
    <2>6. LaunchesGo BY <1>3 DEF LaunchesGo, ThreadGoes
    <2>7. UsersGo BY <1>4 DEF NoMoreUsers, UsersGo
    <2> QED BY <1>2, <2>4, <2>5, <2>6, <2>7, SparesFramed
  <1>7. UNCHANGED inst \/ (inst[i].state = "waiting" /\ inst' = Moved(i, n)) BY Zenon DEF PlaceAgain
  <1> QED BY <1>5, <1>6, <1>7

\* A user made ahead is the newest of its device, and in no other's hands.
LEMMA SpareSpares ==
    ASSUME SpareInv, TypeOK', NEW j \in Jobs, Spare(j)
    PROVE  SpareInv'
  <1> DEFINE d == job[j].dev
             new == made[d] + 1
             Made == /\ Alive(d) /\ made' = [made EXCEPT ![d] = new] /\ UNCHANGED dev
                     /\ job' = [job EXCEPT ![j].pc = "offer", ![j].user = new]
             None == /\ UNCHANGED made \/ made' = [made EXCEPT ![d] = @ + 1]
                     /\ dev' = [dev EXCEPT ![d].sparing = FALSE]
                     /\ Done(j)
  <1>1. /\ TypeOK /\ DevOK /\ job[j] \in JobRec /\ UNCHANGED <<inst, next>>
        /\ job = [k \in Jobs |-> job[k]] /\ made = [e \in Devices |-> made[e]]
        /\ \A e \in Devices : made[e] \in Nat
        /\ next.instance \in Nat /\ Idle.pc = "free"
    BY ConstantsOK DEF Spare, SpareInv, TypeOK, DevOK, Idle
  <1>2. Made \/ None BY DEF Spare, MayLeaveUser
  <1>3. MadeOn
    <2>1. UNCHANGED made \/ made' = [made EXCEPT ![d] = @ + 1] BY <1>2
    <2> HIDE DEF d
    <2> QED BY <1>1, <2>1 DEF MadeOn
  <1>4. \A k \in Jobs \ {j} : job'[k] = job[k] BY <1>1, <1>2 DEF Done
  <1>5. SparesGo /\ job'[j].pc \notin Launching
    <2>1. CASE Made
      <3>1. d \in Devices /\ made'[d] = new /\ made[d] < new
        <4>1. d \in Devices /\ made' = [made EXCEPT ![d] = new] BY <2>1 DEF Alive
        <4> HIDE DEF d, Made
        <4> QED BY <1>1, <4>1
      <3> HIDE DEF new
      <3>2. job'[j].pc = "offer" /\ job'[j].dev = d /\ job'[j].user = new
        BY <1>1, <2>1 DEF JobRec
      <3> HIDE DEF d, Made
      <3> QED BY <1>4, <3>1, <3>2 DEF SparesGo, Launching
    <2>2. CASE None
      <3>1. job'[j].pc = "free" BY <1>1, <2>2 DEF Done
      <3> QED BY <1>4, <3>1 DEF SparesGo, Launching
    <2> QED BY <1>2, <2>1, <2>2
  <1>6. LaunchesGo BY <1>4, <1>5 DEF LaunchesGo
  <1>7. PlacesGo BY <1>1 DEF PlacesGo, SpareInv, Given, Exists
  <1>8. UsersGo
    <2>1. NoMoreUsers BY <1>1, <1>2, UsersSame
    <2> QED BY <2>1 DEF NoMoreUsers, UsersGo
  <1> QED BY <1>1, <1>3, <1>5, <1>6, <1>7, <1>8, SparesFramed

\* Offered, it is nobody's who makes one ahead.
LEMMA OfferSpares ==
    ASSUME SpareInv, TypeOK', NEW j \in Jobs, Offer(j)
    PROVE  SpareInv'
  <1> DEFINE d == job[j].dev
             u == job[j].user
  <1>1. /\ TypeOK /\ At(j, "offer") /\ UNCHANGED <<inst, next, made>>
        /\ job' = [job EXCEPT ![j] = Idle] /\ job = [k \in Jobs |-> job[k]]
        /\ dev = [e \in Devices |-> dev[e]] /\ \A e \in Devices : dev[e] \in DeviceRec
        /\ \A e \in Devices : made[e] \in Nat
        /\ next.instance \in Nat /\ Idle.pc = "free"
        /\ u \in Users
    BY ConstantsOK DEF Offer, Done, guest, SpareInv, TypeOK, Idle, At, JobRec
  <1>2. MadeOn BY <1>1 DEF MadeOn
  <1>3. SparesGo /\ LaunchesGo
    BY <1>1 DEF SparesGo, LaunchesGo, Launching
  <1>4. PlacesGo BY <1>1 DEF PlacesGo, SpareInv, Given, Exists
  <1>5. ASSUME NEW e, NEW v, e = d, v = u PROVE e \in Devices /\ Kept(e, v)'
    <2>1. e \in Devices /\ v <= made[e] BY <1>1, <1>5 DEF SpareInv, SparesOK
    <2>2. v \in 1..made'[e] BY <1>1, <1>5, <2>1, ConstantsOK DEF Users
    <2>3. ASSUME NEW k \in Jobs, job'[k].pc = "offer", job'[k].dev = e PROVE job'[k].user # v
      <3>1. k # j /\ job'[k] = job[k] BY <1>1, <2>3
      <3> QED BY <1>1, <1>5, <2>3, <3>1 DEF SpareInv, SparesOK, At
    <2> QED BY <2>1, <2>2, <2>3 DEF Kept, At
  <1>6. UsersGo
    <2> DEFINE now == IF There(d) THEN dev[d].users \cup {u} ELSE dev[d].users
    <2>1. dev' = [dev EXCEPT ![d].sparing = FALSE, ![d].users = now] BY DEF Offer
    <2>2. now \subseteq dev[d].users \cup {u} OBVIOUS
    <2> HIDE DEF now
    <2>3. \A e \in Devices : dev'[e].users \subseteq
             IF e = d THEN dev[e].users \cup {u} ELSE dev[e].users
      BY <1>1, <2>1, <2>2 DEF DeviceRec
    <2>4. ASSUME NEW e \in Devices, NEW v \in dev'[e].users PROVE v \in dev[e].users \/ Kept(e, v)'
      BY <1>5, <2>3, <2>4
    <2> QED BY <2>4 DEF UsersGo
  <1> QED BY <1>1, <1>2, <1>3, <1>4, <1>6, SparesFramed

\* A thread's step.
LEMMA ThreadSpares ==
    ASSUME SpareInv, OneLaunch, TypeOK', NEW j \in Jobs, Thread(j)
    PROVE  SpareInv'
  BY MostSpares, PickSpares, RecordSpares, PlaceSpares, SpareSpares, OfferSpares

\* A step that makes no user and gives no id.
LEMMA QuietSpares ==
    ASSUME SpareInv, TypeOK', UNCHANGED <<made, next>>, NoMoreUsers,
           \A j \in Jobs : ThreadGoes(j), \A i \in Instances : RecordStays(i)
    PROVE  SpareInv'
  <1>1. MadeOn BY ConstantsOK DEF MadeOn, SpareInv, TypeOK
  <1> QED BY <1>1, SparesStay

\* Nothing happens to the threads.
LEMMA NoThread == ASSUME UNCHANGED job PROVE \A j \in Jobs : ThreadGoes(j)
  BY DEF ThreadGoes

\* The ticker's.
LEMMA TickerSpares == ASSUME SpareInv, TypeOK', Ticker PROVE SpareInv'
  <1>0. /\ TypeOK /\ DevOK
        /\ \A i : /\ JobOf("remove", i).pc = "remove" /\ JobOf("ask", i).pc = "ask"
                  /\ JobOf("close", i).pc = "close" /\ JobOf("own_read", i).pc = "own_read"
        /\ inst = [i \in Instances |-> inst[i]] /\ \A i \in Instances : inst[i] \in InstanceRec
    BY DEF SpareInv, TypeOK, DevOK, JobOf, Idle
  <1>1. ASSUME NEW d \in Devices, TickReady(d) PROVE SpareInv'
    <2>1. dev' = [dev EXCEPT ![d].state = "ready", ![d].idle = TRUE] BY <1>1 DEF TickReady
    <2>2. NoMoreUsers BY <1>0, <2>1, UsersSame
    <2> QED BY <1>1, <2>2, NoThread, RecordsSame, QuietSpares DEF TickReady, guest
  <1>2. CASE TickIdle
    BY <1>0, <1>2, UsersSame, NoThread, RecordsSame, QuietSpares DEF TickIdle, guest
  <1>3. ASSUME NEW d \in Devices, TickGone(d) \/ TickClose(d) \/ TickSpare(d) PROVE SpareInv'
    <2> DEFINE r(pc) == [Idle EXCEPT !.pc = pc, !.dev = d]
               Begun(pc) == job' = [job EXCEPT ![NewJob] = r(pc)]
    <2>1. \A pc : r(pc).pc = pc BY DEF Idle
    <2>2. UNCHANGED <<made, next, inst>> /\ HasJob
      BY <1>3 DEF TickGone, TickClose, TickSpare, pool, guest
    <2>3. UNCHANGED dev \/ dev' = [dev EXCEPT ![d].sparing = TRUE]
      BY <1>3 DEF TickGone, TickClose, TickSpare, pool
    <2>4. PICK pc \in {"died", "stop", "spare"} : Begun(pc)
      BY <1>3 DEF TickGone, TickClose, TickSpare
    <2>5. r(pc).pc \notin Launching \cup {"offer"} BY <2>1 DEF Launching
    <2> HIDE DEF r
    <2>6. \A k \in Jobs : ThreadGoes(k) BY <1>0, <2>2, <2>4, <2>5, SlotTaken
    <2> QED BY <1>0, <2>2, <2>3, <2>6, UsersSame, RecordsSame, QuietSpares
  <1>4. CASE TickWarm
    <2> DEFINE n == ToWarm(IdleViews([d \in Devices |-> 0]), keep_warm, max_devices)
               r == [Idle EXCEPT !.pc = "warm", !.flag = TRUE, !.count = n]
    <2>1. /\ job' = [job EXCEPT ![NewJob] = r] /\ HasJob /\ UNCHANGED <<made, next, inst, dev>>
      BY <1>4 DEF TickWarm, pool, guest
    <2>2. r.pc \notin Launching \cup {"offer"} BY DEF Idle, Launching
    <2> HIDE DEF r
    <2>3. \A k \in Jobs : ThreadGoes(k) BY <1>0, <2>1, <2>2, SlotTaken
    <2> QED BY <1>0, <2>1, <2>3, UsersSame, RecordsSame, QuietSpares
  <1>5. ASSUME NEW i \in Instances, TickWindow(i) \/ TickEnded(i) PROVE SpareInv'
    <2>1. UNCHANGED <<dev, next, made>> /\ HasJob BY <1>5 DEF TickWindow, TickEnded, guest
    <2>2. \E r : /\ r.pc \notin Launching \cup {"offer"}
                 /\ job' = [job EXCEPT ![NewJob] = r]
      <3>1. CASE TickEnded(i) BY <1>0, <3>1 DEF TickEnded, Launching
      <3>2. CASE TickWindow(i)
        <4>1. [JobOf("remove", i) EXCEPT !.dev = inst[i].device, !.hwc = inst[i].hwc].pc = "remove"
          BY DEF JobOf, Idle
        <4> QED BY <1>0, <3>2, <4>1 DEF TickWindow, Launching
      <3> QED BY <1>5, <3>1, <3>2
    <2>3. \A k \in Jobs : ThreadGoes(k) BY <1>0, <2>1, <2>2, SlotTaken
    <2>4. \A k \in Instances : RecordStays(k)
      <3>1. CASE TickEnded(i)
        BY <1>0, <3>1 DEF TickEnded, RecordStays, Exists, InstanceRec
      <3>2. CASE TickWindow(i)
        BY <1>0, <3>2 DEF TickWindow, TakeDisplay, RecordStays, Exists, InstanceRec
      <3> QED BY <1>5, <3>1, <3>2
    <2> QED BY <1>0, <2>1, <2>3, <2>4, UsersSame, QuietSpares
  <1> QED BY <1>1, <1>2, <1>3, <1>4, <1>5 DEF Ticker

\* A launch's instance is new to every thread.
LEMMA LaunchSpares == ASSUME SpareInv, TypeOK', NEW b \in Builds, Launch(b) PROVE SpareInv'
  <1> DEFINE i == next.instance
             d == PlacedOn(b)
             r == [JobOf("warm_again", i) EXCEPT !.boot = BootOf(d)]
             rec == [AbsentInstance EXCEPT !.state = "waiting", !.device = d, !.apk = b]
             nd == NextDevice(d)
  <1>1. /\ i \in Instances /\ HasJob /\ UNCHANGED made /\ dev' = WithBuild(b, d)
        /\ inst' = [inst EXCEPT ![i] = rec] /\ job' = [job EXCEPT ![NewJob] = r]
        /\ next' = [device |-> nd, instance |-> i + 1]
    BY DEF Launch, guest
  <1>2. r.pc = "warm_again" /\ rec.user = NoUser BY DEF JobOf, Idle, AbsentInstance
  <1>3. /\ TypeOK /\ DevOK /\ inst = [k \in Instances |-> inst[k]] /\ job = [k \in Jobs |-> job[k]]
        /\ next.instance \in Nat /\ \A k \in Instances : k \in Nat
        /\ NewJob \in Jobs /\ job[NewJob].pc = "free"
    BY <1>1, FreshJob, ConstantsOK DEF SpareInv, TypeOK, DevOK, Instances
  <1> HIDE DEF r, rec, d, nd
  <1>4. next'.instance = i + 1 /\ next.instance <= next'.instance BY <1>1, <1>3
  <1>5. MadeOn BY <1>1, ConstantsOK DEF MadeOn, SpareInv, TypeOK
  <1>6. r.pc \notin Launching \cup {"offer"} BY <1>2 DEF Launching
  <1>7. \A k \in Jobs : ThreadGoes(k) BY <1>1, <1>3, <1>6, SlotTaken
  <1>8. SparesGo BY <1>7 DEF SparesGo, ThreadGoes, Launching
  <1>9. LaunchesGo BY <1>7 DEF LaunchesGo, ThreadGoes
  <1>10. ASSUME NEW k \in Jobs, job'[k].pc \in Launching PROVE job'[k].inst # i
    <2>1. job'[k] = job[k] BY <1>1, <1>3, <1>6, <1>10
    <2>2. job[k].inst < i /\ job[k].inst \in Instances
      BY <1>3, <1>10, <2>1 DEF SpareInv, OnDevice, TypeOK, JobRec, PoolPCs, Launching
    <2> QED BY <1>3, <2>1, <2>2
  <1>11. PlacesGo
    <2>1. inst'[i].user = NoUser /\ \A k \in Instances \ {i} : inst'[k] = inst[k]
      BY <1>1, <1>2, <1>3
    <2> HIDE DEF i
    <2>2. \A k \in Instances \ {i} : Exists(k) => k < next'.instance
      BY <1>3, <1>4 DEF i, SpareInv, Given
    <2>3. i < next'.instance BY <1>3, <1>4 DEF i
    <2> QED BY <1>10, <2>1, <2>2, <2>3 DEF PlacesGo, Exists
  <1>12. UsersGo
    <2>1. NoMoreUsers BY <1>1, <1>3, UsersBuilt
    <2> QED BY <2>1 DEF NoMoreUsers, UsersGo
  <1> QED BY <1>4, <1>5, <1>8, <1>9, <1>11, <1>12, SparesFramed

\* A person's.
LEMMA PersonSpares == ASSUME SpareInv, TypeOK', Person PROVE SpareInv'
  <1>0. TypeOK /\ DevOK BY DEF SpareInv, TypeOK, DevOK
  <1>1. CASE \E b \in Builds : Launch(b) BY <1>1, LaunchSpares
  <1>2. ASSUME NEW i \in Instances, Close(i) PROVE SpareInv'
    <2> DEFINE card_up == inst[i].hwc # NoDisplay /\ There(inst[i].device)
               r == [JobOf("remove", i) EXCEPT !.dev = inst[i].device, !.hwc = inst[i].hwc]
               off == [inst EXCEPT ![i].hwc = NoDisplay, ![i].closed = @ \/ card_up]
               Put(x) == job' = [job EXCEPT ![NewJob] = x]
    <2>1. HasJob /\ UNCHANGED <<made, next>> /\ CloseOn(i, NewJob) /\ Exists(i) BY <1>2 DEF Close, guest
    <2>2. r.pc = "remove" /\ EndJob(i).pc = "end" /\ Idle.pc = "free" BY DEF JobOf, EndJob, Idle
    <2>3. \E x \in {r, EndJob(i), Idle} : Put(x) BY <2>1 DEF CloseOn
    <2>4. UNCHANGED dev \/ dev' = MarkIdle(dev, off) BY <2>1 DEF CloseOn
    <2> HIDE DEF r, off
    <2>5. \A x \in {r, EndJob(i), Idle} : x.pc \notin Launching \cup {"offer"} BY <2>2 DEF Launching
    <2>6. \A k \in Jobs : ThreadGoes(k) BY <1>0, <2>1, <2>3, <2>5, SlotTaken
    <2>7. \A k \in Instances : RecordStays(k) BY <1>0, <2>1, ClosedStays
    <2>8. NoMoreUsers BY <1>0, <2>4, UsersSame
    <2> QED BY <2>1, <2>6, <2>7, <2>8, QuietSpares
  <1>3. ASSUME NEW i \in Instances, Restart(i) PROVE SpareInv'
    <2>1. UNCHANGED <<made, next, dev>> BY <1>3 DEF Restart, guest
    <2>2. \A k \in Jobs : ThreadGoes(k) BY <1>0, <1>3, RestartSlots DEF ThreadGoes, Launching
    <2>3. \A k \in Instances : RecordStays(k) BY <1>0, <1>3, RestartStays
    <2> QED BY <1>0, <2>1, <2>2, <2>3, UsersSame, QuietSpares
  <1>4. ASSUME NEW i \in Instances, ShowWindow(i) PROVE SpareInv'
    <2> DEFINE r == [JobOf("open", i) EXCEPT !.dev = inst[i].device, !.hwc = inst[i].hwc]
    <2>1. UNCHANGED <<made, next, dev, inst>> /\ HasJob /\ job' = [job EXCEPT ![NewJob] = r]
      BY <1>4 DEF ShowWindow, guest, pool
    <2>2. r.pc \notin Launching \cup {"offer"} BY DEF JobOf, Idle, Launching
    <2> HIDE DEF r
    <2>3. \A k \in Jobs : ThreadGoes(k) BY <1>0, <2>1, <2>2, SlotTaken
    <2> QED BY <1>0, <2>1, <2>3, UsersSame, RecordsSame, QuietSpares
  <1>5. ASSUME NEW d \in Devices, Kill(d) PROVE SpareInv'
    <2> DEFINE last == /\ TRUE /\ ~cold
                       /\ \A e \in OpenDevices : e = d
               pc == IF last THEN "cold" ELSE "stop_guest"
               r == [Idle EXCEPT !.pc = pc, !.dev = d]
    <2>1. /\ HasJob /\ UNCHANGED <<made, next>> /\ StopSection(d, TRUE, NewJob)
          /\ dev' = [dev EXCEPT ![d].state = "closing"]
          /\ job' = [job EXCEPT ![NewJob] = r]
      BY Zenon, <1>5 DEF Kill, StopSection, guest
    <2>2. pc \notin Launching \cup {"offer"} BY DEF Launching
    <2>3. r.pc = pc BY DEF Idle
    <2> HIDE DEF r, pc
    <2>4. \A k \in Jobs : ThreadGoes(k) BY <1>0, <2>1, <2>2, <2>3, SlotTaken
    <2>5. \A k \in Instances : RecordStays(k) BY <1>0, <2>1, EndedStay
    <2>6. NoMoreUsers BY <1>0, <2>1, UsersSame
    <2> QED BY <2>1, <2>4, <2>5, <2>6, QuietSpares
  <1>6. CASE \E d \in Devices, h \in Displays : PersonCloses(d, h)
    BY <1>0, <1>6, UsersSame, NoThread, RecordsSame, QuietSpares DEF PersonCloses, pool
  <1>7. CASE AskWarm
    <2> DEFINE r == [JobOf("warm_again", NoInstance) EXCEPT !.count = 1]
    <2>1. UNCHANGED <<made, next, dev, inst>> /\ HasJob /\ job' = [job EXCEPT ![NewJob] = r]
      BY <1>7 DEF AskWarm, guest, pool
    <2>2. r.pc \notin Launching \cup {"offer"} BY DEF JobOf, Idle, Launching
    <2> HIDE DEF r
    <2>3. \A k \in Jobs : ThreadGoes(k) BY <1>0, <2>1, <2>2, SlotTaken
    <2> QED BY <1>0, <2>1, <2>3, UsersSame, RecordsSame, QuietSpares
  <1>8. CASE Clear
    <2>1. UNCHANGED <<made, next, dev>> BY Zenon, <1>8 DEF Clear, guest
    <2>2. \A k \in Jobs : ThreadGoes(k) BY <1>8, ClearSlots DEF ThreadGoes, Launching
    <2>3. \A k \in Instances : RecordStays(k) BY <1>0, <1>8, ClearStays
    <2> QED BY <1>0, <2>1, <2>2, <2>3, UsersSame, QuietSpares
  <1>9. CASE Quit
    <2>1. UNCHANGED <<made, next, dev, inst>> BY <1>9 DEF Quit, guest
    <2>2. JobOf("stop_all", NoInstance).pc \notin Launching \cup {"offer"}
      BY DEF JobOf, Idle, Launching
    <2>3. \A k \in Jobs : ThreadGoes(k) BY <1>0, <1>9, <2>2, SlotTaken, NoThread DEF Quit
    <2> QED BY <1>0, <2>1, <2>3, UsersSame, RecordsSame, QuietSpares
  <1> QED BY <1>1, <1>2, <1>3, <1>4, <1>5, <1>6, <1>7, <1>8, <1>9 DEF Person

\* An app or a device that ends makes no user.
LEMMA EnvironmentSpares == ASSUME SpareInv, TypeOK', Environment PROVE SpareInv'
  <1>1. UNCHANGED <<made, next>> /\ UNCHANGED dev /\ UNCHANGED inst /\ UNCHANGED job
    BY DEF Environment, Crash, Death, GuestEnds, pool
  <1>2. DevOK BY DEF SpareInv, TypeOK, DevOK
  <1> QED BY <1>1, <1>2, UsersSame, NoThread, RecordsSame, QuietSpares

\* No user is made, and no instance is there.
LEMMA InitSpares == Init => SpareInv
  <1> SUFFICES ASSUME Init PROVE SpareInv OBVIOUS
  <1>1. TypeOK BY InitType
  <1>2. \A j \in Jobs : job[j].pc = "free" BY DEF Init, Idle
  <1>3. \A i \in Instances : inst[i].state = "absent" BY DEF Init, AbsentInstance
  <1>4. \A d \in Devices : dev[d].users = {} BY DEF Init, AbsentDevice, NewDevice
  <1> QED BY <1>1, <1>2, <1>3, <1>4
          DEF SpareInv, Given, OnDevice, UsersKept, SparesOK, At, Exists, Launching

\* Each step, while an instance has one launch at a time.
LEMMA StepSpares == SpareInv /\ OneLaunch /\ [Next]_vars => SpareInv'
  <1> SUFFICES ASSUME SpareInv, OneLaunch, [Next]_vars PROVE SpareInv' OBVIOUS
  <1>1. TypeOK' BY StepType DEF SpareInv
  <1>2. CASE UNCHANGED vars
    BY <1>2 DEF vars, pool, guest, SpareInv, TypeOK, Given, OnDevice, UsersKept, SparesOK, Kept, At, Exists
  <1> QED BY <1>1, <1>2, ThreadSpares, TickerSpares, PersonSpares, EnvironmentSpares DEF Next

\* A user being made ahead is no instance's while it is made, started once and offered:
\* a launch takes one the device offers or makes its own, however its choice and its
\* record of it (run_launch) interleave with the making (spare_users), an end, a
\* restart, the device's death or its stop -- as long as no instance has two launches
\* at once.
THEOREM SparesKept == Spec /\ []OneLaunch => []SpareUntouched
  <1>1. SpareInv => SpareUntouched
    <2>1. ASSUME SpareInv, NEW j \in Jobs, NEW i \in Instances, At(j, "offer"), Exists(i),
                 inst[i].device = job[j].dev
          PROVE  inst[i].user # job[j].user
      <3>1. job[j].dev \in Devices /\ job[j].user \in Users
        BY <2>1 DEF SpareInv, SparesOK, TypeOK, JobRec, At
      <3>2. job[j].user # NoUser BY <3>1, ConstantsOK DEF Users, NoUser
      <3> QED BY <2>1, <3>1, <3>2 DEF SpareInv, UsersKept, Kept
    <2> QED BY <2>1 DEF SpareUntouched
  <1> QED BY <1>1, InitSpares, StepSpares, PTL DEF Spec
=============================================================================

---------------------------- MODULE KernelProofs ----------------------------
(***************************************************************************)
(* Record locks and waits, proved: Spec => []NoConflict, Spec =>           *)
(* LocksByBytes, Spec => WokenAnswers, []QueuesTrue and []EofTrue.         *)
(*                                                                         *)
(* NoConflict is not inductive: the lock a call asks for is read from the  *)
(* call's own record at every look at the table, so the invariant says     *)
(* also that whoever is at a lock's step made a lock's call, on a file     *)
(* that is open, and that the table's locks are ranges of numbers.         *)
(*                                                                         *)
(* Every step of the table is, byte by byte, a lock taken or dropped over  *)
(* one range, holders losing all they have of a file, or nothing.  The     *)
(* table splits a holder's locks around a range (Given) and forgets whole  *)
(* holders (Reaped and the closes): one lemma each about the mode of one   *)
(* byte.                                                                   *)
(*                                                                         *)
(* A wake's mark on a waiter is taken back by the waiter alone, and only   *)
(* where it answers; every other step leaves marks, or adds some.          *)
(*                                                                         *)
(* QueuesTrue is not inductive.  A waiter is looked for where its call is, *)
(* so each task at a step of a call made one that fits its words (CallsOK); *)
(* a waiter is in one queue of its process alone, or a wait that is over   *)
(* or moved would leave another behind (RowOK); a lock's waiters have      *)
(* every bit and are its own process's, or an unlock would leave some, and *)
(* the lock free; and a mark is of somebody asleep, or one who comes to    *)
(* sleep would be woken already (QueuesOK).                                *)
(*                                                                         *)
(* EofTrue is kept because an open file that nothing holds is never held   *)
(* again, whatever is duplicated, closed or begun (FewerLive), and bytes   *)
(* come of a write alone, whose own call holds a write end.                *)
(***************************************************************************)
EXTENDS KernelProperties, FiniteSetTheorems, TLAPS

\* The steps of a call on a file that has it lock, or placed over another.
FileSteps == {"setlk", "getlk", "flock", "flock_wait", "dup"}

\* What a task's record has, wherever it is.
Fields == {"at", "call", "file", "was", "then", "answer"}

\* A task that is at such a step made a call, of a file; what comes after an
\* unparking is no such step.
TaskOK(r) ==
  /\ Fields \subseteq DOMAIN r
  /\ r.call \in Call \cup {NoCall}
  /\ r.at \in FileSteps => /\ r.call \in Call /\ r.file \in OpenFiles
                          /\ r.call.op = IF r.at = "flock_wait" THEN "flock" ELSE r.at
  /\ r.then \in {"guest", "finish", "gone"}

TasksOK == DOMAIN th = Tasks /\ \A t \in Tasks : TaskOK(th[t])

TablesOK ==
  /\ program \in [Tasks -> Seq(Call)]
  /\ fds \in [Processes -> [Fds -> OpenFiles \cup {NoFile}]]

\* The locks of the table, of any file opened.
LockRec == [file : {inode[f] : f \in OpenFiles} \X {"fcntl", "flock"}, via : OpenFiles,
            holder : Processes \cup OpenFiles, start : Nat, end : Nat, write : BOOLEAN]

\* A process's locks are record locks, of the file of the open they were taken
\* through; a flock is of the whole file.
KeyOK(l) ==
  /\ l.holder \in Processes => l.file = <<inode[l.via], "fcntl">>
  /\ l.file[2] = "flock" => l.start = 0 /\ l.end = MaxByte + 1

LocksOK == locks \subseteq LockRec /\ (\A l \in locks : KeyOK(l)) /\ NoConflict

\* The inductive invariant.
LockInv == TasksOK /\ TablesOK /\ LocksOK

-----------------------------------------------------------------------------
(* Where tasks are.                                                        *)

\* A task's record replaced by one that is right.
LEMMA Replaced ==
  ASSUME TasksOK, NEW t \in Tasks, NEW r, TaskOK(r), th' = [th EXCEPT ![t] = r]
  PROVE  TasksOK'
  BY DEF TasksOK, TaskOK

\* A step that is none of a file's call (At).
LEMMA AtElsewhere ==
  ASSUME TasksOK, NEW t \in Tasks, NEW step, step \notin FileSteps, At(t, step)
  PROVE  TasksOK'
  BY DEF TasksOK, TaskOK, At, Fields

\* Back in the guest (Back, Return).
LEMMA BackOK ==
  ASSUME NEW r, TaskOK(r), NEW answer
  PROVE  TaskOK(Back(r, answer))
  BY DEF TaskOK, Back, Fields, FileSteps

LEMMA ReturnOK ==
  ASSUME TasksOK, NEW t \in Tasks, NEW answer, Return(t, answer)
  PROVE  TasksOK'
  <1>1. TaskOK(Back(th[t], answer)) BY BackOK DEF TasksOK
  <1> QED BY <1>1, Replaced DEF Return

\* On to the unparking of threads (Unparking).
LEMMA UnparkingOK ==
  ASSUME NEW r, TaskOK(r), NEW tasks, NEW then \in {"guest", "finish", "gone"}
  PROVE  TaskOK(Unparking(r, tasks, then))
  BY DEF TaskOK, Unparking, Fields, FileSteps

LEMMA CalledOK ==
  ASSUME TasksOK, TablesOK, NEW t \in Tasks, th[t].at = "guest", NEW c \in Call \cup {NoCall}
  PROVE  TaskOK(Called(t, c))
  <1>1. TaskOK(th[t]) BY DEF TasksOK
  <1>2. CASE c \notin Call \/ c.op \notin FileCalls
    <2>1. c.op \notin FileCalls BY <1>2, ScenariosAssumption DEF FileCalls
    <2>2. c.op \in FileSteps => c.op = "flock_wait" BY <2>1 DEF FileCalls, FileSteps
    <2>3. c.op # "flock_wait"
      BY ScenariosAssumption DEF Call
    <2> QED BY <1>1, <2>1, <2>2, <2>3 DEF TaskOK, Called, Fields
  <1>3. CASE c \in Call /\ c.op \in FileCalls
    <2> DEFINE file == fds[process[t]][c.fd]
    <2>1. c.fd \in Fds BY <1>3 DEF Call
    <2>2. process[t] \in Processes BY TasksAssumption
    <2>3. file \in OpenFiles \cup {NoFile} BY <2>1, <2>2 DEF TablesOK
    <2>4. CASE Refused(c, file)
      BY <1>1, <1>3, <2>4 DEF TaskOK, Called, Fields, FileSteps
    <2>5. CASE ~Refused(c, file)
      <3>1. file \in OpenFiles BY <2>3, <2>5 DEF Refused
      <3> QED BY <1>1, <1>3, <2>5, <3>1 DEF TaskOK, Called, Fields, FileCalls
    <2> QED BY <2>4, <2>5
  <1> QED BY <1>2, <1>3

-----------------------------------------------------------------------------
(* The table.                                                              *)

\* The lock a call asks for is one of the table's kind (Asked).
LEMMA AskedOK ==
  ASSUME TasksOK, NEW t \in Tasks, th[t].at \in FileSteps
  PROVE  /\ Asked(t) \in LockRec /\ KeyOK(Asked(t))
         /\ Asked(t).file[2] = IF th[t].at \in {"flock", "flock_wait"} THEN "flock" ELSE "fcntl"
  <1>1. Now(t) \in Call /\ File(t) \in OpenFiles BY DEF TasksOK, TaskOK, Now, File
  <1>2. process[t] \in Processes BY TasksAssumption
  <1>3. Now(t).start \in Nat /\ Now(t).end \in Nat BY <1>1, LocksAssumption DEF Call
  <1>4. Now(t).op = IF th[t].at = "flock_wait" THEN "flock" ELSE th[t].at
    BY DEF TasksOK, TaskOK, Now
  <1>5. Asked(t) \in LockRec BY <1>1, <1>2, <1>3, LocksAssumption DEF Asked, LockRec
  <1>6. Asked(t).file[2] = IF th[t].at \in {"flock", "flock_wait"} THEN "flock" ELSE "fcntl"
    BY <1>4 DEF Asked, FileSteps
  <1>7. KeyOK(Asked(t)) BY <1>1, <1>2, TasksAssumption DEF Asked, KeyOK
  <1> QED BY <1>5, <1>6, <1>7

\* Fewer locks are no worse.
LEMMA FewerOK ==
  ASSUME LocksOK, locks' \subseteq locks
  PROVE  LocksOK'
  BY DEF LocksOK, NoConflict, LockRec, Overlap

\* What gives way to a lock was there, of the same holder, and no longer (Given).
LEMMA GivenSmaller ==
  ASSUME locks \subseteq LockRec, NEW l \in LockRec, NEW k \in Given(l)
  PROVE  /\ k \in LockRec
         /\ \E o \in locks : /\ k.file = o.file /\ k.holder = o.holder /\ k.write = o.write
                             /\ k.via = o.via
                             /\ o.start <= k.start /\ k.end <= o.end
  <1> DEFINE own == {o \in locks : o.file = l.file /\ o.holder = l.holder /\ Overlap(o, l)}
  <1>1. CASE k \in locks BY <1>1 DEF LockRec
  <1>2. CASE k \in {[o EXCEPT !.end = l.start] : o \in {q \in own : q.start < l.start}}
    <2>1. PICK o \in own : o.start < l.start /\ k = [o EXCEPT !.end = l.start] BY <1>2
    <2>2. o \in LockRec /\ l.start <= o.end BY <2>1 DEF Overlap, LockRec
    <2> QED BY <2>1, <2>2 DEF LockRec
  <1>3. CASE k \in {[o EXCEPT !.start = l.end] : o \in {q \in own : l.end < q.end}}
    <2>1. PICK o \in own : l.end < o.end /\ k = [o EXCEPT !.start = l.end] BY <1>3
    <2>2. o \in LockRec /\ o.start <= l.end BY <2>1 DEF Overlap, LockRec
    <2> QED BY <2>1, <2>2 DEF LockRec
  <1> QED BY <1>1, <1>2, <1>3 DEF Given

\* So a holder's locks give way without a conflict, and a lock with none before has
\* none after.
LEMMA GivenOK ==
  ASSUME LocksOK, NEW l \in LockRec, KeyOK(l), l.file[2] = "fcntl", NEW taken \in {{}, {l}},
         taken # {} => Conflicts(l) = {},
         locks' \subseteq Given(l) \cup taken
  PROVE  LocksOK'
  <1>0. locks \subseteq LockRec BY DEF LocksOK
  <1>1. locks' \subseteq LockRec BY <1>0, GivenSmaller
  <1>2. ASSUME NEW a \in Given(l), NEW b \in Given(l),
               a.file = b.file, a.holder # b.holder, a.write \/ b.write
        PROVE  ~Overlap(a, b)
    <2>1. PICK o \in locks : /\ a.file = o.file /\ a.holder = o.holder /\ a.write = o.write
                             /\ o.start <= a.start /\ a.end <= o.end
      BY <1>0, GivenSmaller
    <2>2. PICK q \in locks : /\ b.file = q.file /\ b.holder = q.holder /\ b.write = q.write
                             /\ q.start <= b.start /\ b.end <= q.end
      BY <1>0, GivenSmaller
    <2>3. ~Overlap(o, q) BY <1>2, <2>1, <2>2 DEF LocksOK, NoConflict
    <2>4. a \in LockRec /\ b \in LockRec /\ o \in LockRec /\ q \in LockRec BY <1>0, GivenSmaller
    <2> QED BY <2>1, <2>2, <2>3, <2>4 DEF Overlap, LockRec
  <1>3. ASSUME NEW a \in Given(l), taken # {},
               a.file = l.file, a.holder # l.holder, a.write \/ l.write
        PROVE  ~Overlap(a, l) /\ ~Overlap(l, a)
    <2>1. PICK o \in locks : /\ a.file = o.file /\ a.holder = o.holder /\ a.write = o.write
                             /\ o.start <= a.start /\ a.end <= o.end
      BY <1>0, GivenSmaller
    <2>2. ~Overlap(o, l) BY <1>3, <2>1 DEF Conflicts
    <2>3. a \in LockRec /\ o \in LockRec BY <1>0, GivenSmaller
    <2> QED BY <2>1, <2>2, <2>3 DEF Overlap, LockRec
  <1>4. NoConflict' BY <1>2, <1>3 DEF NoConflict, Overlap
  <1>5. ASSUME NEW k \in Given(l) PROVE KeyOK(k)
    <2>1. CASE k \in locks BY <2>1 DEF LocksOK
    <2>2. CASE k \notin locks
      <3>1. \/ \E o \in locks : o.file = l.file /\ k = [o EXCEPT !.end = l.start]
            \/ \E o \in locks : o.file = l.file /\ k = [o EXCEPT !.start = l.end]
        BY <2>2 DEF Given
      <3>2. \E o \in locks : k.file = o.file /\ k.holder = o.holder /\ k.via = o.via
        BY <1>0, GivenSmaller
      <3>3. k.file = l.file BY <1>0, <3>1 DEF LockRec
      <3> QED BY <3>2, <3>3 DEF LocksOK, KeyOK
    <2> QED BY <2>1, <2>2
  <1> QED BY <1>1, <1>4, <1>5 DEF LocksOK, LockRec

\* What nothing holds goes (Reaped).
LEMMA ReapedFewer ==
  ASSUME NEW table, NEW d, NEW r
  PROVE  Reaped(table, d, r) \subseteq table
  BY DEF Reaped

\* A lock none conflicts with, beside the rest.
LEMMA AddedOK ==
  ASSUME LocksOK, NEW l \in LockRec, KeyOK(l), Conflicts(l) = {}, locks' \subseteq locks \cup {l}
  PROVE  LocksOK'
  <1>1. ASSUME NEW a \in locks, a.file = l.file, a.holder # l.holder, a.write \/ l.write
        PROVE  ~Overlap(a, l) /\ ~Overlap(l, a)
    BY <1>1 DEF Conflicts, Overlap
  <1>2. locks' \subseteq LockRec BY DEF LocksOK
  <1>3. NoConflict' BY <1>1 DEF LocksOK, NoConflict, Overlap
  <1> QED BY <1>2, <1>3 DEF LocksOK, LockRec

-----------------------------------------------------------------------------
(* The steps of KernelLocks.                                               *)

LEMMA SetLockOK ==
  ASSUME LockInv, NEW t \in Tasks, SetLock(t)
  PROVE  LockInv'
  <1> DEFINE l == Asked(t)
  <1>1. l \in LockRec /\ KeyOK(l) /\ l.file[2] = "fcntl"
    BY AskedOK DEF LockInv, SetLock, FileSteps
  <1>2. TasksOK' BY ReturnOK DEF LockInv, SetLock, LockReturn
  <1>3. TablesOK' BY DEF LockInv, SetLock, TablesOK, taskVars
  <1>4. LocksOK'
    <2>1. CASE LockReturn(t, "0", Given(l))
      <3>1. locks' \subseteq Given(l) \cup {} BY <2>1, ReapedFewer DEF LockReturn
      <3> QED BY <1>1, <3>1, GivenOK DEF LockInv
    <2>2. CASE Conflicts(l) = {} /\ LockReturn(t, "0", Given(l) \cup {l})
      <3>1. locks' \subseteq Given(l) \cup {l} BY <2>2, ReapedFewer DEF LockReturn
      <3> QED BY <1>1, <2>2, <3>1, GivenOK DEF LockInv
    <2>3. CASE LockReturn(t, "EINTR", locks) \/ LockReturn(t, "EAGAIN", locks)
      <3>1. locks' \subseteq locks BY <2>3, ReapedFewer DEF LockReturn
      <3> QED BY <3>1, FewerOK DEF LockInv
    <2> QED BY <2>1, <2>2, <2>3 DEF SetLock
  <1> QED BY <1>2, <1>3, <1>4 DEF LockInv

LEMMA GetLockOK ==
  ASSUME LockInv, NEW t \in Tasks, GetLock(t)
  PROVE  LockInv'
  <1>1. TasksOK' BY ReturnOK DEF LockInv, GetLock, LockReturn
  <1>2. TablesOK' BY DEF LockInv, GetLock, TablesOK, taskVars
  <1>3. locks' \subseteq locks BY ReapedFewer DEF GetLock, LockReturn
  <1> QED BY <1>1, <1>2, <1>3, FewerOK DEF LockInv

LEMMA FlockOK ==
  ASSUME LockInv, NEW t \in Tasks, Flock(t)
  PROVE  LockInv'
  <1> DEFINE l == Asked(t)
             rest == IF th[t].at = "flock" THEN Dropped(l) ELSE locks
             Leaves == \E answer \in {"0", "EAGAIN", "EINTR"} : LockReturn(t, answer, rest)
             Takes == Conflicts(l) = {} /\ LockReturn(t, "0", rest \cup {l})
             Sleeps == th[t].at = "flock" /\ locks' = rest /\ At(t, "flock_wait")
  <1>1. l \in LockRec /\ KeyOK(l) BY AskedOK DEF LockInv, Flock, FileSteps
  <1>2. rest \subseteq locks BY DEF Dropped
  <1>3. Leaves \/ Takes \/ Sleeps BY DEF Flock
  <1>4. TablesOK' BY DEF LockInv, Flock, TablesOK, taskVars
  <1>5. CASE Leaves
    <2>1. PICK answer : LockReturn(t, answer, rest) BY <1>5
    <2>2. locks' \subseteq locks BY <1>2, <2>1, ReapedFewer DEF LockReturn
    <2>3. TasksOK' BY <2>1, ReturnOK DEF LockInv, LockReturn
    <2> QED BY <1>4, <2>2, <2>3, FewerOK DEF LockInv
  <1>6. CASE Takes
    <2>1. locks' \subseteq locks \cup {l} BY <1>2, <1>6, ReapedFewer DEF LockReturn
    <2>2. TasksOK' BY <1>6, ReturnOK DEF LockInv, LockReturn
    <2> QED BY <1>1, <1>4, <1>6, <2>1, <2>2, AddedOK DEF LockInv
  <1>7. CASE Sleeps
    <2>1. TaskOK([th[t] EXCEPT !.at = "flock_wait"])
      BY <1>7 DEF LockInv, TasksOK, TaskOK, FileSteps, Fields
    <2>2. TasksOK' BY <1>7, <2>1, Replaced DEF LockInv, At
    <2> QED BY <1>2, <1>4, <1>7, <2>2, FewerOK DEF LockInv
  <1> QED BY <1>3, <1>5, <1>6, <1>7

LEMMA CloseOK ==
  ASSUME LockInv, NEW t \in Tasks, Close(t)
  PROVE  LockInv'
  <1>1. TasksOK' BY ReturnOK, AtElsewhere DEF LockInv, Close, LockReturn, FileSteps
  <1>2. TablesOK'
    <2>1. CASE UNCHANGED fds BY <2>1 DEF LockInv, Close, TablesOK
    <2>2. CASE fds' = [fds EXCEPT ![process[t]][Now(t).fd] = NoFile]
      <3>1. fds' \in [Processes -> [Fds -> OpenFiles \cup {NoFile}]]
        BY <2>2 DEF LockInv, TablesOK
      <3> QED BY <3>1 DEF LockInv, Close, TablesOK
    <2> QED BY <2>1, <2>2 DEF Close
  <1>3. locks' \subseteq locks BY ReapedFewer DEF Close, LockReturn
  <1> QED BY <1>1, <1>2, <1>3, FewerOK DEF LockInv

LEMMA CloseLocksOK ==
  ASSUME LockInv, NEW t \in Tasks, CloseLocks(t)
  PROVE  LockInv'
  <1>1. TasksOK' BY ReturnOK DEF LockInv, CloseLocks, LockReturn
  <1>2. TablesOK' BY DEF LockInv, CloseLocks, TablesOK, taskVars
  <1>3. locks' \subseteq locks BY ReapedFewer DEF CloseLocks, LockReturn
  <1> QED BY <1>1, <1>2, <1>3, FewerOK DEF LockInv

LEMMA DupOK ==
  ASSUME LockInv, NEW t \in Tasks, Dup(t)
  PROVE  LockInv'
  <1>1. TasksOK' BY ReturnOK DEF LockInv, Dup
  <1>2. TablesOK'
    <2>1. File(t) \in OpenFiles BY DEF LockInv, Dup, TasksOK, TaskOK, File, FileSteps
    <2>2. fds' \in [Processes -> [Fds -> OpenFiles \cup {NoFile}]]
      BY <2>1 DEF LockInv, Dup, TablesOK
    <2> QED BY <2>2 DEF LockInv, Dup, TablesOK
  <1>3. locks' \subseteq locks BY ReapedFewer DEF Dup
  <1> QED BY <1>1, <1>2, <1>3, FewerOK DEF LockInv

LEMMA LockStepOK ==
  ASSUME LockInv, NEW t \in Tasks, LockStep(t)
  PROVE  LockInv'
  BY SetLockOK, GetLockOK, FlockOK, CloseOK, CloseLocksOK, DupOK DEF LockStep

-----------------------------------------------------------------------------
(* The other steps: none takes a lock.                                     *)

\* A step that opens, closes and calls nothing.
LEMMA ElsewhereOK ==
  ASSUME LockInv, TasksOK', locks' \subseteq locks, UNCHANGED <<program, fds>>
  PROVE  LockInv'
  BY FewerOK DEF LockInv, TablesOK

\* A record changed by a step of none of a file's calls is right.
LEMMA MovedOK ==
  ASSUME TasksOK, NEW t \in Tasks, NEW step, step \notin FileSteps
  PROVE  TaskOK([th[t] EXCEPT !.at = step])
  BY DEF TasksOK, TaskOK, Fields

LEMMA GuestStepOK ==
  ASSUME LockInv, NEW t \in Tasks, GuestStep(t)
  PROVE  LockInv'
  <1>1. CASE Begin(t)
    <2> DEFINE c == Head(program[t])
    <2>1. program[t] \in Seq(Call) /\ program[t] # <<>> BY <1>1 DEF Begin, LockInv, TablesOK
    <2>2. c \in Call /\ Tail(program[t]) \in Seq(Call) BY <2>1
    <2>3. TasksOK' BY <1>1, <2>2, CalledOK, Replaced DEF Begin, LockInv
    <2>4. program' \in [Tasks -> Seq(Call)] BY <1>1, <2>2 DEF Begin, LockInv, TablesOK
    <2>5. TablesOK' BY <1>1, <2>4 DEF Begin, LockInv, TablesOK, taskVars
    <2>6. locks' \subseteq locks BY <1>1 DEF Begin, notTask
    <2> QED BY <2>3, <2>5, <2>6, FewerOK DEF LockInv
  <1>2. CASE Retry(t)
    <2>1. Now(t) \in Call \cup {NoCall} BY DEF LockInv, TasksOK, TaskOK, Now
    <2>2. TasksOK' BY <1>2, <2>1, CalledOK, Replaced DEF Retry, LockInv
    <2> QED BY <1>2, <2>2, ElsewhereOK DEF Retry, taskVars, notTask
  <1>3. CASE Deliver(t)
    <2>1. TasksOK' BY <1>3, AtElsewhere DEF Deliver, LockInv, FileSteps
    <2> QED BY <1>3, <2>1, ElsewhereOK DEF Deliver, notTask
  <1>4. CASE Halted(t)
    <2>1. TaskOK([th[t] EXCEPT !.at = "end", !.target = process[t], !.then = "finish"])
      BY DEF LockInv, TasksOK, TaskOK, Fields, FileSteps
    <2>2. At(t, "halted") => TasksOK' BY AtElsewhere DEF LockInv, FileSteps
    <2>3. ASSUME th' = [th EXCEPT ![t].at = "end", ![t].target = process[t],
                                  ![t].then = "finish"]
          PROVE  TasksOK'
      <3>1. th' = [th EXCEPT ![t] = [th[t] EXCEPT !.at = "end", !.target = process[t],
                                                  !.then = "finish"]]
        BY <2>3 DEF LockInv, TasksOK
      <3> QED BY <2>1, <3>1, Replaced DEF LockInv
    <2>4. TasksOK' BY <1>4, <2>2, <2>3 DEF Halted
    <2> QED BY <1>4, <2>4, ElsewhereOK DEF Halted, taskVars, notTask
  <1>5. CASE Store(t)
    <2>1. TasksOK' BY <1>5, ReturnOK DEF Store, LockInv
    <2> QED BY <1>5, <2>1, ElsewhereOK DEF Store, taskVars
  <1>6. CASE PiLock(t)
    <2>1. TasksOK' BY <1>6, ReturnOK, AtElsewhere DEF PiLock, LockInv, FileSteps
    <2> QED BY <1>6, <2>1, ElsewhereOK DEF PiLock, taskVars
  <1>7. CASE PiUnlock(t)
    <2>1. TasksOK' BY <1>7, ReturnOK, AtElsewhere DEF PiUnlock, LockInv, FileSteps
    <2> QED BY <1>7, <2>1, ElsewhereOK DEF PiUnlock, taskVars
  <1>8. CASE Cleared(t)
    <2>1. TasksOK' BY <1>8, AtElsewhere DEF Cleared, LockInv, FileSteps
    <2> QED BY <1>8, <2>1, ElsewhereOK DEF Cleared, notTask
  <1> QED BY <1>1, <1>2, <1>3, <1>4, <1>5, <1>6, <1>7, <1>8 DEF GuestStep

LEMMA PipeStepOK ==
  ASSUME LockInv, NEW t \in Tasks, PipeStep(t), UNCHANGED locks
  PROVE  LockInv'
  <1>1. CASE PipeRead(t)
    <2>1. TasksOK' BY <1>1, ReturnOK DEF PipeRead, LockInv
    <2> QED BY <1>1, <2>1, ElsewhereOK DEF PipeRead, taskVars
  <1>2. CASE PipeWrite(t)
    <2>1. ASSUME NEW left PROVE TaskOK([th[t] EXCEPT !.left = left])
      BY DEF LockInv, TasksOK, TaskOK, Fields
    <2>2. ASSUME NEW left, th' = [th EXCEPT ![t].left = left] PROVE TasksOK'
      BY <2>1, <2>2, Replaced DEF LockInv
    <2>3. TasksOK' BY <1>2, <2>2, ReturnOK DEF PipeWrite, LockInv
    <2> QED BY <1>2, <2>3, ElsewhereOK DEF PipeWrite, taskVars
  <1> QED BY <1>1, <1>2 DEF PipeStep

\* The end of a wait, and a look at a priority-inheritance lock.
LEMMA WaitOverOK ==
  ASSUME TasksOK, NEW t \in Tasks, NEW r, TaskOK(r), WaitOver(t, r)
  PROVE  TasksOK'
  BY Replaced DEF WaitOver

LEMMA PiLookOK ==
  ASSUME TasksOK, NEW t \in Tasks, NEW awake, PiLook(t, awake)
  PROVE  TasksOK'
  <1>1. TaskOK(th[t]) BY DEF TasksOK
  <1>2. CASE \E answer : WaitOver(t, Back(th[t], answer)) BY <1>1, <1>2, BackOK, WaitOverOK
  <1>3. CASE At(t, "pi_parked") BY <1>3, AtElsewhere DEF FileSteps
  <1> QED BY <1>2, <1>3 DEF PiLook

\* A wake, and what it moves.
LEMMA WakeOK ==
  ASSUME TasksOK, NEW t \in Tasks, NEW o, NEW n, NEW bitset, NEW to, NEW m,
         WakeAndMove(t, o, n, bitset, to, m)
  PROVE  TasksOK'
  <1>1. TaskOK(th[t]) BY DEF TasksOK
  <1>2. th[t].then \in {"guest", "finish", "gone"} BY <1>1 DEF TaskOK
  <1>3. \E tasks : th' = [th EXCEPT ![t] = Unparking(th[t], tasks, th[t].then)]
    BY DEF WakeAndMove, TasksOK
  <1> QED BY <1>1, <1>2, <1>3, UnparkingOK, Replaced

LEMMA FutexStepOK ==
  ASSUME LockInv, NEW t \in Tasks, FutexStep(t), UNCHANGED locks
  PROVE  LockInv'
  <1>0. TasksOK /\ TaskOK(th[t]) BY DEF LockInv, TasksOK
  <1>1. CASE FutexWait(t)
    <2>1. TasksOK' BY <1>0, <1>1, ReturnOK, AtElsewhere DEF FutexWait, FileSteps
    <2> QED BY <1>1, <2>1, ElsewhereOK DEF FutexWait, taskVars
  <1>2. CASE FutexUnparked(t)
    <2>1. (\E answer : WaitOver(t, Back(th[t], answer))) => TasksOK'
      BY <1>0, BackOK, WaitOverOK
    <2>2. UNCHANGED th => TasksOK' BY <1>0 DEF TasksOK
    <2>3. TasksOK' BY <1>2, <2>1, <2>2 DEF FutexUnparked
    <2> QED BY <1>2, <2>3, ElsewhereOK DEF FutexUnparked, taskVars
  <1>3. CASE FutexLate(t)
    <2>1. (\E answer : WaitOver(t, Back(th[t], answer))) => TasksOK'
      BY <1>0, BackOK, WaitOverOK
    <2>2. WaitOver(t, [th[t] EXCEPT !.at = "wait", !.again = TRUE]) => TasksOK'
      <3>1. TaskOK([th[t] EXCEPT !.at = "wait", !.again = TRUE])
        BY <1>0 DEF TaskOK, Fields, FileSteps
      <3> QED BY <1>0, <3>1, WaitOverOK
    <2>3. TasksOK' BY <1>3, <2>1, <2>2 DEF FutexLate
    <2> QED BY <1>3, <2>3, ElsewhereOK DEF FutexLate, taskVars
  <1>4. CASE FutexWake(t)
    <2>1. TasksOK' BY <1>0, <1>4, WakeOK DEF FutexWake
    <2> QED BY <1>4, <2>1, ElsewhereOK DEF FutexWake, taskVars
  <1>5. CASE FutexRequeue(t)
    <2>1. TasksOK' BY <1>0, <1>5, WakeOK, ReturnOK DEF FutexRequeue
    <2> QED BY <1>5, <2>1, ElsewhereOK DEF FutexRequeue, taskVars
  <1>6. CASE Unpark(t)
    <2>1. ASSUME NEW u, th' = [th EXCEPT ![t].unpark = @ \ {u}] PROVE TasksOK'
      <3>1. TaskOK([th[t] EXCEPT !.unpark = @ \ {u}]) BY <1>0 DEF TaskOK, Fields
      <3> QED BY <1>0, <2>1, <3>1, Replaced
    <2>2. Return(t, "0") => TasksOK' BY <1>0, ReturnOK
    <2>3. At(t, th[t].then) => TasksOK'
      <3>1. th[t].then \notin FileSteps BY <1>0 DEF TaskOK, FileSteps
      <3> QED BY <1>0, <3>1, AtElsewhere
    <2>4. TasksOK' BY <1>6, <2>1, <2>2, <2>3 DEF Unpark
    <2> QED BY <1>6, <2>4, ElsewhereOK DEF Unpark, taskVars
  <1>7. CASE LockPi(t)
    <2>1. TasksOK' BY <1>0, <1>7, PiLookOK DEF LockPi
    <2> QED BY <1>7, <2>1, ElsewhereOK DEF LockPi, taskVars
  <1>8. CASE PiUnparked(t)
    <2>1. TasksOK' BY <1>0, <1>8, PiLookOK DEF PiUnparked
    <2> QED BY <1>8, <2>1, ElsewhereOK DEF PiUnparked, taskVars
  <1>9. CASE PiLate(t)
    <2>1. TasksOK' BY <1>0, <1>9, PiLookOK DEF PiLate
    <2> QED BY <1>9, <2>1, ElsewhereOK DEF PiLate, taskVars
  <1>10. CASE TryLockPi(t)
    <2>1. TasksOK' BY <1>0, <1>10, ReturnOK DEF TryLockPi
    <2> QED BY <1>10, <2>1, ElsewhereOK DEF TryLockPi, taskVars
  <1>11. CASE UnlockPi(t)
    <2>1. TasksOK' BY <1>0, <1>11, ReturnOK, WakeOK DEF UnlockPi
    <2> QED BY <1>11, <2>1, ElsewhereOK DEF UnlockPi, taskVars
  <1> QED BY <1>1, <1>2, <1>3, <1>4, <1>5, <1>6, <1>7, <1>8, <1>9, <1>10, <1>11 DEF FutexStep

LEMMA ProcessStepOK ==
  ASSUME LockInv, NEW t \in Tasks, ProcessStep(t)
  PROVE  LockInv'
  <1>0. TasksOK /\ TaskOK(th[t]) /\ th[t].then \in {"guest", "finish", "gone"}
    BY DEF LockInv, TasksOK, TaskOK
  <1>1. CASE Signal(t)
    <2>1. TaskOK([th[t] EXCEPT !.at = "interrupt", !.target = process[Now(t).task]])
      BY <1>0 DEF TaskOK, Fields, FileSteps
    <2>2. ASSUME th' = [th EXCEPT ![t].at = "interrupt", ![t].target = process[Now(t).task]]
          PROVE  TasksOK'
      <3>1. th' = [th EXCEPT ![t] = [th[t] EXCEPT !.at = "interrupt",
                                                  !.target = process[Now(t).task]]]
        BY <1>0, <2>2 DEF TasksOK
      <3> QED BY <1>0, <2>1, <3>1, Replaced
    <2>3. (\E answer : Return(t, answer)) => TasksOK' BY <1>0, ReturnOK
    <2>4. TasksOK' BY <1>1, <2>2, <2>3 DEF Signal
    <2> QED BY <1>1, <2>4, ElsewhereOK DEF Signal, notSignal
  <1>2. CASE Interrupt(t)
    <2>1. TasksOK' BY <1>0, <1>2, UnparkingOK, Replaced DEF Interrupt
    <2> QED BY <1>2, <2>1, ElsewhereOK DEF Interrupt, taskVars, notSignal
  <1>3. CASE Kill(t)
    <2>1. TasksOK' BY <1>0, <1>3, ReturnOK, AtElsewhere DEF Kill, FileSteps
    <2> QED BY <1>3, <2>1, ElsewhereOK DEF Kill, taskVars, notSignal
  <1>4. CASE ExitGroup(t)
    <2>1. TaskOK([th[t] EXCEPT !.at = "end", !.target = process[t], !.then = "finish"])
      BY <1>0 DEF TaskOK, Fields, FileSteps
    <2>2. TasksOK' BY <1>0, <1>4, <2>1, Replaced DEF ExitGroup
    <2> QED BY <1>4, <2>2, ElsewhereOK DEF ExitGroup, taskVars, notSignal
  <1>5. CASE EndGroup(t)
    <2>1. TasksOK' BY <1>0, <1>5, AtElsewhere DEF EndGroup, FileSteps
    <2> QED BY <1>5, <2>1, ElsewhereOK DEF EndGroup, notSignal
  <1>6. CASE InterruptAll(t)
    <2>1. TasksOK' BY <1>0, <1>6, UnparkingOK, Replaced DEF InterruptAll
    <2> QED BY <1>6, <2>1, ElsewhereOK DEF InterruptAll, notSignal
  <1>7. CASE Exit(t)
    <2>1. \E tasks : th' = [th EXCEPT ![t] = Unparking(th[t], tasks, "finish")]
      BY <1>0, <1>7 DEF Exit, TasksOK
    <2>2. TasksOK' BY <1>0, <2>1, UnparkingOK, Replaced
    <2> QED BY <1>7, <2>2, ElsewhereOK DEF Exit, taskVars
  <1>8. CASE Finish(t)
    <2>1. TasksOK' BY <1>0, <1>8, AtElsewhere DEF Finish, FileSteps
    <2> QED BY <1>8, <2>1, ElsewhereOK DEF Finish, notSignal
  <1>9. CASE Joined(t)
    <2>1. TasksOK' BY <1>0, <1>9, AtElsewhere DEF HaltAgain, Joined, FileSteps
    <2> QED BY <1>9, <2>1, ElsewhereOK DEF HaltAgain, Joined, notSignal
  <1>10. CASE CloseAll(t)
    <2>1. TasksOK' BY <1>0, <1>10, AtElsewhere DEF CloseAll, FileSteps
    <2>2. fds' \in [Processes -> [Fds -> OpenFiles \cup {NoFile}]]
      BY <1>10 DEF CloseAll, LockInv, TablesOK
    <2>3. TablesOK' BY <1>10, <2>2 DEF CloseAll, LockInv, TablesOK
    <2>4. locks' \subseteq locks BY <1>10, ReapedFewer DEF CloseAll
    <2> QED BY <2>1, <2>3, <2>4, FewerOK DEF LockInv
  <1>11. CASE Report(t)
    <2>1. TasksOK' BY <1>0, <1>11, AtElsewhere DEF Report, FileSteps
    <2> QED BY <1>11, <2>1, ElsewhereOK DEF Report, taskVars
  <1>12. CASE ChildSignal(t)
    <2>1. TaskOK([th[t] EXCEPT !.at = "interrupt", !.target = parent[process[t]],
                                !.then = "gone"])
      BY <1>0 DEF TaskOK, Fields, FileSteps
    <2>2. TasksOK' BY <1>0, <1>12, <2>1, Replaced DEF ChildSignal
    <2> QED BY <1>12, <2>2, ElsewhereOK DEF ChildSignal, notSignal
  <1>13. CASE Gone(t)
    <2>1. TasksOK' BY <1>0, <1>13, AtElsewhere DEF Gone, FileSteps
    <2> QED BY <1>13, <2>1, ElsewhereOK DEF Gone, taskVars, notSignal
  <1>14. CASE Wait4(t)
    <2>1. TasksOK' BY <1>0, <1>14, ReturnOK DEF Wait4
    <2> QED BY <1>14, <2>1, ElsewhereOK DEF Wait4, taskVars
  <1>15. CASE HaltAll(t)
    <2>1. TasksOK' BY <1>0, <1>15, AtElsewhere DEF HaltAll, FileSteps
    <2> QED BY <1>15, <2>1, ElsewhereOK DEF HaltAll, notSignal
  <1>16. CASE HaltAgain(t)
    <2>1. TasksOK' BY <1>0, <1>16 DEF HaltAgain, TasksOK
    <2> QED BY <1>16, <2>1, ElsewhereOK DEF HaltAgain, notSignal
  <1> QED BY <1>1, <1>2, <1>3, <1>4, <1>5, <1>6, <1>7, <1>8, <1>9, <1>10, <1>11, <1>12, <1>13,
             <1>14, <1>15, <1>16 DEF ProcessStep

-----------------------------------------------------------------------------
(* The theorem.                                                            *)

LEMMA InitOK == Init => LockInv
  <1> SUFFICES ASSUME Init PROVE LockInv
    OBVIOUS
  <1>1. TaskOK(NewTask) BY DEF NewTask, TaskOK, Fields, FileSteps
  <1>2. TasksOK BY <1>1 DEF Init, TasksOK
  <1>3. PICK s \in Scenarios : program = s.program /\ fds = s.fds BY DEF Init
  <1>4. TablesOK BY <1>3, ScenariosAssumption DEF TablesOK
  <1>5. LocksOK BY DEF Init, LocksOK, NoConflict
  <1> QED BY <1>2, <1>4, <1>5 DEF LockInv

LEMMA StepOK == LockInv /\ [Next]_vars => LockInv'
  <1> SUFFICES ASSUME LockInv, [Next]_vars PROVE LockInv'
    OBVIOUS
  <1>1. ASSUME NEW t \in Tasks, Task(t) PROVE LockInv'
    BY <1>1, GuestStepOK, LockStepOK, PipeStepOK, FutexStepOK, ProcessStepOK DEF Task
  <1>2. ASSUME NEW p \in Processes, Drop(p) PROVE LockInv'
    <2>1. TasksOK' BY <1>2 DEF Drop, LockInv, TasksOK
    <2> QED BY <1>2, <2>1, ElsewhereOK DEF Drop, taskVars
  <1>3. CASE UNCHANGED vars
    BY <1>3 DEF vars, taskVars, LockInv, TasksOK, TablesOK, LocksOK, NoConflict
  <1> QED BY <1>1, <1>2, <1>3 DEF Next

\* No two holders' locks conflict on a byte, for any processes, files, ranges and
\* programs of calls, whatever is split, waited for, interrupted, closed or ended
\* (locks.rs: conflict, fcntl, flock, closed, released, process_ended).
THEOREM LocksExclusive == Spec => []NoConflict
  <1>1. LockInv => NoConflict BY DEF LockInv, LocksOK
  <1> QED BY <1>1, InitOK, StepOK, PTL DEF Spec

-----------------------------------------------------------------------------
(* The bytes of a file, and who has them.                                  *)

Covers(l, f, h, b) == l.file = f /\ l.holder = h /\ l.start <= b /\ b < l.end

\* What a table says of a byte, and of all.
ModeAt(table, f, h, b) ==
  IF \E l \in table : Covers(l, f, h, b) /\ l.write THEN "write"
  ELSE IF \E l \in table : Covers(l, f, h, b) THEN "read" ELSE "none"

ModeOf(table) ==
  [f \in Keys |-> [h \in Holders |-> [b \in Bytes |-> ModeAt(table, f, h, b)]]]

LEMMA ModeIs == mode = ModeOf(locks)
  BY DEF mode, ModeOf, ModeAt, Covers

LEMMA ModeWillBe == mode' = ModeOf(locks')
  BY DEF mode, ModeOf, ModeAt, Covers

-----------------------------------------------------------------------------
(* Locks forgotten.                                                        *)

\* What is left of a table is all of a holder's locks on a file, or none.
Whole(table) ==
  /\ locks' \subseteq table
  /\ \A l, k \in table : l.file = k.file /\ l.holder = k.holder /\ l \in locks' => k \in locks'

LEMMA WholeLeft ==
  ASSUME NEW table, Whole(table)
  PROVE  ByBytes!Left(ModeOf(table))
  <1>1. ByBytes!TypeOK'
    BY ModeWillBe DEF ByBytes!TypeOK, ByBytes!Modes, ModeOf, ModeAt
  <1>2. ASSUME NEW f \in Keys, NEW h \in Holders
        PROVE  mode'[f][h] \in {ModeOf(table)[f][h], ByBytes!Nothing}
    <2>1. mode'[f][h] = [b \in Bytes |-> ModeAt(locks', f, h, b)] BY ModeWillBe DEF ModeOf
    <2>2. ModeOf(table)[f][h] = [b \in Bytes |-> ModeAt(table, f, h, b)] BY DEF ModeOf
    <2>3. CASE \E l \in locks' : l.file = f /\ l.holder = h
      <3>1. \A l \in table : l.file = f /\ l.holder = h => l \in locks' BY <2>3 DEF Whole
      <3>2. \A b \in Bytes : ModeAt(locks', f, h, b) = ModeAt(table, f, h, b)
        BY <3>1 DEF Whole, ModeAt, Covers
      <3> QED BY <2>1, <2>2, <3>2
    <2>4. CASE ~ \E l \in locks' : l.file = f /\ l.holder = h
      <3>1. \A b \in Bytes : ModeAt(locks', f, h, b) = "none" BY <2>4 DEF ModeAt, Covers
      <3> QED BY <2>1, <3>1 DEF ByBytes!Nothing
    <2> QED BY <2>3, <2>4
  <1> QED BY <1>1, <1>2 DEF ByBytes!Left

LEMMA WholeReleases ==
  ASSUME Whole(locks)
  PROVE  ByBytes!Next
  BY WholeLeft, ModeIs DEF ByBytes!Release, ByBytes!Next

\* A holder's locks go with its open file (Reaped).
LEMMA ReapedWhole ==
  ASSUME NEW table, NEW descriptors, NEW tasks, locks' = Reaped(table, descriptors, tasks)
  PROVE  Whole(table)
  BY DEF Whole, Reaped

\* And after all of a holder's locks on a file went.
LEMMA RestWhole ==
  ASSUME NEW rest, rest \subseteq locks,
         \A l, k \in locks : l.file = k.file /\ l.holder = k.holder /\ l \in rest => k \in rest,
         Whole(rest)
  PROVE  Whole(locks)
  BY DEF Whole

-----------------------------------------------------------------------------
(* A lock taken, or dropped.                                               *)

\* What a call asks for each byte of its range.
ModeAsked(l, taken) == IF taken = {} THEN "none" ELSE IF l.write THEN "write" ELSE "read"

\* A table that has, of the range, what was asked, and of every other byte what it had.
Takes(table, l, m) ==
  \A f \in Keys, h \in Holders, b \in Bytes :
    ModeAt(table, f, h, b) = IF f = l.file /\ h = l.holder /\ l.start <= b /\ b < l.end
                             THEN m ELSE ModeAt(locks, f, h, b)

\* The mode a lock of a range leaves.
Ranged(l, m) ==
  [mode EXCEPT ![l.file][l.holder] =
     [b \in Bytes |-> IF b \in ByBytes!Range(l.start, l.end) THEN m ELSE @[b]]]

LEMMA TakesMode ==
  ASSUME NEW table, NEW l, NEW m, Takes(table, l, m)
  PROVE  IF l.file \in Keys /\ l.holder \in Holders
         THEN ModeOf(table) = Ranged(l, m) ELSE ModeOf(table) = mode
  <1>1. ASSUME ~(l.file \in Keys /\ l.holder \in Holders) PROVE ModeOf(table) = mode
    <2>1. \A f \in Keys, h \in Holders, b \in Bytes :
             ModeAt(table, f, h, b) = ModeAt(locks, f, h, b)
      BY <1>1 DEF Takes
    <2> QED BY <2>1, ModeIs DEF ModeOf
  <1>2. ASSUME l.file \in Keys, l.holder \in Holders PROVE ModeOf(table) = Ranged(l, m)
    <2> DEFINE new == [b \in Bytes |-> IF b \in ByBytes!Range(l.start, l.end)
                                       THEN m ELSE mode[l.file][l.holder][b]]
    <2>1. Ranged(l, m) = [mode EXCEPT ![l.file] = [mode[l.file] EXCEPT ![l.holder] = new]]
      BY DEF Ranged
    <2>2. new = [b \in Bytes |-> ModeAt(table, l.file, l.holder, b)]
      BY <1>2, ModeIs DEF Takes, ModeOf, ByBytes!Range
    <2>3. ASSUME NEW f \in Keys, NEW h \in Holders, f # l.file \/ h # l.holder
          PROVE  mode[f][h] = [b \in Bytes |-> ModeAt(table, f, h, b)]
      BY <2>3, ModeIs DEF Takes, ModeOf
    <2>4. [mode[l.file] EXCEPT ![l.holder] = new]
            = [h \in Holders |-> [b \in Bytes |-> ModeAt(table, l.file, h, b)]]
      BY <1>2, <2>2, <2>3, ModeIs DEF ModeOf
    <2>5. ASSUME NEW f \in Keys, f # l.file
          PROVE  mode[f] = [h \in Holders |-> [b \in Bytes |-> ModeAt(table, f, h, b)]]
      BY <2>5, <2>3, ModeIs DEF ModeOf
    <2> DEFINE there == [mode[l.file] EXCEPT ![l.holder] = new]
    <2>6. mode \in [Keys -> [Holders -> [Bytes -> {"none", "read", "write"}]]]
      BY ModeIs DEF ModeOf, ModeAt
    <2>7. ModeOf(table)[l.file] = there
      BY <1>2, <2>4 DEF ModeOf
    <2>8. \A f \in Keys : f # l.file => ModeOf(table)[f] = mode[f]
      BY <2>5 DEF ModeOf
    <2>9. ModeOf(table) = [f \in Keys |-> ModeOf(table)[f]]
      BY DEF ModeOf
    <2> HIDE DEF new, there
    <2>10. ModeOf(table) = [mode EXCEPT ![l.file] = there]
      BY <2>6, <2>7, <2>8, <2>9
    <2> QED BY <2>1, <2>10 DEF there
  <1> QED BY <1>1, <1>2

\* No byte of the range is another's, against what is asked (Conflicts).
LEMMA RangeFree ==
  ASSUME locks \subseteq LockRec, NEW l \in LockRec, NEW taken \in {{}, {l}},
         taken # {} => Conflicts(l) = {},
         l.file \in Keys,
         NEW g \in Holders \ {l.holder}, NEW b \in ByBytes!Range(l.start, l.end)
  PROVE  ByBytes!Compatible(ModeAsked(l, taken), mode[l.file][g][b])
  <1>1. b \in Bytes /\ l.start <= b /\ b < l.end BY DEF ByBytes!Range
  <1>2. mode[l.file][g][b] = ModeAt(locks, l.file, g, b) BY <1>1, ModeIs DEF ModeOf
  <1>3. ASSUME taken # {}, NEW k \in locks, Covers(k, l.file, g, b)
        PROVE  ~(l.write \/ k.write)
    <2>1. k \in LockRec /\ b \in Nat BY <1>1, LocksAssumption DEF Bytes
    <2>2. Overlap(k, l) BY <1>1, <1>3, <2>1 DEF Overlap, Covers, LockRec
    <2> QED BY <1>3, <2>2 DEF Conflicts, Covers
  <1> QED BY <1>2, <1>3 DEF ModeAt, ByBytes!Compatible, ModeAsked

\* A range of one byte or more, of the file's.
RangeOK(l) == l.start \in Bytes /\ l.end \in {b + 1 : b \in Bytes}

LEMMA AskedRange ==
  ASSUME TasksOK, NEW t \in Tasks, th[t].at \in FileSteps
  PROVE  RangeOK(Asked(t))
  <1>1. Now(t).start \in 0 .. MaxByte /\ Now(t).end \in 1 .. MaxByte + 1
    BY DEF TasksOK, TaskOK, Now, Call
  <1>2. \A n \in 1 .. MaxByte + 1 : n \in {b + 1 : b \in Bytes}
    <2>1. ASSUME NEW n \in 1 .. MaxByte + 1 PROVE n - 1 \in Bytes /\ n = (n - 1) + 1
      BY LocksAssumption DEF Bytes
    <2> QED BY <2>1
  <1>3. 0 \in Bytes /\ MaxByte + 1 \in 1 .. MaxByte + 1 BY LocksAssumption DEF Bytes
  <1> QED BY <1>1, <1>2, <1>3 DEF Asked, RangeOK, Bytes

\* A table that is as a lock leaves it, and what is forgotten of it, is a step of
\* ByteLocks.
LEMMA TakesStep ==
  ASSUME locks \subseteq LockRec, NEW l \in LockRec, RangeOK(l), NEW taken \in {{}, {l}},
         taken # {} => Conflicts(l) = {},
         NEW table, Takes(table, l, ModeAsked(l, taken)), Whole(table)
  PROVE  ByBytes!Next
  <1> DEFINE m == ModeAsked(l, taken)
  <1>1. CASE l.file \in Keys /\ l.holder \in Holders
    <2>1. ByBytes!Left(Ranged(l, m)) BY <1>1, TakesMode, WholeLeft
    <2>2. \A g \in Holders \ {l.holder} : \A b \in ByBytes!Range(l.start, l.end) :
             ByBytes!Compatible(m, mode[l.file][g][b])
      BY <1>1, RangeFree
    <2>3. ByBytes!Lock(l.file, l.holder, ByBytes!Range(l.start, l.end), m)
      BY <2>1, <2>2 DEF ByBytes!Lock, Ranged
    <2>4. m \in ByBytes!Modes BY DEF ModeAsked, ByBytes!Modes
    <2> QED BY <1>1, <2>3, <2>4 DEF RangeOK, ByBytes!Next
  <1>2. CASE ~(l.file \in Keys /\ l.holder \in Holders)
    <2>1. ByBytes!Left(mode) BY <1>2, TakesMode, WholeLeft
    <2> QED BY <2>1 DEF ByBytes!Next, ByBytes!Release
  <1> QED BY <1>1, <1>2

\* What gives way to a lock keeps every byte out of its range, and none in it (Given).
LEMMA GivenCovers ==
  ASSUME locks \subseteq LockRec, NEW l \in LockRec, NEW f, NEW h, NEW b \in Nat, NEW w \in BOOLEAN
  PROVE  (\E k \in Given(l) : Covers(k, f, h, b) /\ (w \/ k.write))
           <=> /\ ~(f = l.file /\ h = l.holder /\ l.start <= b /\ b < l.end)
               /\ \E k \in locks : Covers(k, f, h, b) /\ (w \/ k.write)
  <1> DEFINE own == {o \in locks : o.file = l.file /\ o.holder = l.holder /\ Overlap(o, l)}
             before == {[o EXCEPT !.end = l.start] : o \in {q \in own : q.start < l.start}}
             behind == {[o EXCEPT !.start = l.end] : o \in {q \in own : l.end < q.end}}
             Inside == f = l.file /\ h = l.holder /\ l.start <= b /\ b < l.end
             Is(k) == Covers(k, f, h, b) /\ (w \/ k.write)
  <1>0. l.start \in Nat /\ l.end \in Nat BY DEF LockRec
  <1>1. Given(l) = (locks \ own) \cup before \cup behind BY DEF Given
  <1>2. ASSUME NEW k \in Given(l), Is(k) PROVE ~Inside /\ \E o \in locks : Is(o)
    <2>1. CASE k \in locks \ own
      <3>1. k \in LockRec BY <2>1
      <3> QED BY <1>0, <1>2, <2>1, <3>1 DEF Covers, Overlap, LockRec
    <2>2. CASE k \in before
      <3>1. PICK o \in own : o.start < l.start /\ k = [o EXCEPT !.end = l.start] BY <2>2
      <3>2. o \in LockRec /\ l.start < o.end BY <3>1 DEF Overlap
      <3>3. /\ k.file = o.file /\ k.holder = o.holder /\ k.write = o.write
            /\ k.start = o.start /\ k.end = l.start
        BY <3>1, <3>2 DEF LockRec
      <3>4. b < l.start /\ b < o.end /\ o.start <= b
        BY <1>0, <1>2, <3>2, <3>3 DEF Covers, LockRec
      <3> QED BY <1>0, <1>2, <3>1, <3>3, <3>4 DEF Covers
    <2>3. CASE k \in behind
      <3>1. PICK o \in own : l.end < o.end /\ k = [o EXCEPT !.start = l.end] BY <2>3
      <3>2. o \in LockRec /\ o.start < l.end BY <3>1 DEF Overlap
      <3>3. /\ k.file = o.file /\ k.holder = o.holder /\ k.write = o.write
            /\ k.start = l.end /\ k.end = o.end
        BY <3>1, <3>2 DEF LockRec
      <3>4. l.end <= b /\ b < o.end /\ o.start <= b
        BY <1>0, <1>2, <3>2, <3>3 DEF Covers, LockRec
      <3> QED BY <1>0, <1>2, <3>1, <3>3, <3>4 DEF Covers
    <2> QED BY <1>1, <2>1, <2>2, <2>3
  <1>3. ASSUME ~Inside, NEW o \in locks, Is(o) PROVE \E k \in Given(l) : Is(k)
    <2>1. o \in LockRec OBVIOUS
    <2>2. CASE o \notin own BY <1>1, <1>3, <2>2
    <2>3. CASE o \in own /\ b < l.start
      <3> DEFINE k == [o EXCEPT !.end = l.start]
      <3>1. o.start < l.start BY <1>0, <1>3, <2>1, <2>3 DEF Covers, LockRec
      <3>2. k \in Given(l) BY <1>1, <2>3, <3>1
      <3>3. Is(k) BY <1>0, <1>3, <2>1, <2>3 DEF Covers, LockRec
      <3> QED BY <3>2, <3>3
    <2>4. CASE o \in own /\ l.end <= b
      <3> DEFINE k == [o EXCEPT !.start = l.end]
      <3>1. l.end < o.end BY <1>0, <1>3, <2>1, <2>4 DEF Covers, LockRec
      <3>2. k \in Given(l) BY <1>1, <2>4, <3>1
      <3>3. Is(k) BY <1>0, <1>3, <2>1, <2>4 DEF Covers, LockRec
      <3> QED BY <3>2, <3>3
    <2>5. b < l.start \/ l.end <= b \/ o \notin own BY <1>0, <1>3 DEF Covers
    <2> QED BY <2>2, <2>3, <2>4, <2>5
  <1> QED BY <1>2, <1>3

LEMMA GivenTakes ==
  ASSUME locks \subseteq LockRec, NEW l \in LockRec, NEW taken \in {{}, {l}}
  PROVE  Takes(Given(l) \cup taken, l, ModeAsked(l, taken))
  <1> SUFFICES ASSUME NEW f \in Keys, NEW h \in Holders, NEW b \in Bytes
               PROVE  ModeAt(Given(l) \cup taken, f, h, b)
                        = IF f = l.file /\ h = l.holder /\ l.start <= b /\ b < l.end
                          THEN ModeAsked(l, taken) ELSE ModeAt(locks, f, h, b)
    BY DEF Takes
  <1>0. b \in Nat BY LocksAssumption DEF Bytes
  <1>1. (\E k \in Given(l) : Covers(k, f, h, b) /\ k.write)
           <=> /\ ~(f = l.file /\ h = l.holder /\ l.start <= b /\ b < l.end)
               /\ \E k \in locks : Covers(k, f, h, b) /\ k.write
    BY <1>0, GivenCovers
  <1>2. (\E k \in Given(l) : Covers(k, f, h, b))
           <=> /\ ~(f = l.file /\ h = l.holder /\ l.start <= b /\ b < l.end)
               /\ \E k \in locks : Covers(k, f, h, b)
    BY <1>0, GivenCovers
  <1>3. \A k \in taken : k = l BY DEF ModeAsked
  <1>4. Covers(l, f, h, b) <=> f = l.file /\ h = l.holder /\ l.start <= b /\ b < l.end
    BY DEF Covers
  <1>5. CASE taken = {} BY <1>1, <1>2, <1>5 DEF ModeAt, ModeAsked
  <1>6. CASE taken = {l} BY <1>1, <1>2, <1>4, <1>6 DEF ModeAt, ModeAsked
  <1> QED BY <1>5, <1>6

\* A flock is of every byte: one taken over the holder's own, or beside another its
\* open file has (Flock).
LEMMA FlockTakes ==
  ASSUME locks \subseteq LockRec, NEW l \in LockRec, KeyOK(l), l.file[2] = "flock"
  PROVE  Takes(Dropped(l) \cup {l}, l, ModeAsked(l, {l}))
  <1> SUFFICES ASSUME NEW f \in Keys, NEW h \in Holders, NEW b \in Bytes
               PROVE  ModeAt(Dropped(l) \cup {l}, f, h, b)
                        = IF f = l.file /\ h = l.holder /\ l.start <= b /\ b < l.end
                          THEN ModeAsked(l, {l}) ELSE ModeAt(locks, f, h, b)
    BY DEF Takes
  <1>1. l.start <= b /\ b < l.end BY LocksAssumption DEF KeyOK, Bytes
  <1>2. CASE f = l.file /\ h = l.holder
    <2>1. Covers(l, f, h, b) BY <1>1, <1>2 DEF Covers
    <2>2. \A k \in Dropped(l) : ~Covers(k, f, h, b) BY <1>2 DEF Dropped, Covers
    <2> QED BY <1>1, <1>2, <2>1, <2>2 DEF ModeAt, ModeAsked
  <1>3. CASE ~(f = l.file /\ h = l.holder)
    <2>1. ~Covers(l, f, h, b) BY <1>3 DEF Covers
    <2>2. \A k \in locks : Covers(k, f, h, b) => k \in Dropped(l) BY <1>3 DEF Dropped, Covers
    <2>3. Dropped(l) \subseteq locks BY DEF Dropped
    <2> QED BY <1>3, <2>1, <2>2, <2>3 DEF ModeAt
  <1> QED BY <1>2, <1>3

\* One that waited meets what another task of the open file took meanwhile: the
\* stronger of the two counts.
LEMMA FlockBeside ==
  ASSUME locks \subseteq LockRec, \A k \in locks : KeyOK(k),
         NEW l \in LockRec, KeyOK(l), l.file[2] = "flock"
  PROVE  \/ Takes(locks \cup {l}, l, ModeAsked(l, {l}))
         \/ ModeOf(locks \cup {l}) = mode
  <1> DEFINE Own(k) == k.file = l.file /\ k.holder = l.holder
  <1>1. ASSUME NEW k \in locks \cup {l}, Own(k), NEW b \in Bytes
        PROVE  Covers(k, l.file, l.holder, b)
    <2>1. k.start = 0 /\ k.end = MaxByte + 1 BY <1>1 DEF KeyOK
    <2> QED BY <1>1, <2>1, LocksAssumption DEF Bytes, Covers
  <1>2. ASSUME NEW f \in Keys, NEW h \in Holders, NEW b \in Bytes,
               ~(f = l.file /\ h = l.holder)
        PROVE  ModeAt(locks \cup {l}, f, h, b) = ModeAt(locks, f, h, b)
    BY <1>2 DEF ModeAt, Covers
  <1>3. CASE ~l.write /\ \E k \in locks : Own(k) /\ k.write
    <2>1. ASSUME NEW b \in Bytes
          PROVE  /\ ModeAt(locks \cup {l}, l.file, l.holder, b) = "write"
                 /\ ModeAt(locks, l.file, l.holder, b) = "write"
      BY <1>1, <1>3 DEF ModeAt
    <2>2. \A f \in Keys, h \in Holders, b \in Bytes :
             ModeAt(locks \cup {l}, f, h, b) = ModeAt(locks, f, h, b)
      BY <1>2, <2>1
    <2>3. ModeOf(locks \cup {l}) = mode BY <2>2, ModeIs DEF ModeOf
    <2> QED BY <2>3
  <1>4. CASE l.write \/ \A k \in locks : Own(k) => ~k.write
    <2>1. ASSUME NEW b \in Bytes
          PROVE  ModeAt(locks \cup {l}, l.file, l.holder, b) = ModeAsked(l, {l})
      <3>1. Covers(l, l.file, l.holder, b) BY <1>1
      <3> QED BY <1>4, <3>1 DEF ModeAt, ModeAsked, Covers
    <2>2. ASSUME NEW b \in Bytes PROVE l.start <= b /\ b < l.end
      BY <1>1 DEF Covers
    <2>3. Takes(locks \cup {l}, l, ModeAsked(l, {l})) BY <1>2, <2>1, <2>2 DEF Takes
    <2> QED BY <2>3
  <1> QED BY <1>3, <1>4

-----------------------------------------------------------------------------
(* The steps.                                                              *)

LEMMA SameTable ==
  ASSUME UNCHANGED locks
  PROVE  UNCHANGED mode
  BY ModeIs, ModeWillBe

LEMMA SetLockStep ==
  ASSUME LockInv, NEW t \in Tasks, SetLock(t)
  PROVE  ByBytes!Next
  <1> DEFINE l == Asked(t)
  <1>1. l \in LockRec /\ RangeOK(l) BY AskedOK, AskedRange DEF LockInv, SetLock, FileSteps
  <1>2. locks \subseteq LockRec BY DEF LockInv, LocksOK
  <1>3. CASE LockReturn(t, "0", Given(l))
    <2>1. Takes(Given(l) \cup {}, l, ModeAsked(l, {})) BY <1>1, <1>2, GivenTakes
    <2>2. Whole(Given(l)) BY <1>3, ReapedWhole DEF LockReturn
    <2>3. Given(l) \cup {} = Given(l) OBVIOUS
    <2> QED BY <1>1, <1>2, <2>1, <2>2, <2>3, TakesStep
  <1>4. CASE Conflicts(l) = {} /\ LockReturn(t, "0", Given(l) \cup {l})
    <2>1. Takes(Given(l) \cup {l}, l, ModeAsked(l, {l})) BY <1>1, <1>2, GivenTakes
    <2>2. Whole(Given(l) \cup {l}) BY <1>4, ReapedWhole DEF LockReturn
    <2> QED BY <1>1, <1>2, <1>4, <2>1, <2>2, TakesStep
  <1>5. CASE LockReturn(t, "EINTR", locks) \/ LockReturn(t, "EAGAIN", locks)
    BY <1>5, ReapedWhole, WholeReleases DEF LockReturn
  <1> QED BY <1>3, <1>4, <1>5 DEF SetLock

LEMMA FlockStep ==
  ASSUME LockInv, NEW t \in Tasks, Flock(t)
  PROVE  ByBytes!Next
  <1> DEFINE l == Asked(t)
             rest == IF th[t].at = "flock" THEN Dropped(l) ELSE locks
             Leaves == \E answer : LockReturn(t, answer, rest)
             Sleeps == locks' = rest
             Taken == Conflicts(l) = {} /\ LockReturn(t, "0", rest \cup {l})
  <1>1. l \in LockRec /\ RangeOK(l) /\ KeyOK(l) /\ l.file[2] = "flock"
    BY AskedOK, AskedRange DEF LockInv, Flock, FileSteps
  <1>2. locks \subseteq LockRec /\ \A k \in locks : KeyOK(k) BY DEF LockInv, LocksOK
  <1>3. Leaves \/ Sleeps \/ Taken BY DEF Flock
  <1>4. CASE Leaves \/ Sleeps
    <2>1. Whole(rest) BY <1>4, ReapedWhole DEF LockReturn, Whole
    <2>2. rest \subseteq locks BY DEF Dropped
    <2>3. \A a, b \in locks : a.file = b.file /\ a.holder = b.holder /\ a \in rest => b \in rest
      BY DEF Dropped
    <2>4. Whole(locks) BY <2>1, <2>2, <2>3, RestWhole
    <2> QED BY <2>4, WholeReleases
  <1>5. CASE Taken
    <2>1. Whole(rest \cup {l}) BY <1>5, ReapedWhole DEF LockReturn
    <2>2. CASE Takes(rest \cup {l}, l, ModeAsked(l, {l}))
      BY <1>1, <1>2, <1>5, <2>1, <2>2, TakesStep
    <2>3. CASE ModeOf(rest \cup {l}) = mode
      BY <2>1, <2>3, WholeLeft DEF ByBytes!Release, ByBytes!Next
    <2>4. Takes(rest \cup {l}, l, ModeAsked(l, {l})) \/ ModeOf(rest \cup {l}) = mode
      BY <1>1, <1>2, FlockTakes, FlockBeside
    <2> QED BY <2>2, <2>3, <2>4
  <1> QED BY <1>3, <1>4, <1>5

LEMMA CloseLocksStep ==
  ASSUME LockInv, NEW t \in Tasks, CloseLocks(t)
  PROVE  ByBytes!Next
  <1> DEFINE gone == {l \in locks : /\ l.holder = process[t]
                                    /\ File(t) \in LockFiles
                                    /\ l.file = <<inode[File(t)], "fcntl">> \/ l.via = File(t)}
  <1>1. process[t] \in Processes BY TasksAssumption
  <1>2. \A l \in gone : l.file = <<inode[File(t)], "fcntl">>
    BY <1>1 DEF LockInv, LocksOK, KeyOK
  <1>3. \A a, b \in locks : a.file = b.file /\ a.holder = b.holder /\ a \in locks \ gone
                              => b \in locks \ gone
    BY <1>2
  <1>4. Whole(locks \ gone) BY ReapedWhole DEF CloseLocks, LockReturn
  <1>5. Whole(locks) BY <1>3, <1>4, RestWhole
  <1> QED BY <1>5, WholeReleases

LEMMA LockStepPromised ==
  ASSUME LockInv, NEW t \in Tasks, LockStep(t)
  PROVE  ByBytes!Next \/ UNCHANGED mode
  <1>1. CASE SetLock(t) BY <1>1, SetLockStep
  <1>2. CASE GetLock(t)
    <2>1. Whole(locks) BY <1>2, ReapedWhole DEF GetLock, LockReturn
    <2> QED BY <2>1, WholeReleases
  <1>3. CASE Flock(t) BY <1>3, FlockStep
  <1>4. CASE Close(t)
    <2>1. Whole(locks) \/ UNCHANGED locks BY <1>4, ReapedWhole DEF Close, LockReturn
    <2> QED BY <2>1, WholeReleases, SameTable
  <1>5. CASE CloseLocks(t) BY <1>5, CloseLocksStep
  <1>6. CASE Dup(t)
    <2>1. Whole(locks) BY <1>6, ReapedWhole DEF Dup
    <2> QED BY <2>1, WholeReleases
  <1> QED BY <1>1, <1>2, <1>3, <1>4, <1>5, <1>6 DEF LockStep

LEMMA StepPromised == LockInv /\ [Next]_vars => [ByBytes!Next]_mode
  <1> SUFFICES ASSUME LockInv, [Next]_vars PROVE ByBytes!Next \/ UNCHANGED mode
    OBVIOUS
  <1>1. ASSUME NEW t \in Tasks, Task(t) PROVE ByBytes!Next \/ UNCHANGED mode
    <2>1. CASE LockStep(t) BY <2>1, LockStepPromised
    <2>2. CASE CloseAll(t)
      <3>1. Whole(locks) BY <2>2, ReapedWhole DEF CloseAll
      <3> QED BY <3>1, WholeReleases
    <2>3. CASE ProcessStep(t) /\ ~CloseAll(t)
      <3>1. UNCHANGED locks
        BY <2>3 DEF ProcessStep, Signal, Interrupt, Kill, ExitGroup, EndGroup, HaltAll,
                    InterruptAll, Exit, Finish, HaltAgain, Joined, Report, ChildSignal, Gone,
                    Wait4, notSignal
      <3> QED BY <3>1, SameTable
    <2>4. CASE GuestStep(t)
      <3>1. UNCHANGED locks
        BY <2>4 DEF GuestStep, Begin, Retry, Halted, Cleared, Deliver, Store, PiLock, PiUnlock,
                    notTask
      <3> QED BY <3>1, SameTable
    <2>5. CASE UNCHANGED locks BY <2>5, SameTable
    <2> QED BY <1>1, <2>1, <2>2, <2>3, <2>4, <2>5 DEF Task
  <1>2. ASSUME NEW p \in Processes, Drop(p) PROVE ByBytes!Next \/ UNCHANGED mode
    <2>1. Whole(locks) BY <1>2 DEF Drop, Whole
    <2> QED BY <2>1, WholeReleases
  <1>3. CASE UNCHANGED vars BY <1>3, SameTable DEF vars
  <1> QED BY <1>1, <1>2, <1>3 DEF Next

LEMMA InitPromised == Init => ByBytes!Init
  <1> SUFFICES ASSUME Init PROVE ByBytes!Init
    OBVIOUS
  <1>1. \A f \in Keys, h \in Holders, b \in Bytes : ModeAt(locks, f, h, b) = "none"
    BY DEF Init, ModeAt
  <1> QED BY <1>1, ModeIs DEF ModeOf, ByBytes!Init, ByBytes!Nothing

\* The table of record locks does what ByteLocks promises, for any processes, files,
\* ranges and programs of calls: a lock replaces its holder's own over its range and no
\* further, in one piece or not at all, against no other holder's; what a close or an
\* end releases is all a holder has (fcntl, flock, closed, released, process_ended).
THEOREM LocksKeepPromise == Spec => LocksByBytes
  <1>1. Spec => []LockInv BY InitOK, StepOK, PTL DEF Spec
  <1> QED BY <1>1, StepPromised, InitPromised, PTL DEF Spec, LocksByBytes, ByBytes!Spec

-----------------------------------------------------------------------------
(* Marks.                                                                  *)

\* What a step may do to the marks.
Answers ==
  \A t \in Tasks : t \in woken /\ t \notin woken' /\ th[t].at = "parked" =>
     th'[t].at = "guest" /\ th'[t].answer = "0"

\* Marks are kept, but a priority-inheritance wait's own.
LEMMA Kept ==
  ASSUME woken \subseteq woken'
  PROVE  Answers
  BY DEF Answers

\* A step of a task that is not parked takes back its own mark alone.
LEMMA OwnMark ==
  ASSUME NEW t \in Tasks, woken \ {t} \subseteq woken', th[t].at # "parked"
  PROVE  Answers
  BY DEF Answers

\* A waiter that was woken answers so.
LEMMA OwnAnswer ==
  ASSUME TasksOK, NEW t \in Tasks, woken \ {t} \subseteq woken',
         th' = [th EXCEPT ![t] = Back(th[t], "0")]
  PROVE  Answers
  <1>1. th'[t].at = "guest" /\ th'[t].answer = "0"
    BY DEF TasksOK, TaskOK, Fields, Back
  <1> QED BY <1>1 DEF Answers

\* One that was not has no mark to lose.
LEMMA NoMark ==
  ASSUME NEW t \in Tasks, t \notin woken, woken \ {t} \subseteq woken'
  PROVE  Answers
  BY DEF Answers

\* So does a look at a priority-inheritance lock's word.
LEMMA PiLookKeeps ==
  ASSUME NEW t \in Tasks, NEW awake, PiLook(t, awake), th[t].at # "parked"
  PROVE  Answers
  <1>1. woken \ {t} \subseteq woken' BY DEF PiLook, WaitOver
  <1> QED BY <1>1, OwnMark

\* Of the steps of a futex call, one by one.
LEMMA FutexAnswers ==
  ASSUME TasksOK, NEW t \in Tasks, FutexStep(t)
  PROVE  Answers
  <1>1. CASE FutexWait(t) BY <1>1, Kept DEF FutexWait
  <1>2. CASE FutexUnparked(t)
    <2>1. CASE t \in woken BY <1>2, <2>1, OwnAnswer DEF FutexUnparked, WaitOver
    <2>2. CASE t \notin woken
      <3>1. woken \ {t} \subseteq woken' BY <1>2 DEF FutexUnparked, WaitOver
      <3> QED BY <2>2, <3>1, NoMark
    <2> QED BY <2>1, <2>2
  <1>3. CASE FutexLate(t)
    <2>1. CASE t \in woken BY <1>3, <2>1, OwnAnswer DEF FutexLate, WaitOver
    <2>2. CASE t \notin woken
      <3>1. woken \ {t} \subseteq woken' BY <1>3 DEF FutexLate, WaitOver
      <3> QED BY <2>2, <3>1, NoMark
    <2> QED BY <2>1, <2>2
  <1>4. CASE FutexWake(t) BY <1>4, Kept DEF FutexWake, WakeAndMove
  <1>5. CASE FutexRequeue(t) BY <1>5, Kept DEF FutexRequeue, WakeAndMove
  <1>6. CASE Unpark(t) BY <1>6, Kept DEF Unpark
  <1>7. CASE LockPi(t) BY <1>7, PiLookKeeps DEF LockPi
  <1>8. CASE PiUnparked(t) BY <1>8, PiLookKeeps DEF PiUnparked
  <1>9. CASE PiLate(t) BY <1>9, PiLookKeeps DEF PiLate
  <1>10. CASE TryLockPi(t) BY <1>10, Kept DEF TryLockPi
  <1>11. CASE UnlockPi(t) BY <1>11, Kept DEF UnlockPi, WakeAndMove
  <1> QED BY <1>1, <1>2, <1>3, <1>4, <1>5, <1>6, <1>7, <1>8, <1>9, <1>10, <1>11 DEF FutexStep

\* Of every step.
LEMMA StepAnswers == LockInv /\ [Next]_vars => Answers
  <1> SUFFICES ASSUME LockInv, [Next]_vars PROVE Answers
    OBVIOUS
  <1>0. TasksOK BY DEF LockInv
  <1>1. ASSUME NEW t \in Tasks, Task(t) PROVE Answers
    <2>1. CASE FutexStep(t) BY <1>0, <2>1, FutexAnswers
    <2>2. CASE GuestStep(t)
      <3>1. woken \subseteq woken'
        BY <2>2 DEF GuestStep, Begin, Retry, Halted, Cleared, Deliver, Store, PiLock, PiUnlock,
                    notTask, futexVars
      <3> QED BY <3>1, Kept
    <2>3. CASE ProcessStep(t)
      <3>1. woken \subseteq woken'
        BY <2>3 DEF ProcessStep, Signal, Interrupt, Kill, ExitGroup, EndGroup, HaltAll,
                    InterruptAll, Exit, Finish, HaltAgain, Joined, CloseAll, Report,
                    ChildSignal, Gone, Wait4, notSignal, futexVars
      <3> QED BY <3>1, Kept
    <2>4. CASE UNCHANGED futexVars BY <2>4, Kept DEF futexVars
    <2> QED BY <1>1, <2>1, <2>2, <2>3, <2>4 DEF Task
  <1>2. ASSUME NEW p \in Processes, Drop(p) PROVE Answers BY <1>2, Kept DEF Drop, futexVars
  <1>3. CASE UNCHANGED vars BY <1>3, Kept DEF vars, futexVars
  <1> QED BY <1>1, <1>2, <1>3 DEF Next

\* A waiter that a wake counted answers that it was woken, for any processes, words,
\* bitsets and programs, whatever deadline, slice, signal, requeue or end of its process
\* came after the wake (futex.rs: wait, wake, requeue, remove).
THEOREM WokenAnswer == Spec => WokenAnswers
  <1>1. Spec => []LockInv BY InitOK, StepOK, PTL DEF Spec
  <1>2. LockInv /\ [Next]_vars =>
          [\A t \in Tasks : t \in woken /\ t \notin woken' /\ th[t].at = "parked" =>
              th'[t].at = "guest" /\ th'[t].answer = "0"]_vars
    BY StepAnswers DEF Answers
  <1> QED BY <1>1, <1>2, PTL DEF Spec, WokenAnswers

-----------------------------------------------------------------------------
(* Queues.                                                                 *)

Entry == [task : Tasks, bitset : SUBSET Bits]

TasksIn(q) == {q[i].task : i \in DOMAIN q}
Once(q)    == \A i, j \in DOMAIN q : q[i].task = q[j].task => i = j

\* The places of a queue that are left are numbered, in their order, from one.
LEMMA Ranks ==
  ASSUME NEW n \in Nat, NEW left \in SUBSET (1 .. n)
  PROVE  /\ Cardinality(left) \in Nat
         /\ \A i \in left : Cardinality({j \in left : j <= i}) \in 1 .. Cardinality(left)
         /\ \A i, k \in left :
              Cardinality({j \in left : j <= i}) = Cardinality({j \in left : j <= k}) => i = k
         /\ \A k \in 1 .. Cardinality(left) : \E i \in left : Cardinality({j \in left : j <= i}) = k
  <1> DEFINE upto(i) == {j \in left : j <= i}
             rank == [i \in left |-> Cardinality(upto(i))]
  <1>0. left \subseteq Nat OBVIOUS
  <1>1. IsFiniteSet(left)
    <2>1. IsFiniteSet(1 .. n) BY FS_Interval
    <2> QED BY <2>1, FS_Subset
  <1>2. Cardinality(left) \in Nat BY <1>1, FS_CardinalityType
  <1>3. ASSUME NEW i \in left
        PROVE  IsFiniteSet(upto(i)) /\ Cardinality(upto(i)) \in 1 .. Cardinality(left)
    <2>1. upto(i) \in SUBSET left OBVIOUS
    <2>2. IsFiniteSet(upto(i)) /\ Cardinality(upto(i)) <= Cardinality(left)
      BY <1>1, <2>1, FS_Subset
    <2>3. i \in upto(i) OBVIOUS
    <2>4. Cardinality(upto(i)) \in Nat /\ Cardinality(upto(i)) # 0
      BY <2>2, <2>3, FS_CardinalityType, FS_EmptySet
    <2> QED BY <1>2, <2>2, <2>4
  <1>4. ASSUME NEW i \in left, NEW k \in left, i < k
        PROVE  Cardinality(upto(i)) < Cardinality(upto(k))
    <2>0. i \in Nat /\ k \in Nat BY <1>0
    <2>1. k \notin upto(i) BY <1>4, <2>0
    <2>2. upto(i) \cup {k} \in SUBSET upto(k)
      <3>1. \A j \in upto(i) : j \in left /\ j \in Nat /\ j <= i BY <1>0
      <3>2. \A j \in upto(i) : j <= k BY <1>4, <2>0, <3>1
      <3>3. k \in upto(k) BY <2>0
      <3>4. upto(i) \subseteq upto(k) BY <3>1, <3>2
      <3> QED BY <3>3, <3>4
    <2>3. Cardinality(upto(i) \cup {k}) = Cardinality(upto(i)) + 1
      BY <1>3, <2>1, FS_AddElement
    <2>4. Cardinality(upto(i) \cup {k}) <= Cardinality(upto(k)) BY <1>3, <2>2, FS_Subset
    <2> QED BY <1>3, <2>3, <2>4
  <1>5. ASSUME NEW i \in left, NEW k \in left, Cardinality(upto(i)) = Cardinality(upto(k))
        PROVE  i = k
    <2>1. Cardinality(upto(i)) \in Nat /\ i \in Nat /\ k \in Nat BY <1>0, <1>2, <1>3
    <2>2. ~(i < k) BY <1>4, <1>5, <2>1
    <2>3. ~(k < i) BY <1>3, <1>4, <1>5, <2>1
    <2> QED BY <2>1, <2>2, <2>3
  <1>6. rank \in Injection(left, 1 .. Cardinality(left))
    BY <1>3, <1>5 DEF Injection, IsInjective
  <1>7. /\ IsFiniteSet(1 .. Cardinality(left))
        /\ Cardinality(1 .. Cardinality(left)) = Cardinality(left)
    BY <1>2, FS_Interval
  <1>8. rank \in Surjection(left, 1 .. Cardinality(left))
    BY <1>6, <1>7, FS_Injection
  <1>9. ASSUME NEW k \in 1 .. Cardinality(left) PROVE \E i \in left : Cardinality(upto(i)) = k
    BY <1>8 DEF Surjection
  <1> QED BY <1>2, <1>3, <1>5, <1>9

\* What Without leaves: the others' waits, each once if each was there once.
LEMMA WithoutIs ==
  ASSUME NEW q \in Seq(Entry), NEW tasks
  PROVE  /\ Without(q, tasks) \in Seq(Entry)
         /\ TasksIn(Without(q, tasks)) = TasksIn(q) \ tasks
         /\ Once(q) => Once(Without(q, tasks))
         /\ \A k \in DOMAIN Without(q, tasks) : \E i \in DOMAIN q : Without(q, tasks)[k] = q[i]
  <1> DEFINE left == {i \in DOMAIN q : q[i].task \notin tasks}
             rank(i) == Cardinality({j \in left : j <= i})
             place(k) == CHOOSE i \in left : rank(i) = k
             N == Cardinality(left)
             w == Without(q, tasks)
  <1>1. Len(q) \in Nat /\ DOMAIN q = 1 .. Len(q) /\ left \in SUBSET (1 .. Len(q)) OBVIOUS
  <1>2. /\ N \in Nat /\ \A i \in left : rank(i) \in 1 .. N
        /\ \A i, k \in left : rank(i) = rank(k) => i = k
        /\ \A k \in 1 .. N : \E i \in left : rank(i) = k
    BY <1>1, Ranks
  <1>3. w = [k \in 1 .. N |-> q[place(k)]] BY DEF Without
  <1> HIDE DEF rank, N, w
  <1>4. ASSUME NEW k \in 1 .. N PROVE place(k) \in left /\ rank(place(k)) = k
    BY <1>2
  <1>5. ASSUME NEW i \in left PROVE rank(i) \in 1 .. N /\ place(rank(i)) = i
    BY <1>2
  <1> HIDE DEF place
  <1>6. DOMAIN w = 1 .. N /\ \A k \in 1 .. N : w[k] = q[place(k)] BY <1>3
  <1>7. w \in Seq(Entry)
    <2>1. \A k \in 1 .. N : q[place(k)] \in Entry BY <1>4
    <2> QED BY <1>2, <1>3, <2>1
  <1>8. TasksIn(w) = TasksIn(q) \ tasks
    <2>1. ASSUME NEW t \in TasksIn(w) PROVE t \in TasksIn(q) \ tasks
      BY <1>4, <1>6 DEF TasksIn
    <2>2. ASSUME NEW t \in TasksIn(q) \ tasks PROVE t \in TasksIn(w)
      <3>1. PICK i \in left : q[i].task = t BY DEF TasksIn
      <3>2. rank(i) \in DOMAIN w /\ w[rank(i)] = q[i] BY <1>5, <1>6
      <3> QED BY <3>1, <3>2 DEF TasksIn
    <2> QED BY <2>1, <2>2
  <1>9. ASSUME Once(q) PROVE Once(w)
    <2>1. SUFFICES ASSUME NEW k \in 1 .. N, NEW m \in 1 .. N, w[k].task = w[m].task
                   PROVE  k = m
      BY <1>6 DEF Once
    <2>2. q[place(k)].task = q[place(m)].task BY <1>6, <2>1
    <2>3. place(k) = place(m) BY <1>4, <1>9, <2>2 DEF Once
    <2> QED BY <1>4, <2>3
  <1>10. \A k \in DOMAIN w : \E i \in DOMAIN q : w[k] = q[i] BY <1>4, <1>6
  <1> QED BY <1>7, <1>8, <1>9, <1>10 DEF w

\* Each once, there are as many waiters as places.
LEMMA OnceLen ==
  ASSUME NEW q \in Seq(Entry), Once(q)
  PROVE  Cardinality(TasksIn(q)) = Len(q)
  <1> DEFINE f == [i \in 1 .. Len(q) |-> q[i].task]
  <1>1. Len(q) \in Nat /\ DOMAIN q = 1 .. Len(q) OBVIOUS
  <1>2. f \in Bijection(1 .. Len(q), TasksIn(q))
    BY <1>1 DEF Bijection, Injection, IsInjective, Surjection, TasksIn, Once
  <1>3. ExistsBijection(1 .. Len(q), TasksIn(q)) BY <1>2 DEF ExistsBijection
  <1>4. IsFiniteSet(1 .. Len(q)) /\ Cardinality(1 .. Len(q)) = Len(q) BY <1>1, FS_Interval
  <1> QED BY <1>3, <1>4, FS_Bijection

\* A wait joins the queue.
LEMMA Joins ==
  ASSUME NEW q \in Seq(Entry), NEW e \in Entry, e.task \notin TasksIn(q)
  PROVE  /\ Append(q, e) \in Seq(Entry)
         /\ TasksIn(Append(q, e)) = TasksIn(q) \cup {e.task}
         /\ Once(q) => Once(Append(q, e))
         /\ \A k \in DOMAIN Append(q, e) :
               Append(q, e)[k] = e \/ \E i \in DOMAIN q : Append(q, e)[k] = q[i]
  <1> DEFINE r == Append(q, e)
  <1>1. /\ Len(q) \in Nat /\ DOMAIN q = 1 .. Len(q) /\ r \in Seq(Entry)
        /\ DOMAIN r = 1 .. Len(q) + 1 /\ r[Len(q) + 1] = e
        /\ \A i \in 1 .. Len(q) : r[i] = q[i]
    OBVIOUS
  <1> HIDE DEF r
  <1>2. TasksIn(r) = TasksIn(q) \cup {e.task}
    <2>1. ASSUME NEW t \in TasksIn(r) PROVE t \in TasksIn(q) \cup {e.task}
      <3>1. PICK k \in DOMAIN r : t = r[k].task BY DEF TasksIn
      <3>2. k = Len(q) + 1 \/ k \in 1 .. Len(q) BY <1>1, <3>1
      <3> QED BY <1>1, <3>1, <3>2 DEF TasksIn
    <2>2. ASSUME NEW t \in TasksIn(q) PROVE t \in TasksIn(r)
      <3>1. PICK k \in DOMAIN q : t = q[k].task BY DEF TasksIn
      <3>2. k \in DOMAIN r /\ r[k] = q[k] BY <1>1, <3>1
      <3> QED BY <3>1, <3>2 DEF TasksIn
    <2>3. e.task \in TasksIn(r)
      <3>1. Len(q) + 1 \in DOMAIN r BY <1>1
      <3> QED BY <1>1, <3>1 DEF TasksIn
    <2> QED BY <2>1, <2>2, <2>3
  <1>3. ASSUME Once(q) PROVE Once(r)
    <2>1. SUFFICES ASSUME NEW k \in DOMAIN r, NEW m \in DOMAIN r, r[k].task = r[m].task PROVE k = m
      BY DEF Once
    <2>2. /\ k \in 1 .. Len(q) \/ k = Len(q) + 1
          /\ m \in 1 .. Len(q) \/ m = Len(q) + 1
      BY <1>1
    <2>3. \A i \in 1 .. Len(q) : r[i].task \in TasksIn(q) BY <1>1 DEF TasksIn
    <2> QED BY <1>1, <1>3, <2>1, <2>2, <2>3 DEF Once
  <1>4. \A k \in DOMAIN r : r[k] = e \/ \E i \in DOMAIN q : r[k] = q[i]
    <2>1. \A k \in DOMAIN r : k = Len(q) + 1 \/ k \in 1 .. Len(q) BY <1>1
    <2> QED BY <1>1, <2>1
  <1> QED BY <1>1, <1>2, <1>3, <1>4 DEF r

\* A queue cut in two: neither part has a wait of the other.
LEMMA Cut ==
  ASSUME NEW q \in Seq(Entry), Once(q), NEW m \in 0 .. Len(q)
  PROVE  LET a == SubSeq(q, 1, m)
             b == SubSeq(q, m + 1, Len(q))
         IN  /\ a \in Seq(Entry) /\ b \in Seq(Entry) /\ Once(a) /\ Once(b)
             /\ TasksIn(a) \subseteq TasksIn(q) /\ TasksIn(b) \subseteq TasksIn(q)
             /\ TasksIn(a) \cap TasksIn(b) = {}
             /\ \A k \in DOMAIN a : \E i \in DOMAIN q : a[k] = q[i]
             /\ \A k \in DOMAIN b : \E i \in DOMAIN q : b[k] = q[i]
  <1> DEFINE a == SubSeq(q, 1, m)
             b == SubSeq(q, m + 1, Len(q))
  <1>1. /\ Len(q) \in Nat /\ DOMAIN q = 1 .. Len(q) /\ m \in Nat /\ m <= Len(q)
        /\ a \in Seq(Entry) /\ b \in Seq(Entry)
    OBVIOUS
  <1>2. DOMAIN a = 1 .. m /\ \A i \in 1 .. m : a[i] = q[i] BY <1>1
  <1>3. DOMAIN b = 1 .. Len(q) - m /\ \A i \in 1 .. Len(q) - m : b[i] = q[m + i] BY <1>1
  <1> HIDE DEF a, b
  <1>4. \A i \in DOMAIN a : i \in DOMAIN q /\ i <= m /\ a[i] = q[i] BY <1>1, <1>2
  <1>5. \A i \in DOMAIN b : m + i \in DOMAIN q /\ m < m + i /\ b[i] = q[m + i] /\ i \in Nat
    BY <1>1, <1>3
  <1>6. Once(a) BY <1>4 DEF Once
  <1>7. Once(b)
    <2>1. SUFFICES ASSUME NEW i \in DOMAIN b, NEW j \in DOMAIN b, b[i].task = b[j].task PROVE i = j
      BY DEF Once
    <2>2. m + i = m + j BY <1>5, <2>1 DEF Once
    <2> QED BY <1>1, <1>5, <2>2
  <1>8. TasksIn(a) \subseteq TasksIn(q) BY <1>4 DEF TasksIn
  <1>9. TasksIn(b) \subseteq TasksIn(q) BY <1>5 DEF TasksIn
  <1>10. ASSUME NEW t, t \in TasksIn(a), t \in TasksIn(b) PROVE FALSE
    <2>1. PICK i \in DOMAIN a : t = a[i].task BY <1>10 DEF TasksIn
    <2>2. PICK j \in DOMAIN b : t = b[j].task BY <1>10 DEF TasksIn
    <2>3. i \in DOMAIN q /\ q[i].task = t BY <1>4, <2>1
    <2>4. m + j \in DOMAIN q /\ q[m + j].task = t BY <1>5, <2>2
    <2> DEFINE k == m + j
    <2>5. i = k BY <2>3, <2>4 DEF Once
    <2>6. i <= m /\ m < k BY <1>4, <1>5, <2>1, <2>2
    <2> QED BY <1>1, <1>2, <2>1, <2>5, <2>6
  <1>11. TasksIn(a) \cap TasksIn(b) = {} BY <1>10
  <1>12. /\ \A k \in DOMAIN a : \E i \in DOMAIN q : a[k] = q[i]
         /\ \A k \in DOMAIN b : \E i \in DOMAIN q : b[k] = q[i]
    BY <1>4, <1>5
  <1> QED BY <1>1, <1>6, <1>7, <1>8, <1>9, <1>11, <1>12 DEF a, b

\* One queue put behind another.
LEMMA Behind ==
  ASSUME NEW a \in Seq(Entry), NEW b \in Seq(Entry), Once(a), Once(b),
         TasksIn(a) \cap TasksIn(b) = {}
  PROVE  /\ a \o b \in Seq(Entry) /\ Once(a \o b)
         /\ TasksIn(a \o b) \subseteq TasksIn(a) \cup TasksIn(b)
         /\ \A k \in DOMAIN (a \o b) : \/ \E i \in DOMAIN a : (a \o b)[k] = a[i]
                                       \/ \E i \in DOMAIN b : (a \o b)[k] = b[i]
  <1> DEFINE r == a \o b
  <1>1. /\ Len(a) \in Nat /\ DOMAIN a = 1 .. Len(a) /\ Len(b) \in Nat /\ DOMAIN b = 1 .. Len(b)
        /\ r \in Seq(Entry) /\ DOMAIN r = 1 .. Len(a) + Len(b)
    OBVIOUS
  <1>2. \A i \in 1 .. Len(a) : r[i] = a[i] BY <1>1
  <1>3. \A i \in Len(a) + 1 .. Len(a) + Len(b) : r[i] = b[i - Len(a)] BY <1>1
  <1> HIDE DEF r
  <1>4. ASSUME NEW k \in DOMAIN r
        PROVE  \/ k \in DOMAIN a /\ r[k] = a[k]
               \/ Len(a) < k /\ k - Len(a) \in DOMAIN b /\ r[k] = b[k - Len(a)]
    <2>1. k \in 1 .. Len(a) \/ k \in Len(a) + 1 .. Len(a) + Len(b) BY <1>1
    <2> QED BY <1>1, <1>2, <1>3, <2>1
  <1>5. TasksIn(r) \subseteq TasksIn(a) \cup TasksIn(b) BY <1>4 DEF TasksIn
  <1>6. Once(r)
    <2>1. SUFFICES ASSUME NEW k \in DOMAIN r, NEW m \in DOMAIN r, r[k].task = r[m].task PROVE k = m
      BY DEF Once
    <2>2. CASE k \in DOMAIN a /\ m \in DOMAIN a /\ r[k] = a[k] /\ r[m] = a[m]
      BY <2>1, <2>2 DEF Once
    <2>3. CASE /\ k - Len(a) \in DOMAIN b /\ m - Len(a) \in DOMAIN b
               /\ r[k] = b[k - Len(a)] /\ r[m] = b[m - Len(a)]
      <3>1. k - Len(a) = m - Len(a) BY <2>1, <2>3 DEF Once
      <3> QED BY <1>1, <3>1
    <2>4. \A i \in DOMAIN a : \A j \in DOMAIN b : a[i].task # b[j].task BY DEF TasksIn
    <2> QED BY <1>4, <2>1, <2>2, <2>3, <2>4
  <1>7. \A k \in DOMAIN r : \/ \E i \in DOMAIN a : r[k] = a[i]
                            \/ \E i \in DOMAIN b : r[k] = b[i]
    BY <1>4
  <1> QED BY <1>1, <1>5, <1>6, <1>7 DEF r

-----------------------------------------------------------------------------
(* Steps and their calls.                                                  *)

\* The steps of the calls on a priority-inheritance lock, and on other words.
PiSteps   == {"pi_lock", "lock_pi", "trylock_pi", "pi_unlock", "unlock_pi", "pi_parked"}
WaitSteps == {"wait", "wake", "requeue", "exit", "parked"}
EndSteps  == {"read", "write"}

\* Those of a task in guest code, or halted and on its way back.
InGuest == {"guest", "halted", "cleared"}

\* A task at such a step made such a call.
CallOK(t, r) ==
  /\ r.call \in Call => Fits(t, r.call)
  /\ r.at \in PiSteps \cup WaitSteps => r.call \in Call
  /\ r.at \in PiSteps => r.call.op \in PiCalls
  /\ r.at \in WaitSteps => r.call.op \in WordCalls
  /\ r.at = "read" => r.file \in ReadEnds
  /\ r.at = "write" => r.file \in WriteEnds

CallsOK ==
  /\ \A t \in Tasks : \A i \in DOMAIN program[t] : Fits(t, program[t][i])
  /\ \A t \in Tasks : CallOK(t, th[t])

\* t goes on in the call it is in, or comes back from it.
Goes(t) ==
  /\ \A u \in Tasks \ {t} : th'[u] = th[u]
  /\ th'[t].call = th[t].call /\ th'[t].file \in {th[t].file, NoFile}
  /\ th'[t].at \in PiSteps => th[t].at \in PiSteps
  /\ th'[t].at \in WaitSteps => th[t].at \in WaitSteps
  /\ th'[t].at \in EndSteps => th'[t].at = th[t].at /\ th'[t].file = th[t].file
  /\ th'[t].at \in InGuest /\ th'[t].answer = "eof" =>
       \/ PipeRead(t)
       \/ th[t].at \in InGuest /\ th'[t].answer = th[t].answer /\ th'[t].was = th[t].was

\* A step elsewhere, of the same call and file.
LEMMA GoesOn ==
  ASSUME TasksOK, NEW t \in Tasks, NEW r, th' = [th EXCEPT ![t] = r],
         r.call = th[t].call, r.file = th[t].file,
         r.at \notin PiSteps \cup WaitSteps \cup EndSteps \cup InGuest
  PROVE  Goes(t)
  BY DEF TasksOK, Goes

\* A step of the code's that only moves on.
LEMMA GoesTo ==
  ASSUME TasksOK, NEW t \in Tasks, NEW step, At(t, step),
         step \notin PiSteps \cup WaitSteps \cup EndSteps \cup InGuest
  PROVE  Goes(t)
  <1> DEFINE r == [th[t] EXCEPT !.at = step]
  <1>1. r.call = th[t].call /\ r.file = th[t].file /\ r.at = step BY DEF TasksOK, TaskOK, Fields
  <1>2. th' = [th EXCEPT ![t] = r] BY DEF At
  <1> HIDE DEF r
  <1> QED BY <1>1, <1>2, GoesOn

\* What a call that comes back leaves of its record.
LEMMA BackIs ==
  ASSUME TasksOK, NEW t \in Tasks, NEW answer
  PROVE  LET r == Back(th[t], answer)
         IN  /\ r.at = "guest" /\ r.answer = answer /\ r.call = th[t].call
             /\ r.file = NoFile /\ r.was = th[t].file
  BY DEF TasksOK, TaskOK, Fields, Back

\* A call that comes back, but at a pipe's end.
LEMMA ComesBack ==
  ASSUME TasksOK, NEW t \in Tasks, NEW answer, answer # "eof",
         th' = [th EXCEPT ![t] = Back(th[t], answer)]
  PROVE  Goes(t)
  <1> DEFINE r == Back(th[t], answer)
  <1>1. /\ r.at = "guest" /\ r.answer = answer /\ r.call = th[t].call /\ r.file = NoFile
    BY BackIs
  <1>2. th'[t] = r /\ \A u \in Tasks \ {t} : th'[u] = th[u] BY DEF TasksOK
  <1> HIDE DEF r
  <1> QED BY <1>1, <1>2 DEF Goes, PiSteps, WaitSteps, EndSteps, InGuest

\* An answer and nothing else.
LEMMA AnswerGoes ==
  ASSUME TasksOK, NEW t \in Tasks, NEW answer, answer # "eof", Return(t, answer)
  PROVE  Goes(t)
  BY ComesBack DEF Return

\* A step that moves nobody.
LEMMA Unmoved ==
  ASSUME TasksOK, NEW t \in Tasks, UNCHANGED th
  PROVE  Goes(t)
  BY DEF Goes

\* One that goes on to unpark the tasks it woke.
LEMMA ToUnpark ==
  ASSUME TasksOK, NEW t \in Tasks, NEW tasks, NEW then,
         th' = [th EXCEPT ![t] = Unparking(th[t], tasks, then)]
  PROVE  Goes(t)
  <1> DEFINE r == Unparking(th[t], tasks, then)
  <1>1. r.call = th[t].call /\ r.file = th[t].file /\ r.at = "unpark"
    BY DEF TasksOK, TaskOK, Fields, Unparking
  <1> HIDE DEF r
  <1> QED BY <1>1, GoesOn DEF r, PiSteps, WaitSteps, EndSteps, InGuest

\* A step of a lock's call.
LEMMA LockGoes ==
  ASSUME TasksOK, NEW t \in Tasks, LockStep(t)
  PROVE  Goes(t)
  <1>1. CASE SetLock(t) BY <1>1, AnswerGoes DEF SetLock, LockReturn
  <1>2. CASE GetLock(t) BY <1>2, AnswerGoes DEF GetLock, LockReturn
  <1>3. CASE Flock(t)
    BY <1>3, AnswerGoes, GoesTo DEF Flock, LockReturn, PiSteps, WaitSteps, EndSteps, InGuest
  <1>4. CASE Close(t)
    BY <1>4, AnswerGoes, GoesTo DEF Close, LockReturn, PiSteps, WaitSteps, EndSteps, InGuest
  <1>5. CASE CloseLocks(t) BY <1>5, AnswerGoes DEF CloseLocks, LockReturn
  <1>6. CASE Dup(t) BY <1>6, AnswerGoes DEF Dup
  <1> QED BY <1>1, <1>2, <1>3, <1>4, <1>5, <1>6 DEF LockStep

\* A step of a pipe's call: only a read is at its end.
LEMMA PipeGoes ==
  ASSUME TasksOK, NEW t \in Tasks, PipeStep(t)
  PROVE  Goes(t)
  <1>1. CASE PipeRead(t)
    <2>1. PICK answer : th' = [th EXCEPT ![t] = Back(th[t], answer)]
      BY <1>1 DEF PipeRead, Return
    <2> DEFINE r == Back(th[t], answer)
    <2>2. /\ r.at = "guest" /\ r.call = th[t].call /\ r.file = NoFile
      BY BackIs
    <2>3. th'[t] = r /\ \A u \in Tasks \ {t} : th'[u] = th[u] BY <2>1 DEF TasksOK
    <2> HIDE DEF r
    <2> QED BY <1>1, <2>2, <2>3 DEF Goes, PiSteps, WaitSteps, EndSteps, InGuest
  <1>2. CASE PipeWrite(t)
    <2>1. CASE \E left : th' = [th EXCEPT ![t].left = left]
      <3>1. PICK left : th' = [th EXCEPT ![t].left = left] BY <2>1
      <3>2. /\ th'[t].at = th[t].at /\ th'[t].call = th[t].call /\ th'[t].file = th[t].file
            /\ \A u \in Tasks \ {t} : th'[u] = th[u]
        BY <3>1 DEF TasksOK, TaskOK, Fields
      <3>3. th[t].at = "write" BY <1>2 DEF PipeWrite
      <3> QED BY <3>2, <3>3 DEF Goes, PiSteps, WaitSteps, EndSteps, InGuest
    <2>2. CASE \E answer : answer # "eof" /\ Return(t, answer) BY <2>2, AnswerGoes
    <2> QED BY <1>2, <2>1, <2>2 DEF PipeWrite
  <1> QED BY <1>1, <1>2 DEF PipeStep

\* A wait that is over.
LEMMA OverGoes ==
  ASSUME TasksOK, NEW t \in Tasks, NEW answer, answer # "eof", WaitOver(t, Back(th[t], answer))
  PROVE  Goes(t)
  BY ComesBack DEF WaitOver

\* A step within a wait, or within a priority-inheritance lock.
LEMMA StaysIn ==
  ASSUME TasksOK, NEW t \in Tasks, NEW step, At(t, step),
         \/ step \in PiSteps /\ th[t].at \in PiSteps
         \/ step \in WaitSteps /\ th[t].at \in WaitSteps
  PROVE  Goes(t)
  <1> DEFINE r == [th[t] EXCEPT !.at = step]
  <1>1. r.call = th[t].call /\ r.file = th[t].file /\ r.at = step BY DEF TasksOK, TaskOK, Fields
  <1>2. th'[t] = r /\ \A u \in Tasks \ {t} : th'[u] = th[u] BY DEF At, TasksOK
  <1> HIDE DEF r
  <1> QED BY <1>1, <1>2 DEF Goes, PiSteps, WaitSteps, EndSteps, InGuest

\* A step out of guest code, or back, that answers nothing.
LEMMA StaysOut ==
  ASSUME TasksOK, NEW t \in Tasks, NEW step \in InGuest, At(t, step), th[t].at \in InGuest
  PROVE  Goes(t)
  <1> DEFINE r == [th[t] EXCEPT !.at = step]
  <1>1. /\ r.call = th[t].call /\ r.file = th[t].file /\ r.at = step
        /\ r.answer = th[t].answer /\ r.was = th[t].was
    BY DEF TasksOK, TaskOK, Fields
  <1>2. th'[t] = r /\ \A u \in Tasks \ {t} : th'[u] = th[u] BY DEF At, TasksOK
  <1> HIDE DEF r
  <1> QED BY <1>1, <1>2 DEF Goes, PiSteps, WaitSteps, EndSteps, InGuest

\* A look at a priority-inheritance lock's word.
LEMMA PiLookGoes ==
  ASSUME TasksOK, NEW t \in Tasks, NEW awake, PiLook(t, awake), th[t].at \in PiSteps
  PROVE  Goes(t)
  <1>1. CASE At(t, "pi_parked") BY <1>1, StaysIn DEF PiSteps
  <1>2. CASE \E answer : answer # "eof" /\ WaitOver(t, Back(th[t], answer)) BY <1>2, OverGoes
  <1> QED BY <1>1, <1>2 DEF PiLook

\* A step of a futex call.
LEMMA FutexGoes ==
  ASSUME TasksOK, NEW t \in Tasks, FutexStep(t)
  PROVE  Goes(t)
  <1>0. TaskOK(th[t]) BY DEF TasksOK
  <1>1. CASE FutexWait(t) BY <1>1, AnswerGoes, StaysIn DEF FutexWait, WaitSteps
  <1>2. CASE FutexUnparked(t) BY <1>2, OverGoes, Unmoved DEF FutexUnparked
  <1>3. CASE FutexLate(t)
    <2>1. CASE WaitOver(t, [th[t] EXCEPT !.at = "wait", !.again = TRUE])
      <3> DEFINE r == [th[t] EXCEPT !.at = "wait", !.again = TRUE]
      <3>1. r.call = th[t].call /\ r.file = th[t].file /\ r.at = "wait"
        BY <1>0 DEF TaskOK, Fields
      <3>2. th'[t] = r /\ \A u \in Tasks \ {t} : th'[u] = th[u] BY <2>1 DEF WaitOver, TasksOK
      <3>3. th[t].at = "parked" BY <1>3 DEF FutexLate
      <3> HIDE DEF r
      <3> QED BY <3>1, <3>2, <3>3 DEF Goes, PiSteps, WaitSteps, EndSteps, InGuest
    <2>2. CASE \E answer : answer # "eof" /\ WaitOver(t, Back(th[t], answer)) BY <2>2, OverGoes
    <2> QED BY <1>3, <2>1, <2>2 DEF FutexLate
  <1>4. CASE FutexWake(t) BY <1>4, ToUnpark DEF FutexWake, WakeAndMove
  <1>5. CASE FutexRequeue(t) BY <1>5, AnswerGoes, ToUnpark DEF FutexRequeue, WakeAndMove
  <1>6. CASE Unpark(t)
    <2>1. CASE \E u : th' = [th EXCEPT ![t].unpark = @ \ {u}]
      <3>1. PICK u : th' = [th EXCEPT ![t].unpark = @ \ {u}] BY <2>1
      <3> DEFINE r == [th[t] EXCEPT !.unpark = @ \ {u}]
      <3>2. r.call = th[t].call /\ r.file = th[t].file /\ r.at = "unpark"
        BY <1>0, <1>6 DEF TaskOK, Fields, Unpark
      <3>3. th' = [th EXCEPT ![t] = r] BY <3>1
      <3> HIDE DEF r
      <3> QED BY <3>2, <3>3, GoesOn DEF PiSteps, WaitSteps, EndSteps, InGuest
    <2>2. CASE Return(t, "0") BY <2>2, AnswerGoes
    <2>3. CASE At(t, th[t].then) /\ th[t].then # "guest"
      BY <1>0, <2>3, GoesTo DEF TaskOK, PiSteps, WaitSteps, EndSteps, InGuest
    <2> QED BY <1>6, <2>1, <2>2, <2>3 DEF Unpark
  <1>7. CASE LockPi(t) BY <1>7, PiLookGoes DEF LockPi, PiSteps
  <1>8. CASE PiUnparked(t) BY <1>8, PiLookGoes DEF PiUnparked, PiSteps
  <1>9. CASE PiLate(t) BY <1>9, PiLookGoes DEF PiLate, PiSteps
  <1>10. CASE TryLockPi(t) BY <1>10, AnswerGoes DEF TryLockPi
  <1>11. CASE UnlockPi(t) BY <1>11, AnswerGoes, ToUnpark DEF UnlockPi, WakeAndMove
  <1> QED BY <1>1, <1>2, <1>3, <1>4, <1>5, <1>6, <1>7, <1>8, <1>9, <1>10, <1>11 DEF FutexStep

\* A signal's or an end's step, with the process it is about.
LEMMA GoesAbout ==
  ASSUME TasksOK, NEW t \in Tasks, NEW r, NEW step, th' = [th EXCEPT ![t] = r],
         \E p, then : \/ r = [th[t] EXCEPT !.at = step, !.target = p]
                      \/ r = [th[t] EXCEPT !.at = step, !.target = p, !.then = then],
         step \notin PiSteps \cup WaitSteps \cup EndSteps \cup InGuest
  PROVE  Goes(t)
  <1>1. r.call = th[t].call /\ r.file = th[t].file /\ r.at = step
    BY DEF TasksOK, TaskOK, Fields
  <1> QED BY <1>1, GoesOn

\* A step of a process's end.
LEMMA ProcessGoes ==
  ASSUME TasksOK, NEW t \in Tasks, ProcessStep(t)
  PROVE  Goes(t)
  <1>1. CASE Signal(t)
    <2> DEFINE r == [th[t] EXCEPT !.at = "interrupt", !.target = process[Now(t).task]]
    <2>1. th' = [th EXCEPT ![t] = r] \/ Return(t, "0") \/ Return(t, "ESRCH") BY <1>1 DEF Signal
    <2>2. \E p : r = [th[t] EXCEPT !.at = "interrupt", !.target = p] OBVIOUS
    <2> HIDE DEF r
    <2> QED BY <2>1, <2>2, GoesAbout, AnswerGoes DEF PiSteps, WaitSteps, EndSteps, InGuest
  <1>2. CASE Interrupt(t) BY <1>2, ToUnpark DEF Interrupt
  <1>3. CASE Kill(t) BY <1>3, AnswerGoes, GoesTo DEF Kill, PiSteps, WaitSteps, EndSteps, InGuest
  <1>4. CASE ExitGroup(t)
    <2> DEFINE r == [th[t] EXCEPT !.at = "end", !.target = process[t], !.then = "finish"]
    <2>1. th' = [th EXCEPT ![t] = r] BY <1>4 DEF ExitGroup
    <2>2. \E p, then : r = [th[t] EXCEPT !.at = "end", !.target = p, !.then = then] OBVIOUS
    <2> HIDE DEF r
    <2> QED BY <2>1, <2>2, GoesAbout DEF PiSteps, WaitSteps, EndSteps, InGuest
  <1>5. CASE EndGroup(t) BY <1>5, GoesTo DEF EndGroup, PiSteps, WaitSteps, EndSteps, InGuest
  <1>6. CASE InterruptAll(t) BY <1>6, ToUnpark DEF InterruptAll
  <1>7. CASE Exit(t) BY <1>7, ToUnpark DEF Exit
  <1>8. CASE Finish(t) BY <1>8, GoesTo DEF Finish, PiSteps, WaitSteps, EndSteps, InGuest
  <1>9. CASE Joined(t) BY <1>9, GoesTo DEF HaltAgain, Joined, PiSteps, WaitSteps, EndSteps, InGuest
  <1>10. CASE CloseAll(t) BY <1>10, GoesTo DEF CloseAll, PiSteps, WaitSteps, EndSteps, InGuest
  <1>11. CASE Report(t) BY <1>11, GoesTo DEF Report, PiSteps, WaitSteps, EndSteps, InGuest
  <1>12. CASE ChildSignal(t)
    <2> DEFINE r == [th[t] EXCEPT !.at = "interrupt", !.target = parent[process[t]],
                                  !.then = "gone"]
    <2>1. th' = [th EXCEPT ![t] = r] BY <1>12 DEF ChildSignal
    <2>2. \E p, then : r = [th[t] EXCEPT !.at = "interrupt", !.target = p, !.then = then] OBVIOUS
    <2> HIDE DEF r
    <2> QED BY <2>1, <2>2, GoesAbout DEF PiSteps, WaitSteps, EndSteps, InGuest
  <1>13. CASE Gone(t) BY <1>13, GoesTo DEF Gone, PiSteps, WaitSteps, EndSteps, InGuest
  <1>14. CASE Wait4(t) BY <1>14, AnswerGoes DEF Wait4
  <1>15. CASE HaltAll(t) BY <1>15, GoesTo DEF HaltAll, PiSteps, WaitSteps, EndSteps, InGuest
  <1>16. CASE HaltAgain(t) BY <1>16, Unmoved DEF HaltAgain
  <1> QED BY <1>1, <1>2, <1>3, <1>4, <1>5, <1>6, <1>7, <1>8, <1>9, <1>10, <1>11, <1>12, <1>13,
             <1>14, <1>15, <1>16 DEF ProcessStep

\* A step of the guest's own code, but one that begins a call.
LEMMA GuestGoes ==
  ASSUME TasksOK, NEW t \in Tasks, GuestStep(t), ~Begin(t), ~Retry(t)
  PROVE  Goes(t)
  <1>1. CASE Deliver(t) \/ Cleared(t) BY <1>1, StaysOut DEF Deliver, Cleared, InGuest
  <1>2. CASE Halted(t)
    <2> DEFINE r == [th[t] EXCEPT !.at = "end", !.target = process[t], !.then = "finish"]
    <2>1. CASE At(t, "halted") BY <1>2, <2>1, StaysOut DEF Halted, InGuest
    <2>2. CASE th' = [th EXCEPT ![t] = r]
      <3>1. \E p, then : r = [th[t] EXCEPT !.at = "end", !.target = p, !.then = then] OBVIOUS
      <3> HIDE DEF r
      <3> QED BY <2>2, <3>1, GoesAbout DEF PiSteps, WaitSteps, EndSteps, InGuest
    <2> QED BY <1>2, <2>1, <2>2 DEF Halted
  <1>3. CASE Store(t) BY <1>3, AnswerGoes DEF Store
  <1>4. CASE PiLock(t) BY <1>4, AnswerGoes, StaysIn DEF PiLock, PiSteps
  <1>5. CASE PiUnlock(t) BY <1>5, AnswerGoes, StaysIn DEF PiUnlock, PiSteps
  <1> QED BY <1>1, <1>2, <1>3, <1>4, <1>5 DEF GuestStep

\* Every step but the beginning of a call goes on in one.
LEMMA TaskGoes ==
  ASSUME TasksOK, NEW t \in Tasks, Task(t), ~Begin(t), ~Retry(t)
  PROVE  Goes(t)
  BY LockGoes, PipeGoes, FutexGoes, ProcessGoes, GuestGoes DEF Task

\* A call begun is one of the task's, from its first step.
LEMMA CallBegun ==
  ASSUME TasksOK, TablesOK, NEW t \in Tasks, th[t].at = "guest", NEW c \in Call \cup {NoCall},
         c \in Call => Fits(t, c)
  PROVE  CallOK(t, Called(t, c))
  <1>1. TaskOK(th[t]) BY DEF TasksOK
  <1>2. CASE c.op \notin FileCalls
    <2> DEFINE r == [th[t] EXCEPT !.at = c.op, !.call = c, !.target = c.target]
    <2>1. r.at = c.op /\ r.call = c BY <1>1 DEF TaskOK, Fields
    <2>2. Called(t, c) = r BY <1>2 DEF Called
    <2>3. c.op \notin EndSteps BY <1>2 DEF EndSteps, FileCalls
    <2>4. c.op \in PiSteps \cup WaitSteps => c \in Call
      BY ScenariosAssumption DEF PiSteps, WaitSteps
    <2>5. /\ c \in Call /\ c.op \in PiSteps => c.op \in PiCalls
          /\ c \in Call /\ c.op \in WaitSteps => c.op \in WordCalls
      BY DEF Call, PiSteps, WaitSteps, PiCalls, WordCalls
    <2> HIDE DEF r
    <2> QED BY <2>1, <2>2, <2>3, <2>4, <2>5 DEF CallOK, EndSteps
  <1>3. CASE c.op \in FileCalls
    <2> DEFINE file == fds[process[t]][c.fd]
    <2>1. c \in Call BY <1>3, ScenariosAssumption DEF FileCalls
    <2>2. CASE Refused(c, file)
      <3> DEFINE r == [th[t] EXCEPT !.call = c, !.answer = "EBADF"]
      <3>1. r.at = "guest" /\ r.call = c BY <1>1 DEF TaskOK, Fields
      <3>2. Called(t, c) = r BY <1>3, <2>2 DEF Called
      <3> HIDE DEF r
      <3> QED BY <3>1, <3>2 DEF CallOK, PiSteps, WaitSteps
    <2>3. CASE ~Refused(c, file)
      <3> DEFINE left == IF c.op = "write" THEN c.n ELSE 0
                 r == [th[t] EXCEPT !.at = c.op, !.call = c, !.file = file, !.left = left]
      <3>1. r.at = c.op /\ r.call = c /\ r.file = file BY <1>1 DEF TaskOK, Fields
      <3>2. Called(t, c) = r BY <1>3, <2>3 DEF Called
      <3>3. /\ c.op = "read" => file \in ReadEnds
            /\ c.op = "write" => file \in WriteEnds
        BY <2>3 DEF Refused
      <3>4. c.op \notin PiSteps \cup WaitSteps BY <1>3 DEF FileCalls, PiSteps, WaitSteps
      <3> HIDE DEF r
      <3> QED BY <2>1, <3>1, <3>2, <3>3, <3>4 DEF CallOK
    <2> QED BY <2>2, <2>3
  <1> QED BY <1>2, <1>3

\* Calls are true after a step of t when t's own is.
LEMMA CallsAfter ==
  ASSUME CallsOK, NEW t \in Tasks, CallOK(t, th'[t]), \A u \in Tasks \ {t} : th'[u] = th[u],
         \A i \in DOMAIN program'[t] : Fits(t, program'[t][i]),
         \A u \in Tasks \ {t} : program'[u] = program[u]
  PROVE  CallsOK'
  BY DEF CallsOK, Fits, CallOK

\* And so after every step.
LEMMA CallsStay ==
  ASSUME LockInv, CallsOK, [Next]_vars
  PROVE  CallsOK'
  <1>0. TasksOK /\ TablesOK BY DEF LockInv
  <1>1. ASSUME NEW t \in Tasks, Goes(t), CallsOK, UNCHANGED program
        PROVE  CallsOK'
    <2>1. CallOK(t, th'[t])
      BY <1>1 DEF CallsOK, CallOK, Goes, EndSteps
    <2> QED BY <1>1, <2>1 DEF CallsOK, Goes, Fits, CallOK
  <1>2. ASSUME NEW t \in Tasks, Begin(t) PROVE CallsOK'
    <2> DEFINE c == Head(program[t])
    <2>1. program[t] \in Seq(Call) /\ program[t] # <<>> BY <1>0, <1>2 DEF Begin, TablesOK
    <2>2. /\ c \in Call /\ Fits(t, c)
          /\ \A i \in DOMAIN Tail(program[t]) : Fits(t, Tail(program[t])[i])
      <3>1. /\ c = program[t][1] /\ 1 \in DOMAIN program[t]
            /\ \A i \in DOMAIN Tail(program[t]) : /\ Tail(program[t])[i] = program[t][i + 1]
                                                  /\ i + 1 \in DOMAIN program[t]
        BY <2>1
      <3>2. \A i \in DOMAIN program[t] : Fits(t, program[t][i]) BY DEF CallsOK
      <3>3. c \in Call BY <2>1
      <3>4. Fits(t, c) BY <3>1, <3>2
      <3> HIDE DEF c
      <3> QED BY <3>1, <3>2, <3>3, <3>4
    <2>3. CallOK(t, Called(t, c)) BY <1>0, <1>2, <2>2, CallBegun DEF Begin
    <2>4. /\ th'[t] = Called(t, c) /\ \A u \in Tasks \ {t} : th'[u] = th[u]
      BY <1>0, <1>2 DEF Begin, TasksOK
    <2>5. /\ program'[t] = Tail(program[t]) /\ \A u \in Tasks \ {t} : program'[u] = program[u]
      BY <1>0, <1>2 DEF Begin, TablesOK
    <2>6. \A i \in DOMAIN program'[t] : Fits(t, program'[t][i]) BY <2>2, <2>5
    <2>7. CallOK(t, th'[t]) BY <2>3, <2>4
    <2> QED BY <2>4, <2>5, <2>6, <2>7, CallsAfter
  <1>3. ASSUME NEW t \in Tasks, Retry(t) PROVE CallsOK'
    <2>1. Now(t) \in Call \cup {NoCall} BY <1>0 DEF TasksOK, TaskOK, Now
    <2>2. Now(t) \in Call => Fits(t, Now(t)) BY DEF CallsOK, CallOK, Now
    <2>3. CallOK(t, Called(t, Now(t))) BY <1>0, <1>3, <2>1, <2>2, CallBegun DEF Retry
    <2>4. /\ th'[t] = Called(t, Now(t)) /\ \A u \in Tasks \ {t} : th'[u] = th[u]
      BY <1>0, <1>3 DEF Retry, TasksOK
    <2>5. UNCHANGED program BY <1>3 DEF Retry
    <2> QED BY <2>3, <2>4, <2>5 DEF CallsOK, Fits, CallOK
  <1>4. ASSUME NEW t \in Tasks, Task(t), ~Begin(t), ~Retry(t) PROVE UNCHANGED program
    <2>1. CASE GuestStep(t)
      BY <1>4, <2>1 DEF GuestStep, Halted, Cleared, Deliver, Store, PiLock, PiUnlock
    <2>2. CASE LockStep(t)
      BY <2>2 DEF LockStep, SetLock, GetLock, Flock, Close, CloseLocks, Dup
    <2>3. CASE PipeStep(t) BY <2>3 DEF PipeStep, PipeRead, PipeWrite
    <2>4. CASE FutexStep(t)
      BY <2>4 DEF FutexStep, FutexWait, FutexUnparked, FutexLate, FutexWake, FutexRequeue, Unpark,
                  LockPi, PiUnparked, PiLate, TryLockPi, UnlockPi
    <2>5. CASE ProcessStep(t)
      BY <2>5 DEF ProcessStep, Signal, Interrupt, Kill, ExitGroup, EndGroup, HaltAll,
                  InterruptAll, Exit, Finish, HaltAgain, Joined, CloseAll, Report, ChildSignal,
                  Gone, Wait4
    <2> QED BY <1>4, <2>1, <2>2, <2>3, <2>4, <2>5 DEF Task
  <1>5. ASSUME NEW t \in Tasks, Task(t) PROVE CallsOK'
    BY <1>0, <1>1, <1>2, <1>3, <1>4, <1>5, TaskGoes
  <1>6. ASSUME UNCHANGED <<th, program>> PROVE CallsOK'
    BY <1>6 DEF CallsOK, CallOK, Fits
  <1> QED BY <1>5, <1>6 DEF Next, Drop, vars

-----------------------------------------------------------------------------
(* The rows of queues.                                                     *)

Rows == [Words -> Seq(Entry)]

RowOK(row) ==
  /\ \A o \in Words : Once(row[o])
  /\ \A o \in Words \cap PiWords : \A i \in DOMAIN row[o] : row[o][i].bitset = Bits
  /\ \A o, w \in Words : o # w => TasksIn(row[o]) \cap TasksIn(row[w]) = {}

\* Removing tasks from every queue of a row (remove).
LEMMA RowWithout ==
  ASSUME NEW row \in Rows, RowOK(row), NEW tasks
  PROVE  LET left == [o \in Words |-> Without(row[o], tasks)]
         IN  /\ left \in Rows /\ RowOK(left)
             /\ \A o \in Words : TasksIn(left[o]) = TasksIn(row[o]) \ tasks
  <1> DEFINE left == [o \in Words |-> Without(row[o], tasks)]
  <1>1. ASSUME NEW o \in Words
        PROVE  /\ left[o] \in Seq(Entry) /\ Once(left[o])
               /\ TasksIn(left[o]) = TasksIn(row[o]) \ tasks
               /\ \A k \in DOMAIN left[o] : \E i \in DOMAIN row[o] : left[o][k] = row[o][i]
    <2>1. left[o] = Without(row[o], tasks) /\ row[o] \in Seq(Entry) /\ Once(row[o])
      BY DEF Rows, RowOK
    <2> QED BY <2>1, WithoutIs
  <1>2. left \in Rows BY <1>1 DEF Rows
  <1> HIDE DEF left
  <1>3. \A o \in Words \cap PiWords : \A i \in DOMAIN left[o] : left[o][i].bitset = Bits
    BY <1>1 DEF RowOK
  <1>4. \A o, w \in Words : o # w => TasksIn(left[o]) \cap TasksIn(left[w]) = {}
    BY <1>1 DEF RowOK
  <1> QED BY <1>1, <1>2, <1>3, <1>4 DEF RowOK, left

\* Putting another queue in a row.
LEMMA RowWith ==
  ASSUME NEW row \in Rows, RowOK(row), NEW o \in Words, NEW q \in Seq(Entry), Once(q),
         \A w \in Words \ {o} : TasksIn(q) \cap TasksIn(row[w]) = {},
         o \in PiWords => \A i \in DOMAIN q : q[i].bitset = Bits
  PROVE  [row EXCEPT ![o] = q] \in Rows /\ RowOK([row EXCEPT ![o] = q])
  BY DEF Rows, RowOK

-----------------------------------------------------------------------------
(* The waits.                                                              *)

Asleep(t) == th[t].at \in {"parked", "pi_parked"}
Marked(o) == pi[o].owner # NoTask /\ pi[o].waiters

\* t waits in p's queue of o.
WaitOK(t, p, o) ==
  /\ process[t] = p /\ t \in parked /\ t \notin woken
  /\ \/ th[t].at = "parked" /\ o \notin PiWords
     \/ th[t].at = "pi_parked" /\ Now(t).obj = o /\ Marked(o)

QueuesOK ==
  /\ queue \in [Processes -> Rows]
  /\ \A p \in Processes : RowOK(queue[p])
  /\ \A p \in Processes : \A o \in Words : \A t \in Waiting(p, o) : WaitOK(t, p, o)
  /\ \A t \in woken : Asleep(t)

PiOK == pi \in [Words -> [owner : Tasks \cup {NoTask}, waiters : BOOLEAN]]

FutexInv == LockInv /\ CallsOK /\ PiOK /\ QueuesOK /\ woken \subseteq Tasks

\* Who waits in a queue is asleep, and in its own process.
LEMMA Sleeper ==
  ASSUME QueuesOK, NEW p \in Processes, NEW o \in Words, NEW u \in Waiting(p, o)
  PROVE  WaitOK(u, p, o) /\ Asleep(u) /\ u \in Tasks /\ process[u] = p
  <1>1. WaitOK(u, p, o) BY DEF QueuesOK
  <1>2. queue[p][o] \in Seq(Entry) BY DEF QueuesOK, Rows
  <1>3. ASSUME NEW i \in DOMAIN queue[p][o] PROVE queue[p][o][i].task \in Tasks
    <2>1. queue[p][o][i] \in Entry BY <1>2
    <2> QED BY <2>1 DEF Entry
  <1>4. u \in Tasks BY <1>3 DEF Waiting
  <1> QED BY <1>1, <1>4 DEF WaitOK, Asleep

\* A wait is as it was when nothing of it changed.
LEMMA Stays ==
  ASSUME NEW u, NEW p, NEW o, WaitOK(u, p, o), th'[u] = th[u],
         u \in parked', u \notin woken', Marked(o) => Marked(o)'
  PROVE  WaitOK(u, p, o)'
  BY DEF WaitOK, Now, Marked

\* The two ways to say who waits.
LEMMA WaitersIn ==
  ASSUME NEW p \in Processes, NEW o \in Words
  PROVE  Waiting(p, o) = TasksIn(queue[p][o])
  <1> DEFINE q == queue[p][o]
  <1>1. \A u : u \in Waiting(p, o) <=> \E i \in DOMAIN q : u = q[i].task BY DEF Waiting
  <1>2. \A u : u \in TasksIn(q) <=> \E i \in DOMAIN q : u = q[i].task BY DEF TasksIn
  <1>3. Waiting(p, o) \subseteq TasksIn(q) /\ TasksIn(q) \subseteq Waiting(p, o)
    BY <1>1, <1>2
  <1> QED BY <1>3

\* A step of a task that is not asleep, which wakes and queues nobody.
LEMMA Quiet ==
  ASSUME QueuesOK, \A u \in Tasks : Asleep(u) => th'[u] = th[u],
         UNCHANGED <<queue, woken>>, parked \subseteq parked', woken \subseteq Tasks,
         \A o \in Words : Marked(o) => Marked(o)'
  PROVE  QueuesOK'
  <1>1. \A p \in Processes : \A o \in Words : Waiting(p, o)' = Waiting(p, o) BY DEF Waiting
  <1>2. \A p \in Processes : \A o \in Words : \A u \in Waiting(p, o) : WaitOK(u, p, o)'
    <2>1. SUFFICES ASSUME NEW p \in Processes, NEW o \in Words, NEW u \in Waiting(p, o)
                   PROVE  WaitOK(u, p, o)'
      OBVIOUS
    <2>2. WaitOK(u, p, o) /\ Asleep(u) /\ u \in Tasks BY Sleeper
    <2>3. u \in parked' /\ u \notin woken' BY <2>2 DEF WaitOK
    <2> QED BY <2>2, <2>3, Stays
  <1>3. \A u \in woken' : Asleep(u)' BY DEF QueuesOK, Asleep
  <1>4. ASSUME NEW p \in Processes PROVE RowOK(queue[p])'
    <2>1. RowOK(queue[p]) /\ queue'[p] = queue[p] BY DEF QueuesOK
    <2>2. RowOK(queue'[p]) BY <2>1
    <2> QED BY <2>2 DEF RowOK, Once, TasksIn
  <1>5. queue' \in [Processes -> Rows] BY DEF QueuesOK
  <1> QED BY <1>1, <1>2, <1>3, <1>4, <1>5 DEF QueuesOK

\* The queues of one process rewritten.
LEMMA Rewritten ==
  ASSUME QueuesOK, NEW p \in Processes, NEW row \in Rows, RowOK(row),
         queue' = [queue EXCEPT ![p] = row],
         \A o \in Words : \A u \in TasksIn(row[o]) : WaitOK(u, p, o)',
         \A z \in Processes \ {p} : \A o \in Words : \A u \in Waiting(z, o) : WaitOK(u, z, o)',
         \A u \in woken' : Asleep(u)'
  PROVE  QueuesOK'
  <1>1. queue' \in [Processes -> Rows] BY DEF QueuesOK
  <1>2. queue'[p] = row /\ \A z \in Processes \ {p} : queue'[z] = queue[z] BY DEF QueuesOK
  <1>3. \A z \in Processes : RowOK(queue'[z]) BY <1>2 DEF QueuesOK
  <1>4. \A z \in Processes : RowOK(queue[z])' BY <1>3 DEF RowOK, Once, TasksIn
  <1>5. ASSUME NEW z \in Processes, NEW o \in Words, NEW u \in Waiting(z, o)'
        PROVE  WaitOK(u, z, o)'
    <2>1. CASE z = p
      <3>1. u \in TasksIn(row[o]) BY <1>2, <1>5, <2>1 DEF Waiting, TasksIn
      <3> QED BY <2>1, <3>1
    <2>2. CASE z # p
      <3>1. u \in Waiting(z, o) BY <1>2, <1>5, <2>2 DEF Waiting
      <3> QED BY <2>2, <3>1
    <2> QED BY <2>1, <2>2
  <1> QED BY <1>1, <1>4, <1>5 DEF QueuesOK

\* Another process's waits, at a step of a task of p.
LEMMA Others ==
  ASSUME QueuesOK, NEW t \in Tasks,
         \A u \in Tasks \ {t} : th'[u] = th[u] /\ (u \in parked => u \in parked'),
         \A u \in woken' : u \in woken \/ process[u] = process[t],
         \A z \in Processes \ {process[t]} : \A o \in Words :
            \A u \in Waiting(z, o) : Marked(o) => Marked(o)'
  PROVE  \A z \in Processes \ {process[t]} : \A o \in Words : \A u \in Waiting(z, o) :
            WaitOK(u, z, o)'
  <1>1. SUFFICES ASSUME NEW z \in Processes \ {process[t]}, NEW o \in Words, NEW u \in Waiting(z, o)
                 PROVE  WaitOK(u, z, o)'
    OBVIOUS
  <1>2. WaitOK(u, z, o) /\ u \in Tasks /\ process[u] = z BY Sleeper
  <1>3. u \in Tasks \ {t} BY <1>2
  <1>4. u \in parked' /\ u \notin woken' BY <1>2, <1>3 DEF WaitOK
  <1> QED BY <1>2, <1>3, <1>4, Stays

\* t's wait is over (WaitOver).
LEMMA OverOK ==
  ASSUME TasksOK, QueuesOK, woken \subseteq Tasks, NEW t \in Tasks, NEW r, WaitOver(t, r),
         \A o \in Words : Marked(o) => Marked(o)'
  PROVE  QueuesOK'
  <1> DEFINE p == process[t]
             row == [o \in Words |-> Without(queue[p][o], {t})]
  <1>0. p \in Processes BY TasksAssumption
  <1>1. queue[p] \in Rows /\ RowOK(queue[p]) BY <1>0 DEF QueuesOK
  <1>2. /\ row \in Rows /\ RowOK(row)
        /\ \A o \in Words : TasksIn(row[o]) = TasksIn(queue[p][o]) \ {t}
    BY <1>1, RowWithout
  <1>3. queue' = [queue EXCEPT ![p] = row] BY DEF WaitOver, Removed, QueuesOK
  <1>4. /\ \A u \in Tasks \ {t} : th'[u] = th[u]
        /\ parked' = parked \ {t} /\ woken' = woken \ {t}
    BY DEF WaitOver, TasksOK
  <1> HIDE DEF row, p
  <1>5. ASSUME NEW o \in Words, NEW u \in TasksIn(row[o]) PROVE WaitOK(u, p, o)'
    <2>1. u \in Waiting(p, o) /\ u # t BY <1>0, <1>2, WaitersIn
    <2>2. WaitOK(u, p, o) /\ u \in Tasks BY <1>0, <2>1, Sleeper
    <2>3. u \in parked' /\ u \notin woken' BY <1>4, <2>1, <2>2 DEF WaitOK
    <2> QED BY <1>4, <2>1, <2>2, <2>3, Stays
  <1>6. \A z \in Processes \ {p} : \A o \in Words : \A u \in Waiting(z, o) : WaitOK(u, z, o)'
    <2>1. \A u \in Tasks \ {t} : th'[u] = th[u] /\ (u \in parked => u \in parked') BY <1>4
    <2>2. \A u \in woken' : u \in woken \/ process[u] = process[t] BY <1>4
    <2>3. \A z \in Processes \ {process[t]} : \A o \in Words : \A u \in Waiting(z, o) :
             Marked(o) => Marked(o)'
      OBVIOUS
    <2> QED BY <2>1, <2>2, <2>3, Others DEF p
  <1>7. \A u \in woken' : Asleep(u)'
    <2>1. ASSUME NEW u \in woken' PROVE Asleep(u)'
      <3>1. u \in woken /\ u # t /\ Asleep(u) BY <1>4 DEF QueuesOK
      <3>2. th'[u] = th[u] BY <3>1, <1>4
      <3> QED BY <3>1, <3>2 DEF Asleep
    <2> QED BY <2>1
  <1> QED BY <1>0, <1>2, <1>3, <1>5, <1>6, <1>7, Rewritten

\* t joins a queue (futex.rs: wait, lock_pi).
LEMMA JoinOK ==
  ASSUME TasksOK, QueuesOK, woken \subseteq Tasks, NEW t \in Tasks, NEW o \in Words,
         NEW e \in Entry, e.task = t, o \in PiWords => e.bitset = Bits,
         \A w \in Words : t \notin Waiting(process[t], w),
         queue' = [queue EXCEPT ![process[t]][o] = Append(@, e)],
         \A u \in Tasks \ {t} : th'[u] = th[u],
         parked' = parked \cup {t}, woken' = woken \ {t}, WaitOK(t, process[t], o)',
         \A w \in Words : Marked(w) => Marked(w)'
  PROVE  QueuesOK'
  <1> DEFINE p == process[t]
             q == Append(queue[p][o], e)
             row == [queue[p] EXCEPT ![o] = q]
  <1>0. p \in Processes BY TasksAssumption
  <1>1. queue[p] \in Rows /\ RowOK(queue[p]) BY <1>0 DEF QueuesOK
  <1>2. queue[p][o] \in Seq(Entry) /\ Once(queue[p][o]) BY <1>1 DEF Rows, RowOK
  <1>3. \A w \in Words : t \notin TasksIn(queue[p][w]) BY <1>0, WaitersIn
  <1>4. /\ q \in Seq(Entry) /\ Once(q) /\ TasksIn(q) = TasksIn(queue[p][o]) \cup {t}
        /\ \A k \in DOMAIN q : q[k] = e \/ \E i \in DOMAIN queue[p][o] : q[k] = queue[p][o][i]
    BY <1>2, <1>3, Joins
  <1>5. queue' = [queue EXCEPT ![p] = row] BY <1>0, <1>1 DEF QueuesOK
  <1> HIDE DEF q
  <1>6. \A w \in Words \ {o} : TasksIn(q) \cap TasksIn(queue[p][w]) = {}
    BY <1>1, <1>3, <1>4 DEF RowOK
  <1>7. o \in PiWords => \A i \in DOMAIN q : q[i].bitset = Bits
    BY <1>1, <1>4 DEF RowOK
  <1>8. row \in Rows /\ RowOK(row) BY <1>1, <1>4, <1>6, <1>7, RowWith
  <1>9. /\ row[o] = q /\ \A w \in Words \ {o} : row[w] = queue[p][w]
    BY <1>1 DEF Rows
  <1> HIDE DEF row, p
  <1>10. ASSUME NEW w \in Words, NEW u \in TasksIn(row[w]) PROVE WaitOK(u, p, w)'
    <2>1. CASE u = t
      <3>1. w = o BY <1>3, <1>9, <2>1
      <3> QED BY <2>1, <3>1 DEF p
    <2>2. CASE u # t
      <3>1. u \in TasksIn(queue[p][w]) BY <1>4, <1>9, <2>2
      <3>2. u \in Waiting(p, w) BY <1>0, <3>1, WaitersIn
      <3>3. WaitOK(u, p, w) /\ u \in Tasks BY <1>0, <3>2, Sleeper
      <3>4. u \in parked' /\ u \notin woken' BY <3>3 DEF WaitOK
      <3> QED BY <2>2, <3>3, <3>4, Stays
    <2> QED BY <2>1, <2>2
  <1>11. \A z \in Processes \ {p} : \A w \in Words : \A u \in Waiting(z, w) : WaitOK(u, z, w)'
    <2>1. \A u \in Tasks \ {t} : th'[u] = th[u] /\ (u \in parked => u \in parked') OBVIOUS
    <2>2. \A u \in woken' : u \in woken \/ process[u] = process[t] OBVIOUS
    <2>3. \A z \in Processes \ {process[t]} : \A w \in Words : \A u \in Waiting(z, w) :
             Marked(w) => Marked(w)'
      OBVIOUS
    <2> QED BY <2>1, <2>2, <2>3, Others DEF p
  <1>12. \A u \in woken' : Asleep(u)'
    <2>1. ASSUME NEW u \in woken' PROVE Asleep(u)'
      <3>1. u \in woken /\ u # t /\ Asleep(u) /\ th'[u] = th[u] BY DEF QueuesOK
      <3> QED BY <3>1 DEF Asleep
    <2> QED BY <2>1
  <1> QED BY <1>0, <1>5, <1>8, <1>10, <1>11, <1>12, Rewritten

\* A look at a priority-inheritance lock (futex.rs: lock_pi).
LEMMA PiLookQueues ==
  ASSUME TasksOK, CallsOK, PiOK, QueuesOK, woken \subseteq Tasks, NEW t \in Tasks,
         NEW awake, PiLook(t, awake), th[t].at \in {"lock_pi", "pi_parked"}
  PROVE  PiOK' /\ QueuesOK' /\ woken' \subseteq Tasks
  <1>p. PICK p \in Processes, o \in Words : p = process[t] /\ o = Now(t).obj /\ o \in PiWords
    <2>1. th[t].at \in PiSteps BY DEF PiSteps
    <2>2. Now(t) \in Call /\ Now(t).op \in PiCalls /\ Fits(t, Now(t))
      BY <2>1 DEF CallsOK, CallOK, Now
    <2>3. process[t] \in Processes BY TasksAssumption
    <2> QED BY <2>2, <2>3 DEF Fits, Call
  <1> DEFINE rest == Waiting(p, o) \ {t} # {}
  <1>1. /\ pi[o] \in [owner : Tasks \cup {NoTask}, waiters : BOOLEAN]
        /\ t # NoTask
    BY TasksAssumption DEF PiOK
  <1>2. CASE \E r : WaitOver(t, r)
    <2>1. PiOK' /\ \A w \in Words : Marked(w) => Marked(w)'
      <3>1. CASE UNCHANGED pi BY <3>1 DEF PiOK, Marked
      <3>2. CASE /\ pi[o].owner = NoTask
                 /\ pi' = [pi EXCEPT ![o] = [owner |-> t, waiters |-> rest]]
        <4>1. rest \in BOOLEAN OBVIOUS
        <4> HIDE DEF rest
        <4> QED BY <1>1, <3>2, <4>1 DEF PiOK, Marked
      <3>3. CASE pi[o].owner # NoTask /\ pi' = [pi EXCEPT ![o].waiters = TRUE]
        BY <1>1, <3>3 DEF PiOK, Marked
      <3>4. \/ UNCHANGED pi
            \/ /\ pi[o].owner = NoTask
               /\ pi' = [pi EXCEPT ![o] = [owner |-> t, waiters |-> rest]]
            \/ pi[o].owner # NoTask /\ pi' = [pi EXCEPT ![o].waiters = TRUE]
        BY <1>p DEF PiLook
      <3> QED BY <3>1, <3>2, <3>3, <3>4
    <2>2. QueuesOK' BY <1>2, <2>1, OverOK
    <2>3. woken' \subseteq Tasks BY <1>2 DEF WaitOver
    <2> QED BY <2>1, <2>2, <2>3
  <1>3. CASE /\ pi[o].owner # NoTask /\ pi' = [pi EXCEPT ![o].waiters = TRUE]
             /\ queue' = IF t \in Waiting(p, o) THEN queue
                         ELSE [queue EXCEPT ![p][o] = Append(@, [task |-> t, bitset |-> Bits])]
             /\ parked' = parked \cup {t} /\ woken' = woken \ {t}
             /\ At(t, "pi_parked")
    <2>1. /\ PiOK' /\ Marked(o)' /\ \A w \in Words : Marked(w) => Marked(w)'
      <3>1. pi[o].owner # NoTask /\ pi' = [pi EXCEPT ![o].waiters = TRUE] BY <1>3
      <3> QED BY <1>1, <3>1 DEF PiOK, Marked
    <2>2. /\ \A u \in Tasks \ {t} : th'[u] = th[u]
          /\ th'[t].at = "pi_parked" /\ th'[t].call = th[t].call
      BY <1>3 DEF At, TasksOK, TaskOK, Fields
    <2>3. WaitOK(t, p, o)'
      BY <1>p, <1>3, <2>1, <2>2 DEF WaitOK, Now
    <2>4. CASE t \in Waiting(p, o)
      <3>1. queue' = queue BY <1>3, <2>4
      <3>2. queue' = [queue EXCEPT ![p] = queue[p]] BY <3>1 DEF QueuesOK
      <3>3. queue[p] \in Rows /\ RowOK(queue[p]) BY DEF QueuesOK
      <3>4. ASSUME NEW w \in Words, NEW u \in TasksIn(queue[p][w]) PROVE WaitOK(u, p, w)'
        <4>1. u \in Waiting(p, w) BY WaitersIn
        <4>2. WaitOK(u, p, w) /\ u \in Tasks BY <4>1, Sleeper
        <4>3. CASE u # t
          <5>1. u \in parked' /\ u \notin woken' BY <1>3, <4>2 DEF WaitOK
          <5> QED BY <2>1, <2>2, <4>2, <4>3, <5>1, Stays
        <4>4. CASE u = t
          <5>1. w = o
            <6>1. TasksIn(queue[p][w]) \cap TasksIn(queue[p][o]) # {}
              BY <2>4, <4>4, WaitersIn
            <6> QED BY <3>3, <6>1 DEF RowOK
          <5> QED BY <2>3, <4>4, <5>1
        <4> QED BY <4>3, <4>4
      <3>5. \A z \in Processes \ {p} : \A w \in Words : \A u \in Waiting(z, w) : WaitOK(u, z, w)'
        <4>1. \A u \in Tasks \ {t} : th'[u] = th[u] /\ (u \in parked => u \in parked')
          BY <1>3, <2>2
        <4>2. \A u \in woken' : u \in woken \/ process[u] = process[t] BY <1>3
        <4>3. \A z \in Processes \ {process[t]} : \A w \in Words : \A u \in Waiting(z, w) :
                 Marked(w) => Marked(w)'
          BY <2>1
        <4> QED BY <1>p, <4>1, <4>2, <4>3, Others
      <3>6. \A u \in woken' : Asleep(u)'
        BY <1>3, <2>2 DEF QueuesOK, Asleep
      <3>7. QueuesOK' BY <3>2, <3>3, <3>4, <3>5, <3>6, Rewritten
      <3> QED BY <1>3, <2>1, <3>7
    <2>5. CASE t \notin Waiting(p, o)
      <3>1. \A w \in Words : t \notin Waiting(p, w)
        <4>1. SUFFICES ASSUME NEW w \in Words, t \in Waiting(p, w) PROVE FALSE
          OBVIOUS
        <4>2. WaitOK(t, p, w) /\ Asleep(t) BY <4>1, Sleeper
        <4>3. Now(t).obj = w
          <5>1. th[t].at = "pi_parked" BY <4>2 DEF Asleep
          <5> QED BY <4>2, <5>1 DEF WaitOK
        <4> QED BY <1>p, <2>5, <4>1, <4>3
      <3> DEFINE e == [task |-> t, bitset |-> Bits]
      <3>2. e \in Entry /\ e.task = t /\ e.bitset = Bits BY DEF Entry
      <3>3. queue' = [queue EXCEPT ![p][o] = Append(@, e)] BY <1>3, <2>5
      <3> HIDE DEF e
      <3>4. QueuesOK' BY <1>p, <1>3, <2>1, <2>2, <2>3, <3>1, <3>2, <3>3, JoinOK
      <3> QED BY <1>3, <2>1, <3>4
    <2> QED BY <2>4, <2>5
  <1> QED BY <1>p, <1>2, <1>3 DEF PiLook

\* Whom a wake counts waits in the queue.
LEMMA WokenWaits ==
  ASSUME NEW q, NEW n, NEW bitset
  PROVE  Woken(q, n, bitset) \subseteq TasksIn(q)
  BY DEF Woken, TasksIn

\* A wake of as many as there are tasks leaves nobody.
LEMMA WokenAll ==
  ASSUME NEW q \in Seq(Entry), Once(q), \A i \in DOMAIN q : q[i].bitset = Bits
  PROVE  Woken(q, Cardinality(Tasks), Bits) = TasksIn(q)
  <1>1. Len(q) \in Nat /\ DOMAIN q = 1 .. Len(q) OBVIOUS
  <1>2. TasksIn(q) \subseteq Tasks
    <2>1. ASSUME NEW i \in DOMAIN q PROVE q[i].task \in Tasks
      <3>1. q[i] \in Entry OBVIOUS
      <3> QED BY <3>1 DEF Entry
    <2> QED BY <2>1 DEF TasksIn
  <1>3. Len(q) <= Cardinality(Tasks) /\ Cardinality(Tasks) \in Nat
    BY <1>2, OnceLen, FutexAssumption, FS_Subset, FS_CardinalityType
  <1>4. ASSUME NEW j \in DOMAIN q PROVE Cardinality({k \in DOMAIN q : k < j}) < Cardinality(Tasks)
    <2>1. {k \in DOMAIN q : k < j} = 1 .. j - 1 BY <1>1
    <2>2. j \in Nat /\ j >= 1 /\ j <= Len(q) BY <1>1
    <2>3. Cardinality(1 .. j - 1) = j - 1
      <3>1. PICK m \in Int : m = j - 1 /\ m >= 0 BY <2>2
      <3>2. Cardinality(1 .. m) = IF 1 > m THEN 0 ELSE m - 1 + 1
        BY FS_Interval
      <3> QED BY <3>1, <3>2
    <2>4. Cardinality({k \in DOMAIN q : k < j}) = j - 1 BY <2>1, <2>3
    <2>5. j - 1 < Cardinality(Tasks) BY <1>1, <1>3, <2>2
    <2> QED BY <2>4, <2>5
  <1>5. {i \in DOMAIN q : q[i].bitset \cap Bits # {}} = DOMAIN q BY FutexAssumption
  <1>6. {j \in DOMAIN q : Cardinality({k \in DOMAIN q : k < j}) < Cardinality(Tasks)} = DOMAIN q
    BY <1>4
  <1> QED BY <1>5, <1>6 DEF Woken, TasksIn

\* A row with one queue cut, and its first part put behind another.
Moved(row, o, to, rest, m) ==
  [w \in Words |-> IF w = o THEN SubSeq(rest, m + 1, Len(rest))
                   ELSE IF w = to THEN row[w] \o SubSeq(rest, 1, m)
                   ELSE row[w]]

\* A move to another word: each waiter is in one queue after it (requeue).
LEMMA RowMoved ==
  ASSUME NEW row \in Rows, RowOK(row), NEW o \in Words, NEW to,
         NEW rest \in Seq(Entry), Once(rest), TasksIn(rest) \subseteq TasksIn(row[o]),
         o \in PiWords => \A i \in DOMAIN rest : rest[i].bitset = Bits,
         NEW m \in 0 .. Len(rest), to = o => m = 0, to = o \/ to \notin PiWords
  PROVE  /\ Moved(row, o, to, rest, m) \in Rows /\ RowOK(Moved(row, o, to, rest, m))
         /\ \A w \in Words : \A u \in TasksIn(Moved(row, o, to, rest, m)[w]) :
               \/ w = o /\ u \in TasksIn(rest)
               \/ w = to /\ w # o /\ u \in TasksIn(rest)
               \/ w # o /\ u \in TasksIn(row[w])
  <1> DEFINE a == SubSeq(rest, 1, m)
             b == SubSeq(rest, m + 1, Len(rest))
             new == Moved(row, o, to, rest, m)
  <1>1. /\ a \in Seq(Entry) /\ b \in Seq(Entry) /\ Once(a) /\ Once(b)
        /\ TasksIn(a) \subseteq TasksIn(rest) /\ TasksIn(b) \subseteq TasksIn(rest)
        /\ TasksIn(a) \cap TasksIn(b) = {}
        /\ \A k \in DOMAIN b : \E i \in DOMAIN rest : b[k] = rest[i]
    BY Cut
  <1> HIDE DEF a, b
  <1>2. new = [w \in Words |-> IF w = o THEN b ELSE IF w = to THEN row[w] \o a ELSE row[w]]
    BY DEF a, b, Moved
  <1> HIDE DEF new
  <1>3. ASSUME NEW w \in Words, w = to, w # o
        PROVE  /\ row[w] \o a \in Seq(Entry) /\ Once(row[w] \o a)
               /\ TasksIn(row[w] \o a) \subseteq TasksIn(row[w]) \cup TasksIn(a)
    <2>1. row[w] \in Seq(Entry) /\ Once(row[w]) /\ TasksIn(row[w]) \cap TasksIn(a) = {}
      BY <1>1, <1>3 DEF Rows, RowOK
    <2> QED BY <1>1, <2>1, Behind
  <1>4. ASSUME NEW w \in Words
        PROVE  /\ new[w] \in Seq(Entry) /\ Once(new[w])
               /\ \/ w = o /\ TasksIn(new[w]) = TasksIn(b)
                  \/ w = to /\ w # o /\ TasksIn(new[w]) \subseteq TasksIn(row[w]) \cup TasksIn(a)
                  \/ w # o /\ w # to /\ TasksIn(new[w]) = TasksIn(row[w])
               /\ w \in PiWords => \A i \in DOMAIN new[w] : new[w][i].bitset = Bits
    <2>1. CASE w = o
      <3>1. new[w] = b BY <1>2, <2>1
      <3> QED BY <1>1, <2>1, <3>1
    <2>2. CASE w = to /\ w # o
      <3>1. new[w] = row[w] \o a BY <1>2, <2>2
      <3> QED BY <1>3, <2>2, <3>1
    <2>3. CASE w # to /\ w # o
      <3>1. new[w] = row[w] BY <1>2, <2>3
      <3> QED BY <2>3, <3>1 DEF Rows, RowOK
    <2> QED BY <2>1, <2>2, <2>3
  <1>5. new \in Rows BY <1>2, <1>4 DEF Rows
  <1>6. ASSUME NEW v \in Words, NEW w \in Words, v # w
        PROVE  TasksIn(new[v]) \cap TasksIn(new[w]) = {}
    <2>1. TasksIn(row[v]) \cap TasksIn(row[w]) = {} BY <1>6 DEF RowOK
    <2>2. v # o => TasksIn(row[v]) \cap TasksIn(rest) = {} BY DEF RowOK
    <2>3. w # o => TasksIn(row[w]) \cap TasksIn(rest) = {} BY DEF RowOK
    <2> QED BY <1>1, <1>4, <1>6, <2>1, <2>2, <2>3
  <1>7. RowOK(new) BY <1>4, <1>6 DEF RowOK
  <1>8. ASSUME NEW w \in Words, NEW u \in TasksIn(new[w])
        PROVE  \/ w = o /\ u \in TasksIn(rest)
               \/ w = to /\ w # o /\ u \in TasksIn(rest)
               \/ w # o /\ u \in TasksIn(row[w])
    BY <1>1, <1>4
  <1> QED BY <1>5, <1>7, <1>8 DEF new

\* Whoever sleeps on a priority-inheritance lock, sleeps on one of its process.
LEMMA PiSleeper ==
  ASSUME CallsOK, NEW u \in Tasks, th[u].at = "pi_parked"
  PROVE  Now(u).obj \in PiWords /\ home[Now(u).obj] = process[u]
  BY DEF CallsOK, CallOK, PiSteps, Fits, Now

\* u waits in p, and may on w.
Still(u, p, w) ==
  \E o \in Words : u \in Waiting(p, o) /\ (w = o \/ (w \notin PiWords /\ o \notin PiWords))

\* Who stays is still there.
LEMMA StillHere ==
  ASSUME NEW p \in Processes, NEW w \in Words, NEW u \in Waiting(p, w)
  PROVE  Still(u, p, w)
  BY DEF Still

\* A step of t that wakes waits of p, and leaves a row of queues.
Wakes(t, p, row, up) ==
  /\ queue' = [queue EXCEPT ![p] = row] /\ woken' = woken \cup up /\ parked' = parked
  /\ \A u \in Tasks \ {t} : th'[u] = th[u]
  /\ \A u \in up : u \in Tasks /\ Asleep(u) /\ process[u] = p
  /\ \A w \in Words : \A u \in TasksIn(row[w]) : u \notin up /\ Still(u, p, w)
  /\ \A z \in Processes : \A w \in Words : \A u \in Waiting(z, w) \ up : Marked(w) => Marked(w)'

\* A task that is not asleep wakes some waits of its process, and moves some (wake,
\* requeue, unlock_pi; and a thread's exit).
LEMMA WokeOK ==
  ASSUME TasksOK, CallsOK, QueuesOK, woken \subseteq Tasks, NEW t \in Tasks, ~Asleep(t),
         NEW p \in Processes, p = process[t],
         NEW row \in Rows, RowOK(row), NEW up, Wakes(t, p, row, up)
  PROVE  QueuesOK' /\ woken' \subseteq Tasks
  <1> USE DEF Wakes
  <1>1. ASSUME NEW w \in Words, NEW u \in TasksIn(row[w]) PROVE WaitOK(u, p, w)'
    <2>1. PICK o \in Words : /\ u \in Waiting(p, o)
                             /\ w = o \/ (w \notin PiWords /\ o \notin PiWords)
      BY DEF Still
    <2>2. WaitOK(u, p, o) /\ Asleep(u) /\ u \in Tasks BY <2>1, Sleeper
    <2>3. u \notin up /\ u # t /\ th'[u] = th[u] BY <2>2
    <2>4. u \in parked' /\ u \notin woken' BY <2>2, <2>3 DEF WaitOK
    <2>5. CASE w = o
      <3>1. Marked(o) => Marked(o)' BY <2>1, <2>3
      <3> QED BY <2>2, <2>3, <2>4, <2>5, <3>1, Stays
    <2>6. CASE w \notin PiWords /\ o \notin PiWords
      <3>1. th[u].at # "pi_parked" BY <2>2, <2>6, PiSleeper DEF WaitOK
      <3> QED BY <2>2, <2>3, <2>4, <2>6, <3>1 DEF WaitOK
    <2> QED BY <2>1, <2>5, <2>6
  <1>2. \A z \in Processes \ {p} : \A w \in Words : \A u \in Waiting(z, w) : WaitOK(u, z, w)'
    <2>1. \A u \in Tasks \ {t} : th'[u] = th[u] /\ (u \in parked => u \in parked') OBVIOUS
    <2>2. \A u \in woken' : u \in woken \/ process[u] = process[t] OBVIOUS
    <2>3. ASSUME NEW z \in Processes \ {process[t]}, NEW w \in Words, NEW u \in Waiting(z, w)
          PROVE  Marked(w) => Marked(w)'
      <3>1. process[u] = z BY Sleeper
      <3> QED BY <3>1
    <2> QED BY <2>1, <2>2, <2>3, Others
  <1>3. \A u \in woken' : Asleep(u)'
    <2>1. ASSUME NEW u \in woken' PROVE Asleep(u)'
      <3>1. Asleep(u) /\ u \in Tasks BY DEF QueuesOK
      <3>2. th'[u] = th[u] BY <3>1
      <3> QED BY <3>1, <3>2 DEF Asleep
    <2> QED BY <2>1
  <1>4. woken' \subseteq Tasks OBVIOUS
  <1> QED BY <1>1, <1>2, <1>3, <1>4, Rewritten

\* A wake, with what it moves (WakeAndMove).
LEMMA MoveOK ==
  ASSUME TasksOK, CallsOK, QueuesOK, woken \subseteq Tasks, NEW t \in Tasks, ~Asleep(t),
         NEW o \in Words, NEW n, NEW bitset, NEW to, NEW m \in Nat,
         WakeAndMove(t, o, n, bitset, to, m), UNCHANGED parked,
         to = o \/ (to \notin PiWords /\ o \notin PiWords),
         \A z \in Processes : \A w \in Words :
            \A u \in Waiting(z, w) \ Woken(queue[process[t]][o], n, bitset) :
               Marked(w) => Marked(w)'
  PROVE  QueuesOK' /\ woken' \subseteq Tasks
  <1>p. PICK p \in Processes : p = process[t] BY TasksAssumption
  <1>1. queue[p] \in Rows /\ RowOK(queue[p]) BY DEF QueuesOK
  <1>2. queue[p][o] \in Seq(Entry) /\ Once(queue[p][o]) BY <1>1 DEF Rows, RowOK
  <1> DEFINE up == Woken(queue[p][o], n, bitset)
             rest == Without(queue[p][o], up)
             moved == IF to = o THEN 0 ELSE IF Len(rest) < m THEN Len(rest) ELSE m
             row == [w \in Words |-> IF w = o THEN SubSeq(rest, moved + 1, Len(rest))
                                     ELSE IF w = to THEN queue[p][w] \o SubSeq(rest, 1, moved)
                                     ELSE queue[p][w]]
  <1>3. /\ queue' = [queue EXCEPT ![p] = row] /\ woken' = woken \cup up
        /\ th' = [th EXCEPT ![t] = Unparking(th[t], up \cap parked, th[t].then)]
    BY <1>p DEF WakeAndMove, QueuesOK, TasksOK
  <1>4. up \subseteq TasksIn(queue[p][o]) BY WokenWaits
  <1>5. \A z \in Processes : \A w \in Words : \A u \in Waiting(z, w) \ up : Marked(w) => Marked(w)'
    BY <1>p
  <1> HIDE DEF up
  <1>6. /\ rest \in Seq(Entry) /\ Once(rest) /\ TasksIn(rest) = TasksIn(queue[p][o]) \ up
        /\ \A k \in DOMAIN rest : \E i \in DOMAIN queue[p][o] : rest[k] = queue[p][o][i]
    BY <1>2, WithoutIs
  <1> HIDE DEF rest
  <1>7. moved \in 0 .. Len(rest) /\ (to = o => moved = 0) BY <1>6
  <1>8. o \in PiWords => \A i \in DOMAIN rest : rest[i].bitset = Bits
    BY <1>1, <1>6 DEF RowOK
  <1> HIDE DEF moved, row
  <1>9. /\ row \in Rows /\ RowOK(row)
        /\ \A w \in Words : \A u \in TasksIn(row[w]) :
              \/ w = o /\ u \in TasksIn(rest)
              \/ w = to /\ w # o /\ u \in TasksIn(rest)
              \/ w # o /\ u \in TasksIn(queue[p][w])
    <2>1. TasksIn(rest) \subseteq TasksIn(queue[p][o]) BY <1>6
    <2>2. to = o \/ to \notin PiWords OBVIOUS
    <2>3. row = Moved(queue[p], o, to, rest, moved) BY DEF row, Moved
    <2> QED BY <1>1, <1>6, <1>7, <1>8, <2>1, <2>2, <2>3, RowMoved
  <1>10. ASSUME NEW w \in Words, NEW u \in TasksIn(row[w])
         PROVE  u \notin up /\ Still(u, p, w)
    <2>1. CASE u \in TasksIn(rest) /\ w \in {o, to}
      <3>1. u \in TasksIn(queue[p][o]) /\ u \notin up BY <1>6, <2>1
      <3>2. u \in Waiting(p, o) BY <3>1, WaitersIn
      <3>3. Still(u, p, w) BY <2>1, <3>2, Zenon DEF Still
      <3> QED BY <3>1, <3>3
    <2>2. CASE w # o /\ u \in TasksIn(queue[p][w])
      <3>1. TasksIn(queue[p][w]) \cap TasksIn(queue[p][o]) = {} BY <1>1, <2>2 DEF RowOK
      <3>2. u \notin up BY <1>4, <2>2, <3>1
      <3>3. u \in Waiting(p, w) BY <2>2, WaitersIn
      <3>4. Still(u, p, w) BY <3>3, StillHere
      <3> QED BY <3>2, <3>4
    <2> QED BY <1>9, <2>1, <2>2
  <1>11. ASSUME NEW u \in up PROVE u \in Tasks /\ Asleep(u) /\ process[u] = p
    <2>1. u \in Waiting(p, o) BY <1>4, WaitersIn
    <2> QED BY <2>1, Sleeper
  <1>12. \A u \in Tasks \ {t} : th'[u] = th[u] BY <1>3 DEF TasksOK
  <1>13. /\ queue' = [queue EXCEPT ![p] = row] /\ woken' = woken \cup up /\ parked' = parked
         /\ row \in Rows /\ RowOK(row)
    BY <1>3, <1>9
  <1>14. Wakes(t, p, row, up) BY <1>5, <1>10, <1>11, <1>12, <1>13 DEF Wakes
  <1> QED BY <1>p, <1>13, <1>14, WokeOK

\* A thread's exit wakes its joiner.
LEMMA ExitWakes ==
  ASSUME TasksOK, CallsOK, QueuesOK, PiOK, woken \subseteq Tasks, NEW t \in Tasks, Exit(t)
  PROVE  QueuesOK' /\ woken' \subseteq Tasks
  <1>p. PICK p \in Processes, o \in Words : p = process[t] /\ o = Now(t).obj /\ ~Asleep(t)
    <2>1. th[t].at = "exit" BY DEF Exit
    <2>2. Now(t) \in Call BY <2>1 DEF CallsOK, CallOK, WaitSteps, Now
    <2> QED BY <2>1, <2>2, TasksAssumption DEF Asleep, Call
  <1>1. queue[p] \in Rows /\ RowOK(queue[p]) BY DEF QueuesOK
  <1>2. queue[p][o] \in Seq(Entry) /\ Once(queue[p][o]) BY <1>1 DEF Rows, RowOK
  <1> DEFINE up == Woken(queue[p][o], 1, Bits)
             rest == Without(queue[p][o], up)
             row == [queue[p] EXCEPT ![o] = rest]
  <1>3. /\ queue' = [queue EXCEPT ![p] = row] /\ woken' = woken \cup up
        /\ th' = [th EXCEPT ![t] = Unparking(th[t], up \cap parked, "finish")]
        /\ UNCHANGED <<pi, parked>>
    BY <1>p DEF Exit, QueuesOK, TasksOK
  <1>4. up \subseteq TasksIn(queue[p][o]) BY WokenWaits
  <1> HIDE DEF up
  <1>5. /\ rest \in Seq(Entry) /\ Once(rest) /\ TasksIn(rest) = TasksIn(queue[p][o]) \ up
        /\ \A k \in DOMAIN rest : \E i \in DOMAIN queue[p][o] : rest[k] = queue[p][o][i]
    BY <1>2, WithoutIs
  <1> HIDE DEF rest
  <1>6. row \in Rows /\ RowOK(row)
    <2>1. \A w \in Words \ {o} : TasksIn(rest) \cap TasksIn(queue[p][w]) = {}
      BY <1>1, <1>5 DEF RowOK
    <2>2. o \in PiWords => \A i \in DOMAIN rest : rest[i].bitset = Bits
      BY <1>1, <1>5 DEF RowOK
    <2> QED BY <1>1, <1>5, <2>1, <2>2, RowWith
  <1>7. row[o] = rest /\ \A w \in Words \ {o} : row[w] = queue[p][w] BY <1>1 DEF Rows
  <1> HIDE DEF row
  <1>8. ASSUME NEW w \in Words, NEW u \in TasksIn(row[w])
        PROVE  u \notin up /\ Still(u, p, w)
    <2>1. CASE w = o
      <3>1. u \notin up /\ u \in TasksIn(queue[p][w]) BY <1>5, <1>7, <2>1
      <3> QED BY <3>1, WaitersIn, StillHere
    <2>2. CASE w # o
      <3>1. TasksIn(queue[p][w]) \cap TasksIn(queue[p][o]) = {} BY <1>1, <2>2 DEF RowOK
      <3>2. u \notin up /\ u \in TasksIn(queue[p][w]) BY <1>4, <1>7, <2>2, <3>1
      <3> QED BY <3>2, WaitersIn, StillHere
    <2> QED BY <2>1, <2>2
  <1>9. ASSUME NEW u \in up PROVE u \in Tasks /\ Asleep(u) /\ process[u] = p
    <2>1. u \in Waiting(p, o) BY <1>4, WaitersIn
    <2> QED BY <2>1, Sleeper
  <1>10. \A u \in Tasks \ {t} : th'[u] = th[u] BY <1>3 DEF TasksOK
  <1>11. \A w \in Words : Marked(w) => Marked(w)' BY <1>3 DEF Marked
  <1>12. \A z \in Processes : \A w \in Words : \A u \in Waiting(z, w) \ up : Marked(w) => Marked(w)'
    BY <1>11
  <1>13. Wakes(t, p, row, up) BY <1>3, <1>8, <1>9, <1>10, <1>12 DEF Wakes
  <1> QED BY <1>p, <1>6, <1>13, WokeOK

\* What stays when no queue changes.
LEMMA QuietOK ==
  ASSUME QueuesOK, PiOK, woken \subseteq Tasks,
         \A u \in Tasks : Asleep(u) => th'[u] = th[u],
         UNCHANGED <<pi, queue, woken, parked>>
  PROVE  QueuesOK' /\ PiOK' /\ woken' \subseteq Tasks
  <1>1. \A o \in Words : Marked(o) => Marked(o)' BY DEF Marked
  <1>2. UNCHANGED <<queue, woken>> /\ parked \subseteq parked' OBVIOUS
  <1>3. QueuesOK' BY <1>1, <1>2, Quiet
  <1> QED BY <1>3 DEF PiOK

\* One task's step, from where it is not asleep.
LEMMA Awake ==
  ASSUME TasksOK, NEW t \in Tasks, ~Asleep(t), \E r : th' = [th EXCEPT ![t] = r]
  PROVE  \A u \in Tasks : Asleep(u) => th'[u] = th[u]
  BY DEF TasksOK

WaitInv == PiOK /\ QueuesOK /\ woken \subseteq Tasks

\* The word of a task that is at a step of a call on one.
LEMMA WordOf ==
  ASSUME CallsOK, NEW t \in Tasks
  PROVE  /\ th[t].at \in PiSteps \cup WaitSteps => Now(t) \in Call /\ Now(t).obj \in Words
         /\ th[t].at \in PiSteps => Now(t).obj \in PiWords /\ home[Now(t).obj] = process[t]
         /\ th[t].at \in WaitSteps => Now(t).obj \notin PiWords /\ Now(t).other \notin PiWords
  BY DEF CallsOK, CallOK, Now, Fits, Call

\* A step of a task that is not asleep, and changes no queue.
LEMMA StepQuiet ==
  ASSUME TasksOK, WaitInv, NEW t \in Tasks, ~Asleep(t), \A u \in Tasks \ {t} : th'[u] = th[u],
         UNCHANGED <<queue, woken, parked>>, PiOK', \A o \in Words : Marked(o) => Marked(o)'
  PROVE  WaitInv'
  <1>1. \A u \in Tasks : Asleep(u) => th'[u] = th[u] OBVIOUS
  <1>2. QueuesOK' BY <1>1, Quiet DEF WaitInv
  <1> QED BY <1>2 DEF WaitInv

\* A step that leaves every lock leaves its marks.
LEMMA SameMarks ==
  ASSUME PiOK, UNCHANGED pi
  PROVE  PiOK' /\ \A o \in Words : Marked(o) => Marked(o)'
  BY DEF PiOK, Marked

\* Wherever it is, of one step.
LEMMA OnlyOne ==
  ASSUME TasksOK, NEW t \in Tasks, NEW r, th' = [th EXCEPT ![t] = r]
  PROVE  th'[t] = r /\ \A u \in Tasks \ {t} : th'[u] = th[u]
  BY DEF TasksOK

\* A wait: its task joins one queue, and was in none (wait).
LEMMA FutexWaitOK ==
  ASSUME TasksOK, CallsOK, WaitInv, NEW t \in Tasks, FutexWait(t)
  PROVE  WaitInv'
  <1>p. PICK p \in Processes, o \in Words : /\ p = process[t] /\ o = Now(t).obj /\ o \notin PiWords
                                            /\ Now(t) \in Call /\ ~Asleep(t)
    <2>1. th[t].at = "wait" BY DEF FutexWait
    <2> QED BY <2>1, WordOf, TasksAssumption DEF WaitSteps, Asleep
  <1>1. PiOK' /\ \A w \in Words : Marked(w) => Marked(w)'
    BY SameMarks DEF FutexWait, WaitInv
  <1>2. CASE UNCHANGED <<queue, parked>> /\ \E answer : Return(t, answer)
    <2>1. \A u \in Tasks \ {t} : th'[u] = th[u] BY <1>2, OnlyOne DEF Return
    <2>2. UNCHANGED <<queue, woken, parked>> BY <1>2 DEF FutexWait
    <2> QED BY <1>p, <1>1, <2>1, <2>2, StepQuiet
  <1>3. CASE /\ queue' = [queue EXCEPT ![p][o] = Append(@, [task |-> t, bitset |-> Now(t).bitset])]
             /\ parked' = parked \cup {t} /\ At(t, "parked")
    <2> DEFINE e == [task |-> t, bitset |-> Now(t).bitset]
    <2>1. e \in Entry /\ e.task = t
      <3>1. Now(t).bitset \in SUBSET Bits BY <1>p DEF Call
      <3> QED BY <3>1 DEF Entry
    <2>2. queue' = [queue EXCEPT ![process[t]][o] = Append(@, e)] BY <1>p, <1>3
    <2> HIDE DEF e
    <2>3. th'[t].at = "parked" /\ \A u \in Tasks \ {t} : th'[u] = th[u]
      BY <1>3 DEF At, TasksOK, TaskOK, Fields
    <2>4. t \notin woken BY <1>p DEF WaitInv, QueuesOK
    <2>5. woken' = woken /\ woken' = woken \ {t} BY <2>4 DEF FutexWait
    <2>6. WaitOK(t, process[t], o)' BY <1>p, <1>3, <2>3, <2>4, <2>5 DEF WaitOK
    <2>7. \A w \in Words : t \notin Waiting(process[t], w)
      BY <1>p, Sleeper DEF WaitInv
    <2>8. parked' = parked \cup {t} BY <1>3
    <2>9. QueuesOK' BY <1>p, <1>1, <2>1, <2>2, <2>3, <2>5, <2>6, <2>7, <2>8, JoinOK DEF WaitInv
    <2> QED BY <1>1, <2>5, <2>9 DEF WaitInv
  <1> QED BY <1>p, <1>2, <1>3 DEF FutexWait

\* A wait that is over.
LEMMA OverInv ==
  ASSUME TasksOK, WaitInv, NEW t \in Tasks, NEW r, WaitOver(t, r), UNCHANGED pi
  PROVE  WaitInv'
  <1>1. PiOK' /\ \A w \in Words : Marked(w) => Marked(w)' BY SameMarks DEF WaitInv
  <1>2. QueuesOK' BY <1>1, OverOK DEF WaitInv
  <1>3. woken' \subseteq Tasks BY DEF WaitInv, WaitOver
  <1> QED BY <1>1, <1>2, <1>3 DEF WaitInv

\* A look at a priority-inheritance lock's word, with its marks (lock_pi).
LEMMA PiLookInv ==
  ASSUME TasksOK, CallsOK, WaitInv, NEW t \in Tasks, NEW awake, PiLook(t, awake),
         th[t].at \in {"lock_pi", "pi_parked"}
  PROVE  WaitInv'
  BY PiLookQueues DEF WaitInv

\* An unlock: the lock is handed to a waiter or left with none (unlock_pi).
LEMMA UnlockPiOK ==
  ASSUME TasksOK, CallsOK, WaitInv, NEW t \in Tasks, UnlockPi(t)
  PROVE  WaitInv'
  <1>p. PICK p \in Processes, o \in Words : /\ p = process[t] /\ o = Now(t).obj /\ o \in PiWords
                                            /\ home[o] = p /\ ~Asleep(t)
    <2>1. th[t].at = "unlock_pi" BY DEF UnlockPi
    <2> QED BY <2>1, WordOf, TasksAssumption DEF PiSteps, Asleep
  <1>1. CASE Return(t, "EPERM") /\ UNCHANGED <<pi, queue, woken>>
    <2>1. \A u \in Tasks \ {t} : th'[u] = th[u] BY <1>1, OnlyOne DEF Return
    <2>2. UNCHANGED <<queue, woken, parked>> BY <1>1 DEF UnlockPi
    <2>3. PiOK' /\ \A w \in Words : Marked(w) => Marked(w)' BY <1>1, SameMarks DEF WaitInv
    <2> QED BY <1>p, <2>1, <2>2, <2>3, StepQuiet
  <1>2. CASE /\ pi' = [pi EXCEPT ![o] = Free]
             /\ WakeAndMove(t, o, Cardinality(Tasks), Bits, o, 0)
    <2>1. PiOK' /\ \A w \in Words \ {o} : Marked(w) => Marked(w)'
      BY <1>2 DEF PiOK, WaitInv, Marked, Free
    <2>2. Woken(queue[p][o], Cardinality(Tasks), Bits) = Waiting(p, o)
      <3>1. /\ queue[p][o] \in Seq(Entry) /\ Once(queue[p][o])
            /\ \A i \in DOMAIN queue[p][o] : queue[p][o][i].bitset = Bits
        BY <1>p DEF WaitInv, QueuesOK, Rows, RowOK
      <3> QED BY <3>1, WokenAll, WaitersIn
    <2>3. ASSUME NEW z \in Processes, NEW w \in Words,
                 NEW u \in Waiting(z, w) \ Woken(queue[process[t]][o], Cardinality(Tasks), Bits)
          PROVE  Marked(w) => Marked(w)'
      <3>1. CASE w = o
        <4>1. WaitOK(u, z, w) /\ u \in Tasks /\ process[u] = z BY Sleeper DEF WaitInv
        <4>2. th[u].at = "pi_parked" /\ Now(u).obj = o BY <1>p, <3>1, <4>1 DEF WaitOK
        <4>3. z = p BY <1>p, <4>1, <4>2, PiSleeper
        <4> QED BY <1>p, <2>2, <3>1, <4>3
      <3>2. CASE w # o BY <2>1, <3>2
      <3> QED BY <3>1, <3>2
    <2>4. UNCHANGED parked BY DEF UnlockPi
    <2>5. QueuesOK' /\ woken' \subseteq Tasks
      BY <1>p, <1>2, <2>3, <2>4, MoveOK DEF WaitInv
    <2> QED BY <2>1, <2>5 DEF WaitInv
  <1> QED BY <1>p, <1>1, <1>2 DEF UnlockPi

\* A wake, or a wake and a move (wake, requeue).
LEMMA WakesInv ==
  ASSUME TasksOK, CallsOK, WaitInv, NEW t \in Tasks, FutexWake(t) \/ FutexRequeue(t)
  PROVE  WaitInv'
  <1>p. PICK o \in Words : /\ o = Now(t).obj /\ o \notin PiWords /\ ~Asleep(t)
                           /\ Now(t).other \notin PiWords /\ Now(t).moves \in Nat
    <2>1. th[t].at \in {"wake", "requeue"} BY DEF FutexWake, FutexRequeue
    <2> QED BY <2>1, WordOf DEF WaitSteps, Asleep, Call
  <1>1. PiOK' /\ (\A w \in Words : Marked(w) => Marked(w)') /\ UNCHANGED parked
    BY SameMarks DEF FutexWake, FutexRequeue, WaitInv
  <1>2. CASE \E n, bitset, to, m : /\ WakeAndMove(t, o, n, bitset, to, m) /\ m \in Nat
                                   /\ to = o \/ (to \notin PiWords /\ o \notin PiWords)
    <2>1. PICK n, bitset, to, m : /\ WakeAndMove(t, o, n, bitset, to, m) /\ m \in Nat
                                  /\ to = o \/ (to \notin PiWords /\ o \notin PiWords)
      BY <1>2
    <2>2. QueuesOK' /\ woken' \subseteq Tasks BY <1>p, <1>1, <2>1, MoveOK DEF WaitInv
    <2> QED BY <1>1, <2>2 DEF WaitInv
  <1>3. CASE Return(t, "EAGAIN") /\ UNCHANGED <<queue, woken>>
    <2>1. \A u \in Tasks \ {t} : th'[u] = th[u] BY <1>3, OnlyOne DEF Return
    <2>2. UNCHANGED <<queue, woken, parked>> BY <1>1, <1>3
    <2> QED BY <1>p, <1>1, <2>1, <2>2, StepQuiet
  <1> QED BY <1>p, <1>2, <1>3 DEF FutexWake, FutexRequeue

\* A priority-inheritance lock taken, or given back, that nobody waits for.
LEMMA UnmarkedOK ==
  ASSUME WaitInv, NEW o, NEW r \in [owner : Tasks \cup {NoTask}, waiters : BOOLEAN],
         ~Marked(o), pi' = [pi EXCEPT ![o] = r]
  PROVE  PiOK' /\ \A w \in Words : Marked(w) => Marked(w)'
  BY DEF WaitInv, PiOK, Marked

\* A step of a futex call.
LEMMA FutexStepWaits ==
  ASSUME TasksOK, CallsOK, WaitInv, NEW t \in Tasks, FutexStep(t)
  PROVE  WaitInv'
  <1>0. UNCHANGED pi => PiOK' /\ \A w \in Words : Marked(w) => Marked(w)'
    BY SameMarks DEF WaitInv
  <1>1. CASE FutexWait(t) BY <1>1, FutexWaitOK
  <1>2. CASE FutexUnparked(t)
    <2>1. CASE \E r : WaitOver(t, r) BY <1>2, <2>1, OverInv DEF FutexUnparked
    <2>2. CASE UNCHANGED <<th, queue, parked, woken>>
      <3>1. \A u \in Tasks : Asleep(u) => th'[u] = th[u] BY <2>2
      <3>2. QueuesOK' BY <1>0, <1>2, <2>2, <3>1, Quiet DEF FutexUnparked, WaitInv
      <3> QED BY <1>0, <1>2, <2>2, <3>2 DEF FutexUnparked, WaitInv
    <2> QED BY <1>2, <2>1, <2>2 DEF FutexUnparked
  <1>3. CASE FutexLate(t)
    <2>1. (\E r : WaitOver(t, r)) /\ UNCHANGED pi BY <1>3 DEF FutexLate
    <2> QED BY <2>1, OverInv
  <1>4. CASE FutexWake(t) \/ FutexRequeue(t) BY <1>4, WakesInv
  <1>5. CASE Unpark(t)
    <2>1. ~Asleep(t) BY <1>5 DEF Unpark, Asleep
    <2>2. \E r : th' = [th EXCEPT ![t] = r] BY <1>5 DEF Unpark, Return, At
    <2>3. \A u \in Tasks \ {t} : th'[u] = th[u] BY <2>2, OnlyOne
    <2>4. UNCHANGED <<pi, queue, woken, parked>> BY <1>5 DEF Unpark
    <2> QED BY <1>0, <2>1, <2>3, <2>4, StepQuiet
  <1>6. CASE LockPi(t) BY <1>6, PiLookInv DEF LockPi
  <1>7. CASE PiUnparked(t) BY <1>7, PiLookInv DEF PiUnparked
  <1>8. CASE PiLate(t) BY <1>8, PiLookInv DEF PiLate
  <1>9. CASE TryLockPi(t)
    <2>1. ~Asleep(t) BY <1>9 DEF TryLockPi, Asleep
    <2>2. \E r : th' = [th EXCEPT ![t] = r] BY <1>9 DEF TryLockPi, Return
    <2>3. \A u \in Tasks \ {t} : th'[u] = th[u] BY <2>2, OnlyOne
    <2>4. UNCHANGED <<queue, woken, parked>> BY <1>9 DEF TryLockPi
    <2>5. PiOK' /\ \A w \in Words : Marked(w) => Marked(w)'
      <3>1. CASE UNCHANGED pi BY <1>0, <3>1
      <3>2. CASE ~UNCHANGED pi
        <4>1. PICK o : pi[o].owner = NoTask /\ pi' = [pi EXCEPT ![o].owner = t]
          BY <1>9, <3>2 DEF TryLockPi
        <4> QED BY <4>1 DEF WaitInv, PiOK, Marked
      <3> QED BY <3>1, <3>2
    <2> QED BY <2>1, <2>3, <2>4, <2>5, StepQuiet
  <1>10. CASE UnlockPi(t) BY <1>10, UnlockPiOK
  <1> QED BY <1>1, <1>2, <1>3, <1>4, <1>5, <1>6, <1>7, <1>8, <1>9, <1>10 DEF FutexStep

\* A step of a task that is not asleep, with no queue and no lock of its own.
LEMMA AwayOK ==
  ASSUME TasksOK, WaitInv, NEW t \in Tasks, ~Asleep(t),
         UNCHANGED th \/ \E r : th' = [th EXCEPT ![t] = r],
         UNCHANGED <<pi, queue, woken, parked>>
  PROVE  WaitInv'
  <1>1. \A u \in Tasks \ {t} : th'[u] = th[u] BY OnlyOne
  <1>2. PiOK' /\ \A w \in Words : Marked(w) => Marked(w)' BY SameMarks DEF WaitInv
  <1> QED BY <1>1, <1>2, StepQuiet

\* A step of the guest's own code: nobody asleep takes one.
LEMMA GuestStepWaits ==
  ASSUME TasksOK, CallsOK, WaitInv, NEW t \in Tasks, GuestStep(t)
  PROVE  WaitInv'
  <1>0. ~Asleep(t)
    BY DEF GuestStep, Begin, Retry, Halted, Cleared, Deliver, Store, PiLock, PiUnlock, Asleep
  <1>1. CASE Begin(t) BY <1>0, <1>1, AwayOK DEF Begin, notTask, futexVars
  <1>2. CASE Retry(t) BY <1>0, <1>2, AwayOK DEF Retry, notTask, futexVars
  <1>3. CASE Deliver(t) \/ Cleared(t)
    BY <1>0, <1>3, AwayOK DEF Deliver, Cleared, At, notTask, futexVars
  <1>4. CASE Halted(t)
    <2>1. \E r : th' = [th EXCEPT ![t] = r] BY <1>4 DEF Halted, At
    <2> QED BY <1>0, <1>4, <2>1, AwayOK DEF Halted, notTask, futexVars
  <1>5. CASE Store(t) BY <1>0, <1>5, AwayOK DEF Store, Return
  <1>6. CASE PiLock(t) \/ PiUnlock(t)
    <2>p. PICK o : o = Now(t).obj OBVIOUS
    <2>1. \E r : th' = [th EXCEPT ![t] = r] BY <1>6 DEF PiLock, PiUnlock, Return, At
    <2>2. \A u \in Tasks \ {t} : th'[u] = th[u] BY <2>1, OnlyOne
    <2>3. UNCHANGED <<queue, woken, parked>> BY <1>6 DEF PiLock, PiUnlock
    <2>4. \/ UNCHANGED pi
          \/ pi[o] = Free /\ pi' = [pi EXCEPT ![o].owner = t]
          \/ pi[o] = [Free EXCEPT !.owner = t] /\ pi' = [pi EXCEPT ![o] = Free]
      BY <1>6, <2>p DEF PiLock, PiUnlock
    <2>5. PiOK' /\ \A w \in Words : Marked(w) => Marked(w)'
      <3>1. CASE UNCHANGED pi BY <3>1, SameMarks DEF WaitInv
      <3>2. CASE pi[o] = Free /\ pi' = [pi EXCEPT ![o].owner = t]
        <4>1. PiOK' BY <3>2 DEF WaitInv, PiOK
        <4>2. \A w \in Words : w # o => pi'[w] = pi[w] BY <3>2 DEF WaitInv, PiOK
        <4>3. ~Marked(o) BY <3>2 DEF Marked, Free
        <4> QED BY <4>1, <4>2, <4>3 DEF Marked
      <3>3. CASE pi[o] = [Free EXCEPT !.owner = t] /\ pi' = [pi EXCEPT ![o] = Free]
        BY <3>3 DEF WaitInv, PiOK, Marked, Free
      <3> QED BY <2>4, <3>1, <3>2, <3>3
    <2> QED BY <1>0, <2>2, <2>3, <2>5, StepQuiet
  <1> QED BY <1>1, <1>2, <1>3, <1>4, <1>5, <1>6 DEF GuestStep

\* A step of a process's end: an exit wakes whoever waits for the task.
LEMMA ProcessStepWaits ==
  ASSUME TasksOK, CallsOK, WaitInv, NEW t \in Tasks, ProcessStep(t)
  PROVE  WaitInv'
  <1>1. CASE Exit(t)
    <2>1. PiOK' BY <1>1, SameMarks DEF Exit, WaitInv
    <2> QED BY <1>1, <2>1, ExitWakes DEF WaitInv
  <1>2. CASE ~Exit(t)
    <2>1. UNCHANGED <<pi, queue, woken, parked>>
      BY <1>2 DEF ProcessStep, Signal, Interrupt, Kill, ExitGroup, EndGroup, HaltAll,
                  InterruptAll, Finish, HaltAgain, Joined, CloseAll, Report, ChildSignal, Gone,
                  Wait4, notSignal, futexVars
    <2>2. ~Asleep(t)
      BY <1>2 DEF ProcessStep, Signal, Interrupt, Kill, ExitGroup, EndGroup, HaltAll,
                  InterruptAll, Finish, HaltAgain, Joined, CloseAll, Report, ChildSignal, Gone,
                  Wait4, Asleep
    <2>3. UNCHANGED th \/ \E r : th' = [th EXCEPT ![t] = r]
      BY <1>2 DEF ProcessStep, Signal, Interrupt, Kill, ExitGroup, EndGroup, HaltAll,
                  InterruptAll, Finish, HaltAgain, Joined, CloseAll, Report, ChildSignal, Gone,
                  Wait4, At, Return
    <2> QED BY <2>1, <2>2, <2>3, AwayOK
  <1> QED BY <1>1, <1>2

\* A step of a lock's or a pipe's call.
LEMMA ElsewhereWaits ==
  ASSUME TasksOK, WaitInv, NEW t \in Tasks, LockStep(t) \/ PipeStep(t), UNCHANGED futexVars
  PROVE  WaitInv'
  <1>1. ~Asleep(t)
    BY DEF LockStep, SetLock, GetLock, Flock, Close, CloseLocks, Dup, PipeStep, PipeRead, PipeWrite,
           Asleep
  <1>2. \E r : th' = [th EXCEPT ![t] = r]
    BY DEF LockStep, SetLock, GetLock, Flock, Close, CloseLocks, Dup, PipeStep, PipeRead, PipeWrite,
           At, Return, LockReturn
  <1> QED BY <1>1, <1>2, AwayOK DEF futexVars

\* Nobody waits at first.
LEMMA WaitsInit == Init => CallsOK /\ WaitInv
  <1> SUFFICES ASSUME Init PROVE CallsOK /\ WaitInv
    OBVIOUS
  <1>1. CallsOK
    <2>1. \A t \in Tasks : th[t] = NewTask BY DEF Init
    <2>2. NewTask.at = "guest" /\ NewTask.call = NoCall BY DEF NewTask
    <2>3. NoCall \in Call => \A t \in Tasks : Fits(t, NoCall)
      BY ScenariosAssumption DEF Fits, PiCalls, WordCalls
    <2>4. \A t \in Tasks : CallOK(t, th[t])
      BY <2>1, <2>2, <2>3 DEF CallOK, PiSteps, WaitSteps
    <2>5. \A t \in Tasks : \A i \in DOMAIN program[t] : Fits(t, program[t][i])
      BY WordsAssumption DEF Init
    <2> QED BY <2>4, <2>5 DEF CallsOK
  <1>2. PiOK BY DEF Init, PiOK, Free
  <1>3. QueuesOK
    <2>1. \A p \in Processes : queue[p] = [o \in Words |-> <<>>] BY DEF Init
    <2>2. queue \in [Processes -> Rows] BY DEF Init, Rows
    <2>3. \A p \in Processes : RowOK(queue[p]) BY <2>1 DEF RowOK, Once, TasksIn
    <2>4. \A p \in Processes : \A o \in Words : Waiting(p, o) = {} BY <2>1 DEF Waiting
    <2> QED BY <2>2, <2>3, <2>4 DEF QueuesOK, Init
  <1> QED BY <1>1, <1>2, <1>3 DEF WaitInv, Init

\* The invariant, over every step.
LEMMA WaitsStep == LockInv /\ CallsOK /\ WaitInv /\ [Next]_vars => WaitInv'
  <1> SUFFICES ASSUME LockInv, CallsOK, WaitInv, [Next]_vars PROVE WaitInv'
    OBVIOUS
  <1>0. TasksOK BY DEF LockInv
  <1>1. ASSUME NEW t \in Tasks, Task(t) PROVE WaitInv'
    BY <1>0, <1>1, GuestStepWaits, FutexStepWaits, ProcessStepWaits, ElsewhereWaits DEF Task
  <1>2. ASSUME UNCHANGED <<th, futexVars>> PROVE WaitInv'
    <2>1. PiOK' /\ (\A w \in Words : Marked(w) => Marked(w)') /\ UNCHANGED <<queue, woken, parked>>
      BY <1>2, SameMarks DEF WaitInv, futexVars
    <2>2. QueuesOK'
      <3>1. \A u \in Tasks : Asleep(u) => th'[u] = th[u] BY <1>2
      <3> QED BY <2>1, <3>1, Quiet DEF WaitInv
    <2> QED BY <2>1, <2>2 DEF WaitInv
  <1> QED BY <1>1, <1>2 DEF Next, Drop, vars

\* What it was for.
LEMMA WaitsTrue == WaitInv => QueuesTrue
  <1> SUFFICES ASSUME WaitInv, NEW p \in Processes, NEW o \in Words
               PROVE  /\ Cardinality(Waiting(p, o)) = Len(queue[p][o])
                      /\ \A t \in Waiting(p, o) :
                           /\ process[t] = p /\ t \in parked \ woken
                            /\ th[t].at \in {"parked", "pi_parked"}
                           /\ th[t].at = "pi_parked" => pi[o].owner # NoTask /\ pi[o].waiters
    BY DEF QueuesTrue
  <1>1. queue[p][o] \in Seq(Entry) /\ Once(queue[p][o]) BY DEF WaitInv, QueuesOK, Rows, RowOK
  <1>2. Cardinality(Waiting(p, o)) = Len(queue[p][o]) BY <1>1, OnceLen, WaitersIn
  <1>3. \A t \in Waiting(p, o) : WaitOK(t, p, o) BY DEF WaitInv, QueuesOK
  <1> QED BY <1>2, <1>3 DEF WaitOK, Marked

\* In every reachable state each futex queue has a waiter once, of the queue's own
\* process, asleep, unmarked and to be unparked, and a priority-inheritance lock somebody
\* sleeps on is owned and marked as waited for: no wait, wake, requeue, timeout, signal,
\* lock_pi or unlock_pi leaves a waiter behind in a queue or a lock free under one
\* (futex.rs: wait, wake, requeue, remove, lock_pi, unlock_pi).
THEOREM QueuesHold == Spec => []QueuesTrue
  <1> DEFINE I == LockInv /\ CallsOK /\ WaitInv
  <1>1. Init => I BY InitOK, WaitsInit
  <1>2. I /\ [Next]_vars => I' BY StepOK, CallsStay, WaitsStep
  <1>3. I => QueuesTrue BY WaitsTrue
  <1> QED BY <1>1, <1>2, <1>3, PTL DEF Spec

\* Where the open files of a step's descriptors and calls come from.
FilesFrom ==
  /\ \A p \in Processes : \A n \in Fds :
        fds'[p][n] \in {fds[p][n], NoFile} \cup {th[t].file : t \in Tasks}
  /\ \A t \in Tasks : \/ th'[t].file \in {th[t].file, NoFile}
                      \/ \E p \in Processes : \E n \in Fds : th'[t].file = fds[p][n]

\* An open file that nothing holds is never held again.
LEMMA FewerLive ==
  ASSUME FilesFrom, NEW f \in OpenFiles, Live(f)'
  PROVE  Live(f)
  <1>0. f # NoFile BY TasksAssumption
  <1>1. CASE \E p \in Processes : \E n \in Fds : fds'[p][n] = f
    BY <1>0, <1>1 DEF FilesFrom, Live, HeldBy
  <1>2. CASE \E t \in Tasks : th'[t].file = f
    BY <1>0, <1>2 DEF FilesFrom, Live, HeldBy
  <1> QED BY <1>1, <1>2 DEF Live, HeldBy

\* So a pipe's write ends are only ever fewer.
LEMMA FewerWriters ==
  ASSUME FilesFrom, NEW i
  PROVE  Writers(i)' \subseteq Writers(i)
  BY FewerLive, PipeAssumption DEF Writers

\* A step with its descriptors as they were.
LEMMA SameFds ==
  ASSUME TablesOK, UNCHANGED fds, NEW t \in Tasks, \A u \in Tasks \ {t} : th'[u] = th[u],
         \/ th'[t].file \in {th[t].file, NoFile}
         \/ \E p \in Processes : \E n \in Fds : th'[t].file = fds[p][n]
  PROVE  FilesFrom
  BY DEF FilesFrom

\* A call's file is of one of its caller's descriptors.
LEMMA CalledFile ==
  ASSUME TasksOK, TablesOK, NEW t \in Tasks, NEW c \in Call \cup {NoCall}
  PROVE  \/ Called(t, c).file = th[t].file
         \/ \E p \in Processes : \E n \in Fds : Called(t, c).file = fds[p][n]
  <1>1. TaskOK(th[t]) BY DEF TasksOK
  <1>2. CASE c.op \notin FileCalls
    <2>1. Called(t, c).file = th[t].file BY <1>1, <1>2 DEF Called, TaskOK, Fields
    <2> QED BY <2>1
  <1>3. CASE c.op \in FileCalls
    <2> DEFINE file == fds[process[t]][c.fd]
    <2>1. c \in Call BY <1>3, ScenariosAssumption DEF FileCalls
    <2>2. c.fd \in Fds /\ process[t] \in Processes BY <2>1, TasksAssumption DEF Call
    <2>3. Called(t, c).file \in {th[t].file, file}
      BY <1>1, <1>3 DEF Called, TaskOK, Fields
    <2> QED BY <2>2, <2>3
  <1> QED BY <1>2, <1>3

\* Whatever a step holds was held before it.
LEMMA StepFiles ==
  ASSUME TasksOK, TablesOK, NEW t \in Tasks, Task(t)
  PROVE  FilesFrom
  <1>1. CASE Begin(t) \/ Retry(t)
    <2>1. PICK c \in Call \cup {NoCall} : th' = [th EXCEPT ![t] = Called(t, c)]
      <3>1. CASE Begin(t)
        <4>1. program[t] \in Seq(Call) /\ program[t] # <<>> BY <3>1 DEF Begin, TablesOK
        <4>2. Head(program[t]) \in Call BY <4>1
        <4> QED BY <3>1, <4>2 DEF Begin
      <3>2. CASE Retry(t)
        <4>1. Now(t) \in Call \cup {NoCall} BY DEF TasksOK, TaskOK, Now
        <4> QED BY <3>2, <4>1 DEF Retry
      <3> QED BY <1>1, <3>1, <3>2
    <2>2. th'[t] = Called(t, c) /\ \A u \in Tasks \ {t} : th'[u] = th[u] BY <2>1, OnlyOne
    <2>3. UNCHANGED fds BY <1>1 DEF Begin, Retry, taskVars
    <2> QED BY <2>2, <2>3, CalledFile, SameFds
  <1>2. CASE ~Begin(t) /\ ~Retry(t)
    <2>1. /\ \A u \in Tasks \ {t} : th'[u] = th[u]
          /\ th'[t].file \in {th[t].file, NoFile}
      BY <1>2, TaskGoes DEF Goes
    <2>2. CASE UNCHANGED fds BY <2>1, <2>2, SameFds
    <2>3. CASE ~UNCHANGED fds
      <3>1. Close(t) \/ Dup(t) \/ CloseAll(t)
        <4>1. ~GuestStep(t)
          BY <1>2, <2>3 DEF GuestStep, Halted, Cleared, Deliver, Store, PiLock, PiUnlock,
                            taskVars
        <4>2. ~PipeStep(t) BY <2>3 DEF PipeStep, PipeRead, PipeWrite, taskVars
        <4>3. ~FutexStep(t)
          BY <2>3 DEF FutexStep, FutexWait, FutexUnparked, FutexLate, FutexWake, FutexRequeue,
                      Unpark, LockPi, PiUnparked, PiLate, TryLockPi, UnlockPi, taskVars
        <4>4. LockStep(t) => Close(t) \/ Dup(t)
          BY <2>3 DEF LockStep, SetLock, GetLock, Flock, CloseLocks, taskVars
        <4>5. ProcessStep(t) => CloseAll(t)
          BY <2>3 DEF ProcessStep, Signal, Interrupt, Kill, ExitGroup, EndGroup, HaltAll,
                      InterruptAll, Exit, Finish, HaltAgain, Joined, Report, ChildSignal, Gone,
                      Wait4, taskVars
        <4> QED BY <4>1, <4>2, <4>3, <4>4, <4>5 DEF Task
      <3>2. \A p \in Processes : \A n \in Fds : fds'[p][n] \in {fds[p][n], NoFile, th[t].file}
        BY <2>3, <3>1 DEF Close, Dup, CloseAll, TablesOK, File
      <3> QED BY <2>1, <3>2 DEF FilesFrom
    <2> QED BY <2>2, <2>3
  <1> QED BY <1>1, <1>2

-----------------------------------------------------------------------------
(* The end of file.                                                        *)

\* t was told the end of file of its pipe.
ToldEnd(t) == Now(t).op = "read" /\ th[t].at \in InGuest /\ th[t].answer = "eof"

EofOK(t) ==
  LET i == pipe[th[t].was]
  IN  th[t].was \in ReadEnds /\ Writers(i) = {} /\ bytes[i] = <<>>

EofInv == DOMAIN bytes = Pipes /\ \A t \in Tasks : ToldEnd(t) => EofOK(t)

\* What was told stays true while no byte comes.
LEMMA EofStays ==
  ASSUME FilesFrom, NEW u \in Tasks, EofOK(u), th'[u].was = th[u].was,
         bytes'[pipe[th[u].was]] = bytes[pipe[th[u].was]]
  PROVE  EofOK(u)'
  <1> DEFINE i == pipe[th[u].was]
  <1>1. PICK j : j = i OBVIOUS
  <1>2. Writers(j)' = {} BY <1>1, FewerWriters DEF EofOK
  <1> QED BY <1>1, <1>2 DEF EofOK

\* A pipe's bytes change when there are some, or while it has a writer.
LEMMA BytesStay ==
  ASSUME CallsOK, EofInv, NEW t \in Tasks, PipeStep(t),
         NEW i \in Pipes, Writers(i) = {}, bytes[i] = <<>>
  PROVE  bytes'[i] = bytes[i]
  <1>1. CASE PipeRead(t)
    <2>1. \/ UNCHANGED bytes
          \/ /\ bytes[pipe[File(t)]] # <<>>
             /\ \A j \in Pipes \ {pipe[File(t)]} : bytes'[j] = bytes[j]
      BY <1>1 DEF PipeRead, EofInv
    <2> QED BY <2>1 DEF EofInv
  <1>2. CASE PipeWrite(t)
    <2>1. File(t) \in WriteEnds BY <1>2 DEF PipeWrite, CallsOK, CallOK, File
    <2>2. Live(File(t)) BY DEF Live, HeldBy, File
    <2>3. pipe[File(t)] # i BY <2>1, <2>2 DEF Writers
    <2>4. UNCHANGED bytes \/ \E q : bytes' = [bytes EXCEPT ![pipe[File(t)]] = q]
      BY <1>2 DEF PipeWrite
    <2> QED BY <2>3, <2>4 DEF EofInv
  <1> QED BY <1>1, <1>2 DEF PipeStep

\* A read that answers so.
LEMMA ReadTold ==
  ASSUME TasksOK, CallsOK, EofInv, FilesFrom, NEW t \in Tasks, PipeRead(t), th'[t].answer = "eof"
  PROVE  EofOK(t)'
  <1>1. File(t) \in ReadEnds BY DEF PipeRead, CallsOK, CallOK, File
  <1>2. PICK i \in Pipes : i = pipe[File(t)] BY <1>1, PipeAssumption
  <1>3. PICK answer : Return(t, answer) BY DEF PipeRead
  <1>4. th'[t].was = th[t].file /\ th'[t].answer = answer
    <2> DEFINE r == Back(th[t], answer)
    <2>1. th' = [th EXCEPT ![t] = r] BY <1>3 DEF Return, TasksOK
    <2>2. r.was = th[t].file /\ r.answer = answer BY BackIs
    <2> HIDE DEF r
    <2> QED BY <2>1, <2>2, OnlyOne
  <1>5. Writers(i) = {} /\ bytes[i] = <<>> /\ UNCHANGED bytes
    <2>1. \/ bytes[i] # <<>> /\ Return(t, "data")
          \/ /\ bytes[i] = <<>> /\ UNCHANGED bytes
             /\ Writers(i) = {} \/ \E a \in {"EAGAIN", "EINTR"} : Return(t, a)
      BY <1>2 DEF PipeRead
    <2>2. ASSUME NEW a, Return(t, a) PROVE a = "eof"
      <3> DEFINE r == Back(th[t], a)
      <3>1. th' = [th EXCEPT ![t] = r] BY <2>2 DEF Return, TasksOK
      <3>2. r.answer = a BY BackIs
      <3> HIDE DEF r
      <3> QED BY <3>1, <3>2, OnlyOne
    <2> QED BY <2>1, <2>2
  <1>6. Writers(i)' = {} BY <1>5, FewerWriters
  <1> QED BY <1>1, <1>2, <1>4, <1>5, <1>6 DEF EofOK, File

\* Bytes come and go by a pipe's own calls alone.
LEMMA PipesBytes ==
  ASSUME [Next]_vars
  PROVE  UNCHANGED bytes \/ \E t \in Tasks : PipeStep(t)
  <1>1. ASSUME NEW t \in Tasks, Task(t), ~PipeStep(t) PROVE UNCHANGED bytes
    <2>1. CASE GuestStep(t)
      BY <2>1 DEF GuestStep, Begin, Retry, Halted, Cleared, Deliver, Store, PiLock, PiUnlock,
                  notTask
    <2>2. CASE ProcessStep(t)
      BY <2>2 DEF ProcessStep, Signal, Interrupt, Kill, ExitGroup, EndGroup, HaltAll,
                  InterruptAll, Exit, Finish, HaltAgain, Joined, CloseAll, Report, ChildSignal,
                  Gone, Wait4, notSignal
    <2> QED BY <1>1, <2>1, <2>2 DEF Task
  <1>2. ASSUME NEW p \in Processes, Drop(p) PROVE UNCHANGED bytes BY <1>2 DEF Drop
  <1>3. UNCHANGED vars => UNCHANGED bytes BY DEF vars
  <1> QED BY <1>1, <1>2, <1>3 DEF Next

\* A call begun is not answered with the end of file.
LEMMA BegunUntold ==
  ASSUME TasksOK, TablesOK, NEW t \in Tasks, Begin(t) \/ Retry(t)
  PROVE  ~ToldEnd(t)'
  <1>0. TaskOK(th[t]) BY DEF TasksOK
  <1>1. PICK c \in Call \cup {NoCall} : th' = [th EXCEPT ![t] = Called(t, c)]
    <2>1. CASE Begin(t)
      <3>1. program[t] \in Seq(Call) /\ program[t] # <<>> BY <2>1 DEF Begin, TablesOK
      <3>2. Head(program[t]) \in Call BY <3>1
      <3> QED BY <2>1, <3>2 DEF Begin
    <2>2. CASE Retry(t)
      <3>1. Now(t) \in Call \cup {NoCall} BY DEF TasksOK, TaskOK, Now
      <3> QED BY <2>2, <3>1 DEF Retry
    <2> QED BY <2>1, <2>2
  <1>2. c.op \notin InGuest BY ScenariosAssumption DEF Call, InGuest
  <1>3. Called(t, c).at = c.op \/ Called(t, c).answer = "EBADF"
    BY <1>0 DEF Called, TaskOK, Fields
  <1>4. th'[t] = Called(t, c) BY <1>1, OnlyOne
  <1> QED BY <1>2, <1>3, <1>4 DEF ToldEnd

\* The invariant, over every step.
LEMMA EofStep ==
  ASSUME LockInv, CallsOK, EofInv, [Next]_vars
  PROVE  EofInv'
  <1>0. TasksOK /\ TablesOK BY DEF LockInv
  <1>1. FilesFrom
    <2>1. UNCHANGED <<th, fds>> => FilesFrom BY <1>0 DEF FilesFrom
    <2> QED BY <1>0, <2>1, StepFiles DEF Next, Drop, vars, taskVars
  <1>2. DOMAIN bytes' = Pipes
    <2>1. \A t \in Tasks : PipeStep(t) => DOMAIN bytes' = DOMAIN bytes
      BY DEF PipeStep, PipeRead, PipeWrite
    <2> QED BY <2>1, PipesBytes DEF EofInv
  <1>3. ASSUME NEW u \in Tasks, ToldEnd(u), th'[u].was = th[u].was PROVE EofOK(u)'
    <2>2. EofOK(u) BY <1>3 DEF EofInv
    <2>3. PICK i \in Pipes : i = pipe[th[u].was] BY <2>2, PipeAssumption DEF EofOK
    <2>4. bytes'[i] = bytes[i]
      <3>1. Writers(i) = {} /\ bytes[i] = <<>> BY <2>2, <2>3 DEF EofOK
      <3> QED BY <3>1, PipesBytes, BytesStay
    <2> QED BY <1>1, <1>3, <2>2, <2>3, <2>4, EofStays
  <1>4. ASSUME NEW t \in Tasks, Task(t), NEW u \in Tasks, ToldEnd(u)' PROVE EofOK(u)'
    <2>1. CASE Begin(t) \/ Retry(t)
      <3>1. u # t BY <1>0, <1>4, <2>1, BegunUntold
      <3>2. th'[u] = th[u] BY <1>0, <2>1, <3>1 DEF Begin, Retry, TasksOK
      <3> QED BY <1>3, <1>4, <3>2 DEF ToldEnd, Now
    <2>2. CASE ~Begin(t) /\ ~Retry(t)
      <3>1. Goes(t) BY <1>0, <1>4, <2>2, TaskGoes
      <3>2. CASE u # t
        <4>1. th'[u] = th[u] BY <3>1, <3>2 DEF Goes
        <4> QED BY <1>3, <1>4, <4>1 DEF ToldEnd, Now
      <3>3. CASE u = t /\ PipeRead(t)
        <4>1. th'[t].answer = "eof" BY <1>4, <3>3 DEF ToldEnd
        <4> QED BY <1>0, <1>1, <3>3, <4>1, ReadTold
      <3>4. CASE u = t /\ ~PipeRead(t)
        <4>1. /\ th[t].at \in InGuest /\ th'[t].answer = th[t].answer
              /\ th'[t].was = th[t].was /\ th'[t].call = th[t].call
          BY <1>4, <3>1, <3>4 DEF Goes, ToldEnd
        <4>2. ToldEnd(t) BY <1>4, <3>4, <4>1 DEF ToldEnd, Now
        <4> QED BY <1>3, <3>4, <4>1, <4>2
      <3> QED BY <3>2, <3>3, <3>4
    <2> QED BY <2>1, <2>2
  <1>5. ASSUME UNCHANGED th, NEW u \in Tasks, ToldEnd(u)' PROVE EofOK(u)'
    BY <1>3, <1>5 DEF ToldEnd, Now
  <1>6. \A u \in Tasks : ToldEnd(u)' => EofOK(u)' BY <1>4, <1>5 DEF Next, Drop, vars
  <1> QED BY <1>2, <1>6 DEF EofInv

\* In every reachable state a read that answered end of file did so of a pipe with no
\* write end left, in a descriptor or in a call under way, and no byte to read: no byte
\* written comes after the end, and none was left behind it (pipe.rs: read, End's drop).
THEOREM EndOfFile == Spec => []EofTrue
  <1> DEFINE I == LockInv /\ CallsOK /\ EofInv
  <1>1. Init => I
    <2>1. Init => EofInv
      <3>1. NewTask.answer # "eof" BY DEF NewTask
      <3> QED BY <3>1 DEF Init, EofInv, ToldEnd
    <2> QED BY <2>1, InitOK, WaitsInit
  <1>2. I /\ [Next]_vars => I' BY StepOK, CallsStay, EofStep
  <1>3. I => EofTrue BY DEF EofInv, EofOK, EofTrue, ToldEnd, InGuest
  <1> QED BY <1>1, <1>2, <1>3, PTL DEF Spec
=============================================================================

---------------------------- MODULE BionicProofs ----------------------------
(***************************************************************************)
(* The mutexes, the read-write locks, the routines and the conditions,     *)
(* proved.                                                                 *)
(*                                                                         *)
(* The invariant says where a thread may be in a call (its record), whom   *)
(* the word and the owner table of a mutex and the count of a read-write   *)
(* lock stand for, and that the queues hold the sleepers.  A step belongs  *)
(* to one object; it moves its own thread and at most wakes others, so     *)
(* each primitive is proved on its own steps and framed through the rest.  *)
(*                                                                         *)
(* From it: no sleeper of a mutex or of a routine is forgotten, a          *)
(* routine's callers wait for its end, and no signal of a condition is     *)
(* lost.                                                                   *)
(***************************************************************************)
EXTENDS BionicProperties, FiniteSetTheorems, TLAPS

-----------------------------------------------------------------------------
(* The steps of a thread.                                                  *)

LockSteps   == {"lock", "trylock", "lock_cas", "trylock_cas", "last_cas", "own",
                "contend", "mark", "ready", "contend_woke"}
UnlockSteps == {"unlock", "clear", "publish", "unlock_wake"}
CondSteps   == {"wait", "cond_loop", "cond_asleep", "cond_leave", "cond_return"}
MarkSteps   == {"signal", "broadcast", "notify"}
LoopSteps   == {"await_locked", "await_woke", "set_locked", "set_done"}
AskSteps    == {"rdlock", "rd_state", "rd_acquire", "rd_wait",
                "wrlock", "wr_state", "wr_cas", "wr_wait", "wr_leave"}
LeaveSteps  == {"rwunlock", "rw_wake"}
SemSteps    == {"semwait", "sem_take", "sem_flag", "sem_ready",
                "sempost", "post_cas", "post_wake", "post_clear"}
OnceSteps   == {"once", "once_wait", "once_cas", "once_run", "once_done", "once_wake", "once_woke"}
WordSteps   == {"store", "store_wake"}
FutexSteps  == {"futex", "park", "asleep"}

MutexSteps == LockSteps \cup UnlockSteps \cup CondSteps \cup MarkSteps \cup LoopSteps
RwSteps    == AskSteps \cup LeaveSteps

\* What is read of a thread's record.
Fields == {"at", "pc", "obj", "saw", "then", "res", "back", "ret", "timed", "answer", "blocked",
           "signalled", "cond", "forever"}

\* The step of its call a thread is at, asleep there or not.
Where(r) == IF r.at \in FutexSteps THEN r.then ELSE r.at

\* What a thread at a step needs of its object, and of where it goes back.
LockOK(r)   == r.obj \in Mutexes /\ r.back \in {"idle", "await_locked", "set_locked", "cond_return"}
                 /\ (r.timed => r.back = "idle")
UnlockOK(r) == r.obj \in Mutexes /\ r.back \in {"idle", "cond_loop"}
OnceIs(r, kind) == r.obj \in kind /\ r.back = "idle"

\* A thread works on an object of the step's kind, and knows where it goes back.
StepOK(r) ==
  \/ r.at \in {"idle", "stopped"}
  \/ r.at \in LockSteps /\ LockOK(r)
       /\ (r.at \in {"trylock", "trylock_cas", "last_cas"} => r.back = "idle")
       /\ (r.at = "mark" => ~IsRecursive(r.obj))
       /\ (r.at = "ready" => r.saw # Unlocked)
  \/ r.at \in UnlockSteps /\ UnlockOK(r)
  \/ r.at \in CondSteps \cup LoopSteps /\ r.obj \in Mutexes
  \/ r.at \in MarkSteps /\ r.obj \in Mutexes /\ r.back = "set_done"
  \/ r.at \in RwSteps /\ OnceIs(r, RwLocks)
  \/ r.at \in SemSteps /\ OnceIs(r, Sems)
  \/ r.at \in OnceSteps /\ OnceIs(r, Onces)
  \/ r.at \in WordSteps /\ OnceIs(r, Words)
  \/ /\ r.at \in FutexSteps
     /\ \/ r.then = "contend_woke" /\ LockOK(r) /\ r.saw # Unlocked
        \/ r.then \in {"rdlock", "wr_state"} /\ OnceIs(r, RwLocks)
        \/ r.then = "semwait" /\ OnceIs(r, Sems)
        \/ r.then = "once_woke" /\ OnceIs(r, Onces) /\ r.saw = IN_PROGRESS
        \/ r.then = "idle" /\ OnceIs(r, Words)

ThreadOK(r) ==
  /\ Fields \subseteq DOMAIN r /\ r.pc \in Nat /\ r.ret \in {"idle", "await_woke"}
  /\ r.at \notin FutexSteps => r.then = "idle"
  /\ StepOK(r)

ThreadsOK == DOMAIN th = Threads /\ \A t \in Threads : ThreadOK(th[t])

TypeOK ==
  /\ scenario \in Scenarios
  /\ ThreadsOK
  /\ word \in [Objects -> Int]
  /\ queue \in [Objects -> Seq(Threads)]
  /\ owners \in [Mutexes -> Threads \cup {NoThread}]
  /\ holds \in [Threads -> [Mutexes -> Int]]
  /\ rwholds \in [Threads -> [RwLocks -> {"none", "read", "write"}]]

-----------------------------------------------------------------------------
(* The mutexes.                                                            *)

\* The winner of the word that has not entered itself, or the last holder that
\* has not set it free.
Turning(t, m) == th[t].obj = m /\ th[t].at \in {"own", "clear", "publish"}

HasWord(t, m) == holds[t][m] > 0 \/ Turning(t, m)

\* Steps of a thread that holds the mutex of its call.
HoldSteps == {"unlock", "wait", "cond_return"} \cup MarkSteps \cup LoopSteps

\* What the word and the owner table say of one thread.
HolderOK(t, m) ==
  /\ HasWord(t, m) => word[m] # Unlocked
  /\ holds[t][m] >= 0
  /\ holds[t][m] > 0 => owners[m] = t
  /\ owners[m] = t => holds[t][m] > 0 \/ (th[t].obj = m /\ th[t].at = "clear")
  /\ Turning(t, m) => holds[t][m] = 0 /\ (IsRecursive(m) => word[m] = 1)
  /\ holds[t][m] > 0 => holds[t][m] = IF IsRecursive(m) THEN word[m] ELSE 1
  /\ th[t].obj = m /\ th[t].at \in HoldSteps => holds[t][m] > 0

\* One thread at most has the word.
MutexInv(m) ==
  /\ \A t, u \in Threads : HasWord(t, m) /\ HasWord(u, m) => t = u
  /\ \A t \in Threads : HolderOK(t, m)

-----------------------------------------------------------------------------
(* The read-write locks.                                                   *)

\* The writer, from the exchange of the word on.
Writes(t, o) == rwholds[t][o] = "write" \/ (th[t].obj = o /\ th[t].at = "wr_leave")
Readers(o) == {t \in Threads : rwholds[t][o] = "read"}

\* One writer at most, and then no reader; else the word counts the readers; and a
\* thread asks for what it does not hold, and lets go of what it does.
RwInv(o) ==
  /\ \A t, u \in Threads : Writes(t, o) /\ Writes(u, o) => t = u
  /\ \A t \in Threads : Writes(t, o) => word[o] = WRITER /\ Readers(o) = {}
  /\ (\A t \in Threads : ~Writes(t, o)) => word[o] = Cardinality(Readers(o))
  /\ \A t \in Threads : th[t].obj = o =>
       /\ Where(th[t]) \in AskSteps => rwholds[t][o] = "none"
       /\ th[t].at = "rwunlock" => rwholds[t][o] # "none"

-----------------------------------------------------------------------------
(* The queues.                                                             *)

\* A queue holds the threads asleep on its object, each once.
QueueInv(o) ==
  /\ \A t \in Threads : th[t].at = "asleep" /\ th[t].obj = o =>
        \E i \in DOMAIN queue[o] : queue[o][i] = t
  /\ \A i \in DOMAIN queue[o] : th[queue[o][i]].at = "asleep" /\ th[queue[o][i]].obj = o
  /\ \A i, j \in DOMAIN queue[o] : queue[o][i] = queue[o][j] => i = j

-----------------------------------------------------------------------------
(* The records of threads.                                                 *)

\* What a thread's step does to another: nothing, or it wakes it.
Moved(u) ==
  \/ th'[u] = th[u]
  \/ th[u].at = "asleep" /\ th'[u] = Woke(th[u], "Woken")
  \/ th[u].at = "cond_asleep" /\ th'[u] = [th[u] EXCEPT !.at = "cond_loop"]

\* t's step, and where it has come.
Acts(t) == /\ DOMAIN th' = Threads /\ \A u \in Threads \ {t} : Moved(u)
           /\ ThreadOK(th'[t])

\* A woken thread is at a step of the call it slept in.
LEMMA WokeOK ==
  ASSUME NEW r, ThreadOK(r), r.at \in FutexSteps, NEW result
  PROVE  ThreadOK(Woke(r, result))
  BY DEF ThreadOK, StepOK, OnceIs, LockOK, UnlockOK, Fields, Woke, RwSteps, LockSteps, UnlockSteps,
         CondSteps, MarkSteps, LoopSteps, AskSteps, LeaveSteps, SemSteps, OnceSteps, WordSteps,
         FutexSteps

\* So is whoever a step moves from outside.
LEMMA MovedOK ==
  ASSUME ThreadsOK, NEW u \in Threads, Moved(u)
  PROVE  ThreadOK(th'[u])
  <1>1. ThreadOK(th[u]) BY DEF ThreadsOK
  <1>2. CASE th[u].at = "asleep" /\ th'[u] = Woke(th[u], "Woken")
    BY <1>1, <1>2, WokeOK DEF FutexSteps
  <1>3. CASE th[u].at = "cond_asleep" /\ th'[u] = [th[u] EXCEPT !.at = "cond_loop"]
    BY <1>1, <1>3 DEF ThreadOK, StepOK, OnceIs, LockOK, UnlockOK, Fields, RwSteps, LockSteps,
                      UnlockSteps, CondSteps, MarkSteps, LoopSteps, AskSteps, LeaveSteps, SemSteps,
                      OnceSteps, WordSteps, FutexSteps
  <1> QED BY <1>1, <1>2, <1>3 DEF Moved

\* A step of a thread that is one of its own call keeps every record.
LEMMA ActsOK ==
  ASSUME ThreadsOK, NEW t \in Threads, Acts(t)
  PROVE  ThreadsOK'
  BY MovedOK DEF ThreadsOK, Acts

\* A step that writes its thread's record, and no other.
LEMMA Sets ==
  ASSUME ThreadsOK, NEW t \in Threads, NEW r, th' = [th EXCEPT ![t] = r], ThreadOK(r)
  PROVE  Acts(t) /\ th'[t] = r
  BY DEF ThreadsOK, Acts, Moved

\* The threads a wake takes off a queue are asleep there.
LEMMA TakenAsleep ==
  ASSUME TypeOK, NEW o \in Objects, QueueInv(o), NEW n, NEW u \in Taken(o, n)
  PROVE  u \in Threads /\ th[u].at = "asleep" /\ th[u].obj = o
  BY DEF TypeOK, QueueInv, Taken

\* A wake, with the waker's record.
LEMMA Wakes ==
  ASSUME TypeOK, NEW o \in Objects, QueueInv(o), NEW n, NEW t \in Threads, NEW r,
         WakeAnd(o, n, t, r), ThreadOK(r), th[t].at # "asleep"
  PROVE  Acts(t) /\ th'[t] = r
  <1>1. DOMAIN th' = Threads /\ th'[t] = r BY TakenAsleep DEF WakeAnd
  <1>2. ASSUME NEW u \in Threads \ {t} PROVE Moved(u)
    <2>1. CASE u \in Taken(o, n)
      BY <2>1, TakenAsleep DEF WakeAnd, Moved
    <2>2. CASE u \notin Taken(o, n)
      BY <2>2 DEF WakeAnd, Moved
    <2> QED BY <2>1, <2>2
  <1> QED BY <1>1, <1>2 DEF Acts

\* A call that ends is back where it was made.
LEMMA BackOK ==
  ASSUME NEW r, ThreadOK(r), NEW code,
         r.at \in LockSteps \cup UnlockSteps \cup MarkSteps \cup RwSteps \cup SemSteps \cup OnceSteps
                    \cup WordSteps
  PROVE  ThreadOK(Back(r, code))
  BY DEF ThreadOK, StepOK, OnceIs, LockOK, UnlockOK, Fields, Back, RwSteps, LockSteps, UnlockSteps,
         CondSteps, MarkSteps, LoopSteps, AskSteps, LeaveSteps, SemSteps, OnceSteps, WordSteps,
         FutexSteps

\* A call that answers.
LEMMA Answers ==
  ASSUME ThreadsOK, NEW t \in Threads, NEW code, Answer(t, code),
         th[t].at \in LockSteps \cup UnlockSteps \cup MarkSteps \cup RwSteps \cup SemSteps
                         \cup OnceSteps \cup WordSteps
  PROVE  Acts(t)
  <1>1. ThreadOK(th[t]) BY DEF ThreadsOK
  <1>2. ThreadOK(Back(th[t], code)) BY <1>1, BackOK
  <1> QED BY <1>2, Sets DEF Answer

-----------------------------------------------------------------------------
(* ... as the steps of each call write them.                               *)

\* A lock's steps, as far as the first look at the word.
LEMMA LockActs ==
  ASSUME ThreadsOK, NEW t \in Threads
  PROVE  /\ LockAgain(t) => Acts(t)
         /\ LockDeadlock(t) => Acts(t)
         /\ LockLook(t) => Acts(t)
         /\ LockCas(t) => Acts(t)
         /\ LockOwn(t) => Acts(t)
  <1>0. ThreadOK(th[t]) BY DEF ThreadsOK
  <1>1. LockAgain(t) => Acts(t) BY Answers DEF LockAgain, LockSteps
  <1>2. LockDeadlock(t) => Acts(t) BY Answers DEF LockDeadlock, LockSteps
  <1>3. LockLook(t) => Acts(t)
    <2> SUFFICES ASSUME LockLook(t) PROVE Acts(t) OBVIOUS
    <2>1. ASSUME NEW s \in {"lock_cas", "contend"}, At(t, s) PROVE Acts(t)
      <3>1. ThreadOK([th[t] EXCEPT !.at = s])
        BY <1>0, <2>1 DEF LockLook, ThreadOK, StepOK, OnceIs, LockOK, UnlockOK, Fields, RwSteps,
                          LockSteps, UnlockSteps, CondSteps, MarkSteps, LoopSteps, AskSteps,
                          LeaveSteps, SemSteps, OnceSteps, WordSteps, FutexSteps
      <3> QED BY <2>1, <3>1, Sets DEF At
    <2>2. ASSUME At(t, "trylock_cas"), th[t].at = "trylock" PROVE Acts(t)
      <3>1. ThreadOK([th[t] EXCEPT !.at = "trylock_cas"])
        BY <1>0, <2>2 DEF LockLook, ThreadOK, StepOK, OnceIs, LockOK, UnlockOK, Fields, RwSteps,
                          LockSteps, UnlockSteps, CondSteps, MarkSteps, LoopSteps, AskSteps,
                          LeaveSteps, SemSteps, OnceSteps, WordSteps, FutexSteps
      <3> QED BY <2>2, <3>1, Sets DEF At
    <2> QED BY <2>1, <2>2, Answers DEF LockLook, LockSteps
  <1>4. LockCas(t) => Acts(t)
    <2> SUFFICES ASSUME LockCas(t) PROVE Acts(t) OBVIOUS
    <2>1. ASSUME NEW s \in {"own", "contend"}, At(t, s) PROVE Acts(t)
      <3>1. ThreadOK([th[t] EXCEPT !.at = s])
        BY <1>0, <2>1 DEF LockCas, ThreadOK, StepOK, OnceIs, LockOK, UnlockOK, Fields, RwSteps,
                          LockSteps, UnlockSteps, CondSteps, MarkSteps, LoopSteps, AskSteps,
                          LeaveSteps, SemSteps, OnceSteps, WordSteps, FutexSteps
      <3> QED BY <2>1, <3>1, Sets DEF At
    <2> QED BY <2>1, Answers DEF LockCas, LockSteps
  <1>5. LockOwn(t) => Acts(t) BY Answers DEF LockOwn, LockSteps
  <1> QED BY <1>1, <1>2, <1>3, <1>4, <1>5

\* A step that writes t's record in fields of its own.
LEMMA ContendActs ==
  ASSUME ThreadsOK, NEW t \in Threads
  PROVE  /\ Contend(t) => Acts(t)
         /\ ContendMark(t) => Acts(t)
         /\ ContendReady(t) => Acts(t)
         /\ ContendWoke(t) => Acts(t)
  <1> USE DEF ThreadOK, StepOK, OnceIs, LockOK, UnlockOK, Fields, RwSteps, LockSteps, UnlockSteps,
              CondSteps, MarkSteps, LoopSteps, AskSteps, LeaveSteps, SemSteps, OnceSteps, WordSteps,
              FutexSteps
  <1>0. ThreadOK(th[t]) BY DEF ThreadsOK
  <1>1. Contend(t) => Acts(t)
    <2> DEFINE r == [[th[t] EXCEPT !.saw = word[th[t].obj]] EXCEPT
                     !.at = CASE word[th[t].obj] = Unlocked -> "lock_cas"
                                  [] word[th[t].obj] = Locked /\ ~IsRecursive(th[t].obj) -> "mark"
                                  [] OTHER -> "ready"]
    <2>1. Contend(t) => ThreadOK(r)
      BY <1>0 DEF Contend
    <2>2. Contend(t) => th' = [th EXCEPT ![t] = r] BY DEF Contend
    <2> QED BY <2>1, <2>2, Sets
  <1>2. ContendMark(t) => Acts(t)
    <2>1. ContendMark(t) => /\ ThreadOK([[th[t] EXCEPT !.saw = LockedWithWaiters] EXCEPT !.at = "ready"])
                            /\ ThreadOK([th[t] EXCEPT !.at = "contend"])
      BY <1>0 DEF ContendMark, Unlocked, LockedWithWaiters
    <2>2. ContendMark(t) => \/ At(t, "contend")
                            \/ th' = [th EXCEPT ![t] = [[th[t] EXCEPT !.saw = LockedWithWaiters] EXCEPT !.at = "ready"]]
      BY DEF ContendMark
    <2> QED BY <2>1, <2>2, Sets DEF At
  <1>3. ContendReady(t) => Acts(t)
    <2>1. ContendReady(t) => /\ ThreadOK([th[t] EXCEPT !.at = "stopped"])
                             /\ ThreadOK([th[t] EXCEPT !.at = "futex", !.saw = th[t].saw, !.then = "contend_woke"])
      BY <1>0 DEF ContendReady
    <2> QED BY <2>1, Sets, Answers DEF ContendReady, At, Wait
  <1>4. ContendWoke(t) => Acts(t)
    <2>1. ContendWoke(t) => /\ th[t].timed => ThreadOK([th[t] EXCEPT !.at = "last_cas"])
                            /\ ThreadOK([[th[t] EXCEPT !.at = "contend"] EXCEPT !.res = "Woken"])
      BY <1>0 DEF ContendWoke
    <2>2. ContendWoke(t) => \/ th[t].timed /\ (At(t, "last_cas") \/ Answer(t, "ETIMEDOUT"))
                            \/ th' = [th EXCEPT ![t] = [[th[t] EXCEPT !.at = "contend"] EXCEPT !.res = "Woken"]]
      BY DEF ContendWoke
    <2> QED BY <2>1, <2>2, Sets, Answers DEF At, ContendWoke
  <1> QED BY <1>1, <1>2, <1>3, <1>4

\* An unlock's.
LEMMA UnlockActs ==
  ASSUME TypeOK, \A o \in Objects : QueueInv(o), NEW t \in Threads
  PROVE  /\ Unlock(t) => Acts(t)
         /\ UnlockClear(t) => Acts(t)
         /\ UnlockPublish(t) => Acts(t)
         /\ UnlockWake(t) => Acts(t)
  <1> USE DEF UnlockSteps
  <1>0. ThreadsOK /\ ThreadOK(th[t]) BY DEF TypeOK, ThreadsOK
  <1>1. ASSUME th[t].at \in UnlockSteps, NEW s \in UnlockSteps PROVE ThreadOK([th[t] EXCEPT !.at = s])
    BY <1>0, <1>1 DEF ThreadOK, StepOK, OnceIs, LockOK, UnlockOK, Fields, RwSteps, LockSteps,
                      UnlockSteps, CondSteps, MarkSteps, LoopSteps, AskSteps, LeaveSteps, SemSteps,
                      OnceSteps, WordSteps, FutexSteps
  <1>2. Unlock(t) => Acts(t) BY <1>0, <1>1, Sets, Answers DEF Unlock, At
  <1>3. UnlockClear(t) => Acts(t) BY <1>0, <1>1, Sets DEF UnlockClear, At
  <1>4. UnlockPublish(t) => Acts(t) BY <1>0, <1>1, Sets DEF UnlockPublish, At
  <1>5. UnlockWake(t) => Acts(t)
    <2> SUFFICES ASSUME UnlockWake(t) PROVE Acts(t) OBVIOUS
    <2>1. th[t].obj \in Objects
      BY <1>0, MutexAssumption DEF UnlockWake, ThreadOK, StepOK, OnceIs, LockOK, UnlockOK, RwSteps,
                                   LockSteps, UnlockSteps, CondSteps, MarkSteps, LoopSteps, AskSteps,
                                   LeaveSteps, SemSteps, OnceSteps, WordSteps, FutexSteps
    <2>2. ThreadOK(Back(th[t], "0")) BY <1>0, BackOK DEF UnlockWake
    <2> QED BY <2>1, <2>2, Wakes DEF UnlockWake
  <1> QED BY <1>2, <1>3, <1>4, <1>5

\* A condition's.
LEMMA CondActs ==
  ASSUME ThreadsOK, NEW t \in Threads
  PROVE  /\ CondRegister(t) => Acts(t)
         /\ CondLoop(t) => Acts(t)
         /\ CondTimer(t) => Acts(t)
         /\ CondLeave(t) => Acts(t)
         /\ CondReturn(t) => Acts(t)
         /\ CondSignal(t) => Acts(t)
         /\ CondBroadcast(t) => Acts(t)
         /\ CondSignalled(t) => Acts(t)
  <1>0. ThreadOK(th[t]) BY DEF ThreadsOK
  <1> USE DEF ThreadOK, StepOK, OnceIs, LockOK, UnlockOK, Fields, RwSteps, LockSteps, UnlockSteps,
              CondSteps, MarkSteps, LoopSteps, AskSteps, LeaveSteps, SemSteps, OnceSteps, WordSteps,
              FutexSteps
  <1>1. CondRegister(t) => Acts(t)
    <2>1. CondRegister(t) => ThreadOK([[th[t] EXCEPT !.at = "unlock"] EXCEPT !.back = "cond_loop"])
      BY <1>0 DEF CondRegister
    <2>2. CondRegister(t) => th' = [th EXCEPT ![t] = [[th[t] EXCEPT !.at = "unlock"] EXCEPT !.back = "cond_loop"]]
      BY DEF CondRegister
    <2> QED BY <2>1, <2>2, Sets
  <1>2. CondLoop(t) => Acts(t)
    <2>1. CondLoop(t) => /\ ThreadOK([th[t] EXCEPT !.at = "cond_asleep"])
                         /\ \A b \in BOOLEAN : ThreadOK([[th[t] EXCEPT !.at = "cond_leave"] EXCEPT !.signalled = b])
      BY <1>0 DEF CondLoop
    <2>2. CondLoop(t) => \/ At(t, "cond_asleep")
                         \/ \E b \in BOOLEAN : th' = [th EXCEPT ![t] = [[th[t] EXCEPT !.at = "cond_leave"] EXCEPT !.signalled = b]]
      BY DEF CondLoop
    <2> QED BY <2>1, <2>2, Sets DEF At
  <1>3. CondTimer(t) => Acts(t)
    <2>1. CondTimer(t) => ThreadOK([th[t] EXCEPT !.at = "cond_loop"]) BY <1>0 DEF CondTimer
    <2> QED BY <2>1, Sets DEF At, CondTimer
  <1>4. CondLeave(t) => Acts(t)
    <2> DEFINE r == [[[th[t] EXCEPT !.at = "lock"] EXCEPT !.back = "cond_return"] EXCEPT !.timed = FALSE]
    <2>1. CondLeave(t) => ThreadOK(r) BY <1>0 DEF CondLeave
    <2>2. CondLeave(t) => th' = [th EXCEPT ![t] = r] BY DEF CondLeave
    <2> QED BY <2>1, <2>2, Sets
  <1>5. CondReturn(t) => Acts(t)
    <2> DEFINE r == [[[th[t] EXCEPT !.at = th[t].ret] EXCEPT !.signalled = FALSE]
                       EXCEPT !.answer = IF th[t].signalled THEN "0" ELSE "ETIMEDOUT"]
    <2>1. CondReturn(t) => ThreadOK(r) BY <1>0 DEF CondReturn
    <2>2. CondReturn(t) => th' = [th EXCEPT ![t] = r] BY DEF CondReturn
    <2> QED BY <2>1, <2>2, Sets
  <1>6. ASSUME th[t].at \in {"signal", "broadcast"} PROVE ThreadOK([th[t] EXCEPT !.at = "notify"])
    BY <1>0, <1>6
  <1>7. CondSignal(t) => Acts(t) BY <1>6, Sets DEF CondSignal, CondMark, At
  <1>8. CondBroadcast(t) => Acts(t) BY <1>6, Sets DEF CondBroadcast, CondMark, At
  <1>9. CondSignalled(t) => Acts(t) BY Answers DEF CondSignalled
  <1> QED BY <1>1, <1>2, <1>3, <1>4, <1>5, <1>7, <1>8, <1>9

\* A notification moves who sleeps on its entry, nobody else.
LEMMA NotifyActs ==
  ASSUME ThreadsOK, NEW x, CondNotify(x)
  PROVE  DOMAIN th' = Threads /\ \A u \in Threads : Moved(u)
  BY DEF ThreadsOK, CondNotify, At, Moved

\* A read-write lock's.
LEMMA RwActs ==
  ASSUME TypeOK, \A o \in Objects : QueueInv(o), NEW t \in Threads, RwStep(t)
  PROVE  Acts(t)
  <1>0. ThreadsOK /\ ThreadOK(th[t]) BY DEF TypeOK, ThreadsOK
  <1>1. ASSUME th[t].at \in RwSteps, NEW s \in RwSteps PROVE ThreadOK([th[t] EXCEPT !.at = s])
    BY <1>0, <1>1 DEF ThreadOK, StepOK, OnceIs, LockOK, UnlockOK, Fields, RwSteps, LockSteps,
                      UnlockSteps, CondSteps, MarkSteps, LoopSteps, AskSteps, LeaveSteps, SemSteps,
                      OnceSteps, WordSteps, FutexSteps
  <1> USE DEF RwSteps, AskSteps, LeaveSteps
  <1>2. CASE ReadWriters(t)
    <2> DEFINE r == [[th[t] EXCEPT !.at = "rd_state"] EXCEPT !.blocked = writers[th[t].obj] > 0]
    <2>1. ThreadOK(r) BY <1>0, <1>2 DEF ReadWriters, ThreadOK, StepOK, OnceIs, Fields, RwSteps,
                                        LockSteps, UnlockSteps, CondSteps, MarkSteps, LoopSteps,
                                        AskSteps, LeaveSteps, SemSteps, OnceSteps, WordSteps, FutexSteps
    <2>2. th' = [th EXCEPT ![t] = r] BY <1>2 DEF ReadWriters
    <2> QED BY <1>0, <2>1, <2>2, Sets
  <1>3. CASE ReadState(t)
    <2>1. PICK s \in {"rd_acquire", "rd_wait"} :
             th' = [th EXCEPT ![t] = [[th[t] EXCEPT !.saw = word[th[t].obj]] EXCEPT !.at = s]]
      BY <1>3 DEF ReadState
    <2>2. ThreadOK([[th[t] EXCEPT !.saw = word[th[t].obj]] EXCEPT !.at = s])
      BY <1>0, <1>3 DEF ReadState, ThreadOK, StepOK, OnceIs, Fields, RwSteps, LockSteps, UnlockSteps,
                        CondSteps, MarkSteps, LoopSteps, AskSteps, LeaveSteps, SemSteps, OnceSteps,
                        WordSteps, FutexSteps
    <2> QED BY <1>0, <2>1, <2>2, Sets
  <1>4. CASE ReaderAcquire(t) BY <1>0, <1>1, <1>4, Sets, Answers DEF ReaderAcquire, At
  <1>5. CASE ReaderWait(t)
    <2>1. ThreadOK([th[t] EXCEPT !.at = "futex", !.saw = th[t].saw, !.then = "rdlock"])
      BY <1>0, <1>5 DEF ReaderWait, ThreadOK, StepOK, OnceIs, LockOK, UnlockOK, Fields, RwSteps,
                        LockSteps, UnlockSteps, CondSteps, MarkSteps, LoopSteps, AskSteps, LeaveSteps,
                        SemSteps, OnceSteps, WordSteps, FutexSteps
    <2> QED BY <1>0, <1>5, <2>1, Sets DEF ReaderWait, Wait
  <1>6. CASE WriterRegister(t) BY <1>0, <1>1, <1>6, Sets DEF WriterRegister, At
  <1>7. CASE WriterState(t)
    <2>1. PICK s \in {"wr_cas", "wr_wait"} :
             th' = [th EXCEPT ![t] = [[th[t] EXCEPT !.saw = word[th[t].obj]] EXCEPT !.at = s]]
      BY <1>7 DEF WriterState
    <2>2. ThreadOK([[th[t] EXCEPT !.saw = word[th[t].obj]] EXCEPT !.at = s])
      BY <1>0, <1>7 DEF WriterState, ThreadOK, StepOK, OnceIs, Fields, RwSteps, LockSteps, UnlockSteps,
                        CondSteps, MarkSteps, LoopSteps, AskSteps, LeaveSteps, SemSteps, OnceSteps,
                        WordSteps, FutexSteps
    <2> QED BY <1>0, <2>1, <2>2, Sets
  <1>8. CASE WriterCas(t) BY <1>0, <1>1, <1>8, Sets DEF WriterCas, At
  <1>9. CASE WriterWait(t)
    <2>1. ThreadOK([th[t] EXCEPT !.at = "futex", !.saw = th[t].saw, !.then = "wr_state"])
      BY <1>0, <1>9 DEF WriterWait, ThreadOK, StepOK, OnceIs, LockOK, UnlockOK, Fields, RwSteps,
                        LockSteps, UnlockSteps, CondSteps, MarkSteps, LoopSteps, AskSteps, LeaveSteps,
                        SemSteps, OnceSteps, WordSteps, FutexSteps
    <2> QED BY <1>0, <1>9, <2>1, Sets DEF WriterWait, Wait
  <1>10. CASE WriterLeave(t) BY <1>0, <1>10, Answers DEF WriterLeave
  <1>11. CASE RwUnlock(t) BY <1>0, <1>1, <1>11, Sets, Answers DEF RwUnlock, At
  <1>12. CASE RwWake(t)
    <2>1. th[t].obj \in Objects
      BY <1>0, <1>12, RwAssumption DEF RwWake, ThreadOK, StepOK, OnceIs, LockOK, UnlockOK, RwSteps,
                                       LockSteps, UnlockSteps, CondSteps, MarkSteps, LoopSteps,
                                       AskSteps, LeaveSteps, SemSteps, OnceSteps, WordSteps, FutexSteps
    <2>2. ThreadOK(Back(th[t], "0")) BY <1>0, <1>12, BackOK DEF RwWake
    <2> QED BY <1>12, <2>1, <2>2, Wakes DEF RwWake
  <1> QED BY <1>2, <1>3, <1>4, <1>5, <1>6, <1>7, <1>8, <1>9, <1>10, <1>11, <1>12 DEF RwStep

\* A semaphore's.
LEMMA SemActs ==
  ASSUME TypeOK, \A o \in Objects : QueueInv(o), NEW t \in Threads, SemStep(t)
  PROVE  Acts(t)
  <1>0. ThreadsOK /\ ThreadOK(th[t]) BY DEF TypeOK, ThreadsOK
  <1>1. ASSUME th[t].at \in SemSteps, NEW s \in SemSteps PROVE ThreadOK([th[t] EXCEPT !.at = s])
    BY <1>0, <1>1 DEF ThreadOK, StepOK, OnceIs, LockOK, UnlockOK, Fields, RwSteps, LockSteps,
                      UnlockSteps, CondSteps, MarkSteps, LoopSteps, AskSteps, LeaveSteps, SemSteps,
                      OnceSteps, WordSteps, FutexSteps
  <1>2. th[t].at \in SemSteps => ThreadOK(Back(th[t], "0")) BY <1>0, BackOK
  <1> USE DEF SemSteps
  <1>3. CASE SemRead(t)
    <2> DEFINE w == word[th[t].obj]
               s == CASE Value(w) > 0 -> "sem_take"
                      [] Value(w) = 0 /\ ~Flagged(w) -> "sem_flag"
                      [] OTHER -> "sem_ready"
               r == [[th[t] EXCEPT !.saw = w] EXCEPT !.at = s]
    <2>1. ThreadOK(r) BY <1>0, <1>3 DEF SemRead, ThreadOK, StepOK, OnceIs, LockOK, UnlockOK, Fields,
                                        RwSteps, LockSteps, UnlockSteps, CondSteps, MarkSteps,
                                        LoopSteps, AskSteps, LeaveSteps, SemSteps, OnceSteps,
                                        WordSteps, FutexSteps
    <2>2. th' = [th EXCEPT ![t] = r]
      <3> HIDE DEF s
      <3>1. th' = [th EXCEPT ![t].saw = w, ![t].at = s] BY <1>3 DEF SemRead, s
      <3> QED BY <1>0, <3>1 DEF ThreadsOK
    <2> QED BY <1>0, <2>1, <2>2, Sets
  <1>4. CASE SemTake(t) BY <1>0, <1>1, <1>2, <1>4, Sets DEF SemTake, Cas, Step
  <1>5. CASE SemFlag(t)
    <2> DEFINE r == [th[t] EXCEPT !.at = "sem_ready", !.saw = WithFlag(@)]
    <2>1. ThreadOK(r)
      BY <1>0, <1>5 DEF SemFlag, ThreadOK, StepOK, OnceIs, LockOK, UnlockOK, Fields, RwSteps,
                        LockSteps, UnlockSteps, CondSteps, MarkSteps, LoopSteps, AskSteps, LeaveSteps,
                        SemSteps, OnceSteps, WordSteps, FutexSteps
    <2>2. th' = [th EXCEPT ![t] = r] BY <1>5 DEF SemFlag, Cas
    <2> QED BY <1>0, <2>1, <2>2, Sets
  <1>6. CASE SemReady(t)
    <2>1. ThreadOK([th[t] EXCEPT !.at = "futex", !.saw = th[t].saw, !.then = "semwait"])
      BY <1>0, <1>6 DEF SemReady, ThreadOK, StepOK, OnceIs, Fields, RwSteps, LockSteps, UnlockSteps,
                        CondSteps, MarkSteps, LoopSteps, AskSteps, LeaveSteps, SemSteps, OnceSteps,
                        WordSteps, FutexSteps
    <2> QED BY <1>0, <1>6, <2>1, Sets, Answers DEF SemReady, Wait
  <1>7. CASE PostRead(t)
    <2> DEFINE r == [[th[t] EXCEPT !.saw = word[th[t].obj]] EXCEPT !.at = "post_cas"]
    <2>1. ThreadOK(r) BY <1>0, <1>7 DEF PostRead, ThreadOK, StepOK, OnceIs, Fields, RwSteps, LockSteps,
                                        UnlockSteps, CondSteps, MarkSteps, LoopSteps, AskSteps,
                                        LeaveSteps, SemSteps, OnceSteps, WordSteps, FutexSteps
    <2>2. Answer(t, "EINVAL") \/ th' = [th EXCEPT ![t] = r] BY <1>7 DEF PostRead
    <2> QED BY <1>0, <1>7, <2>1, <2>2, Sets, Answers DEF PostRead
  <1>8. CASE PostCas(t) BY <1>0, <1>1, <1>2, <1>8, Sets DEF PostCas, Cas, Step
  <1>9. CASE PostWake(t)
    <2>1. th[t].obj \in Objects
      BY <1>0, <1>9, SemAssumption DEF PostWake, ThreadOK, StepOK, OnceIs, LockOK, UnlockOK, RwSteps,
                                       LockSteps, UnlockSteps, CondSteps, MarkSteps, LoopSteps,
                                       AskSteps, LeaveSteps, SemSteps, OnceSteps, WordSteps, FutexSteps
    <2> DEFINE r == IF queue[th[t].obj] = <<>> THEN Step(t, "post_clear") ELSE Back(th[t], "0")
    <2>2. ThreadOK(r) BY <1>1, <1>2, <1>9 DEF PostWake, Step
    <2>3. WakeAnd(th[t].obj, 1, t, r) /\ th[t].at = "post_wake" BY <1>9 DEF PostWake
    <2> QED BY <2>1, <2>2, <2>3, Wakes
  <1>10. CASE PostClear(t) BY <1>0, <1>10, Answers DEF PostClear
  <1> QED BY <1>3, <1>4, <1>5, <1>6, <1>7, <1>8, <1>9, <1>10 DEF SemStep

\* A routine's.
LEMMA OnceActs ==
  ASSUME TypeOK, \A o \in Objects : QueueInv(o), NEW t \in Threads, OnceStep(t)
  PROVE  Acts(t)
  <1>0. ThreadsOK /\ ThreadOK(th[t]) BY DEF TypeOK, ThreadsOK
  <1>1. ASSUME th[t].at \in OnceSteps, NEW s \in OnceSteps \cup {"stopped"}
        PROVE  ThreadOK([th[t] EXCEPT !.at = s])
    BY <1>0, <1>1 DEF ThreadOK, StepOK, OnceIs, LockOK, UnlockOK, Fields, RwSteps, LockSteps,
                      UnlockSteps, CondSteps, MarkSteps, LoopSteps, AskSteps, LeaveSteps, SemSteps,
                      OnceSteps, WordSteps, FutexSteps
  <1> USE DEF OnceSteps
  <1>2. CASE OnceRead(t) BY <1>0, <1>1, <1>2, Sets, Answers DEF OnceRead, At
  <1>3. CASE OnceCas(t) BY <1>0, <1>1, <1>3, Sets DEF OnceCas, At
  <1>4. CASE OnceRun(t)
    <2>1. PICK a : th' = [th EXCEPT ![t] = [[th[t] EXCEPT !.at = "once_done"] EXCEPT !.answer = a]]
      BY <1>4 DEF OnceRun
    <2>2. ThreadOK([[th[t] EXCEPT !.at = "once_done"] EXCEPT !.answer = a])
      BY <1>0, <1>4 DEF OnceRun, ThreadOK, StepOK, OnceIs, Fields, RwSteps, LockSteps, UnlockSteps,
                        CondSteps, MarkSteps, LoopSteps, AskSteps, LeaveSteps, SemSteps, OnceSteps,
                        WordSteps, FutexSteps
    <2> QED BY <1>0, <2>1, <2>2, Sets
  <1>5. CASE OnceDone(t) BY <1>0, <1>1, <1>5, Sets DEF OnceDone, At
  <1>6. CASE OnceWake(t)
    <2> DEFINE r == IF th[t].answer = "failed" THEN [th[t] EXCEPT !.at = "stopped"] ELSE Back(th[t], "0")
    <2>1. th[t].obj \in Objects
      BY <1>0, <1>6, OnceAssumption DEF OnceWake, ThreadOK, StepOK, OnceIs, LockOK, UnlockOK, RwSteps,
                                        LockSteps, UnlockSteps, CondSteps, MarkSteps, LoopSteps,
                                        AskSteps, LeaveSteps, SemSteps, OnceSteps, WordSteps, FutexSteps
    <2>2. ThreadOK(r) BY <1>0, <1>1, <1>6, BackOK DEF OnceWake
    <2>3. WakeAnd(th[t].obj, Everyone, t, r) /\ th[t].at = "once_wake" BY <1>6 DEF OnceWake
    <2> QED BY <2>1, <2>2, <2>3, Wakes
  <1>7. CASE OnceWait(t)
    <2>1. ThreadOK([th[t] EXCEPT !.at = "futex", !.saw = IN_PROGRESS, !.then = "once_woke"])
      BY <1>0, <1>7 DEF OnceWait, ThreadOK, StepOK, OnceIs, Fields, RwSteps, LockSteps, UnlockSteps,
                        CondSteps, MarkSteps, LoopSteps, AskSteps, LeaveSteps, SemSteps, OnceSteps,
                        WordSteps, FutexSteps
    <2> QED BY <1>0, <1>7, <2>1, Sets DEF OnceWait, Wait
  <1>8. CASE OnceWoke(t) BY <1>0, <1>1, <1>8, Sets, Answers DEF OnceWoke, At
  <1> QED BY <1>2, <1>3, <1>4, <1>5, <1>6, <1>7, <1>8 DEF OnceStep

\* A wait's.
LEMMA FutexActs ==
  ASSUME ThreadsOK, NEW t \in Threads
  PROVE  /\ FutexEnter(t) => Acts(t)
         /\ FutexPark(t) => Acts(t)
         /\ FutexTimeout(t) => Acts(t)
  <1>0. ThreadOK(th[t]) BY DEF ThreadsOK
  <1>1. ASSUME th[t].at \in FutexSteps, NEW result PROVE ThreadOK(Woke(th[t], result))
    BY <1>0, <1>1, WokeOK
  <1>2. ASSUME th[t].at \in FutexSteps, NEW s \in FutexSteps PROVE ThreadOK([th[t] EXCEPT !.at = s])
    BY <1>0, <1>2 DEF ThreadOK, StepOK, OnceIs, LockOK, UnlockOK, Fields, RwSteps, LockSteps,
                      UnlockSteps, CondSteps, MarkSteps, LoopSteps, AskSteps, LeaveSteps, SemSteps,
                      OnceSteps, WordSteps, FutexSteps
  <1> USE DEF FutexSteps
  <1>3. FutexEnter(t) => Acts(t)
    <2>1. FutexEnter(t) => \/ th' = [th EXCEPT ![t] = Woke(th[t], "WouldBlock")]
                           \/ th' = [th EXCEPT ![t] = [th[t] EXCEPT !.at = "park"]]
      BY DEF FutexEnter
    <2> QED BY <1>1, <1>2, <2>1, Sets DEF FutexEnter
  <1>4. FutexPark(t) => Acts(t)
    <2>1. FutexPark(t) => \/ th' = [th EXCEPT ![t] = Woke(th[t], "WouldBlock")]
                          \/ th' = [th EXCEPT ![t] = [th[t] EXCEPT !.at = "asleep"]]
      BY DEF FutexPark, At
    <2> QED BY <1>1, <1>2, <2>1, Sets DEF FutexPark
  <1>5. FutexTimeout(t) => Acts(t)
    <2>1. FutexTimeout(t) => th' = [th EXCEPT ![t] = Woke(th[t], "TimedOut")]
      BY DEF FutexTimeout
    <2> QED BY <1>1, <2>1, Sets DEF FutexTimeout
  <1> QED BY <1>3, <1>4, <1>5

\* A program's call is one of an object of its kind (Call).
LEMMA CallOK ==
  ASSUME TypeOK, NEW t \in Threads, th[t].at = "idle", Rest(t) > 0
  PROVE  scenario.calls[t][th[t].pc + 1] \in Call
  <1>1. ThreadOK(th[t]) BY DEF TypeOK, ThreadsOK
  <1>2. scenario.calls[t] \in Seq(Call) BY ScenariosAssumption DEF TypeOK
  <1>3. th[t].pc + 1 \in 1 .. Len(scenario.calls[t])
    <2>1. th[t].pc \in Nat BY <1>1 DEF ThreadOK
    <2>2. Len(scenario.calls[t]) \in Nat BY <1>2
    <2> QED BY <2>1, <2>2 DEF Rest
  <1> QED BY <1>2, <1>3

\* A call begun is at the first step of its kind.
LEMMA StartedOK ==
  ASSUME NEW r, ThreadOK(r), r.at = "idle", NEW call \in Call
  PROVE  ThreadOK(Started(r, call))
  <1> DEFINE q == Started(r, call)
  <1>1. /\ q.at = First(call.op) /\ q.back = Last(call.op) /\ q.obj = call.obj
        /\ q.timed = (call.op = "timedlock") /\ q.ret = "await_woke"
        /\ q.then = "idle"
        /\ Fields \subseteq DOMAIN q /\ q.pc \in Nat
    BY DEF ThreadOK, Fields, Started, FutexSteps
  <1> HIDE DEF q
  <1>2. \/ call.obj \in Mutexes /\ call.op \in {"lock", "timedlock", "trylock", "unlock", "await", "set"}
        \/ call.obj \in RwLocks /\ call.op \in {"rdlock", "wrlock", "rwunlock"}
        \/ call.obj \in Sems /\ call.op \in {"semwait", "sempost"}
        \/ call.obj \in Onces /\ call.op = "once"
        \/ call.obj \in Words /\ call.op \in {"futexwait", "store"}
    BY DEF Call, On
  <1>3. StepOK(q)
    BY <1>1, <1>2 DEF First, Last, StepOK, OnceIs, LockOK, UnlockOK, RwSteps, LockSteps, UnlockSteps,
                      CondSteps, MarkSteps, LoopSteps, AskSteps, LeaveSteps, SemSteps, OnceSteps,
                      WordSteps, FutexSteps
  <1> QED BY <1>1, <1>3 DEF ThreadOK, q

\* The begin of a call.
LEMMA BeginActs ==
  ASSUME TypeOK, NEW t \in Threads, Begin(t)
  PROVE  Acts(t)
  <1>0. ThreadsOK /\ ThreadOK(th[t]) BY DEF TypeOK, ThreadsOK
  <1> DEFINE call == scenario.calls[t][th[t].pc + 1]
             next == [th[t] EXCEPT !.pc = @ + 1]
  <1>1. call \in Call BY CallOK DEF Begin
  <1>2. ThreadOK(next) /\ next.at = "idle" BY <1>0 DEF Begin, ThreadOK, StepOK, Fields, FutexSteps
  <1>3. th' = [th EXCEPT ![t] = IF Held(t, call) THEN Started(next, call) ELSE next]
    BY DEF Begin
  <1> HIDE DEF next, call
  <1>4. ThreadOK(Started(next, call)) BY <1>1, <1>2, StartedOK
  <1>5. CASE Held(t, call)
    <2>1. th' = [th EXCEPT ![t] = Started(next, call)] BY <1>3, <1>5
    <2> QED BY <1>0, <1>4, <2>1, Sets
  <1>6. CASE ~Held(t, call)
    <2>1. th' = [th EXCEPT ![t] = next] BY <1>3, <1>6
    <2> QED BY <1>0, <1>2, <2>1, Sets
  <1> QED BY <1>5, <1>6

\* The guest's own steps.
LEMMA GuestActs ==
  ASSUME TypeOK, \A o \in Objects : QueueInv(o), NEW t \in Threads
  PROVE  /\ Begin(t) => Acts(t)
         /\ Await(t) => Acts(t)
         /\ Put(t) => Acts(t)
         /\ PutDone(t) => Acts(t)
         /\ Store(t) => Acts(t)
         /\ StoreWake(t) => Acts(t)
         /\ GuestHalt(t) => Acts(t)
  <1>0. ThreadsOK /\ ThreadOK(th[t]) BY DEF TypeOK, ThreadsOK
  <1> USE DEF ThreadOK, StepOK, OnceIs, LockOK, UnlockOK, Fields, RwSteps, LockSteps, UnlockSteps,
              CondSteps, MarkSteps, LoopSteps, AskSteps, LeaveSteps, SemSteps, OnceSteps, WordSteps,
              FutexSteps
  <1>1. ASSUME th[t].at \in LoopSteps
        PROVE  /\ ThreadOK([[th[t] EXCEPT !.at = "unlock"] EXCEPT !.back = "idle"])
               /\ ThreadOK([th[t] EXCEPT !.at = "unlock", !.back = "idle"])
               /\ \A b : ThreadOK([th[t] EXCEPT !.at = "wait", !.timed = b])
               /\ ThreadOK([[th[t] EXCEPT !.at = "signal"] EXCEPT !.back = "set_done"])
               /\ ThreadOK([[th[t] EXCEPT !.at = "broadcast"] EXCEPT !.back = "set_done"])
    BY <1>0, <1>1
  <1>2. Await(t) => Acts(t)
    <2>1. Await(t) => \/ th' = [th EXCEPT ![t] = [[th[t] EXCEPT !.at = "unlock"] EXCEPT !.back = "idle"]]
                      \/ th' = [th EXCEPT ![t] = [th[t] EXCEPT !.at = "unlock", !.back = "idle"]]
                      \/ th' = [th EXCEPT ![t] = [th[t] EXCEPT !.at = "wait", !.timed = Now(t).timed]]
      BY DEF Await
    <2>2. Await(t) => th[t].at \in LoopSteps BY DEF Await
    <2> HIDE DEF ThreadOK, LoopSteps
    <2> QED BY <1>0, <1>1, <2>1, <2>2, Sets
  <1>3. Put(t) => Acts(t)
    <2>1. Put(t) => \E s \in {"signal", "broadcast"} :
             th' = [th EXCEPT ![t] = [[th[t] EXCEPT !.at = s] EXCEPT !.back = "set_done"]]
      BY DEF Put
    <2>2. Put(t) => th[t].at \in LoopSteps BY DEF Put
    <2> HIDE DEF ThreadOK, LoopSteps
    <2> QED BY <1>0, <1>1, <2>1, <2>2, Sets
  <1>4. PutDone(t) => Acts(t)
    <2>1. PutDone(t) => th' = [th EXCEPT ![t] = [[th[t] EXCEPT !.at = "unlock"] EXCEPT !.back = "idle"]]
      BY DEF PutDone
    <2>2. PutDone(t) => th[t].at \in LoopSteps BY DEF PutDone
    <2> HIDE DEF ThreadOK, LoopSteps
    <2> QED BY <1>0, <1>1, <2>1, <2>2, Sets
  <1>5. Store(t) => Acts(t)
    <2>1. Store(t) => ThreadOK([th[t] EXCEPT !.at = "store_wake"]) BY <1>0 DEF Store
    <2> HIDE DEF ThreadOK
    <2> QED BY <1>0, <2>1, Sets DEF Store, At
  <1>6. StoreWake(t) => Acts(t)
    <2>1. StoreWake(t) => th[t].obj \in Objects BY <1>0 DEF StoreWake, Words
    <2>2. StoreWake(t) => ThreadOK(Back(th[t], "0"))
      <3> HIDE DEF ThreadOK
      <3> QED BY <1>0, BackOK DEF StoreWake
    <2> HIDE DEF ThreadOK
    <2> QED BY <2>1, <2>2, Wakes DEF StoreWake
  <1>7. GuestHalt(t) => Acts(t)
    <2>1. GuestHalt(t) => ThreadOK([th[t] EXCEPT !.at = "stopped"])
      BY <1>0 DEF GuestHalt, GuestSteps
    <2> HIDE DEF ThreadOK
    <2> QED BY <1>0, <2>1, Sets DEF GuestHalt, At
  <1> HIDE DEF ThreadOK
  <1> QED BY <1>2, <1>3, <1>4, <1>5, <1>6, <1>7, BeginActs

\* The stop's wake of a queue.
LEMMA StopMoves ==
  ASSUME TypeOK, NEW o \in Objects, QueueInv(o), StopWake(o)
  PROVE  DOMAIN th' = Threads /\ \A u \in Threads : Moved(u)
  <1>1. DOMAIN th' = Threads BY DEF StopWake
  <1> QED BY <1>1, TakenAsleep DEF StopWake, Moved

\* No step moves a thread but its own and what wakes it.
LEMMA StepActs ==
  ASSUME TypeOK, \A o \in Objects : QueueInv(o), NEW t \in Threads, Thread(t)
  PROVE  Acts(t)
  <1>0. ThreadsOK BY DEF TypeOK
  <1>1. CASE CondStep(t)
    <2>1. CondNotify(t) => Acts(t) BY <1>0, NotifyActs, MovedOK DEF Acts
    <2> QED BY <1>0, <1>1, <2>1, CondActs DEF CondStep
  <1>2. CASE MutexStep(t)
    BY <1>0, <1>2, LockActs, ContendActs, UnlockActs DEF MutexStep
  <1>3. CASE FutexEnter(t) \/ FutexPark(t) \/ FutexTimeout(t)
    BY <1>0, <1>3, FutexActs
  <1> QED BY <1>1, <1>2, <1>3, RwActs, SemActs, OnceActs, GuestActs DEF Thread

-----------------------------------------------------------------------------
(* Mutexes.                                                                *)

\* A thread's step that leaves m's word, owner and holders as they are, comes to a
\* step of m's holder only as the holder.
Keeps(u, m) ==
  /\ th'[u].obj = m /\ th'[u].at \in {"own", "clear", "publish"} => Turning(u, m)
  /\ th'[u].obj = m /\ th'[u].at \in HoldSteps => holds[u][m] > 0
  /\ th[u].obj = m /\ th[u].at = "clear" => th'[u].obj = m /\ th'[u].at = "clear"

\* A mutex whose tables a step leaves keeps its invariant, if no thread comes to a
\* holder's step of it; the mark of waiters is no change of who holds it.
LEMMA MutexFrame ==
  ASSUME NEW m \in Mutexes, MutexInv(m), owners'[m] = owners[m],
         word'[m] = word[m] \/ (~IsRecursive(m) /\ word'[m] # Unlocked),
         \A u \in Threads : holds'[u][m] = holds[u][m] /\ Keeps(u, m)
  PROVE  MutexInv(m)'
  BY DEF MutexInv, HolderOK, HasWord, Turning, Keeps

\* A thread that is only woken comes to none.
LEMMA MovedKeeps ==
  ASSUME ThreadsOK, NEW u \in Threads, Moved(u), NEW m \in Mutexes, MutexInv(m)
  PROVE  Keeps(u, m)
  <1>1. ThreadOK(th[u]) BY DEF ThreadsOK
  <1>2. CASE th'[u] = th[u] BY <1>2 DEF Keeps, MutexInv, HolderOK, Turning
  <1>3. CASE th[u].at = "asleep" /\ th'[u] = Woke(th[u], "Woken")
    <2>1. th'[u].at = th[u].then BY <1>1, <1>3 DEF Woke, ThreadOK, Fields
    <2>2. th'[u].at \notin {"own", "clear", "publish"} \cup HoldSteps
      BY <1>1, <1>3, <2>1 DEF ThreadOK, StepOK, HoldSteps, RwSteps, LockSteps, UnlockSteps, CondSteps,
                              MarkSteps, LoopSteps, AskSteps, LeaveSteps, SemSteps, OnceSteps,
                              WordSteps, FutexSteps
    <2> QED BY <1>3, <2>2 DEF Keeps
  <1>4. CASE th[u].at = "cond_asleep" /\ th'[u] = [th[u] EXCEPT !.at = "cond_loop"]
    <2>1. th'[u].at = "cond_loop" BY <1>1, <1>4 DEF ThreadOK, Fields
    <2> QED BY <1>4, <2>1 DEF Keeps, HoldSteps, MarkSteps, LoopSteps
  <1> QED BY <1>2, <1>3, <1>4 DEF Moved

\* A step that leaves mutexes alone and t where it does not have one.
LEMMA MutexElsewhere ==
  ASSUME ThreadsOK, NEW t \in Threads, Acts(t), NEW m \in Mutexes, MutexInv(m),
         word'[m] = word[m] \/ (~IsRecursive(m) /\ word'[m] # Unlocked),
         owners'[m] = owners[m], \A u \in Threads : holds'[u][m] = holds[u][m], Keeps(t, m)
  PROVE  MutexInv(m)'
  <1>1. ASSUME NEW u \in Threads PROVE Keeps(u, m)
    BY MovedKeeps DEF Acts
  <1> QED BY <1>1, MutexFrame

\* A thread at a step of none of m's calls.
LEMMA NotAt ==
  ASSUME NEW t, NEW m \in Mutexes,
         th[t].at # "clear", th'[t].at \notin {"own", "clear", "publish"} \cup HoldSteps
  PROVE  Keeps(t, m)
  BY DEF Keeps

\* A thread whose call is on another object.
LEMMA Turnless ==
  ASSUME NEW t, NEW m \in Mutexes, MutexInv(m), t \in Threads,
         th[t].obj # m, th'[t].obj = th[t].obj
  PROVE  Keeps(t, m)
  BY DEF Keeps

\* The fields a step leaves.
LEMMA AtFields ==
  ASSUME ThreadsOK, NEW t \in Threads
  PROVE  /\ \A s : At(t, s) => th'[t].at = s /\ th'[t].obj = th[t].obj
         /\ \A c : Answer(t, c) => th'[t].at = th[t].back /\ th'[t].obj = th[t].obj
         /\ \A w, s : Wait(t, w, s) => th'[t].at = "futex" /\ th'[t].obj = th[t].obj
  <1>1. ThreadOK(th[t]) BY DEF ThreadsOK
  <1> QED BY <1>1 DEF ThreadsOK, ThreadOK, Fields, At, Answer, Back, Wait

\* Of all mutexes, a step changes the one its thread works on.
OnlyItsOwn(t) ==
  /\ th'[t].obj = th[t].obj
  /\ \A o \in Objects \ {th[t].obj} : word'[o] = word[o]
  /\ \A m \in Mutexes \ {th[t].obj} :
       owners'[m] = owners[m] /\ \A u \in Threads : holds'[u][m] = holds[u][m]

\* So that one is all there is to look at.
LEMMA OnItsOwn ==
  ASSUME TypeOK, NEW t \in Threads, Acts(t), OnlyItsOwn(t), NEW m, m = th[t].obj,
         \A k \in Mutexes : MutexInv(k), MutexInv(m)'
  PROVE  \A k \in Mutexes : MutexInv(k)'
  <1> SUFFICES ASSUME NEW k \in Mutexes \ {m} PROVE MutexInv(k)'
    OBVIOUS
  <1>1. Keeps(t, k) BY Turnless DEF OnlyItsOwn
  <1>2. /\ word'[k] = word[k] /\ owners'[k] = owners[k]
        /\ \A u \in Threads : holds'[u][k] = holds[u][k]
    BY MutexAssumption DEF OnlyItsOwn
  <1> QED BY <1>1, <1>2, MutexElsewhere DEF TypeOK

\* What is known of t and the mutex m of its call, at a step of a lock or an unlock.
AtMutex(t, m) ==
  /\ m \in Mutexes /\ m \in Objects /\ m = th[t].obj
  /\ MutexInv(m) /\ HolderOK(t, m)
  /\ word[m] \in Int /\ \A u \in Threads : holds[u][m] \in Int
  /\ owners[m] \in Threads \cup {NoThread}
  /\ th[t].at \in LockSteps =>
       /\ th[t].back \in {"idle", "await_locked", "set_locked", "cond_return"}
       /\ th[t].at \in {"trylock", "trylock_cas", "last_cas"} => th[t].back = "idle"
       /\ th[t].timed => th[t].back = "idle"
       /\ th[t].at = "mark" => ~IsRecursive(m)
  /\ th[t].at \in UnlockSteps => th[t].back \in {"idle", "cond_loop"}

Tables ==
  /\ ThreadsOK
  /\ DOMAIN word = Objects /\ DOMAIN owners = Mutexes
  /\ DOMAIN holds = Threads /\ \A u \in Threads : DOMAIN holds[u] = Mutexes

\* The tables are what they are said to be.
LEMMA IsTables == ASSUME TypeOK PROVE Tables
  BY DEF TypeOK, Tables

\* A thread in a lock or an unlock is on a mutex.
LEMMA IsAtMutex ==
  ASSUME TypeOK, \A m \in Mutexes : MutexInv(m), NEW t \in Threads,
         th[t].at \in LockSteps \cup UnlockSteps
  PROVE  AtMutex(t, th[t].obj)
  <1>1. ThreadOK(th[t]) BY DEF TypeOK, ThreadsOK
  <1>2. th[t].obj \in Mutexes BY <1>1 DEF ThreadOK, StepOK, OnceIs, LockOK, UnlockOK, RwSteps,
                                          LockSteps, UnlockSteps, CondSteps, MarkSteps, LoopSteps,
                                          AskSteps, LeaveSteps, SemSteps, OnceSteps, WordSteps,
                                          FutexSteps
  <1>3. /\ th[t].at \in LockSteps =>
              /\ th[t].back \in {"idle", "await_locked", "set_locked", "cond_return"}
              /\ th[t].at \in {"trylock", "trylock_cas", "last_cas"} => th[t].back = "idle"
              /\ th[t].timed => th[t].back = "idle"
              /\ th[t].at = "mark" => ~IsRecursive(th[t].obj)
        /\ th[t].at \in UnlockSteps => th[t].back \in {"idle", "cond_loop"}
    BY <1>1 DEF ThreadOK, StepOK, OnceIs, LockOK, UnlockOK, RwSteps, LockSteps, UnlockSteps, CondSteps,
                MarkSteps, LoopSteps, AskSteps, LeaveSteps, SemSteps, OnceSteps, WordSteps, FutexSteps
  <1> QED BY <1>2, <1>3, MutexAssumption DEF TypeOK, MutexInv, AtMutex

\* The others do not have the word, before and after a step of one who has it, or takes it.
LEMMA OnlyOne ==
  ASSUME ThreadsOK, NEW t \in Threads, Acts(t), NEW m \in Mutexes, MutexInv(m),
         \A u \in Threads \ {t} : holds'[u][m] = holds[u][m] /\ ~HasWord(u, m),
         owners'[m] \in {t, NoThread},
         HolderOK(t, m)'
  PROVE  MutexInv(m)'
  <1>1. ASSUME NEW u \in Threads \ {t} PROVE HolderOK(u, m)' /\ ~HasWord(u, m)'
    <2>1. HolderOK(u, m) BY DEF MutexInv
    <2>2. Keeps(u, m) BY MovedKeeps DEF Acts
    <2>3. ~HasWord(u, m)' BY <2>1, <2>2 DEF HasWord, Keeps, Turning
    <2>4. owners'[m] # u BY MutexAssumption
    <2> QED BY <2>1, <2>2, <2>3, <2>4 DEF HolderOK, HasWord, Keeps, Turning
  <1> QED BY <1>1 DEF MutexInv

\* Nobody has a free word; who has one, has it alone.
LEMMA Nobody ==
  ASSUME NEW m \in Mutexes, MutexInv(m), word[m] = Unlocked,
         owners[m] \in Threads \cup {NoThread}
  PROVE  owners[m] = NoThread /\ \A u \in Threads : ~HasWord(u, m)
  BY DEF MutexInv, HolderOK, HasWord, Turning

\* ... and a held one is one thread's.
LEMMA Alone ==
  ASSUME NEW m \in Mutexes, MutexInv(m), NEW t \in Threads, HasWord(t, m),
         owners[m] \in Threads \cup {NoThread}
  PROVE  owners[m] \in {t, NoThread} /\ \A u \in Threads \ {t} : ~HasWord(u, m)
  BY DEF MutexInv, HolderOK, HasWord, Turning

\* The second lock of a recursive mutex, counted in the word and in the holds.
LEMMA LockAgainKeeps ==
  ASSUME Tables, NEW t \in Threads, Acts(t), LockAgain(t), NEW m, AtMutex(t, m)
  PROVE  OnlyItsOwn(t) /\ MutexInv(m)'
  <1>0. /\ ThreadsOK /\ m = th[t].obj /\ m \in Mutexes /\ m \in Objects
        /\ MutexInv(m) /\ HolderOK(t, m) /\ word[m] \in Int /\ holds[t][m] \in Int
        /\ th[t].back \in {"idle", "await_locked", "set_locked", "cond_return"}
        /\ IsRecursive(m) /\ owners[m] = t /\ th[t].at # "clear" /\ owners' = owners
    BY DEF Tables, AtMutex, LockSteps, LockAgain
  <1>1. th'[t].at = th[t].back /\ th'[t].obj = m BY <1>0, AtFields DEF LockAgain
  <1>2. OnlyItsOwn(t) BY <1>0, <1>1 DEF Tables, OnlyItsOwn, Take, LockAgain
  <1>3. holds[t][m] > 0 /\ word[m] = holds[t][m] /\ HasWord(t, m)
    BY <1>0 DEF HolderOK, HasWord
  <1>4. ASSUME word' = word, holds' = holds PROVE MutexInv(m)'
    <2>1. Keeps(t, m) BY <1>0, <1>1, <1>3 DEF Keeps
    <2> QED BY <1>0, <1>4, <2>1, MutexElsewhere
  <1>5. ASSUME word' = [word EXCEPT ![m] = @ + 1], Take(t, m) PROVE MutexInv(m)'
    <2>1. /\ word'[m] = word[m] + 1 /\ holds'[t][m] = holds[t][m] + 1
          /\ \A u \in Threads \ {t} : holds'[u][m] = holds[u][m]
      BY <1>0, <1>5 DEF Tables, Take
    <2>2. HolderOK(t, m)'
      BY <1>0, <1>1, <1>3, <2>1 DEF HolderOK, Turning, HasWord, Unlocked
    <2>3. \A u \in Threads \ {t} : ~HasWord(u, m) BY <1>0, <1>3 DEF MutexInv
    <2> QED BY <1>0, <2>1, <2>2, <2>3, OnlyOne
  <1> QED BY <1>0, <1>2, <1>4, <1>5 DEF LockAgain

\* The second lock of an error-checking one, refused.
LEMMA LockDeadlockKeeps ==
  ASSUME Tables, NEW t \in Threads, Acts(t), LockDeadlock(t), NEW m, AtMutex(t, m)
  PROVE  OnlyItsOwn(t) /\ MutexInv(m)'
  <1>0. /\ ThreadsOK /\ m = th[t].obj /\ m \in Mutexes /\ m \in Objects
        /\ MutexInv(m) /\ HolderOK(t, m) /\ word[m] \in Int /\ holds[t][m] \in Int
        /\ th[t].back \in {"idle", "await_locked", "set_locked", "cond_return"}
        /\ owners[m] = t /\ th[t].at # "clear"
        /\ owners' = owners /\ word' = word /\ holds' = holds
    BY DEF Tables, AtMutex, LockSteps, LockDeadlock, futexVars, mutexVars
  <1>1. th'[t].at = th[t].back /\ th'[t].obj = m BY <1>0, AtFields DEF LockDeadlock
  <1>2. holds[t][m] > 0 BY <1>0 DEF HolderOK
  <1>3. Keeps(t, m) BY <1>0, <1>1, <1>2 DEF Keeps
  <1>4. MutexInv(m)' BY <1>0, <1>3, MutexElsewhere
  <1> QED BY <1>0, <1>1, <1>4 DEF OnlyItsOwn

\* The look at the word.
LEMMA LockLookKeeps ==
  ASSUME Tables, NEW t \in Threads, Acts(t), LockLook(t), NEW m, AtMutex(t, m)
  PROVE  OnlyItsOwn(t) /\ MutexInv(m)'
  <1>0. /\ ThreadsOK /\ m = th[t].obj /\ m \in Mutexes /\ m \in Objects
        /\ MutexInv(m) /\ HolderOK(t, m) /\ word[m] \in Int /\ holds[t][m] \in Int
        /\ th[t].at \in {"lock", "trylock"} /\ (th[t].at = "trylock" => th[t].back = "idle")
        /\ owners' = owners /\ word' = word /\ holds' = holds
    BY DEF Tables, AtMutex, LockSteps, LockLook, futexVars, mutexVars
  <1>1. /\ th'[t].at \in {"lock_cas", "trylock_cas", "contend", "idle"}
        /\ th'[t].obj = m
    BY <1>0, AtFields DEF LockLook
  <1>2. Keeps(t, m) BY <1>0, <1>1 DEF Keeps, HoldSteps, MarkSteps, LoopSteps
  <1>3. MutexInv(m)' BY <1>0, <1>2, MutexElsewhere
  <1> QED BY <1>0, <1>1, <1>3 DEF OnlyItsOwn

\* The exchange: its winner is the only one that has the word.
LEMMA LockCasKeeps ==
  ASSUME Tables, NEW t \in Threads, Acts(t), LockCas(t), NEW m, AtMutex(t, m)
  PROVE  OnlyItsOwn(t) /\ MutexInv(m)'
  <1>0. /\ ThreadsOK /\ m = th[t].obj /\ m \in Mutexes /\ m \in Objects
        /\ MutexInv(m) /\ HolderOK(t, m) /\ word[m] \in Int /\ holds[t][m] \in Int
        /\ th[t].at \in {"lock_cas", "trylock_cas", "last_cas"}
        /\ th[t].at # "lock_cas" => th[t].back = "idle"
        /\ owners' = owners /\ holds' = holds /\ owners[m] \in Threads \cup {NoThread}
    BY DEF Tables, AtMutex, LockSteps, LockCas, mutexVars
  <1>1. ASSUME word[m] # Unlocked PROVE OnlyItsOwn(t) /\ MutexInv(m)'
    <2>1. word' = word /\ th'[t].at \in {"contend", "idle"} /\ th'[t].obj = m
      BY <1>0, <1>1, AtFields DEF LockCas
    <2>2. Keeps(t, m) BY <1>0, <2>1 DEF Keeps, HoldSteps, MarkSteps, LoopSteps
    <2>3. MutexInv(m)' BY <1>0, <2>1, <2>2, MutexElsewhere
    <2> QED BY <1>0, <2>1, <2>3 DEF OnlyItsOwn
  <1>2. ASSUME word[m] = Unlocked PROVE OnlyItsOwn(t) /\ MutexInv(m)'
    <2>1. word' = [word EXCEPT ![m] = Locked] /\ th'[t].at = "own" /\ th'[t].obj = m
      BY <1>0, <1>2, AtFields DEF LockCas
    <2>2. owners[m] = NoThread /\ \A u \in Threads : ~HasWord(u, m) BY <1>0, <1>2, Nobody
    <2>3. word'[m] = 1 BY <1>0, <2>1 DEF Tables, Locked
    <2>4. holds[t][m] = 0 BY <1>0, <2>2 DEF HolderOK, HasWord
    <2>5. HolderOK(t, m)'
      BY <1>0, <2>1, <2>2, <2>3, <2>4, MutexAssumption
      DEF HolderOK, Turning, HasWord, Unlocked, HoldSteps, MarkSteps, LoopSteps
    <2>6. MutexInv(m)' BY <1>0, <2>2, <2>5, OnlyOne
    <2> QED BY <1>0, <2>1, <2>6 DEF Tables, OnlyItsOwn
  <1> QED BY <1>1, <1>2

\* The winner in the owner table.
LEMMA LockOwnKeeps ==
  ASSUME Tables, NEW t \in Threads, Acts(t), LockOwn(t), NEW m, AtMutex(t, m)
  PROVE  OnlyItsOwn(t) /\ MutexInv(m)'
  <1>0. /\ ThreadsOK /\ m = th[t].obj /\ m \in Mutexes /\ m \in Objects
        /\ MutexInv(m) /\ HolderOK(t, m) /\ word[m] \in Int /\ holds[t][m] \in Int
        /\ th[t].back \in {"idle", "await_locked", "set_locked", "cond_return"}
        /\ th[t].at = "own" /\ owners[m] \in Threads \cup {NoThread}
        /\ owners' = [owners EXCEPT ![m] = t] /\ word' = word /\ Take(t, m)
    BY DEF Tables, AtMutex, LockSteps, LockOwn, futexVars
  <1>1. th'[t].at = th[t].back /\ th'[t].obj = m BY <1>0, AtFields DEF LockOwn
  <1>2. Turning(t, m) /\ HasWord(t, m) BY <1>0 DEF Turning, HasWord
  <1>3. holds[t][m] = 0 /\ word[m] # Unlocked /\ (IsRecursive(m) => word[m] = 1)
    BY <1>0, <1>2 DEF HolderOK
  <1>4. \A u \in Threads \ {t} : ~HasWord(u, m) BY <1>0, <1>2, Alone
  <1>5. /\ owners'[m] = t /\ holds'[t][m] = 1
        /\ \A u \in Threads \ {t} : holds'[u][m] = holds[u][m]
    BY <1>0, <1>3 DEF Tables, Take
  <1>6. HolderOK(t, m)' BY <1>0, <1>1, <1>3, <1>5 DEF HolderOK, Turning
  <1>7. MutexInv(m)' BY <1>0, <1>4, <1>5, <1>6, OnlyOne
  <1>8. OnlyItsOwn(t) BY <1>0, <1>1 DEF Tables, OnlyItsOwn, Take
  <1> QED BY <1>7, <1>8

\* The contention loop touches the mark, and nothing of the holder's.
LEMMA ContendKeeps ==
  ASSUME Tables, NEW t \in Threads, Acts(t), NEW m, AtMutex(t, m),
         Contend(t) \/ ContendMark(t) \/ ContendReady(t) \/ ContendWoke(t)
  PROVE  OnlyItsOwn(t) /\ MutexInv(m)'
  <1>0. /\ ThreadsOK /\ ThreadOK(th[t]) /\ m = th[t].obj /\ m \in Mutexes /\ m \in Objects
        /\ MutexInv(m) /\ th[t].at \in {"contend", "mark", "ready", "contend_woke"}
        /\ th[t].timed => th[t].back = "idle"
        /\ th[t].at = "mark" => ~IsRecursive(m)
        /\ owners' = owners /\ holds' = holds
    BY DEF Tables, ThreadsOK, AtMutex, LockSteps, Contend, ContendMark, ContendReady, ContendWoke,
           mutexVars
  <1>1. /\ word' = word \/ (th[t].at = "mark" /\ word' = [word EXCEPT ![m] = LockedWithWaiters])
    BY <1>0 DEF Contend, ContendMark, ContendReady, ContendWoke, futexVars
  <1>2. th'[t].obj = m
        /\ th'[t].at \in {"lock_cas", "mark", "ready", "contend", "futex", "stopped", "last_cas", "idle"}
    <2>1. CASE Contend(t) BY <1>0, <2>1 DEF Contend, ThreadsOK, ThreadOK, Fields
    <2>2. CASE ContendMark(t)
      BY <1>0, <2>2, AtFields DEF ContendMark, ThreadsOK, ThreadOK, Fields
    <2>3. CASE ContendReady(t) BY <1>0, <2>3, AtFields DEF ContendReady
    <2>4. CASE ContendWoke(t)
      BY <1>0, <2>4, AtFields DEF ContendWoke, ThreadsOK, ThreadOK, Fields
    <2> QED BY <2>1, <2>2, <2>3, <2>4
  <1>3. Keeps(t, m) BY <1>0, <1>2 DEF Keeps, HoldSteps, MarkSteps, LoopSteps
  <1>4. word'[m] = word[m] \/ (~IsRecursive(m) /\ word'[m] # Unlocked)
    BY <1>0, <1>1 DEF Tables, LockedWithWaiters, Unlocked
  <1>5. MutexInv(m)' BY <1>0, <1>3, <1>4, MutexElsewhere
  <1>6. OnlyItsOwn(t) BY <1>0, <1>1, <1>2 DEF Tables, OnlyItsOwn
  <1> QED BY <1>5, <1>6

\* The unlock: only the holder comes as far as the clearing of the table.
LEMMA UnlockKeeps ==
  ASSUME Tables, NEW t \in Threads, Acts(t), Unlock(t), NEW m, AtMutex(t, m)
  PROVE  OnlyItsOwn(t) /\ MutexInv(m)'
  <1>0. /\ ThreadsOK /\ m = th[t].obj /\ m \in Mutexes /\ m \in Objects
        /\ MutexInv(m) /\ HolderOK(t, m) /\ word[m] \in Int /\ holds[t][m] \in Int
        /\ th[t].at = "unlock" /\ th[t].back \in {"idle", "cond_loop"}
        /\ owners' = owners /\ owners[m] \in Threads \cup {NoThread}
    BY DEF Tables, AtMutex, UnlockSteps, Unlock
  <1>1. /\ holds[t][m] > 0 /\ owners[m] = t /\ word[m] # Unlocked /\ HasWord(t, m)
        /\ holds[t][m] = IF IsRecursive(m) THEN word[m] ELSE 1
    BY <1>0 DEF HolderOK, HoldSteps, HasWord
  <1>2. holds' = [holds EXCEPT ![t][m] = @ - 1]
    BY <1>0, <1>1 DEF Unlock
  <1>3. /\ holds'[t][m] = holds[t][m] - 1
        /\ \A u \in Threads \ {t} : holds'[u][m] = holds[u][m]
    BY <1>0, <1>2 DEF Tables
  <1>4. \A u \in Threads \ {t} : ~HasWord(u, m) BY <1>0, <1>1, Alone
  <1>5. ASSUME IsRecursive(m), word[m] > 1 PROVE OnlyItsOwn(t) /\ MutexInv(m)'
    <2>1. word' = [word EXCEPT ![m] = @ - 1] /\ th'[t].at = th[t].back /\ th'[t].obj = m
      BY <1>0, <1>1, <1>5, AtFields DEF Unlock
    <2>2. word'[m] = word[m] - 1 BY <1>0, <2>1 DEF Tables
    <2>3. HolderOK(t, m)'
      BY <1>0, <1>1, <1>3, <1>5, <2>1, <2>2
      DEF HolderOK, Turning, HasWord, Unlocked, HoldSteps, MarkSteps, LoopSteps
    <2>4. MutexInv(m)' BY <1>0, <1>1, <1>3, <1>4, <2>3, OnlyOne
    <2> QED BY <1>0, <1>2, <2>1, <2>4 DEF Tables, OnlyItsOwn
  <1>6. ASSUME ~(IsRecursive(m) /\ word[m] > 1) PROVE OnlyItsOwn(t) /\ MutexInv(m)'
    <2>1. word' = word /\ th'[t].at = "clear" /\ th'[t].obj = m
      BY <1>0, <1>1, <1>6, AtFields DEF Unlock
    <2>2. holds[t][m] = 1 BY <1>0, <1>1, <1>6
    <2>3. HolderOK(t, m)'
      BY <1>0, <1>1, <1>3, <2>1, <2>2
      DEF HolderOK, Turning, HasWord, HoldSteps, MarkSteps, LoopSteps
    <2>4. MutexInv(m)' BY <1>0, <1>1, <1>3, <1>4, <2>3, OnlyOne
    <2> QED BY <1>0, <1>2, <2>1, <2>4 DEF Tables, OnlyItsOwn
  <1> QED BY <1>5, <1>6

\* The table cleared, the word still held.
LEMMA UnlockClearKeeps ==
  ASSUME Tables, NEW t \in Threads, Acts(t), UnlockClear(t), NEW m, AtMutex(t, m)
  PROVE  OnlyItsOwn(t) /\ MutexInv(m)'
  <1>0. /\ ThreadsOK /\ m = th[t].obj /\ m \in Mutexes /\ m \in Objects
        /\ MutexInv(m) /\ HolderOK(t, m) /\ word[m] \in Int /\ holds[t][m] \in Int
        /\ th[t].at = "clear" /\ owners' = [owners EXCEPT ![m] = NoThread]
        /\ word' = word /\ holds' = holds /\ owners[m] \in Threads \cup {NoThread}
    BY DEF Tables, AtMutex, UnlockClear, futexVars
  <1>1. th'[t].at = "publish" /\ th'[t].obj = m BY <1>0, AtFields DEF UnlockClear
  <1>2. Turning(t, m) /\ HasWord(t, m) BY <1>0 DEF Turning, HasWord
  <1>3. \A u \in Threads \ {t} : ~HasWord(u, m) BY <1>0, <1>2, Alone
  <1>4. owners'[m] = NoThread BY <1>0 DEF Tables
  <1>5. HolderOK(t, m)'
    BY <1>0, <1>1, <1>2, <1>4, MutexAssumption
    DEF HolderOK, Turning, HasWord, HoldSteps, MarkSteps, LoopSteps
  <1>6. MutexInv(m)' BY <1>0, <1>3, <1>4, <1>5, OnlyOne
  <1>7. OnlyItsOwn(t) BY <1>0, <1>1 DEF Tables, OnlyItsOwn
  <1> QED BY <1>6, <1>7

\* The word set free.
LEMMA UnlockPublishKeeps ==
  ASSUME Tables, NEW t \in Threads, Acts(t), UnlockPublish(t), NEW m, AtMutex(t, m)
  PROVE  OnlyItsOwn(t) /\ MutexInv(m)'
  <1>0. /\ ThreadsOK /\ m = th[t].obj /\ m \in Mutexes /\ m \in Objects
        /\ MutexInv(m) /\ HolderOK(t, m) /\ word[m] \in Int /\ holds[t][m] \in Int
        /\ th[t].at = "publish" /\ word' = [word EXCEPT ![m] = Unlocked]
        /\ owners' = owners /\ holds' = holds /\ owners[m] \in Threads \cup {NoThread}
    BY DEF Tables, AtMutex, UnlockPublish, mutexVars
  <1>1. th'[t].at = "unlock_wake" /\ th'[t].obj = m BY <1>0, AtFields DEF UnlockPublish
  <1>2. Turning(t, m) /\ HasWord(t, m) BY <1>0 DEF Turning, HasWord
  <1>3. owners[m] \in {t, NoThread} /\ \A u \in Threads \ {t} : ~HasWord(u, m)
    BY <1>0, <1>2, Alone
  <1>4. word'[m] = Unlocked /\ holds[t][m] = 0 BY <1>0, <1>2 DEF Tables, HolderOK
  <1>5. HolderOK(t, m)'
    BY <1>0, <1>1, <1>2, <1>4 DEF HolderOK, Turning, HasWord, HoldSteps, MarkSteps, LoopSteps
  <1>6. MutexInv(m)' BY <1>0, <1>3, <1>5, OnlyOne
  <1>7. OnlyItsOwn(t) BY <1>0, <1>1 DEF Tables, OnlyItsOwn
  <1> QED BY <1>6, <1>7

\* The wake after it.
LEMMA UnlockWakeKeeps ==
  ASSUME TypeOK, NEW t \in Threads, Acts(t), UnlockWake(t), NEW m, AtMutex(t, m), QueueInv(m)
  PROVE  OnlyItsOwn(t) /\ MutexInv(m)'
  <1>0. /\ ThreadsOK /\ m = th[t].obj /\ m \in Mutexes /\ m \in Objects
        /\ MutexInv(m) /\ HolderOK(t, m) /\ word[m] \in Int /\ holds[t][m] \in Int
        /\ th[t].at = "unlock_wake" /\ th[t].back \in {"idle", "cond_loop"}
        /\ word' = word /\ owners' = owners /\ holds' = holds
    BY IsTables DEF Tables, AtMutex, UnlockSteps, UnlockWake, mutexVars
  <1>1. th'[t].at = th[t].back /\ th'[t].obj = m
    <2>1. th'[t] = Back(th[t], "0")
      <3>1. ThreadOK(Back(th[t], "0")) BY <1>0, BackOK DEF ThreadsOK, UnlockSteps
      <3> QED BY <1>0, <3>1, Wakes DEF UnlockWake
    <2> QED BY <1>0, <2>1 DEF ThreadsOK, ThreadOK, Fields, Back
  <1>2. Keeps(t, m) BY <1>0, <1>1 DEF Keeps, HoldSteps, MarkSteps, LoopSteps
  <1>3. MutexInv(m)' BY <1>0, <1>2, MutexElsewhere
  <1> QED BY <1>0, <1>1, <1>3 DEF OnlyItsOwn

-----------------------------------------------------------------------------
(* The queues.                                                             *)

\* A step that leaves the sleepers of the futex asleep, and one that wakes some.
Quiet(t) == /\ queue' = queue /\ th[t].at # "asleep"
            /\ \A u \in Threads \ {t} : th[u].at = "asleep" => th'[u] = th[u]
Waking(t) == /\ th[t].at # "asleep" /\ th[t].obj \in Objects /\ ThreadOK(th'[t])
             /\ \E n \in Nat : WakeAnd(th[t].obj, n, t, th'[t])

\* There are finitely many threads.
LEMMA EveryoneType == Everyone \in Nat
  BY FS_CardinalityType, FutexAssumption DEF Everyone

\* A wake of the own queue is a waking step.
LEMMA WakesAre ==
  ASSUME TypeOK, NEW o \in Objects, QueueInv(o), NEW n \in Nat, NEW t \in Threads, NEW r,
         WakeAnd(o, n, t, r), ThreadOK(r), th[t].at # "asleep", o = th[t].obj
  PROVE  Waking(t)
  <1>1. th'[t] = r BY Wakes
  <1> QED BY <1>1 DEF Waking

\* A mutex's steps put nobody to sleep; they wake, or are quiet.
LEMMA MutexSleeps ==
  ASSUME TypeOK, \A o \in Objects : QueueInv(o), NEW t \in Threads, MutexStep(t)
  PROVE  Quiet(t) \/ Waking(t)
  <1>0. ThreadsOK /\ ThreadOK(th[t]) BY DEF TypeOK, ThreadsOK
  <1>1. CASE LockAgain(t) \/ LockDeadlock(t) \/ LockLook(t) \/ LockCas(t) \/ LockOwn(t)
    BY <1>0, <1>1
    DEF Quiet, ThreadsOK, LockAgain, LockDeadlock, LockLook, LockCas, LockOwn, At, Answer, futexVars
  <1>2. CASE Contend(t) \/ ContendMark(t) \/ ContendReady(t) \/ ContendWoke(t)
    BY <1>0, <1>2
    DEF Quiet, ThreadsOK, Contend, ContendMark, ContendReady, ContendWoke, At, Answer, Wait, futexVars
  <1>3. CASE Unlock(t) \/ UnlockClear(t) \/ UnlockPublish(t)
    BY <1>0, <1>3 DEF Quiet, ThreadsOK, Unlock, UnlockClear, UnlockPublish, At, Answer, futexVars
  <1>4. CASE UnlockWake(t)
    <2>1. th[t].obj \in Objects
      BY <1>0, <1>4, MutexAssumption DEF UnlockWake, ThreadOK, StepOK, OnceIs, LockOK, UnlockOK,
                                         RwSteps, LockSteps, UnlockSteps, CondSteps, MarkSteps,
                                         LoopSteps, AskSteps, LeaveSteps, SemSteps, OnceSteps,
                                         WordSteps, FutexSteps
    <2>2. ThreadOK(Back(th[t], "0")) BY <1>0, <1>4, BackOK DEF UnlockWake, UnlockSteps
    <2> QED BY <1>4, <2>1, <2>2, WakesAre DEF UnlockWake
  <1> QED BY <1>1, <1>2, <1>3, <1>4 DEF MutexStep

\* A condition's sleepers are in no queue.
LEMMA CondSleeps ==
  ASSUME ThreadsOK, NEW t \in Threads, CondStep(t), ~CondNotify(t)
  PROVE  Quiet(t)
  <1>1. CASE CondRegister(t) \/ CondLoop(t) \/ CondTimer(t) \/ CondLeave(t)
    BY <1>1 DEF Quiet, ThreadsOK, CondRegister, CondLoop, CondTimer, CondLeave, At, futexVars
  <1>2. CASE CondReturn(t) \/ CondSignal(t) \/ CondBroadcast(t) \/ CondSignalled(t)
    BY <1>2 DEF Quiet, ThreadsOK, CondReturn, CondSignal, CondBroadcast, CondMark, CondSignalled, At,
                Answer, futexVars
  <1> QED BY <1>1, <1>2 DEF CondStep

\* A read-write lock's steps wake, or are quiet.
LEMMA RwSleeps ==
  ASSUME TypeOK, \A o \in Objects : QueueInv(o), NEW t \in Threads, RwStep(t)
  PROVE  Quiet(t) \/ Waking(t)
  <1>0. ThreadsOK /\ ThreadOK(th[t]) BY DEF TypeOK, ThreadsOK
  <1>1. CASE ReadWriters(t) \/ ReadState(t) \/ ReaderAcquire(t) \/ ReaderWait(t)
    BY <1>0, <1>1
    DEF Quiet, ThreadsOK, ReadWriters, ReadState, ReaderAcquire, ReaderWait, At, Answer, Wait, futexVars
  <1>2. CASE WriterRegister(t) \/ WriterState(t) \/ WriterCas(t) \/ WriterWait(t) \/ WriterLeave(t)
    BY <1>0, <1>2
    DEF Quiet, ThreadsOK, WriterRegister, WriterState, WriterCas, WriterWait, WriterLeave, At, Answer,
        Wait, futexVars
  <1>3. CASE RwUnlock(t)
    BY <1>0, <1>3 DEF Quiet, ThreadsOK, RwUnlock, At, Answer
  <1>4. CASE RwWake(t)
    <2>1. th[t].obj \in Objects
      BY <1>0, <1>4, RwAssumption DEF RwWake, ThreadOK, StepOK, OnceIs, LockOK, UnlockOK, RwSteps,
                                      LockSteps, UnlockSteps, CondSteps, MarkSteps, LoopSteps,
                                      AskSteps, LeaveSteps, SemSteps, OnceSteps, WordSteps, FutexSteps
    <2>2. ThreadOK(Back(th[t], "0")) BY <1>0, <1>4, BackOK DEF RwWake, RwSteps, LeaveSteps
    <2> QED BY <1>4, <2>1, <2>2, WakesAre, EveryoneType DEF RwWake
  <1> QED BY <1>1, <1>2, <1>3, <1>4 DEF RwStep

\* A semaphore's steps wake, or are quiet.
LEMMA SemSleeps ==
  ASSUME TypeOK, \A o \in Objects : QueueInv(o), NEW t \in Threads, SemStep(t)
  PROVE  Quiet(t) \/ Waking(t)
  <1>0. ThreadsOK /\ ThreadOK(th[t]) BY DEF TypeOK, ThreadsOK
  <1>1. CASE SemRead(t) \/ SemTake(t) \/ SemFlag(t) \/ SemReady(t)
    BY <1>0, <1>1 DEF Quiet, ThreadsOK, SemRead, SemTake, SemFlag, SemReady, Cas, At, Answer, Wait,
                      futexVars
  <1>2. CASE PostRead(t) \/ PostCas(t) \/ PostClear(t)
    BY <1>0, <1>2 DEF Quiet, ThreadsOK, PostRead, PostCas, PostClear, Cas, Answer, futexVars
  <1>3. CASE PostWake(t)
    <2>1. th[t].obj \in Objects
      BY <1>0, <1>3, SemAssumption DEF PostWake, ThreadOK, StepOK, OnceIs, LockOK, UnlockOK, RwSteps,
                                       LockSteps, UnlockSteps, CondSteps, MarkSteps, LoopSteps,
                                       AskSteps, LeaveSteps, SemSteps, OnceSteps, WordSteps, FutexSteps
    <2> DEFINE r == IF queue[th[t].obj] = <<>> THEN Step(t, "post_clear") ELSE Back(th[t], "0")
    <2>2. ThreadOK(Step(t, "post_clear"))
      BY <1>0, <1>3 DEF PostWake, Step, ThreadOK, StepOK, OnceIs, Fields, RwSteps, LockSteps,
                        UnlockSteps, CondSteps, MarkSteps, LoopSteps, AskSteps, LeaveSteps, SemSteps,
                        OnceSteps, WordSteps, FutexSteps
    <2>3. ThreadOK(Back(th[t], "0")) BY <1>0, <1>3, BackOK DEF PostWake, SemSteps
    <2>4. WakeAnd(th[t].obj, 1, t, r) /\ th[t].at = "post_wake" BY <1>3 DEF PostWake
    <2>5. ThreadOK(r) BY <2>2, <2>3
    <2> QED BY <2>1, <2>4, <2>5, WakesAre
  <1> QED BY <1>1, <1>2, <1>3 DEF SemStep

\* A routine's steps wake, or are quiet.
LEMMA OnceSleeps ==
  ASSUME TypeOK, \A o \in Objects : QueueInv(o), NEW t \in Threads, OnceStep(t)
  PROVE  Quiet(t) \/ Waking(t)
  <1>0. ThreadsOK /\ ThreadOK(th[t]) BY DEF TypeOK, ThreadsOK
  <1>1. CASE OnceRead(t) \/ OnceCas(t) \/ OnceRun(t)
    BY <1>0, <1>1 DEF Quiet, ThreadsOK, OnceRead, OnceCas, OnceRun, At, Answer, futexVars
  <1>2. CASE OnceDone(t) \/ OnceWait(t) \/ OnceWoke(t)
    BY <1>0, <1>2 DEF Quiet, ThreadsOK, OnceDone, OnceWait, OnceWoke, At, Answer, Wait, futexVars
  <1>3. CASE OnceWake(t)
    <2>1. th[t].obj \in Objects
      BY <1>0, <1>3, OnceAssumption DEF OnceWake, ThreadOK, StepOK, OnceIs, LockOK, UnlockOK, RwSteps,
                                        LockSteps, UnlockSteps, CondSteps, MarkSteps, LoopSteps,
                                        AskSteps, LeaveSteps, SemSteps, OnceSteps, WordSteps, FutexSteps
    <2> DEFINE r == IF th[t].answer = "failed" THEN [th[t] EXCEPT !.at = "stopped"] ELSE Back(th[t], "0")
    <2>2. ThreadOK([th[t] EXCEPT !.at = "stopped"])
      BY <1>0, <1>3 DEF OnceWake, ThreadOK, StepOK, Fields, RwSteps, LockSteps, UnlockSteps, CondSteps,
                        MarkSteps, LoopSteps, AskSteps, LeaveSteps, SemSteps, OnceSteps, WordSteps,
                        FutexSteps
    <2>3. ThreadOK(Back(th[t], "0")) BY <1>0, <1>3, BackOK DEF OnceWake, OnceSteps
    <2>4. WakeAnd(th[t].obj, Everyone, t, r) /\ th[t].at = "once_wake" BY <1>3 DEF OnceWake
    <2>5. ThreadOK(r) BY <2>2, <2>3
    <2> QED BY <2>1, <2>4, <2>5, WakesAre, EveryoneType
  <1> QED BY <1>1, <1>2, <1>3 DEF OnceStep

\* The guest's steps wake, or are quiet.
LEMMA GuestSleeps ==
  ASSUME TypeOK, \A o \in Objects : QueueInv(o), NEW t \in Threads,
         \/ Begin(t) \/ Await(t) \/ Put(t) \/ PutDone(t) \/ Store(t) \/ StoreWake(t) \/ GuestHalt(t)
  PROVE  Quiet(t) \/ Waking(t)
  <1>0. ThreadsOK /\ ThreadOK(th[t]) BY DEF TypeOK, ThreadsOK
  <1>1. CASE Begin(t) \/ Await(t) \/ Put(t) \/ PutDone(t) \/ Store(t) \/ GuestHalt(t)
    BY <1>0, <1>1
    DEF Quiet, ThreadsOK, Begin, Await, Put, PutDone, Store, GuestHalt, GuestSteps, At, futexVars
  <1>2. CASE StoreWake(t)
    <2>1. th[t].obj \in Objects
      BY <1>0, <1>2 DEF StoreWake, Words, ThreadOK, StepOK, OnceIs, LockOK, UnlockOK, RwSteps,
                        LockSteps, UnlockSteps, CondSteps, MarkSteps, LoopSteps, AskSteps, LeaveSteps,
                        SemSteps, OnceSteps, WordSteps, FutexSteps
    <2>2. ThreadOK(Back(th[t], "0")) BY <1>0, <1>2, BackOK DEF StoreWake, WordSteps
    <2> QED BY <1>2, <2>1, <2>2, WakesAre, EveryoneType DEF StoreWake
  <1> QED BY <1>1, <1>2

\* Only the park puts a thread to sleep.
LEMMA Rouses ==
  ASSUME ThreadsOK, NEW t \in Threads, th[t].at \notin FutexSteps
  PROVE  /\ \A s : At(t, s) => th'[t].at = s
         /\ \A c : Answer(t, c) => th'[t].at = th[t].back
         /\ \A w, s : Wait(t, w, s) => th'[t].at = "futex"
         /\ \A o, n, r : o \in Objects /\ TypeOK /\ QueueInv(o) /\ WakeAnd(o, n, t, r) => th'[t] = r
         /\ th[t].at \notin CondSteps \cup LoopSteps \cup {"idle", "stopped"} => th[t].back # "asleep"
         /\ Fields \subseteq DOMAIN th[t] /\ DOMAIN th = Threads
  <1>1. ThreadOK(th[t]) BY DEF ThreadsOK
  <1>2. th[t].at \notin CondSteps \cup LoopSteps \cup {"idle", "stopped"} => th[t].back # "asleep"
    BY <1>1 DEF ThreadOK, StepOK, OnceIs, LockOK, UnlockOK, RwSteps, LockSteps, UnlockSteps, CondSteps,
                MarkSteps, LoopSteps, AskSteps, LeaveSteps, SemSteps, OnceSteps, WordSteps, FutexSteps
  <1>3. ASSUME NEW o \in Objects, TypeOK, QueueInv(o), NEW n, NEW r, WakeAnd(o, n, t, r)
        PROVE  th'[t] = r
    BY <1>3, TakenAsleep DEF FutexSteps, WakeAnd
  <1>4. /\ \A s : At(t, s) => th'[t].at = s
        /\ \A c : Answer(t, c) => th'[t].at = th[t].back
        /\ \A w, s : Wait(t, w, s) => th'[t].at = "futex"
    BY AtFields
  <1>5. \A o, n, r : o \in Objects /\ TypeOK /\ QueueInv(o) /\ WakeAnd(o, n, t, r) => th'[t] = r
    BY <1>3
  <1>6. Fields \subseteq DOMAIN th[t] /\ DOMAIN th = Threads BY <1>1 DEF ThreadsOK, ThreadOK
  <1> QED BY <1>2, <1>4, <1>5, <1>6

\* No step of a mutex falls asleep at once.
LEMMA MutexAwake ==
  ASSUME TypeOK, \A o \in Objects : QueueInv(o), NEW t \in Threads, MutexStep(t)
  PROVE  th'[t].at # "asleep"
  <1>0. ThreadsOK /\ ThreadOK(th[t]) BY DEF TypeOK, ThreadsOK
  <1> USE DEF RwSteps, LockSteps, UnlockSteps, CondSteps, MarkSteps, LoopSteps, AskSteps, LeaveSteps,
              SemSteps, OnceSteps, WordSteps, FutexSteps
  <1>1. CASE LockAgain(t) \/ LockDeadlock(t) \/ LockLook(t) \/ LockCas(t) \/ LockOwn(t)
    BY <1>0, <1>1, Rouses DEF LockAgain, LockDeadlock, LockLook, LockCas, LockOwn
  <1>2. CASE ContendReady(t) BY <1>0, <1>2, Rouses DEF ContendReady
  <1>3. CASE Contend(t) BY <1>0, <1>3, Rouses DEF Contend, Fields
  <1>4. CASE ContendMark(t) BY <1>0, <1>4, Rouses DEF ContendMark, Fields
  <1>5. CASE ContendWoke(t) BY <1>0, <1>5, Rouses DEF ContendWoke, Fields
  <1>6. CASE Unlock(t) \/ UnlockClear(t) \/ UnlockPublish(t)
    BY <1>0, <1>6, Rouses DEF Unlock, UnlockClear, UnlockPublish
  <1>7. CASE UnlockWake(t)
    <2>1. th[t].obj \in Objects
      BY <1>0, <1>7, MutexAssumption DEF UnlockWake, ThreadOK, StepOK, OnceIs, LockOK, UnlockOK
    <2> QED BY <1>0, <1>7, <2>1, Rouses DEF UnlockWake, Fields, Back
  <1> QED BY <1>1, <1>2, <1>3, <1>4, <1>5, <1>6, <1>7 DEF MutexStep

\* No step of a condition falls asleep on a futex.
LEMMA CondAwake ==
  ASSUME ThreadsOK, NEW t \in Threads, CondStep(t), ~CondNotify(t)
  PROVE  th'[t].at # "asleep"
  <1>0. ThreadOK(th[t]) BY DEF ThreadsOK
  <1>1. th[t].at = "cond_return" => th[t].ret # "asleep" BY <1>0 DEF ThreadOK
  <1> USE DEF RwSteps, LockSteps, UnlockSteps, CondSteps, MarkSteps, LoopSteps, AskSteps, LeaveSteps,
              SemSteps, OnceSteps, WordSteps, FutexSteps
  <1>2. CASE CondRegister(t) BY <1>2, Rouses DEF CondRegister, Fields
  <1>3. CASE CondLoop(t) BY <1>3, Rouses DEF CondLoop, Fields
  <1>4. CASE CondTimer(t) BY <1>4, Rouses DEF CondTimer
  <1>5. CASE CondLeave(t) BY <1>5, Rouses DEF CondLeave, Fields
  <1>6. CASE CondReturn(t) BY <1>1, <1>6, Rouses DEF CondReturn, Fields
  <1>7. CASE CondSignal(t) \/ CondBroadcast(t) \/ CondSignalled(t)
    BY <1>7, Rouses DEF CondSignal, CondBroadcast, CondMark, CondSignalled
  <1> QED BY <1>2, <1>3, <1>4, <1>5, <1>6, <1>7 DEF CondStep

\* No step of a read-write lock falls asleep at once.
LEMMA RwAwake ==
  ASSUME TypeOK, \A o \in Objects : QueueInv(o), NEW t \in Threads, RwStep(t)
  PROVE  th'[t].at # "asleep"
  <1>0. ThreadsOK /\ ThreadOK(th[t]) BY DEF TypeOK, ThreadsOK
  <1> USE DEF RwSteps, LockSteps, UnlockSteps, CondSteps, MarkSteps, LoopSteps, AskSteps, LeaveSteps,
              SemSteps, OnceSteps, WordSteps, FutexSteps
  <1>1. CASE ReadWriters(t) BY <1>0, <1>1, Rouses DEF ReadWriters, Fields
  <1>2. CASE ReadState(t) BY <1>0, <1>2, Rouses DEF ReadState, Fields
  <1>3. CASE WriterState(t) BY <1>0, <1>3, Rouses DEF WriterState, Fields
  <1>4. CASE ReaderAcquire(t) \/ ReaderWait(t) \/ WriterRegister(t) \/ WriterCas(t)
    BY <1>0, <1>4, Rouses DEF ReaderAcquire, ReaderWait, WriterRegister, WriterCas
  <1>5. CASE WriterWait(t) \/ WriterLeave(t) \/ RwUnlock(t)
    BY <1>0, <1>5, Rouses DEF WriterWait, WriterLeave, RwUnlock
  <1>6. CASE RwWake(t)
    <2>1. th[t].obj \in Objects
      BY <1>0, <1>6, RwAssumption DEF RwWake, ThreadOK, StepOK, OnceIs, LockOK, UnlockOK
    <2> QED BY <1>0, <1>6, <2>1, Rouses DEF RwWake, Fields, Back
  <1> QED BY <1>1, <1>2, <1>3, <1>4, <1>5, <1>6 DEF RwStep

\* An exchange of a semaphore's word ends its call, or leads on.
LEMMA Exchanges ==
  ASSUME NEW t \in Threads, SemTake(t) \/ PostCas(t)
  PROVE  Answer(t, "0") \/ \E s \in {"semwait", "sempost", "post_wake"} : At(t, s)
  BY DEF SemTake, PostCas, Cas, Step, Answer, At

\* No step of a semaphore falls asleep at once.
LEMMA SemAwake ==
  ASSUME TypeOK, \A o \in Objects : QueueInv(o), NEW t \in Threads, SemStep(t)
  PROVE  th'[t].at # "asleep"
  <1>0. ThreadsOK /\ ThreadOK(th[t]) BY DEF TypeOK, ThreadsOK
  <1> USE DEF RwSteps, LockSteps, UnlockSteps, CondSteps, MarkSteps, LoopSteps, AskSteps, LeaveSteps,
              SemSteps, OnceSteps, WordSteps, FutexSteps
  <1>1. CASE SemRead(t)
    <2>1. th[t].at = "semwait" /\ \E w, s : s # "asleep" /\ th' = [th EXCEPT ![t].saw = w, ![t].at = s]
      BY <1>1 DEF SemRead
    <2> QED BY <1>0, <2>1, Rouses DEF Fields
  <1>2. CASE SemTake(t) \/ PostCas(t)
    <2>1. th[t].at \in {"sem_take", "post_cas"} BY <1>2 DEF SemTake, PostCas
    <2> QED BY <1>0, <1>2, <2>1, Exchanges, Rouses
  <1>3. CASE SemFlag(t)
    BY <1>0, <1>3, Rouses DEF SemFlag, Cas, Fields
  <1>4. CASE SemReady(t) BY <1>0, <1>4, Rouses DEF SemReady
  <1>5. CASE PostRead(t) BY <1>0, <1>5, Rouses DEF PostRead, Fields
  <1>6. CASE PostClear(t) BY <1>0, <1>6, Rouses DEF PostClear
  <1>7. CASE PostWake(t)
    <2>1. th[t].obj \in Objects
      BY <1>0, <1>7, SemAssumption DEF PostWake, ThreadOK, StepOK, OnceIs, LockOK, UnlockOK
    <2>2. PICK r \in {Step(t, "post_clear"), Back(th[t], "0")} :
             WakeAnd(th[t].obj, 1, t, r) /\ th[t].at = "post_wake"
      BY <1>7 DEF PostWake
    <2>3. th'[t] = r BY <1>0, <2>1, <2>2, Rouses
    <2> QED BY <1>0, <2>2, <2>3, Rouses DEF Fields, Back, Step
  <1> QED BY <1>1, <1>2, <1>3, <1>4, <1>5, <1>6, <1>7 DEF SemStep

\* No step of a routine falls asleep at once.
LEMMA OnceAwake ==
  ASSUME TypeOK, \A o \in Objects : QueueInv(o), NEW t \in Threads, OnceStep(t)
  PROVE  th'[t].at # "asleep"
  <1>0. ThreadsOK /\ ThreadOK(th[t]) BY DEF TypeOK, ThreadsOK
  <1> USE DEF RwSteps, LockSteps, UnlockSteps, CondSteps, MarkSteps, LoopSteps, AskSteps, LeaveSteps,
              SemSteps, OnceSteps, WordSteps, FutexSteps
  <1>1. CASE OnceRead(t) \/ OnceCas(t) \/ OnceDone(t) \/ OnceWait(t) \/ OnceWoke(t)
    BY <1>0, <1>1, Rouses DEF OnceRead, OnceCas, OnceDone, OnceWait, OnceWoke
  <1>2. CASE OnceRun(t) BY <1>0, <1>2, Rouses DEF OnceRun, Fields
  <1>3. CASE OnceWake(t)
    <2>1. th[t].obj \in Objects
      BY <1>0, <1>3, OnceAssumption DEF OnceWake, ThreadOK, StepOK, OnceIs, LockOK, UnlockOK
    <2>2. PICK r \in {[th[t] EXCEPT !.at = "stopped"], Back(th[t], "0")} :
             WakeAnd(th[t].obj, Everyone, t, r) /\ th[t].at = "once_wake"
      BY <1>3 DEF OnceWake
    <2>3. th'[t] = r BY <1>0, <2>1, <2>2, Rouses
    <2> QED BY <1>0, <2>2, <2>3, Rouses DEF Fields, Back
  <1> QED BY <1>1, <1>2, <1>3 DEF OnceStep

\* No step of the guest falls asleep at once.
LEMMA GuestAwake ==
  ASSUME TypeOK, \A o \in Objects : QueueInv(o), NEW t \in Threads,
         \/ Begin(t) \/ Await(t) \/ Put(t) \/ PutDone(t) \/ Store(t) \/ StoreWake(t) \/ GuestHalt(t)
  PROVE  th'[t].at # "asleep"
  <1>0. ThreadsOK /\ ThreadOK(th[t]) BY DEF TypeOK, ThreadsOK
  <1> USE DEF RwSteps, LockSteps, UnlockSteps, CondSteps, MarkSteps, LoopSteps, AskSteps, LeaveSteps,
              SemSteps, OnceSteps, WordSteps, FutexSteps
  <1>1. CASE Begin(t)
    <2> DEFINE call == scenario.calls[t][th[t].pc + 1]
    <2>1. call \in Call BY <1>1, CallOK DEF Begin
    <2>2. First(call.op) # "asleep" BY <2>1 DEF First, Call, On
    <2>3. th'[t].at \in {"idle", First(call.op)}
      BY <1>0, <1>1, Rouses DEF Begin, Started, Fields
    <2> QED BY <2>2, <2>3
  <1>2. CASE Await(t) BY <1>0, <1>2, Rouses DEF Await, Fields
  <1>3. CASE Put(t) BY <1>0, <1>3, Rouses DEF Put, Fields
  <1>4. CASE PutDone(t) BY <1>0, <1>4, Rouses DEF PutDone, Fields
  <1>5. CASE Store(t) \/ GuestHalt(t) BY <1>0, <1>5, Rouses DEF Store, GuestHalt, GuestSteps
  <1>6. CASE StoreWake(t)
    <2>1. th[t].obj \in Objects
      BY <1>0, <1>6 DEF StoreWake, Words, ThreadOK, StepOK, OnceIs, LockOK, UnlockOK
    <2> QED BY <1>0, <1>6, <2>1, Rouses DEF StoreWake, Fields, Back
  <1> QED BY <1>1, <1>2, <1>3, <1>4, <1>5, <1>6

QueuesOK == queue \in [Objects -> Seq(Threads)] /\ \A o \in Objects : QueueInv(o)

\* A step that leaves the queues and their sleepers.
LEMMA QuietQueues ==
  ASSUME QueuesOK, queue' = queue,
         \A u \in Threads : /\ th[u].at = "asleep" => th'[u] = th[u]
                            /\ th'[u].at = "asleep" => th[u].at = "asleep"
  PROVE  QueuesOK'
  BY DEF QueuesOK, QueueInv

\* A queue that a step leaves, with its sleepers.
LEMMA OtherQueue ==
  ASSUME QueuesOK, NEW k \in Objects, queue'[k] = queue[k],
         \A i \in DOMAIN queue[k] : th'[queue[k][i]] = th[queue[k][i]],
         \A u \in Threads : th'[u].at = "asleep" /\ th'[u].obj = k
                               => th[u].at = "asleep" /\ th[u].obj = k
  PROVE  QueueInv(k)'
  BY DEF QueuesOK, QueueInv

\* What is left of a queue was further down it.
LEMMA LeftOf ==
  ASSUME NEW q \in Seq(Threads), NEW n \in Nat, NEW p, p = SubSeq(q, n + 1, Len(q))
  PROVE  /\ p \in Seq(Threads)
         /\ \A i \in DOMAIN p : i + n \in DOMAIN q /\ p[i] = q[i + n]
         /\ \A i \in DOMAIN q : i > n => i - n \in DOMAIN p /\ p[i - n] = q[i]
  <1>1. p \in Seq(Threads) OBVIOUS
  <1> QED BY <1>1

\* A queue of threads that are there once is no longer than there are threads.
LEMMA SeqFits ==
  ASSUME NEW q \in Seq(Threads), \A i, j \in DOMAIN q : q[i] = q[j] => i = j
  PROVE  Len(q) <= Everyone
  <1> DEFINE f == [i \in 1 .. Len(q) |-> q[i]]
  <1>1. f \in Injection(1 .. Len(q), Threads)
    <2>1. Len(q) \in Nat /\ DOMAIN q = 1 .. Len(q) /\ \A i \in 1 .. Len(q) : q[i] \in Threads
      OBVIOUS
    <2>2. f \in [1 .. Len(q) -> Threads] BY <2>1
    <2>3. \A i, j \in 1 .. Len(q) : f[i] = f[j] => i = j BY <2>1
    <2> QED BY <2>2, <2>3 DEF Injection, IsInjective
  <1>2. Cardinality(1 .. Len(q)) <= Cardinality(Threads)
    BY <1>1, FS_Injection, FutexAssumption
  <1>3. Cardinality(1 .. Len(q)) = Len(q)
    <2>1. \A n \in Nat : Cardinality(1 .. n) = IF 1 > n THEN 0 ELSE n - 1 + 1 BY FS_Interval
    <2> QED BY <2>1
  <1> QED BY <1>2, <1>3 DEF Everyone

LEMMA QueueLen ==
  ASSUME QueuesOK, NEW o \in Objects
  PROVE  Len(queue[o]) <= Everyone
  BY SeqFits DEF QueuesOK, QueueInv

\* A wake of everyone takes everyone.
LEMMA EveryoneTaken ==
  ASSUME QueuesOK, NEW o \in Objects, NEW i \in DOMAIN queue[o]
  PROVE  queue[o][i] \in Taken(o, Everyone)
  <1>1. queue[o] \in Seq(Threads) BY DEF QueuesOK
  <1>2. i <= Everyone BY <1>1, QueueLen, EveryoneType
  <1> QED BY <1>2 DEF Taken

\* A wake leaves nobody it took asleep, and moves nobody else.
LEMMA WakeMoves ==
  ASSUME ThreadsOK, QueuesOK, NEW o \in Objects, NEW n, NEW u \in Threads
  PROVE  /\ u \in Taken(o, n) => ThreadOK(th[u]) /\ th[u].at = "asleep" /\ th[u].obj = o
         /\ u \in Taken(o, n) => Woke(th[u], "Woken").at # "asleep"
  <1>1. ThreadOK(th[u]) BY DEF ThreadsOK
  <1>2. u \in Taken(o, n) => th[u].at = "asleep" /\ th[u].obj = o BY DEF QueuesOK, QueueInv, Taken
  <1>3. th[u].at = "asleep" => Woke(th[u], "Woken").at # "asleep"
    BY <1>1 DEF ThreadOK, StepOK, Fields, Woke, RwSteps, LockSteps, UnlockSteps, CondSteps, MarkSteps,
                LoopSteps, AskSteps, LeaveSteps, SemSteps, OnceSteps, WordSteps, FutexSteps
  <1> QED BY <1>1, <1>2, <1>3

\* A wake takes its sleepers off the queue as it moves them.
LEMMA WakingQueues ==
  ASSUME ThreadsOK, QueuesOK, NEW t \in Threads, Waking(t), NEW o, o = th[t].obj,
         th'[t].at # "asleep"
  PROVE  QueuesOK'
  <1>1. PICK n \in Nat : WakeAnd(o, n, t, th'[t]) BY DEF Waking
  <1>2. o \in Objects /\ th[t].at # "asleep" BY DEF Waking
  <1> DEFINE left == SubSeq(queue[o], n + 1, Len(queue[o]))
  <1>3. queue' = [queue EXCEPT ![o] = left] BY <1>1 DEF WakeAnd
  <1>4. /\ left \in Seq(Threads)
        /\ \A i \in DOMAIN left : i + n \in DOMAIN queue[o] /\ left[i] = queue[o][i + n]
        /\ \A i \in DOMAIN queue[o] : i > n => i - n \in DOMAIN left /\ left[i - n] = queue[o][i]
    BY <1>2, LeftOf DEF QueuesOK
  <1> HIDE DEF left
  <1>5. queue' \in [Objects -> Seq(Threads)] BY <1>2, <1>3, <1>4 DEF QueuesOK
  <1>a. ASSUME NEW u \in Threads, th'[u].at = "asleep"
        PROVE  th'[u] = th[u] /\ u \notin Taken(o, n)
    BY <1>1, <1>2, <1>a, WakeMoves DEF WakeAnd
  <1>6. ASSUME NEW k \in Objects \ {o} PROVE QueueInv(k)'
    <2>1. queue'[k] = queue[k] BY <1>3 DEF QueuesOK
    <2>2. ASSUME NEW i \in DOMAIN queue[k] PROVE th'[queue[k][i]] = th[queue[k][i]]
      <3>1. /\ queue[k][i] \in Threads /\ th[queue[k][i]].at = "asleep" /\ th[queue[k][i]].obj = k
        BY <2>2 DEF QueuesOK, QueueInv
      <3>2. queue[k][i] \notin Taken(o, n) BY <1>2, <3>1 DEF QueuesOK, QueueInv, Taken
      <3> QED BY <1>1, <1>2, <3>1, <3>2 DEF WakeAnd
    <2> QED BY <1>a, <2>1, <2>2 DEF QueuesOK, QueueInv
  <1>7. QueueInv(o)'
    <2>1. queue'[o] = left BY <1>2, <1>3 DEF QueuesOK
    <2>2. ASSUME NEW i \in DOMAIN left
          PROVE  /\ left[i] = queue[o][i + n] /\ i + n \in DOMAIN queue[o] /\ i \in Nat
                 /\ th'[left[i]] = th[left[i]] /\ th[left[i]].at = "asleep" /\ th[left[i]].obj = o
      <3>1. i + n \in DOMAIN queue[o] /\ left[i] = queue[o][i + n] BY <1>4, <2>2
      <3>2. i \in Nat /\ i > 0 BY <1>4, <2>2
      <3>3. left[i] \in Threads /\ th[left[i]].at = "asleep" /\ th[left[i]].obj = o
        BY <1>2, <3>1 DEF QueuesOK, QueueInv
      <3>4. left[i] \notin Taken(o, n)
        <4> SUFFICES ASSUME NEW j \in DOMAIN queue[o], j <= n, queue[o][j] = left[i] PROVE FALSE
          BY DEF Taken
        <4>1. j = i + n BY <1>2, <3>1 DEF QueuesOK, QueueInv
        <4> QED BY <3>2, <4>1
      <3> QED BY <1>1, <1>2, <3>1, <3>2, <3>3, <3>4 DEF WakeAnd
    <2>3. ASSUME NEW i \in DOMAIN left, NEW j \in DOMAIN left, left[i] = left[j] PROVE i = j
      <3>1. /\ queue[o][i + n] = queue[o][j + n] /\ i + n \in DOMAIN queue[o] /\ j + n \in DOMAIN queue[o]
            /\ i \in Nat /\ j \in Nat
        BY <2>2, <2>3
      <3>2. i + n = j + n BY <1>2, <3>1 DEF QueuesOK, QueueInv
      <3> QED BY <3>1, <3>2
    <2>4. ASSUME NEW u \in Threads, th'[u].at = "asleep", th'[u].obj = o
          PROVE  \E i \in DOMAIN left : left[i] = u
      <3>1. th[u].at = "asleep" /\ th[u].obj = o /\ u \notin Taken(o, n) BY <1>a, <2>4
      <3>2. PICK i \in DOMAIN queue[o] : queue[o][i] = u BY <1>2, <3>1 DEF QueuesOK, QueueInv
      <3>3. ~(i <= n) BY <3>1, <3>2 DEF Taken
      <3>4. i \in Nat BY <1>2 DEF QueuesOK
      <3>5. i > n BY <3>3, <3>4
      <3> QED BY <1>4, <3>2, <3>5
    <2> QED BY <2>1, <2>2, <2>3, <2>4 DEF QueueInv
  <1> QED BY <1>5, <1>6, <1>7 DEF QueuesOK

\* A queue with one more.
LEMMA AppendIs ==
  ASSUME NEW q \in Seq(Threads), NEW t \in Threads, NEW p, p = Append(q, t)
  PROVE  /\ DOMAIN p = DOMAIN q \cup {Len(q) + 1} /\ p[Len(q) + 1] = t
         /\ \A i \in DOMAIN q : p[i] = q[i]
  OBVIOUS

\* A step that moves t from the running to the asleep, and one that moves it back.
LEMMA ParkQueues ==
  ASSUME ThreadsOK, QueuesOK, NEW t \in Threads, FutexPark(t), NEW o \in Objects, o = th[t].obj
  PROVE  QueuesOK'
  <1>0. ThreadOK(th[t]) /\ th[t].at = "park" BY DEF ThreadsOK, FutexPark
  <1>1. CASE queue' = queue /\ th' = [th EXCEPT ![t] = Woke(@, "WouldBlock")]
    <2>1. th'[t].at # "asleep"
      BY <1>0, <1>1 DEF ThreadsOK, ThreadOK, StepOK, Fields, Woke, RwSteps, LockSteps, UnlockSteps,
                        CondSteps, MarkSteps, LoopSteps, AskSteps, LeaveSteps, SemSteps, OnceSteps,
                        WordSteps, FutexSteps
    <2> QED BY <1>0, <1>1, <2>1, QuietQueues DEF ThreadsOK
  <1>2. CASE queue' = [queue EXCEPT ![o] = Append(@, t)] /\ At(t, "asleep")
    <2>1. th'[t].at = "asleep" /\ th'[t].obj = o BY <1>2, AtFields
    <2>2. \A u \in Threads \ {t} : th'[u] = th[u] BY <1>2 DEF At, ThreadsOK
    <2>3. queue' \in [Objects -> Seq(Threads)] BY <1>2 DEF QueuesOK
    <2>4. \A k \in Objects : \A i \in DOMAIN queue[k] : queue[k][i] \in Threads \ {t}
      BY <1>0 DEF QueuesOK, QueueInv
    <2>5. ASSUME NEW k \in Objects \ {o} PROVE QueueInv(k)'
      <3>1. queue'[k] = queue[k] BY <1>2 DEF QueuesOK
      <3>2. \A i \in DOMAIN queue[k] : th'[queue[k][i]] = th[queue[k][i]] BY <2>2, <2>4
      <3>3. \A u \in Threads : th'[u].obj = k => th'[u] = th[u] BY <2>1, <2>2
      <3> QED BY <3>1, <3>2, <3>3, OtherQueue
    <2>6. QueueInv(o)'
      <3>1. /\ queue'[o] = Append(queue[o], t) /\ queue[o] \in Seq(Threads) BY <1>2 DEF QueuesOK
      <3>2. /\ DOMAIN queue'[o] = DOMAIN queue[o] \cup {Len(queue[o]) + 1}
            /\ queue'[o][Len(queue[o]) + 1] = t
            /\ \A i \in DOMAIN queue[o] : queue'[o][i] = queue[o][i]
        BY <3>1, AppendIs
      <3>3. QueueInv(o) BY DEF QueuesOK
      <3>4. \A i \in DOMAIN queue'[o] : th'[queue'[o][i]].at = "asleep" /\ th'[queue'[o][i]].obj = o
        BY <2>1, <2>2, <2>4, <3>2, <3>3 DEF QueueInv
      <3>5. \A i, j \in DOMAIN queue'[o] : queue'[o][i] = queue'[o][j] => i = j
        BY <2>4, <3>2, <3>3 DEF QueueInv
      <3>6. \A u \in Threads : th'[u].at = "asleep" /\ th'[u].obj = o =>
              \E i \in DOMAIN queue'[o] : queue'[o][i] = u
        BY <2>1, <2>2, <3>2, <3>3 DEF QueueInv
      <3> QED BY <3>4, <3>5, <3>6 DEF QueueInv
    <2> QED BY <2>3, <2>5, <2>6 DEF QueuesOK
  <1> QED BY <1>1, <1>2 DEF FutexPark

\* The others of a queue, in their order.
LEMMA WithoutIs ==
  ASSUME NEW q \in Seq(Threads), NEW t, NEW m \in DOMAIN q, q[m] = t,
         \A i, j \in DOMAIN q : q[i] = q[j] => i = j
  PROVE  /\ Without(q, t) \in Seq(Threads) /\ Len(Without(q, t)) = Len(q) - 1
         /\ \A i \in DOMAIN Without(q, t) :
              Without(q, t)[i] = IF i < m THEN q[i] ELSE q[i + 1]
         /\ \A i \in DOMAIN q : i # m => \E j \in DOMAIN Without(q, t) : Without(q, t)[j] = q[i]
  <1>1. (CHOOSE i \in DOMAIN q : q[i] = t) = m OBVIOUS
  <1>2. Without(q, t) = [i \in 1 .. Len(q) - 1 |-> IF i < m THEN q[i] ELSE q[i + 1]]
    BY <1>1 DEF Without
  <1>3. Len(q) - 1 \in Nat OBVIOUS
  <1>4. \A i \in 1 .. Len(q) - 1 : q[i] \in Threads /\ q[i + 1] \in Threads OBVIOUS
  <1> HIDE DEF Without
  <1>5. ASSUME NEW i \in DOMAIN q, i # m
        PROVE  \E j \in DOMAIN Without(q, t) : Without(q, t)[j] = q[i]
    <2>1. CASE i < m BY <1>2, <1>3, <2>1
    <2>2. CASE i > m
      <3>1. i - 1 \in 1 .. Len(q) - 1 /\ ~(i - 1 < m) /\ (i - 1) + 1 = i BY <2>2
      <3> QED BY <1>2, <3>1
    <2> QED BY <1>5, <2>1, <2>2
  <1> QED BY <1>2, <1>3, <1>4, <1>5

\* ... and one whose time is over is taken off.
LEMMA TimeoutQueues ==
  ASSUME ThreadsOK, QueuesOK, NEW t \in Threads, FutexTimeout(t),
         NEW o \in Objects, o = th[t].obj
  PROVE  QueuesOK'
  <1> DEFINE q == queue[o]
             p == Without(q, t)
  <1>1. PICK m \in DOMAIN q : q[m] = t BY DEF FutexTimeout, QueuesOK, QueueInv
  <1>2. QueueInv(o) /\ q \in Seq(Threads) BY DEF QueuesOK
  <1>3. /\ p \in Seq(Threads) /\ Len(p) = Len(q) - 1
        /\ \A i \in DOMAIN p : p[i] = IF i < m THEN q[i] ELSE q[i + 1]
        /\ \A i \in DOMAIN q : i # m => \E j \in DOMAIN p : p[j] = q[i]
    <2>1. \A i, j \in DOMAIN q : q[i] = q[j] => i = j BY <1>2 DEF QueueInv
    <2> HIDE DEF q
    <2> QED BY <1>1, <1>2, <2>1, WithoutIs
  <1>4. queue' = [queue EXCEPT ![o] = p] /\ \A u \in Threads \ {t} : th'[u] = th[u]
    BY DEF FutexTimeout, ThreadsOK
  <1>a. th'[t].at # "asleep" /\ th[t].at = "asleep"
    <2>1. ThreadOK(th[t]) BY DEF ThreadsOK
    <2> QED BY <2>1 DEF FutexTimeout, ThreadsOK, ThreadOK, StepOK, Fields, Woke, RwSteps, LockSteps,
                        UnlockSteps, CondSteps, MarkSteps, LoopSteps, AskSteps, LeaveSteps, SemSteps,
                        OnceSteps, WordSteps, FutexSteps
  <1> HIDE DEF p, q
  <1>5. queue'[o] = p /\ queue' \in [Objects -> Seq(Threads)] BY <1>3, <1>4 DEF QueuesOK
  <1>6. ASSUME NEW k \in Objects \ {o} PROVE QueueInv(k)'
    <2>1. queue'[k] = queue[k] BY <1>4 DEF QueuesOK
    <2>2. \A i \in DOMAIN queue[k] : queue[k][i] \in Threads \ {t}
      BY DEF QueuesOK, QueueInv
    <2>3. \A u \in Threads : th'[u].at = "asleep" => th'[u] = th[u] BY <1>4, <1>a
    <2>4. \A i \in DOMAIN queue[k] : th'[queue[k][i]] = th[queue[k][i]] BY <1>4, <2>2
    <2> QED BY <2>1, <2>3, <2>4, OtherQueue
  <1> DEFINE at(i) == IF i < m THEN i ELSE i + 1
  <1>7. \A i \in DOMAIN p : at(i) \in DOMAIN q /\ at(i) # m /\ p[i] = q[at(i)]
    BY <1>1, <1>2, <1>3
  <1>8. \A i, j \in DOMAIN p : at(i) = at(j) => i = j BY <1>1, <1>2, <1>3
  <1>9. \A i \in DOMAIN q : /\ q[i] \in Threads /\ (i # m => q[i] # t)
                            /\ th[q[i]].at = "asleep" /\ th[q[i]].obj = o
    BY <1>1, <1>2 DEF QueueInv, q
  <1>10. \A i, j \in DOMAIN q : q[i] = q[j] => i = j BY <1>2 DEF QueueInv, q
  <1> HIDE DEF at
  <1>11. QueueInv(o)'
    <2>1. \A i \in DOMAIN p : th'[p[i]].at = "asleep" /\ th'[p[i]].obj = o
      BY <1>4, <1>7, <1>9
    <2>2. \A i, j \in DOMAIN p : p[i] = p[j] => i = j BY <1>7, <1>8, <1>10
    <2>3. ASSUME NEW u \in Threads, th'[u].at = "asleep", th'[u].obj = o
          PROVE  \E j \in DOMAIN p : p[j] = u
      <3>1. u # t /\ th[u].at = "asleep" /\ th[u].obj = o BY <1>4, <1>a, <2>3
      <3>2. PICK i \in DOMAIN q : q[i] = u BY <1>2, <3>1 DEF QueueInv, q
      <3>3. i # m BY <1>1, <3>1, <3>2
      <3> QED BY <1>3, <3>2, <3>3
    <2> QED BY <1>5, <2>1, <2>2, <2>3 DEF QueueInv
  <1> QED BY <1>5, <1>6, <1>11 DEF QueuesOK

\* The shutdown's wake empties a queue as it moves its sleepers.
LEMMA StopQueues ==
  ASSUME ThreadsOK, QueuesOK, NEW o \in Objects, StopWake(o)
  PROVE  QueuesOK'
  <1>1. queue' = [queue EXCEPT ![o] = <<>>] BY DEF StopWake
  <1>2. ASSUME NEW u \in Threads, th'[u].at = "asleep"
        PROVE  th'[u] = th[u] /\ u \notin Taken(o, Everyone)
    BY <1>2, WakeMoves DEF StopWake
  <1>3. queue' \in [Objects -> Seq(Threads)] BY <1>1 DEF QueuesOK
  <1>4. ASSUME NEW k \in Objects \ {o} PROVE QueueInv(k)'
    <2>1. queue'[k] = queue[k] BY <1>1 DEF QueuesOK
    <2>2. ASSUME NEW i \in DOMAIN queue[k] PROVE th'[queue[k][i]] = th[queue[k][i]]
      <3>1. /\ queue[k][i] \in Threads /\ th[queue[k][i]].obj = k
        BY <2>2 DEF QueuesOK, QueueInv
      <3>2. queue[k][i] \notin Taken(o, Everyone) BY <3>1, WakeMoves
      <3> QED BY <3>1, <3>2 DEF StopWake
    <2>3. \A u \in Threads : th'[u].at = "asleep" => th'[u] = th[u] BY <1>2
    <2> QED BY <2>1, <2>2, <2>3, OtherQueue
  <1>5. QueueInv(o)'
    <2>1. queue'[o] = <<>> BY <1>1 DEF QueuesOK
    <2>2. ASSUME NEW u \in Threads, th'[u].at = "asleep", th'[u].obj = o PROVE FALSE
      <3>1. th[u].at = "asleep" /\ th[u].obj = o /\ u \notin Taken(o, Everyone) BY <1>2, <2>2
      <3>2. PICK i \in DOMAIN queue[o] : queue[o][i] = u BY <3>1 DEF QueuesOK, QueueInv
      <3> QED BY <3>1, <3>2, EveryoneTaken
    <2> QED BY <2>1, <2>2 DEF QueueInv
  <1> QED BY <1>3, <1>4, <1>5 DEF QueuesOK

\* The parts of the invariant that the lemmas above ask for.
LEMMA QueuesAre ==
  ASSUME TypeOK, \A o \in Objects : QueueInv(o) PROVE ThreadsOK /\ QueuesOK
  BY DEF TypeOK, QueuesOK

\* A thread in a wait sleeps on an object.
LEMMA SleepsOn ==
  ASSUME ThreadsOK, NEW t \in Threads, th[t].at \in FutexSteps
  PROVE  th[t].obj \in Objects
  BY MutexAssumption, RwAssumption, SemAssumption, OnceAssumption
  DEF ThreadsOK, ThreadOK, StepOK, OnceIs, LockOK, UnlockOK, Words, RwSteps, LockSteps, UnlockSteps,
      CondSteps, MarkSteps, LoopSteps, AskSteps, LeaveSteps, SemSteps, OnceSteps, WordSteps, FutexSteps

\* A notice is no step of a queue.
LEMMA NotifyQueues ==
  ASSUME ThreadsOK, QueuesOK, NEW x, CondNotify(x)
  PROVE  QueuesOK'
  <1>1. queue' = queue /\ \A u \in Threads : th[u].at = "asleep" => th'[u] = th[u]
    BY DEF ThreadsOK, CondNotify, At, futexVars
  <1>2. ASSUME NEW u \in Threads, th'[u].at = "asleep" PROVE th[u].at = "asleep"
    <2>1. th'[u] = th[u] \/ th'[u].at = "cond_loop"
      BY NotifyActs DEF CondNotify, At, ThreadsOK, ThreadOK, Fields
    <2> QED BY <1>2, <2>1
  <1> QED BY <1>1, <1>2, QuietQueues

\* No step of a thread leaves a sleeper unqueued, or queues one that is not asleep.
LEMMA ThreadQueues ==
  ASSUME TypeOK, \A o \in Objects : QueueInv(o), NEW t \in Threads, Thread(t)
  PROVE  QueuesOK'
  <1>0. ThreadsOK /\ QueuesOK BY QueuesAre
  <1>1. ASSUME Quiet(t), th'[t].at # "asleep" PROVE QueuesOK'
    <2>1. Acts(t) BY StepActs
    <2>2. ASSUME NEW u \in Threads, th'[u].at = "asleep" PROVE th[u].at = "asleep"
      <3>1. Moved(u) BY <1>1, <2>1, <2>2 DEF Acts
      <3>2. ThreadOK(th[u]) BY <1>0 DEF ThreadsOK
      <3> QED BY <2>2, <3>1, <3>2 DEF Moved, ThreadOK, Fields
    <2>3. \A u \in Threads : th[u].at = "asleep" => th'[u] = th[u] BY <1>1 DEF Quiet
    <2> QED BY <1>0, <1>1, <2>2, <2>3, QuietQueues DEF Quiet
  <1>2. ASSUME Waking(t), th'[t].at # "asleep" PROVE QueuesOK'
    BY <1>0, <1>2, WakingQueues
  <1>3. CASE MutexStep(t) BY <1>1, <1>2, <1>3, MutexSleeps, MutexAwake
  <1>4. CASE RwStep(t) BY <1>1, <1>2, <1>4, RwSleeps, RwAwake
  <1>5. CASE SemStep(t) BY <1>1, <1>2, <1>5, SemSleeps, SemAwake
  <1>6. CASE OnceStep(t) BY <1>1, <1>2, <1>6, OnceSleeps, OnceAwake
  <1>7. CASE Begin(t) \/ Await(t) \/ Put(t) \/ PutDone(t) \/ Store(t) \/ StoreWake(t) \/ GuestHalt(t)
    BY <1>1, <1>2, <1>7, GuestSleeps, GuestAwake
  <1>8. CASE CondStep(t) /\ ~CondNotify(t)
    <2>1. th'[t].at # "asleep" BY <1>0, <1>8, CondAwake
    <2>2. Quiet(t) BY <1>0, <1>8, CondSleeps
    <2> QED BY <1>1, <2>1, <2>2
  <1>9. CASE CondNotify(t) BY <1>0, <1>9, NotifyQueues
  <1>10. CASE FutexPark(t) BY <1>0, <1>10, SleepsOn, ParkQueues DEF FutexPark, FutexSteps
  <1>11. CASE FutexTimeout(t) BY <1>0, <1>11, SleepsOn, TimeoutQueues DEF FutexTimeout, FutexSteps
  <1>12. CASE FutexEnter(t)
    <2>1. ThreadOK(th[t]) BY <1>0 DEF ThreadsOK
    <2>2. Quiet(t) BY <1>0, <1>12 DEF Quiet, FutexEnter, ThreadsOK, futexVars
    <2>3. th'[t] = Woke(th[t], "WouldBlock") \/ th'[t] = [th[t] EXCEPT !.at = "park"]
      BY <1>0, <1>12 DEF FutexEnter, ThreadsOK
    <2>4. th[t].at = "futex" BY <1>12 DEF FutexEnter
    <2>5. th'[t].at # "asleep"
      BY <2>1, <2>3, <2>4 DEF ThreadOK, StepOK, Fields, Woke, RwSteps, LockSteps, UnlockSteps,
                              CondSteps, MarkSteps, LoopSteps, AskSteps, LeaveSteps, SemSteps,
                              OnceSteps, WordSteps, FutexSteps
    <2> QED BY <1>1, <2>2, <2>5
  <1> QED BY <1>3, <1>4, <1>5, <1>6, <1>7, <1>8, <1>9, <1>10, <1>11, <1>12 DEF Thread, CondStep

-----------------------------------------------------------------------------
(* The object a step works on, and its word.                               *)

\* t's step is one of its object, and writes no other word.
OwnWord(t) == /\ th'[t].obj = th[t].obj
              /\ word' \in [Objects -> Int]
              /\ \A o \in Objects \ {th[t].obj} : word'[o] = word[o]

\* A step works on the object of its call.
LEMMA OwnFields ==
  ASSUME ThreadsOK, NEW t \in Threads
  PROVE  /\ \A s : At(t, s) => th'[t].obj = th[t].obj
         /\ \A c : Answer(t, c) => th'[t].obj = th[t].obj
         /\ \A w, s : Wait(t, w, s) => th'[t].obj = th[t].obj
         /\ \A n : /\ TypeOK /\ (\A o \in Objects : QueueInv(o)) /\ th[t].at \notin FutexSteps
                   /\ th[t].obj \in Objects
                   => \A r : WakeAnd(th[t].obj, n, t, r) => th'[t] = r
         /\ Fields \subseteq DOMAIN th[t] /\ DOMAIN th = Threads
  <1>1. ASSUME TypeOK, \A o \in Objects : QueueInv(o), th[t].at \notin FutexSteps,
               th[t].obj \in Objects, NEW n, NEW r, WakeAnd(th[t].obj, n, t, r)
        PROVE  th'[t] = r
    BY <1>1, Rouses
  <1>2. Fields \subseteq DOMAIN th[t] /\ DOMAIN th = Threads BY DEF ThreadsOK, ThreadOK
  <1> HIDE DEF Fields
  <1> QED BY <1>1, <1>2, AtFields

\* The words an exchange or a store leaves.
LEMMA WordFields ==
  ASSUME word \in [Objects -> Int], NEW o \in Objects, NEW w \in Int, word' = [word EXCEPT ![o] = w]
  PROVE  word' \in [Objects -> Int] /\ \A k \in Objects \ {o} : word'[k] = word[k]
  OBVIOUS

\* A read-write lock's steps write its own word ...
LEMMA RwOwn ==
  ASSUME TypeOK, \A o \in Objects : QueueInv(o), NEW t \in Threads, RwStep(t)
  PROVE  th[t].obj \in RwLocks /\ OwnWord(t)
  <1>0. ThreadsOK /\ ThreadOK(th[t]) /\ word \in [Objects -> Int] BY DEF TypeOK, ThreadsOK
  <1>1. th[t].at \in RwSteps
    BY DEF RwSteps, AskSteps, LeaveSteps, RwStep, ReadWriters, ReadState, ReaderAcquire, ReaderWait,
           WriterRegister, WriterState, WriterCas, WriterWait, WriterLeave, RwUnlock, RwWake
  <1>2. th[t].obj \in RwLocks /\ th[t].obj \in Objects /\ th[t].at \notin FutexSteps
    BY <1>0, <1>1, RwAssumption DEF ThreadOK, StepOK, OnceIs, LockOK, UnlockOK, RwSteps, LockSteps,
                                    UnlockSteps, CondSteps, MarkSteps, LoopSteps, AskSteps, LeaveSteps,
                                    SemSteps, OnceSteps, WordSteps, FutexSteps
  <1>3. th'[t].obj = th[t].obj
    <2>1. CASE ReadWriters(t) BY <1>0, <2>1, OwnFields DEF ReadWriters, Fields
    <2>2. CASE ReadState(t) BY <1>0, <2>2, OwnFields DEF ReadState, Fields
    <2>3. CASE WriterState(t) BY <1>0, <2>3, OwnFields DEF WriterState, Fields
    <2>4. CASE ReaderAcquire(t) \/ ReaderWait(t) \/ WriterRegister(t) \/ WriterCas(t)
      BY <1>0, <2>4, OwnFields DEF ReaderAcquire, ReaderWait, WriterRegister, WriterCas
    <2>5. CASE WriterWait(t) \/ WriterLeave(t) \/ RwUnlock(t)
      BY <1>0, <2>5, OwnFields DEF WriterWait, WriterLeave, RwUnlock
    <2>6. CASE RwWake(t) BY <1>0, <1>2, <2>6, OwnFields DEF RwWake, Back, Fields
    <2> QED BY <2>1, <2>2, <2>3, <2>4, <2>5, <2>6 DEF RwStep
  <1>4. word' = word \/ \E w \in Int : word' = [word EXCEPT ![th[t].obj] = w]
    <2>1. WRITER \in Int /\ word[th[t].obj] \in Int BY <1>0, <1>2, EveryoneType DEF WRITER
    <2>2. CASE ReaderAcquire(t) BY <2>1, <2>2 DEF ReaderAcquire
    <2>3. CASE WriterCas(t) BY <2>1, <2>3 DEF WriterCas
    <2>4. CASE RwUnlock(t) BY <2>1, <2>4 DEF RwUnlock, FREE
    <2> QED BY <2>2, <2>3, <2>4
         DEF RwStep, ReadWriters, ReadState, ReaderWait, WriterRegister, WriterState, WriterWait,
             WriterLeave, RwWake, futexVars
  <1> QED BY <1>0, <1>2, <1>3, <1>4, WordFields DEF OwnWord

\* ... and a semaphore's ...
LEMMA SemOwn ==
  ASSUME TypeOK, \A o \in Objects : QueueInv(o), NEW t \in Threads, SemStep(t)
  PROVE  th[t].obj \in Sems /\ OwnWord(t)
  <1>0. ThreadsOK /\ ThreadOK(th[t]) /\ word \in [Objects -> Int] BY DEF TypeOK, ThreadsOK
  <1>1. th[t].at \in SemSteps
    BY DEF SemSteps, SemStep, SemRead, SemTake, SemFlag, SemReady, PostRead, PostCas, PostWake,
           PostClear
  <1>2. th[t].obj \in Sems /\ th[t].obj \in Objects /\ th[t].at \notin FutexSteps
    BY <1>0, <1>1, SemAssumption DEF ThreadOK, StepOK, OnceIs, LockOK, UnlockOK, RwSteps, LockSteps,
                                     UnlockSteps, CondSteps, MarkSteps, LoopSteps, AskSteps,
                                     LeaveSteps, SemSteps, OnceSteps, WordSteps, FutexSteps
  <1>3. th'[t].obj = th[t].obj
    <2>1. CASE SemRead(t)
      <3>1. \E w, s : th' = [th EXCEPT ![t].saw = w, ![t].at = s] BY <2>1 DEF SemRead
      <3> QED BY <1>0, <3>1, OwnFields DEF Fields
    <2>2. CASE SemTake(t) \/ PostCas(t) BY <1>0, <2>2, Exchanges, OwnFields
    <2>3. CASE SemFlag(t) BY <1>0, <2>3, OwnFields DEF SemFlag, Cas, Fields
    <2>4. CASE SemReady(t) BY <1>0, <2>4, OwnFields DEF SemReady
    <2>5. CASE PostRead(t) BY <1>0, <2>5, OwnFields DEF PostRead, Fields
    <2>6. CASE PostClear(t) BY <1>0, <2>6, OwnFields DEF PostClear
    <2>7. CASE PostWake(t)
      <3>1. PICK r \in {Step(t, "post_clear"), Back(th[t], "0")} : WakeAnd(th[t].obj, 1, t, r)
        BY <2>7 DEF PostWake
      <3>2. th'[t] = r BY <1>0, <1>2, <3>1, OwnFields
      <3> QED BY <1>0, <3>2, OwnFields DEF Fields, Back, Step
    <2> QED BY <2>1, <2>2, <2>3, <2>4, <2>5, <2>6, <2>7 DEF SemStep
  <1>4. word' = word \/ \E w \in Int : word' = [word EXCEPT ![th[t].obj] = w]
    <2>1. word[th[t].obj] \in Int /\ WAITERS \in Nat \ {0} /\ VALUE_MASK \in Nat
      BY <1>0, <1>2, SemAssumption DEF WAITERS
    <2>2. CASE SemTake(t)
      <3>1. word' = word \/ (th[t].saw \in Int /\ word' = [word EXCEPT ![th[t].obj] = th[t].saw - 1])
        BY <2>1, <2>2 DEF SemTake, Cas
      <3> QED BY <3>1
    <2>3. CASE SemFlag(t)
      <3>1. word' = word \/ (th[t].saw \in Int /\ word' = [word EXCEPT ![th[t].obj] = WithFlag(th[t].saw)])
        BY <2>1, <2>3 DEF SemFlag, Cas
      <3> QED BY <2>1, <3>1 DEF WithFlag
    <2>4. CASE PostCas(t)
      <3>1. word' = word \/ (th[t].saw \in Int /\ word' = [word EXCEPT ![th[t].obj] = th[t].saw + 1])
        BY <2>1, <2>4 DEF PostCas, Cas
      <3> QED BY <3>1
    <2>5. CASE PostClear(t)
      <3>1. Value(word[th[t].obj]) \in Int BY <2>1 DEF Value
      <3> QED BY <2>5, <3>1 DEF PostClear
    <2> QED BY <2>2, <2>3, <2>4, <2>5
         DEF SemStep, SemRead, SemReady, PostRead, PostWake, futexVars
  <1> QED BY <1>0, <1>2, <1>3, <1>4, WordFields DEF OwnWord

\* ... a routine's ...
LEMMA OnceOwn ==
  ASSUME TypeOK, \A o \in Objects : QueueInv(o), NEW t \in Threads, OnceStep(t)
  PROVE  th[t].obj \in Onces /\ OwnWord(t)
  <1>0. ThreadsOK /\ ThreadOK(th[t]) /\ word \in [Objects -> Int] BY DEF TypeOK, ThreadsOK
  <1>1. th[t].at \in OnceSteps
    BY DEF OnceSteps, OnceStep, OnceRead, OnceCas, OnceRun, OnceDone, OnceWake, OnceWait, OnceWoke
  <1>2. th[t].obj \in Onces /\ th[t].obj \in Objects /\ th[t].at \notin FutexSteps
    BY <1>0, <1>1, OnceAssumption DEF ThreadOK, StepOK, OnceIs, LockOK, UnlockOK, RwSteps, LockSteps,
                                      UnlockSteps, CondSteps, MarkSteps, LoopSteps, AskSteps,
                                      LeaveSteps, SemSteps, OnceSteps, WordSteps, FutexSteps
  <1>3. th'[t].obj = th[t].obj
    <2>1. CASE OnceRead(t) \/ OnceCas(t) \/ OnceDone(t) \/ OnceWait(t) \/ OnceWoke(t)
      BY <1>0, <2>1, OwnFields DEF OnceRead, OnceCas, OnceDone, OnceWait, OnceWoke
    <2>2. CASE OnceRun(t) BY <1>0, <2>2, OwnFields DEF OnceRun, Fields
    <2>3. CASE OnceWake(t)
      <3>1. PICK r \in {[th[t] EXCEPT !.at = "stopped"], Back(th[t], "0")} :
               WakeAnd(th[t].obj, Everyone, t, r)
        BY <2>3 DEF OnceWake
      <3>2. th'[t] = r BY <1>0, <1>2, <3>1, OwnFields
      <3> QED BY <1>0, <3>2, OwnFields DEF Fields, Back
    <2> QED BY <2>1, <2>2, <2>3 DEF OnceStep
  <1>4. word' = word \/ \E w \in Int : word' = [word EXCEPT ![th[t].obj] = w]
    <2>1. IN_PROGRESS \in Int /\ DONE \in Int BY DEF IN_PROGRESS, DONE
    <2>2. CASE OnceCas(t) BY <2>1, <2>2 DEF OnceCas
    <2>3. CASE OnceDone(t) BY <2>1, <2>3 DEF OnceDone
    <2> QED BY <2>2, <2>3 DEF OnceStep, OnceRead, OnceRun, OnceWake, OnceWait, OnceWoke, futexVars
  <1> QED BY <1>0, <1>2, <1>3, <1>4, WordFields DEF OwnWord

\* ... and the guest's store.
LEMMA StoreOwn ==
  ASSUME TypeOK, \A o \in Objects : QueueInv(o), NEW t \in Threads, Store(t) \/ StoreWake(t)
  PROVE  th[t].obj \in Words /\ OwnWord(t)
  <1>0. ThreadsOK /\ ThreadOK(th[t]) /\ word \in [Objects -> Int] BY DEF TypeOK, ThreadsOK
  <1>1. th[t].at \in WordSteps BY DEF WordSteps, Store, StoreWake
  <1>2. th[t].obj \in Words /\ th[t].obj \in Objects /\ th[t].at \notin FutexSteps
    BY <1>0, <1>1 DEF Words, ThreadOK, StepOK, OnceIs, LockOK, UnlockOK, RwSteps, LockSteps,
                      UnlockSteps, CondSteps, MarkSteps, LoopSteps, AskSteps, LeaveSteps, SemSteps,
                      OnceSteps, WordSteps, FutexSteps
  <1>3. th'[t].obj = th[t].obj
    <2>1. CASE Store(t) BY <1>0, <2>1, OwnFields DEF Store
    <2>2. CASE StoreWake(t) BY <1>0, <1>2, <2>2, OwnFields DEF StoreWake, Back, Fields
    <2> QED BY <2>1, <2>2
  <1>4. word' = word \/ word' = [word EXCEPT ![th[t].obj] = 1] BY DEF Store, StoreWake
  <1> QED BY <1>0, <1>2, <1>3, <1>4, WordFields DEF OwnWord

-----------------------------------------------------------------------------
(* Every step keeps the mutexes.                                           *)

\* A step of t on its object that comes to a holder's step from one.
OnHold(t) ==
  /\ th'[t].obj = th[t].obj /\ th[t].at # "clear"
  /\ th'[t].at \notin {"own", "clear", "publish"}
  /\ th'[t].at \in HoldSteps => th[t].at \in HoldSteps

\* Such a step keeps every mutex.
LEMMA OnHoldKeeps ==
  ASSUME NEW t \in Threads, OnHold(t), NEW m \in Mutexes, MutexInv(m)
  PROVE  Keeps(t, m)
  BY DEF OnHold, Keeps, MutexInv, HolderOK

MutexesOK == \A m \in Mutexes : MutexInv(m)

\* A step of another primitive.
LEMMA OffMutex ==
  ASSUME TypeOK, MutexesOK, NEW t \in Threads, Acts(t), OwnWord(t), th[t].obj \notin Mutexes,
         UNCHANGED mutexVars
  PROVE  MutexesOK'
  <1> SUFFICES ASSUME NEW m \in Mutexes PROVE MutexInv(m)'
    BY DEF MutexesOK
  <1>1. word'[m] = word[m] BY MutexAssumption DEF OwnWord
  <1>2. owners'[m] = owners[m] /\ \A u \in Threads : holds'[u][m] = holds[u][m]
    BY DEF mutexVars
  <1>3. MutexInv(m) /\ ThreadsOK BY DEF MutexesOK, TypeOK
  <1>4. Keeps(t, m) BY <1>3, Turnless DEF OwnWord
  <1> QED BY <1>1, <1>2, <1>3, <1>4, MutexElsewhere

\* A step that writes no word.
LEMMA WordlessKeeps ==
  ASSUME TypeOK, MutexesOK, NEW t \in Threads, Acts(t), word' = word, UNCHANGED mutexVars,
         \A m \in Mutexes : Keeps(t, m)
  PROVE  MutexesOK'
  <1> SUFFICES ASSUME NEW m \in Mutexes PROVE MutexInv(m)'
    BY DEF MutexesOK
  <1>1. owners'[m] = owners[m] /\ \A u \in Threads : holds'[u][m] = holds[u][m] BY DEF mutexVars
  <1>2. MutexInv(m) /\ ThreadsOK BY DEF MutexesOK, TypeOK
  <1> QED BY <1>1, <1>2, MutexElsewhere

\* A step of a mutex keeps it, and touches no other.
LEMMA MutexStepKeeps ==
  ASSUME TypeOK, MutexesOK, \A o \in Objects : QueueInv(o), NEW t \in Threads, Acts(t), MutexStep(t)
  PROVE  OnlyItsOwn(t) /\ MutexesOK'
  <1>1. th[t].at \in LockSteps \cup UnlockSteps
    BY DEF LockSteps, UnlockSteps, MutexStep, LockAgain, LockDeadlock, LockLook, LockCas, LockOwn,
           Contend,
           ContendMark, ContendReady, ContendWoke, Unlock, UnlockClear, UnlockPublish, UnlockWake
  <1>2. PICK m : m = th[t].obj OBVIOUS
  <1>3. AtMutex(t, m) BY <1>1, <1>2, IsAtMutex DEF MutexesOK
  <1>4. Tables /\ QueueInv(m) BY <1>3, IsTables DEF AtMutex
  <1>5. OnlyItsOwn(t) /\ MutexInv(m)'
    BY <1>3, <1>4, LockAgainKeeps, LockDeadlockKeeps, LockLookKeeps, LockCasKeeps, LockOwnKeeps, ContendKeeps,
       UnlockKeeps, UnlockClearKeeps, UnlockPublishKeeps, UnlockWakeKeeps
    DEF MutexStep
  <1>6. \A k \in Mutexes : MutexInv(k)' BY <1>2, <1>5, OnItsOwn DEF MutexesOK
  <1> QED BY <1>5, <1>6 DEF MutexesOK

\* A sleep is part of the call it is in.
LEMMA FutexHolds ==
  ASSUME ThreadsOK, NEW t \in Threads, FutexEnter(t) \/ FutexPark(t) \/ FutexTimeout(t)
  PROVE  OnHold(t) /\ th'[t].at \notin {"wr_leave", "rwunlock"} /\ Where(th'[t]) = Where(th[t])
  <1>0. ThreadOK(th[t]) BY DEF ThreadsOK
  <1>1. th[t].at \in FutexSteps BY DEF FutexSteps, FutexEnter, FutexPark, FutexTimeout
  <1>2. /\ th'[t].obj = th[t].obj
        /\ \/ th'[t].at = th[t].then
           \/ th'[t].at \in {"park", "asleep"} /\ th'[t].then = th[t].then
    <2>1. Fields \subseteq DOMAIN th[t] /\ DOMAIN th = Threads BY <1>0 DEF ThreadsOK, ThreadOK
    <2>2. \/ \E r : th' = [th EXCEPT ![t] = Woke(th[t], r)]
          \/ \E s \in {"park", "asleep"} : th' = [th EXCEPT ![t] = [th[t] EXCEPT !.at = s]]
      BY DEF FutexEnter, FutexPark, FutexTimeout, At
    <2>3. ASSUME NEW r, th' = [th EXCEPT ![t] = Woke(th[t], r)]
          PROVE  th'[t].obj = th[t].obj /\ th'[t].at = th[t].then
      BY <2>1, <2>3 DEF Woke, Fields
    <2>4. ASSUME NEW s \in {"park", "asleep"}, th' = [th EXCEPT ![t] = [th[t] EXCEPT !.at = s]]
          PROVE  th'[t].obj = th[t].obj /\ th'[t].at = s /\ th'[t].then = th[t].then
      BY <2>1, <2>4 DEF Fields
    <2> QED BY <2>2, <2>3, <2>4
  <1>3. th[t].then \in {"contend_woke", "rdlock", "wr_state", "semwait", "once_woke", "idle"}
    BY <1>0, <1>1 DEF ThreadOK, StepOK, RwSteps, LockSteps, UnlockSteps, CondSteps, MarkSteps,
                      LoopSteps, AskSteps, LeaveSteps, SemSteps, OnceSteps, WordSteps, FutexSteps
  <1> QED BY <1>1, <1>2, <1>3
       DEF OnHold, HoldSteps, MarkSteps, LoopSteps, FutexSteps, Where

\* A wait on a condition, and a signal, are their holder's.
LEMMA CondHolds ==
  ASSUME ThreadsOK, NEW t \in Threads, CondStep(t), ~CondNotify(t)
  PROVE  OnHold(t) /\ th[t].obj \in Mutexes
  <1>0. ThreadOK(th[t]) BY DEF ThreadsOK
  <1>1. th[t].at \in CondSteps \cup MarkSteps
    BY DEF CondSteps, MarkSteps, CondStep, CondRegister, CondLoop, CondTimer, CondLeave, CondReturn,
           CondSignal,
           CondBroadcast, CondSignalled
  <1>2. /\ th[t].obj \in Mutexes /\ (th[t].at \in MarkSteps => th[t].back = "set_done")
        /\ th[t].ret \in {"idle", "await_woke"}
    BY <1>0, <1>1 DEF ThreadOK, StepOK, RwSteps, LockSteps, UnlockSteps, CondSteps, MarkSteps,
                      LoopSteps, AskSteps, LeaveSteps, SemSteps, OnceSteps, WordSteps, FutexSteps
  <1> USE DEF OnHold, HoldSteps, MarkSteps, LoopSteps
  <1>3. CASE CondRegister(t) BY <1>2, <1>3, OwnFields DEF CondRegister, Fields
  <1>4. CASE CondLoop(t) BY <1>2, <1>4, OwnFields DEF CondLoop, At, Fields
  <1>5. CASE CondTimer(t) BY <1>2, <1>5, OwnFields DEF CondTimer, At, Fields
  <1>6. CASE CondLeave(t) BY <1>2, <1>6, OwnFields DEF CondLeave, Fields
  <1>7. CASE CondReturn(t) BY <1>0, <1>2, <1>7, OwnFields DEF CondReturn, Fields
  <1>8. CASE CondSignal(t) \/ CondBroadcast(t)
    BY <1>2, <1>8, OwnFields DEF CondSignal, CondBroadcast, CondMark, At, Fields
  <1>9. CASE CondSignalled(t)
    BY <1>0, <1>2, <1>9, OwnFields DEF CondSignalled, Answer, Back, Fields
  <1> QED BY <1>2, <1>3, <1>4, <1>5, <1>6, <1>7, <1>8, <1>9 DEF CondStep

\* The predicate loop lets go of the mutex or waits.
LEMMA AwaitIs ==
  ASSUME ThreadsOK, NEW t \in Threads, Await(t)
  PROVE  /\ th'[t].at \in {"unlock", "wait"}
         /\ th'[t].obj = th[t].obj /\ th'[t].pc = th[t].pc
  <1>1. Fields \subseteq DOMAIN th[t] /\ DOMAIN th = Threads BY DEF ThreadsOK, ThreadOK
  <1>2. CASE items[th[t].cond] > 0
    <2>1. th' = [th EXCEPT ![t] = [[th[t] EXCEPT !.at = "unlock"] EXCEPT !.back = "idle"]]
      BY <1>2 DEF Await
    <2> QED BY <1>1, <2>1 DEF Fields
  <1>3. CASE ~(items[th[t].cond] > 0) /\ th[t].at = "await_woke" /\ th[t].answer = "ETIMEDOUT"
    <2>1. th' = [th EXCEPT ![t] = [th[t] EXCEPT !.at = "unlock", !.back = "idle"]]
      BY <1>3 DEF Await
    <2> QED BY <1>1, <2>1 DEF Fields
  <1>4. CASE ~(items[th[t].cond] > 0) /\ ~(th[t].at = "await_woke" /\ th[t].answer = "ETIMEDOUT")
    <2>1. th' = [th EXCEPT ![t] = [th[t] EXCEPT !.at = "wait", !.timed = Now(t).timed]]
      BY <1>4 DEF Await
    <2> QED BY <1>1, <2>1 DEF Fields
  <1> QED BY <1>2, <1>3, <1>4

\* The predicate loop is its holder's.
LEMMA LoopHolds ==
  ASSUME ThreadsOK, NEW t \in Threads, Await(t) \/ Put(t) \/ PutDone(t) \/ GuestHalt(t)
  PROVE  OnHold(t) /\ th'[t].at \notin AskSteps \cup {"rwunlock"} \cup FutexSteps
  <1> USE DEF OnHold, HoldSteps, MarkSteps, LoopSteps, AskSteps, FutexSteps
  <1>1. CASE Await(t)
    <2>1. th[t].at \in {"await_locked", "await_woke"} BY <1>1 DEF Await
    <2> QED BY <1>1, <2>1, AwaitIs
  <1>2. CASE Put(t) BY <1>2, OwnFields DEF Put, Fields
  <1>3. CASE PutDone(t) BY <1>3, OwnFields DEF PutDone, Fields
  <1>4. CASE GuestHalt(t) BY <1>4, OwnFields DEF GuestHalt, GuestSteps, At, Fields
  <1> QED BY <1>1, <1>2, <1>3, <1>4

\* A call begun is one the thread may make.
LEMMA BeginIs ==
  ASSUME TypeOK, NEW t \in Threads, Begin(t)
  PROVE  /\ th[t].at = "idle"
         /\ \/ th'[t].at = "idle" /\ th'[t].obj = th[t].obj
            \/ \E call \in Call : /\ Held(t, call) /\ th'[t].at = First(call.op)
                                  /\ th'[t].obj = call.obj /\ th'[t].then = th[t].then
  <1>0. ThreadsOK BY DEF TypeOK
  <1> DEFINE call == scenario.calls[t][th[t].pc + 1]
  <1>1. call \in Call BY CallOK DEF Begin
  <1>2. CASE Held(t, call)
    <2>1. th' = [th EXCEPT ![t] = Started([th[t] EXCEPT !.pc = @ + 1], call)]
      BY <1>2 DEF Begin
    <2> HIDE DEF call
    <2>2. /\ th'[t].at = First(call.op) /\ th'[t].obj = call.obj /\ th'[t].then = th[t].then
      BY <1>0, <2>1, OwnFields DEF Started, Fields
    <2> QED BY <1>1, <1>2, <2>2 DEF Begin
  <1>3. CASE ~Held(t, call)
    <2>1. th' = [th EXCEPT ![t] = [th[t] EXCEPT !.pc = @ + 1]]
      BY <1>3 DEF Begin
    <2> QED BY <1>0, <2>1, OwnFields DEF Fields, Begin
  <1> QED BY <1>2, <1>3

\* A guest begins to unlock what it holds.
LEMMA BeginKeeps ==
  ASSUME TypeOK, NEW t \in Threads, Begin(t), NEW m \in Mutexes
  PROVE  Keeps(t, m)
  <1>1. th[t].at = "idle" BY BeginIs
  <1> USE DEF Keeps, HoldSteps, MarkSteps, LoopSteps
  <1>2. CASE th'[t].at = "idle" BY <1>1, <1>2
  <1>3. ASSUME NEW call \in Call, Held(t, call), th'[t].at = First(call.op), th'[t].obj = call.obj
        PROVE  Keeps(t, m)
    <2>1. First(call.op) \in HoldSteps \cup {"own", "clear", "publish"} => call.op = "unlock"
      BY DEF First, Call, On
    <2>2. First(call.op) \in HoldSteps => holds[t][call.obj] > 0 BY <1>3, <2>1 DEF Held
    <2>3. First(call.op) \notin {"own", "clear", "publish"} BY DEF First, Call, On
    <2> QED BY <1>1, <1>3, <2>2, <2>3
  <1> QED BY <1>2, <1>3, BeginIs

\* No step of a thread gives a mutex a second holder.
LEMMA ThreadMutexes ==
  ASSUME TypeOK, MutexesOK, \A o \in Objects : QueueInv(o), NEW t \in Threads, Thread(t)
  PROVE  MutexesOK'
  <1>0. ThreadsOK /\ Acts(t) BY StepActs DEF TypeOK
  <1>1. CASE MutexStep(t) BY <1>0, <1>1, MutexStepKeeps
  <1>2. ASSUME OnHold(t), word' = word, UNCHANGED mutexVars PROVE MutexesOK'
    BY <1>0, <1>2, OnHoldKeeps, WordlessKeeps DEF MutexesOK
  <1>3. CASE (FutexEnter(t) \/ FutexPark(t) \/ FutexTimeout(t)) /\ UNCHANGED notSem
    <2>1. word' = word BY <1>3 DEF FutexEnter, FutexPark, FutexTimeout, futexVars
    <2>2. UNCHANGED mutexVars BY <1>3 DEF notSem
    <2>3. OnHold(t) BY <1>0, <1>3, FutexHolds
    <2> QED BY <1>2, <2>1, <2>2, <2>3
  <1>4. CASE CondStep(t) /\ ~CondNotify(t)
    <2>1. word' = word /\ UNCHANGED mutexVars
      BY <1>4 DEF CondStep, CondRegister, CondLoop, CondTimer, CondLeave, CondReturn, CondSignal,
                  CondBroadcast,
                  CondMark, CondSignalled, futexVars
    <2> QED BY <1>0, <1>2, <1>4, <2>1, CondHolds
  <1>5. CASE CondNotify(t)
    <2>1. word' = word /\ UNCHANGED mutexVars BY <1>5 DEF CondNotify, futexVars
    <2>2. Moved(t) BY <1>0, <1>5, NotifyActs
    <2> QED BY <1>0, <2>1, <2>2, MovedKeeps, WordlessKeeps DEF MutexesOK
  <1>6. CASE RwStep(t) /\ UNCHANGED notRw
    BY <1>0, <1>6, RwOwn, OffMutex, KindsAssumption DEF notRw
  <1>7. CASE SemStep(t) /\ UNCHANGED notSem
    BY <1>0, <1>7, SemOwn, OffMutex, KindsAssumption DEF notSem
  <1>8. CASE OnceStep(t) /\ UNCHANGED notOnce
    BY <1>0, <1>8, OnceOwn, OffMutex, KindsAssumption DEF notOnce
  <1>9. CASE Store(t) \/ StoreWake(t)
    <2>1. th[t].obj \notin Mutexes BY <1>9, StoreOwn DEF Words
    <2>2. UNCHANGED mutexVars BY <1>9 DEF Store, StoreWake, notSem
    <2> QED BY <1>0, <1>9, <2>1, <2>2, StoreOwn, OffMutex
  <1>10. CASE Await(t) \/ Put(t) \/ PutDone(t) \/ GuestHalt(t)
    <2>1. word' = word /\ UNCHANGED mutexVars
      BY <1>10 DEF Await, Put, PutDone, GuestHalt, futexVars, notSem
    <2> QED BY <1>0, <1>2, <1>10, <2>1, LoopHolds
  <1>11. CASE Begin(t)
    <2>1. word' = word /\ UNCHANGED mutexVars BY <1>11 DEF Begin, futexVars, notSem
    <2> QED BY <1>0, <1>11, <2>1, BeginKeeps, WordlessKeeps
  <1> QED BY <1>1, <1>3, <1>4, <1>5, <1>6, <1>7, <1>8, <1>9, <1>10, <1>11 DEF Thread

-----------------------------------------------------------------------------
(* Read-write locks.                                                       *)

RwLocksOK == \A o \in RwLocks : RwInv(o)

\* A thread's step that leaves o's word and holders as they are.
RwKeeps(u, o) ==
  /\ (th'[u].obj = o /\ th'[u].at = "wr_leave") <=> (th[u].obj = o /\ th[u].at = "wr_leave")
  /\ th'[u].obj = o => /\ Where(th'[u]) \in AskSteps => rwholds[u][o] = "none"
                       /\ th'[u].at = "rwunlock" => rwholds[u][o] # "none"

\* A lock that a step leaves keeps its invariant.
LEMMA RwFrame ==
  ASSUME NEW o \in RwLocks, RwInv(o), word'[o] = word[o],
         \A u \in Threads : rwholds'[u][o] = rwholds[u][o] /\ RwKeeps(u, o)
  PROVE  RwInv(o)'
  <1>1. \A u \in Threads : Writes(u, o)' <=> Writes(u, o) BY DEF Writes, RwKeeps
  <1>2. Readers(o)' = Readers(o) BY DEF Readers
  <1>3. WRITER' = WRITER BY DEF WRITER, Everyone
  <1>4. \A u \in Threads : th'[u].obj = o =>
          /\ Where(th'[u]) \in AskSteps => rwholds'[u][o] = "none"
          /\ th'[u].at = "rwunlock" => rwholds'[u][o] # "none"
    BY DEF RwKeeps
  <1> QED BY <1>1, <1>2, <1>3, <1>4 DEF RwInv

\* A thread that is only woken leaves it.
LEMMA MovedRw ==
  ASSUME ThreadsOK, NEW u \in Threads, Moved(u), NEW o \in RwLocks, RwInv(o)
  PROVE  RwKeeps(u, o)
  <1>1. ThreadOK(th[u]) BY DEF ThreadsOK
  <1>2. CASE th'[u] = th[u] BY <1>2 DEF RwKeeps, RwInv
  <1>3. CASE th[u].at = "asleep" /\ th'[u] = Woke(th[u], "Woken")
    <2>1. th'[u].at = th[u].then /\ th'[u].obj = th[u].obj
      BY <1>1, <1>3 DEF Woke, ThreadOK, Fields
    <2>2. th[u].then \in {"contend_woke", "rdlock", "wr_state", "semwait", "once_woke", "idle"}
      BY <1>1, <1>3 DEF ThreadOK, StepOK, RwSteps, LockSteps, UnlockSteps, CondSteps, MarkSteps,
                        LoopSteps, AskSteps, LeaveSteps, SemSteps, OnceSteps, WordSteps, FutexSteps
    <2>3. Where(th'[u]) = Where(th[u]) BY <1>3, <2>1, <2>2 DEF Where, FutexSteps
    <2> QED BY <1>3, <2>1, <2>2, <2>3 DEF RwKeeps, RwInv
  <1>4. CASE th[u].at = "cond_asleep" /\ th'[u] = [th[u] EXCEPT !.at = "cond_loop"]
    <2>1. th'[u].at = "cond_loop" BY <1>1, <1>4 DEF ThreadOK, Fields
    <2> QED BY <1>4, <2>1 DEF RwKeeps, Where, AskSteps, FutexSteps
  <1> QED BY <1>2, <1>3, <1>4 DEF Moved

\* A step that takes, gives back or asks for no hold of o.
LEMMA RwElsewhere ==
  ASSUME ThreadsOK, NEW t \in Threads, Acts(t), NEW o \in RwLocks, RwInv(o),
         word'[o] = word[o], \A u \in Threads : rwholds'[u][o] = rwholds[u][o], RwKeeps(t, o)
  PROVE  RwInv(o)'
  <1>1. ASSUME NEW u \in Threads PROVE RwKeeps(u, o)
    BY MovedRw DEF Acts
  <1> QED BY <1>1, RwFrame

\* The other threads, at a step that writes o's word.
LEMMA RwOthers ==
  ASSUME ThreadsOK, NEW t \in Threads, Acts(t), NEW o \in RwLocks, RwInv(o),
         \A u \in Threads \ {t} : rwholds'[u][o] = rwholds[u][o]
  PROVE  \A u \in Threads \ {t} :
           /\ Writes(u, o)' <=> Writes(u, o)
           /\ th'[u].obj = o => /\ Where(th'[u]) \in AskSteps => rwholds'[u][o] = "none"
                                /\ th'[u].at = "rwunlock" => rwholds'[u][o] # "none"
  <1>1. ASSUME NEW u \in Threads \ {t} PROVE RwKeeps(u, o)
    BY MovedRw DEF Acts
  <1> QED BY <1>1 DEF RwKeeps, Writes

\* The count of the readers is short of the sentinel.
LEMMA ReadersCount ==
  ASSUME NEW o \in RwLocks
  PROVE  /\ Readers(o) \subseteq Threads /\ IsFiniteSet(Readers(o))
         /\ Cardinality(Readers(o)) \in Nat /\ Cardinality(Readers(o)) < WRITER
         /\ Cardinality(Readers(o)) = 0 <=> Readers(o) = {}
         /\ WRITER \in Nat \ {0}
  <1>1. Readers(o) \in SUBSET Threads BY DEF Readers
  <1>2. IsFiniteSet(Readers(o)) /\ Cardinality(Readers(o)) <= Everyone
    BY <1>1, FS_Subset, FutexAssumption DEF Everyone
  <1>3. Cardinality(Readers(o)) \in Nat BY <1>2, FS_CardinalityType
  <1>4. Cardinality(Readers(o)) = 0 <=> Readers(o) = {} BY <1>2, FS_EmptySet
  <1> QED BY <1>1, <1>2, <1>3, <1>4, EveryoneType DEF WRITER

\* What is known of t and the lock o of its call.
AtLock(t, o) ==
  /\ o \in RwLocks /\ o \in Objects /\ o = th[t].obj /\ RwInv(o)
  /\ th'[t].obj = o /\ th[t].back = "idle" /\ th[t].at \in RwSteps
  /\ (th'[t].at \notin FutexSteps => Where(th'[t]) = th'[t].at) /\ Where(th[t]) = th[t].at

\* A thread in a call of a read-write lock is on one.
LEMMA IsAtLock ==
  ASSUME TypeOK, RwLocksOK, \A o \in Objects : QueueInv(o), NEW t \in Threads, RwStep(t)
  PROVE  AtLock(t, th[t].obj)
  <1>1. ThreadOK(th[t]) BY DEF TypeOK, ThreadsOK
  <1>2. th[t].obj \in RwLocks /\ th'[t].obj = th[t].obj BY RwOwn DEF OwnWord
  <1>3. th[t].at \in RwSteps
    BY DEF RwSteps, AskSteps, LeaveSteps, RwStep, ReadWriters, ReadState, ReaderAcquire, ReaderWait,
           WriterRegister, WriterState, WriterCas, WriterWait, WriterLeave, RwUnlock, RwWake
  <1>4. th[t].back = "idle" /\ th[t].at \notin FutexSteps
    BY <1>1, <1>3 DEF ThreadOK, StepOK, OnceIs, RwSteps, LockSteps, UnlockSteps, CondSteps, MarkSteps,
                      LoopSteps, AskSteps, LeaveSteps, SemSteps, OnceSteps, WordSteps, FutexSteps
  <1> QED BY <1>2, <1>3, <1>4, RwAssumption DEF AtLock, RwLocksOK, Where

\* Steps that neither take nor give back a hold.
LEMMA RwAskKeeps ==
  ASSUME TypeOK, \A o \in Objects : QueueInv(o), NEW t \in Threads, Acts(t), RwStep(t),
         NEW o, AtLock(t, o), word' = word, rwholds' = rwholds
  PROVE  RwInv(o)'
  <1>0. ThreadsOK /\ ThreadOK(th[t]) BY DEF TypeOK, ThreadsOK
  <1>1. o \in RwLocks /\ th[t].obj = o /\ th'[t].obj = o /\ RwInv(o) BY DEF AtLock
  <1> USE DEF AskSteps, FutexSteps
  <1>2. CASE th[t].at \in AskSteps /\ th[t].at # "wr_leave" /\ th'[t].at \in AskSteps /\ th'[t].at # "wr_leave"
    <2>1. rwholds[t][o] = "none" BY <1>1, <1>2 DEF AtLock, RwInv
    <2>2. RwKeeps(t, o) BY <1>1, <1>2, <2>1 DEF RwKeeps
    <2> QED BY <1>0, <1>1, <2>2, RwElsewhere
  <1>3. CASE th'[t].at \in {"idle", "rw_wake"} /\ th[t].at # "wr_leave"
    <2>1. RwKeeps(t, o) BY <1>1, <1>3 DEF RwKeeps, AtLock
    <2> QED BY <1>0, <1>1, <2>1, RwElsewhere
  <1>4. CASE th[t].at \in {"rd_wait", "wr_wait"} /\ th'[t].at = "futex"
    <2>1. rwholds[t][o] = "none" BY <1>1, <1>4 DEF AtLock, RwInv
    <2>2. RwKeeps(t, o) BY <1>1, <1>4, <2>1 DEF RwKeeps
    <2> QED BY <1>0, <1>1, <2>2, RwElsewhere
  <1>5. CASE ReadWriters(t) BY <1>0, <1>2, <1>5, OwnFields DEF ReadWriters, Fields
  <1>6. CASE ReadState(t) BY <1>0, <1>2, <1>6, OwnFields DEF ReadState, Fields
  <1>7. CASE WriterState(t) BY <1>0, <1>2, <1>7, OwnFields DEF WriterState, Fields
  <1>8. CASE WriterRegister(t) BY <1>0, <1>2, <1>8, AtFields DEF WriterRegister
  <1>9. CASE ReaderWait(t) \/ WriterWait(t) BY <1>0, <1>4, <1>9, AtFields DEF ReaderWait, WriterWait
  <1>10. CASE RwWake(t)
    <2>1. th[t].obj \in Objects BY DEF AtLock
    <2>2. th'[t] = Back(th[t], "0") BY <1>0, <1>10, <2>1, OwnFields DEF RwWake, FutexSteps
    <2>3. th'[t].at = "idle" BY <1>0, <2>2, OwnFields DEF AtLock, Back, Fields
    <2> QED BY <1>3, <1>10, <2>3 DEF RwWake
  <1>11. CASE ReaderAcquire(t)
    <2>1. word[o] \in Int /\ DOMAIN word = Objects BY DEF TypeOK, AtLock
    <2>2. ~(word' = [word EXCEPT ![o] = @ + 1])
      <3>1. [word EXCEPT ![o] = @ + 1][o] = word[o] + 1 BY <2>1 DEF AtLock
      <3> QED BY <2>1, <3>1
    <2>3. At(t, "rd_wait") BY <1>1, <1>11, <2>2 DEF ReaderAcquire
    <2> QED BY <1>0, <1>2, <1>11, <2>3, AtFields DEF ReaderAcquire
  <1>12. CASE WriterCas(t)
    <2>1. WRITER # FREE BY EveryoneType DEF WRITER, FREE
    <2>2. word[o] # FREE
      <3>1. [word EXCEPT ![o] = WRITER][o] = WRITER BY DEF TypeOK, AtLock
      <3> QED BY <1>1, <1>12, <2>1, <3>1 DEF WriterCas
    <2>3. At(t, "wr_wait") BY <1>1, <1>12, <2>2 DEF WriterCas
    <2> QED BY <1>0, <1>2, <1>12, <2>3, AtFields DEF WriterCas
  <1>13. CASE WriterLeave(t)
    <2>1. rwholds'[t][o] = "write" BY <1>1, <1>13 DEF WriterLeave, Hold, TypeOK
    <2>2. rwholds[t][o] = "none" BY <1>1, <1>13 DEF WriterLeave, AtLock, RwInv
    <2> QED BY <2>1, <2>2
  <1>14. CASE RwUnlock(t)
    <2>1. rwholds[t][o] # "none" BY <1>1, <1>14 DEF RwUnlock, RwInv
    <2>2. ~Hold(t, "none") BY <1>1, <2>1 DEF Hold, TypeOK
    <2>3. Answer(t, "EPERM") BY <1>14, <2>2 DEF RwUnlock
    <2>4. th'[t].at = "idle" BY <1>0, <2>3, AtFields DEF AtLock
    <2> QED BY <1>3, <1>14, <2>4 DEF RwUnlock
  <1> QED BY <1>5, <1>6, <1>7, <1>8, <1>9, <1>10, <1>11, <1>12, <1>13, <1>14 DEF RwStep

\* A hold told by a call changes the entry of one thread and lock.
LEMMA Holding ==
  ASSUME TypeOK, NEW t \in Threads, NEW o \in RwLocks, o = th[t].obj, NEW kind, Hold(t, kind)
  PROVE  /\ rwholds'[t][o] = kind
         /\ \A u \in Threads \ {t} : rwholds'[u][o] = rwholds[u][o]
         /\ \A k \in RwLocks \ {o} : \A u \in Threads : rwholds'[u][k] = rwholds[u][k]
  BY DEF TypeOK, Hold

\* One reader more is counted, and no writer was there.
LEMMA ReaderAcquireKeeps ==
  ASSUME TypeOK, NEW t \in Threads, Acts(t), ReaderAcquire(t), NEW o, AtLock(t, o),
         Hold(t, "read"), word' = [word EXCEPT ![o] = @ + 1]
  PROVE  RwInv(o)'
  <1>0. /\ ThreadsOK /\ o \in RwLocks /\ o \in Objects /\ o = th[t].obj /\ RwInv(o)
        /\ th[t].at = "rd_acquire" /\ word[o] # WRITER /\ th'[t].at = "idle"
        /\ word'[o] = word[o] + 1
    <2>1. th[t].at = "rd_acquire" BY DEF ReaderAcquire
    <2>2. word'[o] = word[o] + 1 /\ word[o] \in Int BY DEF TypeOK, AtLock
    <2>3. word' # word BY <2>2
    <2>4. Answer(t, "0") /\ word[o] # WRITER BY <2>3 DEF ReaderAcquire, AtLock
    <2> QED BY <2>1, <2>2, <2>4, AtFields DEF TypeOK, AtLock
  <1>1. /\ rwholds'[t][o] = "read" /\ \A u \in Threads \ {t} : rwholds'[u][o] = rwholds[u][o]
    BY <1>0, Holding
  <1>2. rwholds[t][o] = "none" BY <1>0 DEF AtLock, RwInv, AskSteps
  <1>3. \A u \in Threads : ~Writes(u, o) BY <1>0 DEF RwInv
  <1>4. \A u \in Threads : ~Writes(u, o)' BY <1>0, <1>1, <1>3, RwOthers DEF Writes
  <1>5. Readers(o)' = Readers(o) \cup {t} /\ t \notin Readers(o) BY <1>1, <1>2 DEF Readers
  <1>6. Cardinality(Readers(o)') = Cardinality(Readers(o)) + 1
    <2>1. IsFiniteSet(Readers(o)) BY <1>0, ReadersCount
    <2>2. Cardinality(Readers(o) \cup {t}) = Cardinality(Readers(o)) + 1
      BY <1>5, <2>1, FS_AddElement
    <2> QED BY <1>5, <2>2
  <1>7. word'[o] = Cardinality(Readers(o)') BY <1>0, <1>3, <1>6 DEF RwInv
  <1>8. Where(th'[t]) = "idle" BY <1>0 DEF Where, FutexSteps
  <1>9. \A u \in Threads : th'[u].obj = o =>
          /\ Where(th'[u]) \in AskSteps => rwholds'[u][o] = "none"
          /\ th'[u].at = "rwunlock" => rwholds'[u][o] # "none"
    BY <1>0, <1>1, <1>8, RwOthers DEF AskSteps
  <1> QED BY <1>4, <1>7, <1>9 DEF RwInv

\* The winner of the word is the only writer, and there is no reader.
LEMMA WriterCasKeeps ==
  ASSUME TypeOK, NEW t \in Threads, Acts(t), WriterCas(t), NEW o, AtLock(t, o),
         word' = [word EXCEPT ![o] = WRITER], word[o] = FREE, rwholds' = rwholds
  PROVE  RwInv(o)'
  <1>0. /\ ThreadsOK /\ o \in RwLocks /\ o \in Objects /\ o = th[t].obj /\ RwInv(o)
        /\ th[t].at = "wr_cas" /\ th'[t].at = "wr_leave" /\ th'[t].obj = o
        /\ word'[o] = WRITER /\ WRITER' = WRITER
    BY AtFields DEF TypeOK, WriterCas, AtLock, WRITER, Everyone
  <1>1. \A u \in Threads : ~Writes(u, o) BY <1>0, ReadersCount DEF RwInv, FREE
  <1>2. Readers(o) = {} /\ Readers(o)' = {}
    BY <1>0, <1>1, ReadersCount DEF RwInv, FREE, Readers
  <1>3. rwholds[t][o] = "none" BY <1>0 DEF AtLock, RwInv, AskSteps
  <1>4. \A u \in Threads : Writes(u, o)' => u = t BY <1>0, <1>1, RwOthers
  <1>5. Writes(t, o)' BY <1>0 DEF Writes
  <1>6. \A u \in Threads : th'[u].obj = o =>
          /\ Where(th'[u]) \in AskSteps => rwholds'[u][o] = "none"
          /\ th'[u].at = "rwunlock" => rwholds'[u][o] # "none"
    BY <1>0, <1>3, RwOthers DEF AskSteps
  <1> QED BY <1>0, <1>2, <1>4, <1>5, <1>6 DEF RwInv

\* It has the lock from then on.
LEMMA WriterLeaveKeeps ==
  ASSUME TypeOK, NEW t \in Threads, Acts(t), WriterLeave(t), NEW o, AtLock(t, o)
  PROVE  RwInv(o)'
  <1>0. /\ ThreadsOK /\ o \in RwLocks /\ o \in Objects /\ o = th[t].obj /\ RwInv(o)
        /\ th[t].at = "wr_leave" /\ th'[t].at = "idle" /\ word'[o] = word[o] /\ WRITER' = WRITER
    BY AtFields DEF TypeOK, WriterLeave, AtLock, futexVars, WRITER, Everyone
  <1>1. /\ rwholds'[t][o] = "write" /\ \A u \in Threads \ {t} : rwholds'[u][o] = rwholds[u][o]
    BY <1>0, Holding DEF WriterLeave
  <1>2. Writes(t, o) BY <1>0 DEF Writes
  <1>3. word[o] = WRITER /\ Readers(o) = {} /\ \A u \in Threads : Writes(u, o) => u = t
    BY <1>0, <1>2 DEF RwInv
  <1>4. Readers(o)' = {} BY <1>1, <1>3 DEF Readers
  <1>5. \A u \in Threads : Writes(u, o)' => u = t BY <1>0, <1>1, <1>3, RwOthers
  <1>6. Writes(t, o)' BY <1>1 DEF Writes
  <1>7. Where(th'[t]) = "idle" BY <1>0 DEF Where, FutexSteps
  <1>8. \A u \in Threads : th'[u].obj = o =>
          /\ Where(th'[u]) \in AskSteps => rwholds'[u][o] = "none"
          /\ th'[u].at = "rwunlock" => rwholds'[u][o] # "none"
    BY <1>0, <1>1, <1>7, RwOthers DEF AskSteps
  <1> QED BY <1>0, <1>3, <1>4, <1>5, <1>6, <1>8 DEF RwInv

\* A hold let go: the writer's, or one of the readers counted.
LEMMA RwUnlockKeeps ==
  ASSUME TypeOK, NEW t \in Threads, Acts(t), RwUnlock(t), NEW o, AtLock(t, o), Hold(t, "none"),
         word' = [word EXCEPT ![o] = IF word[o] = WRITER THEN FREE ELSE word[o] - 1]
  PROVE  RwInv(o)'
  <1>0. /\ ThreadsOK /\ o \in RwLocks /\ o \in Objects /\ o = th[t].obj /\ RwInv(o)
        /\ th[t].at = "rwunlock" /\ th'[t].at \in {"rw_wake", "idle"}
        /\ word'[o] = IF word[o] = WRITER THEN FREE ELSE word[o] - 1
    <2>1. th[t].at = "rwunlock" BY DEF RwUnlock
    <2>2. th'[t].at \in {"rw_wake", "idle"}
      <3>1. th[t].back = "idle" BY DEF AtLock
      <3> QED BY <3>1, AtFields DEF TypeOK, RwUnlock
    <2> QED BY <2>1, <2>2 DEF TypeOK, AtLock
  <1>1. /\ rwholds'[t][o] = "none" /\ \A u \in Threads \ {t} : rwholds'[u][o] = rwholds[u][o]
    BY <1>0, Holding
  <1>2. rwholds[t][o] \in {"read", "write"} BY <1>0 DEF TypeOK, RwInv
  <1>3. Where(th'[t]) = th'[t].at BY <1>0 DEF Where, FutexSteps
  <1>4. \A u \in Threads : th'[u].obj = o =>
          /\ Where(th'[u]) \in AskSteps => rwholds'[u][o] = "none"
          /\ th'[u].at = "rwunlock" => rwholds'[u][o] # "none"
    BY <1>0, <1>1, <1>3, RwOthers DEF AskSteps
  <1>5. ~Writes(t, o)' BY <1>0, <1>1 DEF Writes
  <1>6. CASE word[o] = WRITER
    <2>1. rwholds[t][o] = "write"
      <3>1. \E u \in Threads : Writes(u, o) BY <1>0, <1>6, ReadersCount DEF RwInv
      <3>2. Readers(o) = {} BY <1>0, <3>1 DEF RwInv
      <3> QED BY <1>2, <3>2 DEF Readers
    <2>2. Writes(t, o) BY <2>1 DEF Writes
    <2>3. Readers(o) = {} /\ \A u \in Threads : Writes(u, o) => u = t BY <1>0, <2>2 DEF RwInv
    <2>4. \A u \in Threads : ~Writes(u, o)' BY <1>0, <1>1, <1>5, <2>3, RwOthers
    <2>5. Readers(o)' = {} BY <1>1, <2>3 DEF Readers
    <2>6. Cardinality(Readers(o)') = 0 BY <2>5, FS_EmptySet
    <2> QED BY <1>0, <1>4, <1>6, <2>4, <2>6 DEF RwInv, FREE
  <1>7. CASE word[o] # WRITER
    <2>1. \A u \in Threads : ~Writes(u, o) BY <1>0, <1>7 DEF RwInv
    <2>2. t \in Readers(o) BY <1>2, <2>1 DEF Writes, Readers
    <2>3. Readers(o)' = Readers(o) \ {t} BY <1>1 DEF Readers
    <2>4. Cardinality(Readers(o)') = Cardinality(Readers(o)) - 1
      <3>1. IsFiniteSet(Readers(o)) BY <1>0, ReadersCount
      <3>2. Cardinality(Readers(o) \ {t}) = Cardinality(Readers(o)) - 1
        BY <2>2, <3>1, FS_RemoveElement
      <3> QED BY <2>3, <3>2
    <2>5. \A u \in Threads : ~Writes(u, o)' BY <1>0, <1>1, <1>5, <2>1, RwOthers
    <2>6. word'[o] = Cardinality(Readers(o)') BY <1>0, <1>7, <2>1, <2>4 DEF RwInv
    <2> QED BY <1>4, <2>5, <2>6 DEF RwInv
  <1> QED BY <1>6, <1>7

\* A step of a read-write lock keeps it.
LEMMA RwStepKeeps ==
  ASSUME TypeOK, RwLocksOK, \A o \in Objects : QueueInv(o), NEW t \in Threads, Acts(t), RwStep(t)
  PROVE  RwLocksOK'
  <1>1. PICK o : o = th[t].obj OBVIOUS
  <1>2. AtLock(t, o) BY <1>1, IsAtLock
  <1>3. ThreadsOK BY DEF TypeOK
  <1>4. RwInv(o)' /\ \A k \in RwLocks \ {o} : \A u \in Threads : rwholds'[u][k] = rwholds[u][k]
    <2>1. CASE rwholds' = rwholds /\ word' = word
      BY <1>2, <2>1, RwAskKeeps
    <2>2. CASE ReaderAcquire(t) /\ word' # word
      <3>1. Hold(t, "read") /\ word' = [word EXCEPT ![o] = @ + 1] BY <1>1, <2>2 DEF ReaderAcquire
      <3> QED BY <1>1, <1>2, <2>2, <3>1, ReaderAcquireKeeps, Holding DEF AtLock
    <2>3. CASE WriterCas(t) /\ word' # word
      <3>1. /\ word' = [word EXCEPT ![o] = WRITER] /\ word[o] = FREE /\ rwholds' = rwholds
        BY <1>1, <2>3 DEF WriterCas, rwVars
      <3> QED BY <1>2, <2>3, <3>1, WriterCasKeeps
    <2>4. CASE WriterLeave(t)
      BY <1>1, <1>2, <2>4, WriterLeaveKeeps, Holding DEF WriterLeave, AtLock
    <2>5. CASE RwUnlock(t) /\ ~(rwholds' = rwholds /\ word' = word)
      <3>1. /\ word' = [word EXCEPT ![o] = IF word[o] = WRITER THEN FREE ELSE word[o] - 1]
            /\ Hold(t, "none")
        BY <1>1, <2>5 DEF RwUnlock
      <3> QED BY <1>1, <1>2, <2>5, <3>1, RwUnlockKeeps, Holding DEF AtLock
    <2>6. ASSUME ReadWriters(t) \/ ReadState(t) \/ ReaderWait(t) \/ WriterRegister(t) \/ WriterState(t)
                   \/ WriterWait(t) \/ RwWake(t)
                   \/ (ReaderAcquire(t) /\ word' = word) \/ (WriterCas(t) /\ word' = word)
          PROVE  rwholds' = rwholds /\ word' = word
      <3>1. CASE ReaderAcquire(t) /\ word' = word
        <4>1. word' # [word EXCEPT ![o] = @ + 1]
          <5>1. [word EXCEPT ![o] = @ + 1][o] = word[o] + 1 /\ word[o] \in Int
            BY <1>2 DEF TypeOK, AtLock
          <5> QED BY <3>1, <5>1
        <4> QED BY <1>1, <3>1, <4>1 DEF ReaderAcquire
      <3>2. CASE WriterCas(t) /\ word' = word BY <3>2 DEF WriterCas, rwVars
      <3> QED BY <2>6, <3>1, <3>2
           DEF ReadWriters, ReadState, ReaderWait, WriterRegister, WriterState, WriterWait, RwWake,
               futexVars,
               rwVars
    <2> QED BY <2>1, <2>2, <2>3, <2>4, <2>5, <2>6 DEF RwStep
  <1>5. ASSUME NEW k \in RwLocks \ {o} PROVE RwInv(k)'
    <2>1. word'[k] = word[k] /\ th'[t].obj # k /\ th[t].obj # k
      BY <1>1, <1>2, RwOwn, RwAssumption DEF OwnWord, AtLock
    <2>2. RwKeeps(t, k) BY <2>1 DEF RwKeeps
    <2> QED BY <1>3, <1>4, <2>1, <2>2, RwElsewhere DEF RwLocksOK
  <1> QED BY <1>4, <1>5 DEF RwLocksOK

\* Every other step leaves the locks alone.
LEMMA OffRw ==
  ASSUME TypeOK, RwLocksOK, NEW t \in Threads, Acts(t), rwholds' = rwholds,
         \A o \in RwLocks : word'[o] = word[o] /\ RwKeeps(t, o)
  PROVE  RwLocksOK'
  <1> SUFFICES ASSUME NEW o \in RwLocks PROVE RwInv(o)'
    BY DEF RwLocksOK
  <1>1. RwInv(o) /\ ThreadsOK BY DEF RwLocksOK, TypeOK
  <1> QED BY <1>1, RwElsewhere

\* A step of another primitive keeps all of them.
LEMMA OffRwOwn ==
  ASSUME TypeOK, RwLocksOK, NEW t \in Threads, Acts(t), rwholds' = rwholds,
         th'[t].obj = th[t].obj, th[t].obj \notin RwLocks,
         \A o \in Objects \ {th[t].obj} : word'[o] = word[o]
  PROVE  RwLocksOK'
  <1>1. ASSUME NEW o \in RwLocks PROVE word'[o] = word[o] /\ RwKeeps(t, o)
    BY RwAssumption DEF RwKeeps
  <1> QED BY <1>1, OffRw

\* No step of a thread lets a writer in beside anyone.
LEMMA ThreadRwLocks ==
  ASSUME TypeOK, MutexesOK, RwLocksOK, \A o \in Objects : QueueInv(o), NEW t \in Threads, Thread(t)
  PROVE  RwLocksOK'
  <1>0. ThreadsOK /\ ThreadOK(th[t]) /\ Acts(t) BY StepActs DEF TypeOK, ThreadsOK
  <1>1. CASE RwStep(t) BY <1>0, <1>1, RwStepKeeps
  <1>2. CASE MutexStep(t) /\ UNCHANGED notMutex
    <2>1. OnlyItsOwn(t) BY <1>0, <1>2, MutexStepKeeps
    <2>2. th[t].at \in LockSteps \cup UnlockSteps
      BY <1>2
      DEF LockSteps, UnlockSteps, MutexStep, LockAgain, LockDeadlock, LockLook, LockCas, LockOwn,
          Contend,
          ContendMark, ContendReady, ContendWoke, Unlock, UnlockClear, UnlockPublish, UnlockWake
    <2>3. th[t].obj \in Mutexes BY <1>0, <2>2 DEF ThreadOK, StepOK, LockOK, UnlockOK, OnceIs, RwSteps,
                                                  LockSteps, UnlockSteps, CondSteps, MarkSteps,
                                                  LoopSteps, AskSteps, LeaveSteps, SemSteps, OnceSteps,
                                                  WordSteps, FutexSteps
    <2>4. rwholds' = rwholds BY <1>2 DEF notMutex, rwVars
    <2> QED BY <1>0, <2>1, <2>3, <2>4, OffRwOwn, KindsAssumption DEF OnlyItsOwn
  <1>3. CASE (FutexEnter(t) \/ FutexPark(t) \/ FutexTimeout(t)) /\ UNCHANGED notSem
    <2>1. word' = word BY <1>3 DEF FutexEnter, FutexPark, FutexTimeout, futexVars
    <2>2. rwholds' = rwholds BY <1>3 DEF notSem, rwVars
    <2>3. /\ th'[t].obj = th[t].obj /\ th'[t].at \notin {"wr_leave", "rwunlock"}
          /\ Where(th'[t]) = Where(th[t])
      BY <1>0, <1>3, FutexHolds DEF OnHold
    <2>4. th[t].at # "wr_leave" BY <1>3 DEF FutexEnter, FutexPark, FutexTimeout
    <2>5. \A o \in RwLocks : RwKeeps(t, o) BY <2>3, <2>4 DEF RwKeeps, RwLocksOK, RwInv
    <2> QED BY <1>0, <2>1, <2>2, <2>5, OffRw
  <1>4. CASE CondStep(t) /\ ~CondNotify(t) /\ UNCHANGED notCond
    <2>1. word' = word /\ rwholds' = rwholds
      BY <1>4 DEF CondStep, CondRegister, CondLoop, CondTimer, CondLeave, CondReturn, CondSignal,
                  CondBroadcast,
                  CondMark, CondSignalled, futexVars, notCond, rwVars
    <2>2. th'[t].obj = th[t].obj /\ th[t].obj \notin RwLocks
      BY <1>0, <1>4, CondHolds, KindsAssumption DEF OnHold
    <2> QED BY <1>0, <2>1, <2>2, OffRwOwn
  <1>5. CASE CondNotify(t) /\ UNCHANGED notCond
    <2>1. word' = word /\ rwholds' = rwholds BY <1>5 DEF CondNotify, futexVars, notCond, rwVars
    <2>2. Moved(t) BY <1>0, <1>5, NotifyActs
    <2> QED BY <1>0, <2>1, <2>2, MovedRw, OffRw DEF RwLocksOK
  <1>6. CASE SemStep(t) /\ UNCHANGED notSem
    <2>1. th[t].obj \notin RwLocks /\ OwnWord(t) /\ rwholds' = rwholds
      BY <1>6, SemOwn, KindsAssumption DEF notSem, rwVars
    <2> QED BY <1>0, <2>1, OffRwOwn DEF OwnWord
  <1>7. CASE OnceStep(t) /\ UNCHANGED notOnce
    <2>1. th[t].obj \notin RwLocks /\ OwnWord(t) /\ rwholds' = rwholds
      BY <1>7, OnceOwn, KindsAssumption DEF notOnce, rwVars
    <2> QED BY <1>0, <2>1, OffRwOwn DEF OwnWord
  <1>8. CASE Store(t) \/ StoreWake(t)
    <2>1. rwholds' = rwholds BY <1>8 DEF Store, StoreWake, notSem, rwVars
    <2>2. th[t].obj \notin RwLocks /\ OwnWord(t) BY <1>8, StoreOwn DEF Words
    <2> QED BY <1>0, <2>1, <2>2, OffRwOwn DEF OwnWord
  <1>9. CASE Await(t) \/ Put(t) \/ PutDone(t) \/ GuestHalt(t)
    <2>1. word' = word /\ rwholds' = rwholds
      BY <1>9 DEF Await, Put, PutDone, GuestHalt, futexVars, notSem, rwVars
    <2>2. /\ th'[t].obj = th[t].obj /\ th'[t].at \notin AskSteps \cup {"rwunlock"} \cup FutexSteps
      BY <1>0, <1>9, LoopHolds DEF OnHold
    <2>3. th[t].at # "wr_leave" BY <1>9 DEF Await, Put, PutDone, GuestHalt, GuestSteps
    <2>4. \A o \in RwLocks : RwKeeps(t, o) BY <2>2, <2>3 DEF RwKeeps, Where, AskSteps
    <2> QED BY <1>0, <2>1, <2>4, OffRw
  <1>10. CASE Begin(t)
    <2>1. word' = word /\ rwholds' = rwholds BY <1>10 DEF Begin, futexVars, notSem, rwVars
    <2>2. th[t].at = "idle" /\ th[t].then = "idle" BY <1>0, <1>10, BeginIs DEF ThreadOK, FutexSteps
    <2>3. ASSUME NEW o \in RwLocks PROVE RwKeeps(t, o)
      <3>1. CASE th'[t].at = "idle" BY <2>2, <3>1 DEF RwKeeps, Where, AskSteps, FutexSteps
      <3>2. ASSUME NEW call \in Call, Held(t, call), th'[t].at = First(call.op), th'[t].obj = call.obj,
                   th'[t].then = th[t].then
            PROVE  RwKeeps(t, o)
        <4>1. /\ First(call.op) \in AskSteps => call.op \in {"rdlock", "wrlock"}
              /\ First(call.op) = "rwunlock" => call.op = "rwunlock"
              /\ First(call.op) # "wr_leave"
          BY DEF First, Call, On, AskSteps
        <4>2. Where(th'[t]) \in {First(call.op), "idle"} BY <2>2, <3>2 DEF Where
        <4> QED BY <2>2, <3>2, <4>1, <4>2 DEF RwKeeps, Held, AskSteps
      <3> QED BY <1>10, <3>1, <3>2, BeginIs
    <2> QED BY <1>0, <2>1, <2>3, OffRw
  <1> QED BY <1>1, <1>2, <1>3, <1>4, <1>5, <1>6, <1>7, <1>8, <1>9, <1>10 DEF Thread

-----------------------------------------------------------------------------
(* The invariant.                                                          *)

IInv == TypeOK /\ (\A o \in Objects : QueueInv(o)) /\ MutexesOK /\ RwLocksOK

\* The tables after a mutex's step ...
LEMMA MutexTypes ==
  ASSUME TypeOK, NEW t \in Threads, MutexStep(t), th[t].obj \in Mutexes
  PROVE  /\ word' \in [Objects -> Int]
         /\ owners' \in [Mutexes -> Threads \cup {NoThread}]
         /\ holds' \in [Threads -> [Mutexes -> Int]]
  <1>0. /\ word \in [Objects -> Int] /\ owners \in [Mutexes -> Threads \cup {NoThread}]
        /\ holds \in [Threads -> [Mutexes -> Int]]
        /\ word[th[t].obj] \in Int /\ holds[t][th[t].obj] \in Int /\ th[t].obj \in Objects
    BY MutexAssumption DEF TypeOK
  <1>1. CASE LockAgain(t) BY <1>0, <1>1 DEF LockAgain, Take
  <1>2. CASE LockCas(t)
    <2>1. word' = word \/ word' = [word EXCEPT ![th[t].obj] = 1] BY <1>2 DEF LockCas, Locked
    <2>2. UNCHANGED mutexVars BY <1>2 DEF LockCas
    <2>3. word' \in [Objects -> Int] BY <1>0, <2>1
    <2> QED BY <1>0, <2>2, <2>3 DEF mutexVars
  <1>3. CASE LockOwn(t) BY <1>0, <1>3 DEF LockOwn, Take, futexVars
  <1>4. CASE ContendMark(t) BY <1>0, <1>4 DEF ContendMark, LockedWithWaiters, mutexVars
  <1>5. CASE Unlock(t) BY <1>0, <1>5 DEF Unlock
  <1>6. CASE UnlockClear(t) BY <1>0, <1>6 DEF UnlockClear, futexVars
  <1>7. CASE UnlockPublish(t)
    <2>1. word' = [word EXCEPT ![th[t].obj] = 0] BY <1>7 DEF UnlockPublish, Unlocked
    <2>2. UNCHANGED mutexVars BY <1>7 DEF UnlockPublish
    <2>3. word' \in [Objects -> Int] BY <1>0, <2>1
    <2> QED BY <1>0, <2>2, <2>3 DEF mutexVars
  <1>8. CASE LockDeadlock(t) \/ LockLook(t) \/ Contend(t) \/ ContendReady(t) \/ ContendWoke(t) \/ UnlockWake(t)
    BY <1>0, <1>8
    DEF LockDeadlock, LockLook, Contend, ContendReady, ContendWoke, UnlockWake, futexVars, mutexVars
  <1> QED BY <1>1, <1>2, <1>3, <1>4, <1>5, <1>6, <1>7, <1>8 DEF MutexStep

\* ... and after a read-write lock's.
LEMMA RwTypes ==
  ASSUME TypeOK, NEW t \in Threads, RwStep(t), th[t].obj \in RwLocks
  PROVE  rwholds' \in [Threads -> [RwLocks -> {"none", "read", "write"}]]
  <1>1. rwholds' = rwholds \/ \E kind \in {"none", "read", "write"} : Hold(t, kind)
    BY DEF RwStep, ReadWriters, ReadState, ReaderAcquire, ReaderWait, WriterRegister, WriterState,
           WriterCas,
           WriterWait, WriterLeave, RwUnlock, RwWake, rwVars
  <1>2. rwholds \in [Threads -> [RwLocks -> {"none", "read", "write"}]] BY DEF TypeOK
  <1>3. ASSUME NEW kind \in {"none", "read", "write"}, NEW o \in RwLocks,
               rwholds' = [rwholds EXCEPT ![t][o] = kind]
        PROVE  rwholds' \in [Threads -> [RwLocks -> {"none", "read", "write"}]]
    BY <1>2, <1>3
  <1> QED BY <1>1, <1>2, <1>3 DEF Hold

\* The type invariant is kept.
LEMMA ThreadTypes ==
  ASSUME IInv, NEW t \in Threads, Thread(t)
  PROVE  TypeOK'
  <1>0. /\ TypeOK /\ ThreadsOK /\ ThreadOK(th[t]) /\ Acts(t)
        /\ \A o \in Objects : QueueInv(o)
    BY StepActs DEF IInv, TypeOK, ThreadsOK
  <1>1. ThreadsOK' BY <1>0, ActsOK
  <1>2. queue' \in [Objects -> Seq(Threads)] BY <1>0, ThreadQueues DEF QueuesOK
  <1>3. ASSUME word' = word \/ word' \in [Objects -> Int], UNCHANGED <<mutexVars, rwholds, scenario>>
        PROVE  TypeOK'
    BY <1>0, <1>1, <1>2, <1>3 DEF TypeOK, mutexVars
  <1>4. CASE MutexStep(t) /\ UNCHANGED notMutex
    <2>1. th[t].at \in LockSteps \cup UnlockSteps
      BY <1>4
      DEF LockSteps, UnlockSteps, MutexStep, LockAgain, LockDeadlock, LockLook, LockCas, LockOwn,
          Contend,
          ContendMark, ContendReady, ContendWoke, Unlock, UnlockClear, UnlockPublish, UnlockWake
    <2>2. th[t].obj \in Mutexes BY <1>0, <2>1 DEF ThreadOK, StepOK, LockOK, UnlockOK, OnceIs, RwSteps,
                                                  LockSteps, UnlockSteps, CondSteps, MarkSteps,
                                                  LoopSteps, AskSteps, LeaveSteps, SemSteps, OnceSteps,
                                                  WordSteps, FutexSteps
    <2>3. /\ word' \in [Objects -> Int] /\ holds' \in [Threads -> [Mutexes -> Int]]
          /\ owners' \in [Mutexes -> Threads \cup {NoThread}]
      BY <1>0, <1>4, <2>2, MutexTypes
    <2> QED BY <1>0, <1>1, <1>2, <1>4, <2>3 DEF TypeOK, notMutex, rwVars
  <1>5. CASE RwStep(t) /\ UNCHANGED notRw
    <2>1. th[t].obj \in RwLocks /\ word' \in [Objects -> Int] BY <1>0, <1>5, RwOwn DEF OwnWord
    <2>2. rwholds' \in [Threads -> [RwLocks -> {"none", "read", "write"}]]
      BY <1>0, <1>5, <2>1, RwTypes
    <2> QED BY <1>0, <1>1, <1>2, <1>5, <2>1, <2>2 DEF TypeOK, notRw, mutexVars
  <1>6. CASE SemStep(t) /\ UNCHANGED notSem
    BY <1>0, <1>3, <1>6, SemOwn DEF OwnWord, notSem, rwVars
  <1>7. CASE OnceStep(t) /\ UNCHANGED notOnce
    BY <1>0, <1>3, <1>7, OnceOwn DEF OwnWord, notOnce, rwVars
  <1>8. CASE Store(t) \/ StoreWake(t)
    <2>1. UNCHANGED <<mutexVars, rwholds, scenario>> BY <1>8 DEF Store, StoreWake, notSem, rwVars
    <2> QED BY <1>0, <1>3, <1>8, <2>1, StoreOwn DEF OwnWord
  <1>9. CASE (FutexEnter(t) \/ FutexPark(t) \/ FutexTimeout(t)) /\ UNCHANGED notSem
    BY <1>3, <1>9 DEF FutexEnter, FutexPark, FutexTimeout, futexVars, notSem, rwVars
  <1>10. CASE CondStep(t) /\ UNCHANGED notCond
    BY <1>3, <1>10 DEF CondStep, CondRegister, CondLoop, CondTimer, CondLeave, CondReturn, CondSignal,
                       CondBroadcast,
             CondMark, CondSignalled, CondNotify, futexVars, notCond, rwVars
  <1>11. CASE Begin(t) \/ Await(t) \/ Put(t) \/ PutDone(t) \/ GuestHalt(t)
    BY <1>3, <1>11 DEF Begin, Await, Put, PutDone, GuestHalt, futexVars, notSem, rwVars
  <1> QED BY <1>4, <1>5, <1>6, <1>7, <1>8, <1>9, <1>10, <1>11 DEF Thread

\* Every step of a thread keeps the invariant ...
LEMMA ThreadKeeps ==
  ASSUME IInv, NEW t \in Threads, Thread(t)
  PROVE  IInv'
  BY ThreadTypes, ThreadQueues, ThreadMutexes, ThreadRwLocks DEF IInv, QueuesOK

\* A step of the shutdown wakes threads, at most.
LEMMA StopKeeps ==
  ASSUME IInv, DOMAIN th' = Threads, \A u \in Threads : Moved(u), QueuesOK',
         UNCHANGED <<word, mutexVars, rwholds, scenario>>
  PROVE  IInv'
  <1>1. ThreadsOK /\ MutexesOK /\ RwLocksOK BY DEF IInv, TypeOK
  <1>2. ThreadsOK' BY <1>1, MovedOK DEF ThreadsOK
  <1>3. ASSUME NEW m \in Mutexes PROVE MutexInv(m)'
    <2>1. MutexInv(m) /\ word'[m] = word[m] /\ owners'[m] = owners[m] /\ holds' = holds
      BY <1>1 DEF MutexesOK, mutexVars
    <2>2. \A u \in Threads : Keeps(u, m) BY <1>1, <2>1, MovedKeeps
    <2> QED BY <2>1, <2>2, MutexFrame
  <1>4. ASSUME NEW o \in RwLocks PROVE RwInv(o)'
    <2>1. RwInv(o) BY <1>1 DEF RwLocksOK
    <2>2. \A u \in Threads : RwKeeps(u, o) BY <1>1, <2>1, MovedRw
    <2> QED BY <2>1, <2>2, RwFrame
  <1> QED BY <1>2, <1>3, <1>4 DEF IInv, TypeOK, QueuesOK, MutexesOK, RwLocksOK, mutexVars

\* A step that moves nobody.
LEMMA StillMoves ==
  ASSUME IInv, th' = th, queue' = queue
  PROVE  DOMAIN th' = Threads /\ (\A u \in Threads : Moved(u)) /\ QueuesOK'
  <1>1. ThreadsOK /\ QueuesOK BY QueuesAre DEF IInv
  <1>2. QueuesOK' BY <1>1, QuietQueues
  <1> QED BY <1>1, <1>2 DEF ThreadsOK, Moved

\* ... every step of a shutdown does ...
LEMMA StoppingKeeps ==
  ASSUME IInv, Stopping \/ Stop
  PROVE  IInv'
  <1>0. TypeOK /\ ThreadsOK /\ QueuesOK /\ \A o \in Objects : QueueInv(o) BY QueuesAre DEF IInv
  <1>1. CASE (StopFlag \/ StopLook \/ StopSwept) /\ UNCHANGED notSem
    <2>1. th' = th /\ queue' = queue /\ word' = word BY <1>1 DEF StopFlag, StopLook, StopSwept
    <2> QED BY <1>1, <2>1, StillMoves, StopKeeps DEF notSem, rwVars
  <1>2. CASE Stop
    <2>1. th' = th /\ queue' = queue /\ word' = word BY <1>2 DEF Stop, StopThreads
    <2>2. UNCHANGED notSem BY <1>2 DEF Stop
    <2> QED BY <2>1, <2>2, StillMoves, StopKeeps DEF notSem, rwVars
  <1>3. CASE (CondStopFlag \/ CondStopAll) /\ UNCHANGED notCond
    <2>1. th' = th /\ queue' = queue /\ word' = word /\ UNCHANGED mutexVars
      BY <1>3 DEF CondStopFlag, CondStopAll
    <2> QED BY <1>3, <2>1, StillMoves, StopKeeps DEF notCond, rwVars
  <1>4. ASSUME NEW o \in Objects, StopWake(o), UNCHANGED notSem PROVE IInv'
    <2>1. DOMAIN th' = Threads /\ \A u \in Threads : Moved(u) BY <1>0, <1>4, StopMoves
    <2>2. QueuesOK' BY <1>0, <1>4, StopQueues
    <2>3. word' = word BY <1>4 DEF StopWake
    <2> QED BY <1>4, <2>1, <2>2, <2>3, StopKeeps DEF notSem, rwVars
  <1>5. CASE CondNotify(Shutdown) /\ UNCHANGED notCond
    <2>1. DOMAIN th' = Threads /\ \A u \in Threads : Moved(u) BY <1>0, <1>5, NotifyActs
    <2>2. QueuesOK' BY <1>0, <1>5, NotifyQueues
    <2>3. word' = word /\ UNCHANGED mutexVars BY <1>5 DEF CondNotify, futexVars
    <2> QED BY <1>5, <2>1, <2>2, <2>3, StopKeeps DEF notCond, rwVars
  <1> QED BY <1>1, <1>2, <1>3, <1>4, <1>5 DEF Stopping

\* ... and so the next-state relation.
LEMMA NextKeeps ==
  ASSUME IInv, [Next]_vars
  PROVE  IInv'
  <1>1. CASE UNCHANGED vars
    <2>1. DOMAIN th' = Threads /\ (\A u \in Threads : Moved(u)) /\ QueuesOK'
      BY <1>1, StillMoves DEF vars, futexVars
    <2> QED BY <1>1, <2>1, StopKeeps DEF vars, futexVars, rwVars
  <1> QED BY <1>1, ThreadKeeps, StoppingKeeps DEF Next

\* It holds at the start.
LEMMA InitHolds ==
  ASSUME Init
  PROVE  IInv
  <1>1. ThreadsOK
    <2>1. \A t \in Threads : ThreadOK(NewThread(t))
      BY DEF NewThread, ThreadOK, Fields, StepOK, FutexSteps
    <2> HIDE DEF NewThread, ThreadOK
    <2> QED BY <2>1 DEF Init, ThreadsOK
  <1>2. \A t \in Threads : th[t].at = "idle" BY DEF Init, NewThread
  <1>3. QueuesOK BY <1>2 DEF Init, QueuesOK, QueueInv
  <1>4. MutexesOK
    BY <1>2, MutexAssumption
    DEF Init, MutexesOK, MutexInv, HolderOK, HasWord, Turning, HoldSteps, MarkSteps, LoopSteps
  <1>5. ASSUME NEW o \in RwLocks PROVE RwInv(o)
    <2>1. /\ \A t \in Threads : rwholds[t][o] = "none" /\ Where(th[t]) = "idle"
          /\ word[o] = 0
      BY <1>2, RwAssumption DEF Init, Where, FutexSteps
    <2>2. Readers(o) = {} BY <2>1 DEF Readers
    <2>3. word[o] = Cardinality(Readers(o)) BY <2>1, <2>2, FS_EmptySet
    <2> QED BY <1>2, <2>1, <2>3 DEF RwInv, Writes, AskSteps
  <1> QED BY <1>1, <1>3, <1>4, <1>5 DEF IInv, TypeOK, QueuesOK, RwLocksOK, Init

\* The invariant of the mutexes, the read-write locks and the queues of sleepers, for
\* any threads, objects and programs, through timeouts and a shutdown at any step.
THEOREM Invariance == Spec => []IInv
  BY InitHolds, NextKeeps, PTL DEF Spec

\* Of `pthread_mutex` and `pthread_rwlock` (mutex.rs lock, trylock, timedlock, unlock;
\* rwlock.rs reader_loop, writer_loop): two threads never hold one mutex, and a writer
\* is alone with its lock.
THEOREM HoldersAlone == Spec => []Exclusive
  <1>1. ASSUME IInv PROVE Exclusive
    <2>1. ASSUME NEW m \in Mutexes, NEW t \in Threads, NEW u \in Threads \ {t},
                 holds[t][m] > 0, holds[u][m] > 0
          PROVE  FALSE
      BY <1>1, <2>1 DEF IInv, MutexesOK, MutexInv, HasWord
    <2>2. ASSUME NEW o \in RwLocks, NEW t \in Threads, NEW u \in Threads \ {t},
                 rwholds[t][o] = "write", rwholds[u][o] # "none"
          PROVE  FALSE
      <3>1. rwholds[u][o] \in {"read", "write"} BY <1>1, <2>2 DEF IInv, TypeOK
      <3>2. RwInv(o) BY <1>1 DEF IInv, RwLocksOK
      <3> QED BY <2>2, <3>1, <3>2 DEF RwInv, Writes, Readers
    <2> QED BY <2>1, <2>2 DEF Exclusive
  <1> QED BY <1>1, Invariance, PTL

\* Of the owner table (mutex.rs unlock clears it before the free word is published) and
\* of `wait_end` (cond.rs): the table names every holder of a mutex that checks, and a
\* wait comes back as the holder, whatever ended it.
THEOREM HoldersKnown == Spec => []OwnersTrue
  <1>1. ASSUME IInv PROVE OwnersTrue
    <2>1. ASSUME NEW t \in Threads, th[t].at \in {"await_woke", "set_done"}
          PROVE  holds[t][th[t].obj] > 0
      <3>1. ThreadOK(th[t]) BY <1>1 DEF IInv, TypeOK, ThreadsOK
      <3>2. th[t].obj \in Mutexes /\ th[t].at \in HoldSteps
        BY <2>1, <3>1 DEF ThreadOK, StepOK, HoldSteps, RwSteps, LockSteps, UnlockSteps, CondSteps,
                          MarkSteps, LoopSteps, AskSteps, LeaveSteps, SemSteps, OnceSteps, WordSteps,
                          FutexSteps
      <3> QED BY <1>1, <3>2 DEF IInv, MutexesOK, MutexInv, HolderOK
    <2> QED BY <1>1, <2>1 DEF IInv, MutexesOK, MutexInv, HolderOK, OwnersTrue
  <1> QED BY <1>1, Invariance, PTL

-----------------------------------------------------------------------------
(* What a step puts to sleep.                                              *)

\* A queue that was empty is one a thread has just gone to sleep on, on the word
\* it read.
LEMMA QueueGrows ==
  ASSUME IInv, NEW t \in Threads, Thread(t), NEW o \in Objects, queue'[o] # <<>>
  PROVE  \/ queue[o] # <<>>
         \/ th[t].at = "park" /\ th[t].obj = o /\ word[o] = th[t].saw /\ word' = word
  <1>0. /\ TypeOK /\ ThreadsOK /\ QueuesOK /\ \A k \in Objects : QueueInv(k)
        /\ queue \in [Objects -> Seq(Threads)]
    BY QueuesAre DEF IInv, QueuesOK
  <1>1. ASSUME Quiet(t) PROVE queue[o] # <<>>
    BY <1>1 DEF Quiet
  <1>2. ASSUME Waking(t) PROVE queue[o] # <<>>
    <2>1. PICK n \in Nat : queue' = [queue EXCEPT ![th[t].obj] = SubSeq(@, n + 1, Len(@))]
      BY <1>2 DEF Waking, WakeAnd
    <2>2. CASE th[t].obj # o BY <1>0, <2>1, <2>2
    <2>3. CASE th[t].obj = o
      <3>1. queue'[o] = SubSeq(queue[o], n + 1, Len(queue[o])) BY <1>0, <2>1, <2>3
      <3>2. n + 1 > 0 /\ SubSeq(<<>>, n + 1, 0) = <<>> OBVIOUS
      <3> QED BY <3>1, <3>2
    <2> QED BY <2>2, <2>3
  <1>3. CASE MutexStep(t) BY <1>0, <1>1, <1>2, <1>3, MutexSleeps
  <1>4. CASE RwStep(t) BY <1>0, <1>1, <1>2, <1>4, RwSleeps
  <1>5. CASE SemStep(t) BY <1>0, <1>1, <1>2, <1>5, SemSleeps
  <1>6. CASE OnceStep(t) BY <1>0, <1>1, <1>2, <1>6, OnceSleeps
  <1>7. CASE Begin(t) \/ Await(t) \/ Put(t) \/ PutDone(t) \/ Store(t) \/ StoreWake(t) \/ GuestHalt(t)
    BY <1>0, <1>1, <1>2, <1>7, GuestSleeps
  <1>8. CASE CondStep(t)
    <2>1. CASE CondNotify(t) BY <2>1 DEF CondNotify, futexVars
    <2> QED BY <1>0, <1>1, <1>8, <2>1, CondSleeps
  <1>9. CASE FutexEnter(t) BY <1>9 DEF FutexEnter, futexVars
  <1>10. CASE FutexPark(t)
    <2>1. CASE queue' = queue BY <2>1
    <2>2. CASE queue' # queue
      <3>1. /\ queue' = [queue EXCEPT ![th[t].obj] = Append(@, t)] /\ word' = word
            /\ word[th[t].obj] = th[t].saw /\ th[t].at = "park"
        BY <1>10, <2>2 DEF FutexPark
      <3> QED BY <1>0, <3>1
    <2> QED BY <2>1, <2>2
  <1>11. CASE FutexTimeout(t)
    <2>1. queue' = [queue EXCEPT ![th[t].obj] = Without(@, t)] /\ th[t].at = "asleep"
      BY <1>11 DEF FutexTimeout
    <2>2. CASE th[t].obj # o BY <1>0, <2>1, <2>2
    <2>3. CASE th[t].obj = o
      <3>1. QueueInv(o) BY <1>0
      <3>2. \E i \in DOMAIN queue[o] : queue[o][i] = t BY <2>1, <2>3, <3>1 DEF QueueInv
      <3> QED BY <3>2
    <2> QED BY <2>2, <2>3
  <1> QED BY <1>3, <1>4, <1>5, <1>6, <1>7, <1>8, <1>9, <1>10, <1>11 DEF Thread

\* A thread on its way to a sleep on a mutex has read that it is held, one on its
\* way to a sleep on a routine that it runs.
LEMMA SleepsHeld ==
  ASSUME ThreadsOK, NEW t \in Threads, th[t].at = "park"
  PROVE  /\ th[t].obj \in Mutexes => th[t].saw # Unlocked
         /\ th[t].obj \in Onces => th[t].saw # DONE
  <1>1. ThreadOK(th[t]) BY DEF ThreadsOK
  <1>2. /\ IN_PROGRESS # DONE
        /\ Mutexes \cap (RwLocks \cup Sems \cup Onces) = {} /\ (RwLocks \cup Sems) \cap Onces = {}
    BY KindsAssumption DEF IN_PROGRESS, DONE
  <1> QED BY <1>1, <1>2 DEF ThreadOK, StepOK, OnceIs, LockOK, UnlockOK, Words, RwSteps, LockSteps,
                            UnlockSteps, CondSteps, MarkSteps, LoopSteps, AskSteps, LeaveSteps,
                            SemSteps, OnceSteps, WordSteps, FutexSteps

-----------------------------------------------------------------------------
(* The mutexes.                                                            *)

\* The word is set free by a publish, and by nothing else.
LEMMA FreedBy ==
  ASSUME IInv, NEW t \in Threads, Thread(t), NEW m \in Mutexes, word'[m] = Unlocked, word[m] # Unlocked
  PROVE  UnlockPublish(t) /\ th[t].obj = m
  <1>0. /\ TypeOK /\ ThreadsOK /\ \A o \in Objects : QueueInv(o)
        /\ m \in Objects /\ word \in [Objects -> Int]
    BY MutexAssumption DEF IInv, TypeOK
  <1>1. ASSUME OwnWord(t), th[t].obj \notin Mutexes PROVE FALSE
    BY <1>0, <1>1 DEF OwnWord
  <1>2. CASE RwStep(t) BY <1>0, <1>1, <1>2, RwOwn, KindsAssumption
  <1>3. CASE SemStep(t) BY <1>0, <1>1, <1>3, SemOwn, KindsAssumption
  <1>4. CASE OnceStep(t) BY <1>0, <1>1, <1>4, OnceOwn, KindsAssumption
  <1>5. CASE Store(t) \/ StoreWake(t) BY <1>0, <1>1, <1>5, StoreOwn DEF Words
  <1>6. CASE Begin(t) \/ Await(t) \/ Put(t) \/ PutDone(t) \/ GuestHalt(t)
    BY <1>6 DEF Begin, Await, Put, PutDone, GuestHalt, futexVars
  <1>7. CASE FutexEnter(t) \/ FutexPark(t) \/ FutexTimeout(t)
    BY <1>7 DEF FutexEnter, FutexPark, FutexTimeout, futexVars
  <1>8. CASE CondStep(t)
    BY <1>8 DEF CondStep, CondRegister, CondLoop, CondTimer, CondLeave, CondReturn, CondSignal,
                CondBroadcast,
                CondMark, CondNotify, CondSignalled, futexVars
  <1>9. CASE MutexStep(t)
    <2>1. CASE LockAgain(t)
      <3>1. AtMutex(t, th[t].obj)
        BY <1>0, <2>1, IsAtMutex DEF IInv, MutexesOK, LockAgain, LockSteps
      <3>2. word' = word \/ word' = [word EXCEPT ![th[t].obj] = @ + 1] BY <2>1 DEF LockAgain
      <3>3. owners[th[t].obj] = t /\ IsRecursive(th[t].obj) BY <2>1 DEF LockAgain
      <3>4. holds[t][th[t].obj] > 0 /\ word[th[t].obj] = holds[t][th[t].obj]
        BY <2>1, <3>1, <3>3 DEF LockAgain, AtMutex, HolderOK
      <3> QED BY <1>0, <3>2, <3>4 DEF Unlocked
    <2>2. CASE LockCas(t)
      <3>1. word' = word \/ word' = [word EXCEPT ![th[t].obj] = 1] BY <2>2 DEF LockCas, Locked
      <3> QED BY <1>0, <3>1 DEF Unlocked
    <2>3. CASE ContendMark(t)
      <3>1. word' = word \/ word' = [word EXCEPT ![th[t].obj] = 2] BY <2>3
           DEF ContendMark, LockedWithWaiters
      <3> QED BY <1>0, <3>1 DEF Unlocked
    <2>4. CASE Unlock(t)
      <3>1. word' = word \/ (word[th[t].obj] > 1 /\ word' = [word EXCEPT ![th[t].obj] = @ - 1])
        BY <2>4 DEF Unlock
      <3> QED BY <1>0, <3>1 DEF Unlocked
    <2>5. CASE UnlockPublish(t)
      <3>1. word' = [word EXCEPT ![th[t].obj] = 0] BY <2>5 DEF UnlockPublish, Unlocked
      <3> QED BY <1>0, <2>5, <3>1
    <2> QED BY <1>9, <2>1, <2>2, <2>3, <2>4, <2>5
         DEF MutexStep, LockDeadlock, LockLook, LockOwn, Contend, ContendReady, ContendWoke,
             UnlockClear,
             UnlockWake, futexVars
  <1> QED BY <1>2, <1>3, <1>4, <1>5, <1>6, <1>7, <1>8, <1>9 DEF Thread

\* Who is to rescue a sleeper is asleep nowhere, and no other thread's step moves it.
LEMMA RescuerStays ==
  ASSUME NEW u \in Threads, NEW m \in Mutexes, Rescues(u, m), Moved(u)
  PROVE  Rescues(u, m)'
  BY DEF Rescues, Moved

\* A rescuer's own step leaves a rescuer, takes the mutex, or finds nobody asleep.
LEMMA RescuerSteps ==
  ASSUME IInv, NEW t \in Threads, Thread(t), NEW m \in Mutexes, Rescues(t, m),
         word[m] = Unlocked, word'[m] = Unlocked, queue[m] # <<>>
  PROVE  \E u \in Threads : Rescues(u, m)'
  <1>0. /\ TypeOK /\ ThreadsOK /\ ThreadOK(th[t]) /\ m \in Objects /\ QueueInv(m) /\ th[t].obj = m
        /\ word \in [Objects -> Int] /\ queue[m] \in Seq(Threads)
    BY MutexAssumption DEF IInv, TypeOK, ThreadsOK, Rescues
  <1>1. CASE CondNotify(t)
    BY <1>0, <1>1, NotifyActs, RescuerStays
  <1>2. CASE LockCas(t)
    <2>1. word' = [word EXCEPT ![m] = 1] BY <1>0, <1>2 DEF LockCas, Locked
    <2> QED BY <1>0, <2>1 DEF Unlocked
  <1>3. CASE Contend(t)
    <2>1. th'[t].at = "lock_cas" /\ th'[t].obj = m
      BY <1>0, <1>3, OwnFields DEF Contend, Fields
    <2> QED BY <2>1 DEF Rescues
  <1>4. CASE ContendWoke(t)
    <2>1. ~(th[t].res = "TimedOut" /\ th[t].timed) BY <1>4 DEF ContendWoke, Rescues
    <2>2. th'[t].at = "contend" /\ th'[t].obj = m
      BY <1>0, <1>4, <2>1, OwnFields DEF ContendWoke, Fields
    <2> QED BY <2>2 DEF Rescues
  <1>5. CASE UnlockWake(t)
    <2>1. WakeAnd(m, 1, t, Back(th[t], "0")) BY <1>0, <1>5 DEF UnlockWake
    <2>0. 1 \in DOMAIN queue[m] /\ queue[m][1] \in Threads BY <1>0
    <2>2. PICK u \in Threads : u = queue[m][1] BY <2>0
    <2>3. th[u].at = "asleep" /\ th[u].obj = m /\ ThreadOK(th[u])
      BY <1>0, <2>0, <2>2 DEF QueueInv, ThreadsOK
    <2>4. u \in Taken(m, 1) BY <2>0, <2>2 DEF Taken
    <2>5. u # t BY <1>5, <2>3 DEF UnlockWake
    <2>6. th'[u] = Woke(th[u], "Woken") BY <2>1, <2>2, <2>4, <2>5 DEF WakeAnd
    <2>7. th[u].then = "contend_woke"
      BY <1>0, <2>3, KindsAssumption DEF ThreadOK, StepOK, OnceIs, LockOK, UnlockOK, Words, RwSteps,
                                         LockSteps, UnlockSteps, CondSteps, MarkSteps, LoopSteps,
                                         AskSteps, LeaveSteps, SemSteps, OnceSteps, WordSteps,
                                         FutexSteps
    <2>8. /\ th'[u].at = "contend_woke" /\ th'[u].obj = m /\ th'[u].timed = th[u].timed
          /\ th[u].timed => th'[u].res = "Woken"
      BY <2>3, <2>6, <2>7 DEF Woke, ThreadOK, Fields
    <2>9. Rescues(u, m)' BY <2>8 DEF Rescues
    <2> QED BY <2>9
  <1>6. th[t].at \in {"lock_cas", "contend", "unlock_wake", "contend_woke"} BY DEF Rescues
  <1> QED BY <1>1, <1>2, <1>3, <1>4, <1>5, <1>6
       DEF Thread, MutexStep, LockAgain, LockDeadlock, LockLook, LockOwn, ContendMark, ContendReady,
           Unlock,
           UnlockClear, UnlockPublish, CondStep, CondRegister, CondLoop, CondTimer, CondLeave,
           CondReturn, CondSignal,
           CondBroadcast, CondSignalled, RwStep, ReadWriters, ReadState, ReaderAcquire, ReaderWait,
           WriterRegister, WriterState, WriterCas, WriterWait, WriterLeave, RwUnlock, RwWake, SemStep,
           SemRead,
           SemTake, SemFlag, SemReady, PostRead, PostCas, PostWake, PostClear, OnceStep, OnceRead,
           OnceCas, OnceRun,
           OnceDone, OnceWake, OnceWait, OnceWoke, FutexEnter, FutexPark, FutexTimeout, Begin, Await,
           Put, PutDone,
           Store, StoreWake, GuestHalt, GuestSteps

\* Nobody asleep on a free mutex is without a rescuer.
Rescued(m) == word[m] = Unlocked /\ queue[m] # <<>> => \E t \in Threads : Rescues(t, m)

\* A step of a thread leaves no sleeper of a free mutex alone ...
LEMMA ThreadRescues ==
  ASSUME IInv, NEW t \in Threads, Thread(t), NEW m \in Mutexes, Rescued(m)
  PROVE  Rescued(m)'
  <1>0. /\ TypeOK /\ ThreadsOK /\ m \in Objects /\ \A o \in Objects : QueueInv(o)
        /\ \A u \in Threads \ {t} : Moved(u)
    BY MutexAssumption, StepActs DEF IInv, TypeOK, ThreadsOK, Acts
  <1>1. SUFFICES ASSUME word'[m] = Unlocked, queue'[m] # <<>>
                 PROVE  \E u \in Threads : Rescues(u, m)'
    BY DEF Rescued
  <1>2. CASE word[m] # Unlocked
    <2>1. UnlockPublish(t) /\ th[t].obj = m BY <1>1, <1>2, FreedBy
    <2>2. th'[t].at = "unlock_wake" /\ th'[t].obj = m
      BY <1>0, <2>1, OwnFields DEF UnlockPublish, At, Fields
    <2> QED BY <2>2 DEF Rescues
  <1>3. CASE word[m] = Unlocked
    <2>1. queue[m] # <<>>
      <3>1. CASE th[t].at = "park" /\ th[t].obj = m /\ word[m] = th[t].saw
        BY <1>0, <1>3, <3>1, SleepsHeld
      <3> QED BY <1>0, <1>1, <3>1, QueueGrows
    <2>2. PICK u \in Threads : Rescues(u, m) BY <1>3, <2>1 DEF Rescued
    <2>3. CASE u = t BY <1>1, <1>3, <2>1, <2>2, <2>3, RescuerSteps
    <2>4. CASE u # t BY <1>0, <2>2, <2>4, RescuerStays
    <2> QED BY <2>3, <2>4
  <1> QED BY <1>2, <1>3

\* A step that only wakes leaves every rescuer where it is.
LEMMA StopRescues ==
  ASSUME word' = word, NEW m \in Mutexes, Rescued(m), \A u \in Threads : Moved(u),
         queue'[m] # <<>> => queue[m] # <<>>
  PROVE  Rescued(m)'
  BY RescuerStays DEF Rescued

-----------------------------------------------------------------------------
(* The routines.                                                           *)

\* The winner of a finished routine that has not yet woken its losers.
Finishes(t, o) == th[t].obj = o /\ th[t].at = "once_wake"

\* Nobody asleep on a finished routine is without it.
Finished(o) == word[o] = DONE /\ queue[o] # <<>> => \E t \in Threads : Finishes(t, o)

\* A word becomes DONE at the end of its routine, and by nothing else.
LEMMA DoneBy ==
  ASSUME IInv, NEW t \in Threads, Thread(t), NEW o \in Onces, word'[o] = DONE, word[o] # DONE
  PROVE  OnceDone(t) /\ th[t].obj = o
  <1>0. /\ TypeOK /\ ThreadsOK /\ \A k \in Objects : QueueInv(k)
        /\ o \in Objects /\ word \in [Objects -> Int]
    BY OnceAssumption DEF IInv, TypeOK
  <1>1. ASSUME OwnWord(t), th[t].obj \notin Onces PROVE FALSE
    BY <1>0, <1>1 DEF OwnWord
  <1>2. CASE RwStep(t) BY <1>0, <1>1, <1>2, RwOwn, KindsAssumption
  <1>3. CASE SemStep(t) BY <1>0, <1>1, <1>3, SemOwn, KindsAssumption
  <1>4. CASE MutexStep(t)
    <2>1. th[t].at \in LockSteps \cup UnlockSteps
      BY <1>4
      DEF LockSteps, UnlockSteps, MutexStep, LockAgain, LockDeadlock, LockLook, LockCas, LockOwn,
          Contend,
          ContendMark, ContendReady, ContendWoke, Unlock, UnlockClear, UnlockPublish, UnlockWake
    <2>2. th[t].obj \in Mutexes
      BY <1>0, <2>1, IsAtMutex DEF IInv, MutexesOK, AtMutex
    <2>3. th[t].obj # o BY <2>2, KindsAssumption
    <2>4. OnlyItsOwn(t) BY <1>0, <1>4, MutexStepKeeps, StepActs DEF IInv
    <2> QED BY <1>0, <2>3, <2>4 DEF OnlyItsOwn
  <1>5. CASE Store(t) \/ StoreWake(t) BY <1>0, <1>1, <1>5, StoreOwn DEF Words
  <1>6. CASE Begin(t) \/ Await(t) \/ Put(t) \/ PutDone(t) \/ GuestHalt(t)
    BY <1>6 DEF Begin, Await, Put, PutDone, GuestHalt, futexVars
  <1>7. CASE FutexEnter(t) \/ FutexPark(t) \/ FutexTimeout(t)
    BY <1>7 DEF FutexEnter, FutexPark, FutexTimeout, futexVars
  <1>8. CASE CondStep(t)
    BY <1>8 DEF CondStep, CondRegister, CondLoop, CondTimer, CondLeave, CondReturn, CondSignal,
                CondBroadcast,
                CondMark, CondNotify, CondSignalled, futexVars
  <1>9. CASE OnceStep(t)
    <2>1. CASE OnceCas(t)
      <3>1. word' = word \/ word' = [word EXCEPT ![th[t].obj] = 1] BY <2>1 DEF OnceCas, IN_PROGRESS
      <3> QED BY <1>0, <3>1 DEF DONE
    <2>2. CASE OnceDone(t)
      <3>1. word' = [word EXCEPT ![th[t].obj] = 2] BY <2>2 DEF OnceDone, DONE
      <3> QED BY <1>0, <2>2, <3>1 DEF DONE
    <2> QED BY <1>9, <2>1, <2>2 DEF OnceStep, OnceRead, OnceRun, OnceWake, OnceWait, OnceWoke, futexVars
  <1> QED BY <1>2, <1>3, <1>4, <1>5, <1>6, <1>7, <1>8, <1>9 DEF Thread

\* The winner that has yet to wake is moved by nobody.
LEMMA FinisherStays ==
  ASSUME NEW u \in Threads, NEW o \in Onces, Finishes(u, o), Moved(u)
  PROVE  Finishes(u, o)'
  BY DEF Finishes, Moved

\* The winner's wake leaves nobody asleep; no other step is its own.
LEMMA FinisherSteps ==
  ASSUME IInv, NEW t \in Threads, Thread(t), NEW o \in Onces, Finishes(t, o), queue'[o] # <<>>
  PROVE  \E u \in Threads : Finishes(u, o)'
  <1>0. /\ TypeOK /\ ThreadsOK /\ QueuesOK /\ o \in Objects /\ th[t].obj = o /\ th[t].at = "once_wake"
        /\ queue \in [Objects -> Seq(Threads)]
    BY OnceAssumption, QueuesAre DEF IInv, QueuesOK, Finishes
  <1>1. CASE CondNotify(t)
    BY <1>0, <1>1, NotifyActs, FinisherStays
  <1>2. CASE OnceWake(t)
    <2>1. queue' = [queue EXCEPT ![o] = SubSeq(@, Everyone + 1, Len(@))]
      BY <1>0, <1>2 DEF OnceWake, WakeAnd
    <2>2. Len(queue[o]) <= Everyone /\ Everyone \in Nat /\ Len(queue[o]) \in Nat
      BY <1>0, QueueLen, EveryoneType
    <2>3. queue'[o] = SubSeq(queue[o], Everyone + 1, Len(queue[o])) BY <1>0, <2>1
    <2>4. \A n \in Nat : n >= Len(queue[o]) => SubSeq(queue[o], n + 1, Len(queue[o])) = <<>>
      <3> QED BY <1>0
    <2> QED BY <2>2, <2>3, <2>4
  <1> QED BY <1>0, <1>1, <1>2
       DEF Thread, MutexStep, LockAgain, LockDeadlock, LockLook, LockCas, LockOwn, Contend, ContendMark,
           ContendReady, ContendWoke, Unlock, UnlockClear, UnlockPublish, UnlockWake, CondStep,
           CondRegister,
           CondLoop, CondTimer, CondLeave, CondReturn, CondSignal, CondBroadcast, CondSignalled, RwStep,
           ReadWriters, ReadState, ReaderAcquire, ReaderWait, WriterRegister, WriterState, WriterCas,
           WriterWait,
           WriterLeave, RwUnlock, RwWake, SemStep, SemRead, SemTake, SemFlag, SemReady, PostRead,
           PostCas,
           PostWake, PostClear, OnceStep, OnceRead, OnceCas, OnceRun, OnceDone, OnceWait, OnceWoke,
           FutexEnter,
           FutexPark, FutexTimeout, Begin, Await, Put, PutDone, Store, StoreWake, GuestHalt, GuestSteps

\* A step of a thread leaves no sleeper of a finished routine alone ...
LEMMA ThreadFinishes ==
  ASSUME IInv, NEW t \in Threads, Thread(t), NEW o \in Onces, Finished(o)
  PROVE  Finished(o)'
  <1>0. /\ TypeOK /\ ThreadsOK /\ o \in Objects /\ \A k \in Objects : QueueInv(k)
        /\ \A u \in Threads \ {t} : Moved(u)
    BY OnceAssumption, StepActs DEF IInv, TypeOK, ThreadsOK, Acts
  <1>1. SUFFICES ASSUME word'[o] = DONE, queue'[o] # <<>>
                 PROVE  \E u \in Threads : Finishes(u, o)'
    BY DEF Finished
  <1>2. CASE word[o] # DONE
    <2>1. OnceDone(t) /\ th[t].obj = o BY <1>1, <1>2, DoneBy
    <2>2. th'[t].at = "once_wake" /\ th'[t].obj = o
      BY <1>0, <2>1, OwnFields DEF OnceDone, At, Fields
    <2> QED BY <2>2 DEF Finishes
  <1>3. CASE word[o] = DONE
    <2>1. queue[o] # <<>>
      <3>1. CASE th[t].at = "park" /\ th[t].obj = o /\ word[o] = th[t].saw
        BY <1>0, <1>3, <3>1, SleepsHeld
      <3> QED BY <1>0, <1>1, <3>1, QueueGrows
    <2>2. PICK u \in Threads : Finishes(u, o) BY <1>3, <2>1 DEF Finished
    <2>3. CASE u = t BY <1>1, <2>2, <2>3, FinisherSteps
    <2>4. CASE u # t BY <1>0, <2>2, <2>4, FinisherStays
    <2> QED BY <2>3, <2>4
  <1> QED BY <1>2, <1>3

\* ... and a step that only wakes.
LEMMA StopFinishes ==
  ASSUME word' = word, NEW o \in Onces, Finished(o), \A u \in Threads : Moved(u),
         queue'[o] # <<>> => queue[o] # <<>>
  PROVE  Finished(o)'
  BY FinisherStays DEF Finished

-----------------------------------------------------------------------------
(* Nobody is forgotten.                                                    *)

WInv == IInv /\ (\A m \in Mutexes : Rescued(m)) /\ \A o \in Onces : Finished(o)

\* What the shutdown's steps do to the sleepers.
LEMMA StoppingMoves ==
  ASSUME IInv, Stopping \/ Stop \/ UNCHANGED vars
  PROVE  /\ word' = word /\ \A u \in Threads : Moved(u)
         /\ \A o \in Objects : queue'[o] # <<>> => queue[o] # <<>>
  <1>0. TypeOK /\ ThreadsOK /\ QueuesOK /\ \A o \in Objects : QueueInv(o) BY QueuesAre DEF IInv
  <1>1. CASE \/ StopFlag \/ StopLook \/ StopSwept \/ CondStopFlag \/ CondStopAll \/ Stop
             \/ UNCHANGED vars
    <2>1. th' = th /\ queue' = queue /\ word' = word
      BY <1>1 DEF StopFlag, StopLook, StopSwept, CondStopFlag, CondStopAll, Stop, StopThreads, vars,
                  futexVars
    <2> QED BY <2>1, StillMoves
  <1>2. ASSUME NEW k \in Objects, StopWake(k)
        PROVE  /\ word' = word /\ \A u \in Threads : Moved(u)
               /\ \A o \in Objects : queue'[o] # <<>> => queue[o] # <<>>
    <2>1. \A u \in Threads : Moved(u) BY <1>0, <1>2, StopMoves
    <2>2. word' = word /\ queue' = [queue EXCEPT ![k] = <<>>] BY <1>2 DEF StopWake
    <2>3. queue \in [Objects -> Seq(Threads)] BY <1>0 DEF TypeOK
    <2> QED BY <2>1, <2>2, <2>3
  <1>3. CASE CondNotify(Shutdown)
    <2>1. \A u \in Threads : Moved(u) BY <1>0, <1>3, NotifyActs
    <2> QED BY <1>3, <2>1 DEF CondNotify, futexVars
  <1> QED BY <1>1, <1>2, <1>3 DEF Stopping

\* Of the futex and its users (runtime.rs wait and wake, mutex.rs contend and unlock,
\* once.rs): whenever a mutex is free, or a routine done, and a thread is asleep
\* there, another is on its way to wake it, so no wake is lost, whatever the order
\* of the steps and whenever a sleep's time is over.
THEOREM SleepersRescued == Spec => []NoLostWake
  <1>1. ASSUME Init PROVE WInv
    <2>1. \A o \in Objects : queue[o] = <<>> BY <1>1 DEF Init
    <2> QED BY <1>1, <2>1, InitHolds, MutexAssumption, OnceAssumption DEF WInv, Rescued, Finished
  <1>2. ASSUME WInv, [Next]_vars PROVE WInv'
    <2>1. IInv' BY <1>2, NextKeeps DEF WInv
    <2>2. CASE \E t \in Threads : Thread(t)
      BY <1>2, <2>1, <2>2, ThreadRescues, ThreadFinishes DEF WInv
    <2>3. CASE Stopping \/ Stop \/ UNCHANGED vars
      BY <1>2, <2>1, <2>3, StoppingMoves, StopRescues, StopFinishes, MutexAssumption, OnceAssumption
      DEF WInv
    <2> QED BY <1>2, <2>2, <2>3 DEF Next
  <1>3. ASSUME WInv PROVE NoLostWake
    BY <1>3 DEF WInv, Rescued, Finished, Finishes, NoLostWake
  <1> QED BY <1>1, <1>2, <1>3, PTL DEF Spec

-----------------------------------------------------------------------------
(* The call a thread is in.                                                *)

Stays(t) == th'[t].pc = th[t].pc

\* The fields a call is known by.
Same(t) == /\ th'[t].pc = th[t].pc /\ th'[t].obj = th[t].obj /\ th'[t].cond = th[t].cond
           /\ th'[t].back = th[t].back /\ th'[t].ret = th[t].ret

\* The steps of the primitives under a condition's.
FreeSteps == LockSteps \cup UnlockSteps \cup RwSteps \cup SemSteps \cup OnceSteps \cup WordSteps
               \cup FutexSteps

\* A step inside a call: on to another step, or back; a stop is a shutdown's, or a
\* routine's that failed.
Goes(t) == /\ Same(t)
           /\ \/ th'[t].at \in FreeSteps \cup {th[t].back}
              \/ th'[t].at = "stopped" /\ (stage # "up" \/ th[t].back = "idle")

\* A step that writes other fields stays in its call.
LEMMA PlaceFields ==
  ASSUME ThreadsOK, NEW t \in Threads
  PROVE  /\ \A s : At(t, s) => Same(t) /\ th'[t].at = s
         /\ \A c : Answer(t, c) => Same(t) /\ th'[t].at = th[t].back
         /\ \A w, s : Wait(t, w, s) => Same(t) /\ th'[t].at = "futex"
         /\ Fields \subseteq DOMAIN th[t] /\ DOMAIN th = Threads
  BY DEF ThreadsOK, ThreadOK, Fields, At, Answer, Back, Wait, Same

\* The same of a waker, which becomes what it wrote.
LEMMA PlaceWaker ==
  ASSUME TypeOK, \A o \in Objects : QueueInv(o), NEW t \in Threads, NEW n,
         th[t].at \notin FutexSteps, th[t].obj \in Objects
  PROVE  /\ WakeAnd(th[t].obj, n, t, Back(th[t], "0")) => Same(t) /\ th'[t].at = th[t].back
         /\ \A s : WakeAnd(th[t].obj, n, t, [th[t] EXCEPT !.at = s]) => Same(t) /\ th'[t].at = s
  <1>0. ThreadsOK BY DEF TypeOK
  <1>1. \A r : WakeAnd(th[t].obj, n, t, r) => th'[t] = r BY <1>0, OwnFields
  <1>2. Fields \subseteq DOMAIN th[t] BY <1>0, PlaceFields
  <1> QED BY <1>1, <1>2 DEF Back, Same, Fields

\* The steps of a mutex go on in their call ...
LEMMA MutexGoes ==
  ASSUME TypeOK, \A o \in Objects : QueueInv(o), NEW t \in Threads, MutexStep(t)
  PROVE  Goes(t)
  <1>0. ThreadsOK /\ ThreadOK(th[t]) BY DEF TypeOK, ThreadsOK
  <1> USE DEF Goes, FreeSteps, LockSteps, UnlockSteps, FutexSteps
  <1>1. CASE \/ LockAgain(t) \/ LockDeadlock(t) \/ LockLook(t) \/ LockCas(t) \/ LockOwn(t)
             \/ UnlockClear(t) \/ UnlockPublish(t) \/ Unlock(t)
    BY <1>0, <1>1, PlaceFields
    DEF LockAgain, LockDeadlock, LockLook, LockCas, LockOwn, Unlock, UnlockClear, UnlockPublish
  <1>2. CASE Contend(t) BY <1>0, <1>2, PlaceFields DEF Contend, Same, Fields
  <1>3. CASE ContendMark(t) BY <1>0, <1>3, PlaceFields DEF ContendMark, Same, Fields
  <1>4. CASE ContendWoke(t) BY <1>0, <1>4, PlaceFields DEF ContendWoke, Same, Fields
  <1>5. CASE UnlockWake(t)
    <2>1. th[t].at \in LockSteps \cup UnlockSteps /\ th[t].at \notin FutexSteps
      BY <1>5 DEF UnlockWake
    <2>2. th[t].obj \in Objects
      BY <1>0, <2>1, MutexAssumption DEF ThreadOK, StepOK, LockOK, UnlockOK, OnceIs, RwSteps,
                                         CondSteps, MarkSteps, LoopSteps,
                                         AskSteps, LeaveSteps, SemSteps, OnceSteps, WordSteps
    <2> QED BY <1>5, <2>1, <2>2, PlaceWaker DEF UnlockWake
  <1>6. CASE ContendReady(t) BY <1>0, <1>6, PlaceFields DEF ContendReady, stopped
  <1> QED BY <1>1, <1>2, <1>3, <1>4, <1>5, <1>6 DEF MutexStep

\* ... those of a condition ...
LEMMA CondStays ==
  ASSUME ThreadsOK, NEW t \in Threads, CondStep(t), ~CondNotify(t)
  PROVE  Stays(t)
  <1>1. CASE CondRegister(t) BY <1>1, PlaceFields DEF CondRegister, Stays, Fields
  <1>2. CASE CondLoop(t)
    <2>1. CASE At(t, "cond_asleep") BY <2>1, PlaceFields DEF Same, Stays
    <2> QED BY <1>2, <2>1, PlaceFields DEF CondLoop, Stays, Fields
  <1>3. CASE CondTimer(t) \/ CondSignalled(t)
    BY <1>3, PlaceFields DEF CondTimer, CondSignalled, Same, Stays
  <1>4. CASE CondLeave(t) BY <1>4, PlaceFields DEF CondLeave, Stays, Fields
  <1>5. CASE CondReturn(t) BY <1>5, PlaceFields DEF CondReturn, Stays, Fields
  <1>6. CASE CondSignal(t) \/ CondBroadcast(t)
    BY <1>6, PlaceFields DEF CondSignal, CondBroadcast, CondMark, Same, Stays
  <1> QED BY <1>1, <1>2, <1>3, <1>4, <1>5, <1>6 DEF CondStep

\* ... of a read-write lock ...
LEMMA RwGoes ==
  ASSUME TypeOK, \A o \in Objects : QueueInv(o), NEW t \in Threads, RwStep(t)
  PROVE  Goes(t)
  <1>0. ThreadsOK /\ ThreadOK(th[t]) BY DEF TypeOK, ThreadsOK
  <1> USE DEF Goes, FreeSteps, RwSteps, AskSteps, LeaveSteps, FutexSteps
  <1>1. CASE ReadWriters(t) BY <1>0, <1>1, PlaceFields DEF ReadWriters, Same, Fields
  <1>2. CASE ReadState(t) BY <1>0, <1>2, PlaceFields DEF ReadState, Same, Fields
  <1>3. CASE WriterState(t) BY <1>0, <1>3, PlaceFields DEF WriterState, Same, Fields
  <1>4. CASE \/ ReaderAcquire(t) \/ ReaderWait(t) \/ WriterRegister(t) \/ WriterCas(t)
             \/ WriterWait(t) \/ WriterLeave(t) \/ RwUnlock(t)
    BY <1>0, <1>4, PlaceFields
    DEF ReaderAcquire, ReaderWait, WriterRegister, WriterCas, WriterWait, WriterLeave, RwUnlock
  <1>5. CASE RwWake(t)
    <2>1. th[t].at \notin FutexSteps BY <1>5 DEF RwWake
    <2>2. th[t].obj \in Objects BY <1>5, RwOwn, RwAssumption DEF RwStep
    <2> QED BY <1>5, <2>1, <2>2, PlaceWaker DEF RwWake
  <1> QED BY <1>1, <1>2, <1>3, <1>4, <1>5 DEF RwStep

\* ... of a semaphore ...
LEMMA SemGoes ==
  ASSUME TypeOK, \A o \in Objects : QueueInv(o), NEW t \in Threads, SemStep(t)
  PROVE  Goes(t)
  <1>0. ThreadsOK /\ ThreadOK(th[t]) BY DEF TypeOK, ThreadsOK
  <1> USE DEF Goes, FreeSteps, SemSteps, FutexSteps
  <1>1. CASE SemRead(t)
    <2> DEFINE w == word[th[t].obj]
               s == CASE Value(w) > 0 -> "sem_take"
                      [] Value(w) = 0 /\ ~Flagged(w) -> "sem_flag"
                      [] OTHER -> "sem_ready"
    <2>1. th' = [th EXCEPT ![t].saw = w, ![t].at = s] BY <1>1 DEF SemRead
    <2>2. s \in SemSteps OBVIOUS
    <2> HIDE DEF s, w
    <2> QED BY <1>0, <2>1, <2>2, PlaceFields DEF Same, Fields
  <1>2. CASE SemTake(t) \/ PostCas(t) BY <1>0, <1>2, Exchanges, PlaceFields
  <1>3. CASE SemFlag(t)
    <2>1. th' = [th EXCEPT ![t] = [th[t] EXCEPT !.at = "sem_ready", !.saw = WithFlag(@)]]
      BY <1>3 DEF SemFlag, Cas
    <2> QED BY <1>0, <2>1, PlaceFields DEF Same, Fields
  <1>4. CASE SemReady(t) \/ PostClear(t) BY <1>0, <1>4, PlaceFields DEF SemReady, PostClear
  <1>5. CASE PostRead(t)
    <2>1. CASE Answer(t, "EINVAL") BY <1>0, <2>1, PlaceFields
    <2> QED BY <1>0, <1>5, <2>1, PlaceFields DEF PostRead, Same, Fields
  <1>6. CASE PostWake(t)
    <2>1. th[t].at \notin FutexSteps BY <1>6 DEF PostWake
    <2>2. th[t].obj \in Objects BY <1>6, SemOwn, SemAssumption DEF SemStep
    <2>3. \/ WakeAnd(th[t].obj, 1, t, [th[t] EXCEPT !.at = "post_clear"])
          \/ WakeAnd(th[t].obj, 1, t, Back(th[t], "0"))
      BY <1>6 DEF PostWake, Step
    <2> QED BY <2>1, <2>2, <2>3, PlaceWaker
  <1> QED BY <1>1, <1>2, <1>3, <1>4, <1>5, <1>6 DEF SemStep

\* ... of a routine ...
LEMMA OnceGoes ==
  ASSUME TypeOK, \A o \in Objects : QueueInv(o), NEW t \in Threads, OnceStep(t)
  PROVE  Goes(t)
  <1>0. ThreadsOK /\ ThreadOK(th[t]) BY DEF TypeOK, ThreadsOK
  <1> USE DEF Goes, FreeSteps, OnceSteps, FutexSteps
  <1>1. CASE OnceRead(t) \/ OnceCas(t) \/ OnceDone(t) \/ OnceWait(t) \/ OnceWoke(t)
    BY <1>0, <1>1, PlaceFields DEF OnceRead, OnceCas, OnceDone, OnceWait, OnceWoke
  <1>2. CASE OnceRun(t) BY <1>0, <1>2, PlaceFields DEF OnceRun, Same, Fields
  <1>3. CASE OnceWake(t)
    <2>1. th[t].at \notin FutexSteps BY <1>3 DEF OnceWake
    <2>2. th[t].obj \in Objects /\ th[t].back = "idle"
      BY <1>0, <1>3, OnceAssumption
      DEF OnceWake, ThreadOK, StepOK, OnceIs, RwSteps, LockSteps, UnlockSteps, CondSteps, MarkSteps,
          LoopSteps, AskSteps, LeaveSteps, SemSteps, WordSteps
    <2>3. \/ WakeAnd(th[t].obj, Everyone, t, [th[t] EXCEPT !.at = "stopped"])
          \/ WakeAnd(th[t].obj, Everyone, t, Back(th[t], "0"))
      BY <1>3 DEF OnceWake
    <2> QED BY <2>1, <2>2, <2>3, PlaceWaker
  <1> QED BY <1>1, <1>2, <1>3 DEF OnceStep

\* ... of a word of the guest's own, and of a wait.
LEMMA WaitGoes ==
  ASSUME TypeOK, \A o \in Objects : QueueInv(o), NEW t \in Threads,
         \/ Store(t) \/ StoreWake(t) \/ GuestHalt(t)
         \/ FutexEnter(t) \/ FutexPark(t) \/ FutexTimeout(t)
  PROVE  Goes(t)
  <1>0. ThreadsOK /\ ThreadOK(th[t]) BY DEF TypeOK, ThreadsOK
  <1> USE DEF Goes, FreeSteps, WordSteps, FutexSteps
  <1>1. CASE Store(t) \/ GuestHalt(t)
    BY <1>0, <1>1, PlaceFields DEF Store, GuestHalt, threads_stopping
  <1>2. CASE StoreWake(t)
    <2>1. th[t].at \notin FutexSteps BY <1>2 DEF StoreWake
    <2>2. th[t].obj \in Objects BY <1>2, StoreOwn DEF Words
    <2> QED BY <1>2, <2>1, <2>2, PlaceWaker DEF StoreWake
  <1>3. CASE FutexEnter(t) \/ FutexPark(t) \/ FutexTimeout(t)
    <2>1. th[t].at \in FutexSteps BY <1>3 DEF FutexEnter, FutexPark, FutexTimeout
    <2>2. /\ th[t].then \in LockSteps \cup RwSteps \cup SemSteps \cup OnceSteps \cup {"idle"}
          /\ th[t].then = "idle" => th[t].back = "idle"
      BY <1>0, <2>1 DEF ThreadOK, StepOK, OnceIs, RwSteps, LockSteps, UnlockSteps, CondSteps, MarkSteps,
                        LoopSteps, AskSteps, LeaveSteps, SemSteps, OnceSteps, WordSteps
    <2>3. \A r : th' = [th EXCEPT ![t] = Woke(@, r)] => Same(t) /\ th'[t].at = th[t].then
      BY <1>0, PlaceFields DEF Woke, Same, Fields
    <2>4. th' = [th EXCEPT ![t] = [@ EXCEPT !.at = "park"]] => Same(t) /\ th'[t].at = "park"
      BY <1>0, PlaceFields DEF Same, Fields
    <2> QED BY <1>0, <1>3, <2>2, <2>3, <2>4, PlaceFields DEF FutexEnter, FutexPark, FutexTimeout
  <1> QED BY <1>1, <1>2, <1>3

\* The predicate loop stays in its call; only a call's begin goes on.
LEMMA LoopStays ==
  ASSUME ThreadsOK, NEW t \in Threads, Await(t) \/ Put(t) \/ PutDone(t)
  PROVE  Stays(t)
  <1>1. CASE Await(t) BY <1>1, AwaitIs DEF Stays
  <1>2. CASE Put(t) BY <1>2, PlaceFields DEF Put, Stays, Fields
  <1>3. CASE PutDone(t) BY <1>3, PlaceFields DEF PutDone, Stays, Fields
  <1> QED BY <1>1, <1>2, <1>3

-----------------------------------------------------------------------------
(* A routine and its calls.                                                *)

Runs(t, o) == th[t].obj = o /\ th[t].at \in {"once_run", "once_done"}

\* The word says how far the routine is, and one thread at most is in it; done, it
\* has run, or its one run failed.
OnceInv(o) ==
  /\ word[o] \in {NEVER, IN_PROGRESS, DONE} /\ completed[o] \in {0, 1}
  /\ word[o] = NEVER => completed[o] = 0
  /\ word[o] = DONE => completed[o] = 1 \/ \E t \in Threads : Failed(t, o)
  /\ \A t \in Threads : Runs(t, o) =>
       /\ word[o] = IN_PROGRESS
       /\ IF th[t].at = "once_run" THEN completed[o] = 0
                                   ELSE completed[o] = 1 \/ th[t].answer = "failed"
  /\ \A t \in Threads : Finishes(t, o) => word[o] = DONE
  /\ \A t, u \in Threads : Runs(t, o) /\ Runs(u, o) => t = u

\* A thread whose call is a once is in it, or back after the routine's end.
Called(t) ==
  th[t].pc > 0 /\ Now(t).op = "once" =>
    /\ th[t].obj \in Onces
    /\ \/ Where(th[t]) \in OnceSteps \cup {"stopped"}
       \/ th[t].at = "idle" /\ word[th[t].obj] = DONE

OInv == /\ IInv /\ completed \in [Onces -> Nat]
        /\ \A o \in Onces : OnceInv(o)
        /\ \A t \in Threads : Called(t)

\* What a step keeps of u's part in the routines.
Kept(u, o) == /\ Runs(u, o)' => /\ Runs(u, o) /\ th'[u].at = th[u].at
                                 /\ th'[u].answer = th[u].answer
              /\ Finishes(u, o)' => Finishes(u, o)

\* A routine that a step leaves keeps its invariant.
LEMMA OnceFrame ==
  ASSUME NEW o \in Onces, OnceInv(o), word'[o] = word[o], completed'[o] = completed[o],
         \A u \in Threads : Kept(u, o) /\ (Failed(u, o) => Failed(u, o)')
  PROVE  OnceInv(o)'
  BY DEF OnceInv, Kept

\* Who is only woken comes to no step of a routine.
LEMMA MovedKept ==
  ASSUME ThreadsOK, NEW u \in Threads, Moved(u), NEW o \in Onces
  PROVE  Kept(u, o)
  <1>1. ThreadOK(th[u]) BY DEF ThreadsOK
  <1>2. CASE th'[u] = th[u] BY <1>2 DEF Kept, Runs, Finishes
  <1>3. CASE th[u].at = "asleep" /\ th'[u] = Woke(th[u], "Woken")
    <2>1. th[u].then \in {"contend_woke", "rdlock", "wr_state", "semwait", "once_woke", "idle"}
      BY <1>1, <1>3 DEF ThreadOK, StepOK, RwSteps, LockSteps, UnlockSteps, CondSteps, MarkSteps,
                        LoopSteps, AskSteps, LeaveSteps, SemSteps, OnceSteps, WordSteps, FutexSteps
    <2>2. th'[u].at = th[u].then BY <1>1, <1>3 DEF Woke, ThreadOK, Fields
    <2> QED BY <2>1, <2>2 DEF Kept, Runs, Finishes
  <1>4. CASE th[u].at = "cond_asleep" /\ th'[u] = [th[u] EXCEPT !.at = "cond_loop"]
    <2>1. th'[u].at = "cond_loop" BY <1>1, <1>4 DEF ThreadOK, Fields
    <2> QED BY <2>1 DEF Kept, Runs, Finishes
  <1> QED BY <1>2, <1>3, <1>4 DEF Moved

\* A thread that failed stays so.
LEMMA MovedFailed ==
  ASSUME NEW u \in Threads, Moved(u), NEW o \in Onces, Failed(u, o)
  PROVE  Failed(u, o)'
  BY DEF Moved, Failed

\* No step of anyone else's, nor the wake of the losers, undoes it.
LEMMA FailedStays ==
  ASSUME IInv, NEW t \in Threads, Thread(t), NEW u \in Threads, NEW o \in Onces, Failed(u, o)
  PROVE  Failed(u, o)'
  <1>0. /\ TypeOK /\ ThreadsOK /\ (\A k \in Objects : QueueInv(k)) /\ \A v \in Threads \ {t} : Moved(v)
        /\ th[u].at \in {"once_wake", "stopped"} /\ o \in Objects
    BY StepActs, OnceAssumption DEF IInv, TypeOK, Acts, Failed
  <1>1. CASE u # t BY <1>0, <1>1, MovedFailed
  <1>2. CASE u = t
    <2>1. CASE CondNotify(t) BY <1>0, <2>1, NotifyActs, MovedFailed
    <2>2. CASE OnceWake(t)
      <3>1. th[t].obj = o /\ th[t].answer = "failed" /\ th[t].at \notin FutexSteps
        BY <1>2, <2>2 DEF Failed, OnceWake, FutexSteps
      <3>2. WakeAnd(th[t].obj, Everyone, t, [th[t] EXCEPT !.at = "stopped"]) BY <2>2, <3>1 DEF OnceWake
      <3>3. th'[t] = [th[t] EXCEPT !.at = "stopped"] BY <1>0, <3>1, <3>2, OwnFields
      <3>4. th'[t].at = "stopped" /\ th'[t].obj = o /\ th'[t].answer = "failed"
        BY <1>0, <3>1, <3>3, PlaceFields DEF Fields
      <3> QED BY <1>2, <3>4 DEF Failed
    <2> QED BY <1>0, <1>2, <2>1, <2>2
         DEF Thread, MutexStep, LockAgain, LockDeadlock, LockLook, LockCas, LockOwn, Contend,
             ContendMark,
             ContendReady, ContendWoke, Unlock, UnlockClear, UnlockPublish, UnlockWake, CondStep,
             CondRegister,
             CondLoop, CondTimer, CondLeave, CondReturn, CondSignal, CondBroadcast, CondSignalled,
             RwStep,
             ReadWriters, ReadState, ReaderAcquire, ReaderWait, WriterRegister, WriterState, WriterCas,
             WriterWait,
             WriterLeave, RwUnlock, RwWake, SemStep, SemRead, SemTake, SemFlag, SemReady, PostRead,
             PostCas,
             PostWake, PostClear, OnceStep, OnceRead, OnceCas, OnceRun, OnceDone, OnceWait, OnceWoke,
             FutexEnter,
             FutexPark, FutexTimeout, Begin, Await, Put, PutDone, Store, StoreWake, GuestHalt,
             GuestSteps
  <1> QED BY <1>1, <1>2

\* No step of another primitive, or of the guest, is a routine's.
LEMMA OffRoutines ==
  ASSUME IInv, NEW t \in Threads, Thread(t), ~OnceStep(t)
  PROVE  /\ \A o \in Onces : word'[o] = word[o]
         /\ completed' = completed /\ scenario' = scenario
         /\ \A o \in Onces : Kept(t, o)
  <1>0. /\ TypeOK /\ ThreadsOK /\ \A o \in Objects : QueueInv(o)
        /\ Acts(t) /\ ThreadOK(th[t]) /\ ThreadOK(th'[t])
        /\ Onces \subseteq Objects
    BY StepActs, OnceAssumption DEF IInv, TypeOK, ThreadsOK, Acts
  <1>1. completed' = completed /\ scenario' = scenario
    BY DEF Thread, notSem, notMutex, notCond, notRw, Begin, Await, Put, PutDone, Store, StoreWake,
           GuestHalt
  <1>2. ASSUME th'[t].obj \notin Onces PROVE \A o \in Onces : Kept(t, o)
    BY <1>2 DEF Kept, Runs, Finishes
  <1>3. ASSUME OwnWord(t), th[t].obj \notin Onces
        PROVE  /\ \A o \in Onces : word'[o] = word[o]
               /\ \A o \in Onces : Kept(t, o)
    BY <1>0, <1>2, <1>3 DEF OwnWord
  <1>4. CASE RwStep(t) BY <1>0, <1>1, <1>3, <1>4, RwOwn, KindsAssumption
  <1>5. CASE SemStep(t) BY <1>0, <1>1, <1>3, <1>5, SemOwn, KindsAssumption
  <1>6. CASE Store(t) \/ StoreWake(t) BY <1>0, <1>1, <1>3, <1>6, StoreOwn DEF Words
  <1>7. CASE MutexStep(t)
    <2>1. th[t].at \in LockSteps \cup UnlockSteps
      BY <1>7
      DEF LockSteps, UnlockSteps, MutexStep, LockAgain, LockDeadlock, LockLook, LockCas, LockOwn,
          Contend,
          ContendMark, ContendReady, ContendWoke, Unlock, UnlockClear, UnlockPublish, UnlockWake
    <2>2. th[t].obj \in Mutexes
      BY <1>0, <2>1, IsAtMutex DEF IInv, MutexesOK, AtMutex
    <2>3. OnlyItsOwn(t) BY <1>0, <1>7, MutexStepKeeps DEF IInv
    <2>4. th[t].obj \notin Onces BY <2>2, KindsAssumption
    <2> QED BY <1>0, <1>1, <1>2, <2>3, <2>4 DEF OnlyItsOwn
  <1>8. CASE CondStep(t) /\ ~CondNotify(t)
    <2>1. th'[t].obj = th[t].obj /\ th[t].obj \in Mutexes BY <1>0, <1>8, CondHolds DEF OnHold
    <2>2. word' = word
      BY <1>8 DEF CondStep, CondRegister, CondLoop, CondTimer, CondLeave, CondReturn, CondSignal,
                  CondBroadcast,
                  CondMark, CondSignalled, futexVars
    <2> QED BY <1>1, <1>2, <2>1, <2>2, KindsAssumption
  <1>9. CASE CondNotify(t)
    <2>1. Moved(t) BY <1>0, <1>9, NotifyActs
    <2>2. word' = word BY <1>9 DEF CondNotify, futexVars
    <2> QED BY <1>0, <1>1, <2>1, <2>2, MovedKept
  <1>10. CASE FutexEnter(t) \/ FutexPark(t) \/ FutexTimeout(t)
    <2>1. Where(th'[t]) = Where(th[t]) BY <1>0, <1>10, FutexHolds
    <2>2. th[t].at \in FutexSteps BY <1>10 DEF FutexEnter, FutexPark, FutexTimeout, FutexSteps
    <2>3. th[t].then \in {"contend_woke", "rdlock", "wr_state", "semwait", "once_woke", "idle"}
      BY <1>0, <2>2 DEF ThreadOK, StepOK, RwSteps, LockSteps, UnlockSteps, CondSteps, MarkSteps,
                        LoopSteps, AskSteps, LeaveSteps, SemSteps, OnceSteps, WordSteps, FutexSteps
    <2>4. th'[t].at \notin {"once_run", "once_done", "once_wake"}
      BY <2>1, <2>2, <2>3 DEF Where, FutexSteps
    <2>5. word' = word BY <1>10 DEF FutexEnter, FutexPark, FutexTimeout, futexVars
    <2> QED BY <1>1, <2>4, <2>5 DEF Kept, Runs, Finishes
  <1>11. CASE Await(t) \/ Put(t) \/ PutDone(t) \/ GuestHalt(t)
    <2>1. th'[t].at \in {"unlock", "wait", "signal", "broadcast", "stopped"}
      <3>1. CASE Await(t) BY <1>0, <3>1, AwaitIs
      <3>2. CASE Put(t) BY <1>0, <3>2, PlaceFields DEF Put, Fields
      <3>3. CASE PutDone(t) BY <1>0, <3>3, PlaceFields DEF PutDone, Fields
      <3>4. CASE GuestHalt(t) BY <1>0, <3>4, PlaceFields DEF GuestHalt, At, Fields
      <3> QED BY <1>11, <3>1, <3>2, <3>3, <3>4
    <2>2. word' = word BY <1>11 DEF Await, Put, PutDone, GuestHalt, futexVars
    <2> QED BY <1>1, <2>1, <2>2 DEF Kept, Runs, Finishes
  <1>12. CASE Begin(t)
    <2>1. \A call \in Call : First(call.op) \notin {"once_run", "once_done", "once_wake"}
      BY DEF First, Call, On
    <2>2. th'[t].at \notin {"once_run", "once_done", "once_wake"} BY <1>0, <1>12, <2>1, BeginIs
    <2>3. word' = word BY <1>12 DEF Begin, futexVars
    <2> QED BY <1>1, <2>2, <2>3 DEF Kept, Runs, Finishes
  <1> QED BY <1>4, <1>5, <1>6, <1>7, <1>8, <1>9, <1>10, <1>11, <1>12 DEF Thread

\* A routine's step on its own word.
LEMMA OnceStepKeeps ==
  ASSUME OInv, NEW t \in Threads, Thread(t), OnceStep(t),
         NEW o \in Onces, o = th[t].obj
  PROVE  /\ OnceInv(o)' /\ completed' \in [Onces -> Nat]
         /\ \A k \in Onces \ {o} : completed'[k] = completed[k]
  <1>0. /\ TypeOK /\ ThreadsOK /\ ThreadOK(th[t]) /\ OnceInv(o) /\ completed \in [Onces -> Nat]
        /\ word \in [Objects -> Int] /\ o \in Objects /\ \A k \in Objects : QueueInv(k)
        /\ \A u \in Threads \ {t} : Kept(u, o)
        /\ \A u \in Threads : Failed(u, o) => Failed(u, o)'
    BY StepActs, MovedKept, FailedStays, OnceAssumption DEF OInv, IInv, TypeOK, ThreadsOK, Acts
  <1>1. th'[t].obj = o /\ OwnWord(t) /\ th[t].at \in OnceSteps
    BY <1>0, OnceOwn
    DEF OwnWord, OnceSteps, OnceStep, OnceRead, OnceCas, OnceRun, OnceDone, OnceWake, OnceWait, OnceWoke
  <1>2. th[t].back = "idle" /\ th[t].at \notin FutexSteps
    BY <1>0, <1>1 DEF ThreadOK, StepOK, OnceIs, RwSteps, LockSteps, UnlockSteps, CondSteps, MarkSteps,
                      LoopSteps, AskSteps, LeaveSteps, SemSteps, OnceSteps, WordSteps, FutexSteps
  <1>3. ASSUME th'[t].at \notin {"once_run", "once_done", "once_wake"}, word' = word, completed' = completed
        PROVE  /\ OnceInv(o)' /\ completed' \in [Onces -> Nat]
               /\ \A k \in Onces \ {o} : completed'[k] = completed[k]
    <2>1. Kept(t, o) BY <1>3 DEF Kept, Runs, Finishes
    <2>2. \A u \in Threads : Kept(u, o) BY <1>0, <2>1
    <2> QED BY <1>0, <1>3, <2>2, OnceFrame
  <1>4. CASE OnceRead(t)
    <2>1. word' = word /\ completed' = completed BY <1>4 DEF OnceRead, futexVars
    <2>2. th'[t].at \in {"idle", "once_wait", "once_cas"}
      BY <1>0, <1>2, <1>4, AtFields DEF OnceRead
    <2> QED BY <1>3, <2>1, <2>2
  <1>5. CASE OnceCas(t)
    <2>1. CASE word[o] # NEVER
      <3>1. word' = word /\ completed' = completed /\ At(t, "once") BY <1>5, <2>1 DEF OnceCas
      <3>2. th'[t].at = "once" BY <1>0, <3>1, AtFields
      <3> QED BY <1>3, <3>1, <3>2
    <2>2. CASE word[o] = NEVER
      <3>1. word' = [word EXCEPT ![o] = IN_PROGRESS] /\ completed' = completed /\ At(t, "once_run")
        BY <1>5, <2>2 DEF OnceCas
      <3>2. word'[o] = IN_PROGRESS BY <1>0, <3>1
      <3>3. th'[t].at = "once_run" BY <1>0, <3>1, AtFields
      <3>4. NEVER # IN_PROGRESS /\ NEVER # DONE /\ IN_PROGRESS # DONE BY DEF NEVER, IN_PROGRESS, DONE
      <3>5. /\ completed'[o] = 0 /\ \A u \in Threads : ~Runs(u, o) /\ ~Finishes(u, o)
        BY <1>0, <2>2, <3>1, <3>4 DEF OnceInv
      <3>6. \A u \in Threads \ {t} : ~Runs(u, o)' /\ ~Finishes(u, o)' BY <1>0, <3>5 DEF Kept
      <3>7. ~Finishes(t, o)' BY <3>3 DEF Finishes
      <3>8. OnceInv(o)' BY <3>2, <3>3, <3>4, <3>5, <3>6, <3>7 DEF OnceInv
      <3> QED BY <1>0, <3>1, <3>8
    <2> QED BY <2>1, <2>2
  <1>6. CASE OnceRun(t)
    <2>1. PICK fails \in RoutineFails :
            /\ completed' = IF fails THEN completed ELSE [completed EXCEPT ![o] = @ + 1]
            /\ th' = [th EXCEPT ![t].at = "once_done", ![t].answer = IF fails THEN "failed" ELSE "0"]
      BY <1>6 DEF OnceRun
    <2>2. word' = word /\ fails \in BOOLEAN BY <1>6, OnceAssumption DEF OnceRun, futexVars
    <2>3. th'[t].at = "once_done" /\ (fails => th'[t].answer = "failed")
      BY <1>0, <2>1, PlaceFields DEF Fields
    <2>4. Runs(t, o) /\ th[t].at = "once_run" BY <1>6 DEF Runs, OnceRun
    <2>5. completed[o] = 0 /\ word[o] = IN_PROGRESS BY <1>0, <2>4 DEF OnceInv
    <2>6. /\ word'[o] = IN_PROGRESS /\ completed'[o] = IF fails THEN 0 ELSE 1
          /\ completed' \in [Onces -> Nat] /\ \A k \in Onces \ {o} : completed'[k] = completed[k]
      BY <1>0, <2>1, <2>2, <2>5
    <2>7. \A u \in Threads \ {t} : ~Runs(u, o) /\ ~Finishes(u, o)
      BY <1>0, <2>4, <2>5 DEF OnceInv, IN_PROGRESS, DONE
    <2>8. \A u \in Threads \ {t} : ~Runs(u, o)' /\ ~Finishes(u, o)' BY <1>0, <2>7 DEF Kept
    <2>9. ~Finishes(t, o)' BY <2>3 DEF Finishes
    <2>10. OnceInv(o)' BY <2>2, <2>3, <2>6, <2>8, <2>9 DEF OnceInv, NEVER, IN_PROGRESS, DONE
    <2> QED BY <2>6, <2>10
  <1>7. CASE OnceDone(t)
    <2>1. completed' = completed /\ word' = [word EXCEPT ![o] = DONE] /\ At(t, "once_wake")
      BY <1>7 DEF OnceDone
    <2>2. word'[o] = DONE /\ th'[t].at = "once_wake" BY <1>0, <2>1, AtFields
    <2>3. Runs(t, o) /\ th[t].at = "once_done" BY <1>7 DEF Runs, OnceDone
    <2>4. completed'[o] \in {0, 1} /\ (completed'[o] = 1 \/ th[t].answer = "failed")
      BY <1>0, <2>1, <2>3 DEF OnceInv
    <2>5. th'[t].answer = th[t].answer /\ th'[t].obj = o
      BY <1>0, <1>1, <2>1, PlaceFields DEF At, Fields
    <2>6. \A u \in Threads \ {t} : ~Runs(u, o)' BY <1>0, <2>3 DEF OnceInv, Kept
    <2>7. ~Runs(t, o)' BY <2>2 DEF Runs
    <2>8. completed'[o] = 1 \/ \E u \in Threads : Failed(u, o)' BY <2>2, <2>4, <2>5 DEF Failed
    <2>9. \A u \in Threads : ~Runs(u, o)' BY <2>6, <2>7
    <2>10. OnceInv(o)' BY <2>2, <2>4, <2>8, <2>9 DEF OnceInv, NEVER, IN_PROGRESS, DONE
    <2> QED BY <1>0, <2>1, <2>10
  <1>8. CASE OnceWake(t)
    <2>1. PICK r \in {[th[t] EXCEPT !.at = "stopped"], Back(th[t], "0")} :
             WakeAnd(th[t].obj, Everyone, t, r)
      BY <1>8 DEF OnceWake
    <2>2. th'[t] = r BY <1>0, <1>2, <2>1, OwnFields
    <2>3. th'[t].at \in {"stopped", "idle"} BY <1>0, <1>2, <2>1, <2>2, PlaceFields DEF Back, Fields
    <2>4. word' = word /\ completed' = completed BY <1>8 DEF OnceWake
    <2> QED BY <1>3, <2>3, <2>4
  <1>9. CASE OnceWait(t) \/ OnceWoke(t)
    <2>1. word' = word /\ completed' = completed BY <1>9 DEF OnceWait, OnceWoke, futexVars
    <2>2. th'[t].at \in {"idle", "once_wait", "futex"}
      BY <1>0, <1>2, <1>9, AtFields DEF OnceWait, OnceWoke
    <2> QED BY <1>3, <2>1, <2>2
  <1> QED BY <1>4, <1>5, <1>6, <1>7, <1>8, <1>9 DEF OnceStep

\* A finished routine stays finished.
LEMMA DoneStays ==
  ASSUME IInv, NEW t \in Threads, Thread(t), NEW o \in Onces, word[o] = DONE
  PROVE  word'[o] = DONE
  <1>0. /\ TypeOK /\ word \in [Objects -> Int] /\ o \in Objects /\ \A k \in Objects : QueueInv(k)
    BY OnceAssumption DEF IInv, TypeOK
  <1>1. CASE ~OnceStep(t) BY <1>1, OffRoutines
  <1>2. CASE OnceStep(t)
    <2>1. CASE th[t].obj # o BY <1>0, <1>2, <2>1, OnceOwn DEF OwnWord
    <2>2. CASE th[t].obj = o
      <3>1. NEVER # DONE BY DEF NEVER, DONE
      <3>2. CASE OnceDone(t)
        <4>1. word' = [word EXCEPT ![o] = DONE] BY <2>2, <3>2 DEF OnceDone
        <4> QED BY <1>0, <4>1
      <3>3. CASE OnceCas(t) BY <2>2, <3>1, <3>3 DEF OnceCas
      <3> QED BY <1>2, <3>2, <3>3 DEF OnceStep, OnceRead, OnceRun, OnceWake, OnceWait, OnceWoke,
                                      futexVars
    <2> QED BY <2>1, <2>2
  <1> QED BY <1>1, <1>2

\* Who is only woken stays in its call.
LEMMA MovedCalled ==
  ASSUME ThreadsOK, NEW u \in Threads, Moved(u), Called(u), scenario' = scenario,
         \A o \in Onces : word[o] = DONE => word'[o] = DONE
  PROVE  Called(u)'
  <1>1. ThreadOK(th[u]) BY DEF ThreadsOK
  <1>2. SUFFICES ASSUME th'[u].pc > 0, Now(u)'.op = "once"
                 PROVE  /\ th'[u].obj \in Onces
                        /\ \/ Where(th'[u]) \in OnceSteps \cup {"stopped"}
                           \/ th'[u].at = "idle" /\ word'[th'[u].obj] = DONE
    BY DEF Called
  <1>3. th'[u].pc = th[u].pc /\ th'[u].obj = th[u].obj
    BY <1>1 DEF Moved, Woke, ThreadOK, Fields
  <1>4. /\ th[u].obj \in Onces
        /\ \/ Where(th[u]) \in OnceSteps \cup {"stopped"}
           \/ th[u].at = "idle" /\ word[th[u].obj] = DONE
    BY <1>2, <1>3 DEF Called, Now
  <1>5. CASE th'[u] = th[u] BY <1>3, <1>4, <1>5
  <1>6. CASE th[u].at = "asleep" /\ th'[u] = Woke(th[u], "Woken")
    <2>1. th[u].then \in {"contend_woke", "rdlock", "wr_state", "semwait", "once_woke", "idle"}
      BY <1>1, <1>6 DEF ThreadOK, StepOK, RwSteps, LockSteps, UnlockSteps, CondSteps, MarkSteps,
                        LoopSteps, AskSteps, LeaveSteps, SemSteps, OnceSteps, WordSteps, FutexSteps
    <2>2. th'[u].at = th[u].then BY <1>1, <1>6 DEF Woke, ThreadOK, Fields
    <2>3. Where(th'[u]) = th[u].then /\ Where(th[u]) = th[u].then
      BY <1>6, <2>1, <2>2 DEF Where, FutexSteps
    <2> QED BY <1>3, <1>4, <1>6, <2>3
  <1>7. CASE th[u].at = "cond_asleep"
    BY <1>4, <1>7 DEF Where, FutexSteps, OnceSteps
  <1> QED BY <1>5, <1>6, <1>7 DEF Moved

\* A call's begin is the once's first step, if it is one.
LEMMA BeginCalled ==
  ASSUME IInv, NEW t \in Threads, Begin(t)
  PROVE  Called(t)'
  <1>0. ThreadsOK /\ TypeOK /\ ThreadOK(th[t]) BY DEF IInv, TypeOK, ThreadsOK
  <1> DEFINE call == scenario.calls[t][th[t].pc + 1]
  <1>1. call \in Call /\ th[t].at = "idle" BY <1>0, CallOK DEF Begin
  <1>2. scenario' = scenario BY DEF Begin, notSem
  <1>3. th'[t].pc = th[t].pc + 1
    BY <1>0, PlaceFields DEF Begin, Started, Fields
  <1>4. Now(t)' = call BY <1>2, <1>3 DEF Now
  <1>5. SUFFICES ASSUME call.op = "once"
                 PROVE  th'[t].obj \in Onces /\ Where(th'[t]) \in OnceSteps
    BY <1>4 DEF Called
  <1>6. Held(t, call) BY <1>5 DEF Held
  <1>7. th' = [th EXCEPT ![t] = Started([th[t] EXCEPT !.pc = @ + 1], call)] BY <1>6 DEF Begin
  <1>8. call.obj \in Onces BY <1>1, <1>5 DEF Call, On
  <1> HIDE DEF call
  <1>9. th'[t].obj = call.obj /\ th'[t].at = "once"
    BY <1>0, <1>5, <1>7, PlaceFields DEF Started, First, Fields
  <1> QED BY <1>8, <1>9 DEF Where, OnceSteps, FutexSteps

\* A routine's step leaves its thread in the call, or at its end.
LEMMA OnceCalled ==
  ASSUME OInv, NEW t \in Threads, Thread(t), OnceStep(t)
  PROVE  Called(t)'
  <1>0. /\ TypeOK /\ ThreadsOK /\ ThreadOK(th[t]) /\ \A o \in Objects : QueueInv(o)
        /\ \A o \in Onces : OnceInv(o)
    BY DEF OInv, IInv, TypeOK, ThreadsOK
  <1>1. th'[t].obj = th[t].obj /\ th[t].obj \in Onces /\ th[t].at \in OnceSteps
    BY <1>0, OnceOwn
    DEF OwnWord, OnceSteps, OnceStep, OnceRead, OnceCas, OnceRun, OnceDone, OnceWake, OnceWait, OnceWoke
  <1>2. th[t].back = "idle" /\ th[t].at \notin FutexSteps /\ th[t].obj \in Objects
    BY <1>0, <1>1, OnceAssumption DEF ThreadOK, StepOK, OnceIs, RwSteps, LockSteps, UnlockSteps,
                                      CondSteps, MarkSteps, LoopSteps, AskSteps, LeaveSteps, SemSteps,
                                      OnceSteps, WordSteps, FutexSteps
  <1>3. ASSUME th'[t].at \in OnceSteps \cup {"stopped"} PROVE Called(t)'
    BY <1>1, <1>3 DEF Called, Where, OnceSteps, FutexSteps
  <1>4. ASSUME th'[t].at = "idle", word'[th[t].obj] = DONE PROVE Called(t)'
    BY <1>1, <1>4 DEF Called
  <1>5. CASE OnceRead(t)
    <2>1. CASE word[th[t].obj] = DONE /\ Answer(t, "0")
      BY <1>0, <1>2, <1>4, <1>5, <2>1, AtFields DEF OnceRead, futexVars
    <2>2. CASE At(t, "once_wait") \/ At(t, "once_cas")
      BY <1>0, <1>3, <2>2, AtFields DEF OnceSteps
    <2> QED BY <1>5, <2>1, <2>2 DEF OnceRead
  <1>6. CASE OnceCas(t) \/ OnceDone(t)
    BY <1>0, <1>3, <1>6, AtFields DEF OnceCas, OnceDone, OnceSteps
  <1>7. CASE OnceRun(t)
    <2>1. th'[t].at = "once_done" BY <1>0, <1>7, PlaceFields DEF OnceRun, Fields
    <2> QED BY <1>3, <2>1 DEF OnceSteps
  <1>8. CASE OnceWake(t)
    <2>1. PICK r \in {[th[t] EXCEPT !.at = "stopped"], Back(th[t], "0")} :
             WakeAnd(th[t].obj, Everyone, t, r)
      BY <1>8 DEF OnceWake
    <2>2. th'[t] = r BY <1>0, <1>2, <2>1, OwnFields
    <2>3. th'[t].at \in {"stopped", "idle"} BY <1>0, <1>2, <2>1, <2>2, PlaceFields DEF Back, Fields
    <2>4. word[th[t].obj] = DONE BY <1>0, <1>1, <1>8 DEF OnceInv, Finishes, OnceWake
    <2>5. word' = word BY <1>8 DEF OnceWake
    <2> QED BY <1>3, <1>4, <2>3, <2>4, <2>5
  <1>9. CASE OnceWait(t)
    <2>1. th'[t].at = "futex" /\ th'[t].then = "once_woke"
      BY <1>0, <1>9, PlaceFields DEF OnceWait, Wait, Fields
    <2> QED BY <1>1, <2>1 DEF Called, Where, OnceSteps, FutexSteps
  <1>10. CASE OnceWoke(t)
    <2>1. CASE word[th[t].obj] = DONE
      BY <1>0, <1>2, <1>4, <1>10, <2>1, AtFields DEF OnceWoke, futexVars
    <2>2. CASE word[th[t].obj] # DONE
      BY <1>0, <1>3, <1>10, <2>2, AtFields DEF OnceWoke, OnceSteps
    <2> QED BY <2>1, <2>2
  <1> QED BY <1>5, <1>6, <1>7, <1>8, <1>9, <1>10 DEF OnceStep

\* A step of another primitive is of another call; a sleep, a shutdown leave the call.
LEMMA OtherCalled ==
  ASSUME IInv, NEW t \in Threads, Called(t), Thread(t), ~OnceStep(t), ~Begin(t)
  PROVE  Called(t)'
  <1>0. /\ TypeOK /\ ThreadsOK /\ ThreadOK(th[t]) /\ \A o \in Objects : QueueInv(o)
        /\ scenario' = scenario /\ \A o \in Onces : word'[o] = word[o]
    BY OffRoutines DEF IInv, TypeOK, ThreadsOK
  <1>1. CASE CondNotify(t)
    <2>1. Moved(t) BY <1>0, <1>1, NotifyActs
    <2> QED BY <1>0, <2>1, MovedCalled
  <1>2. CASE ~CondNotify(t)
    <2>1. Stays(t)
      BY <1>0, <1>2, MutexGoes, CondStays, RwGoes, SemGoes, WaitGoes, LoopStays
      DEF Thread, Goes, Same, Stays
    <2>2. SUFFICES ASSUME th'[t].pc > 0, Now(t)'.op = "once"
                   PROVE  /\ th'[t].obj \in Onces
                          /\ \/ Where(th'[t]) \in OnceSteps \cup {"stopped"}
                             \/ th'[t].at = "idle" /\ word'[th'[t].obj] = DONE
      BY DEF Called
    <2>3. /\ th[t].obj \in Onces
          /\ \/ Where(th[t]) \in OnceSteps \cup {"stopped"}
             \/ th[t].at = "idle" /\ word[th[t].obj] = DONE
      BY <1>0, <2>1, <2>2 DEF Called, Now, Stays
    <2>4. CASE FutexEnter(t) \/ FutexPark(t) \/ FutexTimeout(t)
      <3>1. Where(th'[t]) = Where(th[t]) /\ th'[t].obj = th[t].obj
        BY <1>0, <2>4, FutexHolds DEF OnHold
      <3>2. th[t].at \in FutexSteps BY <2>4 DEF FutexEnter, FutexPark, FutexTimeout, FutexSteps
      <3> QED BY <2>3, <3>1, <3>2 DEF FutexSteps
    <2>5. CASE GuestHalt(t)
      <3>1. th'[t].at = "stopped" /\ th'[t].obj = th[t].obj
        BY <1>0, <2>5, PlaceFields DEF GuestHalt, At, Fields
      <3> QED BY <2>3, <3>1 DEF Where, FutexSteps
    <2>6. CASE \/ MutexStep(t) \/ CondStep(t) \/ RwStep(t) \/ SemStep(t)
               \/ Await(t) \/ Put(t) \/ PutDone(t) \/ Store(t) \/ StoreWake(t)
      <3>1. th[t].at \in LockSteps \cup UnlockSteps \cup CondSteps \cup MarkSteps \cup RwSteps \cup SemSteps
                              \cup LoopSteps \cup WordSteps
        <4>1. MutexStep(t) => th[t].at \in LockSteps \cup UnlockSteps
          BY DEF LockSteps, UnlockSteps, MutexStep, LockAgain, LockDeadlock, LockLook, LockCas,
                 LockOwn, Contend,
                 ContendMark, ContendReady, ContendWoke, Unlock, UnlockClear, UnlockPublish, UnlockWake
        <4>2. CondStep(t) => th[t].at \in CondSteps \cup MarkSteps
          BY <1>2 DEF CondSteps, MarkSteps, CondStep, CondRegister, CondLoop, CondTimer, CondLeave,
                      CondReturn,
                      CondSignal, CondBroadcast, CondSignalled
        <4>3. RwStep(t) => th[t].at \in RwSteps
          BY DEF RwSteps, AskSteps, LeaveSteps, RwStep, ReadWriters, ReadState, ReaderAcquire,
                 ReaderWait,
                 WriterRegister, WriterState, WriterCas, WriterWait, WriterLeave, RwUnlock, RwWake
        <4>4. SemStep(t) => th[t].at \in SemSteps
          BY DEF SemSteps, SemStep, SemRead, SemTake, SemFlag, SemReady, PostRead, PostCas, PostWake,
                 PostClear
        <4>5. Await(t) \/ Put(t) \/ PutDone(t) => th[t].at \in LoopSteps
          BY DEF LoopSteps, Await, Put, PutDone
        <4>6. Store(t) \/ StoreWake(t) => th[t].at \in WordSteps BY DEF WordSteps, Store, StoreWake
        <4> QED BY <2>6, <4>1, <4>2, <4>3, <4>4, <4>5, <4>6
      <3>2. th[t].at \notin OnceSteps \cup FutexSteps \cup {"idle", "stopped"} BY <3>1
           DEF RwSteps, LockSteps, UnlockSteps, CondSteps, MarkSteps, LoopSteps, AskSteps, LeaveSteps,
               SemSteps, OnceSteps, WordSteps, FutexSteps
      <3> QED BY <2>3, <3>2 DEF Where
    <2> QED BY <2>4, <2>5, <2>6 DEF Thread
  <1> QED BY <1>1, <1>2

\* The next-state relation keeps the routines' invariant.
LEMMA OnceInvKeeps ==
  ASSUME OInv, [Next]_vars
  PROVE  OInv'
  <1>0. /\ IInv /\ IInv' /\ ThreadsOK /\ TypeOK /\ (\A k \in Objects : QueueInv(k))
        /\ completed \in [Onces -> Nat] /\ Onces \subseteq Objects
    BY NextKeeps, OnceAssumption DEF OInv, IInv, TypeOK
  <1>1. ASSUME NEW t \in Threads, Thread(t) PROVE OInv'
    <2>1. \A u \in Threads \ {t} : Moved(u) BY <1>0, <1>1, StepActs DEF Acts
    <2>2. scenario' = scenario
      BY <1>1 DEF Thread, notSem, notMutex, notCond, notRw, notOnce, Begin, Await, Put, PutDone, Store,
                  StoreWake, GuestHalt
    <2>3. \A o \in Onces : word[o] = DONE => word'[o] = DONE BY <1>0, <1>1, DoneStays
    <2>4. ASSUME NEW u \in Threads PROVE Called(u)'
      <3>1. CASE u # t BY <1>0, <2>1, <2>2, <2>3, <3>1, MovedCalled DEF OInv
      <3>2. CASE u = t BY <1>0, <1>1, <3>2, BeginCalled, OnceCalled, OtherCalled DEF OInv
      <3> QED BY <3>1, <3>2
    <2>5. CASE OnceStep(t)
      <3>1. PICK o \in Onces : o = th[t].obj BY <1>0, <2>5, OnceOwn
      <3>2. /\ OnceInv(o)' /\ completed' \in [Onces -> Nat]
            /\ \A k \in Onces \ {o} : completed'[k] = completed[k]
        BY <1>1, <2>5, <3>1, OnceStepKeeps
      <3>3. th'[t].obj = o /\ \A k \in Onces \ {o} : word'[k] = word[k]
        BY <1>0, <2>5, <3>1, OnceOwn DEF OwnWord
      <3>4. ASSUME NEW k \in Onces \ {o} PROVE OnceInv(k)'
        <4>1. Kept(t, k) BY <3>3, <3>4 DEF Kept, Runs, Finishes
        <4>2. \A u \in Threads : Kept(u, k) /\ (Failed(u, k) => Failed(u, k)')
          BY <1>0, <1>1, <2>1, <4>1, MovedKept, FailedStays
        <4> QED BY <3>2, <3>3, <3>4, <4>2, OnceFrame DEF OInv
      <3> QED BY <1>0, <2>4, <3>2, <3>4 DEF OInv
    <2>6. CASE ~OnceStep(t)
      <3>1. /\ completed' = completed /\ \A o \in Onces : word'[o] = word[o] /\ Kept(t, o)
        BY <1>0, <1>1, <2>6, OffRoutines
      <3>2. \A o \in Onces : \A u \in Threads : Kept(u, o) /\ (Failed(u, o) => Failed(u, o)')
        BY <1>0, <1>1, <2>1, <3>1, MovedKept, FailedStays
      <3> QED BY <1>0, <2>4, <3>1, <3>2, OnceFrame DEF OInv
    <2> QED BY <2>5, <2>6
  <1>2. CASE Stopping \/ Stop \/ UNCHANGED vars
    <2>1. word' = word /\ \A u \in Threads : Moved(u) BY <1>0, <1>2, StoppingMoves
    <2>2. completed' = completed /\ scenario' = scenario
      BY <1>2 DEF Stopping, Stop, notSem, notCond, vars
    <2>3. \A o \in Onces : \A u \in Threads : Kept(u, o) /\ (Failed(u, o) => Failed(u, o)')
      BY <1>0, <2>1, MovedKept, MovedFailed
    <2>4. \A u \in Threads : Called(u)' BY <1>0, <2>1, <2>2, MovedCalled DEF OInv
    <2> QED BY <1>0, <2>1, <2>2, <2>3, <2>4, OnceFrame DEF OInv
  <1> QED BY <1>1, <1>2 DEF Next

\* Of `pthread_once` (once.rs and its handler): a caller that came back came back
\* when the routine had run to its end, and it had run once, whoever won the word
\* and whoever slept on it; or the one thread that ran it failed in it.
THEOREM RoutineFirst == Spec => []OnceOrdered
  <1>1. ASSUME Init PROVE OInv
    <2>1. \A t \in Threads : th[t].at = "idle" /\ th[t].pc = 0 BY <1>1 DEF Init, NewThread
    <2>2. \A o \in Onces : word[o] = 0 /\ completed[o] = 0 BY <1>1, OnceAssumption DEF Init
    <2>3. \A o \in Onces : OnceInv(o)
      BY <2>1, <2>2 DEF OnceInv, Runs, Finishes, NEVER, IN_PROGRESS, DONE
    <2>4. \A t \in Threads : Called(t) BY <2>1 DEF Called
    <2>5. completed \in [Onces -> Nat] BY <1>1 DEF Init
    <2> QED BY <1>1, <2>3, <2>4, <2>5, InitHolds DEF OInv
  <1>2. ASSUME OInv, [Next]_vars PROVE OInv' BY <1>2, OnceInvKeeps
  <1>3. ASSUME OInv PROVE OnceOrdered
    <2>1. SUFFICES ASSUME NEW t \in Threads, NEW o \in Onces, th[t].pc > 0, Now(t).op = "once",
                          th[t].obj = o, th[t].at = "idle"
                   PROVE  completed[o] <= 1 /\ (completed[o] = 1 \/ \E u \in Threads : Failed(u, o))
      BY DEF OnceOrdered
    <2>2. Called(t) /\ OnceInv(o) BY <1>3 DEF OInv
    <2>3. Where(th[t]) = "idle" BY <2>1 DEF Where, FutexSteps
    <2> QED BY <2>1, <2>2, <2>3 DEF Called, OnceInv, OnceSteps
  <1> QED BY <1>1, <1>2, <1>3, PTL DEF Spec
-----------------------------------------------------------------------------
(* A condition and its callers.                                            *)

AwaitBacks == {"await_locked", "cond_loop", "cond_return"}
SetBacks   == {"set_locked", "set_done"}

\* A thread in a call, and in a wait's.
Under(r)    == r.at \notin {"idle", "stopped"}
Awaiting(r) == Under(r) /\ r.back \in AwaitBacks

\* Where a step of a condition's callers comes back.
PlaceOK(r) ==
  /\ r.at = "wait" => r.back \in {"await_locked", "cond_return"}
  /\ r.at \in {"cond_loop", "cond_asleep", "cond_leave"} => r.back = "cond_loop"
  /\ r.at = "await_woke" => r.back = "cond_return"
  /\ r.at \in {"await_locked", "set_locked", "set_done", "cond_return"} => r.back = r.at

\* A thread that waits or sets works on what its program says.
InCall(t) ==
  Under(th[t]) /\ th[t].back \in AwaitBacks \cup SetBacks =>
    /\ th[t].pc \in DOMAIN scenario.calls[t] /\ th[t].ret = "await_woke"
    /\ th[t].obj = Now(t).obj /\ th[t].cond = Now(t).cond
    /\ Now(t).op = IF th[t].back \in AwaitBacks THEN "await" ELSE "set"

\* A registered thread is in its wait, once, and not marked.
Registry(c) ==
  /\ \A i, j \in DOMAIN waiting[c] : waiting[c][i] = waiting[c][j] => i = j
  /\ \A i \in DOMAIN waiting[c] : LET u == waiting[c][i] IN
       th[u].cond = c /\ th[u].back = "cond_loop" /\ Under(th[u]) /\ u \notin marked

Seekers(c)     == {t \in Threads : Awaiting(th[t]) /\ th[t].cond = c /\ t \notin Unmarked(c)}
Signallers(c)  == {t \in Threads : th[t].cond = c /\ th[t].at = "signal"}
Broadcast(c)   == \E t \in Threads : th[t].cond = c /\ th[t].at = "broadcast"

\* With a waiter unmarked, each item has a thread that will look, or a signal to come.
Counted(c) ==
  \/ Unmarked(c) = {} \/ Broadcast(c)
  \/ items[c] <= Cardinality(Seekers(c)) + Cardinality(Signallers(c))

\* Who goes to wait found nothing, and holds the mutex.
EmptyAtWait(t) == th[t].at = "wait" => items[th[t].cond] = 0

CondsOK ==
  /\ items \in [Conds -> Nat] /\ waiting \in [Conds -> Seq(Threads)]
  /\ \A t \in Threads : PlaceOK(th[t]) /\ InCall(t) /\ EmptyAtWait(t)
  /\ \A c \in Conds : Registry(c) /\ Counted(c)

CInv == IInv /\ (stage = "up" => CondsOK)

\* The callers' condition is one, and of two that hold its mutex one is the other.
LEMMA CallerCond ==
  ASSUME TypeOK, NEW t \in Threads, InCall(t), Under(th[t]), th[t].back \in AwaitBacks \cup SetBacks
  PROVE  th[t].cond \in Conds /\ th[t].obj \in Mutexes
  <1>1. Now(t) \in Call BY ScenariosAssumption DEF TypeOK, InCall, Now
  <1>2. Now(t).op \in {"await", "set"} BY DEF InCall
  <1>3. Now(t).cond \in Conds /\ Now(t).obj \in Mutexes BY <1>1, <1>2 DEF Call, On
  <1> QED BY <1>3 DEF InCall

LEMMA OneCaller ==
  ASSUME IInv, NEW t \in Threads, NEW u \in Threads, InCall(t), InCall(u), Under(th[t]), Under(th[u]),
         th[t].back \in AwaitBacks \cup SetBacks, th[u].back \in AwaitBacks \cup SetBacks,
         th[t].at \in HoldSteps, th[u].at \in HoldSteps, th[t].cond = th[u].cond
  PROVE  t = u
  <1>1. th[t].obj \in Mutexes BY CallerCond DEF IInv
  <1>2. th[t].obj = th[u].obj
    <2>1. scenario \in Scenarios BY DEF IInv, TypeOK
    <2>2. /\ th[t].pc \in DOMAIN scenario.calls[t] /\ th[u].pc \in DOMAIN scenario.calls[u]
          /\ {Now(t).op, Now(u).op} \subseteq {"await", "set"} /\ Now(t).cond = Now(u).cond
      BY DEF InCall
    <2>3. Now(t).obj = Now(u).obj BY <2>1, <2>2, CondsAssumption DEF Now
    <2> QED BY <2>3 DEF InCall
  <1>3. holds[t][th[t].obj] > 0 /\ holds[u][th[t].obj] > 0
    BY <1>1, <1>2 DEF IInv, MutexesOK, MutexInv, HolderOK
  <1> QED BY <1>1, <1>3 DEF IInv, MutexesOK, MutexInv, HasWord

\* What a step leaves of a thread that it does not take through a registry.
Follows(u) ==
  /\ PlaceOK(th'[u]) /\ InCall(u)'
  /\ Awaiting(th[u]) => /\ Awaiting(th'[u]) /\ th'[u].cond = th[u].cond /\ th'[u].back = th[u].back
  /\ th'[u].at = "wait" => th[u].at = "wait" /\ th'[u].cond = th[u].cond
  /\ th[u].at \in {"signal", "broadcast"} => th'[u].at = th[u].at /\ th'[u].cond = th[u].cond

\* What is woken goes on in its call ...
LEMMA MovedFollows ==
  ASSUME ThreadsOK, NEW u \in Threads, Moved(u), PlaceOK(th[u]), InCall(u), scenario' = scenario
  PROVE  Follows(u)
  <1>1. ThreadOK(th[u]) BY DEF ThreadsOK
  <1>2. Same(u) BY <1>1 DEF Moved, Woke, ThreadOK, Fields, Same
  <1>3. CASE th'[u] = th[u] BY <1>2, <1>3 DEF Follows, InCall, Now
  <1>4. CASE th[u].at = "asleep" /\ th'[u] = Woke(th[u], "Woken")
    <2>1. /\ th[u].then \in {"contend_woke", "rdlock", "wr_state", "semwait", "once_woke", "idle"}
          /\ th[u].then = "idle" => th[u].back = "idle"
      BY <1>1, <1>4 DEF ThreadOK, StepOK, OnceIs, RwSteps, LockSteps, UnlockSteps, CondSteps, MarkSteps,
                        LoopSteps, AskSteps, LeaveSteps, SemSteps, OnceSteps, WordSteps, FutexSteps
    <2>2. th'[u].at = th[u].then BY <1>1, <1>4 DEF Woke, ThreadOK, Fields
    <2> QED BY <1>2, <1>4, <2>1, <2>2 DEF Follows, InCall, Now, Same, PlaceOK, Awaiting, Under, AwaitBacks
  <1>5. CASE th[u].at = "cond_asleep" /\ th'[u] = [th[u] EXCEPT !.at = "cond_loop"]
    <2>1. th'[u].at = "cond_loop" BY <1>1, <1>5 DEF ThreadOK, Fields
    <2> QED BY <1>2, <1>5, <2>1 DEF Follows, InCall, Now, Same, PlaceOK, Awaiting, Under
  <1> QED BY <1>3, <1>4, <1>5 DEF Moved

\* ... and so does a thread in the steps under a condition's.
LEMMA GoesFollows ==
  ASSUME ThreadsOK, NEW t \in Threads, Goes(t), th[t].at \in FreeSteps, stage = "up",
         InCall(t), scenario' = scenario
  PROVE  Follows(t)
  <1>1. ThreadOK(th[t]) BY DEF ThreadsOK
  <1>2. th[t].back \in {"idle", "await_locked", "set_locked", "cond_return", "cond_loop"}
    BY <1>1 DEF FreeSteps, ThreadOK, StepOK, OnceIs, LockOK, UnlockOK, RwSteps, LockSteps, UnlockSteps,
                CondSteps, MarkSteps, LoopSteps, AskSteps, LeaveSteps, SemSteps, OnceSteps, WordSteps,
                FutexSteps
  <1>3. Same(t) /\ th'[t].back = th[t].back BY DEF Goes, Same
  <1>4. /\ Under(th[t]) /\ th[t].at \notin {"signal", "broadcast", "wait"}
        /\ th'[t].at \in FreeSteps => PlaceOK(th'[t]) /\ Under(th'[t]) /\ th'[t].at # "wait"
    BY DEF FreeSteps, PlaceOK, Under, RwSteps, LockSteps, UnlockSteps,
           AskSteps, LeaveSteps, SemSteps, OnceSteps, WordSteps, FutexSteps
  <1>5. th'[t].at = th[t].back => PlaceOK(th'[t]) /\ th'[t].at # "wait"
                                  /\ (th[t].back # "idle" => Under(th'[t]))
    BY <1>2, <1>3 DEF PlaceOK, Under
  <1>6. th'[t].at = "stopped" => PlaceOK(th'[t]) /\ th'[t].at # "wait" BY DEF PlaceOK
  <1>7. InCall(t)' BY <1>3, <1>4 DEF InCall, Now, Same
  <1>8. \/ th'[t].at \in FreeSteps \/ th'[t].at = th[t].back
        \/ th'[t].at = "stopped" /\ th[t].back = "idle"
    BY DEF Goes
  <1>9. Awaiting(th[t]) => th[t].back # "idle" BY DEF Awaiting, AwaitBacks
  <1> HIDE DEF FreeSteps
  <1> QED BY <1>3, <1>4, <1>5, <1>6, <1>7, <1>8, <1>9 DEF Follows, Awaiting, Same

\* The steps of a call's begin, of a wait that stays registered and of a set's end.
LEMMA BeginFollows ==
  ASSUME TypeOK, NEW t \in Threads, Begin(t), scenario' = scenario
  PROVE  Follows(t)
  <1>0. ThreadsOK /\ ThreadOK(th[t]) BY DEF TypeOK, ThreadsOK
  <1> DEFINE call == scenario.calls[t][th[t].pc + 1]
             next == [th[t] EXCEPT !.pc = @ + 1]
  <1>1. call \in Call /\ th[t].at = "idle" /\ Rest(t) > 0 BY CallOK DEF Begin
  <1>2. ~Awaiting(th[t]) BY <1>1 DEF Awaiting, Under
  <1>3. th' = [th EXCEPT ![t] = IF Held(t, call) THEN Started(next, call) ELSE next] BY DEF Begin
  <1>4. th[t].pc + 1 \in DOMAIN scenario.calls[t]
    <2>1. scenario.calls[t] \in Seq(Call) /\ th[t].pc \in Nat
      BY <1>0, ScenariosAssumption DEF TypeOK, ThreadOK
    <2>2. Len(scenario.calls[t]) \in Nat BY <2>1
    <2> QED BY <1>1, <2>1, <2>2 DEF Rest
  <1>5. CASE ~Held(t, call)
    <2>1. th'[t].at = "idle" BY <1>0, <1>1, <1>3, <1>5, PlaceFields DEF Fields
    <2> QED BY <1>1, <1>2, <2>1 DEF Follows, PlaceOK, InCall, Under
  <1>6. CASE Held(t, call)
    <2>1. th'[t] = Started(next, call) BY <1>0, <1>3, <1>6, PlaceFields
    <2> HIDE DEF call
    <2>2. /\ th'[t].at = First(call.op) /\ th'[t].back = Last(call.op) /\ th'[t].ret = "await_woke"
          /\ th'[t].obj = call.obj /\ th'[t].cond = call.cond /\ th'[t].pc = th[t].pc + 1
      BY <1>0, <2>1, PlaceFields DEF Started, Fields
    <2>3. Now(t)' = call BY <2>2 DEF Now, call
    <2>4. First(call.op) \notin {"wait", "await_woke", "await_locked", "set_locked", "set_done",
                                 "cond_loop", "cond_asleep", "cond_leave", "cond_return"}
      BY <1>1 DEF Call, On, First
    <2>5. /\ Last(call.op) \in AwaitBacks => call.op = "await"
          /\ Last(call.op) \in SetBacks => call.op = "set"
          /\ Last(call.op) \in SetBacks => Last(call.op) \notin AwaitBacks
      BY DEF Last, AwaitBacks, SetBacks
    <2>6. InCall(t)' BY <1>4, <2>2, <2>3, <2>5 DEF InCall
    <2>7. PlaceOK(th'[t]) BY <2>2, <2>4 DEF PlaceOK
    <2> QED BY <1>1, <1>2, <2>2, <2>4, <2>6, <2>7 DEF Follows
  <1> QED BY <1>5, <1>6

LEMMA CallerFollows ==
  ASSUME ThreadsOK, NEW t \in Threads, PlaceOK(th[t]), InCall(t), scenario' = scenario,
         CondLoop(t) \/ CondTimer(t) \/ CondReturn(t) \/ CondSignalled(t) \/ PutDone(t)
  PROVE  Follows(t)
  <1>0. ThreadOK(th[t]) BY DEF ThreadsOK
  <1> USE DEF Follows, PlaceOK, InCall, Now, Same, Awaiting, Under, AwaitBacks, SetBacks
  <1>1. CASE CondLoop(t)
    <2>1. Same(t) /\ th'[t].at \in {"cond_leave", "cond_asleep"}
      <3>1. CASE At(t, "cond_asleep") BY <3>1, PlaceFields
      <3> QED BY <1>1, <3>1, PlaceFields DEF CondLoop, Fields
    <2> QED BY <1>1, <2>1 DEF CondLoop
  <1>2. CASE CondTimer(t) BY <1>2, PlaceFields DEF CondTimer
  <1>3. CASE CondReturn(t)
    <2>1. Same(t) /\ th'[t].at = th[t].ret BY <1>3, PlaceFields DEF CondReturn, Fields
    <2>2. th[t].at = "cond_return" BY <1>3 DEF CondReturn
    <2>3. th[t].back = "cond_return" /\ th[t].ret = "await_woke" BY <2>2
    <2> QED BY <2>1, <2>2, <2>3
  <1>4. CASE CondSignalled(t)
    <2>1. Same(t) /\ th'[t].at = th[t].back /\ th[t].at = "notify" BY <1>4, PlaceFields DEF CondSignalled
    <2>2. th[t].back = "set_done"
      BY <1>0, <2>1 DEF ThreadOK, StepOK, RwSteps, LockSteps, UnlockSteps, CondSteps, MarkSteps,
                        LoopSteps, AskSteps, LeaveSteps, SemSteps, OnceSteps, WordSteps, FutexSteps
    <2> QED BY <2>1, <2>2
  <1>5. CASE PutDone(t)
    <2>1. th'[t].at = "unlock" /\ th'[t].back = "idle" BY <1>5, PlaceFields DEF PutDone, Fields
    <2>2. th[t].at = "set_done" BY <1>5 DEF PutDone
    <2>3. th[t].back = "set_done" BY <2>2
    <2> QED BY <2>1, <2>2, <2>3
  <1> QED BY <1>1, <1>2, <1>3, <1>4, <1>5
-----------------------------------------------------------------------------
(* The items and those that look for them.                                 *)

LEMMA Counts ==
  ASSUME NEW c
  PROVE  /\ IsFiniteSet(Seekers(c)) /\ Cardinality(Seekers(c)) \in Nat
         /\ IsFiniteSet(Signallers(c)) /\ Cardinality(Signallers(c)) \in Nat
  BY FS_Subset, FS_CardinalityType, FutexAssumption DEF Seekers, Signallers

LEMMA CountsNext ==
  ASSUME NEW c
  PROVE  /\ IsFiniteSet(Seekers(c)') /\ Cardinality(Seekers(c)') \in Nat
         /\ IsFiniteSet(Signallers(c)') /\ Cardinality(Signallers(c)') \in Nat
  <1>1. Seekers(c)' \subseteq Threads /\ Signallers(c)' \subseteq Threads BY DEF Seekers, Signallers
  <1> HIDE DEF Seekers, Signallers
  <1> QED BY <1>1, FS_Subset, FS_CardinalityType, FutexAssumption

\* No more items, and no fewer that look or will signal.
LEMMA CountFrame ==
  ASSUME NEW c \in Conds, Counted(c), items[c] \in Nat, items'[c] \in Nat, items'[c] <= items[c],
         Unmarked(c)' \subseteq Unmarked(c), Seekers(c) \subseteq Seekers(c)',
         Signallers(c) \subseteq Signallers(c)', Broadcast(c) => Broadcast(c)'
  PROVE  Counted(c)'
  <1>1. /\ Cardinality(Seekers(c)) <= Cardinality(Seekers(c)')
        /\ Cardinality(Signallers(c)) <= Cardinality(Signallers(c)')
    BY CountsNext, FS_Subset
  <1>2. /\ Cardinality(Seekers(c)) \in Nat /\ Cardinality(Signallers(c)) \in Nat
        /\ Cardinality(Seekers(c)') \in Nat /\ Cardinality(Signallers(c)') \in Nat
    BY Counts, CountsNext
  <1>3. CASE Unmarked(c) = {} BY <1>3 DEF Counted
  <1>4. CASE Broadcast(c) BY <1>4 DEF Counted
  <1>5. CASE items[c] <= Cardinality(Seekers(c)) + Cardinality(Signallers(c))
    <2>1. items'[c] <= Cardinality(Seekers(c)') + Cardinality(Signallers(c)') BY <1>1, <1>2, <1>5
    <2> QED BY <2>1 DEF Counted
  <1> QED BY <1>3, <1>4, <1>5 DEF Counted

\* A step that moves no registry and no item.
LEMMA CondsFrame ==
  ASSUME CondsOK, scenario' = scenario, items' = items, waiting' = waiting, marked' = marked,
         \A u \in Threads : Follows(u)
  PROVE  CondsOK'
  <1>1. ASSUME NEW u \in Threads PROVE EmptyAtWait(u)'
    BY <1>1 DEF CondsOK, EmptyAtWait, Follows
  <1>2. ASSUME NEW c \in Conds PROVE Registry(c)'
    <2>1. ASSUME NEW i \in DOMAIN waiting[c]
          PROVE  LET u == waiting[c][i] IN
                 th'[u].cond = c /\ th'[u].back = "cond_loop" /\ Under(th'[u]) /\ u \notin marked
      <3>1. waiting[c][i] \in Threads BY <1>2 DEF CondsOK
      <3> QED BY <1>2, <3>1 DEF CondsOK, Registry, Follows, Awaiting, AwaitBacks
    <2> QED BY <1>2, <2>1 DEF CondsOK, Registry
  <1>3. ASSUME NEW c \in Conds PROVE Counted(c)'
    <2>1. Unmarked(c)' = Unmarked(c) BY DEF Unmarked
    <2>2. Seekers(c) \subseteq Seekers(c)' BY <2>1 DEF Seekers, Follows
    <2>3. Signallers(c) \subseteq Signallers(c)' BY DEF Signallers, Follows
    <2>4. Broadcast(c) => Broadcast(c)' BY DEF Broadcast, Follows
    <2>5. Counted(c) /\ items[c] \in Nat BY <1>3 DEF CondsOK
    <2> QED BY <1>3, <2>1, <2>2, <2>3, <2>4, <2>5, CountFrame
  <1>4. \A u \in Threads : PlaceOK(th'[u]) /\ InCall(u)' BY DEF Follows
  <1> QED BY <1>1, <1>2, <1>3, <1>4 DEF CondsOK

\* A step that moves one thread, in its call, at one condition.
OneMoves(t) == /\ \A u \in Threads \ {t} : th'[u] = th[u]
             /\ th'[t].cond = th[t].cond /\ scenario' = scenario

\* The other conditions, and the other threads, are as they were ...
LEMMA OtherConds ==
  ASSUME CondsOK, NEW t \in Threads, OneMoves(t), NEW k \in Conds, k # th[t].cond,
         waiting'[k] = waiting[k], items'[k] = items[k],
         \A i \in DOMAIN waiting[k] : waiting[k][i] \notin marked'
  PROVE  Registry(k)' /\ Counted(k)'
  <1>1. Registry(k) /\ Counted(k) /\ items[k] \in Nat /\ waiting[k] \in Seq(Threads) BY DEF CondsOK
  <1>2. \A i \in DOMAIN waiting[k] : waiting[k][i] \in Threads \ {t} BY <1>1 DEF Registry
  <1>3. Registry(k)' BY <1>1, <1>2 DEF Registry, OneMoves
  <1>4. Unmarked(k)' \subseteq Unmarked(k) BY <1>1 DEF Unmarked, Registry
  <1>5. Seekers(k) \subseteq Seekers(k)' BY <1>4 DEF Seekers, OneMoves
  <1>6. Signallers(k) \subseteq Signallers(k)' BY DEF Signallers, OneMoves
  <1>7. Broadcast(k) => Broadcast(k)' BY DEF Broadcast, OneMoves
  <1> QED BY <1>1, <1>3, <1>4, <1>5, <1>6, <1>7, CountFrame

LEMMA OtherThreads ==
  ASSUME CondsOK, NEW t \in Threads, OneMoves(t), NEW u \in Threads, u # t
  PROVE  PlaceOK(th'[u]) /\ InCall(u)'
  BY DEF CondsOK, OneMoves, InCall, Now

\* ... and so is the registry of a thread that is not in it.
LEMMA OwnRegistry ==
  ASSUME CondsOK, NEW t \in Threads, OneMoves(t), th[t].back # "cond_loop", NEW k \in Conds,
         waiting'[k] = waiting[k], marked' = marked
  PROVE  Registry(k)' /\ Unmarked(k)' = Unmarked(k) /\ t \notin Unmarked(k)
  <1>1. Registry(k) /\ waiting[k] \in Seq(Threads) BY DEF CondsOK
  <1>2. \A i \in DOMAIN waiting[k] : waiting[k][i] \in Threads \ {t} BY <1>1 DEF Registry
  <1>3. Registry(k)' BY <1>1, <1>2 DEF Registry, OneMoves
  <1>4. Unmarked(k)' = Unmarked(k) BY DEF Unmarked
  <1> QED BY <1>2, <1>3, <1>4 DEF Unmarked

\* No items are looked for by everybody.
LEMMA NoneCounted ==
  ASSUME NEW c \in Conds, items'[c] = 0
  PROVE  Counted(c)'
  <1>1. Cardinality(Seekers(c)') \in Nat /\ Cardinality(Signallers(c)') \in Nat BY CountsNext
  <1>2. items'[c] <= Cardinality(Seekers(c)') + Cardinality(Signallers(c)') BY <1>1
  <1> QED BY <1>2 DEF Counted

\* An item taken is looked for no more by who took it; who finds none sleeps.
LEMMA AwaitKeeps ==
  ASSUME IInv, CondsOK, NEW t \in Threads, Await(t)
  PROVE  CondsOK'
  <1>0. /\ TypeOK /\ ThreadsOK /\ th[t].at \in {"await_locked", "await_woke"} BY DEF IInv, TypeOK, Await
  <1>1. PlaceOK(th[t]) /\ InCall(t) BY DEF CondsOK
  <1>2. th[t].back \in {"await_locked", "cond_return"} /\ Under(th[t])
    BY <1>0, <1>1 DEF PlaceOK, Under
  <1>3. Awaiting(th[t]) /\ th[t].cond \in Conds
    BY <1>0, <1>1, <1>2, CallerCond DEF Awaiting, AwaitBacks
  <1>. PICK c \in Conds : c = th[t].cond BY <1>3
  <1>4. items \in [Conds -> Nat] /\ items[c] \in Nat BY <1>3 DEF CondsOK
  <1>5. \/ /\ items[c] > 0 /\ items' = [items EXCEPT ![c] = @ - 1]
           /\ th' = [th EXCEPT ![t] = [[th[t] EXCEPT !.at = "unlock"] EXCEPT !.back = "idle"]]
        \/ /\ items[c] = 0 /\ items' = items
           /\ th' = [th EXCEPT ![t] = [th[t] EXCEPT !.at = "unlock", !.back = "idle"]]
        \/ /\ items[c] = 0 /\ items' = items
           /\ th' = [th EXCEPT ![t] = [th[t] EXCEPT !.at = "wait", !.timed = Now(t).timed]]
    <2>1. CASE items[c] > 0 BY <2>1 DEF Await
    <2>2. CASE items[c] = 0 /\ th[t].at = "await_woke" /\ th[t].answer = "ETIMEDOUT"
      BY <2>2 DEF Await
    <2>3. CASE items[c] = 0 /\ ~(th[t].at = "await_woke" /\ th[t].answer = "ETIMEDOUT")
      BY <2>3 DEF Await
    <2> QED BY <1>4, <2>1, <2>2, <2>3
  <1>6. /\ OneMoves(t) /\ th'[t].pc = th[t].pc /\ th'[t].obj = th[t].obj /\ th'[t].ret = th[t].ret
        /\ th'[t].at \in {"unlock", "wait"}
        /\ th'[t].at = "wait" => items[c] = 0 /\ items' = items /\ th'[t].back = th[t].back
        /\ th'[t].at = "unlock" => th'[t].back = "idle"
    <2>1. scenario' = scenario BY DEF Await
    <2>2. Fields \subseteq DOMAIN th[t] /\ DOMAIN th = Threads BY <1>0, PlaceFields
    <2>3. CASE th' = [th EXCEPT ![t] = [[th[t] EXCEPT !.at = "unlock"] EXCEPT !.back = "idle"]]
      BY <2>1, <2>2, <2>3 DEF OneMoves, Fields
    <2>4. CASE th' = [th EXCEPT ![t] = [th[t] EXCEPT !.at = "unlock", !.back = "idle"]]
      BY <2>1, <2>2, <2>4 DEF OneMoves, Fields
    <2>5. CASE /\ th' = [th EXCEPT ![t] = [th[t] EXCEPT !.at = "wait", !.timed = Now(t).timed]]
               /\ items[c] = 0 /\ items' = items
      BY <2>1, <2>2, <2>5 DEF OneMoves, Fields
    <2> QED BY <1>5, <2>3, <2>4, <2>5
  <1>7. waiting' = waiting /\ marked' = marked BY DEF Await, condVars
  <1>8. \/ items[c] > 0 /\ items' = [items EXCEPT ![c] = @ - 1] /\ th'[t].at = "unlock"
        \/ items[c] = 0 /\ items' = items
    BY <1>0, <1>5, PlaceFields DEF Fields
  <1>9. items' \in [Conds -> Nat] /\ \A k \in Conds \ {c} : items'[k] = items[k] BY <1>4, <1>8
  <1>10. PlaceOK(th'[t]) /\ InCall(t)'
    BY <1>1, <1>2, <1>6 DEF PlaceOK, InCall, OneMoves, Now, Under, AwaitBacks, SetBacks
  <1>11. ASSUME NEW u \in Threads PROVE EmptyAtWait(u)'
    <2>1. CASE u = t BY <1>6, <2>1 DEF EmptyAtWait, OneMoves
    <2>2. CASE u # t
      <3>1. SUFFICES ASSUME th[u].at = "wait" PROVE items'[th[u].cond] = 0
        BY <1>6, <2>2 DEF EmptyAtWait, OneMoves
      <3>2. items[th[u].cond] = 0 /\ PlaceOK(th[u]) /\ InCall(u) BY <3>1 DEF CondsOK, EmptyAtWait
      <3>3. th[u].cond \in Conds
        BY <1>0, <3>1, <3>2, CallerCond DEF PlaceOK, Under, AwaitBacks
      <3> QED BY <1>4, <1>8, <3>2, <3>3
    <2> QED BY <2>1, <2>2
  <1>12. \A k \in Conds : Registry(k)' /\ Unmarked(k)' = Unmarked(k) /\ t \notin Unmarked(k)
    BY <1>2, <1>6, <1>7, OwnRegistry
  <1>13. ASSUME NEW k \in Conds PROVE Counted(k)'
    <2>1. CASE k # c
      BY <1>6, <1>7, <1>9, <2>1, OtherConds DEF CondsOK, Registry
    <2>2. CASE k = c /\ items' = items BY <1>3, <1>8, <2>2, <1>4, NoneCounted
    <2>3. CASE k = c /\ items[c] > 0 /\ items'[c] = items[c] - 1 /\ th'[t].at = "unlock"
      <3>1. t \in Seekers(c) BY <1>3, <1>12 DEF Seekers
      <3>2. Seekers(c)' = Seekers(c) \ {t}
        BY <1>3, <1>6, <1>12, <2>3 DEF Seekers, OneMoves, Awaiting, AwaitBacks
      <3>3. Signallers(c)' = Signallers(c) BY <1>0, <1>6, <2>3 DEF Signallers, OneMoves
      <3>4. Broadcast(c) => Broadcast(c)' BY <1>0, <1>6 DEF Broadcast, OneMoves
      <3>5. Cardinality(Seekers(c)') = Cardinality(Seekers(c)) - 1
        BY <3>1, <3>2, Counts, FS_RemoveElement
      <3>6. Counted(c) BY <1>3 DEF CondsOK
      <3>7. CASE items[c] <= Cardinality(Seekers(c)) + Cardinality(Signallers(c))
        <4>1. items'[c] <= Cardinality(Seekers(c)') + Cardinality(Signallers(c)')
          BY <1>4, <2>3, <3>3, <3>5, <3>7, Counts
        <4> QED BY <2>3, <4>1 DEF Counted
      <3> QED BY <1>3, <1>12, <2>3, <3>4, <3>6, <3>7 DEF Counted
    <2> QED BY <1>3, <1>4, <1>8, <2>1, <2>2, <2>3
  <1>14. \A u \in Threads : PlaceOK(th'[u]) /\ InCall(u)' BY <1>6, <1>10, OtherThreads
  <1> QED BY <1>7, <1>9, <1>11, <1>12, <1>13, <1>14 DEF CondsOK

\* An item put is to be signalled, and nobody who found none is about to sleep.
LEMMA PutKeeps ==
  ASSUME IInv, CondsOK, NEW t \in Threads, Put(t)
  PROVE  CondsOK'
  <1>0. TypeOK /\ ThreadsOK /\ th[t].at = "set_locked" BY DEF IInv, TypeOK, Put
  <1>1. PlaceOK(th[t]) /\ InCall(t) BY DEF CondsOK
  <1>2. th[t].back = "set_locked" /\ Under(th[t]) BY <1>0, <1>1 DEF PlaceOK, Under
  <1>3. th[t].cond \in Conds BY <1>0, <1>1, <1>2, CallerCond DEF SetBacks
  <1>. PICK c \in Conds : c = th[t].cond BY <1>3
  <1>4. items \in [Conds -> Nat] /\ items[c] \in Nat BY DEF CondsOK
  <1>5. /\ th' = [th EXCEPT ![t].at = IF Now(t).all THEN "broadcast" ELSE "signal", ![t].back = "set_done"]
        /\ items' = [items EXCEPT ![c] = IF Now(t).all THEN Everyone ELSE @ + 1]
        /\ waiting' = waiting /\ marked' = marked /\ scenario' = scenario
    BY DEF Put, condVars
  <1>6. /\ OneMoves(t) /\ th'[t].pc = th[t].pc /\ th'[t].obj = th[t].obj /\ th'[t].ret = th[t].ret
        /\ th'[t].at = (IF Now(t).all THEN "broadcast" ELSE "signal") /\ th'[t].back = "set_done"
    BY <1>0, <1>5, PlaceFields DEF OneMoves, Fields
  <1>7. items' \in [Conds -> Nat] /\ \A k \in Conds \ {c} : items'[k] = items[k]
    BY <1>4, <1>5, EveryoneType
  <1>8. PlaceOK(th'[t]) /\ InCall(t)'
    BY <1>1, <1>2, <1>6 DEF PlaceOK, InCall, OneMoves, Now, Under, AwaitBacks, SetBacks
  <1>9. ASSUME NEW u \in Threads PROVE EmptyAtWait(u)'
    <2>1. CASE u = t BY <1>6, <2>1 DEF EmptyAtWait
    <2>2. CASE u # t
      <3>1. SUFFICES ASSUME th[u].at = "wait" PROVE items'[th[u].cond] = 0
        BY <1>6, <2>2 DEF EmptyAtWait, OneMoves
      <3>2. items[th[u].cond] = 0 /\ PlaceOK(th[u]) /\ InCall(u) BY <3>1 DEF CondsOK, EmptyAtWait
      <3>3. Under(th[u]) /\ th[u].back \in AwaitBacks BY <3>1, <3>2 DEF PlaceOK, Under, AwaitBacks
      <3>4. th[u].cond \in Conds BY <1>0, <3>2, <3>3, CallerCond
      <3>5. th[u].cond # th[t].cond
        BY <1>0, <1>1, <1>2, <2>2, <3>1, <3>2, <3>3, OneCaller
        DEF SetBacks, HoldSteps, LoopSteps
      <3> QED BY <1>7, <3>2, <3>4, <3>5
    <2> QED BY <2>1, <2>2
  <1>10. \A k \in Conds : Registry(k)' /\ Unmarked(k)' = Unmarked(k) /\ t \notin Unmarked(k)
    BY <1>2, <1>5, <1>6, OwnRegistry
  <1>11. ASSUME NEW k \in Conds PROVE Counted(k)'
    <2>1. CASE k # c BY <1>5, <1>6, <1>7, <2>1, OtherConds DEF CondsOK, Registry
    <2>2. CASE Now(t).all /\ k = c BY <1>6, <2>2 DEF Counted, Broadcast, OneMoves
    <2>3. CASE ~Now(t).all /\ k = c
      <3>1. items'[c] = items[c] + 1 BY <1>4, <1>5, <2>3
      <3>2. Seekers(c)' = Seekers(c)
        BY <1>2, <1>6, <1>10 DEF Seekers, OneMoves, Awaiting, AwaitBacks
      <3>3. Signallers(c)' = Signallers(c) \cup {t} /\ t \notin Signallers(c)
        BY <1>0, <1>6, <2>3 DEF Signallers, OneMoves
      <3>4. Broadcast(c) => Broadcast(c)' BY <1>0, <1>6 DEF Broadcast, OneMoves
      <3>5. Cardinality(Signallers(c)') = Cardinality(Signallers(c)) + 1
        BY <3>3, Counts, FS_AddElement
      <3>6. Counted(c) BY DEF CondsOK
      <3>7. CASE items[c] <= Cardinality(Seekers(c)) + Cardinality(Signallers(c))
        <4>1. items'[c] <= Cardinality(Seekers(c)') + Cardinality(Signallers(c)')
          BY <1>4, <3>1, <3>2, <3>5, <3>7, Counts
        <4> QED BY <2>3, <4>1 DEF Counted
      <3> QED BY <1>10, <2>3, <3>4, <3>6, <3>7 DEF Counted
    <2> QED BY <2>1, <2>2, <2>3
  <1>12. \A u \in Threads : PlaceOK(th'[u]) /\ InCall(u)' BY <1>6, <1>8, OtherThreads
  <1>13. waiting' \in [Conds -> Seq(Threads)] BY <1>5 DEF CondsOK
  <1> QED BY <1>7, <1>9, <1>10, <1>11, <1>12, <1>13 DEF CondsOK

\* Who registers found no item, under the mutex it still holds.
LEMMA RegisterKeeps ==
  ASSUME IInv, CondsOK, NEW t \in Threads, CondRegister(t), items' = items, scenario' = scenario
  PROVE  CondsOK'
  <1>0. TypeOK /\ ThreadsOK /\ th[t].at = "wait" BY DEF IInv, TypeOK, CondRegister
  <1>1. PlaceOK(th[t]) /\ InCall(t) /\ EmptyAtWait(t) BY DEF CondsOK
  <1>2. th[t].back \in {"await_locked", "cond_return"} /\ Under(th[t])
    BY <1>0, <1>1 DEF PlaceOK, Under
  <1>3. th[t].cond \in Conds BY <1>0, <1>1, <1>2, CallerCond DEF AwaitBacks
  <1>. PICK c \in Conds : c = th[t].cond BY <1>3
  <1>4. /\ waiting \in [Conds -> Seq(Threads)] /\ items \in [Conds -> Nat] /\ items[c] = 0
    BY <1>0, <1>1 DEF CondsOK, EmptyAtWait
  <1>5. /\ waiting' = [waiting EXCEPT ![c] = Append(@, t)] /\ marked' = marked \ {t}
        /\ th' = [th EXCEPT ![t].at = "unlock", ![t].back = "cond_loop"]
    BY DEF CondRegister
  <1>6. /\ OneMoves(t) /\ th'[t].pc = th[t].pc /\ th'[t].obj = th[t].obj /\ th'[t].ret = th[t].ret
        /\ th'[t].at = "unlock" /\ th'[t].back = "cond_loop"
    BY <1>0, <1>5, PlaceFields DEF OneMoves, Fields
  <1>7. PlaceOK(th'[t]) /\ InCall(t)'
    BY <1>1, <1>2, <1>6 DEF PlaceOK, InCall, OneMoves, Now, Under, AwaitBacks, SetBacks
  <1>8. ASSUME NEW u \in Threads PROVE EmptyAtWait(u)'
    BY <1>6, <1>8 DEF CondsOK, EmptyAtWait, OneMoves
  <1>9. waiting' \in [Conds -> Seq(Threads)] /\ waiting'[c] = Append(waiting[c], t) BY <1>4, <1>5
  <1>10. ASSUME NEW k \in Conds PROVE Registry(k)' /\ Counted(k)'
    <2>0. Registry(k) /\ waiting[k] \in Seq(Threads) BY <1>4 DEF CondsOK
    <2>1. CASE k # c
      <3>1. waiting'[k] = waiting[k] BY <1>4, <1>5, <2>1
      <3>2. \A i \in DOMAIN waiting[k] : waiting[k][i] \notin marked' BY <1>5, <2>0 DEF Registry
      <3> QED BY <1>6, <2>1, <3>1, <3>2, OtherConds
    <2>2. CASE k = c
      <3> DEFINE q == waiting[c]
                 p == Append(q, t)
      <3>1. q \in Seq(Threads) /\ \A i \in DOMAIN q : q[i] # t BY <1>2, <2>0, <2>2 DEF Registry
      <3>2. /\ DOMAIN p = 1 .. Len(q) + 1 /\ p[Len(q) + 1] = t
            /\ \A i \in 1 .. Len(q) : p[i] = q[i] /\ i \in DOMAIN q
        BY <3>1
      <3>3. \A i \in DOMAIN p : i = Len(q) + 1 \/ i \in 1 .. Len(q) BY <3>1, <3>2
      <3>4. \A i, j \in DOMAIN q : q[i] = q[j] => i = j BY <2>0, <2>2 DEF Registry
      <3> HIDE DEF p, q
      <3>5. \A i, j \in DOMAIN p : p[i] = p[j] => i = j BY <3>1, <3>2, <3>3, <3>4
      <3>6. ASSUME NEW i \in DOMAIN p
            PROVE  th'[p[i]].cond = c /\ th'[p[i]].back = "cond_loop" /\ Under(th'[p[i]]) /\ p[i] \notin marked'
        <4>1. CASE i = Len(q) + 1 BY <1>5, <1>6, <3>2, <4>1 DEF Under, OneMoves
        <4>2. CASE i \in 1 .. Len(q)
          <5>1. p[i] = q[i] /\ i \in DOMAIN q /\ q[i] # t /\ q[i] \in Threads BY <3>1, <3>2, <4>2
          <5>2. th[q[i]].cond = c /\ th[q[i]].back = "cond_loop" /\ Under(th[q[i]]) /\ q[i] \notin marked
            BY <2>0, <2>2, <5>1 DEF Registry, q
          <5> QED BY <1>5, <1>6, <5>1, <5>2 DEF OneMoves
        <4> QED BY <3>3, <4>1, <4>2
      <3>7. waiting'[c] = p BY <1>9 DEF p, q
      <3>8. Registry(c)' BY <3>5, <3>6, <3>7 DEF Registry
      <3> QED BY <1>4, <2>2, <3>8, NoneCounted
    <2> QED BY <2>1, <2>2
  <1>11. \A u \in Threads : PlaceOK(th'[u]) /\ InCall(u)' BY <1>6, <1>7, OtherThreads
  <1>12. items' \in [Conds -> Nat] BY <1>4
  <1> QED BY <1>8, <1>9, <1>10, <1>11, <1>12 DEF CondsOK

\* Who leaves, marked or past its deadline, will look.
LEMMA LeaveKeeps ==
  ASSUME IInv, CondsOK, NEW t \in Threads, CondLeave(t), items' = items, scenario' = scenario
  PROVE  CondsOK'
  <1>0. TypeOK /\ ThreadsOK /\ th[t].at = "cond_leave" BY DEF IInv, TypeOK, CondLeave
  <1>1. PlaceOK(th[t]) /\ InCall(t) BY DEF CondsOK
  <1>2. th[t].back = "cond_loop" /\ Under(th[t]) BY <1>0, <1>1 DEF PlaceOK, Under
  <1>3. th[t].cond \in Conds BY <1>0, <1>1, <1>2, CallerCond DEF AwaitBacks
  <1>. PICK c \in Conds : c = th[t].cond BY <1>3
  <1>4. /\ waiting \in [Conds -> Seq(Threads)] /\ items \in [Conds -> Nat]
        /\ waiting[c] \in Seq(Threads) /\ Registry(c) /\ Counted(c)
    BY DEF CondsOK
  <1> DEFINE q == waiting[c]
             p == IF \E i \in DOMAIN q : q[i] = t THEN Without(q, t) ELSE q
  <1>5. waiting' = [waiting EXCEPT ![c] = p] /\ marked' = marked BY <1>4 DEF CondLeave
  <1>6. /\ OneMoves(t) /\ th'[t].pc = th[t].pc /\ th'[t].obj = th[t].obj /\ th'[t].ret = th[t].ret
        /\ th'[t].at = "lock" /\ th'[t].back = "cond_return"
    <2>1. th' = [th EXCEPT ![t].at = "lock", ![t].back = "cond_return", ![t].timed = FALSE]
      BY DEF CondLeave
    <2> QED BY <1>0, <2>1, PlaceFields DEF OneMoves, Fields
  <1>7. PlaceOK(th'[t]) /\ InCall(t)'
    BY <1>1, <1>2, <1>6 DEF PlaceOK, InCall, OneMoves, Now, Under, AwaitBacks, SetBacks
  <1>8. ASSUME NEW u \in Threads PROVE EmptyAtWait(u)'
    BY <1>6, <1>8 DEF CondsOK, EmptyAtWait, OneMoves
  <1>9. /\ p \in Seq(Threads) /\ \A i, j \in DOMAIN p : p[i] = p[j] => i = j
        /\ \A i \in DOMAIN p : p[i] # t /\ \E j \in DOMAIN q : p[i] = q[j]
    <2>1. q \in Seq(Threads) /\ \A i, j \in DOMAIN q : q[i] = q[j] => i = j BY <1>4 DEF Registry
    <2> HIDE DEF q
    <2>2. CASE ~(\E i \in DOMAIN q : q[i] = t) BY <2>1, <2>2
    <2>3. ASSUME NEW m \in DOMAIN q, q[m] = t
          PROVE  /\ p \in Seq(Threads) /\ \A i, j \in DOMAIN p : p[i] = p[j] => i = j
                 /\ \A i \in DOMAIN p : p[i] # t /\ \E j \in DOMAIN q : p[i] = q[j]
      <3>1. p = Without(q, t) BY <2>3
      <3> HIDE DEF p
      <3>2. /\ p \in Seq(Threads) /\ Len(p) = Len(q) - 1
            /\ \A i \in DOMAIN p : p[i] = IF i < m THEN q[i] ELSE q[i + 1]
        BY <2>1, <2>3, <3>1, WithoutIs
      <3>3. \A i \in DOMAIN p : i \in DOMAIN q /\ i + 1 \in DOMAIN q BY <2>1, <3>2
      <3>4. m \in Nat /\ \A i \in DOMAIN p : i \in Nat BY <2>1, <2>3, <3>2
      <3>5. \A i, j \in DOMAIN p : p[i] = p[j] => i = j BY <2>1, <3>2, <3>3, <3>4
      <3>6. \A i \in DOMAIN p : p[i] # t BY <2>1, <2>3, <3>2, <3>3, <3>4
      <3> QED BY <3>2, <3>3, <3>5, <3>6
    <2> QED BY <2>2, <2>3
  <1> HIDE DEF p
  <1>10. waiting' \in [Conds -> Seq(Threads)] /\ waiting'[c] = p BY <1>4, <1>5, <1>9
  <1>11. Registry(c)'
    <2>1. ASSUME NEW i \in DOMAIN p
          PROVE  th'[p[i]].cond = c /\ th'[p[i]].back = "cond_loop" /\ Under(th'[p[i]]) /\ p[i] \notin marked
      <3>1. PICK j \in DOMAIN q : p[i] = q[j] BY <1>9
      <3>2. p[i] \in Threads \ {t} BY <1>4, <1>9, <3>1
      <3> QED BY <1>4, <1>6, <3>1, <3>2 DEF Registry, OneMoves
    <2> QED BY <1>5, <1>9, <1>10, <2>1 DEF Registry
  <1>12. Unmarked(c)' \subseteq Unmarked(c) /\ t \notin Unmarked(c)'
    BY <1>5, <1>9, <1>10 DEF Unmarked
  <1>13. Counted(c)'
    <2>1. Seekers(c) \subseteq Seekers(c)'
      BY <1>0, <1>6, <1>12 DEF Seekers, OneMoves, Awaiting, AwaitBacks, Under
    <2>2. Signallers(c) \subseteq Signallers(c)' BY <1>0, <1>6 DEF Signallers, OneMoves
    <2>3. Broadcast(c) => Broadcast(c)' BY <1>0, <1>6 DEF Broadcast, OneMoves
    <2>4. items[c] \in Nat BY <1>4
    <2> QED BY <1>4, <1>12, <2>1, <2>2, <2>3, <2>4, CountFrame
  <1>14. ASSUME NEW k \in Conds PROVE Registry(k)' /\ Counted(k)'
    <2>1. CASE k # c
      <3>1. waiting'[k] = waiting[k] BY <1>4, <1>5, <2>1
      <3>2. \A i \in DOMAIN waiting[k] : waiting[k][i] \notin marked' BY <1>5 DEF CondsOK, Registry
      <3> QED BY <1>6, <2>1, <3>1, <3>2, OtherConds
    <2> QED BY <1>11, <1>13, <2>1
  <1>15. \A u \in Threads : PlaceOK(th'[u]) /\ InCall(u)' BY <1>6, <1>7, OtherThreads
  <1>16. items' \in [Conds -> Nat] BY <1>4
  <1> QED BY <1>8, <1>10, <1>14, <1>15, <1>16 DEF CondsOK


\* Who is marked will look: one for the signal given, or everyone.
LEMMA MarkKeeps ==
  ASSUME IInv, CondsOK, NEW t \in Threads, items' = items, scenario' = scenario,
         NEW n \in Nat, CondMark(t, n),
         \/ th[t].at = "signal" /\ n = 1
         \/ th[t].at = "broadcast" /\ n = Everyone
  PROVE  CondsOK'
  <1>0. TypeOK /\ ThreadsOK /\ ThreadOK(th[t]) /\ th[t].at \in MarkSteps
    BY DEF IInv, TypeOK, ThreadsOK, MarkSteps
  <1>1. PlaceOK(th[t]) /\ InCall(t) BY DEF CondsOK
  <1>2. th[t].back = "set_done" /\ Under(th[t])
    BY <1>0 DEF ThreadOK, StepOK, Under, RwSteps, LockSteps, UnlockSteps, CondSteps, MarkSteps,
                LoopSteps, AskSteps, LeaveSteps, SemSteps, OnceSteps, WordSteps, FutexSteps
  <1>3. th[t].cond \in Conds BY <1>0, <1>1, <1>2, CallerCond DEF SetBacks
  <1>. PICK c \in Conds : c = th[t].cond BY <1>3
  <1>4. /\ waiting \in [Conds -> Seq(Threads)] /\ items \in [Conds -> Nat] /\ items[c] \in Nat
        /\ waiting[c] \in Seq(Threads) /\ Registry(c) /\ Counted(c)
    BY DEF CondsOK
  <1> DEFINE q == waiting[c]
             taken == {q[i] : i \in {j \in DOMAIN q : j <= n}}
             p == SubSeq(q, n + 1, Len(q))
  <1>5. waiting' = [waiting EXCEPT ![c] = p] /\ marked' = marked \cup taken /\ At(t, "notify")
    BY <1>4 DEF CondMark
  <1>6. OneMoves(t) /\ Same(t) /\ th'[t].at = "notify"
    BY <1>0, <1>5, PlaceFields DEF OneMoves, Same, At
  <1>7. PlaceOK(th'[t]) /\ InCall(t)'
    BY <1>1, <1>2, <1>6 DEF PlaceOK, InCall, Same, Now, Under, OneMoves
  <1>8. ASSUME NEW u \in Threads PROVE EmptyAtWait(u)'
    BY <1>6, <1>8 DEF CondsOK, EmptyAtWait, OneMoves
  <1>9. /\ p \in Seq(Threads)
        /\ \A i \in DOMAIN p : i \in Nat /\ i + n \in DOMAIN q /\ p[i] = q[i + n]
        /\ \A i \in DOMAIN q : i \in Nat /\ (i > n => i - n \in DOMAIN p /\ p[i - n] = q[i])
    BY <1>4, LeftOf
  <1>10. waiting' \in [Conds -> Seq(Threads)] /\ waiting'[c] = p BY <1>4, <1>5, <1>9
  <1>11. \A i, j \in DOMAIN q : q[i] = q[j] => i = j BY <1>4 DEF Registry
  <1>12. ASSUME NEW i \in DOMAIN q
         PROVE  /\ q[i] \in Threads \ {t} /\ th[q[i]].cond = c /\ th[q[i]].back = "cond_loop"
                /\ Under(th[q[i]]) /\ q[i] \notin marked /\ th'[q[i]] = th[q[i]]
    BY <1>2, <1>4, <1>6 DEF Registry, OneMoves
  <1> HIDE DEF q, p
  <1>13. Registry(c)'
    <2>1. \A i, j \in DOMAIN p : p[i] = p[j] => i = j BY <1>9, <1>11
    <2>2. ASSUME NEW i \in DOMAIN p
          PROVE  th'[p[i]].cond = c /\ th'[p[i]].back = "cond_loop" /\ Under(th'[p[i]]) /\ p[i] \notin marked'
      <3>1. p[i] \notin taken BY <1>9, <1>11, <2>2
      <3> QED BY <1>5, <1>9, <1>12, <3>1
    <2> QED BY <1>10, <2>1, <2>2 DEF Registry
  <1>14. Unmarked(c)' \subseteq Unmarked(c)
    <2>1. \A i \in DOMAIN p : \E j \in DOMAIN q : p[i] = q[j] BY <1>9
    <2> QED BY <1>5, <1>10, <2>1 DEF Unmarked, q
  <1>15. Counted(c)'
    <2>1. CASE th[t].at = "broadcast"
      <3>1. Len(q) <= n BY <1>4, <1>11, <2>1, SeqFits DEF q
      <3>2. DOMAIN p = {} BY <1>4, <1>9, <3>1 DEF q
      <3>3. Unmarked(c)' = {} BY <1>10, <3>2 DEF Unmarked
      <3> QED BY <3>3 DEF Counted
    <2>2. CASE th[t].at = "signal" /\ q = <<>>
      <3>1. Unmarked(c)' = {} BY <1>14, <2>2 DEF Unmarked, q
      <3> QED BY <3>1 DEF Counted
    <2>3. CASE th[t].at = "signal" /\ q # <<>>
      <3>1. n = 1 /\ 1 \in DOMAIN q BY <1>4, <2>3 DEF q
      <3>2. PICK w \in Threads : w = q[1] BY <1>12, <3>1
      <3>3. w \in Unmarked(c) /\ w \in marked' BY <1>5, <1>12, <3>1, <3>2 DEF Unmarked, q
      <3>4. w \notin Seekers(c) /\ w \in Seekers(c)'
        BY <1>12, <3>1, <3>2, <3>3 DEF Seekers, Unmarked, Awaiting, AwaitBacks
      <3>5. Seekers(c) \cup {w} \subseteq Seekers(c)'
        BY <1>2, <1>6, <1>14, <3>4 DEF Seekers, OneMoves, Awaiting, AwaitBacks
      <3>6. Signallers(c)' = Signallers(c) \ {t} /\ t \in Signallers(c)
        BY <1>6, <2>3 DEF Signallers, OneMoves
      <3>7. Cardinality(Signallers(c)') = Cardinality(Signallers(c)) - 1
        BY <3>6, Counts, FS_RemoveElement
      <3>8. Cardinality(Seekers(c)') >= Cardinality(Seekers(c)) + 1
        <4>1. Cardinality(Seekers(c) \cup {w}) = Cardinality(Seekers(c)) + 1
          BY <3>4, Counts, FS_AddElement
        <4>2. Cardinality(Seekers(c) \cup {w}) <= Cardinality(Seekers(c)')
          BY <3>5, CountsNext, FS_Subset
        <4> QED BY <4>1, <4>2, Counts, CountsNext
      <3>9. Broadcast(c) => Broadcast(c)' BY <1>6, <2>3 DEF Broadcast, OneMoves
      <3>10. CASE items[c] <= Cardinality(Seekers(c)) + Cardinality(Signallers(c))
        <4>1. items'[c] <= Cardinality(Seekers(c)') + Cardinality(Signallers(c)')
          BY <1>4, <3>7, <3>8, <3>10, Counts, CountsNext
        <4> QED BY <4>1 DEF Counted
      <3> QED BY <1>4, <3>3, <3>9, <3>10 DEF Counted
    <2> QED BY <2>1, <2>2, <2>3
  <1>16. ASSUME NEW k \in Conds PROVE Registry(k)' /\ Counted(k)'
    <2>1. CASE k # c
      <3>1. waiting'[k] = waiting[k] BY <1>4, <1>5, <2>1
      <3>2. Registry(k) BY DEF CondsOK
      <3>3. \A i \in DOMAIN waiting[k] : waiting[k][i] \notin marked'
        BY <1>5, <1>12, <2>1, <3>2 DEF Registry
      <3> QED BY <1>6, <2>1, <3>1, <3>3, OtherConds
    <2> QED BY <1>13, <1>15, <2>1
  <1>17. \A u \in Threads : PlaceOK(th'[u]) /\ InCall(u)' BY <1>6, <1>7, OtherThreads
  <1>18. items' \in [Conds -> Nat] BY <1>4
  <1> QED BY <1>8, <1>10, <1>16, <1>17, <1>18 DEF CondsOK

\* A step under the conditions, or of a condition, keeps them.
LEMMA ThreadConds ==
  ASSUME IInv, CondsOK, stage = "up", NEW t \in Threads, Thread(t)
  PROVE  CondsOK'
  <1>0. /\ TypeOK /\ ThreadsOK /\ (\A o \in Objects : QueueInv(o)) /\ scenario' = scenario
        /\ \A u \in Threads \ {t} : Moved(u)
        /\ \A u \in Threads : PlaceOK(th[u]) /\ InCall(u)
    <2>1. scenario' = scenario
      BY DEF Thread, notSem, notMutex, notCond, notRw, notOnce, Begin, Await, Put, PutDone, Store,
             StoreWake, GuestHalt
    <2> QED BY <2>1, StepActs DEF IInv, TypeOK, CondsOK, Acts
  <1>1. ASSUME items' = items, waiting' = waiting, marked' = marked, Follows(t) PROVE CondsOK'
    <2>1. \A u \in Threads \ {t} : Follows(u) BY <1>0, MovedFollows
    <2> QED BY <1>0, <1>1, <2>1, CondsFrame
  <1>2. CASE \/ MutexStep(t) /\ UNCHANGED notMutex
             \/ RwStep(t) /\ UNCHANGED notRw
             \/ SemStep(t) /\ UNCHANGED notSem
             \/ OnceStep(t) /\ UNCHANGED notOnce
    <2>1. Goes(t) BY <1>0, <1>2, MutexGoes, RwGoes, SemGoes, OnceGoes
    <2>2. th[t].at \in FreeSteps
      <3>1. MutexStep(t) => th[t].at \in LockSteps \cup UnlockSteps
        BY DEF LockSteps, UnlockSteps, MutexStep, LockAgain, LockDeadlock, LockLook, LockCas,
               LockOwn, Contend, ContendMark, ContendReady, ContendWoke, Unlock, UnlockClear,
               UnlockPublish, UnlockWake
      <3>2. RwStep(t) => th[t].at \in RwSteps
        BY DEF RwSteps, AskSteps, LeaveSteps, RwStep, ReadWriters, ReadState, ReaderAcquire,
               ReaderWait, WriterRegister, WriterState, WriterCas, WriterWait, WriterLeave, RwUnlock,
               RwWake
      <3>3. SemStep(t) => th[t].at \in SemSteps
        BY DEF SemSteps, SemStep, SemRead, SemTake, SemFlag, SemReady, PostRead, PostCas, PostWake,
               PostClear
      <3>4. OnceStep(t) => th[t].at \in OnceSteps
        BY DEF OnceSteps, OnceStep, OnceRead, OnceCas, OnceRun, OnceDone, OnceWake, OnceWait, OnceWoke
      <3> QED BY <1>2, <3>1, <3>2, <3>3, <3>4 DEF FreeSteps
    <2>3. items' = items /\ waiting' = waiting /\ marked' = marked
      BY <1>2 DEF notMutex, notRw, notSem, notOnce, condVars
    <2> QED BY <1>0, <1>1, <2>1, <2>2, <2>3, GoesFollows
  <1>3. CASE \/ (FutexEnter(t) \/ FutexPark(t) \/ FutexTimeout(t)) /\ UNCHANGED notSem
             \/ Store(t) \/ StoreWake(t)
    <2>1. Goes(t) BY <1>0, <1>3, WaitGoes
    <2>2. th[t].at \in FreeSteps
      BY <1>3 DEF FreeSteps, FutexSteps, WordSteps, FutexEnter, FutexPark, FutexTimeout, Store, StoreWake
    <2>3. items' = items /\ waiting' = waiting /\ marked' = marked
      BY <1>3 DEF notSem, condVars, Store, StoreWake
    <2> QED BY <1>0, <1>1, <2>1, <2>2, <2>3, GoesFollows
  <1>4. CASE GuestHalt(t) BY <1>4 DEF GuestHalt, threads_stopping
  <1>5. CASE Begin(t)
    <2>1. items' = items /\ waiting' = waiting /\ marked' = marked BY <1>5 DEF Begin, notSem, condVars
    <2> QED BY <1>0, <1>1, <1>5, <2>1, BeginFollows
  <1>6. CASE PutDone(t)
    <2>1. items' = items /\ waiting' = waiting /\ marked' = marked BY <1>6 DEF PutDone, notSem, condVars
    <2> QED BY <1>0, <1>1, <1>6, <2>1, CallerFollows
  <1>7. CASE Await(t) BY <1>7, AwaitKeeps
  <1>8. CASE Put(t) BY <1>8, PutKeeps
  <1>9. ASSUME CondStep(t), UNCHANGED notCond PROVE CondsOK'
    <2>1. items' = items BY <1>9 DEF notCond
    <2>2. CASE CondLoop(t) \/ CondTimer(t) \/ CondReturn(t) \/ CondSignalled(t)
      <3>1. waiting' = waiting /\ marked' = marked
        BY <2>2 DEF CondLoop, CondTimer, CondReturn, CondSignalled, condVars
      <3> QED BY <1>0, <1>1, <2>1, <2>2, <3>1, CallerFollows
    <2>3. CASE CondNotify(t)
      <3>1. waiting' = waiting /\ marked' = marked BY <2>3 DEF CondNotify
      <3>2. Moved(t) BY <1>0, <2>3, NotifyActs
      <3> QED BY <1>0, <1>1, <2>1, <3>1, <3>2, MovedFollows
    <2>4. CASE CondRegister(t) BY <1>0, <2>1, <2>4, RegisterKeeps
    <2>5. CASE CondLeave(t) BY <1>0, <2>1, <2>5, LeaveKeeps
    <2>6. CASE CondSignal(t) BY <1>0, <2>1, <2>6, MarkKeeps DEF CondSignal
    <2>7. CASE CondBroadcast(t) BY <1>0, <2>1, <2>7, MarkKeeps, EveryoneType DEF CondBroadcast
    <2> QED BY <1>9, <2>2, <2>3, <2>4, <2>5, <2>6, <2>7 DEF CondStep
  <1> QED BY <1>2, <1>3, <1>4, <1>5, <1>6, <1>7, <1>8, <1>9 DEF Thread

\* A shutdown does not come back up, and what it does before is nothing here.
LEMMA StopConds ==
  ASSUME IInv, CondsOK, stage = "up", stage' = "up", Stopping \/ Stop \/ UNCHANGED vars
  PROVE  CondsOK'
  <1>1. CASE UNCHANGED vars
    <2>1. /\ scenario' = scenario /\ items' = items /\ waiting' = waiting /\ marked' = marked
          /\ th' = th
      BY <1>1 DEF vars, condVars
    <2>2. \A u \in Threads : Follows(u) BY <2>1 DEF Follows, CondsOK, InCall, Now
    <2> QED BY <2>1, <2>2, CondsFrame
  <1>2. CASE CondNotify(Shutdown) /\ UNCHANGED notCond
    <2>1. /\ scenario' = scenario /\ items' = items /\ waiting' = waiting /\ marked' = marked
      BY <1>2 DEF CondNotify, notCond
    <2>2. ThreadsOK /\ \A u \in Threads : Moved(u) BY <1>2, NotifyActs DEF IInv, TypeOK
    <2>3. \A u \in Threads : Follows(u) BY <2>1, <2>2, MovedFollows DEF CondsOK
    <2> QED BY <2>1, <2>3, CondsFrame
  <1>3. ~Stop /\ ~StopFlag /\ ~StopLook /\ (\A o \in Objects : ~StopWake(o)) /\ ~StopSwept
        /\ ~CondStopFlag /\ ~CondStopAll
    BY DEF Stop, StopThreads, StopFlag, StopLook, StopWake, StopSwept, CondStopFlag, CondStopAll
  <1> QED BY <1>1, <1>2, <1>3 DEF Stopping

\* Of a condition's registry (cond.rs wait_begin, wait_end, wake): while the instance
\* is up, an item put under the mutex and signalled finds a thread that will look for
\* it, or nobody waits unmarked: no signal falls between a waiter's look and its sleep,
\* nor on a waiter that a deadline has just taken away.
THEOREM SignalsKept == Spec => []SignalKept
  <1>1. ASSUME Init PROVE CInv
    <2>1. \A t \in Threads : th[t].at = "idle" BY <1>1 DEF Init, NewThread
    <2>2. items = [c \in Conds |-> 0] /\ waiting = [c \in Conds |-> <<>>] BY <1>1 DEF Init
    <2>3. \A t \in Threads : PlaceOK(th[t]) /\ InCall(t) /\ EmptyAtWait(t)
      BY <2>1 DEF PlaceOK, InCall, EmptyAtWait, Under
    <2>4. \A c \in Conds : Registry(c) /\ Counted(c) BY <2>2 DEF Registry, Counted, Unmarked
    <2>5. CondsOK BY <2>2, <2>3, <2>4 DEF CondsOK
    <2> QED BY <1>1, <2>5, InitHolds DEF CInv
  <1>2. ASSUME CInv, [Next]_vars PROVE CInv'
    <2>1. IInv' BY <1>2, NextKeeps DEF CInv
    <2>2. SUFFICES ASSUME stage' = "up" PROVE CondsOK' BY <2>1 DEF CInv
    <2>3. ASSUME NEW t \in Threads, Thread(t) PROVE stage' = stage
      <3>1. CASE MutexStep(t) \/ CondStep(t)
        BY <3>1 DEF MutexStep, LockAgain, LockDeadlock, LockLook, LockCas, LockOwn, Contend,
                    ContendMark, ContendReady, ContendWoke, Unlock, UnlockClear, UnlockPublish,
                    UnlockWake, CondStep, CondRegister, CondLoop, CondTimer, CondLeave, CondReturn,
                    CondSignal, CondBroadcast, CondMark, CondNotify, CondSignalled, futexVars
      <3>2. CASE RwStep(t)
        BY <3>2 DEF RwStep, ReadWriters, ReadState, ReaderAcquire, ReaderWait, WriterRegister,
                    WriterState, WriterCas, WriterWait, WriterLeave, RwUnlock, RwWake, futexVars
      <3>3. CASE SemStep(t) \/ OnceStep(t)
        BY <3>3 DEF SemStep, SemRead, SemTake, SemFlag, SemReady, PostRead, PostCas, PostWake,
                    PostClear, OnceStep, OnceRead, OnceCas, OnceRun, OnceDone, OnceWake, OnceWait,
                    OnceWoke, futexVars
      <3> QED BY <2>3, <3>1, <3>2, <3>3 DEF Thread, FutexEnter, FutexPark, FutexTimeout, Begin, Await,
                    Put, PutDone, Store, StoreWake, GuestHalt, futexVars
    <2>4. CASE \E t \in Threads : Thread(t) BY <1>2, <2>2, <2>3, <2>4, ThreadConds DEF CInv
    <2>5. CASE Stopping \/ Stop \/ UNCHANGED vars
      <3>1. stage = "up"
        BY <2>2, <2>5 DEF Stopping, Stop, StopThreads, StopFlag, StopLook, StopWake, StopSwept,
                          CondStopFlag, CondStopAll, CondNotify, futexVars, vars
      <3> QED BY <1>2, <2>2, <2>5, <3>1, StopConds DEF CInv
    <2> QED BY <1>2, <2>4, <2>5 DEF Next
  <1>3. ASSUME CInv PROVE SignalKept
    <2>1. SUFFICES ASSUME stage = "up", NEW c \in Conds
                   PROVE  \/ Unmarked(c) = {} \/ Cardinality(Lookers(c)) >= items[c]
                          \/ \E t \in Threads : th[t].cond = c /\ th[t].at \in {"signal", "broadcast"}
      BY DEF SignalKept, threads_stopping
    <2>2. CondsOK /\ TypeOK /\ Counted(c) /\ items[c] \in Nat BY <1>3, <2>1 DEF CInv, IInv, CondsOK
    <2>3. CASE Signallers(c) # {} BY <2>3 DEF Signallers
    <2>4. CASE Signallers(c) = {} /\ items[c] <= Cardinality(Seekers(c)) + Cardinality(Signallers(c))
      <3>1. Lookers(c) \subseteq Threads BY DEF Lookers
      <3>2. IsFiniteSet(Lookers(c)) /\ Cardinality(Lookers(c)) \in Nat
        BY <3>1, FS_Subset, FS_CardinalityType, FutexAssumption
      <3>3. Seekers(c) \subseteq Lookers(c)
        <4>1. ASSUME NEW t \in Seekers(c) PROVE Awaits(t, c)
          <5>1. /\ t \in Threads /\ Under(th[t]) /\ th[t].back \in AwaitBacks /\ th[t].cond = c
            BY DEF Seekers, Awaiting
          <5>2. InCall(t) /\ ThreadOK(th[t]) BY <2>2, <5>1 DEF CondsOK, TypeOK, ThreadsOK
          <5>3. th[t].pc \in DOMAIN scenario.calls[t] /\ Now(t).op = "await" BY <5>1, <5>2 DEF InCall
          <5>4. scenario.calls[t] \in Seq(Call) BY <2>2, <5>1, ScenariosAssumption DEF TypeOK
          <5>5. th[t].pc > 0 BY <5>3, <5>4
          <5> QED BY <5>1, <5>3, <5>5 DEF Awaits, Under
        <4> QED BY <4>1 DEF Seekers, Lookers
      <3>4. Cardinality(Seekers(c)) <= Cardinality(Lookers(c)) BY <3>2, <3>3, FS_Subset
      <3>5. Cardinality(Signallers(c)) = 0 BY <2>4, FS_EmptySet
      <3> QED BY <2>2, <2>4, <3>2, <3>4, <3>5, Counts
    <2> QED BY <2>2, <2>3, <2>4 DEF Counted, Broadcast
  <1> QED BY <1>1, <1>2, <1>3, PTL DEF Spec
=============================================================================

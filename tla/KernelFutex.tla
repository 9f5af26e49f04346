---------------------------- MODULE KernelFutex ----------------------------
(***************************************************************************)
(* The futex queues of each process.  A wait compares the word and joins   *)
(* the queue under the lock `wake` takes, then parks its host thread; a    *)
(* wake marks whom it woke under the lock, and unparks them after it: a    *)
(* token is left for a thread that is not parked yet, or not any more.     *)
(***************************************************************************)
EXTENDS KernelTasks

CONSTANTS Words,      \* the guest words waited on
          Bits        \* the bits of a bitset

ASSUME FutexAssumption == IsFiniteSet(Tasks) /\ Bits # {}

VARIABLES word,       \* word[o]
          pi,         \* pi[o]: the owner and the mark of a priority-inheritance word
          queue,      \* queue[p][o]: the waiters of p's tasks on o, oldest first
          woken,      \* the waiting tasks a wake has marked
          parked,     \* the tasks registered to be unparked
          token       \* the host threads with an unpark to take

futexVars == <<word, pi, queue, woken, parked, token>>

Queue(t, o) == queue[process[t]][o]
Waiting(p, o) == {queue[p][o][i].task : i \in DOMAIN queue[p][o]}

\* Whoever waits in the process, to be unparked once the lock is dropped; then t goes on.
Everyone(p) == {t \in parked : process[t] = p}
Unparking(r, tasks, then) == [r EXCEPT !.at = "unpark", !.unpark = tasks, !.then = then]

\* The queue q without some tasks' waits, the others in their order.
Without(q, tasks) ==
  LET left == {i \in DOMAIN q : q[i].task \notin tasks} IN
  [k \in 1 .. Cardinality(left) |->
     q[CHOOSE i \in left : Cardinality({j \in left : j <= i}) = k]]

\* (Variant: its own word's queue searched alone.)
RemovedHere(t) == [queue EXCEPT ![process[t]][Now(t).obj] = Without(@, {t})]

\* t's wait is out of every queue, and no longer to be unparked.
Removed(t) == [queue EXCEPT ![process[t]] = [o \in Words |-> Without(@[o], {t})]]

-----------------------------------------------------------------------------
(* FUTEX_WAIT, and FUTEX_WAIT_BITSET.  A futex processes share is waited    *)
(* on a slice at a time, the word looked at between slices.                *)

FutexWait(t) ==
  /\ th[t].at = "wait"
  /\ LET c == Now(t) IN
     \/ /\ Interrupted(t)
        /\ Return(t, "EINTR") /\ UNCHANGED <<queue, parked>>
     \/ /\ ~Interrupted(t) /\ word[c.obj] # c.n
        /\ Return(t, IF th[t].again THEN "0" ELSE "EAGAIN")
        /\ UNCHANGED <<queue, parked>>
     \/ /\ ~Interrupted(t) /\ word[c.obj] = c.n
        /\ queue' = [queue EXCEPT ![process[t]][c.obj] = Append(@, [task |-> t, bitset |-> c.bitset])]
        /\ parked' = parked \cup {t}
        /\ At(t, "parked")
  /\ UNCHANGED <<word, pi, woken, token>>
  /\ UNCHANGED <<taskVars, program>>

\* t's wait is over.
WaitOver(t, r) ==
  /\ th' = [th EXCEPT ![t] = r]
  /\ queue' = Removed(t)
  /\ parked' = parked \ {t} /\ woken' = woken \ {t}

\* Unparked: whatever for, woken, interrupted, and parked again otherwise.
FutexUnparked(t) ==
  /\ th[t].at = "parked" /\ t \in token
  /\ token' = token \ {t}
  /\ IF t \in woken THEN WaitOver(t, Back(th[t], "0"))
     ELSE IF Interrupted(t) THEN WaitOver(t, Back(th[t], "EINTR"))
     ELSE UNCHANGED <<th, queue, parked, woken>>
  /\ UNCHANGED <<word, pi, taskVars, program>>

\* (Variant: late is late, woken or not.)
FutexLateAnyway(t) ==
  /\ th[t].at = "parked" /\ (Now(t).timed \/ Now(t).shared)
  /\ IF Interrupted(t) THEN WaitOver(t, Back(th[t], "EINTR"))
     ELSE \/ Now(t).timed /\ WaitOver(t, Back(th[t], "ETIMEDOUT"))
          \/ Now(t).shared /\ WaitOver(t, [th[t] EXCEPT !.at = "wait", !.again = TRUE])
  /\ UNCHANGED <<word, pi, token, taskVars, program>>

\* (Variant: a futex of several processes waited on as one process's own.)
FutexLateOwn(t) ==
  /\ th[t].at = "parked" /\ Now(t).timed
  /\ IF t \in woken THEN WaitOver(t, Back(th[t], "0"))
     ELSE IF Interrupted(t) THEN WaitOver(t, Back(th[t], "EINTR"))
     ELSE WaitOver(t, Back(th[t], "ETIMEDOUT"))
  /\ UNCHANGED <<word, pi, token, taskVars, program>>

\* Its deadline passed, or its slice: a wake that came first still counts.
FutexLate(t) ==
  /\ th[t].at = "parked" /\ (Now(t).timed \/ Now(t).shared)
  /\ IF t \in woken THEN WaitOver(t, Back(th[t], "0"))
     ELSE IF Interrupted(t) THEN WaitOver(t, Back(th[t], "EINTR"))
     ELSE \/ Now(t).timed /\ WaitOver(t, Back(th[t], "ETIMEDOUT"))
          \/ Now(t).shared /\ WaitOver(t, [th[t] EXCEPT !.at = "wait", !.again = TRUE])
  /\ UNCHANGED <<word, pi, token, taskVars, program>>

-----------------------------------------------------------------------------
(* The wakes.                                                              *)

\* The first n waiters of a queue whose bitset meets another.
Woken(q, n, bitset) ==
  LET meets == {i \in DOMAIN q : q[i].bitset \cap bitset # {}} IN
  {q[i].task : i \in {j \in meets : Cardinality({k \in meets : k < j}) < n}}

\* t wakes up to n waiters of o, and moves up to m of the rest to another word.
WakeAndMove(t, o, n, bitset, to, m) ==
  LET p == process[t]
      up == Woken(queue[p][o], n, bitset)
      rest == Without(queue[p][o], up)
      moved == IF to = o THEN 0 ELSE IF Len(rest) < m THEN Len(rest) ELSE m IN
  /\ woken' = woken \cup up
  /\ th' = [th EXCEPT ![t] = Unparking(@, up \cap parked, @.then)]
  /\ queue' = [queue EXCEPT ![p] =
        [w \in Words |-> IF w = o THEN SubSeq(rest, moved + 1, Len(rest))
                         ELSE IF w = to THEN @[w] \o SubSeq(rest, 1, moved)
                         ELSE @[w]]]

FutexWake(t) ==
  /\ th[t].at = "wake"
  /\ WakeAndMove(t, Now(t).obj, Now(t).n, Now(t).bitset, Now(t).obj, 0)
  /\ UNCHANGED <<word, pi, parked, token, taskVars, program>>

\* FUTEX_CMP_REQUEUE: refused when the word is another than expected.
FutexRequeue(t) ==
  /\ th[t].at = "requeue"
  /\ LET c == Now(t) IN
     IF word[c.obj] # c.expected
     THEN Return(t, "EAGAIN") /\ UNCHANGED <<queue, woken>>
     ELSE WakeAndMove(t, c.obj, c.n, Bits, c.other, c.moves)
  /\ UNCHANGED <<word, pi, parked, token, taskVars, program>>

\* The threads unparked one by one, the lock dropped.
Unpark(t) ==
  /\ th[t].at = "unpark"
  /\ \/ \E u \in th[t].unpark :
          /\ token' = token \cup {u}
          /\ th' = [th EXCEPT ![t].unpark = @ \ {u}]
     \/ /\ th[t].unpark = {}
        /\ IF th[t].then = "guest" THEN Return(t, "0") ELSE At(t, th[t].then)
        /\ UNCHANGED token
  /\ UNCHANGED <<word, pi, queue, woken, parked, taskVars, program>>

-----------------------------------------------------------------------------
(* Priority-inheritance locks: the word is the owner, marked once another  *)
(* waits, so that the owner's unlock comes to the kernel.                  *)

Free == [owner |-> NoTask, waiters |-> FALSE]

\* The lock is free and taken, its own, or waited for: what the loop of lock_pi
\* comes to under the lock.  `mine` is t's wait, taken out of the queue.
PiLook(t, awake) ==
  LET o == Now(t).obj
      mine == t \in Waiting(process[t], o) IN
  IF process[t] \in interrupted THEN WaitOver(t, Back(th[t], "EINTR")) /\ UNCHANGED pi
  ELSE IF pi[o].owner = NoTask
  THEN /\ pi' = [pi EXCEPT ![o] = [owner |-> t,
                                   waiters |-> Waiting(process[t], o) \ {t} # {}]]
       /\ WaitOver(t, Back(th[t], "0"))
  ELSE IF pi[o].owner = t THEN WaitOver(t, Back(th[t], "EDEADLK")) /\ UNCHANGED pi
  ELSE IF awake
  THEN /\ pi' = [pi EXCEPT ![o].waiters = TRUE]
       /\ queue' = IF mine THEN queue
                   ELSE [queue EXCEPT ![process[t]][o] = Append(@, [task |-> t, bitset |-> Bits])]
       /\ parked' = parked \cup {t} /\ woken' = woken \ {t}
       /\ At(t, "pi_parked")
  ELSE /\ pi' = [pi EXCEPT ![o].waiters = TRUE]
       /\ WaitOver(t, Back(th[t], "ETIMEDOUT"))

LockPi(t) ==
  /\ th[t].at = "lock_pi"
  /\ PiLook(t, TRUE)
  /\ UNCHANGED <<word, token, taskVars, program>>

PiUnparked(t) ==
  /\ th[t].at = "pi_parked" /\ t \in token
  /\ token' = token \ {t}
  /\ PiLook(t, TRUE)
  /\ UNCHANGED <<word, taskVars, program>>

\* Its deadline passed: the word looked at once more, unless it was woken meanwhile.
PiLate(t) ==
  /\ th[t].at = "pi_parked" /\ Now(t).timed
  /\ PiLook(t, FALSE)
  /\ UNCHANGED <<word, token, taskVars, program>>

TryLockPi(t) ==
  /\ th[t].at = "trylock_pi"
  /\ LET o == Now(t).obj IN
     IF pi[o].owner = NoTask
     THEN pi' = [pi EXCEPT ![o].owner = t] /\ Return(t, "0")
     ELSE Return(t, IF pi[o].owner = t THEN "EDEADLK" ELSE "EAGAIN") /\ UNCHANGED pi
  /\ UNCHANGED <<word, queue, woken, parked, token, taskVars, program>>

UnlockPi(t) ==
  /\ th[t].at = "unlock_pi"
  /\ LET o == Now(t).obj IN
     IF pi[o].owner # t
     THEN Return(t, "EPERM") /\ UNCHANGED <<pi, queue, woken>>
     ELSE /\ pi' = [pi EXCEPT ![o] = Free]
          /\ WakeAndMove(t, o, Cardinality(Tasks), Bits, o, 0)
  /\ UNCHANGED <<word, parked, token, taskVars, program>>

FutexStep(t) ==
  \/ FutexWait(t) \/ FutexUnparked(t) \/ FutexLate(t)
  \/ FutexWake(t) \/ FutexRequeue(t) \/ Unpark(t)
  \/ LockPi(t) \/ PiUnparked(t) \/ PiLate(t) \/ TryLockPi(t) \/ UnlockPi(t)
=============================================================================

---------------------------- MODULE AddressFutex ----------------------------
(***************************************************************************)
(* The futex the bionic primitives block on: one queue of sleeping threads *)
(* per guest address, a wait that compares the word under the queue's      *)
(* lock, and a stop that wakes everyone and refuses every later wait.      *)
(*                                                                         *)
(* A guest thread is a record: the step it is at, the object whose word it *)
(* works on, the word it last read, where it goes on after its sleep and   *)
(* after its call.  One step is one atomic access of shared memory or one  *)
(* critical section of a host lock.                                        *)
(***************************************************************************)
EXTENDS Naturals, Sequences, FiniteSets

CONSTANTS Threads,    \* the guest threads
          Objects,    \* the guest objects whose words are waited on
          NoObject,   \* none of them
          PARK_SHARDS,   \* the tables of recorded addresses
          shard_of       \* shard_of[o]: which of them o's address is in

ASSUME FutexAssumption ==
  /\ IsFiniteSet(Threads) /\ NoObject \notin Objects
  /\ PARK_SHARDS \in Nat \ {0} /\ shard_of \in [Objects -> 0 .. PARK_SHARDS - 1]

VARIABLES th,        \* th[t]: where thread t is
          word,      \* word[o]: the guest word of object o
          queue,     \* queue[o]: the threads asleep on o, oldest first
          stage,     \* how far the instance's shutdown has come
          sweep      \* what the stop of the futex has yet to look at and wake

futexVars == <<word, queue, stage, sweep>>

\* The shutdown's steps, in order.
Stages == {"up", "threads", "futex", "swept", "conds", "down"}

threads_stopping == stage # "up"
stopped          == stage \notin {"up", "threads"}

\* t goes to a step.
At(t, step) == th' = [th EXCEPT ![t].at = step]

\* t's call answers: it goes back to who made the call.
Back(r, code) == [r EXCEPT !.at = r.back, !.answer = code, !.saw = 0,
                           !.res = "Woken", !.blocked = FALSE]
Answer(t, code) == th' = [th EXCEPT ![t] = Back(@, code)]

-----------------------------------------------------------------------------
(* The wait.                                                               *)

\* t calls `wait` expecting a word, and goes on at `then` with the result.
Wait(t, expected, then) ==
  th' = [th EXCEPT ![t] = [@ EXCEPT !.at = "futex", !.saw = expected, !.then = then]]

\* A wait's result, which only a timed lock looks at.
Woke(r, result) == [r EXCEPT !.at = r.then, !.then = "idle", !.saw = 0,
                             !.res = IF r.timed THEN result ELSE @]

\* The look at the stop flag, and the address recorded for the stop to find.
FutexEnter(t) ==
  /\ th[t].at = "futex"
  /\ th' = [th EXCEPT ![t] = IF stopped THEN Woke(@, "WouldBlock")
                             ELSE [@ EXCEPT !.at = "park"]]
  /\ UNCHANGED futexVars

\* (Variant: the stop flag not read again.)
FutexParkUnasked(t) ==
  /\ th[t].at = "park"
  /\ LET o == th[t].obj IN
     IF word[o] # th[t].saw
     THEN /\ th' = [th EXCEPT ![t] = Woke(@, "WouldBlock")]
          /\ UNCHANGED queue
     ELSE /\ At(t, "asleep")
          /\ queue' = [queue EXCEPT ![o] = Append(@, t)]
  /\ UNCHANGED <<word, stage, sweep>>

\* Under the queue's lock: the stop flag again, the word, and asleep.
FutexPark(t) ==
  /\ th[t].at = "park"
  /\ LET o == th[t].obj IN
     IF stopped \/ word[o] # th[t].saw
     THEN /\ th' = [th EXCEPT ![t] = Woke(@, "WouldBlock")]
          /\ UNCHANGED queue
     ELSE /\ At(t, "asleep")
          /\ queue' = [queue EXCEPT ![o] = Append(@, t)]
  /\ UNCHANGED <<word, stage, sweep>>

\* The queue q without t's entry, the others in their order.
Without(q, t) ==
  LET mine == CHOOSE i \in DOMAIN q : q[i] = t IN
  [i \in 1 .. Len(q) - 1 |-> IF i < mine THEN q[i] ELSE q[i + 1]]

\* The sleep's time is over.  Every wait of the primitives has one: the caller's
\* deadline, or the slice after which it looks again; a guest's own wait has none.
FutexTimeout(t) ==
  /\ th[t].at = "asleep" /\ ~th[t].forever
  /\ th' = [th EXCEPT ![t] = Woke(@, "TimedOut")]
  /\ queue' = [queue EXCEPT ![th[t].obj] = Without(@, t)]
  /\ UNCHANGED <<word, stage, sweep>>

-----------------------------------------------------------------------------
(* The wake.                                                               *)

\* The threads a wake of up to n takes off o's queue.
Taken(o, n) == {queue[o][i] : i \in {j \in DOMAIN queue[o] : j <= n}}

\* Up to n threads asleep on o are woken, and the waker t becomes r.
WakeAnd(o, n, t, r) ==
  /\ th' = [u \in Threads |-> CASE u = t -> r
                                [] u \in Taken(o, n) -> Woke(th[u], "Woken")
                                [] OTHER -> th[u]]
  /\ queue' = [queue EXCEPT ![o] = SubSeq(@, n + 1, Len(@))]

Everyone == Cardinality(Threads)

-----------------------------------------------------------------------------
(* The stop: the flag first, then one table after another, the addresses   *)
(* recorded in it read, and the queue of each woken.                       *)

Recorded(o) == \E t \in Threads : th[t].at \in {"park", "asleep"} /\ th[t].obj = o

StopThreads ==
  /\ stage = "up"
  /\ stage' = "threads"
  /\ UNCHANGED <<th, word, queue, sweep>>

StopFlag ==
  /\ stage = "threads"
  /\ stage' = "futex"
  /\ UNCHANGED <<th, word, queue, sweep>>

StopLook ==
  /\ stage = "futex"
  /\ sweep.wake = {} /\ sweep.shard < PARK_SHARDS
  /\ sweep' = [shard |-> sweep.shard + 1,
               wake |-> {o \in Objects : shard_of[o] = sweep.shard /\ Recorded(o)}]
  /\ UNCHANGED <<th, word, queue, stage>>

StopWake(o) ==
  /\ stage = "futex"
  /\ o \in sweep.wake
  /\ sweep' = [sweep EXCEPT !.wake = @ \ {o}]
  /\ th' = [u \in Threads |-> IF u \in Taken(o, Everyone) THEN Woke(th[u], "Woken") ELSE th[u]]
  /\ queue' = [queue EXCEPT ![o] = <<>>]
  /\ UNCHANGED <<word, stage>>

StopSwept ==
  /\ stage = "futex"
  /\ sweep = [shard |-> PARK_SHARDS, wake |-> {}]
  /\ stage' = "swept"
  /\ UNCHANGED <<th, word, queue, sweep>>
=============================================================================

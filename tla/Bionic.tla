------------------------------- MODULE Bionic -------------------------------
(***************************************************************************)
(* Guest threads over the primitives of omni-bionic: each runs a program   *)
(* of calls; an instance's shutdown may come at any step of them.          *)
(*                                                                         *)
(* The guest's side is as guests use it: an object is one kind of thing,   *)
(* what is not held is not released, a read-write lock that is held is not *)
(* locked again, and a condition is waited on in a loop over a predicate,  *)
(* here the number of items that `set` put and `await` takes.              *)
(***************************************************************************)
EXTENDS BionicCond, BionicRwLock, BionicSem, BionicOnce

CONSTANTS Scenarios    \* the programs a run goes through

VARIABLES scenario,    \* the one chosen
          items        \* items[c]: the predicate of condition c

vars == <<th, futexVars, mutexVars, condVars, rwVars, completed, scenario, items>>

\* What a primitive's step leaves alone.
notMutex == <<condVars, rwVars, completed, scenario, items>>
notCond  == <<rwVars, completed, scenario, items>>
notRw    == <<mutexVars, condVars, completed, scenario, items>>
notSem   == <<mutexVars, condVars, rwVars, completed, scenario, items>>
notOnce  == <<mutexVars, condVars, rwVars, scenario, items>>

\* The steps of a thread that runs guest code, not one of the host's calls.
GuestSteps == {"idle", "await_locked", "await_woke", "set_locked", "set_done", "store"}

\* A guest's object is one thing: a mutex, a lock, ... or a word of its own.
Words == Objects \ (Mutexes \cup RwLocks \cup Sems \cup Onces)

ASSUME KindsAssumption ==
  /\ Mutexes \cap (RwLocks \cup Sems \cup Onces) = {}
  /\ RwLocks \cap (Sems \cup Onces) = {} /\ Sems \cap Onces = {}

On(objects, ops) ==
  [op : ops, obj : objects, cond : Conds, timed : BOOLEAN, all : BOOLEAN]

Call == On(Mutexes, {"lock", "timedlock", "trylock", "unlock", "await", "set"})
        \cup On(RwLocks, {"rdlock", "wrlock", "rwunlock"})
        \cup On(Sems, {"semwait", "sempost"}) \cup On(Onces, {"once"})
        \cup On(Words, {"futexwait", "store"})

ASSUME ScenariosAssumption ==
  \A s \in Scenarios : s.calls \in [Threads -> Seq(Call)] /\ s.stops \in BOOLEAN

\* A condition is waited on and signalled under one mutex.
ASSUME CondsAssumption ==
  \A s \in Scenarios : \A t, u \in Threads :
    \A i \in DOMAIN s.calls[t], j \in DOMAIN s.calls[u] :
      LET a == s.calls[t][i]  b == s.calls[u][j] IN
      {a.op, b.op} \subseteq {"await", "set"} /\ a.cond = b.cond => a.obj = b.obj

NewThread(t) ==
  [at |-> "idle", pc |-> 0, obj |-> NoObject, cond |-> CHOOSE c \in Conds : TRUE,
   saw |-> 0, then |-> "idle", res |-> "Woken", back |-> "idle", ret |-> "idle",
   timed |-> FALSE, forever |-> FALSE, signalled |-> FALSE, blocked |-> FALSE, answer |-> "0"]

Init ==
  /\ scenario \in Scenarios
  /\ th = [t \in Threads |-> NewThread(t)]
  /\ word = [o \in Objects |-> 0]
  /\ queue = [o \in Objects |-> <<>>]
  /\ stage = "up" /\ sweep = [shard |-> 0, wake |-> {}]
  /\ owners = [m \in Mutexes |-> NoThread]
  /\ holds = [t \in Threads |-> [m \in Mutexes |-> 0]]
  /\ waiting = [c \in Conds |-> <<>>] /\ marked = {}
  /\ notify = [x \in Notifiers |-> {}] /\ conds_stopping = FALSE
  /\ writers = [o \in RwLocks |-> 0]
  /\ rwholds = [t \in Threads |-> [o \in RwLocks |-> "none"]]
  /\ completed = [o \in Onces |-> 0]
  /\ items = [c \in Conds |-> 0]

-----------------------------------------------------------------------------
(* The guest.                                                              *)

Rest(t) == Len(scenario.calls[t]) - th[t].pc

\* A release of what an earlier call did not give is not made, nor a second lock
\* of a rwlock that is held.
Held(t, call) ==
  /\ call.op = "unlock" => holds[t][call.obj] > 0
  /\ call.op = "rwunlock" => rwholds[t][call.obj] # "none"
  /\ call.op \in {"rdlock", "wrlock"} => rwholds[t][call.obj] = "none"

\* A call's first step, and where it comes back.
First(op) == CASE op \in {"await", "set", "timedlock"} -> "lock"
               [] op = "futexwait" -> "futex"
               [] OTHER -> op
Last(op)  == CASE op = "await" -> "await_locked"
               [] op = "set"   -> "set_locked"
               [] OTHER        -> "idle"

Started(r, call) ==
  [r EXCEPT !.at = First(call.op), !.back = Last(call.op), !.ret = "await_woke",
            !.obj = call.obj, !.cond = call.cond, !.answer = "0",
            !.timed = (call.op = "timedlock"), !.forever = (call.op = "futexwait")]

\* The next call of t's program, made or left out.
Begin(t) ==
  /\ th[t].at = "idle" /\ Rest(t) > 0
  /\ LET call == scenario.calls[t][th[t].pc + 1]
         next == [th[t] EXCEPT !.pc = @ + 1] IN
     th' = [th EXCEPT ![t] = IF Held(t, call) THEN Started(next, call) ELSE next]
  /\ UNCHANGED <<futexVars, notSem>>

\* The call under way in t's program.
Now(t) == scenario.calls[t][th[t].pc]

\* The predicate loop: an item taken, or the condition waited on; a timed wait
\* that timed out gives up.
Await(t) ==
  /\ th[t].at \in {"await_locked", "await_woke"}
  /\ LET c == th[t].cond IN
     IF items[c] > 0
     THEN /\ items' = [items EXCEPT ![c] = @ - 1]
          /\ th' = [th EXCEPT ![t].at = "unlock", ![t].back = "idle"]
     ELSE /\ UNCHANGED items
          /\ th' = [th EXCEPT ![t] =
               IF @.at = "await_woke" /\ @.answer = "ETIMEDOUT"
               THEN [@ EXCEPT !.at = "unlock", !.back = "idle"]
               ELSE [@ EXCEPT !.at = "wait", !.timed = Now(t).timed]]
  /\ UNCHANGED <<futexVars, mutexVars, condVars, rwVars, completed, scenario>>

\* An item put, then the condition signalled, then the mutex released.
Put(t) ==
  /\ th[t].at = "set_locked"
  /\ items' = [items EXCEPT ![th[t].cond] = IF Now(t).all THEN Everyone ELSE @ + 1]
  /\ th' = [th EXCEPT ![t].at = IF Now(t).all THEN "broadcast" ELSE "signal",
                      ![t].back = "set_done"]
  /\ UNCHANGED <<futexVars, mutexVars, condVars, rwVars, completed, scenario>>

PutDone(t) ==
  /\ th[t].at = "set_done"
  /\ th' = [th EXCEPT ![t].at = "unlock", ![t].back = "idle"]
  /\ UNCHANGED <<futexVars, notSem>>

\* A word of the guest's own, stored to, and its sleepers woken (the futex call).
Store(t) ==
  /\ th[t].at = "store"
  /\ word' = [word EXCEPT ![th[t].obj] = 1]
  /\ At(t, "store_wake")
  /\ UNCHANGED <<queue, stage, sweep, notSem>>

StoreWake(t) ==
  /\ th[t].at = "store_wake"
  /\ WakeAnd(th[t].obj, Everyone, t, Back(th[t], "0"))
  /\ UNCHANGED <<word, stage, sweep, notSem>>

\* Every thread's guest code is run in windows, the switch read between them.
GuestHalt(t) ==
  /\ th[t].at \in GuestSteps
  /\ threads_stopping
  /\ At(t, "stopped")
  /\ UNCHANGED <<futexVars, notSem>>

-----------------------------------------------------------------------------

Thread(t) ==
  \/ (FutexEnter(t) \/ FutexPark(t) \/ FutexTimeout(t)) /\ UNCHANGED notSem
  \/ MutexStep(t) /\ UNCHANGED notMutex
  \/ CondStep(t) /\ UNCHANGED notCond
  \/ RwStep(t) /\ UNCHANGED notRw
  \/ SemStep(t) /\ UNCHANGED notSem
  \/ OnceStep(t) /\ UNCHANGED notOnce
  \/ Begin(t) \/ Await(t) \/ Put(t) \/ PutDone(t) \/ Store(t) \/ StoreWake(t) \/ GuestHalt(t)

Stopping ==
  \/ StopFlag /\ UNCHANGED notSem
  \/ StopLook /\ UNCHANGED notSem
  \/ (\E o \in Objects : StopWake(o)) /\ UNCHANGED notSem
  \/ StopSwept /\ UNCHANGED notSem
  \/ CondStopFlag /\ UNCHANGED notCond
  \/ CondStopAll /\ UNCHANGED notCond
  \/ CondNotify(Shutdown) /\ UNCHANGED notCond

\* Somebody stops the instance's guest threads.
Stop ==
  /\ scenario.stops
  /\ StopThreads
  /\ UNCHANGED notSem

Next == (\E t \in Threads : Thread(t)) \/ Stopping \/ Stop

Spec == Init /\ [][Next]_vars

\* Each host thread is scheduled, its timers fire, and a shutdown goes on; and
\* guest code that runs again and again comes to the end of a run window.
FairSpec == Spec /\ WF_vars(Stopping)
                 /\ \A t \in Threads : WF_vars(Thread(t)) /\ SF_vars(GuestHalt(t))
=============================================================================

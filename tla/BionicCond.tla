----------------------------- MODULE BionicCond -----------------------------
(***************************************************************************)
(* `pthread_cond`: the host's registry of waiters.  A waiter registers     *)
(* before its mutex is released, sleeps on an entry of its own until the   *)
(* entry is marked, leaves the registry and takes the mutex again.  A      *)
(* signal takes entries off the registry and marks them in one section,    *)
(* and then notifies each.                                                 *)
(***************************************************************************)
EXTENDS BionicMutex

CONSTANTS Conds        \* the condition variables

VARIABLES waiting,     \* waiting[c]: the threads registered, oldest first
          marked,      \* the threads whose entry is marked
          notify,      \* notify[x]: whom x has marked and not notified yet
          conds_stopping

condVars == <<waiting, marked, notify, conds_stopping>>

CONSTANT Shutdown      \* who stops the instance: a notifier that is no thread

ASSUME ShutdownAssumption == Shutdown \notin Threads

Notifiers == Threads \cup {Shutdown}

-----------------------------------------------------------------------------
(* wait_begin.                                                             *)

\* The entry is queued, and the mutex released by an ordinary unlock.
CondRegister(t) ==
  /\ th[t].at = "wait"
  /\ waiting' = [waiting EXCEPT ![th[t].cond] = Append(@, t)]
  /\ marked' = marked \ {t}
  /\ th' = [th EXCEPT ![t].at = "unlock", ![t].back = "cond_loop"]
  /\ UNCHANGED <<futexVars, mutexVars, notify, conds_stopping>>

-----------------------------------------------------------------------------
(* wait_end.                                                               *)

\* Under the entry's lock: marked, or stopped, or past the deadline; else asleep.
CondLoop(t) ==
  /\ th[t].at = "cond_loop"
  /\ \/ /\ t \in marked \/ conds_stopping
        /\ th' = [th EXCEPT ![t].at = "cond_leave", ![t].signalled = TRUE]
     \/ /\ t \notin marked /\ ~conds_stopping
        /\ \/ At(t, "cond_asleep")
           \/ /\ th[t].timed
              /\ th' = [th EXCEPT ![t].at = "cond_leave", ![t].signalled = FALSE]
  /\ UNCHANGED <<futexVars, mutexVars, condVars>>

\* The deadline, or a slice of it, is over.
CondTimer(t) ==
  /\ th[t].at = "cond_asleep" /\ th[t].timed
  /\ At(t, "cond_loop")
  /\ UNCHANGED <<futexVars, mutexVars, condVars>>

\* The entry is taken off, marked or not, and the mutex locked again.
CondLeave(t) ==
  /\ th[t].at = "cond_leave"
  /\ waiting' = [waiting EXCEPT ![th[t].cond] =
                   IF \E i \in DOMAIN @ : @[i] = t THEN Without(@, t) ELSE @]
  /\ th' = [th EXCEPT ![t].at = "lock", ![t].back = "cond_return", ![t].timed = FALSE]
  /\ UNCHANGED <<futexVars, mutexVars, marked, notify, conds_stopping>>

CondReturn(t) ==
  /\ th[t].at = "cond_return"
  /\ th' = [th EXCEPT ![t].at = th[t].ret, ![t].signalled = FALSE,
                      ![t].answer = IF th[t].signalled THEN "0" ELSE "ETIMEDOUT"]
  /\ UNCHANGED <<futexVars, mutexVars, condVars>>

-----------------------------------------------------------------------------
(* signal, broadcast.                                                      *)

\* (Variant: only sleeping waiters, as a futex would wake them.)
CondMarkAsleep(t, n) ==
  LET c == th[t].cond
      taken == {u \in {waiting[c][i] : i \in {j \in DOMAIN waiting[c] : j <= n}} :
                  th[u].at = "cond_asleep"} IN
  /\ marked' = marked \cup taken
  /\ waiting' = [waiting EXCEPT ![c] = SelectSeq(@, LAMBDA u : u \notin taken)]
  /\ notify' = [notify EXCEPT ![t] = taken]
  /\ At(t, "notify")
  /\ UNCHANGED <<futexVars, mutexVars, conds_stopping>>

\* The oldest n entries marked, and taken off, under the registry's lock.
CondMark(t, n) ==
  LET c == th[t].cond
      taken == {waiting[c][i] : i \in {j \in DOMAIN waiting[c] : j <= n}} IN
  /\ marked' = marked \cup taken
  /\ waiting' = [waiting EXCEPT ![c] = SubSeq(@, n + 1, Len(@))]
  /\ notify' = [notify EXCEPT ![t] = taken]
  /\ At(t, "notify")
  /\ UNCHANGED <<futexVars, mutexVars, conds_stopping>>

CondSignal(t)    == th[t].at = "signal" /\ CondMark(t, 1)
CondBroadcast(t) == th[t].at = "broadcast" /\ CondMark(t, Everyone)

\* Each marked entry notified, under its own lock.
CondNotify(x) ==
  /\ \E u \in notify[x] :
       /\ notify' = [notify EXCEPT ![x] = @ \ {u}]
       /\ IF th[u].at = "cond_asleep" THEN At(u, "cond_loop") ELSE UNCHANGED th
  /\ UNCHANGED <<futexVars, mutexVars, waiting, marked, conds_stopping>>

CondSignalled(t) ==
  /\ th[t].at = "notify" /\ notify[t] = {}
  /\ Answer(t, "0")
  /\ UNCHANGED <<futexVars, mutexVars, condVars>>

CondStep(t) ==
  \/ CondRegister(t) \/ CondLoop(t) \/ CondTimer(t) \/ CondLeave(t) \/ CondReturn(t)
  \/ CondSignal(t) \/ CondBroadcast(t) \/ CondNotify(t) \/ CondSignalled(t)

-----------------------------------------------------------------------------
(* The shutdown's part: the flag, then every entry of every condition.     *)

CondStopFlag ==
  /\ stage = "swept"
  /\ stage' = "conds"
  /\ conds_stopping' = TRUE
  /\ UNCHANGED <<th, word, queue, sweep, mutexVars, waiting, marked, notify>>

CondStopAll ==
  /\ stage = "conds"
  /\ stage' = "down"
  /\ LET all == UNION {{waiting[c][i] : i \in DOMAIN waiting[c]} : c \in Conds} IN
     /\ marked' = marked \cup all
     /\ notify' = [notify EXCEPT ![Shutdown] = all]
  /\ waiting' = [c \in Conds |-> <<>>]
  /\ UNCHANGED <<th, word, queue, sweep, mutexVars, conds_stopping>>
=============================================================================

-------------------------- MODULE BionicProperties --------------------------
(***************************************************************************)
(* What guest threads may rely on.                                         *)
(***************************************************************************)
EXTENDS Bionic

-----------------------------------------------------------------------------
(* Mutexes.                                                                *)

\* Two guest threads never hold one mutex (lock, trylock, the relock of a wait),
\* nor a reader or a writer a lock another writes (rdlock, wrlock).
Exclusive ==
  /\ \A m \in Mutexes : \A t \in Threads : \A u \in Threads \ {t} :
       ~(holds[t][m] > 0 /\ holds[u][m] > 0)
  /\ \A o \in RwLocks : \A t \in Threads : \A u \in Threads \ {t} :
       ~(rwholds[t][o] = "write" /\ rwholds[u][o] # "none")

\* The holder of a mutex that checks is in the owner table, so its unlock is
\* never answered EPERM and its second lock never waits for itself: the table
\* is cleared before the free word can be taken (unlock, mutex.rs).  And a wait
\* that came back to the guest came back as the holder, on every way out of it,
\* a deadline or a shutdown too (wait_end).
OwnersTrue ==
  /\ \A m \in Mutexes : \A t \in Threads : holds[t][m] > 0 /\ Checked(m) => owners[m] = t
  /\ \A t \in Threads : th[t].at \in {"await_woke", "set_done"} => holds[t][th[t].obj] > 0

\* A thread about to wake a sleeper of the mutex m, or woken and about to look at
\* the word again; not one whose deadline ended its sleep.
Rescues(t, m) ==
  /\ th[t].obj = m
  /\ \/ th[t].at \in {"lock_cas", "contend", "unlock_wake"}
     \/ th[t].at = "contend_woke" /\ ~(th[t].res = "TimedOut" /\ th[t].timed)

\* No wake of a mutex is lost, whatever the timers do: with the word free and a
\* thread asleep, another is about to wake it, or to take the mutex and wake it
\* when it lets go.  And no wake of a finished routine (contend, unlock, once).
NoLostWake ==
  /\ \A m \in Mutexes : word[m] = Unlocked /\ queue[m] # <<>> =>
       \E t \in Threads : Rescues(t, m)
  /\ \A o \in Onces : word[o] = DONE /\ queue[o] # <<>> => \E t \in Threads :
       th[t].obj = o /\ th[t].at = "once_wake"

-----------------------------------------------------------------------------
(* Conditions.                                                             *)

Awaits(t, c) == /\ th[t].pc > 0 /\ Now(t).op = "await" /\ th[t].cond = c
                /\ th[t].at \notin {"idle", "stopped"}

Unmarked(c) == {waiting[c][i] : i \in DOMAIN waiting[c]} \ marked

\* Threads that will look at the predicate before they sleep.
Lookers(c) == {t \in Threads : Awaits(t, c) /\ t \notin Unmarked(c)}

\* No signal is lost: while an item is there that nobody is about to look for, no
\* waiter is left unmarked, unless the setter has yet to signal (wait_begin
\* registers before the mutex is released; wake marks under the registry's lock).
\* In a shutdown a thread may be halted between a mark and its look.
SignalKept ==
  threads_stopping \/ \A c \in Conds :
    \/ Unmarked(c) = {} \/ Cardinality(Lookers(c)) >= items[c]
    \/ \E t \in Threads : th[t].cond = c /\ th[t].at \in {"signal", "broadcast"}

-----------------------------------------------------------------------------
(* Routines.                                                               *)

\* A thread whose routine failed: it wakes the losers, and is over.
Failed(t, o) ==
  th[t].obj = o /\ th[t].answer = "failed" /\ th[t].at \in {"once_wake", "stopped"}

\* A once-call that came back, came back after the routine's end, and the routine
\* ran once, unless the one thread that ran it failed in it (once).
OnceOrdered ==
  \A t \in Threads : \A o \in Onces :
    th[t].pc > 0 /\ Now(t).op = "once" /\ th[t].obj = o /\ th[t].at = "idle" =>
      /\ completed[o] <= 1
      /\ completed[o] = 1 \/ \E u \in Threads : Failed(u, o)

-----------------------------------------------------------------------------
(* Liveness.                                                               *)

\* Every call comes back, if nobody stops the instance: what a program's threads
\* release, post and set is enough for each of them, so the programs end, but for a
\* thread whose routine failed.
CallsReturn ==
  \/ scenario.stops
  \/ <>(\A t \in Threads : \/ th[t].at = "idle" /\ Rest(t) = 0
                           \/ \E o \in Onces : Failed(t, o))

\* Every guest thread ends once the instance is stopped (stop_guest_threads,
\* join_guest_threads).
StopsEnd == stage # "up" ~> \A t \in Threads : th[t].at = "stopped"
=============================================================================

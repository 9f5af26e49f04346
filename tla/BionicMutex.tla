----------------------------- MODULE BionicMutex -----------------------------
(***************************************************************************)
(* `pthread_mutex`: a word (free, held, held with waiters; the hold count  *)
(* of a recursive one), a host table of owners, and the contention loop.   *)
(* Every type goes through one lock and one unlock; where the types differ *)
(* is a condition of the step.                                             *)
(***************************************************************************)
EXTENDS AddressFutex

CONSTANTS Mutexes,     \* the mutexes, some of the objects
          Type,        \* Type[m]: "NORMAL", "ERRORCHECK" or "RECURSIVE"
          NoThread,    \* no owner
          MaxHolds     \* the recursive limit (2^32 - 1 in the code)

ASSUME MutexAssumption ==
  /\ Mutexes \subseteq Objects
  /\ Type \in [Mutexes -> {"NORMAL", "ERRORCHECK", "RECURSIVE"}]
  /\ NoThread \notin Threads
  /\ MaxHolds \in Nat \ {0}

VARIABLES owners,   \* owners[m]: the host table's entry for m
          holds     \* holds[t][o]: what the guest thread holds, as its calls told it

mutexVars == <<owners, holds>>

Unlocked == 0
Locked == 1
LockedWithWaiters == 2

IsRecursive(m) == Type[m] = "RECURSIVE"
Checked(m) == Type[m] # "NORMAL"     \* the unlock asks the table who owns it

Take(t, m) == holds' = [holds EXCEPT ![t][m] = @ + 1]

-----------------------------------------------------------------------------
(* lock, trylock and timedlock, as far as the first read of the word.      *)

\* The owner of a recursive mutex locks it again.
LockAgain(t) ==
  /\ th[t].at \in {"lock", "trylock"}
  /\ LET m == th[t].obj IN
     /\ IsRecursive(m) /\ word[m] # Unlocked /\ owners[m] = t
     /\ IF word[m] = MaxHolds
        THEN /\ Answer(t, "EAGAIN")
             /\ UNCHANGED <<word, holds>>
        ELSE /\ word' = [word EXCEPT ![m] = @ + 1]
             /\ Take(t, m)
             /\ Answer(t, "0")
  /\ UNCHANGED <<queue, stage, sweep, owners>>

\* The owner of an error-checking mutex locks it again.
LockDeadlock(t) ==
  /\ th[t].at = "lock"
  /\ LET m == th[t].obj IN
     Type[m] = "ERRORCHECK" /\ word[m] # Unlocked /\ owners[m] = t
  /\ Answer(t, "EDEADLK")
  /\ UNCHANGED <<futexVars, mutexVars>>

\* Anyone else: a free word is tried for, a held one waited for.
LockLook(t) ==
  /\ th[t].at \in {"lock", "trylock"}
  /\ LET m == th[t].obj IN
     /\ ~(IsRecursive(m) /\ word[m] # Unlocked /\ owners[m] = t)
     /\ ~(th[t].at = "lock" /\ Type[m] = "ERRORCHECK" /\ word[m] # Unlocked /\ owners[m] = t)
     /\ CASE word[m] = Unlocked /\ th[t].at = "lock"    -> At(t, "lock_cas")
          [] word[m] = Unlocked /\ th[t].at = "trylock" -> At(t, "trylock_cas")
          [] th[t].at = "lock"                          -> At(t, "contend")
          [] OTHER                                      -> Answer(t, "EBUSY")
  /\ UNCHANGED <<futexVars, mutexVars>>

\* The exchange of a free word for a held one; a loser waits, or is told.
LockCas(t) ==
  /\ th[t].at \in {"lock_cas", "trylock_cas", "last_cas"}
  /\ LET m == th[t].obj IN
     IF word[m] = Unlocked
     THEN /\ word' = [word EXCEPT ![m] = Locked]
          /\ At(t, "own")
     ELSE /\ CASE th[t].at = "lock_cas"    -> At(t, "contend")
               [] th[t].at = "trylock_cas" -> Answer(t, "EBUSY")
               [] th[t].at = "last_cas"    -> Answer(t, "ETIMEDOUT")
          /\ UNCHANGED word
  /\ UNCHANGED <<queue, stage, sweep, mutexVars>>

\* The winner enters itself in the table, and its call answers.
LockOwn(t) ==
  /\ th[t].at = "own"
  /\ LET m == th[t].obj IN
     /\ owners' = [owners EXCEPT ![m] = t]
     /\ Take(t, m)
  /\ Answer(t, "0")
  /\ UNCHANGED futexVars

-----------------------------------------------------------------------------
(* The contention loop.                                                    *)

\* The word read: free, held and to be marked, or held and slept on.
Contend(t) ==
  /\ th[t].at = "contend"
  /\ LET m == th[t].obj IN
     th' = [th EXCEPT ![t].saw = word[m],
                      ![t].at = CASE word[m] = Unlocked -> "lock_cas"
                                  [] word[m] = Locked /\ ~IsRecursive(m) -> "mark"
                                  [] OTHER -> "ready"]
  /\ UNCHANGED <<futexVars, mutexVars>>

\* Waiters marked by an exchange: a word that moved is read again.
ContendMark(t) ==
  /\ th[t].at = "mark"
  /\ LET m == th[t].obj IN
     IF word[m] = Locked
     THEN /\ word' = [word EXCEPT ![m] = LockedWithWaiters]
          /\ th' = [th EXCEPT ![t].saw = LockedWithWaiters, ![t].at = "ready"]
     ELSE /\ At(t, "contend")
          /\ UNCHANGED word
  /\ UNCHANGED <<queue, stage, sweep, mutexVars>>

\* The deadline may have passed; a stopped futex ends the wait, whose handler
\* refuses and ends the thread; else the sleep.
ContendReady(t) ==
  /\ th[t].at = "ready"
  /\ \/ th[t].timed /\ Answer(t, "ETIMEDOUT")
     \/ stopped /\ At(t, "stopped")
     \/ ~stopped /\ Wait(t, th[t].saw, "contend_woke")
  /\ UNCHANGED <<futexVars, mutexVars>>

\* After the sleep: the loop again, or, its deadline passed, one last look.
ContendWoke(t) ==
  /\ th[t].at = "contend_woke"
  /\ LET m == th[t].obj IN
     IF th[t].res = "TimedOut" /\ th[t].timed
     THEN IF word[m] = Unlocked THEN At(t, "last_cas") ELSE Answer(t, "ETIMEDOUT")
     ELSE th' = [th EXCEPT ![t].at = "contend", ![t].res = "Woken"]
  /\ UNCHANGED <<futexVars, mutexVars>>

-----------------------------------------------------------------------------
(* unlock.                                                                 *)

\* What is not held, or not by t as far as the table knows, is refused; a
\* recursive hold short of the last is counted down.
Unlock(t) ==
  /\ th[t].at = "unlock"
  /\ LET m == th[t].obj IN
     IF word[m] = Unlocked \/ (Checked(m) /\ owners[m] # t)
     THEN /\ Answer(t, "EPERM")
          /\ UNCHANGED <<word, holds>>
     ELSE /\ holds' = [holds EXCEPT ![t][m] = @ - 1]
          /\ IF IsRecursive(m) /\ word[m] > 1
             THEN /\ word' = [word EXCEPT ![m] = @ - 1]
                  /\ Answer(t, "0")
             ELSE /\ At(t, "clear")
                  /\ UNCHANGED word
  /\ UNCHANGED <<queue, stage, sweep, owners>>

\* The owner is cleared before the free word is published.
UnlockClear(t) ==
  /\ th[t].at = "clear"
  /\ owners' = [owners EXCEPT ![th[t].obj] = NoThread]
  /\ At(t, "publish")
  /\ UNCHANGED <<futexVars, holds>>

\* (Variant: no wake unless the word says there are waiters.)
UnlockPublishMarked(t) ==
  /\ th[t].at = "publish"
  /\ word' = [word EXCEPT ![th[t].obj] = Unlocked]
  /\ IF word[th[t].obj] = LockedWithWaiters THEN At(t, "unlock_wake") ELSE Answer(t, "0")
  /\ UNCHANGED <<queue, stage, sweep, mutexVars>>

UnlockPublish(t) ==
  /\ th[t].at = "publish"
  /\ word' = [word EXCEPT ![th[t].obj] = Unlocked]
  /\ At(t, "unlock_wake")
  /\ UNCHANGED <<queue, stage, sweep, mutexVars>>

\* (Variant: the owner cleared last.)
UnlockWakeClears(t) ==
  /\ th[t].at = "unlock_wake"
  /\ WakeAnd(th[t].obj, 1, t, Back(th[t], "0"))
  /\ owners' = [owners EXCEPT ![th[t].obj] = NoThread]
  /\ UNCHANGED <<word, stage, sweep, holds>>

\* One waiter is woken, marked or not.
UnlockWake(t) ==
  /\ th[t].at = "unlock_wake"
  /\ WakeAnd(th[t].obj, 1, t, Back(th[t], "0"))
  /\ UNCHANGED <<word, stage, sweep, mutexVars>>

MutexStep(t) ==
  \/ LockAgain(t) \/ LockDeadlock(t) \/ LockLook(t) \/ LockCas(t) \/ LockOwn(t)
  \/ Contend(t) \/ ContendMark(t) \/ ContendReady(t) \/ ContendWoke(t)
  \/ Unlock(t) \/ UnlockClear(t) \/ UnlockPublish(t) \/ UnlockWake(t)
=============================================================================

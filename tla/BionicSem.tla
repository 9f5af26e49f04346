------------------------------ MODULE BionicSem ------------------------------
(***************************************************************************)
(* `sem_*`: one word, the tokens with a flag above them that says a waiter *)
(* may be asleep.                                                          *)
(***************************************************************************)
EXTENDS AddressFutex

CONSTANTS Sems,          \* the semaphores, some of the objects
          VALUE_MASK     \* the most tokens (2^31 - 1 in the code)

ASSUME SemAssumption == Sems \subseteq Objects /\ VALUE_MASK \in Nat \ {0}

WAITERS == VALUE_MASK + 1

Value(w)   == w % WAITERS
Flagged(w) == w >= WAITERS
WithFlag(w) == IF Flagged(w) THEN w ELSE w + WAITERS

\* The exchange of the word t read for another: done, or not, t goes on.
Cas(t, to, done, lost) ==
  IF word[th[t].obj] = th[t].saw
  THEN /\ word' = [word EXCEPT ![th[t].obj] = to]
       /\ th' = [th EXCEPT ![t] = done]
  ELSE /\ th' = [th EXCEPT ![t] = lost]
       /\ UNCHANGED word

Step(t, step) == [th[t] EXCEPT !.at = step]

-----------------------------------------------------------------------------
(* wait.                                                                   *)

SemRead(t) ==
  /\ th[t].at = "semwait"
  /\ LET w == word[th[t].obj] IN
     th' = [th EXCEPT ![t].saw = w,
                      ![t].at = CASE Value(w) > 0 -> "sem_take"
                                  [] Value(w) = 0 /\ ~Flagged(w) -> "sem_flag"
                                  [] OTHER -> "sem_ready"]
  /\ UNCHANGED futexVars

\* A token taken, the flag kept.
SemTake(t) ==
  /\ th[t].at = "sem_take"
  /\ Cas(t, th[t].saw - 1, Back(th[t], "0"), Step(t, "semwait"))
  /\ UNCHANGED <<queue, stage, sweep>>

\* The flag set, if the word has not moved.
SemFlag(t) ==
  /\ th[t].at = "sem_flag"
  /\ LET ready == [th[t] EXCEPT !.at = "sem_ready", !.saw = WithFlag(@)] IN
     Cas(t, WithFlag(th[t].saw), ready, ready)
  /\ UNCHANGED <<queue, stage, sweep>>

\* No token: a stopped futex ends the call, else the sleep on a flagged zero.
SemReady(t) ==
  /\ th[t].at = "sem_ready"
  /\ IF stopped THEN Answer(t, "EINTR") ELSE Wait(t, th[t].saw, "semwait")
  /\ UNCHANGED futexVars

-----------------------------------------------------------------------------
(* post.                                                                   *)

PostRead(t) ==
  /\ th[t].at = "sempost"
  /\ LET w == word[th[t].obj] IN
     IF Value(w) = VALUE_MASK
     THEN Answer(t, "EINVAL")
     ELSE th' = [th EXCEPT ![t].saw = w, ![t].at = "post_cas"]
  /\ UNCHANGED futexVars

\* One token more, and somebody to wake if the flag was there.
PostCas(t) ==
  /\ th[t].at = "post_cas"
  /\ Cas(t, th[t].saw + 1,
         IF Flagged(th[t].saw) THEN Step(t, "post_wake") ELSE Back(th[t], "0"),
         Step(t, "sempost"))
  /\ UNCHANGED <<queue, stage, sweep>>

\* One waiter woken; none there, the flag is to go.
PostWake(t) ==
  /\ th[t].at = "post_wake"
  /\ WakeAnd(th[t].obj, 1, t,
             IF queue[th[t].obj] = <<>> THEN Step(t, "post_clear") ELSE Back(th[t], "0"))
  /\ UNCHANGED <<word, stage, sweep>>

PostClear(t) ==
  /\ th[t].at = "post_clear"
  /\ word' = [word EXCEPT ![th[t].obj] = Value(@)]
  /\ Answer(t, "0")
  /\ UNCHANGED <<queue, stage, sweep>>

SemStep(t) ==
  \/ SemRead(t) \/ SemTake(t) \/ SemFlag(t) \/ SemReady(t)
  \/ PostRead(t) \/ PostCas(t) \/ PostWake(t) \/ PostClear(t)
=============================================================================

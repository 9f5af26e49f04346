----------------------------- MODULE BionicOnce -----------------------------
(***************************************************************************)
(* `pthread_once`: the word (never run, in progress, done), the routine,   *)
(* which is guest code and may fail, and the losers' wait.                 *)
(***************************************************************************)
EXTENDS AddressFutex

CONSTANTS Onces,       \* the control words, some of the objects
          RoutineFails \* whether a routine may fail: a set of BOOLEANs

ASSUME OnceAssumption == Onces \subseteq Objects /\ RoutineFails \subseteq BOOLEAN

VARIABLES completed    \* completed[o]: how often the routine has run to its end

NEVER == 0
IN_PROGRESS == 1
DONE == 2

OnceRead(t) ==
  /\ th[t].at = "once"
  /\ LET current == word[th[t].obj] IN
     \/ current = DONE        /\ Answer(t, "0")
     \/ current = IN_PROGRESS /\ At(t, "once_wait")
     \/ current = NEVER       /\ At(t, "once_cas")
  /\ UNCHANGED <<futexVars, completed>>

\* (Variant: a plain write in place of the exchange.)
OnceCasPlain(t) ==
  /\ th[t].at = "once_cas"
  /\ word' = [word EXCEPT ![th[t].obj] = IN_PROGRESS]
  /\ At(t, "once_run")
  /\ UNCHANGED <<queue, stage, sweep, completed>>

\* The race, won by one exchange.
OnceCas(t) ==
  /\ th[t].at = "once_cas"
  /\ IF word[th[t].obj] = NEVER
     THEN /\ word' = [word EXCEPT ![th[t].obj] = IN_PROGRESS]
          /\ At(t, "once_run")
     ELSE /\ At(t, "once")
          /\ UNCHANGED word
  /\ UNCHANGED <<queue, stage, sweep, completed>>

\* The routine comes to its end, or fails: the word is DONE either way.
OnceRun(t) ==
  /\ th[t].at = "once_run"
  /\ \E fails \in RoutineFails :
       /\ completed' = IF fails THEN completed ELSE [completed EXCEPT ![th[t].obj] = @ + 1]
       /\ th' = [th EXCEPT ![t].at = "once_done", ![t].answer = IF fails THEN "failed" ELSE "0"]
  /\ UNCHANGED futexVars

OnceDone(t) ==
  /\ th[t].at = "once_done"
  /\ word' = [word EXCEPT ![th[t].obj] = DONE]
  /\ At(t, "once_wake")
  /\ UNCHANGED <<queue, stage, sweep, completed>>

\* Every loser woken; the failure of a routine ends the thread that ran it.
OnceWake(t) ==
  /\ th[t].at = "once_wake"
  /\ WakeAnd(th[t].obj, Everyone, t,
             IF th[t].answer = "failed" THEN [th[t] EXCEPT !.at = "stopped"] ELSE Back(th[t], "0"))
  /\ UNCHANGED <<word, stage, sweep, completed>>

\* A loser sleeps while the word says it is in progress ...
OnceWait(t) ==
  /\ th[t].at = "once_wait"
  /\ Wait(t, IN_PROGRESS, "once_woke")
  /\ UNCHANGED <<futexVars, completed>>

\* ... and looks again.
OnceWoke(t) ==
  /\ th[t].at = "once_woke"
  /\ IF word[th[t].obj] = DONE THEN Answer(t, "0") ELSE At(t, "once_wait")
  /\ UNCHANGED <<futexVars, completed>>

OnceStep(t) ==
  \/ OnceRead(t) \/ OnceCas(t) \/ OnceRun(t) \/ OnceDone(t) \/ OnceWake(t)
  \/ OnceWait(t) \/ OnceWoke(t)
=============================================================================

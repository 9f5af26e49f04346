---------------------------- MODULE BionicRwLock ----------------------------
(***************************************************************************)
(* `pthread_rwlock`: a word (free, the readers' count, or the writer's     *)
(* sentinel), a second word for the writers that wait, and the two loops.  *)
(***************************************************************************)
EXTENDS AddressFutex

CONSTANTS RwLocks      \* the locks, some of the objects

ASSUME RwAssumption == RwLocks \subseteq Objects

VARIABLES writers,     \* writers[o]: the second word
          rwholds      \* rwholds[t][o]: what the guest thread holds, as its calls told it

rwVars == <<writers, rwholds>>

FREE == 0
WRITER == Everyone + 1      \* the sentinel, past any count of readers

Hold(t, kind) == rwholds' = [rwholds EXCEPT ![t][th[t].obj] = kind]

-----------------------------------------------------------------------------
(* rdlock: reader_loop.                                                    *)

\* The second word is read first ...
ReadWriters(t) ==
  /\ th[t].at = "rdlock"
  /\ th' = [th EXCEPT ![t].at = "rd_state", ![t].blocked = writers[th[t].obj] > 0]
  /\ UNCHANGED <<futexVars, rwVars>>

\* ... then the state: with no writer in either, the count is tried.
ReadState(t) ==
  /\ th[t].at = "rd_state"
  /\ LET state == word[th[t].obj] IN
     th' = [th EXCEPT ![t].saw = state,
                      ![t].at = IF state # WRITER /\ ~th[t].blocked THEN "rd_acquire" ELSE "rd_wait"]
  /\ UNCHANGED <<futexVars, rwVars>>

\* (Variant: the check before it trusted.)
ReaderAcquireAnyway(t) ==
  /\ th[t].at = "rd_acquire"
  /\ word' = [word EXCEPT ![th[t].obj] = @ + 1]
  /\ Hold(t, "read")
  /\ Answer(t, "0")
  /\ UNCHANGED <<queue, stage, sweep, writers>>

\* One more reader, unless a writer came between.
ReaderAcquire(t) ==
  /\ th[t].at = "rd_acquire"
  /\ IF word[th[t].obj] = WRITER
     THEN /\ At(t, "rd_wait")
          /\ UNCHANGED <<word, rwholds>>
     ELSE /\ word' = [word EXCEPT ![th[t].obj] = @ + 1]
          /\ Hold(t, "read")
          /\ Answer(t, "0")
  /\ UNCHANGED <<queue, stage, sweep, writers>>

\* The sleep, on the state that was read: whatever ends it, the loop goes on.
ReaderWait(t) ==
  /\ th[t].at = "rd_wait"
  /\ Wait(t, th[t].saw, "rdlock")
  /\ UNCHANGED <<futexVars, rwVars>>

-----------------------------------------------------------------------------
(* wrlock: writer_loop.                                                    *)

WriterRegister(t) ==
  /\ th[t].at = "wrlock"
  /\ writers' = [writers EXCEPT ![th[t].obj] = @ + 1]
  /\ At(t, "wr_state")
  /\ UNCHANGED <<futexVars, rwholds>>

WriterState(t) ==
  /\ th[t].at = "wr_state"
  /\ LET state == word[th[t].obj] IN
     th' = [th EXCEPT ![t].saw = state, ![t].at = IF state = FREE THEN "wr_cas" ELSE "wr_wait"]
  /\ UNCHANGED <<futexVars, rwVars>>

WriterCas(t) ==
  /\ th[t].at = "wr_cas"
  /\ IF word[th[t].obj] = FREE
     THEN /\ word' = [word EXCEPT ![th[t].obj] = WRITER]
          /\ At(t, "wr_leave")
     ELSE /\ At(t, "wr_wait")
          /\ UNCHANGED word
  /\ UNCHANGED <<queue, stage, sweep, rwVars>>

WriterWait(t) ==
  /\ th[t].at = "wr_wait"
  /\ Wait(t, th[t].saw, "wr_state")
  /\ UNCHANGED <<futexVars, rwVars>>

\* (Variant: never counted down.)
WriterLeaveCounted(t) ==
  /\ th[t].at = "wr_leave"
  /\ Hold(t, "write")
  /\ Answer(t, "0")
  /\ UNCHANGED <<futexVars, writers>>

\* The count of waiting writers: set to nothing, whoever else waits.
WriterLeave(t) ==
  /\ th[t].at = "wr_leave"
  /\ writers' = [writers EXCEPT ![th[t].obj] = 0]
  /\ Hold(t, "write")
  /\ Answer(t, "0")
  /\ UNCHANGED futexVars

-----------------------------------------------------------------------------
(* unlock.                                                                 *)

RwUnlock(t) ==
  /\ th[t].at = "rwunlock"
  /\ LET o == th[t].obj
         left == IF word[o] = WRITER THEN FREE ELSE word[o] - 1 IN
     IF word[o] = FREE
     THEN /\ Answer(t, "EPERM")
          /\ UNCHANGED <<word, rwholds>>
     ELSE /\ word' = [word EXCEPT ![o] = left]
          /\ Hold(t, "none")
          /\ IF left = FREE THEN At(t, "rw_wake") ELSE Answer(t, "0")
  /\ UNCHANGED <<queue, stage, sweep, writers>>

\* The last hold gone, everyone is woken.
RwWake(t) ==
  /\ th[t].at = "rw_wake"
  /\ WakeAnd(th[t].obj, Everyone, t, Back(th[t], "0"))
  /\ UNCHANGED <<word, stage, sweep, rwVars>>

RwStep(t) ==
  \/ ReadWriters(t) \/ ReadState(t) \/ ReaderAcquire(t) \/ ReaderWait(t)
  \/ WriterRegister(t) \/ WriterState(t) \/ WriterCas(t) \/ WriterWait(t) \/ WriterLeave(t)
  \/ RwUnlock(t) \/ RwWake(t)
=============================================================================

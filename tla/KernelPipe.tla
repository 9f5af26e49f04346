----------------------------- MODULE KernelPipe -----------------------------
(***************************************************************************)
(* Pipes: a queue of bytes with room for CAPACITY, a read end and a write  *)
(* end, each an open file.  A wait looks again every 50 ms, and at its     *)
(* task's signals and the end of its process.                              *)
(***************************************************************************)
EXTENDS KernelTasks

CONSTANTS Pipes,
          ReadEnds, WriteEnds,   \* the open files that are ends
          pipe,                  \* pipe[f]: the pipe f is an end of
          CAPACITY

ASSUME PipeAssumption ==
  /\ ReadEnds \cup WriteEnds \subseteq OpenFiles /\ ReadEnds \cap WriteEnds = {}
  /\ pipe \in [ReadEnds \cup WriteEnds -> Pipes]
  /\ CAPACITY \in Nat \ {0}

VARIABLE bytes    \* bytes[i]: what is queued in pipe i, oldest first

Readers(i) == {f \in ReadEnds : pipe[f] = i /\ Live(f)}
Writers(i) == {f \in WriteEnds : pipe[f] = i /\ Live(f)}

\* (Variant: the writers asked for before the queue is looked at.)
PipeReadEnd(t) ==
  /\ th[t].at = "read"
  /\ LET i == pipe[File(t)]
         n == IF Len(bytes[i]) < Now(t).n THEN Len(bytes[i]) ELSE Now(t).n IN
     \/ /\ bytes[i] # <<>> /\ Writers(i) # {}
        /\ bytes' = [bytes EXCEPT ![i] = SubSeq(@, n + 1, Len(@))]
        /\ Return(t, "data")
     \/ /\ Writers(i) = {} \/ Interrupted(t) \/ ~Now(t).wait
        /\ UNCHANGED bytes
        /\ Return(t, IF Writers(i) = {} THEN "eof"
                     ELSE IF ~Now(t).wait THEN "EAGAIN" ELSE "EINTR")
  /\ UNCHANGED <<taskVars, program>>

\* What is there, or the end of file once no writer is left.
PipeRead(t) ==
  /\ th[t].at = "read"
  /\ LET i == pipe[File(t)]
         n == IF Len(bytes[i]) < Now(t).n THEN Len(bytes[i]) ELSE Now(t).n IN
     \/ /\ bytes[i] # <<>>
        /\ bytes' = [bytes EXCEPT ![i] = SubSeq(@, n + 1, Len(@))]
        /\ Return(t, "data")
     \/ /\ bytes[i] = <<>>
        /\ Writers(i) = {} \/ Interrupted(t) \/ ~Now(t).wait
        /\ UNCHANGED bytes
        /\ Return(t, IF Writers(i) = {} THEN "eof"
                     ELSE IF ~Now(t).wait THEN "EAGAIN" ELSE "EINTR")
  /\ UNCHANGED <<taskVars, program>>

\* (Variant: the wait asks for signals alone.)
PipeWriteSignals(t) ==
  /\ th[t].at = "write"
  /\ LET i == pipe[File(t)]
         room == CAPACITY - Len(bytes[i])
         n == IF room < th[t].left THEN room ELSE th[t].left
         left == th[t].left - n
         done == Now(t).n - left IN
     IF Readers(i) = {}
     THEN /\ Return(t, IF th[t].left < Now(t).n THEN "short" ELSE "EPIPE")
          /\ UNCHANGED bytes
     ELSE /\ bytes' = [bytes EXCEPT ![i] = @ \o [k \in 1 .. n |-> t]]
          /\ IF left = 0 THEN Return(t, "0")
             ELSE IF ~Now(t).wait THEN Return(t, IF done > 0 THEN "short" ELSE "EAGAIN")
             ELSE IF Deliverable(t) THEN Return(t, "EINTR")
             ELSE n > 0 /\ th' = [th EXCEPT ![t].left = left]
  /\ UNCHANGED <<taskVars, program>>

\* As much as there is room for goes in; the rest waits for room.  A wait that a
\* signal ends answers EINTR, whatever went in before it.
PipeWrite(t) ==
  /\ th[t].at = "write"
  /\ LET i == pipe[File(t)]
         room == CAPACITY - Len(bytes[i])
         n == IF room < th[t].left THEN room ELSE th[t].left
         left == th[t].left - n
         done == Now(t).n - left IN
     IF Readers(i) = {}
     THEN /\ Return(t, IF th[t].left < Now(t).n THEN "short" ELSE "EPIPE")
          /\ UNCHANGED bytes
     ELSE /\ bytes' = [bytes EXCEPT ![i] = @ \o [k \in 1 .. n |-> t]]
          /\ IF left = 0 THEN Return(t, "0")
             ELSE IF ~Now(t).wait THEN Return(t, IF done > 0 THEN "short" ELSE "EAGAIN")
             ELSE IF Interrupted(t) THEN Return(t, "EINTR")
             ELSE n > 0 /\ th' = [th EXCEPT ![t].left = left]
  /\ UNCHANGED <<taskVars, program>>

PipeStep(t) == PipeRead(t) \/ PipeWrite(t)
=============================================================================

-------------------------- MODULE KernelProperties --------------------------
(***************************************************************************)
(* What guest programs may rely on.                                        *)
(***************************************************************************)
EXTENDS Kernel

-----------------------------------------------------------------------------
(* Record locks.                                                           *)

\* No byte is locked by one holder against another, whatever is split, waited
\* for, downgraded or released (conflict, fcntl, flock).
NoConflict ==
  \A l, k \in locks :
    l.file = k.file /\ l.holder # k.holder /\ (l.write \/ k.write) => ~Overlap(l, k)

\* The table, read byte by byte, does what is promised of record locks: a lock is
\* taken in one piece or not at all, it replaces its holder's own over its range
\* alone, and what is released is all a holder has of a file (fcntl, closed,
\* released, process_ended).
LocksByBytes == ByBytes!Spec

-----------------------------------------------------------------------------
(* Pipes and futexes.                                                      *)

\* Who was told the end of file read all there was, and all there will be
\* (read; End's drop).
EofTrue ==
  \A t \in Tasks : Now(t).op = "read" /\ th[t].at = "guest" /\ th[t].answer = "eof" =>
    LET i == pipe[th[t].was] IN Writers(i) = {} /\ bytes[i] = <<>>

\* A wake that counted a waiter is that waiter's answer: never lost to a deadline,
\* a slice's end, a signal or the process's end that came after it (wait, wake).
WokenAnswers ==
  [][\A t \in Tasks : t \in woken /\ t \notin woken' /\ th[t].at = "parked" =>
       th'[t].at = "guest" /\ th'[t].answer = "0"]_vars

\* Every queue has each waiter once, of its own process, asleep and to be unparked: none
\* that was moved to another word and left (requeue, remove); and a priority-inheritance
\* lock that tasks wait for is owned and marked, so its owner's unlock wakes them
\* (lock_pi, unlock_pi).
QueuesTrue ==
  \A p \in Processes : \A o \in Words :
    /\ Cardinality(Waiting(p, o)) = Len(queue[p][o])
    /\ \A t \in Waiting(p, o) :
         /\ process[t] = p /\ t \in parked \ woken /\ th[t].at \in {"parked", "pi_parked"}
         /\ th[t].at = "pi_parked" => pi[o].owner # NoTask /\ pi[o].waiters

-----------------------------------------------------------------------------
(* Liveness.                                                               *)

Done(t) == th[t].at \in {"guest", "gone"} /\ program[t] = <<>> /\ ~Retries(t)

\* Every call comes back and every program ends, of the tasks whose process is not
\* ended; those of a process that is ended leave, however they wait, or are given up.
CallsReturn == \A t \in Tasks : <>(Done(t) \/ process[t] \in group_exit)

Told(p) == th[main[p]].at = "gone" /\ (parent[p] # NoProcess => children[p] # "running")

\* A process that is ending ends, whatever its tasks wait in, and its parent is told
\* (end_group, interrupt_all, run, ended).  Not so, in the code, where its main task waits
\* for a record lock, or is just halted for a signal: killed_waits and lost_halt.
EndsReported == \A p \in Processes : (p \in group_exit) ~> Told(p)
=============================================================================

---------------------------- MODULE KernelLocks ----------------------------
(***************************************************************************)
(* Record locks (fcntl) and whole-file locks (flock): one table, searched  *)
(* and changed under one lock.  A wait looks at the table again every 50   *)
(* ms, and at its task's signals.                                          *)
(***************************************************************************)
EXTENDS KernelTasks

CONSTANTS LockFiles,   \* the open files locks are taken through
          Inodes,      \* the files they are opens of
          inode,       \* inode[f]: the file f is an open of
          MaxByte      \* a bound of the bytes locked

ASSUME LocksAssumption ==
  /\ LockFiles \subseteq OpenFiles
  /\ inode \in [LockFiles -> Inodes]
  /\ MaxByte \in Nat

VARIABLE locks   \* the table: a set of locks

\* A classic lock is its process's, an OFD lock and a flock their open file's.
Holders == Processes \cup LockFiles

\* The two kinds of locks of one file do not meet.
Keys == Inodes \X {"fcntl", "flock"}

Lock == [file : Keys, via : LockFiles, holder : Holders,
         start : 0 .. MaxByte, end : 0 .. MaxByte + 1, write : BOOLEAN]

Overlap(l, k) == l.start < k.end /\ k.start < l.end

\* The locks other holders have that conflict with taking l.
Conflicts(l) ==
  {k \in locks : k.file = l.file /\ k.holder # l.holder /\ Overlap(k, l) /\ (l.write \/ k.write)}

\* The lock t's call names.
Asked(t) ==
  LET c == Now(t) IN
  [file |-> <<inode[File(t)], IF c.op = "flock" THEN "flock" ELSE "fcntl">>,
   via |-> File(t),
   holder |-> IF c.op = "flock" \/ c.ofd THEN File(t) ELSE process[t],
   start |-> IF c.op = "flock" THEN 0 ELSE c.start,
   end |-> IF c.op = "flock" THEN MaxByte + 1 ELSE c.end,
   write |-> c.kind = "write"]

\* (Variant: what is left of a lock behind the range is forgotten.)
GivenHead(l) ==
  LET own == {k \in locks : k.file = l.file /\ k.holder = l.holder /\ Overlap(k, l)} IN
  (locks \ own) \cup {[k EXCEPT !.end = l.start] : k \in {o \in own : o.start < l.start}}

\* The table with l's holder's own locks over l's range giving way, split around it.
Given(l) ==
  LET own == {k \in locks : k.file = l.file /\ k.holder = l.holder /\ Overlap(k, l)} IN
  (locks \ own) \cup {[k EXCEPT !.end = l.start] : k \in {o \in own : o.start < l.start}}
                \cup {[k EXCEPT !.start = l.end] : k \in {o \in own : l.end < o.end}}

\* A table without the locks of open files nothing holds any more.
Reaped(table, descriptors, tasks) ==
  {l \in table : l.holder \in OpenFiles => HeldBy(descriptors, tasks, l.holder)}

\* t's call answers: its file let go, and the table is what is left of it.
LockReturn(t, answer, table) ==
  /\ Return(t, answer)
  /\ locks' = Reaped(table, fds, th')

-----------------------------------------------------------------------------
(* The calls.                                                              *)

Waits(t) == Now(t).wait

\* F_SETLK, F_SETLKW and their OFD forms, from the first look at the table or a
\* later one.  A call that waits and has a signal answers EINTR.
SetLock(t) ==
  /\ th[t].at = "setlk"
  /\ LET l == Asked(t) IN
     \/ /\ Now(t).kind = "unlock"
        /\ LockReturn(t, "0", Given(l))
     \/ /\ Now(t).kind # "unlock" /\ Conflicts(l) = {}
        /\ LockReturn(t, "0", Given(l) \cup {l})
     \/ /\ Now(t).kind # "unlock" /\ Conflicts(l) # {}
        /\ IF Waits(t) THEN Deliverable(t) /\ LockReturn(t, "EINTR", locks)
                       ELSE LockReturn(t, "EAGAIN", locks)
  /\ UNCHANGED <<taskVars, program>>

\* F_GETLK: the conflict is told, and nothing changes; it is asked of a lock to
\* take, not of one to release.
GetLock(t) ==
  /\ th[t].at = "getlk"
  /\ LockReturn(t, IF Now(t).kind = "unlock" THEN "EINVAL"
                   ELSE IF Conflicts(Asked(t)) = {} THEN "0" ELSE "locked", locks)
  /\ UNCHANGED <<taskVars, program>>

\* What flock has once the open file's own lock is dropped.
Dropped(l) == {k \in locks : ~(k.file = l.file /\ k.holder = l.holder)}

\* (Variant: the conflicts looked for before the wait only.)
FlockOnce(t) ==
  /\ th[t].at \in {"flock", "flock_wait"}
  /\ LET l == Asked(t)
         rest == IF th[t].at = "flock" THEN Dropped(l) ELSE locks
         free == th[t].at = "flock_wait" \/ Conflicts(l) = {} IN
     IF Now(t).kind = "unlock" THEN LockReturn(t, "0", rest)
     ELSE IF free THEN LockReturn(t, "0", rest \cup {l})
     ELSE IF ~Waits(t) THEN LockReturn(t, "EAGAIN", rest)
     ELSE IF Deliverable(t) THEN LockReturn(t, "EINTR", rest)
     ELSE /\ th[t].at = "flock" /\ locks' = rest
          /\ At(t, "flock_wait")
  /\ UNCHANGED <<taskVars, program>>

\* flock: the open file's own lock goes first, then the wait for the others'.
Flock(t) ==
  /\ th[t].at \in {"flock", "flock_wait"}
  /\ LET l == Asked(t)
         rest == IF th[t].at = "flock" THEN Dropped(l) ELSE locks IN
     IF Now(t).kind = "unlock" THEN LockReturn(t, "0", rest)
     ELSE IF Conflicts(l) = {} THEN LockReturn(t, "0", rest \cup {l})
     ELSE IF ~Waits(t) THEN LockReturn(t, "EAGAIN", rest)
     ELSE IF Deliverable(t) THEN LockReturn(t, "EINTR", rest)
     ELSE /\ th[t].at = "flock" /\ locks' = rest
          /\ At(t, "flock_wait")
  /\ UNCHANGED <<taskVars, program>>

\* close: the descriptor goes, and then the process's classic locks on the file.
Close(t) ==
  /\ th[t].at = "close"
  /\ IF fds[process[t]][Now(t).fd] = NoFile
     THEN LockReturn(t, "EBADF", locks) /\ UNCHANGED fds
     ELSE /\ fds' = [fds EXCEPT ![process[t]][Now(t).fd] = NoFile]
          /\ At(t, "closed") /\ UNCHANGED locks
  /\ UNCHANGED <<pending, group_exit, interrupted, listed, halt, program>>

CloseLocks(t) ==
  /\ th[t].at = "closed"
  /\ LET gone == {l \in locks : /\ l.holder = process[t]
                                /\ File(t) \in LockFiles
                                /\ l.file = <<inode[File(t)], "fcntl">> \/ l.via = File(t)} IN
     LockReturn(t, "0", locks \ gone)
  /\ UNCHANGED <<taskVars, program>>

\* dup3: a descriptor placed over another, whose open file may be let go.
Dup(t) ==
  /\ th[t].at = "dup"
  /\ fds' = [fds EXCEPT ![process[t]][Now(t).to] = File(t)]
  /\ Return(t, "0")
  /\ locks' = Reaped(locks, fds', th')
  /\ UNCHANGED <<pending, group_exit, interrupted, listed, halt, program>>

LockStep(t) == SetLock(t) \/ GetLock(t) \/ Flock(t) \/ Close(t) \/ CloseLocks(t) \/ Dup(t)

-----------------------------------------------------------------------------
(* What a table says of every byte.                                        *)

Bytes == 0 .. MaxByte

mode == [f \in Keys |-> [h \in Holders |-> [b \in Bytes |->
          LET has == {l \in locks : l.file = f /\ l.holder = h /\ l.start <= b /\ b < l.end} IN
          IF has = {} THEN "none" ELSE IF \E l \in has : l.write THEN "write" ELSE "read"]]]

ByBytes == INSTANCE ByteLocks WITH Files <- Keys
=============================================================================

---------------------------- MODULE KernelTasks ----------------------------
(***************************************************************************)
(* Tasks of the guest kernel, the processes they belong to, their signals  *)
(* and their descriptors.                                                  *)
(*                                                                         *)
(* A task is a host thread: in guest code, or at a step of the system call *)
(* it made.  One step is one critical section of a host lock.              *)
(***************************************************************************)
EXTENDS Naturals, Sequences, FiniteSets

CONSTANTS Tasks, Processes,
          process,     \* process[t]: the one t belongs to
          main,        \* main[p]: its first task
          parent,      \* parent[p]: the process that waits for it, or NoProcess
          OpenFiles,   \* open file descriptions
          Fds,         \* descriptor numbers
          NoTask, NoProcess, NoFile

ASSUME TasksAssumption ==
  /\ process \in [Tasks -> Processes]
  /\ main \in [Processes -> Tasks] /\ \A p \in Processes : process[main[p]] = p
  /\ parent \in [Processes -> Processes \cup {NoProcess}]
  /\ NoProcess \notin Processes /\ NoFile \notin OpenFiles /\ NoTask \notin Tasks
  /\ Processes \cap OpenFiles = {}

VARIABLES th,            \* th[t]: where task t is, and what its call holds
          program,       \* program[t]: the calls t has yet to make
          pending,       \* the tasks with a signal to deliver
          group_exit,    \* the processes that are ending
          interrupted,   \* those whose waits all answer EINTR
          fds,           \* fds[p][n]: the open file at descriptor n
          listed,        \* the tasks that have not finished
          halt           \* the tasks asked to stop: each sees it at its next look

taskVars == <<pending, group_exit, interrupted, fds, listed, halt>>

Siblings(t) == {u \in Tasks : process[u] = process[t]}

\* The system call t is in.
Now(t) == th[t].call

\* t goes to a step, or back to the guest with an answer, its file let go.
At(t, step) == th' = [th EXCEPT ![t].at = step]
Back(r, answer) == [r EXCEPT !.at = "guest", !.answer = answer, !.was = r.file, !.file = NoFile,
                            !.then = "guest", !.left = 0, !.again = FALSE]
Return(t, answer) == th' = [th EXCEPT ![t] = Back(@, answer)]

\* What t's call needs of its descriptor, an argument of every call on a file.
File(t) == th[t].file

\* An open file is there while a descriptor or a call has it.
HeldBy(table, tasks, f) ==
  (\E p \in Processes : \E n \in Fds : table[p][n] = f) \/ \E t \in Tasks : tasks[t].file = f
Live(f) == HeldBy(fds, th, f)

Deliverable(t) == t \in pending
Interrupted(t) == process[t] \in interrupted \/ Deliverable(t)

\* A process's tasks, until each finishes.
Listed(p) == {t \in listed : process[t] = p}
=============================================================================

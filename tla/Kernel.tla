------------------------------- MODULE Kernel -------------------------------
(***************************************************************************)
(* Guest processes over the kernel of omni-linux: each task runs a program *)
(* of system calls; processes send signals, are killed, end, and are       *)
(* waited for, while their tasks may be at any step of a call.             *)
(***************************************************************************)
EXTENDS KernelLocks, KernelPipe, KernelFutex

CONSTANTS Scenarios,   \* what a run starts with
          NoCall,      \* none of their calls
          PiWords,     \* the words that are priority-inheritance locks
          home         \* home[o]: the process whose tasks lock o

VARIABLES sigchld,     \* what parents do with SIGCHLD: nothing, a handler, ignore
          children,    \* children[p]: what p's parent knows of p
          dropped      \* the processes nothing refers to any more

processVars == <<sigchld, children, dropped>>
vars == <<th, program, taskVars, locks, bytes, futexVars, processVars>>

notTask == <<locks, bytes, futexVars, processVars>>

Call ==
  [op : {"setlk", "getlk", "flock", "close", "dup", "read", "write", "wait", "wake", "requeue",
         "pi_lock", "lock_pi", "trylock_pi", "pi_unlock", "unlock_pi", "store", "signal", "kill",
         "exit", "exit_group", "wait4"},
   fd : Fds, to : Fds,                                               \* descriptors
   kind : {"read", "write", "unlock"}, start : 0 .. MaxByte, end : 1 .. MaxByte + 1, ofd : BOOLEAN,
   obj : Words, other : Words, n : Nat, moves : Nat, expected : Nat, bitset : SUBSET Bits,
   wait : BOOLEAN, timed : BOOLEAN, shared : BOOLEAN,                \* how it waits
   retry : BOOLEAN,                                                  \* and again after EINTR
   target : Processes, task : Tasks]                                 \* who is signalled, waited for

ASSUME ScenariosAssumption ==
  /\ NoCall.op = "none"
  /\ \A s \in Scenarios : /\ s.program \in [Tasks -> Seq(Call)]
                          /\ s.sigchld \in {"default", "handled", "ignored"}
                          /\ s.fds \in [Processes -> [Fds -> OpenFiles \cup {NoFile}]]

PiCalls   == {"pi_lock", "lock_pi", "trylock_pi", "pi_unlock", "unlock_pi"}
WordCalls == {"wait", "wake", "requeue", "store", "exit"}

\* A guest's word is one thing: a lock of one process's tasks, or a word to wait on.
Fits(t, c) ==
  /\ c.op \in PiCalls => c.obj \in PiWords /\ home[c.obj] = process[t]
  /\ c.op \in WordCalls => c.obj \notin PiWords /\ c.other \notin PiWords

ASSUME WordsAssumption ==
  \A s \in Scenarios : \A t \in Tasks : \A i \in DOMAIN s.program[t] : Fits(t, s.program[t][i])

NewTask == [at |-> "guest", call |-> NoCall, answer |-> "0", file |-> NoFile, was |-> NoFile, left |-> 0,
            again |-> FALSE, unpark |-> {}, then |-> "guest", target |-> NoProcess]

Init ==
  /\ \E s \in Scenarios : /\ program = s.program /\ sigchld = s.sigchld /\ fds = s.fds
  /\ th = [t \in Tasks |-> NewTask]
  /\ pending = {} /\ group_exit = {} /\ interrupted = {} /\ listed = Tasks /\ halt = {}
  /\ locks = {}
  /\ bytes = [i \in Pipes |-> <<>>]
  /\ word = [o \in Words |-> 0] /\ pi = [o \in Words |-> Free]
  /\ queue = [p \in Processes |-> [o \in Words |-> <<>>]]
  /\ woken = {} /\ parked = {} /\ token = {}
  /\ children = [p \in Processes |-> "running"]
  /\ dropped = {}

-----------------------------------------------------------------------------
(* The guest.                                                              *)

FileCalls == {"setlk", "getlk", "flock", "close", "dup", "read", "write"}

\* A call that the file of its descriptor does not take: none is open, or a pipe's
\* other end (reads and writes of other files are left out).
Refused(c, file) ==
  \/ file = NoFile
  \/ c.op = "read" /\ file \notin ReadEnds
  \/ c.op = "write" /\ file \notin WriteEnds

\* A system call made; one that its descriptor does not take is answered at once.
Called(t, c) ==
  LET file == fds[process[t]][c.fd] IN
  IF c.op \notin FileCalls
  THEN [th[t] EXCEPT !.at = c.op, !.call = c, !.target = c.target]
  ELSE IF Refused(c, file)
  THEN [th[t] EXCEPT !.call = c, !.answer = "EBADF"]
  ELSE [th[t] EXCEPT !.at = c.op, !.call = c, !.file = file,
                     !.left = IF c.op = "write" THEN c.n ELSE 0]

\* A call that a signal ended is one its caller makes again, or not.
Retries(t) == th[t].answer = "EINTR" /\ Now(t).retry

Begin(t) ==
  /\ th[t].at = "guest" /\ ~Retries(t) /\ program[t] # <<>>
  /\ th' = [th EXCEPT ![t] = Called(t, Head(program[t]))]
  /\ program' = [program EXCEPT ![t] = Tail(@)]
  /\ UNCHANGED <<taskVars, notTask>>

Retry(t) ==
  /\ th[t].at = "guest" /\ Retries(t) /\ ~Deliverable(t)
  /\ th' = [th EXCEPT ![t] = Called(t, Now(t))]
  /\ UNCHANGED <<program, taskVars, notTask>>

\* Out of guest code, asked to: a task of a process that is ending leaves.
Halted(t) ==
  /\ th[t].at = "guest" /\ t \in halt
  /\ IF process[t] \in group_exit
     THEN th' = [th EXCEPT ![t].at = "end", ![t].target = process[t], ![t].then = "finish"]
     ELSE At(t, "halted")
  /\ UNCHANGED <<program, taskVars, notTask>>

\* Another was halted for a signal: the request taken back, whoever made one since.
Cleared(t) ==
  /\ th[t].at = "halted"
  /\ halt' = halt \ {t}
  /\ At(t, "cleared")
  /\ UNCHANGED <<program, pending, group_exit, interrupted, fds, listed, notTask>>

\* The signal's handler is entered, if there is one: after a halt, or as a call returns.
Deliver(t) ==
  /\ \/ th[t].at = "cleared"
     \/ th[t].at = "guest" /\ Deliverable(t)
  /\ pending' = pending \ {t}
  /\ At(t, "guest")
  /\ UNCHANGED <<program, group_exit, interrupted, fds, listed, halt, notTask>>

\* A word stored to, and the fast paths of a priority-inheritance lock.
Store(t) ==
  /\ th[t].at = "store"
  /\ word' = [word EXCEPT ![Now(t).obj] = Now(t).n]
  /\ Return(t, "0")
  /\ UNCHANGED <<pi, queue, woken, parked, token, program, taskVars, locks, bytes, processVars>>

PiLock(t) ==
  /\ th[t].at = "pi_lock"
  /\ IF pi[Now(t).obj] = Free
     THEN pi' = [pi EXCEPT ![Now(t).obj].owner = t] /\ Return(t, "0")
     ELSE At(t, "lock_pi") /\ UNCHANGED pi
  /\ UNCHANGED <<word, queue, woken, parked, token, program, taskVars, locks, bytes, processVars>>

PiUnlock(t) ==
  /\ th[t].at = "pi_unlock"
  /\ LET o == Now(t).obj IN
     \/ pi[o] = [Free EXCEPT !.owner = t] /\ pi' = [pi EXCEPT ![o] = Free] /\ Return(t, "0")
     \/ pi[o] = [owner |-> t, waiters |-> TRUE] /\ At(t, "unlock_pi") /\ UNCHANGED pi
     \/ pi[o].owner # t /\ Return(t, "0") /\ UNCHANGED pi
  /\ UNCHANGED <<word, queue, woken, parked, token, program, taskVars, locks, bytes, processVars>>

GuestStep(t) ==
  \/ Begin(t) \/ Retry(t) \/ Halted(t) \/ Cleared(t) \/ Deliver(t)
  \/ Store(t) \/ PiLock(t) \/ PiUnlock(t)

-----------------------------------------------------------------------------
(* Signals and ends.                                                       *)

notSignal == <<locks, bytes, word, pi, queue, woken, parked, token, processVars>>

\* A signal with a handler posted to a task: pending there, and the task halted.
Posted(u) == pending' = pending \cup ({u} \cap listed) /\ halt' = halt \cup ({u} \cap listed)

\* Whom t's signals reach: its process's tasks, and the first of a child not ended.
Reaches(t, u) ==
  IF process[u] = process[t] THEN u \in listed
  ELSE u = main[process[u]] /\ parent[process[u]] = process[t] /\ children[process[u]] = "running"

\* t's own signal is seen as this call returns; another task's process has its waits
\* woken to see one.
Signal(t) ==
  /\ th[t].at = "signal"
  /\ LET u == Now(t).task IN
     \/ /\ u = t
        /\ pending' = pending \cup {t} /\ UNCHANGED halt
        /\ Return(t, "0")
     \/ /\ u # t /\ Reaches(t, u)
        /\ Posted(u)
        /\ th' = [th EXCEPT ![t].at = "interrupt", ![t].target = process[u]]
     \/ /\ u # t /\ ~Reaches(t, u)
        /\ Return(t, "ESRCH") /\ UNCHANGED <<pending, halt>>
  /\ UNCHANGED <<program, group_exit, interrupted, fds, listed, notSignal>>

Interrupt(t) ==
  /\ th[t].at = "interrupt"
  /\ th' = [th EXCEPT ![t] = Unparking(@, Everyone(th[t].target), @.then)]
  /\ UNCHANGED <<program, taskVars, notSignal>>

\* SIGKILL of a child: its end, if it is there to be ended.
Kill(t) ==
  /\ th[t].at = "kill"
  /\ IF children[Now(t).target] = "running" /\ parent[Now(t).target] = process[t]
     THEN At(t, "end") ELSE Return(t, "ESRCH")
  /\ UNCHANGED <<program, taskVars, notSignal>>

ExitGroup(t) ==
  /\ th[t].at = "exit_group"
  /\ th' = [th EXCEPT ![t].at = "end", ![t].target = process[t], ![t].then = "finish"]
  /\ UNCHANGED <<program, taskVars, notSignal>>

\* The end of a process: noted, then its tasks halted, then every wait interrupted.
EndGroup(t) ==
  /\ th[t].at = "end"
  /\ group_exit' = group_exit \cup {th[t].target}
  /\ At(t, "end_halt")
  /\ UNCHANGED <<program, pending, interrupted, fds, listed, halt, notSignal>>

HaltAll(t) ==
  /\ th[t].at = "end_halt"
  /\ halt' = halt \cup Listed(th[t].target)
  /\ At(t, "end_all")
  /\ UNCHANGED <<program, pending, group_exit, interrupted, fds, listed, notSignal>>

InterruptAll(t) ==
  /\ th[t].at = "end_all"
  /\ interrupted' = interrupted \cup {th[t].target}
  /\ th' = [th EXCEPT ![t] = Unparking(@, Everyone(th[t].target), @.then)]
  /\ UNCHANGED <<program, pending, group_exit, fds, listed, halt, notSignal>>

\* A thread's exit: the word its joiner waits on cleared and woken.
Exit(t) ==
  /\ th[t].at = "exit"
  /\ word' = [word EXCEPT ![Now(t).obj] = 0]
  /\ LET p == process[t]
         up == Woken(queue[p][Now(t).obj], 1, Bits) IN
     /\ woken' = woken \cup up
     /\ queue' = [queue EXCEPT ![p][Now(t).obj] = Without(@, up)]
     /\ th' = [th EXCEPT ![t] = Unparking(@, up \cap parked, "finish")]
  /\ UNCHANGED <<program, taskVars, locks, bytes, pi, parked, token, processVars>>

\* Out of the process's tasks.
Finish(t) ==
  /\ th[t].at = "finish"
  /\ At(t, "finished")
  /\ listed' = listed \ {t}
  /\ UNCHANGED <<program, pending, group_exit, interrupted, fds, halt, notSignal>>

\* The main task waits for the others; those of a process that is ending it halts
\* again every 200 ms, and gives up after 5 s.
HaltAgain(t) ==
  /\ th[t].at = "finished" /\ t = main[process[t]] /\ process[t] \in group_exit
  /\ halt' = halt \cup Listed(process[t])
  /\ UNCHANGED <<th, program, pending, group_exit, interrupted, fds, listed, notSignal>>

Joined(t) ==
  /\ th[t].at = "finished" /\ t = main[process[t]]
  /\ Listed(process[t]) = {} \/ process[t] \in group_exit
  /\ halt' = halt \cup Listed(process[t])
  /\ At(t, "close_all")
  /\ UNCHANGED <<program, pending, group_exit, interrupted, fds, listed, notSignal>>

\* Every descriptor closed, with what no call still holds.
CloseAll(t) ==
  /\ th[t].at = "close_all"
  /\ fds' = [fds EXCEPT ![process[t]] = [n \in Fds |-> NoFile]]
  /\ At(t, "report")
  /\ locks' = Reaped(locks, fds', th')
  /\ UNCHANGED <<program, pending, group_exit, interrupted, listed, halt,
                 bytes, futexVars, processVars>>

\* The parent finds it ended, and is sent SIGCHLD if it handles it.
Report(t) ==
  /\ th[t].at = "report"
  /\ LET p == process[t] IN
     IF parent[p] = NoProcess THEN At(t, "gone") /\ UNCHANGED children
     ELSE /\ children' = [children EXCEPT ![p] = IF sigchld = "ignored" THEN "reaped" ELSE "ended"]
          /\ At(t, IF sigchld = "handled" THEN "sigchld" ELSE "gone")
  /\ UNCHANGED <<program, taskVars, locks, bytes, futexVars, sigchld, dropped>>

ChildSignal(t) ==
  /\ th[t].at = "sigchld"
  /\ LET up == parent[process[t]] IN
     /\ Posted(main[up])
     /\ th' = [th EXCEPT ![t].at = "interrupt", ![t].target = up, ![t].then = "gone"]
  /\ UNCHANGED <<program, group_exit, interrupted, fds, listed, notSignal>>

\* Another task's host thread ends, and its reference to the process.
Gone(t) ==
  /\ th[t].at = "finished" /\ t # main[process[t]]
  /\ At(t, "gone")
  /\ UNCHANGED <<program, taskVars, notSignal>>

\* The last reference to a process goes: its classic locks do.
Drop(p) ==
  /\ p \notin dropped /\ \A t \in Tasks : process[t] = p => th[t].at = "gone"
  /\ dropped' = dropped \cup {p}
  /\ locks' = {l \in locks : l.holder # p}
  /\ UNCHANGED <<th, program, taskVars, bytes, futexVars, sigchld, children>>

\* wait4: the child's end taken, waited for with a look every 50 ms.
Wait4(t) ==
  /\ th[t].at = "wait4"
  /\ LET p == Now(t).target IN
     \/ children[p] = "ended" /\ children' = [children EXCEPT ![p] = "reaped"] /\ Return(t, "0")
     \/ children[p] = "reaped" /\ Return(t, "ECHILD") /\ UNCHANGED children
     \/ children[p] = "running" /\ ~Now(t).wait /\ Return(t, "nohang") /\ UNCHANGED children
     \/ /\ children[p] = "running" /\ Now(t).wait /\ Deliverable(t)
        /\ Return(t, "EINTR") /\ UNCHANGED children
  /\ UNCHANGED <<program, taskVars, locks, bytes, futexVars, sigchld, dropped>>

ProcessStep(t) ==
  \/ Signal(t) \/ Interrupt(t) \/ Kill(t) \/ ExitGroup(t)
  \/ EndGroup(t) \/ HaltAll(t) \/ InterruptAll(t) \/ Exit(t) \/ Finish(t)
  \/ HaltAgain(t) \/ Joined(t) \/ CloseAll(t) \/ Report(t)
  \/ ChildSignal(t) \/ Gone(t) \/ Wait4(t)

-----------------------------------------------------------------------------

Task(t) ==
  \/ GuestStep(t)
  \/ LockStep(t) /\ UNCHANGED <<bytes, futexVars, processVars>>
  \/ PipeStep(t) /\ UNCHANGED <<locks, futexVars, processVars>>
  \/ FutexStep(t) /\ UNCHANGED <<locks, bytes, processVars>>
  \/ ProcessStep(t)

Next == (\E t \in Tasks : Task(t)) \/ (\E p \in Processes : Drop(p))

Spec == Init /\ [][Next]_vars

\* Each host thread is scheduled and its timers fire.  Guest code runs in slices, and
\* a request to halt that stands is seen at the end of one: a task that comes back to
\* the guest again and again with it does not miss it for ever.  Nothing is assumed of
\* a request that was taken back (Cleared).
FairSpec == Spec /\ \A t \in Tasks : WF_vars(Task(t)) /\ SF_vars(Halted(t))
                 /\ \A p \in Processes : WF_vars(Drop(p))
=============================================================================

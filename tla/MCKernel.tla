------------------------------ MODULE MCKernel ------------------------------
(***************************************************************************)
(* Small instances of the guest kernel for TLC: a process with three tasks   *)
(* and its child, a database each has open, one open the fork shared, and  *)
(* a pipe whose ends both have.                                            *)
(***************************************************************************)
EXTENDS KernelProperties, TLC

Tasks4 == {"a", "b", "c", "d"}
Process4 == [t \in Tasks4 |-> IF t = "c" THEN "child" ELSE "parent"]
Main2 == [p \in {"parent", "child"} |-> IF p = "child" THEN "c" ELSE "a"]
Parent2 == [p \in {"parent", "child"} |-> IF p = "child" THEN "parent" ELSE NoProcess]

LockFiles3 == {"mine", "its", "shared"}
Files5 == LockFiles3 \cup {"r", "w"}
Inode1 == [f \in LockFiles3 |-> "db"]
Pipe1 == [f \in {"r", "w"} |-> "pipe"]

\* Descriptor 0 is the process's own open of the database, 1 the shared one, 2
\* and 3 the pipe's ends.
Forked(p) == [n \in 0 .. 3 |-> CASE n = 0 -> IF p = "child" THEN "its" ELSE "mine"
                                  [] n = 1 -> "shared" [] n = 2 -> "r" [] n = 3 -> "w"]
Table == [p \in {"parent", "child"} |-> Forked(p)]
\* Each process has closed the end it does not use.
Reader == [Table EXCEPT !["parent"][3] = NoFile, !["child"][2] = NoFile]

Do(op) == [op |-> op, fd |-> 0, to |-> 0, kind |-> "read", start |-> 0, end |-> 2, ofd |-> FALSE,
             wait |-> TRUE, retry |-> TRUE, n |-> 1, obj |-> "x", other |-> "y", moves |-> 0,
             expected |-> 0, bitset |-> {1, 2}, timed |-> FALSE, shared |-> FALSE,
             target |-> "child", task |-> "a"]

SetLk(kind, from, to) == [Do("setlk") EXCEPT !.kind = kind, !.start = from, !.end = to]
GetLk(kind, from, to) == [SetLk(kind, from, to) EXCEPT !.op = "getlk"]
Ofd(c) == [c EXCEPT !.ofd = TRUE, !.fd = 1]
Try(c) == [c EXCEPT !.wait = FALSE]
Unlk(from, to) == SetLk("unlock", from, to)
FlockTo(n, kind) == [Do("flock") EXCEPT !.kind = kind, !.fd = n]
CloseFd(n) == [Do("close") EXCEPT !.fd = n]
DupTo(n, m) == [Do("dup") EXCEPT !.fd = n, !.to = m]
ReadPipe(n) == [Do("read") EXCEPT !.fd = 2, !.n = n]
WritePipe(n) == [Do("write") EXCEPT !.fd = 3, !.n = n]
WaitOn(o, v) == [Do("wait") EXCEPT !.obj = o, !.n = v]
Timed(c) == [c EXCEPT !.timed = TRUE]
Shared(c) == [c EXCEPT !.shared = TRUE]
Bit(c, b) == [c EXCEPT !.bitset = {b}]
Wake(o, n) == [Do("wake") EXCEPT !.obj = o, !.n = n]
Requeue == [Do("requeue") EXCEPT !.n = 1, !.moves = 2]
Set(o, v) == [Do("store") EXCEPT !.obj = o, !.n = v]
SignalTo(t) == [Do("signal") EXCEPT !.task = t]
OnLock(c) == [c EXCEPT !.obj = "lock"]
PiTake == OnLock(Do("pi_lock"))
PiTry == OnLock(Do("trylock_pi"))
PiGive == OnLock(Do("pi_unlock"))
ExitTo(o) == [Do("exit") EXCEPT !.obj = o]
KillChild == Do("kill")
WaitChild == Do("wait4")
EndAll == Do("exit_group")
NotAgain(c) == [c EXCEPT !.retry = FALSE]

Run(a, b, c, d) ==
  [program |-> ("a" :> a @@ "b" :> b @@ "c" :> c @@ "d" :> d), sigchld |-> "default", fds |-> Table]
Handles(s) == [s EXCEPT !.sigchld = "handled"]
Ignores(s) == [s EXCEPT !.sigchld = "ignored"]
Reads(s) == [s EXCEPT !.fds = Reader]

Home1 == [o \in {"lock"} |-> "parent"]
NoCall0 == Do("none")
None == <<>>

Locking ==
  {Run(<<SetLk("write", 0, 3), Unlk(1, 2), CloseFd(0)>>, <<Ofd(SetLk("read", 1, 2)), CloseFd(1)>>,
       <<CloseFd(1), SetLk("read", 0, 2), SetLk("write", 1, 3), CloseFd(0)>>, None),
   Run(<<SetLk("read", 0, 3), Try(SetLk("write", 1, 2)), Unlk(0, 3)>>, None,
       <<SetLk("read", 1, 2), Try(SetLk("write", 0, 2)), GetLk("read", 0, 3),
         GetLk("unlock", 0, 3), Unlk(0, 3)>>, None),
   Run(<<FlockTo(0, "read"), FlockTo(0, "write"), CloseFd(0)>>, <<Try(FlockTo(1, "write")), FlockTo(1, "unlock")>>,
       <<FlockTo(0, "read"), FlockTo(0, "unlock"), DupTo(1, 0)>>, None),
   Run(<<SetLk("write", 0, 2), SignalTo("b"), Unlk(0, 2)>>, <<Ofd(SetLk("write", 1, 3)), CloseFd(1)>>,
       <<CloseFd(1)>>, <<NotAgain(FlockTo(0, "write")), SignalTo("b")>>),
   Run(<<CloseFd(0), ReadPipe(1)>>, <<CloseFd(0)>>, <<Try(SetLk("write", 0, 1)), WritePipe(1)>>, None)}

Piping ==
  {Reads(Run(<<ReadPipe(2), ReadPipe(2), ReadPipe(2)>>, None, <<WritePipe(3), CloseFd(3)>>, None)),
   Run(<<CloseFd(3), ReadPipe(1), CloseFd(2)>>, <<Try(ReadPipe(1))>>,
       <<CloseFd(2), WritePipe(3), Try(WritePipe(3)), WritePipe(1)>>, None)}

Sleeping ==
  {Run(<<WaitOn("x", 0)>>, <<Timed(WaitOn("x", 0))>>, None,
       <<Set("x", 1), Requeue, [Requeue EXCEPT !.expected = 1], Wake("y", 2)>>),
   Run(<<Bit(WaitOn("x", 0), 1)>>, <<Bit(WaitOn("x", 0), 2)>>, None,
       <<SignalTo("a"), Set("x", 1), Bit(Wake("x", 2), 1), Bit(Wake("x", 1), 2)>>),
   Run(<<Timed(WaitOn("x", 0))>>, <<Timed(WaitOn("y", 0))>>, None,
       <<[Requeue EXCEPT !.n = 0], Wake("y", 1), SignalTo("a"), Wake("y", 1)>>),
   Run(<<Shared(WaitOn("x", 0))>>, <<Set("y", 1), ExitTo("y")>>, <<Set("x", 1), Wake("x", 1)>>,
       <<WaitOn("y", 1)>>),
   Run(<<PiTake, PiGive>>, <<PiTake, PiGive>>, None, <<Timed(PiTake), PiGive, PiTry, PiGive>>),
   Run(<<PiTake, OnLock(Do("lock_pi")), PiGive>>, <<OnLock(Do("unlock_pi"))>>, None, None)}

Ending ==
  {Reads(Run(<<KillChild, WaitChild>>, <<ReadPipe(1)>>, <<WritePipe(4)>>, <<Try(WaitChild), WaitChild>>)),
   Handles(Run(<<WaitChild>>, <<Timed(WaitOn("x", 0))>>, <<EndAll>>, None)),
   Run(<<WaitChild>>, <<SignalTo("a")>>, <<ExitTo("y")>>, None),
   Ignores(Run(<<CloseFd(3), WaitChild>>, <<ReadPipe(1)>>, <<ExitTo("y")>>, None)),
   Run(<<WaitOn("x", 0)>>, <<EndAll>>, <<CloseFd(3), ReadPipe(1)>>, None),
   Run(<<ReadPipe(1)>>, <<PiTake, EndAll>>, None, <<PiTake, PiGive>>),
   Run(<<SignalTo("c"), WaitChild>>, <<SignalTo("b")>>, <<EndAll>>, None),
   Run(<<WaitOn("x", 0)>>, None, None, <<SignalTo("b"), EndAll>>)}

\* A child killed while it waits for a lock that is not let go.
Killed == {Run(<<KillChild, WaitChild>>, <<Ofd(SetLk("write", 0, 1))>>,
               <<SetLk("write", 1, 2), SetLk("write", 0, 1)>>, None)}

\* A child killed as its main task, in guest code, is halted for a signal.
Signalled == {Run(<<SignalTo("c"), KillChild, WaitChild>>, None, None, None)}

Passing == Locking \cup Piping \cup Sleeping \cup Ending
=============================================================================

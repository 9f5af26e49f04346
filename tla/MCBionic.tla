------------------------------ MODULE MCBionic ------------------------------
(***************************************************************************)
(* Small instances of the bionic primitives for TLC: three threads, one    *)
(* object of each kind, and a program for each question.                   *)
(***************************************************************************)
EXTENDS BionicProperties, TLC

Threads3 == {1, 2, 3}
Mutexes3 == {"m", "e", "r"}
Objects7 == Mutexes3 \cup {"w", "s", "o", "f"}
Shards2 == [o \in Objects7 |-> IF o = "m" THEN 0 ELSE 1]
Types3 == [m \in Mutexes3 |-> CASE m = "m" -> "NORMAL" [] m = "e" -> "ERRORCHECK"
                                [] m = "r" -> "RECURSIVE"]

Do(op, obj) == [op |-> op, obj |-> obj, cond |-> "c", timed |-> FALSE, all |-> FALSE]
AwaitOne   == Do("await", "m")
AwaitTimed == [AwaitOne EXCEPT !.timed = TRUE]
SetOne     == Do("set", "m")
SetAll     == [SetOne EXCEPT !.all = TRUE]

Lock(m)  == <<Do("lock", m), Do("unlock", m)>>
Twice(m) == <<Do("lock", m), Do("lock", m), Do("unlock", m), Do("unlock", m)>>
Try(m)   == <<Do("trylock", m), Do("unlock", m)>>
Timed(m) == <<Do("timedlock", m), Do("unlock", m)>>
Read     == <<Do("rdlock", "w"), Do("rwunlock", "w")>>
Write    == <<Do("wrlock", "w"), Do("rwunlock", "w")>>

Run(a, b, c) == [calls |-> <<a, b, c>>, stops |-> FALSE]
Stopped(s) == [s EXCEPT !.stops = TRUE]

Locks == {Run(Lock("m"), Lock("m"), Lock("m")), Run(Lock("m"), Try("m"), Timed("m")),
          Run(Twice("r"), Lock("r"), Try("r")), Run(Twice("e"), Lock("e"), Lock("e"))}

Waits == {Run(<<AwaitOne>>, <<AwaitOne>>, <<SetOne, SetOne>>),
          Run(<<AwaitTimed>>, <<AwaitOne>>, <<SetAll>>)}

Others == {Run(Read, Write, Write), Run(Read, Read, Write),
           Run(<<Do("semwait", "s")>>, <<Do("semwait", "s")>>, <<Do("sempost", "s"), Do("sempost", "s")>>),
           Run(<<Do("futexwait", "f")>>, <<Do("futexwait", "f")>>, <<Do("store", "f")>>),
           Run(<<Do("once", "o")>>, <<Do("once", "o")>>, <<Do("once", "o")>>)}

\* A shutdown at any step of the calls that ask whether the futex is interrupted.
Stops == {Stopped(Run(Lock("m"), Lock("m"), <<>>)), Stopped(Run(<<AwaitOne>>, <<AwaitTimed>>, <<>>)),
          Stopped(Run(<<Do("semwait", "s")>>, <<Do("futexwait", "f")>>, <<>>))}

\* The same with a lock whose loops do not ask.
ReadersStopped == {Stopped(Run(Read, Write, <<>>))}

Passing == Locks \cup Waits \cup Others \cup Stops
=============================================================================

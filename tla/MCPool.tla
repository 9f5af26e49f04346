------------------------------- MODULE MCPool -------------------------------
(***************************************************************************)
(* Small instances of the pool for TLC.  Two builds of one package are     *)
(* enough for every rule of the placement (run, replace, install, boot);   *)
(* a run spends the events its question is about, a few at a time: one of  *)
(* the budgets of its set.                                                 *)
(***************************************************************************)
EXTENDS PoolProperties, TLC

Packages1  == {"p"}
Builds2    == {"p1", "p2"}
PackageOf2 == [b \in Builds2 |-> "p"]

\* A budget of the events named, no other.
Only(events) == [e \in Events |-> IF e \in DOMAIN events THEN events[e] ELSE 0]

\* What ends an app, and the person's or the pool's answer to it.
Crashes == {Only([crash |-> 1, restart |-> 1]), Only([crash |-> 1, clear |-> 1]),
            Only([crash |-> 1, fail |-> 1])}

\* What takes users and displays, gives them back, or makes a device idle or end.
Closes == {Only([crash |-> 1, close |-> 1]), Only([crash |-> 1, window |-> 1]),
           Only([crash |-> 1, spare |-> 1]), Only([crash |-> 1, idle |-> 1]),
           Only([crash |-> 1, restart |-> 1]), Only([crash |-> 1, clear |-> 1]),
           Only([crash |-> 1, kill |-> 1]), Only([death |-> 1])}

\* One instance's longer stories, and retries with a failure.
Stories == {Only([death |-> 1]), Only([kill |-> 1, restart |-> 1]),
            Only([window |-> 1, show |-> 1]), Only([crash |-> 1, quit |-> 1]),
            Only([crash |-> 2, warm |-> 1]), Only([crash |-> 2, restart |-> 1, fail |-> 1])}

\* The run that shows what the code does otherwise.
OneClose == {Only([close |-> 1])}
=============================================================================

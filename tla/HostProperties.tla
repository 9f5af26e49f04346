--------------------------- MODULE HostProperties ---------------------------
(***************************************************************************)
(* What the hosts promise, and what they may lose.                         *)
(***************************************************************************)
EXTENDS Host

TypeOK ==
  /\ file \in [by : Hosts \cup {NoHost}, named : BOOLEAN]
  /\ pc \in [Hosts -> Loop \cup Ending \cup Claiming \cup {"off", "gone"}]
  /\ tries \in [Hosts -> Nat]
  /\ clients \in [Hosts -> SUBSET Windows]
  /\ claimed \subseteq Hosts /\ mcp \subseteq Hosts /\ closed \subseteq Servers
  /\ app \in [Hosts -> {"none", "alive", "card"}]
  /\ at \in [Windows -> {"off", "look", "wait", "attach", "attached", "open", "suspended", "lost", "gone", "died"}]
  /\ link \in [Windows -> Hosts \cup {NoHost}]
  /\ lapsed \subseteq Windows
  /\ taking \subseteq Hosts /\ left \in [Events -> Nat]

\* Of two hosts that run, one ends: a file was removed that was not stale (claim), and the
\* host it no longer names sees that (run's loop), whatever windows it has.
TwoRun == \E g, h \in Hosts : g # h /\ Answers(g) /\ Answers(h)
HostsSettle == TwoRun ~> ~TwoRun

\* Nobody needs a host: every window has gone or been silent for good, no agent is served,
\* no instance is alive and no card shown; a server's input has closed.
Needless(h) ==
  IF h \in Servers THEN h \in closed
  ELSE /\ \A w \in Windows : at[w] \in {"off", "lost", "gone", "died"} \/ (at[w] = "suspended" /\ w \in lapsed)
       /\ h \notin mcp /\ app[h] = "none"

\* A host nobody needs ends: leases of windows that died lapse and are given up (reap), and
\* one whose window never came does not wait for it for ever (done).
HostEnds == \A h \in Hosts : <>[]Needless(h) => <>[](~Live(h))

\* A window that is heard keeps its host: the host never finds itself without windows while
\* one that attached before is open, also one whose lease lapsed before it was heard again
\* (renew, reap, done).
HeardKeeps == [][\A h \in Hosts :
  pc[h] = "clients" /\ pc'[h] = "claimed" => ~\E w \in Windows : at[w] = "open" /\ link[w] = h]_vars

\* An open window's host runs, if none crashes or has its file removed: "Kept while a window
\* is open" (src/crates/omnidroid/src/app/host.rs:17).
OpenServed == \A w \in Windows : at[w] = "open" => Answers(link[w])
=============================================================================

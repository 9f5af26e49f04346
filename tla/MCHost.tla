------------------------------- MODULE MCHost -------------------------------
(***************************************************************************)
(* Small instances of Host for TLC.                                        *)
(***************************************************************************)
EXTENDS HostProperties

S(procs, mcp_enabled, events) ==
  [procs |-> procs, mcp |-> mcp_enabled,
   left |-> [e \in Events |-> IF e \in events THEN 1 ELSE 0]]

Both == {"w1", "w2"}
One == {"w1"}

\* A fault while two start; a window silent for long, or dead under its terminal; instances
\* and agents; a server beside a window.
Stories == {S(Both, FALSE, {"crash"}), S(Both, FALSE, {"fail"}),
            S(One, FALSE, {"suspend", "die", "launch"}), S(One, TRUE, {"launch", "mcp"}),
            S({"w1", "s"}, FALSE, {"suspend"})}

OneWindow == {S(One, FALSE, {})}
=============================================================================

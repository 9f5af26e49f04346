-------------------------------- MODULE Host --------------------------------
(***************************************************************************)
(* Who hosts the pool: a file names the one host of a computer, windows    *)
(* find it there or start one, keep it while they poll, and leave it; it   *)
(* ends when it looks and nobody needs it.                                 *)
(*                                                                         *)
(* A process of Windows is a window and the host it may start; one of      *)
(* Servers is a host that runs until its input closes.                     *)
(***************************************************************************)
EXTENDS Naturals, FiniteSets

CONSTANTS Windows, Servers, NoHost,
          Starts,        \* what may be there: the processes, mcp_enabled, the events to come
          stop_on_exit

Hosts == Windows \cup Servers

Events == {"crash", "fail", "launch", "mcp", "suspend", "die"}

ASSUME HostAssumption ==
  /\ Windows \cap Servers = {} /\ NoHost \notin Hosts
  /\ Starts \subseteq [procs : SUBSET Hosts, mcp : BOOLEAN, left : [Events -> Nat]]
  /\ stop_on_exit \in BOOLEAN

VARIABLES
  file,          \* pool.host: whose it is, and whether its port is in it
  pc,            \* pc[h]: where a host's claim, its loop or its end is
  tries,         \* tries[h]: the files it removed to make its own
  clients,       \* clients[h]: the windows with a lease
  claimed,       \* the hosts a window ever attached to, or that waited longer than UNCLAIMED
  mcp,           \* the hosts whose MCP server serves
  app,           \* app[h]: its instance: none, alive, or ended with its card shown
  closed,        \* the servers whose input closed
  at,            \* at[w]: what a window does
  link,          \* link[w]: the host it found
  lapsed,        \* the windows not heard for longer than LEASE
  taking,        \* the processes that may start
  left           \* a bound: how many more of each event may come

hostVars == <<file, pc, tries, clients, claimed, mcp, app, closed>>
windowVars == <<at, link, lapsed>>
vars == <<hostVars, windowVars, taking, left>>

Spend(e) == left[e] > 0 /\ left' = [left EXCEPT ![e] = @ - 1]

NoFile == [by |-> NoHost, named |-> FALSE]

Loop == {"tick", "clients", "claimed", "mcp", "cards", "alive", "ours"}
Ending == {"stop", "unlink", "remove_own", "end"}
Claiming == {"claim", "look", "relook", "remove", "start"}

\* The control server answers from before its port is written to after the file is gone.
Answers(h) == pc[h] \in Loop \cup Ending
Live(h) == pc[h] \in Claiming \/ Answers(h)

\* running(): the host the file names, if it answers.
Found == {h \in Hosts : file = [by |-> h, named |-> TRUE] /\ Answers(h)}

Ours(h) == file = [by |-> h, named |-> TRUE]

Init ==
  \E s \in Starts :
    /\ taking = s.procs /\ left = s.left
    /\ mcp = IF s.mcp THEN Hosts ELSE Servers
    /\ file = NoFile
    /\ pc = [h \in Hosts |-> "off"] /\ tries = [h \in Hosts |-> 0]
    /\ clients = [h \in Hosts |-> {}] /\ app = [h \in Hosts |-> "none"]
    /\ claimed = {} /\ closed = {}
    /\ at = [w \in Windows |-> "off"] /\ link = [w \in Windows |-> NoHost] /\ lapsed = {}

-----------------------------------------------------------------------------
(* A host: claim.                                                          *)

Goto(h, l) == pc' = [pc EXCEPT ![h] = l]

Serve(h) ==
  /\ h \in Servers \cap taking /\ pc[h] = "off"
  /\ Goto(h, "claim")
  /\ UNCHANGED <<file, tries, clients, claimed, mcp, app, closed, windowVars, taking, left>>

\* create_new: there is one file.
Claim(h) ==
  /\ pc[h] = "claim"
  /\ IF file = NoFile
     THEN file' = [by |-> h, named |-> FALSE] /\ Goto(h, "start")
     ELSE UNCHANGED file /\ Goto(h, "look")
  /\ UNCHANGED <<tries, clients, claimed, mcp, app, closed, windowVars, taking, left>>

\* A file that is young is given a moment and a second look.
Look(h) ==
  /\ \/ pc[h] = "look" /\ Found = {} /\ \E l \in {"relook", "remove"} : Goto(h, l)
     \/ pc[h] = "relook" /\ Found = {} /\ Goto(h, "remove")
     \/ pc[h] \in {"look", "relook"} /\ Found # {} /\ Goto(h, "gone")
  /\ UNCHANGED <<file, tries, clients, claimed, mcp, app, closed, windowVars, taking, left>>

\* Whatever file is there by now.
Remove(h) ==
  /\ pc[h] = "remove"
  /\ file' = NoFile
  /\ tries' = [tries EXCEPT ![h] = @ + 1]
  /\ Goto(h, IF tries[h] = 2 THEN "gone" ELSE "claim")
  /\ UNCHANGED <<clients, claimed, mcp, app, closed, windowVars, taking, left>>

\* The pool and the control server started, the port written: into the file made, be it
\* still there or not.
Listen(h) ==
  /\ pc[h] = "start"
  /\ file' = IF file.by = h THEN [file EXCEPT !.named = TRUE] ELSE file
  /\ Goto(h, "tick")
  /\ UNCHANGED <<tries, clients, claimed, mcp, app, closed, windowVars, taking, left>>

\* No port, or no program: the file removed, whosever it is.
ListenFails(h) ==
  /\ pc[h] = "start" /\ Spend("fail")
  /\ file' = NoFile
  /\ Goto(h, "gone")
  /\ UNCHANGED <<tries, clients, claimed, mcp, app, closed, windowVars, taking>>

-----------------------------------------------------------------------------
(* A host: its loop.                                                       *)

\* (Variant: the lapsed counted, and none given up.)
KeptAll(h) == clients[h]

\* reap, each fourth time: leases lapsed are given up.
Kept(h) == clients[h] \ lapsed

Tick(h, reaps) ==
  /\ pc[h] = "tick"
  /\ clients' = [clients EXCEPT ![h] = IF reaps THEN Kept(h) ELSE @]
  /\ Goto(h, IF h \notin Servers THEN "clients" ELSE IF h \in closed THEN "stop" ELSE "ours")
  /\ UNCHANGED <<file, tries, claimed, mcp, app, closed, windowVars, taking, left>>

\* done: the windows, whether one ever came, the MCP server, the cards, the instances alive,
\* each looked at by itself.
Looked(h) ==
  CASE pc[h] = "clients" -> IF clients[h] # {} THEN "ours" ELSE "claimed"
    [] pc[h] = "claimed" -> IF h \in claimed THEN "mcp" ELSE "ours"
    [] pc[h] = "mcp" -> IF h \in mcp THEN "ours" ELSE "cards"
    [] pc[h] = "cards" -> IF app[h] = "card" THEN "ours" ELSE "alive"
    [] pc[h] = "alive" -> IF app[h] = "alive" THEN "ours" ELSE "stop"

Done(h) ==
  /\ pc[h] \in {"clients", "claimed", "mcp", "cards", "alive"}
  /\ Goto(h, Looked(h))
  /\ UNCHANGED <<file, tries, clients, claimed, mcp, app, closed, windowVars, taking, left>>

\* (Variant: whoever's file it is.)
AfterOursAnyway(h) == IF file.named THEN "tick" ELSE "stop"

\* A host whose file is gone, or another's, ends: no window could find it.
AfterOurs(h) == IF Ours(h) THEN "tick" ELSE "stop"

CheckOurs(h) ==
  /\ pc[h] = "ours"
  /\ Goto(h, AfterOurs(h))
  /\ UNCHANGED <<file, tries, clients, claimed, mcp, app, closed, windowVars, taking, left>>

\* mcp_stop, and the pool shut down: its devices are stopped, or left to run.
Shutdown(h) ==
  /\ pc[h] = "stop"
  /\ mcp' = mcp \ {h}
  /\ app' = IF stop_on_exit THEN [app EXCEPT ![h] = "none"] ELSE app
  /\ Goto(h, "unlink")
  /\ UNCHANGED <<file, tries, clients, claimed, closed, windowVars, taking, left>>

Unlink(h) ==
  /\ \/ pc[h] = "unlink" /\ Goto(h, IF Ours(h) THEN "remove_own" ELSE "end") /\ UNCHANGED file
     \/ pc[h] = "remove_own" /\ Goto(h, "end") /\ file' = NoFile
  /\ UNCHANGED <<tries, clients, claimed, mcp, app, closed, windowVars, taking, left>>

Gone(h) ==
  /\ Goto(h, "gone")
  /\ clients' = [clients EXCEPT ![h] = {}] /\ app' = [app EXCEPT ![h] = "none"]
  /\ claimed' = claimed \ {h} /\ mcp' = mcp \ {h}
  /\ tries' = [tries EXCEPT ![h] = 0]
  /\ UNCHANGED <<file, closed, windowVars, taking>>

\* control.stop, and the process ends.
End(h) == pc[h] = "end" /\ Gone(h) /\ UNCHANGED left

\* Killed, or its machine restarted under the file.
Crash(h) == Live(h) /\ Gone(h) /\ Spend("crash")

HostStep(h) ==
  \/ Claim(h) \/ Look(h) \/ Remove(h) \/ Listen(h)
  \/ (\E reaps \in BOOLEAN : Tick(h, reaps)) \/ Done(h) \/ CheckOurs(h)
  \/ Shutdown(h) \/ Unlink(h) \/ End(h)

-----------------------------------------------------------------------------
(* Around a host: time, its input, its instances.                          *)

\* UNCLAIMED passes.
Age(h) ==
  /\ h \notin Servers /\ pc[h] \in Loop /\ h \notin claimed
  /\ claimed' = claimed \cup {h}
  /\ UNCHANGED <<file, pc, tries, clients, mcp, app, closed, windowVars, taking, left>>

InputCloses(h) ==
  /\ h \in Servers \ closed /\ Live(h)
  /\ closed' = closed \cup {h}
  /\ UNCHANGED <<file, pc, tries, clients, claimed, mcp, app, windowVars, taking, left>>

\* A window's prompt, or an agent, launches; an app ends, its card shown or not; a card's
\* app is started again by a command that needs no window, or its card is closed.
AppNext(h) ==
  CASE app[h] = "none"  -> IF h \in mcp \/ \E w \in Windows : at[w] = "open" /\ link[w] = h
                           THEN {"alive"} ELSE {}
    [] app[h] = "alive" -> {"none", "card"}
    [] app[h] = "card"  -> {"none", "alive"}

App(h) ==
  /\ pc[h] \in Loop \cup {"stop"}
  /\ \E a \in AppNext(h) : app' = [app EXCEPT ![h] = a] /\ IF a = "alive" THEN Spend("launch") ELSE UNCHANGED left
  /\ UNCHANGED <<file, pc, tries, clients, claimed, mcp, closed, windowVars, taking>>

-----------------------------------------------------------------------------
(* A window.                                                               *)

Does(w, a) == at' = [at EXCEPT ![w] = a]

Open(w) ==
  /\ w \in taking /\ at[w] = "off"
  /\ Does(w, "look")
  /\ UNCHANGED <<hostVars, link, lapsed, taking, left>>

\* ensure: the host that answers, looked for again until one does; its own is started once.
Ensure(w) ==
  /\ \/ /\ at[w] \in {"look", "wait"} /\ Found # {}
        /\ \E h \in Found : link' = [link EXCEPT ![w] = h]
        /\ Does(w, "attach") /\ UNCHANGED pc
     \/ /\ at[w] = "look" /\ Found = {}
        /\ Goto(w, "claim") /\ Does(w, "wait") /\ UNCHANGED link
  /\ UNCHANGED <<file, tries, clients, claimed, mcp, app, closed, lapsed, taking, left>>

\* Its host ended and none answered since, or a minute passed.
GiveUp(w) ==
  /\ at[w] = "wait" /\ Found = {}
  /\ Does(w, "gone")
  /\ UNCHANGED <<hostVars, link, lapsed, taking, left>>

\* (Variant: one given up is not taken again.)
RenewedIfHeld(w) ==
  [clients EXCEPT ![link[w]] = IF at[w] = "attach" THEN @ \cup {w} ELSE @]

\* A lease taken, renewed, or taken again.
Renewed(w) == [clients EXCEPT ![link[w]] = @ \cup {w}]

\* attach: a lease, then the mark that a window came.
Attach(w) ==
  /\ at[w] = "attach"
  /\ IF Answers(link[w]) THEN clients' = Renewed(w) /\ Does(w, "attached")
     ELSE UNCHANGED clients /\ Does(w, "gone")
  /\ UNCHANGED <<file, pc, tries, claimed, mcp, app, closed, link, lapsed, taking, left>>

Attached(w) ==
  /\ at[w] = "attached"
  /\ IF Answers(link[w]) THEN claimed' = claimed \cup {link[w]} /\ Does(w, "open")
     ELSE UNCHANGED claimed /\ Does(w, "gone")
  /\ UNCHANGED <<file, pc, tries, clients, mcp, app, closed, link, lapsed, taking, left>>

\* A window looks at the state four times a second, and so is heard.  One suspended is not:
\* its lease may lapse, and is taken again by its next look.
Suspend(w) ==
  /\ at[w] = "open"
  /\ Does(w, "suspended") /\ Spend("suspend")
  /\ UNCHANGED <<hostVars, link, lapsed, taking>>

Lapse(w) ==
  /\ at[w] \in {"suspended", "died"} /\ w \notin lapsed
  /\ lapsed' = lapsed \cup {w}
  /\ UNCHANGED <<hostVars, at, link, taking, left>>

State(w) ==
  /\ at[w] = "suspended" /\ Answers(link[w])
  /\ clients' = Renewed(w)
  /\ lapsed' = lapsed \ {w}
  /\ Does(w, "open")
  /\ UNCHANGED <<file, pc, tries, claimed, mcp, app, closed, link, taking, left>>

\* Not answered for ten seconds: it quits.
Lose(w) ==
  /\ at[w] \in {"open", "suspended"} /\ ~Answers(link[w])
  /\ Does(w, "lost")
  /\ link' = [link EXCEPT ![w] = NoHost]
  /\ UNCHANGED <<hostVars, lapsed, taking, left>>

\* mcp on and mcp off, typed at its prompt.
Mcp(w) ==
  /\ at[w] = "open" /\ Answers(link[w]) /\ Spend("mcp")
  /\ mcp' = IF link[w] \in mcp THEN mcp \ {link[w]} ELSE mcp \cup {link[w]}
  /\ UNCHANGED <<file, pc, tries, clients, claimed, app, closed, windowVars, taking>>

\* quit, and detach.
Quit(w) ==
  /\ at[w] = "open" /\ Answers(link[w])
  /\ clients' = [clients EXCEPT ![link[w]] = @ \ {w}]
  /\ Does(w, "gone")
  /\ link' = [link EXCEPT ![w] = NoHost]
  /\ UNCHANGED <<file, pc, tries, claimed, mcp, app, closed, lapsed, taking, left>>

\* Its terminal is closed under it; a host it started runs on.
Die(w) ==
  /\ at[w] \in {"look", "wait", "attach", "attached", "open", "suspended"}
  /\ Does(w, "died") /\ Spend("die")
  /\ link' = [link EXCEPT ![w] = NoHost]
  /\ UNCHANGED <<hostVars, lapsed, taking>>

WindowStep(w) ==
  \/ Open(w) \/ Ensure(w) \/ GiveUp(w) \/ Attach(w) \/ Attached(w) \/ Suspend(w) \/ Lapse(w)
  \/ State(w) \/ Lose(w) \/ Mcp(w) \/ Quit(w) \/ Die(w)

Next ==
  \/ \E h \in Hosts : HostStep(h) \/ Serve(h) \/ ListenFails(h) \/ Crash(h)
                      \/ Age(h) \/ InputCloses(h) \/ App(h)
  \/ \E w \in Windows : WindowStep(w)

Spec == Init /\ [][Next]_vars

\* A host's threads run on, each fourth time round gives leases up, and time passes.
FairSpec ==
  /\ Spec
  /\ \A h \in Hosts : WF_vars(HostStep(h)) /\ SF_vars(Tick(h, TRUE)) /\ WF_vars(Age(h))
  /\ \A w \in Windows : WF_vars(Lapse(w))
=============================================================================

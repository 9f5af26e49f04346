----------------------------- MODULE HostProofs -----------------------------
(***************************************************************************)
(* A window that is heard keeps its host, for any number of windows and    *)
(* servers.                                                                *)
(***************************************************************************)
EXTENDS HostProperties, TLAPS

\* A window with a host: one that answers, or is gone for good.
Linked(w) == at[w] \in {"attach", "attached", "open", "suspended"}
LinksOK == \A w \in Windows : Linked(w) =>
             link[w] \in Hosts /\ (Answers(link[w]) \/ pc[link[w]] = "gone")

\* A window that is heard has its lease, and time has not taken it.
LeasesOK == \A w \in Windows :
  /\ at[w] \in {"attached", "open"} /\ Answers(link[w]) => w \in clients[link[w]]
  /\ w \in lapsed => at[w] \in {"suspended", "died", "lost"}

\* A window that has not looked yet has started no host.
StartsOK == \A w \in Windows : at[w] \in {"off", "look"} => pc[w] = "off"

Inv == TypeOK /\ LinksOK /\ LeasesOK /\ StartsOK

USE DEF Hosts

\* The variables start in their types, with no window linked.
LEMMA InitInv == Init => Inv
  <1> SUFFICES ASSUME Init PROVE Inv OBVIOUS
  <1>1. TypeOK
    BY HostAssumption DEF Init, TypeOK, NoFile
  <1>2. LinksOK /\ LeasesOK /\ StartsOK
    BY DEF Init, LinksOK, LeasesOK, StartsOK, Linked
  <1> QED BY <1>1, <1>2 DEF Inv

-----------------------------------------------------------------------------
(* The steps of a host.                                                    *)

\* A host that answers goes on answering or is gone, and one that is gone stays so: no window
\* comes to another host, nor one heard to lose its lease, which reap leaves alone.
LEMMA HostMoves ==
  ASSUME Inv, NEW h \in Hosts, NEW l, pc' = [pc EXCEPT ![h] = l], pc[h] # "gone",
         Answers(h) => l \in Loop \cup Ending \cup {"gone"},
         pc[h] = "off" => h \notin Windows,
         UNCHANGED windowVars,
         \A g \in Hosts : \/ clients'[g] = clients[g]
                          \/ clients'[g] = clients[g] \ lapsed
                          \/ g = h /\ l = "gone"
  PROVE  LinksOK' /\ LeasesOK' /\ StartsOK'
  <1>1. pc \in [Hosts -> Loop \cup Ending \cup Claiming \cup {"off", "gone"}]
    BY DEF Inv, TypeOK
  <1>2. UNCHANGED <<at, link, lapsed>>
    BY DEF windowVars
  <1>3. \A g \in Hosts : Answers(g) \/ pc[g] = "gone" => (Answers(g) \/ pc[g] = "gone")'
    BY <1>1 DEF Answers
  <1>4. LinksOK'
    BY <1>2, <1>3 DEF Inv, LinksOK, Linked
  <1>5. ASSUME NEW w \in Windows, at[w] \in {"attached", "open"}, Answers(link[w])'
        PROVE  w \in clients'[link[w]]
    <2>1. link[w] \in Hosts /\ (Answers(link[w]) \/ pc[link[w]] = "gone")
      BY <1>5 DEF Inv, LinksOK, Linked
    <2>2. pc'[link[w]] # "gone"
      BY <1>2, <1>5 DEF Answers, Loop, Ending
    <2>3. Answers(link[w])
      BY <1>1, <1>2, <1>5, <2>1, <2>2 DEF Answers
    <2>4. w \in clients[link[w]] /\ w \notin lapsed
      BY <1>5, <2>3 DEF Inv, LeasesOK
    <2> QED BY <1>1, <2>1, <2>2, <2>4
  <1>6. \A w \in Windows : w \in lapsed => at[w] \in {"suspended", "died", "lost"}
    BY DEF Inv, LeasesOK
  <1>7. LeasesOK'
    BY <1>2, <1>5, <1>6 DEF LeasesOK
  <1>8. StartsOK'
    BY <1>1, <1>2 DEF Inv, StartsOK
  <1> QED BY <1>4, <1>7, <1>8

\* What a bound allows goes down by one.
LEMMA SpendType ==
  ASSUME left \in [Events -> Nat], NEW e \in Events, Spend(e)
  PROVE  left' \in [Events -> Nat]
  <1>1. left[e] \in Nat /\ left[e] > 0 /\ left' = [left EXCEPT ![e] = left[e] - 1]
    BY DEF Spend
  <1>2. left[e] - 1 \in Nat
    BY <1>1
  <1> QED BY <1>1, <1>2

\* Each step of a host keeps the invariant.
LEMMA HostStepInv ==
  ASSUME Inv, NEW h \in Hosts,
         HostStep(h) \/ ListenFails(h) \/ Crash(h) \/ Serve(h)
  PROVE  Inv'
  <1> USE DEF Inv, TypeOK, Goto, Loop, Ending, Claiming
  <1>1. CASE Claim(h)
    <2>2. PICK l \in {"start", "look"} : pc' = [pc EXCEPT ![h] = l] BY <1>1 DEF Claim
    <2>4. file' \in [by : Hosts \cup {NoHost}, named : BOOLEAN]
      <3>1. file' = [by |-> h, named |-> FALSE] \/ file' = file BY <1>1 DEF Claim
      <3>2. [by |-> h, named |-> FALSE] \in [by : Hosts \cup {NoHost}, named : BOOLEAN] OBVIOUS
      <3> QED BY <3>1, <3>2
    <2>1. TypeOK' BY <1>1, <2>2, <2>4 DEF Claim, windowVars
    <2>3. LinksOK' /\ LeasesOK' /\ StartsOK' BY <1>1, <2>2, HostMoves DEF Claim, Answers
    <2> QED BY <2>1, <2>3
  <1>2. CASE Look(h)
    <2>1. TypeOK' BY <1>2 DEF Look, windowVars
    <2>2. PICK l \in {"relook", "remove", "gone"} : pc' = [pc EXCEPT ![h] = l] BY <1>2 DEF Look
    <2>3. LinksOK' /\ LeasesOK' /\ StartsOK' BY <1>2, <2>2, HostMoves DEF Look, Answers
    <2> QED BY <2>1, <2>3
  <1>3. CASE Remove(h)
    <2>1. TypeOK' BY <1>3 DEF Remove, windowVars, NoFile
    <2>2. PICK l \in {"claim", "gone"} : pc' = [pc EXCEPT ![h] = l] BY <1>3 DEF Remove
    <2>3. LinksOK' /\ LeasesOK' /\ StartsOK' BY <1>3, <2>2, HostMoves DEF Remove, Answers
    <2> QED BY <2>1, <2>3
  <1>4. CASE Listen(h)
    <2>1. TypeOK' BY <1>4 DEF Listen, windowVars
    <2>3. LinksOK' /\ LeasesOK' /\ StartsOK' BY <1>4, HostMoves DEF Listen, Answers
    <2> QED BY <2>1, <2>3
  <1>5. CASE \E reaps \in BOOLEAN : Tick(h, reaps)
    <2>1. TypeOK' BY <1>5 DEF Tick, windowVars, Kept
    <2>2. PICK l \in {"clients", "stop", "ours"} : pc' = [pc EXCEPT ![h] = l] BY <1>5 DEF Tick
    <2>3. \A g \in Hosts : clients'[g] = clients[g] \/ clients'[g] = clients[g] \ lapsed BY <1>5 DEF Tick, Kept
    <2>4. LinksOK' /\ LeasesOK' /\ StartsOK' BY <1>5, <2>2, <2>3, HostMoves DEF Tick, Answers
    <2> QED BY <2>1, <2>4
  <1>6. CASE Done(h)
    <2>2. PICK l \in {"claimed", "mcp", "cards", "alive", "ours", "stop"} : pc' = [pc EXCEPT ![h] = l]
      BY <1>6 DEF Done, Looked
    <2>1. TypeOK' BY <1>6, <2>2 DEF Done, windowVars
    <2>3. LinksOK' /\ LeasesOK' /\ StartsOK' BY <1>6, <2>2, HostMoves DEF Done, Answers
    <2> QED BY <2>1, <2>3
  <1>7. CASE CheckOurs(h)
    <2>2. PICK l \in {"tick", "stop"} : pc' = [pc EXCEPT ![h] = l] BY <1>7 DEF CheckOurs, AfterOurs
    <2>1. TypeOK' BY <1>7, <2>2 DEF CheckOurs, windowVars
    <2>3. LinksOK' /\ LeasesOK' /\ StartsOK' BY <1>7, <2>2, HostMoves DEF CheckOurs, Answers
    <2> QED BY <2>1, <2>3
  <1>8. CASE Shutdown(h)
    <2>1. TypeOK' BY <1>8 DEF Shutdown, windowVars
    <2>3. LinksOK' /\ LeasesOK' /\ StartsOK' BY <1>8, HostMoves DEF Shutdown, Answers
    <2> QED BY <2>1, <2>3
  <1>9. CASE Unlink(h)
    <2>2. PICK l \in {"remove_own", "end"} : pc' = [pc EXCEPT ![h] = l] BY <1>9 DEF Unlink
    <2>4. file' \in [by : Hosts \cup {NoHost}, named : BOOLEAN]
      <3>1. file' = NoFile \/ file' = file BY <1>9 DEF Unlink
      <3>2. NoFile \in [by : Hosts \cup {NoHost}, named : BOOLEAN] BY DEF NoFile
      <3> QED BY <3>1, <3>2
    <2>1. TypeOK' BY <1>9, <2>2, <2>4 DEF Unlink, windowVars
    <2>3. LinksOK' /\ LeasesOK' /\ StartsOK' BY <1>9, <2>2, HostMoves DEF Unlink, Answers
    <2> QED BY <2>1, <2>3
  <1>10. CASE End(h)
    <2>1. TypeOK' BY <1>10 DEF End, Gone, windowVars
    <2>3. LinksOK' /\ LeasesOK' /\ StartsOK' BY <1>10, HostMoves DEF End, Gone, Answers
    <2> QED BY <2>1, <2>3
  <1>11. CASE ListenFails(h)
    <2>2. left' \in [Events -> Nat] BY <1>11, SpendType DEF ListenFails, Events
    <2>1. TypeOK' BY <1>11, <2>2 DEF ListenFails, windowVars, NoFile
    <2>3. LinksOK' /\ LeasesOK' /\ StartsOK' BY <1>11, HostMoves DEF ListenFails, Answers
    <2> QED BY <2>1, <2>3
  <1>12. CASE Crash(h)
    <2>2. left' \in [Events -> Nat] BY <1>12, SpendType DEF Crash, Events
    <2>1. TypeOK' BY <1>12, <2>2 DEF Crash, Gone, windowVars
    <2>3. LinksOK' /\ LeasesOK' /\ StartsOK' BY <1>12, HostMoves DEF Crash, Gone, Live, Answers
    <2> QED BY <2>1, <2>3
  <1>13. CASE Serve(h)
    <2>1. TypeOK' BY <1>13 DEF Serve, windowVars
    <2>3. LinksOK' /\ LeasesOK' /\ StartsOK' BY <1>13, HostAssumption, HostMoves DEF Serve, Answers
    <2> QED BY <2>1, <2>3
  <1> QED
    BY <1>1, <1>2, <1>3, <1>4, <1>5, <1>6, <1>7, <1>8, <1>9, <1>10, <1>11, <1>12, <1>13 DEF HostStep

-----------------------------------------------------------------------------
(* What happens around a host, and the steps of a window.                  *)

\* Time, an input that closes and instances change no window and no lease.
LEMMA AroundInv ==
  ASSUME Inv, NEW h \in Hosts, Age(h) \/ InputCloses(h) \/ App(h)
  PROVE  Inv'
  <1>1. UNCHANGED <<pc, clients, windowVars>> /\ TypeOK'
    <2>1. CASE Age(h)
      BY <2>1 DEF Age, Inv, TypeOK, windowVars
    <2>2. CASE InputCloses(h)
      BY <2>2 DEF InputCloses, Inv, TypeOK, windowVars
    <2>3. CASE App(h)
      <3>1. PICK a \in AppNext(h) : app' = [app EXCEPT ![h] = a] /\ IF a = "alive" THEN Spend("launch") ELSE UNCHANGED left
        BY <2>3 DEF App
      <3>2. a \in {"none", "alive", "card"}
        BY <3>1 DEF AppNext, Inv, TypeOK
      <3>3. left' \in [Events -> Nat]
        BY <3>1, SpendType DEF Inv, TypeOK, Events
      <3> QED BY <2>3, <3>1, <3>2, <3>3 DEF App, Inv, TypeOK, windowVars
    <2> QED BY <2>1, <2>2, <2>3
  <1>2. LinksOK' /\ LeasesOK' /\ StartsOK'
    BY <1>1 DEF Inv, LinksOK, LeasesOK, StartsOK, Linked, Answers, windowVars
  <1> QED BY <1>1, <1>2 DEF Inv

\* A window's step changes what that window does, and its own lease.
LEMMA WindowMoves ==
  ASSUME Inv, NEW w \in Windows, NEW a,
         at' = [at EXCEPT ![w] = a],
         \A v \in Windows \ {w} : link'[v] = link[v] /\ (v \in lapsed' => v \in lapsed),
         \A g \in Hosts : Answers(g) \/ pc[g] = "gone" => (pc'[g] = pc[g]),
         \A g \in Hosts : Answers(g)' => Answers(g),
         \A g \in Hosts, v \in Windows \ {w} : v \in clients[g] => v \in clients'[g],
         a \in {"attach", "attached", "open", "suspended"} =>
            link'[w] \in Hosts /\ (Answers(link'[w]) \/ pc[link'[w]] = "gone"),
         a \in {"attached", "open"} /\ Answers(link'[w]) => w \in clients'[link'[w]],
         w \in lapsed' => a \in {"suspended", "died", "lost"},
         \A v \in Windows \ {w} : pc'[v] = pc[v],
         a \in {"off", "look"} => pc'[w] = "off"
  PROVE  LinksOK' /\ LeasesOK' /\ StartsOK'
  <1>1. at \in [Windows -> {"off", "look", "wait", "attach", "attached", "open", "suspended", "lost", "gone", "died"}]
    BY DEF Inv, TypeOK
  <1>2. ASSUME NEW v \in Windows, Linked(v)'
        PROVE  link'[v] \in Hosts /\ (Answers(link'[v]) \/ pc[link'[v]] = "gone")
    <2>1. CASE v = w
      BY <1>1, <1>2, <2>1 DEF Linked
    <2>2. CASE v # w
      BY <1>1, <1>2, <2>2 DEF Linked, Inv, LinksOK
    <2> QED BY <2>1, <2>2
  <1>3. LinksOK'
    BY <1>2 DEF LinksOK, Answers
  <1>4. ASSUME NEW v \in Windows, at'[v] \in {"attached", "open"}, Answers(link[v])'
        PROVE  v \in clients'[link'[v]]
    <2>1. link'[v] \in Hosts
      BY <1>2, <1>4 DEF Linked
    <2>2. Answers(link'[v])
      BY <1>4, <2>1 DEF Answers
    <2>3. CASE v = w
      BY <1>1, <1>4, <2>2, <2>3
    <2>4. CASE v # w
      BY <1>1, <1>4, <2>1, <2>2, <2>4 DEF Inv, LeasesOK
    <2> QED BY <2>3, <2>4
  <1>5. ASSUME NEW v \in Windows, v \in lapsed'
        PROVE  at'[v] \in {"suspended", "died", "lost"}
    BY <1>1, <1>5 DEF Inv, LeasesOK
  <1>6. LeasesOK'
    BY <1>4, <1>5 DEF LeasesOK
  <1>7. StartsOK'
    BY <1>1 DEF Inv, StartsOK
  <1> QED BY <1>3, <1>6, <1>7

\* The host a file names, when it answers, answers.
LEMMA FoundAnswers == \A h \in Found : h \in Hosts /\ Answers(h)
  BY DEF Found

LEMMA WindowStepInv ==
  ASSUME Inv, NEW w \in Windows, WindowStep(w)
  PROVE  Inv'
  <1> USE DEF Inv, TypeOK, Does
  <1>a. /\ pc \in [Hosts -> Loop \cup Ending \cup Claiming \cup {"off", "gone"}]
        /\ at \in [Windows -> {"off", "look", "wait", "attach", "attached", "open", "suspended", "lost", "gone", "died"}]
        /\ left \in [Events -> Nat]
    OBVIOUS
  <1>b. \A v \in Windows : Linked(v) => link[v] \in Hosts /\ (Answers(link[v]) \/ pc[link[v]] = "gone")
    BY DEF LinksOK
  <1>c. /\ at[w] \in {"attached", "open"} /\ Answers(link[w]) => w \in clients[link[w]]
        /\ w \in lapsed => at[w] \in {"suspended", "died", "lost"}
        /\ at[w] \in {"off", "look"} => pc[w] = "off"
    BY DEF LeasesOK, StartsOK
  <1>1. CASE Open(w)
    <2>1. TypeOK' BY <1>1 DEF Open, hostVars
    <2>2. LinksOK' /\ LeasesOK' /\ StartsOK' BY <1>1, <1>c, WindowMoves DEF Open, hostVars, Answers
    <2> QED BY <2>1, <2>2
  <1>2. CASE Ensure(w)
    <2>1. CASE at[w] \in {"look", "wait"} /\ Found # {}
      <3>1. PICK h \in Found : link' = [link EXCEPT ![w] = h] /\ at' = [at EXCEPT ![w] = "attach"] /\ UNCHANGED pc
        BY <1>2, <2>1 DEF Ensure
      <3>2. h \in Hosts /\ Answers(h) BY FoundAnswers
      <3>3. TypeOK' BY <1>2, <3>1, <3>2 DEF Ensure
      <3>4. UNCHANGED <<clients, lapsed>> BY <1>2 DEF Ensure
      <3>5. LinksOK' /\ LeasesOK' /\ StartsOK' BY <1>c, <2>1, <3>1, <3>2, <3>4, WindowMoves DEF Answers
      <3> QED BY <3>3, <3>5
    <2>2. CASE at[w] = "look" /\ Found = {}
      <3>1. pc' = [pc EXCEPT ![w] = "claim"] /\ at' = [at EXCEPT ![w] = "wait"] /\ UNCHANGED <<clients, link, lapsed>>
        BY <1>2, <2>2 DEF Ensure, Goto
      <3>3. TypeOK' BY <1>2, <3>1 DEF Ensure, Claiming
      <3>5. LinksOK' /\ LeasesOK' /\ StartsOK' BY <1>c, <2>2, <3>1, WindowMoves DEF Answers, Loop, Ending
      <3> QED BY <3>3, <3>5
    <2> QED BY <1>2, <2>1, <2>2 DEF Ensure
  <1>3. CASE GiveUp(w)
    <2>1. TypeOK' BY <1>3 DEF GiveUp, hostVars
    <2>2. LinksOK' /\ LeasesOK' /\ StartsOK' BY <1>3, <1>c, WindowMoves DEF GiveUp, hostVars, Answers
    <2> QED BY <2>1, <2>2
  <1>4. CASE Attach(w)
    <2>1. TypeOK' BY <1>4, <1>b DEF Attach, Renewed, Linked
    <2>2. LinksOK' /\ LeasesOK' /\ StartsOK' BY <1>4, <1>b, <1>c, WindowMoves DEF Attach, Renewed, Linked, Answers
    <2> QED BY <2>1, <2>2
  <1>5. CASE Attached(w)
    <2>1. TypeOK' BY <1>5, <1>b DEF Attached, Linked
    <2>2. LinksOK' /\ LeasesOK' /\ StartsOK' BY <1>5, <1>b, <1>c, WindowMoves DEF Attached, Linked, Answers
    <2> QED BY <2>1, <2>2
  <1>6. CASE Suspend(w)
    <2>1. left' \in [Events -> Nat] BY <1>6, SpendType DEF Suspend, Events
    <2>2. TypeOK' BY <1>6, <2>1 DEF Suspend, hostVars
    <2>3. LinksOK' /\ LeasesOK' /\ StartsOK' BY <1>6, <1>b, <1>c, WindowMoves DEF Suspend, hostVars, Linked, Answers
    <2> QED BY <2>2, <2>3
  <1>7. CASE Lapse(w)
    <2>1. TypeOK' BY <1>7 DEF Lapse, hostVars
    <2>2. LinksOK' /\ LeasesOK' /\ StartsOK'
      BY <1>7 DEF Lapse, hostVars, LinksOK, LeasesOK, StartsOK, Linked, Answers
    <2> QED BY <2>1, <2>2
  <1>8. CASE State(w)
    <2>1. TypeOK' BY <1>8, <1>b DEF State, Renewed, Linked
    <2>2. LinksOK' /\ LeasesOK' /\ StartsOK' BY <1>8, <1>b, <1>c, WindowMoves DEF State, Renewed, Linked, Answers
    <2> QED BY <2>1, <2>2
  <1>9. CASE Lose(w)
    <2>1. TypeOK' BY <1>9 DEF Lose, hostVars
    <2>2. LinksOK' /\ LeasesOK' /\ StartsOK' BY <1>9, <1>c, WindowMoves DEF Lose, hostVars, Answers
    <2> QED BY <2>1, <2>2
  <1>10. CASE Mcp(w)
    <2>1. left' \in [Events -> Nat] BY <1>10, SpendType DEF Mcp, Events
    <2>2. TypeOK' BY <1>10, <2>1, <1>b DEF Mcp, windowVars, Linked
    <2>3. LinksOK' /\ LeasesOK' /\ StartsOK'
      BY <1>10 DEF Mcp, windowVars, LinksOK, LeasesOK, StartsOK, Linked, Answers
    <2> QED BY <2>2, <2>3
  <1>11. CASE Quit(w)
    <2>1. TypeOK' BY <1>11 DEF Quit
    <2>2. LinksOK' /\ LeasesOK' /\ StartsOK' BY <1>11, <1>b, <1>c, WindowMoves DEF Quit, Linked, Answers
    <2> QED BY <2>1, <2>2
  <1>12. CASE Die(w)
    <2>1. left' \in [Events -> Nat] BY <1>12, SpendType DEF Die, Events
    <2>2. TypeOK' BY <1>12, <2>1 DEF Die, hostVars
    <2>3. LinksOK' /\ LeasesOK' /\ StartsOK' BY <1>12, <1>c, WindowMoves DEF Die, hostVars, Answers
    <2> QED BY <2>2, <2>3
  <1> QED
    BY <1>1, <1>2, <1>3, <1>4, <1>5, <1>6, <1>7, <1>8, <1>9, <1>10, <1>11, <1>12 DEF WindowStep

-----------------------------------------------------------------------------

\* The invariant holds throughout: types, links and leases.
THEOREM HostInvariant == Spec => []Inv
  <1>1. ASSUME Inv, [Next]_vars PROVE Inv'
    <2>1. CASE UNCHANGED vars
      BY <1>1, <2>1 DEF Inv, TypeOK, LinksOK, LeasesOK, StartsOK, Linked, Answers, vars, hostVars, windowVars
    <2>2. CASE Next
      BY <1>1, <2>2, HostStepInv, AroundInv, WindowStepInv DEF Next
    <2> QED BY <1>1, <2>1, <2>2
  <1> QED BY InitInv, <1>1, PTL DEF Spec

\* The types of the host's variables, for all constants.
THEOREM HostTypes == Spec => []TypeOK
  BY HostInvariant, PTL DEF Inv

\* A host that looks for windows (done) and finds none has none that attached before and is
\* heard: a lease given up for silence (reap) was taken again with the window's next look
\* (renew).  So for any number of windows, servers and faults.
THEOREM WindowsKeepHosts == Spec => HeardKeeps
  <1>1. ASSUME Inv, Next
        PROVE  \A h \in Hosts : pc[h] = "clients" /\ pc'[h] = "claimed" =>
                 ~\E w \in Windows : at[w] = "open" /\ link[w] = h
    <2> SUFFICES ASSUME NEW h \in Hosts, pc[h] = "clients", pc'[h] = "claimed",
                        NEW w \in Windows, at[w] = "open", link[w] = h
                 PROVE  FALSE
      OBVIOUS
    <2>1. w \in clients[h]
      BY <1>1 DEF Inv, LeasesOK, Answers, Loop
    <2>2. pc \in [Hosts -> Loop \cup Ending \cup Claiming \cup {"off", "gone"}]
      BY <1>1 DEF Inv, TypeOK
    <2>3. ASSUME NEW g \in Hosts, NEW l, pc' = [pc EXCEPT ![g] = l], l # "claimed" \/ pc[g] # "clients"
          PROVE  FALSE
      BY <2>2, <2>3
    <2>4. ASSUME NEW g \in Hosts, Done(g)
          PROVE  FALSE
      <3>1. g = h
        BY <2>2, <2>4 DEF Done, Goto
      <3>2. Looked(h) = "ours"
        BY <2>1 DEF Looked
      <3> QED BY <2>2, <2>4, <3>1, <3>2 DEF Done, Goto
    <2>5. ASSUME NEW g \in Hosts, HostStep(g) \/ ListenFails(g) \/ Crash(g) \/ Serve(g)
          PROVE  FALSE
      <3>1. \/ Claim(g) \/ Look(g) \/ Remove(g) \/ Listen(g) \/ \E reaps \in BOOLEAN : Tick(g, reaps)
            \/ CheckOurs(g) \/ Shutdown(g) \/ Unlink(g) \/ End(g)
            \/ ListenFails(g) \/ Crash(g) \/ Serve(g)
        BY <2>4, <2>5 DEF HostStep
      <3>2. \E l : pc' = [pc EXCEPT ![g] = l] /\ l # "claimed"
        BY <3>1 DEF Claim, Look, Remove, Listen, Tick, CheckOurs, AfterOurs, Shutdown, Unlink,
                    End, ListenFails, Crash, Gone, Serve, Goto
      <3> QED BY <2>3, <3>2
    <2>6. ASSUME NEW g \in Hosts, Age(g) \/ InputCloses(g) \/ App(g)
          PROVE  FALSE
      BY <2>6 DEF Age, InputCloses, App
    <2>7. ASSUME NEW v \in Windows, WindowStep(v)
          PROVE  FALSE
      <3>1. pc' = [pc EXCEPT ![v] = "claim"] \/ pc' = pc
        BY <2>7 DEF WindowStep, Open, Ensure, GiveUp, Attach, Attached, Suspend, Lapse, State,
                    Lose, Mcp, Quit, Die, Goto, hostVars
      <3> QED BY <2>3, <3>1
    <2> QED BY <1>1, <2>5, <2>6, <2>7 DEF Next
  <1>2. ASSUME Inv, [Next]_vars
        PROVE  [\A h \in Hosts : pc[h] = "clients" /\ pc'[h] = "claimed" =>
                  ~\E w \in Windows : at[w] = "open" /\ link[w] = h]_vars
    BY <1>1, <1>2
  <1> QED BY HostInvariant, <1>2, PTL DEF Spec, HeardKeeps
=============================================================================

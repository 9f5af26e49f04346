------------------------------ MODULE MCBinder ------------------------------
(***************************************************************************)
(* Small instances of Binder for TLC.                                      *)
(***************************************************************************)
EXTENDS BinderProperties, TLC

Proc3 == [c1 |-> "client", c2 |-> "client", s1 |-> "server", s2 |-> "server", s3 |-> "server",
          d1 |-> "third"]
Threads6 == DOMAIN Proc3
Owner3 == [a |-> "server", b |-> "client", e |-> "server"]

Loops == <<C("enter")>>
Asked == C("register")

ToServer == ("a" :> {"client", "third"})

Scenario(f) ==
  [program |-> [t \in Threads6 |-> IF t \in DOMAIN f THEN f[t] ELSE <<>>],
   started |-> {t \in DOMAIN f : f[t] = <<>> \/ f[t][1] # Asked}, known |-> ToServer, signals |-> {}, remote |-> {}, area |-> [p \in {"client", "server", "third"} |-> {}],
   max_threads |-> [p \in {"client", "server", "third"} |-> 0]]

\* Two oneways to one object: the one looper asks for another, which is interrupted and
\* leaves.
OneWays == [Scenario([c1 |-> <<Call(1, TRUE, "plain", Nothing), Call(1, TRUE, "plain", Nothing)>>,
                      s1 |-> Loops, s2 |-> <<Asked, C("thread_exit")>>, s3 |-> <<Asked>>])
            EXCEPT !.signals = {"s2"}, !.max_threads["server"] = 1]

\* Oneways to two objects, and one place for two loopers to receive them.
TwoObjects == [Scenario([c1 |-> <<Call(1, TRUE, "plain", Nothing), Call(2, TRUE, "plain", Nothing)>>,
                         s1 |-> Loops, s2 |-> Loops])
               EXCEPT !.known = ToServer @@ ("e" :> {"client"}), !.area["server"] = {2}]

\* No place to receive one, by a looper that asked for another and is interrupted.
NoPlace == [Scenario([c1 |-> <<Call(1, TRUE, "plain", Nothing), Call(1, FALSE, "plain", Nothing)>>,
                      s1 |-> Loops, s2 |-> <<Asked>>])
            EXCEPT !.signals = {"s1"}, !.max_threads["server"] = 1, !.area["server"] = {1, 2}]

\* A call served with a call back.
Nested1 == Scenario([c1 |-> <<Call(1, FALSE, "back", Binder("b"))>>, s1 |-> Loops])

\* An object handed over, taken up and let go while another thread of its process reads.
Handovers == Scenario([c1 |-> <<Call(1, TRUE, "take", Binder("b"))>>, c2 |-> Loops, s1 |-> Loops])

\* An object handed over again before its owner reads of its release.
Again == Scenario([c1 |-> <<Call(1, TRUE, "take", Binder("b")), Call(1, TRUE, "take", Binder("b")), C("enter")>>,
                   s1 |-> Loops])

\* A handle handed home and back, and let go while another thread of its process calls on it.
Returns == [Scenario([c1 |-> <<Call(1, FALSE, "give", Handle(1)), OnHandle("release", 1)>>,
                      c2 |-> <<Call(1, TRUE, "plain", Handle(1))>>,
                      s1 |-> Loops])
            EXCEPT !.known = ("a" :> {"client"})]

\* A process that ends while it is called.
Deaths == Scenario([c1 |-> <<Call(1, FALSE, "plain", Nothing), Call(1, TRUE, "plain", Nothing)>>,
                    s1 |-> Loops, s2 |-> <<C("exit")>>])

\* One process is told of another's end, and one watches it no more.
Watches == Scenario([c1 |-> <<OnHandle("watch", 1), [c |-> "told", obj |-> "a"]>>,
                     c2 |-> Loops, s2 |-> <<C("exit")>>,
                     d1 |-> <<OnHandle("watch", 1), OnHandle("clear", 1), C("enter")>>])

\* A process of another host process that ends while it calls and is called.
Remotes == [Scenario([c1 |-> <<Call(1, FALSE, "plain", Nothing)>>,
                      s1 |-> <<Call(2, TRUE, "plain", Nothing), C("enter")>>, s2 |-> <<C("exit")>>])
            EXCEPT !.remote = {"server"}, !.known = ("a" :> {"client"}) @@ ("b" :> {"server"})]

AllScenarios == {OneWays, TwoObjects, NoPlace, Nested1, Handovers, Again, Returns, Deaths, Watches, Remotes}
=============================================================================

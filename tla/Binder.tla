-------------------------------- MODULE Binder --------------------------------
(***************************************************************************)
(* Guest processes over binder's driver, as libbinder uses it: threads     *)
(* that make calls, threads of a pool that serve them and call back,       *)
(* objects handed over and let go, processes that end.                     *)
(***************************************************************************)
EXTENDS BinderDriver, Integers

CONSTANTS Scenarios   \* what a run starts with

VARIABLES program,    \* program[t]: what t has yet to do
          started,    \* the threads there are
          strong,     \* strong[o]: how often o's owner was told to hold it, less to let it go
          deaths      \* deaths[p]: the objects whose death p was told

\* What a program may do; a thread made for a looper asked for registers first, no other does.
Codes == {"plain", "back", "give", "take"}
Carriable == [kind : {"nothing"}] \cup [kind : {"binder"}, obj : Objects]
             \cup [kind : {"handle"}, handle : Handles]
Ops == [c : {"transaction"}, handle : Handles, oneway : BOOLEAN, code : Codes, carries : Carriable]
       \cup [c : {"release", "watch", "clear"}, handle : Handles] \cup [c : {"told"}, obj : Objects]
       \cup [c : {"enter", "register", "thread_exit", "exit"}]

ASSUME ScenarioAssumption ==
  \A s \in Scenarios :
    /\ s.program \in [Threads -> Seq(Ops)] /\ s.started \subseteq Threads /\ s.signals \subseteq Threads
    /\ \A t \in Threads : \A i \in DOMAIN s.program[t] :
         s.program[t][i].c = "register" => i = 1 /\ t \notin s.started
    /\ IsFiniteSet(DOMAIN s.known) /\ DOMAIN s.known \subseteq Objects
    /\ Cardinality(DOMAIN s.known) <= MaxNode
    /\ s.area \in [Procs -> SUBSET Buffers] /\ s.remote \subseteq Procs
    /\ s.max_threads \in [Procs -> Nat]

guest == <<program, started, strong, deaths>>
vars == <<driver, th, exiting, guest>>

NewThread == [at |-> "guest", cmds |-> <<>>, reads |-> FALSE, caller |-> NoThread, work |-> Plain("none"),
              buf |-> 0, got |-> Plain("none"), asked |-> FALSE, registered |-> FALSE, takes |-> FALSE,
              signal |-> FALSE, spawn |-> FALSE, frames |-> <<>>, pool |-> FALSE]

\* Each object in `known` has a node its processes have handles on, held by its owner.
Init ==
  /\ \E s \in Scenarios :
       LET known == InOrder(DOMAIN s.known)
           node(o) == CHOOSE i \in DOMAIN known : known[i] = o
           refs == [p \in Procs |-> [h \in Handles |->
                     IF h <= Len(known) /\ p \in s.known[known[h]] THEN h ELSE 0]] IN
       /\ program = s.program /\ started = s.started /\ area = s.area
       /\ th = [t \in Threads |-> [NewThread EXCEPT !.signal = t \in s.signals]]
       /\ strong = [o \in Objects |-> IF o \in DOMAIN s.known THEN 1 ELSE 0]
       /\ st = [node |-> [n \in Nodes |-> IF n <= Len(known)
                            THEN [NoNode EXCEPT !.obj = known[n], !.held = TRUE] ELSE NoNode],
                next_node |-> Len(known) + 1,
                local |-> [o \in Objects |-> IF o \in DOMAIN s.known THEN node(o) ELSE 0],
                refs |-> refs,
                counts |-> [p \in Procs |-> [h \in Handles |-> IF refs[p][h] = 0 THEN 0 ELSE 1]],
                last_handle |-> [p \in Procs |-> Len(known)],
                pins |-> [n \in Nodes |-> 0],
                todo |-> [p \in Procs |-> <<>>], own |-> [t \in Threads |-> <<>>],
                looper |-> {}, idle |-> {}, serving |-> [t \in Threads |-> <<>>],
                awaiting |-> [t \in Threads |-> 0], spawn_requested |-> [p \in Procs |-> 0],
                max_threads |-> s.max_threads, remote |-> s.remote, dead |-> {}, buffers |-> {},
                waiting |-> [p \in Procs |-> <<>>], watching |-> {}, woken |-> {}]
  /\ exiting = {}
  /\ deaths = [p \in Procs |-> {}]

-----------------------------------------------------------------------------
(* A thread between its calls of the driver.                               *)

InGuest(t) == th[t].at = "guest" /\ t \in started /\ proc[t] \notin exiting

Top(t) == IF th[t].frames = <<>> THEN [kind |-> "none"] ELSE Last(th[t].frames)
Frame(kind) == [kind |-> kind]

\* A call of the driver: what was put off and `cmds` written, then a read or none.
Calls(r, cmds, reads) == Writes([r EXCEPT !.reads = reads], r.cmds \o cmds)
Pushed(r, frame) == [r EXCEPT !.frames = Append(@, frame)]
Popped(r) == [r EXCEPT !.frames = Front(@)]
Later(r, cmd) == [r EXCEPT !.cmds = Append(@, cmd)]
InPool(r, in) == [r EXCEPT !.pool = in]
On(r, phase, frame) ==
  [r EXCEPT !.frames = Front(r.frames) \o <<[Last(r.frames) EXCEPT !.phase = phase], Frame(frame)>>]

C(name) == [c |-> name]
OnHandle(name, h) == [c |-> name, handle |-> h]
Call(h, oneway, code, carries) ==
  [c |-> "transaction", handle |-> h, oneway |-> oneway, code |-> code, carries |-> carries]
OnBuffer(b) == [c |-> "free", buf |-> b]

\* The next of its program.
Begin(t) ==
  /\ InGuest(t) /\ th[t].frames = <<>> /\ program[t] # <<>>
  /\ LET op == Head(program[t]) IN
     \/ /\ op.c = "transaction"
        /\ th' = [th EXCEPT ![t] = Calls(Pushed(@, Frame(IF op.oneway THEN "sent" ELSE "await")),
                                         <<op>>, TRUE)]
     \/ /\ op.c \in {"release", "watch", "clear", "thread_exit"}
        /\ th' = [th EXCEPT ![t] = Calls(InPool(@, th[t].pool /\ op.c # "thread_exit"), <<op>>, FALSE)]
     \/ /\ op.c \in {"enter", "register"}
        /\ th' = [th EXCEPT ![t] = Calls(InPool(@, TRUE), <<op>>, TRUE)]
     \/ /\ op.c = "told" /\ op.obj \in deaths[proc[t]]
        /\ UNCHANGED th
  /\ program' = [program EXCEPT ![t] = Tail(@)]
  /\ UNCHANGED <<driver, exiting, started, strong, deaths>>

\* It waits for what it called, or as a thread of the pool for work; or it has nothing to do
\* but to write what it put off.
Continue(t) ==
  /\ InGuest(t) /\ Top(t).kind # "serve"
  /\ \/ th[t].frames # <<>> \/ (program[t] = <<>> /\ th[t].pool)
     \/ program[t] = <<>> /\ th[t].cmds # <<>>
  /\ th' = [th EXCEPT ![t] = Calls(@, <<>>, th[t].frames # <<>> \/ th[t].pool)]
  /\ UNCHANGED <<driver, exiting, guest>>

\* A call served: a call back first, the reply, and then its buffer freed.
CallBack(t) ==
  /\ InGuest(t) /\ Top(t).kind = "serve" /\ Top(t).phase = "back"
  /\ th' = [th EXCEPT ![t] = Calls(On(@, "reply", "await"),
                                   <<Call(Top(t).handle, FALSE, "plain", Nothing)>>, TRUE)]
  /\ UNCHANGED <<driver, exiting, guest>>

SendReply(t) ==
  /\ InGuest(t) /\ Top(t).kind = "serve" /\ Top(t).phase = "reply"
  /\ th' = [th EXCEPT ![t] = Calls(On(@, "done", "sent"),
                                   <<[c |-> "reply", carries |-> Top(t).returns]>>, TRUE)]
  /\ UNCHANGED <<driver, exiting, guest>>

Served(t) ==
  /\ InGuest(t) /\ Top(t).kind = "serve" /\ Top(t).phase = "done"
  /\ th' = [th EXCEPT ![t] = Later(Popped(@), OnBuffer(Top(t).buf))]
  /\ UNCHANGED <<driver, exiting, guest>>

\* What it read: a wait is over, a call is to be served, an object is held or let go.  A
\* handle that comes with a "take" is taken up and, the buffer freed, left; one that comes
\* with a "back" is called back.
Comes(txn, code) == txn.code = code /\ txn.carries.kind = "handle"

Received(r, txn, buf) ==
  LET handle == txn.carries.handle
      cmds == IF Comes(txn, "take")
              THEN <<OnHandle("acquire", handle), OnBuffer(buf), OnHandle("release", handle)>>
              ELSE <<OnBuffer(buf)>> IN
  IF txn.oneway THEN [r EXCEPT !.cmds = @ \o cmds]
  ELSE Pushed(r, [kind |-> "serve", buf |-> buf, phase |-> IF Comes(txn, "back") THEN "back" ELSE "reply",
                  handle |-> IF Comes(txn, "back") THEN txn.carries.handle ELSE 0,
                  returns |-> IF txn.code = "give" THEN Binder(txn.to) ELSE Nothing])

Understood(t) ==
  LET r == [th[t] EXCEPT !.at = "guest", !.spawn = FALSE]
      got == th[t].got
      over == IF Top(t).kind \in {"await", "sent"} THEN Popped(r) ELSE r IN
  CASE got.kind = "complete" -> IF Top(t).kind = "sent" THEN over ELSE r
    [] got.kind \in {"dead_reply", "failed_reply", "return_error"} -> over
    [] got.kind = "txn" /\ got.reply -> Later(over, OnBuffer(r.buf))
    [] got.kind = "txn" /\ ~got.reply -> Received(r, got, r.buf)
    [] got.kind = "acquire" -> Later(r, [c |-> "acquire_done", obj |-> got.obj])
    [] OTHER -> r

\* The threads of a process that may be started when a looper is asked for.
Spare(p) == {u \in ThreadsOf(p) \ started : program[u] # <<>> /\ Head(program[u]).c = "register"}

Execute(t) ==
  /\ th[t].at = "execute" /\ proc[t] \notin exiting
  /\ th' = [th EXCEPT ![t] = Understood(t)]
  /\ LET got == th[t].got IN
     /\ strong' = IF got.kind = "acquire" THEN [strong EXCEPT ![got.obj] = @ + 1]
                  ELSE IF got.kind = "release" THEN [strong EXCEPT ![got.obj] = @ - 1] ELSE strong
     /\ deaths' = IF got.kind = "dead" THEN [deaths EXCEPT ![proc[t]] = @ \cup {got.obj}] ELSE deaths
  /\ IF th[t].spawn THEN \E u \in Spare(proc[t]) : started' = started \cup {u}
     ELSE UNCHANGED started
  /\ UNCHANGED <<driver, exiting, program>>

\* The process ends: its driver closed, and its threads run no more.
Exit(t) ==
  /\ InGuest(t) /\ th[t].frames = <<>> /\ program[t] # <<>> /\ Head(program[t]).c = "exit"
  /\ Close(proc[t])
  /\ program' = [program EXCEPT ![t] = Tail(@)]
  /\ UNCHANGED <<th, started, strong, deaths>>

GuestStep(t) ==
  Begin(t) \/ Continue(t) \/ CallBack(t) \/ SendReply(t) \/ Served(t) \/ Execute(t) \/ Exit(t)

DriverStep(t) == (Write(t) \/ ThreadExit(t) \/ Read(t)) /\ UNCHANGED guest

Step(t) == GuestStep(t) \/ DriverStep(t)

Next == \/ \E t \in Threads : Step(t) \/ (Slice(t) /\ UNCHANGED guest)
        \/ \E p \in Procs : Release(p) /\ UNCHANGED guest

Spec == Init /\ [][Next]_vars

\* Host threads are scheduled, and a driver nothing refers to is released; no read counts
\* on its slice.
FairSpec == Spec /\ \A t \in Threads : WF_vars(Step(t))
                 /\ \A p \in Procs : WF_vars(Release(p) /\ UNCHANGED guest)

\* A transaction or a reply that goes out.
Carries(t) ==
  /\ ~Gone(proc[t])
  /\ \/ LET n == st.refs[proc[t]][Arg(t).handle] IN
        /\ Command(t, "transaction") /\ n # 0
        /\ ~st.node[n].dead /\ owner[st.node[n].obj] \notin st.dead
     \/ th[t].at = "reply" /\ th[t].caller # NoThread /\ proc[th[t].caller] \notin st.dead

\* When Step(t) is enabled.
CanStep(t) ==
  \/ /\ th[t].at \notin {"guest", "execute", "asleep"}
     /\ Carries(t) => CanCarry(st, t, Arg(t).carries)
  \/ th[t].at = "asleep" /\ (t \in st.woken \/ th[t].signal)
  \/ th[t].at = "execute" /\ proc[t] \notin exiting /\ (th[t].spawn => Spare(proc[t]) # {})
  \/ /\ InGuest(t)
     /\ \/ th[t].frames # <<>>
        \/ program[t] # <<>> /\ (Head(program[t]).c = "told" => Head(program[t]).obj \in deaths[proc[t]])
        \/ program[t] = <<>> /\ (th[t].pool \/ th[t].cmds # <<>>)

\* FairSpec with its ENABLED written out, which TLC would take long to find.
CanSpec ==
  /\ Spec
  /\ \A t \in Threads : []<>~CanStep(t) \/ []<><<Step(t)>>_vars
  /\ \A p \in Procs : []<>~CanRelease(p) \/ []<><<Release(p) /\ UNCHANGED guest>>_vars
=============================================================================

---------------------------- MODULE BrokerProofs ----------------------------
(***************************************************************************)
(* The binder's record of nodes, handles, queues and buffers, proved: what *)
(* the driver's operators keep of it.                                      *)
(*                                                                         *)
(* The invariant of the binder is here, Inv; BinderProofs proves it of the *)
(* specification.  SpawnCounted and OneWayOut are not inductive.  A looper *)
(* asked for is owed by the read that asked, or is about to register, so   *)
(* Inv says where a thread may owe one, and that a program registers once  *)
(* and first (SpawnsOK).  A node's oneway is in its owner's queue, in one  *)
(* reader's hands or in one buffer, and moves between them (OneOut); it is *)
(* one buffer's because a place of a receive area is in one pair of hands, *)
(* from its alloc through a frame or a command to its free (AreasOK), and  *)
(* has one record (RecordsOK).  While a section has a node's oneway done   *)
(* with and the next not sent, the node is due it (DueNext), and so Good   *)
(* has the node that is due as its parameter.                              *)
(*                                                                         *)
(* Most of what the driver does is no matter to this: Steady says so of an *)
(* operator, and so of a loop over a list (FoldProofs).                    *)
(***************************************************************************)
EXTENDS BinderProperties, FiniteSetTheorems, TLAPS

-----------------------------------------------------------------------------
(* The types.                                                              *)

\* The fields of the driver's record.
BrokerFields == {"node", "next_node", "local", "refs", "counts", "last_handle", "pins", "todo", "own",
                 "looper", "idle", "serving", "awaiting", "spawn_requested", "max_threads", "remote",
                 "dead", "buffers", "waiting", "watching", "woken"}

\* Transactions on their way.
Flying(reply, oneway, to, async, pinned) ==
  [kind : {"txn"}, reply : reply, oneway : oneway, from : Threads \cup {NoThread}, to : to,
   code : Codes \cup {"reply"}, carries : Carriable, async : async, pinned : pinned]
CallTxns == Flying({FALSE}, BOOLEAN, Objects, 0 .. MaxNode, Seq(Nodes) \ {<<>>})
ReplyTxns == Flying({TRUE}, {FALSE}, {NoObject}, {0}, Seq(Nodes))
Txns == CallTxns \cup ReplyTxns
Told == [kind : {"acquire", "release", "dead", "cleared"}, obj : Objects]
Notes == [kind : {"none", "complete", "dead_reply", "failed_reply", "return_error"}]
Work == Txns \cup Told \cup Notes

\* Work that is a node's oneway, and what is no node's.
IsAsync(w, n) == w.kind = "txn" /\ w.async = n
Sync == {w \in Work : w.kind = "txn" => w.async = 0}

MadeNodes == [obj : Objects, held : BOOLEAN, acquiring : BOOLEAN, deferred : BOOLEAN, dead : BOOLEAN,
              watchers : SUBSET Procs, has_async : BOOLEAN, async_todo : Seq(Txns)]
Buffered == [proc : Procs, at : Buffers, async : 0 .. MaxNode, pinned : Seq(Nodes)]

NodesOK(s) ==
  /\ s.node \in [Nodes -> MadeNodes \cup {NoNode}]
  /\ s.next_node \in Nat \ {0}
  /\ \A n \in Nodes : n >= s.next_node => s.node[n] = NoNode

RefsOK(s) ==
  /\ s.local \in [Objects -> 0 .. MaxNode]
  /\ \A o \in Objects : s.local[o] # 0 => s.node[s.local[o]].obj \in Objects
  /\ s.refs \in [Procs -> [Handles -> 0 .. MaxNode]]
  /\ \A p \in Procs, h \in Handles : s.refs[p][h] # 0 => s.node[s.refs[p][h]].obj \in Objects
  /\ s.last_handle \in [Procs -> Nat]

QueuesOK(s) ==
  /\ s.todo \in [Procs -> Seq(Work)]
  /\ s.own \in [Threads -> Seq(Sync)]
  /\ s.serving \in [Threads -> Seq(Threads \cup {NoThread})]

BuffersOK(s) == s.buffers \subseteq Buffered /\ IsFiniteSet(s.buffers)

\* The node of a oneway is of the process it is queued for, waits for or is placed in.
At(s, n, p) == n \in Nodes /\ s.node[n].obj \in Objects /\ owner[s.node[n].obj] = p
PlacesOK(s) ==
  /\ \A p \in Procs : \A i \in DOMAIN s.todo[p] :
       s.todo[p][i].kind = "txn" /\ s.todo[p][i].async # 0 => At(s, s.todo[p][i].async, p)
  /\ \A n \in Nodes : \A i \in DOMAIN s.node[n].async_todo : s.node[n].async_todo[i].async = n
  /\ \A b \in s.buffers : b.async # 0 => At(s, b.async, b.proc)

CountsOK(s) == s.spawn_requested \in [Procs -> Nat] /\ s.dead \subseteq Procs

\* The record of the driver has its fields and they their types.
BrokerOK(s) ==
  /\ BrokerFields \subseteq DOMAIN s
  /\ NodesOK(s) /\ RefsOK(s) /\ QueuesOK(s) /\ BuffersOK(s) /\ PlacesOK(s) /\ CountsOK(s)

\* The commands a thread writes, and its frames.
Commands ==
  Ops \cup [c : {"free"}, buf : Buffers] \cup [c : {"acquire"}, handle : Handles]
  \cup [c : {"acquire_done"}, obj : Objects] \cup [c : {"reply"}, carries : Carriable]
Serving(phase, handle) == [kind : {"serve"}, buf : Buffers, phase : phase, handle : handle, returns : Carriable]
Frames == [kind : {"await", "sent"}] \cup Serving({"back"}, Handles)
          \cup Serving({"reply", "done"}, Handles \cup {0})

\* A transaction is placed, and its place in the thread's hands.
Holds(r) == r.at = "placed" \/ (r.at \in {"hand", "read_ends", "execute"} /\ r.got.kind = "txn")

\* A thread's record, and what its step says of it.
ThreadTypes ==
  [at : {"guest", "write", "reply", "look", "watch", "asleep", "deliver", "placed", "hand", "read_ends",
         "read_fails", "execute"},
   cmds : Seq(Commands), reads : BOOLEAN, caller : Threads \cup {NoThread}, work : Work,
   buf : Buffers \cup {0}, got : Work, asked : BOOLEAN, registered : BOOLEAN, takes : BOOLEAN,
   signal : BOOLEAN, spawn : BOOLEAN, frames : Seq(Frames), pool : BOOLEAN]
ThreadOK(r) ==
  /\ r \in ThreadTypes
  /\ r.at = "reply" => r.cmds # <<>> /\ Head(r.cmds).c = "reply"
  /\ r.at = "placed" => r.work.kind = "txn"
  /\ Holds(r) => r.buf \in Buffers

\* A transaction taken off the process's queue is of its node's process.
InHands(r) == r.at \in {"deliver", "placed"}
HandsOK(s, h) == \A t \in Threads :
  InHands(h[t]) /\ h[t].work.kind = "txn" /\ h[t].work.async # 0 => At(s, h[t].work.async, proc[t])

\* What is kept outside the driver.
GuestOK ==
  /\ program \in [Threads -> Seq(Ops)] /\ started \subseteq Threads /\ exiting \subseteq Procs
  /\ area \in [Procs -> SUBSET Buffers]

-----------------------------------------------------------------------------
(* A looper asked for.                                                     *)

\* Where a sequence has one of a set.
Hits(seq, S) == {i \in DOMAIN seq : seq[i] \in S}

\* It has one there at most.
Single(I) == \A i, j \in I : i = j

\* Where a list registers a looper; a thread owes one only while it reads or takes up what it
\* read, and its program registers as its first step, once.
RegisterIn(seq) == Hits(seq, {op \in Commands : op.c = "register"})
SpawnOK(r, prog, there) ==
  /\ r.spawn => r.at = "execute"
  /\ r.asked => r.at \notin {"guest", "write", "reply", "execute"}
  /\ ~there => r.at = "guest" /\ r.cmds = <<>>
  /\ RegisterIn(prog) \subseteq {1}
  /\ RegisterIn(prog) # {} => RegisterIn(r.cmds) = {}
  /\ Single(RegisterIn(r.cmds))
SpawnsOK == \A t \in Threads : SpawnOK(th[t], program[t], t \in started)

-----------------------------------------------------------------------------
(* Places of a receive area: each in use is in one pair of hands.          *)

\* A place is in a thread's hands as a buffer to be freed, one of a call it serves, or one it
\* reads into; it is once.
Frees(r, b) == Hits(r.cmds, {op \in Commands : op.c = "free" /\ op.buf = b})
Serves(r, b) == Hits(r.frames, {frame \in Frames : frame.kind = "serve" /\ frame.buf = b})
HoldsAt(r, b) == Holds(r) /\ r.buf = b
Has(r, b) == Frees(r, b) # {} \/ Serves(r, b) # {} \/ HoldsAt(r, b)
Once(r, b) ==
  /\ Single(Frees(r, b)) /\ Single(Serves(r, b))
  /\ Frees(r, b) = {} \/ Serves(r, b) = {}
  /\ HoldsAt(r, b) => Frees(r, b) = {} /\ Serves(r, b) = {}

\* What is in hands is in use, and in one thread's hands.
AreasOK ==
  /\ \A t \in Threads, b \in Buffers : Once(th[t], b) /\ (Has(th[t], b) => b \in area[proc[t]])
  /\ \A t, u \in Threads, b \in Buffers :
       proc[t] = proc[u] /\ Has(th[t], b) /\ Has(th[u], b) => t = u

\* A record is of a place in use, that nobody reads into yet; a place has one.
RecordsOK ==
  /\ \A r \in st.buffers :
       /\ r.at \in area[r.proc]
       /\ \A t \in Threads : th[t].at = "placed" /\ proc[t] = r.proc => th[t].buf # r.at
  /\ \A r, q \in st.buffers : r.proc = q.proc /\ r.at = q.at => r = q

-----------------------------------------------------------------------------
(* A node's oneway that is out.                                            *)

\* Where a node's oneway is.
InQueue(s, n, p) == {i \in DOMAIN s.todo[p] : IsAsync(s.todo[p][i], n)}
InHand(h, n) == {t \in Threads : InHands(h[t]) /\ IsAsync(h[t].work, n)}
InBuffer(s, n) == {b \in s.buffers : b.async = n}

\* At most one of three sets has one, and one.
AtMostOne(Q, H, B) ==
  /\ (\A x, y \in Q : x = y) /\ (\A x, y \in H : x = y) /\ (\A x, y \in B : x = y)
  /\ (Q = {} \/ H = {}) /\ (H = {} \/ B = {}) /\ (Q = {} \/ B = {})
NoneOut(Q, H, B) == Q = {} /\ H = {} /\ B = {}

\* A node with a oneway out has one, in one place, and others wait behind one alone.
OneOut(s, h, n) ==
  LET p == owner[s.node[n].obj] IN
  s.node[n].obj \in Objects /\ p \notin s.dead =>
    /\ AtMostOne(InQueue(s, n, p), InHand(h, n), InBuffer(s, n))
    /\ s.node[n].has_async <=> ~NoneOut(InQueue(s, n, p), InHand(h, n), InBuffer(s, n))
    /\ s.node[n].async_todo # <<>> => s.node[n].has_async

\* The one of a node is done with, and the node is to have its next.
DueNext(s, h, n) ==
  LET p == owner[s.node[n].obj] IN
  /\ n \in Nodes /\ s.node[n].obj \in Objects
  /\ p \notin s.dead => s.node[n].has_async /\ NoneOut(InQueue(s, n, p), InHand(h, n), InBuffer(s, n))

\* A node's oneway is out, one at a time, of all nodes but one that is due its next, or of all.
Outs(s, h, due) == (\A n \in Nodes \ {due} : OneOut(s, h, n)) /\ (due = 0 \/ DueNext(s, h, due))
Good(s, h, due) == BrokerOK(s) /\ HandsOK(s, h) /\ Outs(s, h, due)

\* The invariant.
TypesOK == th \in [Threads -> ThreadTypes] /\ (\A t \in Threads : ThreadOK(th[t])) /\ GuestOK
Inv == TypesOK /\ SpawnsOK /\ AreasOK /\ RecordsOK /\ Good(st, th, 0) /\ SpawnCounted

-----------------------------------------------------------------------------
(* What the broker's operators keep.                                       *)

\* A queue that has more, of no node's oneways.
Grown(q, r) ==
  /\ Len(q) <= Len(r)
  /\ \A i \in 1 .. Len(q) : r[i] = q[i]
  /\ \A i \in Len(q) + 1 .. Len(r) : r[i] \in Sync

\* Nodes stay what they are, and what is out of them, but for those of P's processes.
NodesStay(P, s, u) ==
  \A n \in Nodes :
    /\ s.node[n].obj \in Objects => u.node[n].obj = s.node[n].obj
    /\ (\A p \in P : ~At(u, n, p)) => /\ u.node[n].has_async = s.node[n].has_async
                                     /\ u.node[n].async_todo = s.node[n].async_todo
QueuesGrow(P, s, u) == \A p \in Procs \ P : Grown(s.todo[p], u.todo[p])
Same(s, u) == u.spawn_requested = s.spawn_requested /\ u.dead = s.dead /\ u.buffers = s.buffers

\* What becomes of a record is one, the same but for handles, holds and work that is no
\* oneway of a process's outside P.
Steady(P, s, u) ==
  BrokerOK(s) => BrokerOK(u) /\ Same(s, u) /\ NodesStay(P, s, u) /\ QueuesGrow(P, s, u)

\* A process's queue holds work.
LEMMA GrownTypes == ASSUME NEW s, BrokerOK(s), NEW p \in Procs PROVE s.todo[p] \in Seq(Work)
  BY DEF BrokerOK, QueuesOK

\* What has grown twice has grown.
LEMMA GrownOn ==
  ASSUME NEW q \in Seq(Work), NEW r \in Seq(Work), NEW v \in Seq(Work), Grown(q, r), Grown(r, v)
  PROVE  Grown(q, v)
  <1>1. Len(q) \in Nat /\ Len(r) \in Nat /\ Len(v) \in Nat /\ Len(q) <= Len(r) /\ Len(r) <= Len(v)
    BY DEF Grown
  <1>2. \A i \in 1 .. Len(q) : i \in 1 .. Len(r) /\ v[i] = q[i]
    BY <1>1 DEF Grown
  <1>3. ASSUME NEW i \in Len(q) + 1 .. Len(v) PROVE v[i] \in Sync
    <2>1. i \in Len(q) + 1 .. Len(r) \/ i \in Len(r) + 1 .. Len(v)
      BY <1>1
    <2>2. i \in Len(q) + 1 .. Len(r) => i \in 1 .. Len(r)
      BY <1>1
    <2>3. QED BY <2>1, <2>2 DEF Grown
  <1>4. QED BY <1>1, <1>2, <1>3 DEF Grown

\* A queue left alone has grown by nothing.
LEMMA GrownSelf == ASSUME NEW q \in Seq(Work) PROVE Grown(q, q)
  BY DEF Grown

\* One more, that is no node's oneway.
LEMMA GrownOne == ASSUME NEW q \in Seq(Work), NEW w \in Sync PROVE Grown(q, Append(q, w))
  BY DEF Grown, Sync

\* Steps that are steady one after another are steady.
LEMMA SteadyOn ==
  ASSUME NEW P, NEW s, NEW u, NEW v, Steady(P, s, u), Steady(P, u, v)
  PROVE  Steady(P, s, v)
  <1> SUFFICES ASSUME BrokerOK(s)
               PROVE  BrokerOK(v) /\ Same(s, v) /\ NodesStay(P, s, v) /\ QueuesGrow(P, s, v)
    BY DEF Steady
  <1>1. BrokerOK(u) /\ Same(s, u) /\ NodesStay(P, s, u) /\ QueuesGrow(P, s, u)
    BY DEF Steady
  <1>2. BrokerOK(v) /\ Same(u, v) /\ NodesStay(P, u, v) /\ QueuesGrow(P, u, v)
    BY <1>1 DEF Steady
  <1>3. Same(s, v)
    BY <1>1, <1>2 DEF Same
  <1>4. NodesStay(P, s, v)
    BY <1>1, <1>2 DEF NodesStay, At
  <1>5. QueuesGrow(P, s, v)
    BY <1>1, <1>2, GrownTypes, GrownOn DEF QueuesGrow
  <1>6. QED BY <1>2, <1>3, <1>4, <1>5

\* Nothing done is steady.
LEMMA SteadySelf == ASSUME NEW P, NEW s PROVE Steady(P, s, s)
  BY GrownTypes, GrownSelf DEF Steady, Same, NodesStay, QueuesGrow

\* A change of handles, holds and what no promise here is about.
NodeLike(m, n) ==
  /\ m \in MadeNodes \cup {NoNode} /\ m.obj = n.obj
  /\ m.has_async = n.has_async /\ m.async_todo = n.async_todo
Near(s, u) ==
  /\ BrokerFields \subseteq DOMAIN u
  /\ u.next_node = s.next_node /\ u.todo = s.todo /\ u.own \in [Threads -> Seq(Sync)]
  /\ u.last_handle = s.last_handle /\ u.buffers = s.buffers
  /\ u.spawn_requested = s.spawn_requested /\ u.dead = s.dead
  /\ u.serving \in [Threads -> Seq(Threads \cup {NoThread})]
  /\ u.node \in [Nodes -> MadeNodes \cup {NoNode}] /\ \A n \in Nodes : NodeLike(u.node[n], s.node[n])
  /\ u.local \in [Objects -> 0 .. MaxNode] /\ \A o \in Objects : u.local[o] \in {0, s.local[o]}
  /\ u.refs \in [Procs -> [Handles -> 0 .. MaxNode]]
  /\ \A p \in Procs, h \in Handles : u.refs[p][h] \in {0, s.refs[p][h]}

\* A change of handles and holds alone is steady.
LEMMA NearSteady ==
  ASSUME NEW P, NEW s, NEW u, BrokerOK(s) => Near(s, u)
  PROVE  Steady(P, s, u)
  <1> SUFFICES ASSUME BrokerOK(s), Near(s, u)
               PROVE  BrokerOK(u) /\ Same(s, u) /\ NodesStay(P, s, u) /\ QueuesGrow(P, s, u)
    BY DEF Steady
  <1>1. NodesOK(u)
    <2>1. \A n \in Nodes : u.node[n] \in MadeNodes \cup {NoNode} /\ u.node[n].obj = s.node[n].obj
      BY DEF Near, NodeLike
    <2>2. ASSUME NEW n \in Nodes, n >= s.next_node PROVE u.node[n] = NoNode
      <3>1. s.node[n] = NoNode
        BY <2>2 DEF BrokerOK, NodesOK
      <3>2. u.node[n].obj = NoObject
        BY <2>1, <3>1 DEF NoNode
      <3>3. QED BY <2>1, <3>2, BrokerAssumption DEF MadeNodes
    <2>3. QED BY <2>2 DEF BrokerOK, NodesOK, Near
  <1>2. RefsOK(u)
    <2>1. \A n \in Nodes : u.node[n].obj = s.node[n].obj
      BY DEF Near, NodeLike
    <2>2. \A o \in Objects : u.local[o] # 0 => u.node[u.local[o]].obj \in Objects
      <3> TAKE o \in Objects
      <3>1. u.local[o] # 0 => u.local[o] = s.local[o] /\ u.local[o] \in Nodes
        BY BrokerAssumption DEF Near, Nodes
      <3>2. QED BY <2>1, <3>1 DEF BrokerOK, RefsOK
    <2>3. \A p \in Procs, h \in Handles : u.refs[p][h] # 0 => u.node[u.refs[p][h]].obj \in Objects
      <3> TAKE p \in Procs, h \in Handles
      <3>1. u.refs[p][h] # 0 => u.refs[p][h] = s.refs[p][h] /\ u.refs[p][h] \in Nodes
        BY BrokerAssumption DEF Near, Nodes
      <3>2. QED BY <2>1, <3>1 DEF BrokerOK, RefsOK
    <2>4. QED BY <2>2, <2>3 DEF BrokerOK, RefsOK, Near
  <1>3. QueuesOK(u)
    BY DEF BrokerOK, QueuesOK, Near
  <1>4. \A n \in Nodes, p \in Procs : At(s, n, p) => At(u, n, p)
    BY DEF Near, NodeLike, At
  <1>5. PlacesOK(u)
    <2>1. \A p \in Procs : \A i \in DOMAIN u.todo[p] :
             u.todo[p][i].kind = "txn" /\ u.todo[p][i].async # 0 => At(u, u.todo[p][i].async, p)
      <3> TAKE p \in Procs
      <3>1. u.todo[p] = s.todo[p]
        BY DEF Near
      <3>2. \A i \in DOMAIN s.todo[p] :
              s.todo[p][i].kind = "txn" /\ s.todo[p][i].async # 0 => At(s, s.todo[p][i].async, p)
        BY DEF BrokerOK, PlacesOK
      <3>3. \A n : At(s, n, p) => At(u, n, p)
        BY <1>4 DEF At
      <3>4. QED BY <3>1, <3>2, <3>3
    <2>2. \A n \in Nodes : \A i \in DOMAIN u.node[n].async_todo : u.node[n].async_todo[i].async = n
      <3> TAKE n \in Nodes
      <3>1. u.node[n].async_todo = s.node[n].async_todo
        BY DEF Near, NodeLike
      <3>2. QED BY <3>1 DEF BrokerOK, PlacesOK
    <2>3. \A b \in u.buffers : b.async # 0 => At(u, b.async, b.proc)
      <3> TAKE b \in u.buffers
      <3>1. b \in s.buffers /\ b.proc \in Procs
        BY DEF Near, BrokerOK, BuffersOK, Buffered
      <3>2. b.async # 0 => At(s, b.async, b.proc)
        BY <3>1 DEF BrokerOK, PlacesOK
      <3>3. \A n : At(s, n, b.proc) => At(u, n, b.proc)
        BY <1>4, <3>1 DEF At
      <3>4. QED BY <3>2, <3>3
    <2>4. QED BY <2>1, <2>2, <2>3 DEF PlacesOK
  <1>6. BrokerOK(u)
    BY <1>1, <1>2, <1>3, <1>5 DEF BrokerOK, BuffersOK, CountsOK, Near
  <1>7. Same(s, u) /\ NodesStay(P, s, u)
    BY DEF Same, NodesStay, Near, NodeLike
  <1>8. QueuesGrow(P, s, u)
    BY GrownTypes, GrownSelf DEF QueuesGrow, Near
  <1>9. QED BY <1>6, <1>7, <1>8

\* Two records alike but for what no promise here is about.
Alike(s, u) ==
  /\ BrokerFields \subseteq DOMAIN u
  /\ u.node = s.node /\ u.next_node = s.next_node /\ u.local = s.local /\ u.refs = s.refs
  /\ u.last_handle = s.last_handle /\ u.todo = s.todo /\ u.own = s.own /\ u.serving = s.serving
  /\ u.buffers = s.buffers /\ u.spawn_requested = s.spawn_requested /\ u.dead = s.dead

\* A change of nothing a promise is about is one of handles and holds.
LEMMA AlikeNear == ASSUME NEW s, NEW u, BrokerOK(s), Alike(s, u) PROVE Near(s, u)
  <1>1. \A n \in Nodes : NodeLike(s.node[n], s.node[n])
    BY DEF NodeLike, BrokerOK, NodesOK
  <1>2. QED BY <1>1 DEF Alike, Near, BrokerOK, NodesOK, RefsOK, QueuesOK

\* So it is steady.
LEMMA AlikeSteady == ASSUME NEW P, NEW s, NEW u, BrokerOK(s) => Alike(s, u) PROVE Steady(P, s, u)
  BY AlikeNear, NearSteady

\* One thread's wake (notify_key).
LEMMA WakeThreadSteady == ASSUME NEW P, NEW s, NEW t PROVE Steady(P, s, WakeThread(s, t))
  <1>1. BrokerOK(s) => Alike(s, WakeThread(s, t))
    BY DEF Alike, BrokerOK, BrokerFields, WakeThread
  <1>2. QED BY <1>1, AlikeSteady

\* The wake of one that sleeps on a process's queue (notify_key_one).
LEMMA WakeOneSteady == ASSUME NEW P, NEW s, NEW p PROVE Steady(P, s, WakeOne(s, p))
  <1>1. BrokerOK(s) => Alike(s, WakeOne(s, p))
    BY DEF Alike, BrokerOK, BrokerFields, WakeOne
  <1>2. QED BY <1>1, AlikeSteady

\* One more hold on a node (State::pin).
LEMMA PinSteady == ASSUME NEW P, NEW s, NEW n PROVE Steady(P, s, Pin(s, n))
  <1>1. BrokerOK(s) => Alike(s, Pin(s, n))
    BY DEF Alike, BrokerOK, BrokerFields, Pin
  <1>2. QED BY <1>1, AlikeSteady

\* Work for one thread, no node's oneway (State::queue).
LEMMA QueueThreadSteady ==
  ASSUME NEW P, NEW s, NEW t, NEW work \in Sync
  PROVE  Steady(P, s, QueueThread(s, t, work))
  <1> DEFINE u == [s EXCEPT !.own[t] = Append(@, work)]
  <1>1. Steady(P, s, u)
    <2> SUFFICES ASSUME BrokerOK(s)
                 PROVE  BrokerOK(u) /\ Same(s, u) /\ NodesStay(P, s, u) /\ QueuesGrow(P, s, u)
      BY DEF Steady
    <2>0. BrokerFields \subseteq DOMAIN s
      BY DEF BrokerOK
    <2>1. /\ BrokerFields \subseteq DOMAIN u
          /\ u.node = s.node /\ u.next_node = s.next_node /\ u.local = s.local /\ u.refs = s.refs
          /\ u.last_handle = s.last_handle /\ u.todo = s.todo /\ u.serving = s.serving
          /\ u.buffers = s.buffers /\ u.spawn_requested = s.spawn_requested /\ u.dead = s.dead
      BY <2>0 DEF BrokerFields
    <2>2. u.own = [s.own EXCEPT ![t] = Append(s.own[t], work)]
      BY <2>0 DEF BrokerFields
    <2> HIDE DEF u
    <2>3. s.own \in [Threads -> Seq(Sync)]
      BY DEF BrokerOK, QueuesOK
    <2>4. u.own \in [Threads -> Seq(Sync)]
      <3>1. CASE t \in Threads
        <4>1. Append(s.own[t], work) \in Seq(Sync)
          BY <2>3, <3>1
        <4>2. QED BY <2>2, <2>3, <4>1
      <3>2. CASE t \notin Threads
        BY <2>2, <2>3, <3>2
      <3>3. QED BY <3>1, <3>2
    <2>5. BrokerOK(u)
      BY <2>1, <2>4 DEF BrokerOK, NodesOK, RefsOK, QueuesOK, BuffersOK, PlacesOK, CountsOK, At
    <2>6. QueuesGrow(P, s, u)
      BY <2>1, GrownTypes, GrownSelf DEF QueuesGrow
    <2>7. QED BY <2>1, <2>5, <2>6 DEF Same, NodesStay
  <1>2. QED BY <1>1, WakeThreadSteady, SteadyOn DEF QueueThread

\* Work queued for a process is no node's oneway, or it is one of a node of a process of P's.
LEMMA QueueProcSteady ==
  ASSUME NEW P, NEW s, NEW p, NEW work \in Work,
         BrokerOK(s) => work \in Sync \/ (p \in P /\ At(s, work.async, p))
  PROVE  Steady(P, s, QueueProc(s, p, work))
  <1> DEFINE u == [s EXCEPT !.todo[p] = Append(@, work)]
  <1>1. Steady(P, s, u)
    <2> SUFFICES ASSUME BrokerOK(s)
                 PROVE  BrokerOK(u) /\ Same(s, u) /\ NodesStay(P, s, u) /\ QueuesGrow(P, s, u)
      BY DEF Steady
    <2>0. BrokerFields \subseteq DOMAIN s
      BY DEF BrokerOK
    <2>1. /\ BrokerFields \subseteq DOMAIN u
          /\ u.node = s.node /\ u.next_node = s.next_node /\ u.local = s.local /\ u.refs = s.refs
          /\ u.last_handle = s.last_handle /\ u.own = s.own /\ u.serving = s.serving
          /\ u.buffers = s.buffers /\ u.spawn_requested = s.spawn_requested /\ u.dead = s.dead
      BY <2>0 DEF BrokerFields
    <2>2. u.todo = [s.todo EXCEPT ![p] = Append(s.todo[p], work)]
      BY <2>0 DEF BrokerFields
    <2> HIDE DEF u
    <2>3. s.todo \in [Procs -> Seq(Work)]
      BY DEF BrokerOK, QueuesOK
    <2>4. \A q \in Procs : u.todo[q] = IF q = p THEN Append(s.todo[p], work) ELSE s.todo[q]
      BY <2>2, <2>3
    <2>5. u.todo \in [Procs -> Seq(Work)]
      <3>1. CASE p \in Procs
        <4>1. Append(s.todo[p], work) \in Seq(Work)
          BY <2>3, <3>1
        <4>2. QED BY <2>2, <2>3, <4>1
      <3>2. CASE p \notin Procs
        BY <2>2, <2>3, <3>2
      <3>3. QED BY <3>1, <3>2
    <2>6. \A n, q : At(s, n, q) <=> At(u, n, q)
      BY <2>1 DEF At
    <2>7. ASSUME NEW q \in Procs, NEW i \in DOMAIN u.todo[q],
                 u.todo[q][i].kind = "txn", u.todo[q][i].async # 0
          PROVE  At(u, u.todo[q][i].async, q)
      <3>1. i \in DOMAIN s.todo[q] /\ u.todo[q][i] = s.todo[q][i] => At(u, u.todo[q][i].async, q)
        BY <2>6, <2>7 DEF BrokerOK, PlacesOK
      <3>2. CASE q # p
        BY <2>4, <3>1, <3>2
      <3>3. CASE q = p
        <4>1. s.todo[p] \in Seq(Work) /\ u.todo[q] = Append(s.todo[p], work)
          BY <2>3, <2>4, <3>3
        <4>2. (i \in DOMAIN s.todo[q] /\ u.todo[q][i] = s.todo[q][i]) \/ u.todo[q][i] = work
          BY <4>1, <3>3
        <4>3. u.todo[q][i] = work => At(u, u.todo[q][i].async, q)
          BY <2>6, <2>7, <3>3 DEF Sync
        <4>4. QED BY <3>1, <4>2, <4>3
      <3>4. QED BY <3>2, <3>3
    <2>8. PlacesOK(u)
      <3>1. \A b \in u.buffers : b.async # 0 => At(u, b.async, b.proc)
        BY <2>1, <2>6 DEF BrokerOK, PlacesOK
      <3>2. \A n \in Nodes : \A i \in DOMAIN u.node[n].async_todo : u.node[n].async_todo[i].async = n
        BY <2>1 DEF BrokerOK, PlacesOK
      <3>3. QED BY <2>7, <3>1, <3>2 DEF PlacesOK
    <2>9. BrokerOK(u)
      BY <2>1, <2>5, <2>8 DEF BrokerOK, NodesOK, RefsOK, QueuesOK, BuffersOK, CountsOK
    <2>10. QueuesGrow(P, s, u)
      <3>1. ASSUME NEW q \in Procs \ P PROVE Grown(s.todo[q], u.todo[q])
        <4>1. CASE q # p
          BY <2>4, <4>1, GrownTypes, GrownSelf
        <4>2. CASE q = p
          BY <2>4, <4>2, GrownTypes, GrownOne
        <4>3. QED BY <4>1, <4>2
      <3>2. QED BY <3>1 DEF QueuesGrow
    <2>11. QED BY <2>1, <2>9, <2>10 DEF Same, NodesStay
  <1>2. QED BY <1>1, WakeOneSteady, SteadyOn DEF QueueProc

\* Work for a process, no node's oneway (State::queue).
LEMMA NoteSteady == ASSUME NEW P, NEW s, NEW p, NEW work \in Sync PROVE Steady(P, s, QueueProc(s, p, work))
  <1>1. work \in Work
    BY DEF Sync
  <1>2. QED BY <1>1, QueueProcSteady

\* What an owner is told, by its own thread or its process.
LEMMA QueueOwnerSteady ==
  ASSUME NEW P, NEW s, NEW t, NEW work \in Sync
  PROVE  Steady(P, s, QueueOwner(s, t, work))
  BY NoteSteady, QueueThreadSteady DEF QueueOwner

\* Word of an object is no node's oneway.
LEMMA OfSync == \A kind \in {"acquire", "release", "dead", "cleared"}, o \in Objects : Of(kind, o) \in Sync
  BY DEF Of, Sync, Work, Told

\* Nor is an answer of the driver.
LEMMA PlainSync ==
  \A kind \in {"none", "complete", "dead_reply", "failed_reply", "return_error"} : Plain(kind) \in Sync
  BY DEF Plain, Sync, Work, Notes

\* What of a node there is: one of an object, unless nothing is of it.
LEMMA NodeTypes ==
  ASSUME NEW s, BrokerOK(s), NEW n \in Nodes
  PROVE  /\ s.node[n] \in MadeNodes \cup {NoNode}
         /\ s.node[n].obj \in Objects => s.node[n] \in MadeNodes
         /\ s.node[n].held => s.node[n].obj \in Objects
         /\ s.node[n].has_async => s.node[n].obj \in Objects
         /\ s.node[n].async_todo \in Seq(Txns)
  <1>1. s.node[n] \in MadeNodes \cup {NoNode}
    BY DEF BrokerOK, NodesOK
  <1>2. NoNode.obj \notin Objects /\ ~NoNode.held /\ ~NoNode.has_async /\ NoNode.async_todo = <<>>
    BY BrokerAssumption DEF NoNode
  <1>3. \A m \in MadeNodes : m.obj \in Objects /\ m.async_todo \in Seq(Txns)
    BY DEF MadeNodes
  <1>4. <<>> \in Seq(Txns)
    OBVIOUS
  <1>5. QED BY <1>1, <1>2, <1>3, <1>4

\* A node nobody holds is given back to its owner (release_if_unreferenced).
LEMMA LetGoSteady ==
  ASSUME NEW P, NEW s, NEW n \in Nodes
  PROVE  Steady(P, s, LetGo(s, n))
  <1> DEFINE o == s.node[n].obj
             gone == [s EXCEPT !.node[n].held = FALSE, !.node[n].deferred = s.node[n].acquiring,
                               !.local[o] = IF @ = n THEN 0 ELSE @]
  <1>1. CASE LetGo(s, n) = s
    BY <1>1, SteadySelf
  <1>2. CASE s.node[n].held /\ LetGo(s, n) = IF s.node[n].acquiring THEN gone
                                             ELSE QueueProc(gone, owner[o], Of("release", o))
    <2>1. ASSUME BrokerOK(s) PROVE Near(s, gone)
      <3>1. s.node[n] \in MadeNodes /\ o \in Objects
        BY <2>1, <1>2, NodeTypes
      <3>2. BrokerFields \subseteq DOMAIN s
        BY <2>1 DEF BrokerOK
      <3>3. s.node \in [Nodes -> MadeNodes \cup {NoNode}] /\ s.local \in [Objects -> 0 .. MaxNode]
        BY <2>1 DEF BrokerOK, NodesOK, RefsOK
      <3>4. /\ BrokerFields \subseteq DOMAIN gone
            /\ gone.next_node = s.next_node /\ gone.todo = s.todo /\ gone.own = s.own
            /\ gone.serving = s.serving /\ gone.refs = s.refs
            /\ gone.last_handle = s.last_handle /\ gone.buffers = s.buffers
            /\ gone.spawn_requested = s.spawn_requested /\ gone.dead = s.dead
        BY <3>2 DEF BrokerFields
      <3>5. gone.local = [s.local EXCEPT ![o] = IF s.local[o] = n THEN 0 ELSE s.local[o]]
        BY <3>2 DEF BrokerFields
      <3>6. gone.node = [s.node EXCEPT ![n] = [s.node[n] EXCEPT !.held = FALSE,
                                                               !.deferred = s.node[n].acquiring]]
        BY <3>2, <3>3 DEF BrokerFields
      <3> DEFINE m == [s.node[n] EXCEPT !.held = FALSE, !.deferred = s.node[n].acquiring]
      <3>7. m \in MadeNodes /\ NodeLike(m, s.node[n])
        BY <3>1 DEF MadeNodes, NodeLike
      <3> HIDE DEF gone, m
      <3>8. gone.node = [s.node EXCEPT ![n] = m]
        BY <3>6 DEF m
      <3>9. \A k \in Nodes : NodeLike(s.node[k], s.node[k])
        BY <3>3 DEF NodeLike
      <3>10. gone.node \in [Nodes -> MadeNodes \cup {NoNode}] /\ \A k \in Nodes : NodeLike(gone.node[k], s.node[k])
        BY <3>3, <3>7, <3>8, <3>9
      <3>11. 0 \in 0 .. MaxNode
        BY BrokerAssumption
      <3>12. gone.local \in [Objects -> 0 .. MaxNode] /\ \A x \in Objects : gone.local[x] \in {0, s.local[x]}
        BY <3>3, <3>5, <3>11
      <3>13. QED BY <2>1, <3>4, <3>10, <3>12 DEF Near, BrokerOK, RefsOK, QueuesOK
    <2> HIDE DEF gone
    <2>2. Steady(P, s, gone)
      BY <2>1, NearSteady
    <2>3. CASE o \in Objects
      <3>1. Steady(P, gone, QueueProc(gone, owner[o], Of("release", o)))
        BY <2>3, OfSync, NoteSteady
      <3>2. QED BY <1>2, <2>2, <3>1, SteadyOn
    <2>4. CASE o \notin Objects
      BY <2>4, <1>2, NodeTypes DEF Steady
    <2>5. QED BY <2>3, <2>4
  <1>3. QED BY <1>1, <1>2 DEF LetGo

\* Handles nobody counts are dropped (drop_unheld_handles).
LEMMA UnheldDroppedSteady ==
  ASSUME NEW P, NEW s, NEW n \in Nodes
  PROVE  Steady(P, s, UnheldDropped(s, n))
  <1> DEFINE u == [s EXCEPT !.refs = [p \in Procs |-> [h \in Handles |->
                     IF @[p][h] = n /\ p \notin s.dead /\ s.counts[p][h] = 0 THEN 0 ELSE @[p][h]]]]
  <1>1. ASSUME BrokerOK(s) PROVE Near(s, u)
    <2>1. BrokerFields \subseteq DOMAIN s
      BY <1>1 DEF BrokerOK
    <2>2. /\ BrokerFields \subseteq DOMAIN u
          /\ u.next_node = s.next_node /\ u.todo = s.todo /\ u.own = s.own /\ u.local = s.local
          /\ u.serving = s.serving /\ u.node = s.node
          /\ u.last_handle = s.last_handle /\ u.buffers = s.buffers
          /\ u.spawn_requested = s.spawn_requested /\ u.dead = s.dead
      BY <2>1 DEF BrokerFields
    <2>3. u.refs = [p \in Procs |-> [h \in Handles |->
                     IF s.refs[p][h] = n /\ p \notin s.dead /\ s.counts[p][h] = 0 THEN 0 ELSE s.refs[p][h]]]
      BY <2>1 DEF BrokerFields
    <2> HIDE DEF u
    <2>4. s.refs \in [Procs -> [Handles -> 0 .. MaxNode]] /\ 0 \in 0 .. MaxNode
      BY <1>1, BrokerAssumption DEF BrokerOK, RefsOK
    <2>5. u.refs \in [Procs -> [Handles -> 0 .. MaxNode]]
      BY <2>3, <2>4
    <2>6. \A p \in Procs, h \in Handles : u.refs[p][h] \in {0, s.refs[p][h]}
      BY <2>3
    <2>7. \A k \in Nodes : NodeLike(s.node[k], s.node[k])
      BY <1>1 DEF NodeLike, BrokerOK, NodesOK
    <2>8. QED BY <1>1, <2>2, <2>5, <2>6, <2>7 DEF Near, BrokerOK, NodesOK, RefsOK, QueuesOK
  <1> HIDE DEF u
  <1>2. Steady(P, s, u)
    BY <1>1, NearSteady
  <1>3. QED BY <1>2, LetGoSteady, SteadyOn DEF UnheldDropped, u

\* One hold on a node less (State::unpin).
LEMMA UnpinOneSteady == ASSUME NEW P, NEW s, NEW n \in Nodes PROVE Steady(P, s, UnpinOne(s, n))
  <1> DEFINE less == [s EXCEPT !.pins[n] = @ - 1]
  <1>1. BrokerOK(s) => Alike(s, less)
    BY DEF Alike, BrokerOK, BrokerFields
  <1> HIDE DEF less
  <1>2. Steady(P, s, less)
    BY <1>1, AlikeSteady
  <1>3. QED BY <1>2, UnheldDroppedSteady, SteadyOn DEF UnpinOne, less

\* A handle counted once more (count_handle).
LEMMA HandleTakenSteady == ASSUME NEW P, NEW s, NEW p, NEW h PROVE Steady(P, s, HandleTaken(s, p, h))
  <1>1. BrokerOK(s) => Alike(s, HandleTaken(s, p, h))
    BY DEF Alike, BrokerOK, BrokerFields, HandleTaken
  <1>2. QED BY <1>1, AlikeSteady

\* A handle is of no node, or of one that was made.
LEMMA RefsTypes ==
  ASSUME NEW s, BrokerOK(s), NEW p \in Procs, NEW h \in Handles
  PROVE  /\ s.refs[p][h] \in 0 .. MaxNode
         /\ s.refs[p][h] # 0 => s.refs[p][h] \in Nodes /\ s.node[s.refs[p][h]].obj \in Objects
                                /\ s.node[s.refs[p][h]] \in MadeNodes
  <1>1. s.refs[p][h] \in 0 .. MaxNode /\ (s.refs[p][h] # 0 => s.node[s.refs[p][h]].obj \in Objects)
    BY DEF BrokerOK, RefsOK
  <1>2. s.refs[p][h] # 0 => s.refs[p][h] \in Nodes
    BY <1>1, BrokerAssumption DEF Nodes
  <1>3. QED BY <1>1, <1>2, NodeTypes

\* A handle counted once less, and dropped with the last (drop_handle_if_unheld).
LEMMA HandleLeftSteady ==
  ASSUME NEW P, NEW s, NEW p \in Procs, NEW h \in Handles
  PROVE  Steady(P, s, HandleLeft(s, p, h))
  <1> DEFINE n == s.refs[p][h]
             less == [s EXCEPT !.counts[p][h] = IF @ = 0 THEN 0 ELSE @ - 1]
             u == [less EXCEPT !.refs[p][h] = 0]
  <1>0. n \in Nodes \/ n = 0 \/ ~BrokerOK(s)
    BY RefsTypes
  <1>1. BrokerOK(s) => Alike(s, less)
    BY DEF Alike, BrokerOK, BrokerFields
  <1> HIDE DEF less
  <1>2. Steady(P, s, less)
    BY <1>1, AlikeSteady
  <1>3. ASSUME BrokerOK(less) PROVE Near(less, u)
    <2>1. BrokerFields \subseteq DOMAIN less
      BY <1>3 DEF BrokerOK
    <2>2. /\ BrokerFields \subseteq DOMAIN u
          /\ u.next_node = less.next_node /\ u.todo = less.todo /\ u.own = less.own /\ u.local = less.local
          /\ u.serving = less.serving /\ u.node = less.node
          /\ u.last_handle = less.last_handle /\ u.buffers = less.buffers
          /\ u.spawn_requested = less.spawn_requested /\ u.dead = less.dead
      BY <2>1 DEF BrokerFields
    <2>3. u.refs = [less.refs EXCEPT ![p] = [less.refs[p] EXCEPT ![h] = 0]]
      BY <2>1, <1>3 DEF BrokerFields, BrokerOK, RefsOK
    <2> HIDE DEF u
    <2>4. less.refs \in [Procs -> [Handles -> 0 .. MaxNode]] /\ 0 \in 0 .. MaxNode
      BY <1>3, BrokerAssumption DEF BrokerOK, RefsOK
    <2>5. u.refs \in [Procs -> [Handles -> 0 .. MaxNode]]
      BY <2>3, <2>4
    <2>6. \A q \in Procs, k \in Handles : u.refs[q][k] \in {0, less.refs[q][k]}
      BY <2>3, <2>4
    <2>7. \A k \in Nodes : NodeLike(less.node[k], less.node[k])
      BY <1>3 DEF NodeLike, BrokerOK, NodesOK
    <2>8. QED BY <1>3, <2>2, <2>5, <2>6, <2>7 DEF Near, BrokerOK, NodesOK, RefsOK, QueuesOK
  <1> HIDE DEF u
  <1>4. Steady(P, less, u)
    BY <1>3, NearSteady
  <1>5. n \in Nodes => Steady(P, u, LetGo(u, n))
    BY LetGoSteady
  <1>6. n \in Nodes => Steady(P, s, LetGo(u, n))
    BY <1>2, <1>4, <1>5, SteadyOn
  <1>7. Steady(P, s, s)
    BY SteadySelf
  <1>8. CASE n = 0
    BY <1>7, <1>8 DEF HandleLeft
  <1>9. CASE n \in Nodes
    BY <1>2, <1>6, <1>7, <1>9 DEF HandleLeft, less, u
  <1>10. QED BY <1>0, <1>8, <1>9 DEF Steady

\* A node changed whole: what is out of it may be, if it is of a process of P's.
LEMMA NodeSteady ==
  ASSUME NEW P, NEW s, NEW u, NEW n \in Nodes, NEW m,
         BrokerOK(s) => /\ m \in MadeNodes /\ m.obj = s.node[n].obj
                        /\ \/ m.has_async = s.node[n].has_async /\ m.async_todo = s.node[n].async_todo
                           \/ \E p \in P : At(s, n, p)
                        /\ \A i \in DOMAIN m.async_todo : m.async_todo[i].async = n
                        /\ u = [s EXCEPT !.node = [s.node EXCEPT ![n] = m]]
  PROVE  Steady(P, s, u)
  <1> SUFFICES ASSUME BrokerOK(s)
               PROVE  BrokerOK(u) /\ Same(s, u) /\ NodesStay(P, s, u) /\ QueuesGrow(P, s, u)
    BY DEF Steady
  <1>0. BrokerFields \subseteq DOMAIN s /\ s.node \in [Nodes -> MadeNodes \cup {NoNode}]
    BY DEF BrokerOK, NodesOK
  <1>1. /\ BrokerFields \subseteq DOMAIN u
        /\ u.node = [s.node EXCEPT ![n] = m]
        /\ u.next_node = s.next_node /\ u.local = s.local /\ u.refs = s.refs
        /\ u.last_handle = s.last_handle /\ u.own = s.own /\ u.serving = s.serving /\ u.todo = s.todo
        /\ u.buffers = s.buffers /\ u.spawn_requested = s.spawn_requested /\ u.dead = s.dead
    BY <1>0 DEF BrokerFields
  <1>2. \A k \in Nodes : u.node[k] = IF k = n THEN m ELSE s.node[k]
    BY <1>0, <1>1
  <1>3. \A k \in Nodes : u.node[k].obj = s.node[k].obj
    BY <1>2
  <1>4. \A k, q : At(s, k, q) <=> At(u, k, q)
    BY <1>3 DEF At
  <1>5. NodesOK(u)
    <2>1. u.node \in [Nodes -> MadeNodes \cup {NoNode}]
      BY <1>0, <1>1
    <2>2. m.obj \in Objects
      BY DEF MadeNodes
    <2>3. ASSUME NEW k \in Nodes, k >= s.next_node PROVE u.node[k] = NoNode
      <3>1. s.node[k] = NoNode
        BY <2>3 DEF BrokerOK, NodesOK
      <3>2. k # n
        BY <2>2, <3>1, BrokerAssumption DEF NoNode
      <3>3. QED BY <1>2, <3>1, <3>2
    <2>4. QED BY <1>1, <2>1, <2>3 DEF NodesOK, BrokerOK
  <1>6. RefsOK(u)
    <2>1. \A o \in Objects : s.local[o] # 0 => s.local[o] \in Nodes
      BY BrokerAssumption DEF BrokerOK, RefsOK, Nodes
    <2>2. \A p \in Procs, h \in Handles : s.refs[p][h] # 0 => s.refs[p][h] \in Nodes
      BY RefsTypes
    <2>3. QED BY <1>1, <1>3, <2>1, <2>2 DEF BrokerOK, RefsOK
  <1>7. PlacesOK(u)
    <2>1. \A k \in Nodes : \A i \in DOMAIN u.node[k].async_todo : u.node[k].async_todo[i].async = k
      BY <1>2 DEF BrokerOK, PlacesOK
    <2>2. QED BY <1>1, <1>4, <2>1 DEF BrokerOK, PlacesOK
  <1>8. BrokerOK(u)
    BY <1>1, <1>5, <1>6, <1>7 DEF BrokerOK, QueuesOK, BuffersOK, CountsOK
  <1>9. NodesStay(P, s, u)
    BY <1>2, <1>3, <1>4 DEF NodesStay
  <1>10. QueuesGrow(P, s, u)
    BY <1>1, GrownTypes, GrownSelf DEF QueuesGrow
  <1>11. QED BY <1>1, <1>8, <1>9, <1>10 DEF Same

\* An owner's answer to an acquire (acquire_done).
LEMMA AcquireDoneSteady ==
  ASSUME NEW P, NEW s, NEW o \in Objects, NEW u \in AcquireDone(s, o)
  PROVE  Steady(P, s, u)
  <1>1. CASE u = s
    BY <1>1, SteadySelf
  <1>2. CASE u # s
    <2>1. PICK n \in Nodes :
            /\ s.node[n].obj = o
            /\ u = LET done == [s EXCEPT !.node[n].acquiring = FALSE, !.node[n].deferred = FALSE] IN
                   IF s.node[n].deferred THEN QueueProc(done, owner[o], Of("release", o)) ELSE done
      BY <1>2 DEF AcquireDone
    <2> DEFINE done == [s EXCEPT !.node[n].acquiring = FALSE, !.node[n].deferred = FALSE]
               m == [s.node[n] EXCEPT !.acquiring = FALSE, !.deferred = FALSE]
    <2>2. ASSUME BrokerOK(s)
          PROVE  /\ m \in MadeNodes /\ m.obj = s.node[n].obj
                 /\ m.has_async = s.node[n].has_async /\ m.async_todo = s.node[n].async_todo
                 /\ \A i \in DOMAIN m.async_todo : m.async_todo[i].async = n
                 /\ done = [s EXCEPT !.node = [s.node EXCEPT ![n] = m]]
      <3>1. s.node[n] \in MadeNodes
        BY <2>1, <2>2, NodeTypes
      <3>2. m \in MadeNodes /\ m.obj = s.node[n].obj
            /\ m.has_async = s.node[n].has_async /\ m.async_todo = s.node[n].async_todo
        BY <3>1 DEF MadeNodes
      <3>3. \A i \in DOMAIN s.node[n].async_todo : s.node[n].async_todo[i].async = n
        BY <2>2 DEF BrokerOK, PlacesOK
      <3>4. n \in DOMAIN s.node /\ "node" \in DOMAIN s
        BY <2>2 DEF BrokerOK, NodesOK, BrokerFields
      <3>5. done = [s EXCEPT !.node = [s.node EXCEPT ![n] = m]]
        BY <3>4
      <3> HIDE DEF m
      <3>6. QED BY <3>2, <3>3, <3>5
    <2> HIDE DEF done, m
    <2>3. Steady(P, s, done)
      BY <2>2, NodeSteady
    <2>4. Steady(P, done, QueueProc(done, owner[o], Of("release", o)))
      BY OfSync, NoteSteady
    <2>5. QED BY <2>1, <2>3, <2>4, SteadyOn DEF done
  <1>3. QED BY <1>1, <1>2

\* A oneway that waited goes to the node's process, or none does.
LEMMA AsyncDoneSteady ==
  ASSUME NEW P, NEW s, NEW n, BrokerOK(s) => n = 0 \/ \E p \in P : At(s, n, p)
  PROVE  Steady(P, s, AsyncDone(s, n))
  <1>1. CASE n = 0
    BY <1>1, SteadySelf DEF AsyncDone
  <1>2. CASE n # 0
    <2> SUFFICES ASSUME BrokerOK(s) PROVE Steady(P, s, AsyncDone(s, n))
      BY DEF Steady
    <2>1. PICK p \in P : At(s, n, p)
      BY <1>2
    <2>2. n \in Nodes /\ s.node[n].obj \in Objects /\ owner[s.node[n].obj] = p /\ s.node[n] \in MadeNodes
      BY <2>1, NodeTypes DEF At
    <2>3. n \in DOMAIN s.node /\ "node" \in DOMAIN s
      BY <2>2 DEF BrokerOK, NodesOK, BrokerFields
    <2>4. s.node[n].async_todo \in Seq(Txns) /\ \A i \in DOMAIN s.node[n].async_todo : s.node[n].async_todo[i].async = n
      BY <2>2, NodeTypes DEF BrokerOK, PlacesOK
    <2>5. CASE s.node[n].async_todo = <<>>
      <3> DEFINE m == [s.node[n] EXCEPT !.has_async = FALSE]
                 u == [s EXCEPT !.node[n].has_async = FALSE]
      <3>1. m \in MadeNodes /\ m.obj = s.node[n].obj /\ m.async_todo = s.node[n].async_todo
        BY <2>2 DEF MadeNodes
      <3>2. u = [s EXCEPT !.node = [s.node EXCEPT ![n] = m]]
        BY <2>3
      <3> HIDE DEF m, u
      <3>3. Steady(P, s, u)
        BY <2>1, <2>2, <2>4, <3>1, <3>2, NodeSteady
      <3>4. QED BY <1>2, <2>5, <3>3 DEF AsyncDone, u
    <2>6. CASE s.node[n].async_todo # <<>>
      <3> DEFINE m == [s.node[n] EXCEPT !.async_todo = Tail(s.node[n].async_todo)]
                 u == [s EXCEPT !.node[n].async_todo = Tail(@)]
                 w == Head(s.node[n].async_todo)
      <3>1. /\ Tail(s.node[n].async_todo) \in Seq(Txns) /\ w \in Txns /\ w.async = n
            /\ \A i \in DOMAIN Tail(s.node[n].async_todo) : Tail(s.node[n].async_todo)[i].async = n
        BY <2>4, <2>6
      <3>2. m \in MadeNodes /\ m.obj = s.node[n].obj /\ m.async_todo = Tail(s.node[n].async_todo)
        BY <2>2, <3>1 DEF MadeNodes
      <3>3. u = [s EXCEPT !.node = [s.node EXCEPT ![n] = m]]
        BY <2>3
      <3> HIDE DEF m, u
      <3>4. Steady(P, s, u)
        BY <2>1, <2>2, <3>1, <3>2, <3>3, NodeSteady
      <3>5. BrokerOK(u) => At(u, w.async, p)
        <4>1. u.node[n].obj = s.node[n].obj
          BY <2>3, <3>2, <3>3
        <4>2. QED BY <2>2, <3>1, <4>1 DEF At
      <3>6. w \in Work
        BY <3>1 DEF Work
      <3>7. Steady(P, u, QueueProc(u, p, w))
        BY <3>5, <3>6, QueueProcSteady
      <3>8. AsyncDone(s, n) = QueueProc(u, p, w)
        BY <1>2, <2>2, <2>6 DEF AsyncDone, u
      <3>9. QED BY <3>4, <3>7, <3>8, SteadyOn
    <2>7. QED BY <2>5, <2>6
  <1>3. QED BY <1>1, <1>2

\* A oneway for a node of p's waits behind another, or goes out (queue_oneway).
LEMMA OnewayQueuedSteady ==
  ASSUME NEW P, NEW s, NEW n, NEW p \in P, NEW txn \in CallTxns,
         BrokerOK(s) => At(s, n, p)
  PROVE  Steady(P, s, OnewayQueued(s, n, txn))
  <1> SUFFICES ASSUME BrokerOK(s) PROVE Steady(P, s, OnewayQueued(s, n, txn))
    BY DEF Steady
  <1>1. n \in Nodes /\ s.node[n].obj \in Objects /\ owner[s.node[n].obj] = p /\ s.node[n] \in MadeNodes
    BY NodeTypes DEF At
  <1>2. n \in DOMAIN s.node /\ "node" \in DOMAIN s
    BY <1>1 DEF BrokerOK, NodesOK, BrokerFields
  <1>3. s.node[n].async_todo \in Seq(Txns) /\ \A i \in DOMAIN s.node[n].async_todo : s.node[n].async_todo[i].async = n
    BY <1>1, NodeTypes DEF BrokerOK, PlacesOK
  <1> DEFINE work == [txn EXCEPT !.async = n]
  <1>4. work \in Txns /\ work.async = n
    <2>1. n \in 0 .. MaxNode
      BY <1>1, BrokerAssumption DEF Nodes
    <2>2. QED BY <2>1 DEF Txns, CallTxns, Flying
  <1> HIDE DEF work
  <1>5. CASE s.node[n].has_async
    <2> DEFINE more == Append(s.node[n].async_todo, work)
               m == [s.node[n] EXCEPT !.async_todo = more]
    <2>1. more \in Seq(Txns) /\ \A i \in DOMAIN more : more[i].async = n
      BY <1>3, <1>4
    <2>2. OnewayQueued(s, n, txn) = [s EXCEPT !.node = [s.node EXCEPT ![n] = m]]
      BY <1>2, <1>5 DEF OnewayQueued, work
    <2> HIDE DEF more
    <2>3. m \in MadeNodes /\ m.obj = s.node[n].obj /\ m.async_todo = more
      BY <1>1, <2>1 DEF MadeNodes
    <2> HIDE DEF m
    <2>4. QED BY <1>1, <2>1, <2>2, <2>3, NodeSteady
  <1>6. CASE ~s.node[n].has_async
    <2> DEFINE m == [s.node[n] EXCEPT !.has_async = TRUE]
               u == [s EXCEPT !.node[n].has_async = TRUE]
    <2>1. m \in MadeNodes /\ m.obj = s.node[n].obj /\ m.async_todo = s.node[n].async_todo
      BY <1>1 DEF MadeNodes
    <2>2. u = [s EXCEPT !.node = [s.node EXCEPT ![n] = m]]
      BY <1>2
    <2> HIDE DEF m, u
    <2>3. Steady(P, s, u)
      BY <1>1, <1>3, <2>1, <2>2, NodeSteady
    <2>4. At(u, work.async, p)
      <3>1. u.node[n].obj = s.node[n].obj
        BY <1>2, <2>1, <2>2
      <3>2. QED BY <1>1, <1>4, <3>1 DEF At
    <2>5. work \in Work
      BY <1>4 DEF Work
    <2>6. Steady(P, u, QueueProc(u, p, work))
      BY <2>4, <2>5, QueueProcSteady
    <2>7. OnewayQueued(s, n, txn) = QueueProc(u, p, work)
      BY <1>1, <1>6 DEF OnewayQueued, u, work
    <2>8. QED BY <2>3, <2>6, <2>7, SteadyOn
  <1>7. QED BY <1>5, <1>6

\* The next node is one that nothing was of.
LEMMA NextNode ==
  ASSUME NEW s, BrokerOK(s), s.next_node \in Nodes
  PROVE  s.node[s.next_node] = NoNode
  BY DEF BrokerOK, NodesOK, Nodes

\* The node of an object is found or made, while there is room (local_node).
LEMMA LocalMadeSteady ==
  ASSUME NEW P, NEW s, NEW o \in Objects, BrokerOK(s) => s.local[o] # 0 \/ s.next_node \in Nodes
  PROVE  /\ Steady(P, s, LocalMade(s, o))
         /\ BrokerOK(s) => LET u == LocalMade(s, o) IN
              /\ u.local[o] \in Nodes /\ u.node[u.local[o]].obj \in Objects
              /\ u.last_handle = s.last_handle
  <1> SUFFICES ASSUME BrokerOK(s)
               PROVE  LET u == LocalMade(s, o) IN
                      /\ Steady(P, s, u)
                      /\ u.local[o] \in Nodes /\ u.node[u.local[o]].obj \in Objects
                      /\ u.last_handle = s.last_handle
    BY DEF Steady
  <1>1. CASE s.local[o] # 0
    <2>1. LocalMade(s, o) = s
      BY <1>1 DEF LocalMade
    <2>2. s.local[o] \in Nodes /\ s.node[s.local[o]].obj \in Objects
      BY <1>1, BrokerAssumption DEF BrokerOK, RefsOK, Nodes
    <2>3. QED BY <2>1, <2>2, SteadySelf
  <1>2. CASE s.local[o] = 0
    <2> DEFINE n == s.next_node
               m == [NoNode EXCEPT !.obj = o]
               u == [s EXCEPT !.next_node = @ + 1, !.local[o] = s.next_node, !.node[s.next_node] = m]
    <2>1. LocalMade(s, o) = u
      BY <1>2 DEF LocalMade
    <2>2. n \in Nodes /\ s.node[n] = NoNode /\ n \in Nat \ {0} /\ n \in 0 .. MaxNode
      BY <1>2, NextNode, BrokerAssumption DEF Nodes
    <2>3. m \in MadeNodes /\ m.obj = o /\ m.has_async = NoNode.has_async /\ m.async_todo = NoNode.async_todo
          /\ m.async_todo = <<>>
      <3>1. <<>> \in Seq(Txns)
        OBVIOUS
      <3>2. QED BY <3>1 DEF MadeNodes, NoNode
    <2>4. /\ BrokerFields \subseteq DOMAIN s
          /\ s.node \in [Nodes -> MadeNodes \cup {NoNode}] /\ s.local \in [Objects -> 0 .. MaxNode]
      BY DEF BrokerOK, NodesOK, RefsOK
    <2> HIDE DEF m
    <2>5. /\ BrokerFields \subseteq DOMAIN u
          /\ u.refs = s.refs /\ u.last_handle = s.last_handle
          /\ u.own = s.own /\ u.serving = s.serving /\ u.todo = s.todo
          /\ u.buffers = s.buffers /\ u.spawn_requested = s.spawn_requested /\ u.dead = s.dead
      BY <2>4 DEF BrokerFields
    <2>6. u.next_node = n + 1 /\ u.local = [s.local EXCEPT ![o] = n] /\ u.node = [s.node EXCEPT ![n] = m]
      BY <2>4 DEF BrokerFields
    <2> HIDE DEF u
    <2>7. \A k \in Nodes : u.node[k] = IF k = n THEN m ELSE s.node[k]
      BY <2>4, <2>6
    <2>8. NoNode.obj \notin Objects
      BY BrokerAssumption DEF NoNode
    <2>9. \A k, q : At(s, k, q) => At(u, k, q)
      <3>1. \A k \in Nodes : s.node[k].obj \in Objects => u.node[k].obj = s.node[k].obj
        BY <2>2, <2>7, <2>8
      <3>2. QED BY <3>1 DEF At
    <2>10. NodesOK(u)
      <3>1. u.node \in [Nodes -> MadeNodes \cup {NoNode}]
        BY <2>3, <2>4, <2>6
      <3>2. \A k \in Nodes : k >= u.next_node => u.node[k] = NoNode
        <4> TAKE k \in Nodes
        <4>1. k \in Nat
          BY DEF Nodes
        <4>2. k >= n + 1 => k >= n /\ k # n
          BY <2>2, <4>1
        <4>3. QED BY <4>2, <2>6, <2>7 DEF BrokerOK, NodesOK
      <3>3. u.next_node \in Nat \ {0}
        BY <2>2, <2>6
      <3>4. QED BY <3>1, <3>2, <3>3 DEF NodesOK
    <2>11. RefsOK(u)
      <3>1. u.local \in [Objects -> 0 .. MaxNode]
        BY <2>2, <2>4, <2>6
      <3>2. ASSUME NEW x \in Objects, u.local[x] # 0 PROVE u.node[u.local[x]].obj \in Objects
        <4>1. CASE x = o
          BY <4>1, <2>2, <2>3, <2>4, <2>6, <2>7
        <4>2. CASE x # o
          <5>1. u.local[x] = s.local[x] /\ s.local[x] \in Nodes /\ s.node[s.local[x]].obj \in Objects
            BY <4>2, <3>2, <2>4, <2>6, BrokerAssumption DEF BrokerOK, RefsOK, Nodes
          <5>2. QED BY <5>1, <2>2, <2>7, <2>8
        <4>3. QED BY <4>1, <4>2
      <3>3. \A p \in Procs, h \in Handles : s.refs[p][h] # 0 => u.node[s.refs[p][h]].obj \in Objects
        <4> TAKE p \in Procs, h \in Handles
        <4>1. s.refs[p][h] # 0 => s.refs[p][h] \in Nodes /\ s.node[s.refs[p][h]].obj \in Objects
          BY RefsTypes
        <4>2. QED BY <4>1, <2>2, <2>7, <2>8
      <3>4. QED BY <2>5, <3>1, <3>2, <3>3 DEF BrokerOK, RefsOK
    <2>12. PlacesOK(u)
      <3>1. \A k \in Nodes : \A i \in DOMAIN u.node[k].async_todo : u.node[k].async_todo[i].async = k
        BY <2>3, <2>7 DEF BrokerOK, PlacesOK
      <3>2. QED BY <2>5, <2>9, <3>1 DEF BrokerOK, PlacesOK
    <2>13. BrokerOK(u)
      BY <2>5, <2>10, <2>11, <2>12 DEF BrokerOK, QueuesOK, BuffersOK, CountsOK
    <2>14. NodesStay(P, s, u)
      BY <2>2, <2>3, <2>7, <2>8 DEF NodesStay
    <2>15. QueuesGrow(P, s, u)
      BY <2>5, GrownTypes, GrownSelf DEF QueuesGrow
    <2>16. Steady(P, s, u)
      BY <2>5, <2>13, <2>14, <2>15 DEF Steady, Same
    <2>17. u.local[o] = n /\ u.node[n].obj \in Objects
      BY <2>2, <2>3, <2>4, <2>6, <2>7
    <2>18. QED BY <2>1, <2>2, <2>5, <2>16, <2>17
  <1>3. QED BY <1>1, <1>2

\* To tell an owner changes no handle.
LEMMA QueueOwnerRefs ==
  ASSUME NEW s, NEW t, NEW work, BrokerFields \subseteq DOMAIN s
  PROVE  QueueOwner(s, t, work).refs = s.refs
  <1>1. \A p : QueueProc(s, p, work).refs = s.refs
    BY DEF QueueProc, WakeOne, BrokerFields
  <1>2. QueueThread(s, t, work).refs = s.refs
    BY DEF QueueThread, WakeThread, BrokerFields
  <1>3. QED BY <1>1, <1>2 DEF QueueOwner

\* A process's handle for a node is found or made, while there is room (handle_for).
LEMMA HandleMadeSteady ==
  ASSUME NEW P, NEW s, NEW p \in Procs, NEW n \in Nodes, NEW t,
         BrokerOK(s) => s.node[n].obj \in Objects /\ s.last_handle[p] + 1 \in Handles
  PROVE  /\ Steady(P, s, HandleMade(s, p, n, t))
         /\ BrokerOK(s) => \E h \in Handles : HandleMade(s, p, n, t).refs[p][h] = n
  <1> SUFFICES ASSUME BrokerOK(s)
               PROVE  /\ Steady(P, s, HandleMade(s, p, n, t))
                      /\ \E h \in Handles : HandleMade(s, p, n, t).refs[p][h] = n
    BY DEF Steady
  <1>1. CASE HandlesOn(s, p, n) # {}
    <2>1. HandleMade(s, p, n, t) = s
      BY <1>1 DEF HandleMade
    <2>2. \E h \in Handles : s.refs[p][h] = n
      BY <1>1 DEF HandlesOn
    <2>3. QED BY <2>1, <2>2, SteadySelf
  <1>2. CASE HandlesOn(s, p, n) = {}
    <2> DEFINE h == s.last_handle[p] + 1
               made == [s EXCEPT !.refs[p][h] = n, !.last_handle[p] = h]
    <2>1. /\ BrokerFields \subseteq DOMAIN s
          /\ s.refs \in [Procs -> [Handles -> 0 .. MaxNode]] /\ s.last_handle \in [Procs -> Nat]
          /\ h \in Handles /\ h \in Nat /\ n \in 0 .. MaxNode
      BY BrokerAssumption DEF BrokerOK, RefsOK, Handles, Nodes
    <2>2. /\ BrokerFields \subseteq DOMAIN made
          /\ made.node = s.node /\ made.next_node = s.next_node /\ made.local = s.local
          /\ made.own = s.own /\ made.serving = s.serving /\ made.todo = s.todo
          /\ made.buffers = s.buffers /\ made.spawn_requested = s.spawn_requested /\ made.dead = s.dead
      BY <2>1 DEF BrokerFields
    <2>3. made.refs = [s.refs EXCEPT ![p] = [s.refs[p] EXCEPT ![h] = n]]
          /\ made.last_handle = [s.last_handle EXCEPT ![p] = h]
      BY <2>1 DEF BrokerFields
    <2> HIDE DEF made
    <2>4. made.refs \in [Procs -> [Handles -> 0 .. MaxNode]] /\ made.last_handle \in [Procs -> Nat]
      BY <2>1, <2>3
    <2>5. made.refs[p][h] = n
      BY <2>1, <2>3
    <2>6. RefsOK(made)
      <3>1. ASSUME NEW q \in Procs, NEW k \in Handles, made.refs[q][k] # 0
            PROVE  made.node[made.refs[q][k]].obj \in Objects
        <4>1. made.refs[q][k] = n \/ made.refs[q][k] = s.refs[q][k]
          BY <2>1, <2>3
        <4>2. QED BY <4>1, <3>1, <2>2, RefsTypes
      <3>2. QED BY <2>2, <2>4, <3>1 DEF BrokerOK, RefsOK
    <2>7. BrokerOK(made)
      BY <2>2, <2>6 DEF BrokerOK, NodesOK, QueuesOK, BuffersOK, PlacesOK, At, CountsOK
    <2>8. QueuesGrow(P, s, made)
      BY <2>2, GrownTypes, GrownSelf DEF QueuesGrow
    <2>9. Steady(P, s, made)
      BY <2>2, <2>7, <2>8 DEF Steady, Same, NodesStay
    <2>10. CASE s.node[n].held
      BY <1>2, <2>1, <2>5, <2>9, <2>10 DEF HandleMade, made
    <2>11. CASE ~s.node[n].held
      <3> DEFINE m == [s.node[n] EXCEPT !.held = TRUE, !.acquiring = TRUE]
                 u == [made EXCEPT !.node[n].held = TRUE, !.node[n].acquiring = TRUE]
                 work == Of("acquire", s.node[n].obj)
      <3>1. /\ m \in MadeNodes /\ m.obj = s.node[n].obj
            /\ m.has_async = s.node[n].has_async /\ m.async_todo = s.node[n].async_todo
        BY NodeTypes DEF MadeNodes
      <3>2. \A i \in DOMAIN m.async_todo : m.async_todo[i].async = n
        BY <3>1 DEF BrokerOK, PlacesOK
      <3>3. n \in DOMAIN made.node /\ "node" \in DOMAIN made
        BY <2>7 DEF BrokerOK, NodesOK, BrokerFields
      <3>4. u = [made EXCEPT !.node = [made.node EXCEPT ![n] = m]]
        BY <2>2, <3>3
      <3>5. u.refs = made.refs /\ DOMAIN u = DOMAIN made
        BY <2>2 DEF BrokerFields
      <3> HIDE DEF m, u
      <3>6. Steady(P, made, u)
        BY <2>2, <3>1, <3>2, <3>4, NodeSteady
      <3>7. work \in Sync
        BY OfSync
      <3> HIDE DEF work
      <3>8. Steady(P, u, QueueOwner(u, t, work)) /\ QueueOwner(u, t, work).refs = u.refs
        BY <3>5, <3>7, <2>2, QueueOwnerSteady, QueueOwnerRefs
      <3>9. HandleMade(s, p, n, t) = QueueOwner(u, t, work)
        BY <1>2, <2>11 DEF HandleMade, made, u, work
      <3>10. Steady(P, s, HandleMade(s, p, n, t))
        BY <2>9, <3>6, <3>8, <3>9, SteadyOn
      <3>11. QED BY <2>1, <2>5, <3>5, <3>8, <3>9, <3>10
    <2>12. QED BY <2>10, <2>11
  <1>3. QED BY <1>1, <1>2

\* What a transaction carries arrives as a node's object or a handle there is.
LEMMA TranslatedSteady ==
  ASSUME NEW P, NEW s, NEW t \in Threads, NEW p \in Procs, NEW c \in Carriable,
         BrokerOK(s) => CanCarry(s, t, c)
  PROVE  LET r == Translated(s, t, p, c) IN
         Steady(P, s, r.st) /\ (BrokerOK(s) => r.carries \in Carriable /\ r.pinned \in Seq(Nodes))
  <1> DEFINE r == Translated(s, t, p, c)
  <1> SUFFICES ASSUME BrokerOK(s), CanCarry(s, t, c)
               PROVE  Steady(P, s, r.st) /\ r.carries \in Carriable /\ r.pinned \in Seq(Nodes)
    BY DEF Steady
  <1>1. CASE c.kind = "nothing"
    <2>1. r = [st |-> s, carries |-> c, pinned |-> <<>>]
      BY <1>1 DEF Translated
    <2> HIDE DEF r
    <2>2. QED BY <2>1, SteadySelf
  <1>2. CASE c.kind # "nothing"
    <2> DEFINE made == IF c.kind = "binder" THEN LocalMade(s, c.obj) ELSE s
               n == IF c.kind = "binder" THEN made.local[c.obj] ELSE s.refs[proc[t]][c.handle]
               o == made.node[n].obj
               reached == Pin(made, n)
               after == HandleMade(reached, p, n, t)
    <2>1. /\ Steady(P, s, made) /\ n \in Nodes /\ o \in Objects
          /\ made.last_handle = s.last_handle
      <3>1. CASE c.kind = "binder"
        <4>1. c.obj \in Objects
          BY <3>1 DEF Carriable
        <4>2. s.local[c.obj] # 0 \/ s.next_node \in Nodes
          BY <3>1 DEF CanCarry
        <4>3. QED BY <3>1, <4>1, <4>2, LocalMadeSteady
      <3>2. CASE c.kind = "handle"
        <4>1. c.handle \in Handles /\ proc[t] \in Procs
          BY <3>2, BrokerAssumption DEF Carriable
        <4>2. s.refs[proc[t]][c.handle] # 0
          BY <3>2 DEF CanCarry
        <4>3. QED BY <3>2, <4>1, <4>2, RefsTypes, SteadySelf
      <3>3. QED BY <1>2, <3>1, <3>2 DEF Carriable
    <2>2. BrokerOK(made)
      BY <2>1 DEF Steady
    <2> HIDE DEF n, made
    <2>3. reached.node = made.node /\ reached.last_handle = made.last_handle
      BY <2>2 DEF Pin, BrokerOK, BrokerFields
    <2>4. Steady(P, s, reached) /\ BrokerOK(reached)
      <3>1. Steady(P, s, reached)
        BY <2>1, PinSteady, SteadyOn
      <3>2. QED BY <3>1 DEF Steady
    <2>5. CASE owner[o] = p
      <3>1. r = [st |-> reached, carries |-> Binder(o), pinned |-> <<n>>]
        BY <1>2, <2>5 DEF Translated, made, n
      <3>2. Binder(o) \in Carriable
        BY <2>1 DEF Binder, Carriable
      <3> HIDE DEF r
      <3>3. QED BY <2>1, <2>4, <3>1, <3>2
    <2>6. CASE owner[o] # p
      <3>1. r = [st |-> after, pinned |-> <<n>>, carries |-> Handle(CHOOSE h \in Handles : after.refs[p][h] = n)]
        BY <1>2, <2>6 DEF Translated, made, n
      <3>2. reached.node[n].obj \in Objects /\ reached.last_handle[p] + 1 \in Handles
        BY <2>1, <2>3 DEF CanCarry
      <3>3. Steady(P, reached, after) /\ \E h \in Handles : after.refs[p][h] = n
        BY <2>1, <2>4, <3>2, HandleMadeSteady
      <3> HIDE DEF r, reached, after
      <3>4. (CHOOSE h \in Handles : after.refs[p][h] = n) \in Handles
        BY <3>3
      <3>5. Handle(CHOOSE h \in Handles : after.refs[p][h] = n) \in Carriable
        BY <3>4 DEF Handle, Carriable
      <3>6. Steady(P, s, after)
        BY <2>4, <3>3, SteadyOn
      <3>7. QED BY <2>1, <3>1, <3>5, <3>6
    <2>7. QED BY <2>5, <2>6
  <1>3. QED BY <1>1, <1>2

-----------------------------------------------------------------------------
(* What goes through a list in one section, step by step.                  *)

\* What is steady so far: c[1] the processes, c[2] the record at first.
SteadyFrom(c, s) == Steady(c[1], c[2], s)

UnpinStep(k, s, n) == UnpinOne(s, n)
Unpins == INSTANCE FoldProofs WITH Op <- UnpinStep, Kept <- SteadyFrom

\* All that a transaction pinned is let go.
LEMMA UnpinnedSteady ==
  ASSUME NEW P, NEW s, NEW nodes \in Seq(Nodes)
  PROVE  Steady(P, s, Unpinned(s, nodes))
  <1> DEFINE c == <<P, s>>
  <1>1. \A u : SteadyFrom(c, u) <=> Steady(P, s, u)
    BY DEF SteadyFrom
  <1> HIDE DEF c
  <1>2. SteadyFrom(c, s)
    BY <1>1, SteadySelf
  <1>3. \A i \in DOMAIN nodes : nodes[i] \in Nodes
    OBVIOUS
  <1>4. \A u : \A i \in DOMAIN nodes : SteadyFrom(c, u) => SteadyFrom(c, UnpinStep(0, u, nodes[i]))
    BY <1>1, <1>3, UnpinOneSteady, SteadyOn DEF UnpinStep
  <1>5. SteadyFrom(c, Unpins!FoldOf(0, s, nodes))
    BY <1>2, <1>4, Unpins!FoldKeeps
  <1>6. Unpins!FoldOf(0, s, nodes) = Unpinned(s, nodes)
    BY DEF Unpinned, UnpinStep, Unpins!FoldOf, FoldLeft, Unpins!Body, MapThenFoldSet,
           Max, Unpins!Max
  <1>7. QED BY <1>1, <1>5, <1>6

\* A finite set's elements, in some order, are a list of them.
LEMMA InOrderSeq == ASSUME NEW S, NEW T \in SUBSET S, IsFiniteSet(T) PROVE InOrder(T) \in Seq(S)
  <1> DEFINE n == Cardinality(T)
  <1>1. n \in Nat /\ ExistsBijection(1 .. n, T)
    BY FS_CardinalityType
  <1>2. PICK f \in Bijection(1 .. n, T) : TRUE
    BY <1>1 DEF ExistsBijection
  <1>3. f \in [1 .. n -> T] /\ IsInjective(f)
    BY <1>2 DEF Bijection, Injection, IsInjective
  <1>4. InOrder(T) \in [1 .. n -> T]
    BY <1>3 DEF InOrder, SetToSeq
  <1> HIDE DEF n
  <1>5. InOrder(T) \in [1 .. n -> S]
    BY <1>4
  <1>6. QED BY <1>1, <1>5

\* What a transaction unread is of, when dropped for p's.
Unread(s, p) == {w \in Work : w.kind = "txn" /\ w.async # 0 => At(s, w.async, p)}

\* A node stays its owner's.
LEMMA AtStays ==
  ASSUME NEW P, NEW s, NEW u, BrokerOK(s), Steady(P, s, u), NEW n, NEW p, At(s, n, p)
  PROVE  At(u, n, p)
  BY DEF Steady, NodesStay, At

\* Work that nobody will read is dropped, what it pinned let go, its node's next oneway sent, its
\* sender answered (drop_work).
LEMMA WorkDroppedSteady ==
  ASSUME NEW P, NEW s, NEW work \in Work,
         BrokerOK(s) => work \in Sync \/ \E p \in P : work \in Unread(s, p)
  PROVE  Steady(P, s, WorkDropped(s, work))
  <1> SUFFICES ASSUME BrokerOK(s) PROVE Steady(P, s, WorkDropped(s, work))
    BY DEF Steady
  <1>1. CASE work.kind # "txn"
    BY <1>1, SteadySelf DEF WorkDropped
  <1>2. CASE work.kind = "txn"
    <2> DEFINE told == IF work.reply \/ work.oneway THEN s
                       ELSE QueueThread(s, work.from, Plain("dead_reply"))
               done == AsyncDone(told, work.async)
    <2>1. work \in Txns
      BY <1>2 DEF Work, Told, Notes
    <2>2. work.pinned \in Seq(Nodes)
      BY <2>1 DEF Txns, CallTxns, ReplyTxns, Flying
    <2>3. Steady(P, s, told)
      BY PlainSync, QueueThreadSteady, SteadySelf
    <2>4. WorkDropped(s, work) = Unpinned(done, work.pinned)
      BY <1>2 DEF WorkDropped
    <2> HIDE DEF told
    <2>5. work.async = 0 \/ \E p \in P : At(s, work.async, p)
      BY <1>2 DEF Sync, Unread
    <2>6. work.async = 0 \/ \E p \in P : At(told, work.async, p)
      BY <2>3, <2>5, AtStays
    <2>7. Steady(P, told, done)
      BY <2>6, AsyncDoneSteady
    <2> HIDE DEF done
    <2>8. Steady(P, done, Unpinned(done, work.pinned))
      BY <2>2, UnpinnedSteady
    <2>9. QED BY <2>3, <2>4, <2>7, <2>8, SteadyOn
  <1>3. QED BY <1>1, <1>2

DropStep(k, s, work) == WorkDropped(s, work)
Drops == INSTANCE FoldProofs WITH Op <- DropStep, Kept <- SteadyFrom

\* So with a list of it.
LEMMA DroppedSteady ==
  ASSUME NEW P, NEW s, BrokerOK(s),
         NEW S \in SUBSET Work, NEW works \in Seq(S),
         \A w \in S : w \in Sync \/ \E p \in P : w \in Unread(s, p)
  PROVE  Steady(P, s, FoldLeft(WorkDropped, s, works))
  <1> DEFINE c == <<P, s>>
  <1>1. \A u : SteadyFrom(c, u) <=> Steady(P, s, u)
    BY DEF SteadyFrom
  <1> HIDE DEF c
  <1>2. SteadyFrom(c, s)
    BY <1>1, SteadySelf
  <1>3. \A i \in DOMAIN works : works[i] \in S
    OBVIOUS
  <1>4. ASSUME NEW u, NEW i \in DOMAIN works, SteadyFrom(c, u)
        PROVE  SteadyFrom(c, DropStep(0, u, works[i]))
    <2>1. Steady(P, s, u)
      BY <1>1, <1>4
    <2>2. works[i] \in Sync \/ \E p \in P : works[i] \in Unread(u, p)
      <3>1. \A p : works[i] \in Unread(s, p) => works[i] \in Unread(u, p)
        BY <2>1, AtStays DEF Unread
      <3>2. QED BY <1>3, <3>1
    <2>3. works[i] \in Work
      BY <1>3
    <2>4. Steady(P, u, WorkDropped(u, works[i]))
      BY <2>2, <2>3, WorkDroppedSteady
    <2>5. Steady(P, s, WorkDropped(u, works[i]))
      BY <2>1, <2>4, SteadyOn
    <2>6. QED BY <1>1, <2>5 DEF DropStep
  <1>5. \A u : \A i \in DOMAIN works : SteadyFrom(c, u) => SteadyFrom(c, DropStep(0, u, works[i]))
    BY <1>4
  <1>6. SteadyFrom(c, Drops!FoldOf(0, s, works))
    BY <1>2, <1>5, Drops!FoldKeeps
  <1>7. Drops!FoldOf(0, s, works) = FoldLeft(WorkDropped, s, works)
    BY DEF DropStep, Drops!FoldOf, FoldLeft, Drops!Body, MapThenFoldSet,
           Max, Drops!Max
  <1>8. QED BY <1>1, <1>6, <1>7

TellStep(o, s, p) == QueueProc(s, p, Of("dead", o))
Tells == INSTANCE FoldProofs WITH Op <- TellStep, Kept <- SteadyFrom

\* Each that watched an object hears of its death.
LEMMA ToldSteady ==
  ASSUME NEW P, NEW s, NEW o \in Objects, NEW procs \in Seq(Procs)
  PROVE  Steady(P, s, FoldLeft(LAMBDA a, p : QueueProc(a, p, Of("dead", o)), s, procs))
  <1> DEFINE c == <<P, s>>
  <1>1. \A u : SteadyFrom(c, u) <=> Steady(P, s, u)
    BY DEF SteadyFrom
  <1> HIDE DEF c
  <1>2. SteadyFrom(c, s)
    BY <1>1, SteadySelf
  <1>3. Of("dead", o) \in Sync
    BY OfSync
  <1>4. \A u : \A i \in DOMAIN procs : SteadyFrom(c, u) => SteadyFrom(c, TellStep(o, u, procs[i]))
    BY <1>1, <1>3, NoteSteady, SteadyOn DEF TellStep
  <1>5. SteadyFrom(c, Tells!FoldOf(o, s, procs))
    BY <1>2, <1>4, Tells!FoldKeeps
  <1>6. Tells!FoldOf(o, s, procs) = FoldLeft(LAMBDA a, p : QueueProc(a, p, Of("dead", o)), s, procs)
    BY DEF TellStep, Tells!FoldOf, FoldLeft, Tells!Body, MapThenFoldSet,
           Max, Tells!Max
  <1>7. QED BY <1>1, <1>5, <1>6

\* A node dies with its owner, its oneways and watchers taken off (release).
LEMMA NodeDiedSteady ==
  ASSUME NEW P, NEW s, NEW n \in Nodes, NEW p \in P, BrokerOK(s) => At(s, n, p)
  PROVE  Steady(P, s, NodeDied(s, n))
  <1> SUFFICES ASSUME BrokerOK(s) PROVE Steady(P, s, NodeDied(s, n))
    BY DEF Steady
  <1> DEFINE died == [s EXCEPT !.node[n].dead = TRUE, !.node[n].has_async = FALSE,
                               !.node[n].async_todo = <<>>, !.node[n].watchers = {}]
             m == [s.node[n] EXCEPT !.dead = TRUE, !.has_async = FALSE, !.async_todo = <<>>, !.watchers = {}]
             o == s.node[n].obj
  <1>1. o \in Objects /\ s.node[n] \in MadeNodes
    BY NodeTypes DEF At
  <1>2. m \in MadeNodes /\ m.obj = o /\ m.async_todo = <<>>
    <2>1. <<>> \in Seq(Txns)
      OBVIOUS
    <2>2. QED BY <1>1, <2>1 DEF MadeNodes
  <1>3. n \in DOMAIN s.node /\ "node" \in DOMAIN s
    BY DEF BrokerOK, NodesOK, BrokerFields
  <1>4. died = [s EXCEPT !.node = [s.node EXCEPT ![n] = m]]
    BY <1>3
  <1>5. InOrder(s.node[n].watchers) \in Seq(Procs)
    <2>1. s.node[n].watchers \in SUBSET Procs
      BY <1>1 DEF MadeNodes
    <2>2. IsFiniteSet(s.node[n].watchers)
      BY <2>1, BrokerAssumption, FS_Subset
    <2>3. QED BY <2>1, <2>2, InOrderSeq
  <1>6. NodeDied(s, n) = FoldLeft(LAMBDA a, q : QueueProc(a, q, Of("dead", o)), died, InOrder(s.node[n].watchers))
    BY DEF NodeDied
  <1> HIDE DEF m, died
  <1>7. Steady(P, s, died)
    <2>1. \A i \in DOMAIN m.async_todo : m.async_todo[i].async = n
      BY <1>2
    <2>2. \E q \in P : At(s, n, q)
      OBVIOUS
    <2>3. QED BY <1>2, <1>4, <2>1, <2>2, NodeSteady
  <1> HIDE DEF o
  <1>8. Steady(P, died, FoldLeft(LAMBDA a, q : QueueProc(a, q, Of("dead", o)), died, InOrder(s.node[n].watchers)))
    BY <1>1, <1>5, ToldSteady
  <1>9. QED BY <1>6, <1>7, <1>8, SteadyOn

\* The nodes die one after another.
DieStep(k, s, n) == NodeDied(s, n)
Dies == INSTANCE FoldProofs WITH Op <- DieStep, Kept <- SteadyFrom

\* So with each node of the owner's.
LEMMA DiedSteady ==
  ASSUME NEW P, NEW s, BrokerOK(s), NEW p \in P, NEW S \in SUBSET Nodes, NEW nodes \in Seq(S),
         \A n \in S : At(s, n, p)
  PROVE  Steady(P, s, FoldLeft(NodeDied, s, nodes))
  <1> DEFINE c == <<P, s>>
  <1>1. \A u : SteadyFrom(c, u) <=> Steady(P, s, u)
    BY DEF SteadyFrom
  <1> HIDE DEF c
  <1>2. SteadyFrom(c, s)
    BY <1>1, SteadySelf
  <1>3. \A i \in DOMAIN nodes : nodes[i] \in S
    OBVIOUS
  <1>4. ASSUME NEW u, NEW i \in DOMAIN nodes, SteadyFrom(c, u)
        PROVE  SteadyFrom(c, DieStep(0, u, nodes[i]))
    <2>1. Steady(P, s, u)
      BY <1>1, <1>4
    <2>2. nodes[i] \in Nodes /\ At(u, nodes[i], p)
      BY <1>3, <2>1, AtStays
    <2>3. Steady(P, u, NodeDied(u, nodes[i]))
      BY <2>2, NodeDiedSteady
    <2>4. Steady(P, s, NodeDied(u, nodes[i]))
      BY <2>1, <2>3, SteadyOn
    <2>5. QED BY <1>1, <2>4 DEF DieStep
  <1>5. \A u : \A i \in DOMAIN nodes : SteadyFrom(c, u) => SteadyFrom(c, DieStep(0, u, nodes[i]))
    BY <1>4
  <1>6. SteadyFrom(c, Dies!FoldOf(0, s, nodes))
    BY <1>2, <1>5, Dies!FoldKeeps
  <1>7. Dies!FoldOf(0, s, nodes) = FoldLeft(NodeDied, s, nodes)
    BY DEF DieStep, Dies!FoldOf, FoldLeft, Dies!Body, MapThenFoldSet,
           Max, Dies!Max
  <1>8. QED BY <1>1, <1>6, <1>7

\* Those that waited hear so, one after another.
FailStep(k, s, t) == IF t = NoThread THEN s ELSE QueueThread(s, t, Plain("dead_reply"))
Fails == INSTANCE FoldProofs WITH Op <- FailStep, Kept <- SteadyFrom

\* Each thread that waited for an answer of a process that ended gets one.
LEMMA FailedSteady ==
  ASSUME NEW P, NEW s, NEW S, NEW threads \in Seq(S)
  PROVE  Steady(P, s, FoldLeft(LAMBDA a, t : IF t = NoThread THEN a ELSE QueueThread(a, t, Plain("dead_reply")),
                               s, threads))
  <1> DEFINE c == <<P, s>>
  <1>1. \A u : SteadyFrom(c, u) <=> Steady(P, s, u)
    BY DEF SteadyFrom
  <1> HIDE DEF c
  <1>2. SteadyFrom(c, s)
    BY <1>1, SteadySelf
  <1>3. Plain("dead_reply") \in Sync
    BY PlainSync
  <1>4. \A u : \A i \in DOMAIN threads : SteadyFrom(c, u) => SteadyFrom(c, FailStep(0, u, threads[i]))
    BY <1>1, <1>3, QueueThreadSteady, SteadyOn DEF FailStep
  <1>5. SteadyFrom(c, Fails!FoldOf(0, s, threads))
    BY <1>2, <1>4, Fails!FoldKeeps
  <1>6. Fails!FoldOf(0, s, threads)
          = FoldLeft(LAMBDA a, t : IF t = NoThread THEN a ELSE QueueThread(a, t, Plain("dead_reply")), s, threads)
    BY DEF FailStep, Fails!FoldOf, FoldLeft, Fails!Body, MapThenFoldSet,
           Max, Fails!Max
  <1>7. QED BY <1>1, <1>5, <1>6

\* What the buffers of a process that ended held is let go, and then its handles.
EmptyStep(k, s, b) == Unpinned(s, b.pinned)
Empties == INSTANCE FoldProofs WITH Op <- EmptyStep, Kept <- SteadyFrom

\* What the buffers of a process that ended pinned is let go.
LEMMA EmptiedSteady ==
  ASSUME NEW P, NEW s, NEW buffers \in Seq(Buffered)
  PROVE  Steady(P, s, FoldLeft(LAMBDA a, b : Unpinned(a, b.pinned), s, buffers))
  <1> DEFINE c == <<P, s>>
  <1>1. \A u : SteadyFrom(c, u) <=> Steady(P, s, u)
    BY DEF SteadyFrom
  <1> HIDE DEF c
  <1>2. SteadyFrom(c, s)
    BY <1>1, SteadySelf
  <1>3. \A i \in DOMAIN buffers : buffers[i].pinned \in Seq(Nodes)
    <2>1. \A b \in Buffered : b.pinned \in Seq(Nodes)
      BY DEF Buffered
    <2>2. \A i \in DOMAIN buffers : buffers[i] \in Buffered
      OBVIOUS
    <2>3. QED BY <2>1, <2>2
  <1>4. ASSUME NEW u, NEW i \in DOMAIN buffers, SteadyFrom(c, u)
        PROVE  SteadyFrom(c, EmptyStep(0, u, buffers[i]))
    <2>1. Steady(P, s, u)
      BY <1>1, <1>4
    <2>2. Steady(P, u, Unpinned(u, buffers[i].pinned))
      BY <1>3, UnpinnedSteady
    <2>3. Steady(P, s, Unpinned(u, buffers[i].pinned))
      BY <2>1, <2>2, SteadyOn
    <2>4. QED BY <1>1, <2>3 DEF EmptyStep
  <1>5. SteadyFrom(c, Empties!FoldOf(0, s, buffers))
    BY <1>2, <1>4, Empties!FoldKeeps
  <1>6. Empties!FoldOf(0, s, buffers) = FoldLeft(LAMBDA a, b : Unpinned(a, b.pinned), s, buffers)
    BY DEF EmptyStep, Empties!FoldOf, FoldLeft, Empties!Body, MapThenFoldSet,
           Max, Empties!Max
  <1>7. QED BY <1>1, <1>5, <1>6

LetGoStep(k, s, n) == LetGo(s, n)
LetsGo == INSTANCE FoldProofs WITH Op <- LetGoStep, Kept <- SteadyFrom

\* Each node its handles held is let go.
LEMMA AllLetGoSteady ==
  ASSUME NEW P, NEW s, NEW nodes \in Seq(Nodes)
  PROVE  Steady(P, s, FoldLeft(LetGo, s, nodes))
  <1> DEFINE c == <<P, s>>
  <1>1. \A u : SteadyFrom(c, u) <=> Steady(P, s, u)
    BY DEF SteadyFrom
  <1> HIDE DEF c
  <1>2. SteadyFrom(c, s)
    BY <1>1, SteadySelf
  <1>3. \A i \in DOMAIN nodes : nodes[i] \in Nodes
    OBVIOUS
  <1>4. \A u : \A i \in DOMAIN nodes : SteadyFrom(c, u) => SteadyFrom(c, LetGoStep(0, u, nodes[i]))
    BY <1>1, <1>3, LetGoSteady, SteadyOn DEF LetGoStep
  <1>5. SteadyFrom(c, LetsGo!FoldOf(0, s, nodes))
    BY <1>2, <1>4, LetsGo!FoldKeeps
  <1>6. LetsGo!FoldOf(0, s, nodes) = FoldLeft(LetGo, s, nodes)
    BY DEF LetGoStep, LetsGo!FoldOf, FoldLeft, LetsGo!Body, MapThenFoldSet,
           Max, LetsGo!Max
  <1>7. QED BY <1>1, <1>5, <1>6

\* Lists joined one after another are a list of what all of them are lists of.
IsList(S, seq) == seq \in Seq(S)
WaitingStep(s, a, n) == a \o s.node[n].async_todo
Waitings == INSTANCE FoldProofs WITH Op <- WaitingStep, Kept <- IsList
OwnStep(s, a, t) == a \o s.own[t]
Owns == INSTANCE FoldProofs WITH Op <- OwnStep, Kept <- IsList
ServingStep(s, a, t) == a \o s.serving[t]
Servings == INSTANCE FoldProofs WITH Op <- ServingStep, Kept <- IsList

WaitingOf(s, nodes) == FoldLeft(LAMBDA a, n : a \o s.node[n].async_todo, <<>>, nodes)

\* The oneways that waited at some nodes are a list of work.
LEMMA WaitingList ==
  ASSUME NEW S, NEW s, NEW T, NEW nodes \in Seq(T), \A n \in T : s.node[n].async_todo \in Seq(S)
  PROVE  WaitingOf(s, nodes) \in Seq(S)
  <1>1. IsList(S, <<>>)
    BY DEF IsList
  <1>2. \A i \in DOMAIN nodes : s.node[nodes[i]].async_todo \in Seq(S)
    OBVIOUS
  <1>3. \A a : \A i \in DOMAIN nodes : IsList(S, a) => IsList(S, WaitingStep(s, a, nodes[i]))
    BY <1>2 DEF IsList, WaitingStep
  <1>4. IsList(S, Waitings!FoldOf(s, <<>>, nodes))
    BY <1>1, <1>3, Waitings!FoldKeeps
  <1>5. Waitings!FoldOf(s, <<>>, nodes) = WaitingOf(s, nodes)
    BY DEF WaitingOf, WaitingStep, Waitings!FoldOf, FoldLeft, Waitings!Body, MapThenFoldSet,
           Max, Waitings!Max
  <1>6. QED BY <1>4, <1>5 DEF IsList

OwnOf(s, threads) == FoldLeft(LAMBDA a, t : a \o s.own[t], <<>>, threads)

\* The work for some threads is one.
LEMMA OwnList ==
  ASSUME NEW S, NEW s, NEW T, NEW threads \in Seq(T), \A t \in T : s.own[t] \in Seq(S)
  PROVE  OwnOf(s, threads) \in Seq(S)
  <1>1. IsList(S, <<>>)
    BY DEF IsList
  <1>2. \A i \in DOMAIN threads : s.own[threads[i]] \in Seq(S)
    OBVIOUS
  <1>3. \A a : \A i \in DOMAIN threads : IsList(S, a) => IsList(S, OwnStep(s, a, threads[i]))
    BY <1>2 DEF IsList, OwnStep
  <1>4. IsList(S, Owns!FoldOf(s, <<>>, threads))
    BY <1>1, <1>3, Owns!FoldKeeps
  <1>5. Owns!FoldOf(s, <<>>, threads) = OwnOf(s, threads)
    BY DEF OwnOf, OwnStep, Owns!FoldOf, FoldLeft, Owns!Body, MapThenFoldSet,
           Max, Owns!Max
  <1>6. QED BY <1>4, <1>5 DEF IsList

ServingOf(s, threads) == FoldLeft(LAMBDA a, t : a \o s.serving[t], <<>>, threads)

\* The callers some threads serve are a list of threads.
LEMMA ServingList ==
  ASSUME NEW S, NEW s, NEW T, NEW threads \in Seq(T), \A t \in T : s.serving[t] \in Seq(S)
  PROVE  ServingOf(s, threads) \in Seq(S)
  <1>1. IsList(S, <<>>)
    BY DEF IsList
  <1>2. \A i \in DOMAIN threads : s.serving[threads[i]] \in Seq(S)
    OBVIOUS
  <1>3. \A a : \A i \in DOMAIN threads : IsList(S, a) => IsList(S, ServingStep(s, a, threads[i]))
    BY <1>2 DEF IsList, ServingStep
  <1>4. IsList(S, Servings!FoldOf(s, <<>>, threads))
    BY <1>1, <1>3, Servings!FoldKeeps
  <1>5. Servings!FoldOf(s, <<>>, threads) = ServingOf(s, threads)
    BY DEF ServingOf, ServingStep, Servings!FoldOf, FoldLeft, Servings!Body, MapThenFoldSet,
           Max, Servings!Max
  <1>6. QED BY <1>4, <1>5 DEF IsList

-----------------------------------------------------------------------------
(* The driver's ends, and what takes several of the broker's operators.    *)

\* A process that ends leaves a broker, without its buffers, and other processes' nodes alone.
LEMMA ReleasedOK ==
  ASSUME NEW s, BrokerOK(s), NEW p \in Procs
  PROVE  LET u == Released(s, p) IN
         /\ BrokerOK(u)
         /\ u.spawn_requested = s.spawn_requested /\ u.dead = s.dead \cup {p}
         /\ u.buffers = s.buffers \ BuffersOf(s, p)
         /\ NodesStay({p}, s, u) /\ QueuesGrow({p}, s, u)
  <1> DEFINE mine == {n \in Nodes : s.node[n].obj # NoObject /\ owner[s.node[n].obj] = p}
             nodes == InOrder(mine)
             threads == InOrder(ThreadsOf(p))
             queued == WaitingOf(s, nodes)
             own == OwnOf(s, threads)
             unread == queued \o s.todo[p] \o own
             waiting == ServingOf(s, threads)
             held == InOrder({n \in Nodes : HandlesOn(s, p, n) # {}})
             buffers == InOrder(BuffersOf(s, p))
             died == FoldLeft(NodeDied, s, nodes)
             empty == [died EXCEPT !.dead = @ \cup {p}, !.todo[p] = <<>>,
                                   !.own = [t \in Threads |-> IF proc[t] = p THEN <<>> ELSE @[t]],
                                   !.serving = [t \in Threads |-> IF proc[t] = p THEN <<>> ELSE @[t]],
                                   !.awaiting = [t \in Threads |-> IF proc[t] = p THEN 0 ELSE @[t]],
                                   !.looper = @ \ ThreadsOf(p), !.idle = @ \ ThreadsOf(p),
                                   !.refs[p] = [h \in Handles |-> 0], !.buffers = @ \ BuffersOf(s, p)]
             told == FoldLeft(LAMBDA a, t : IF t = NoThread THEN a ELSE QueueThread(a, t, Plain("dead_reply")),
                              empty, waiting)
             dropped == FoldLeft(WorkDropped, told, unread)
             freed == FoldLeft(LAMBDA a, b : Unpinned(a, b.pinned), dropped, buffers)
             gone == FoldLeft(LetGo, freed, held)
             u == [gone EXCEPT !.woken = @ \cup s.watching]
  <1>0. Released(s, p) = u
    BY DEF Released, WaitingOf, OwnOf, ServingOf
  <1>1. IsFiniteSet(Nodes) /\ IsFiniteSet(Threads)
    BY BrokerAssumption, FS_Interval DEF Nodes
  <1>2. nodes \in Seq(mine) /\ mine \in SUBSET Nodes /\ \A n \in mine : At(s, n, p)
    <2>1. mine \in SUBSET Nodes /\ IsFiniteSet(mine)
      BY <1>1, FS_Subset
    <2>2. nodes \in Seq(mine)
      BY <2>1, InOrderSeq
    <2>3. \A n \in mine : s.node[n].obj \in Objects
      BY NodeTypes DEF NoNode, MadeNodes
    <2>4. QED BY <2>1, <2>2, <2>3 DEF At
  <1>3. threads \in Seq(Threads)
    <2>1. ThreadsOf(p) \in SUBSET Threads /\ IsFiniteSet(ThreadsOf(p))
      BY <1>1, FS_Subset DEF ThreadsOf
    <2>2. QED BY <2>1, InOrderSeq
  <1>4. buffers \in Seq(Buffered)
    <2>1. BuffersOf(s, p) \in SUBSET s.buffers /\ s.buffers \in SUBSET Buffered /\ IsFiniteSet(s.buffers)
      BY DEF BuffersOf, BrokerOK, BuffersOK
    <2>2. IsFiniteSet(BuffersOf(s, p))
      BY <2>1, FS_Subset
    <2>3. QED BY <2>1, <2>2, InOrderSeq
  <1>5. held \in Seq(Nodes)
    <2>1. {n \in Nodes : HandlesOn(s, p, n) # {}} \in SUBSET Nodes
          /\ IsFiniteSet({n \in Nodes : HandlesOn(s, p, n) # {}})
      BY <1>1, FS_Subset
    <2>2. QED BY <2>1, InOrderSeq
  <1> DEFINE S == {w \in Work : w \in Sync \/ w \in Unread(s, p)}
  <1>6. unread \in Seq(S)
    <2>1. \A n \in mine : s.node[n].async_todo \in Seq(S)
      <3> TAKE n \in mine
      <3>1. s.node[n].async_todo \in Seq(Txns)
        BY <1>2, NodeTypes
      <3>2. \A i \in DOMAIN s.node[n].async_todo : s.node[n].async_todo[i].async = n
        BY <1>2 DEF BrokerOK, PlacesOK
      <3>3. \A i \in DOMAIN s.node[n].async_todo : s.node[n].async_todo[i] \in S
        BY <3>1, <3>2, <1>2 DEF Unread, Work
      <3>4. QED BY <3>1, <3>3
    <2>2. queued \in Seq(S)
      <3> HIDE DEF S, nodes, mine
      <3>1. QED BY <1>2, <2>1, WaitingList
    <2>3. s.todo[p] \in Seq(S)
      <3>1. s.todo[p] \in Seq(Work)
        BY DEF BrokerOK, QueuesOK
      <3>2. \A i \in DOMAIN s.todo[p] : s.todo[p][i] \in Unread(s, p)
        BY <3>1 DEF BrokerOK, PlacesOK, Unread
      <3>3. \A i \in DOMAIN s.todo[p] : s.todo[p][i] \in S
        BY <3>1, <3>2
      <3>4. QED BY <3>1, <3>3
    <2>4. \A t \in Threads : s.own[t] \in Seq(S)
      <3>1. \A t \in Threads : s.own[t] \in Seq(Sync)
        BY DEF BrokerOK, QueuesOK
      <3>2. Sync \subseteq S
        BY DEF Sync
      <3> HIDE DEF S
      <3> TAKE t \in Threads
      <3>3. \A i \in DOMAIN s.own[t] : s.own[t][i] \in S
        BY <3>1, <3>2
      <3>4. QED BY <3>1, <3>3
    <2>5. own \in Seq(S)
      <3> HIDE DEF S, threads
      <3>1. QED BY <1>3, <2>4, OwnList
    <2> HIDE DEF S, queued, own
    <2>6. QED BY <2>2, <2>3, <2>5
  <1>7. waiting \in Seq(Threads \cup {NoThread})
    <2>1. \A t \in Threads : s.serving[t] \in Seq(Threads \cup {NoThread})
      BY DEF BrokerOK, QueuesOK
    <2> HIDE DEF threads
    <2>2. QED BY <1>3, <2>1, ServingList
  <1>8. Steady({p}, s, died)
    BY <1>2, DiedSteady
  <1>9. BrokerOK(died)
    BY <1>8 DEF Steady
  <1> HIDE DEF mine, nodes, threads, queued, own, unread, waiting, held, buffers, died
  <1>10. /\ BrokerOK(empty) /\ empty.spawn_requested = died.spawn_requested /\ empty.dead = died.dead \cup {p}
         /\ empty.buffers = died.buffers \ BuffersOf(s, p)
         /\ NodesStay({p}, died, empty) /\ QueuesGrow({p}, died, empty)
         /\ \A n, q : At(died, n, q) => At(empty, n, q)
    <2>1. BrokerFields \subseteq DOMAIN died
      BY <1>9 DEF BrokerOK
    <2>2. /\ BrokerFields \subseteq DOMAIN empty
          /\ empty.node = died.node /\ empty.next_node = died.next_node /\ empty.local = died.local
          /\ empty.last_handle = died.last_handle /\ empty.spawn_requested = died.spawn_requested
      BY <2>1 DEF BrokerFields
    <2>3. /\ empty.dead = died.dead \cup {p} /\ empty.buffers = died.buffers \ BuffersOf(s, p)
          /\ empty.todo = [died.todo EXCEPT ![p] = <<>>]
          /\ empty.refs = [died.refs EXCEPT ![p] = [h \in Handles |-> 0]]
      BY <2>1 DEF BrokerFields
    <2>4. /\ empty.own = [t \in Threads |-> IF proc[t] = p THEN <<>> ELSE died.own[t]]
          /\ empty.serving = [t \in Threads |-> IF proc[t] = p THEN <<>> ELSE died.serving[t]]
      BY <2>1 DEF BrokerFields
    <2> HIDE DEF empty
    <2>5. <<>> \in Seq(Work) /\ <<>> \in Seq(Sync) /\ <<>> \in Seq(Threads \cup {NoThread}) /\ 0 \in 0 .. MaxNode
      BY BrokerAssumption
    <2>6. /\ died.todo \in [Procs -> Seq(Work)] /\ died.own \in [Threads -> Seq(Sync)]
          /\ died.serving \in [Threads -> Seq(Threads \cup {NoThread})]
          /\ died.refs \in [Procs -> [Handles -> 0 .. MaxNode]]
      BY <1>9 DEF BrokerOK, QueuesOK, RefsOK
    <2>7. QueuesOK(empty)
      <3>1. empty.todo \in [Procs -> Seq(Work)]
        BY <2>3, <2>5, <2>6
      <3>2. empty.own \in [Threads -> Seq(Sync)]
        BY <2>4, <2>5, <2>6
      <3>3. empty.serving \in [Threads -> Seq(Threads \cup {NoThread})]
        BY <2>4, <2>5, <2>6
      <3>4. QED BY <3>1, <3>2, <3>3 DEF QueuesOK
    <2>8. RefsOK(empty)
      <3>1. [h \in Handles |-> 0] \in [Handles -> 0 .. MaxNode]
        BY <2>5
      <3>2. empty.refs \in [Procs -> [Handles -> 0 .. MaxNode]]
        BY <2>3, <2>6, <3>1
      <3>3. ASSUME NEW q \in Procs, NEW h \in Handles, empty.refs[q][h] # 0
            PROVE  empty.node[empty.refs[q][h]].obj \in Objects
        <4>1. empty.refs[q][h] = died.refs[q][h]
          BY <3>3, <2>3, <2>6
        <4>2. QED BY <3>3, <4>1, <2>2, <1>9, RefsTypes
      <3>4. QED BY <3>2, <3>3, <2>2, <1>9 DEF BrokerOK, RefsOK
    <2>9. \A n, q : At(died, n, q) => At(empty, n, q)
      BY <2>2 DEF At
    <2>10. \A q \in Procs : empty.todo[q] = IF q = p THEN <<>> ELSE died.todo[q]
      BY <2>3, <2>6
    <2>11. PlacesOK(empty)
      <3>1. ASSUME NEW q \in Procs, NEW i \in DOMAIN empty.todo[q],
                   empty.todo[q][i].kind = "txn", empty.todo[q][i].async # 0
            PROVE  At(empty, empty.todo[q][i].async, q)
        <4>1. q # p /\ empty.todo[q] = died.todo[q]
          BY <3>1, <2>10
        <4>2. QED BY <3>1, <4>1, <2>9, <1>9 DEF BrokerOK, PlacesOK
      <3>2. \A n \in Nodes : \A i \in DOMAIN empty.node[n].async_todo : empty.node[n].async_todo[i].async = n
        BY <2>2, <1>9 DEF BrokerOK, PlacesOK
      <3>3. \A b \in empty.buffers : b.async # 0 => At(empty, b.async, b.proc)
        BY <2>3, <2>9, <1>9 DEF BrokerOK, PlacesOK
      <3>4. QED BY <3>1, <3>2, <3>3 DEF PlacesOK
    <2>12. BuffersOK(empty)
      <3>1. empty.buffers \in SUBSET died.buffers /\ IsFiniteSet(died.buffers)
        BY <2>3, <1>9 DEF BrokerOK, BuffersOK
      <3>2. IsFiniteSet(empty.buffers)
        BY <3>1, FS_Subset
      <3>3. QED BY <3>1, <3>2, <1>9 DEF BrokerOK, BuffersOK
    <2>13. BrokerOK(empty)
      BY <2>2, <2>3, <2>7, <2>8, <2>11, <2>12, <1>9 DEF BrokerOK, NodesOK, CountsOK
    <2>14. QueuesGrow({p}, died, empty)
      BY <2>10, <1>9, GrownTypes, GrownSelf DEF QueuesGrow
    <2>15. QED BY <2>2, <2>3, <2>9, <2>13, <2>14 DEF NodesStay
  <1> HIDE DEF empty
  <1>11. Steady({p}, empty, told)
    BY <1>7, FailedSteady
  <1>12. BrokerOK(told)
    BY <1>10, <1>11 DEF Steady
  <1> HIDE DEF told
  <1>13. Steady({p}, told, dropped)
    <2>1. \A n : At(s, n, p) => At(told, n, p)
      BY <1>8, <1>10, <1>11, AtStays
    <2>2. \A w \in S : w \in Sync \/ w \in Unread(told, p)
      BY <2>1 DEF Unread
    <2>3. S \in SUBSET Work
      OBVIOUS
    <2> HIDE DEF S
    <2>4. QED BY <1>6, <1>12, <2>2, <2>3, DroppedSteady
  <1> HIDE DEF dropped
  <1>14. Steady({p}, dropped, freed)
    BY <1>4, EmptiedSteady
  <1> HIDE DEF freed
  <1>15. Steady({p}, freed, gone)
    BY <1>5, AllLetGoSteady
  <1> HIDE DEF gone
  <1>16. Steady({p}, gone, u)
    <2>1. BrokerOK(gone) => Alike(gone, u)
      BY DEF Alike, BrokerOK, BrokerFields
    <2> HIDE DEF u
    <2>2. QED BY <2>1, AlikeSteady
  <1> HIDE DEF u
  <1>17. Steady({p}, empty, u)
    BY <1>11, <1>13, <1>14, <1>15, <1>16, SteadyOn
  <1>18. /\ BrokerOK(u) /\ Same(empty, u) /\ NodesStay({p}, empty, u) /\ QueuesGrow({p}, empty, u)
         /\ Same(s, died) /\ NodesStay({p}, s, died) /\ QueuesGrow({p}, s, died)
    BY <1>8, <1>10, <1>17 DEF Steady
  <1>19. NodesStay({p}, s, u)
    BY <1>10, <1>18 DEF NodesStay, At
  <1>20. QueuesGrow({p}, s, u)
    BY <1>9, <1>10, <1>18, GrownTypes, GrownOn DEF QueuesGrow
  <1>21. u.spawn_requested = s.spawn_requested /\ u.dead = s.dead \cup {p} /\ u.buffers = s.buffers \ BuffersOf(s, p)
    BY <1>10, <1>18 DEF Same
  <1>22. QED BY <1>0, <1>18, <1>19, <1>20, <1>21

-----------------------------------------------------------------------------
(* A node's oneways, through the broker's operators.                       *)

\* A node that was not made has no oneway out, nor one that waits.
LEMMA NothingOut ==
  ASSUME NEW s, NEW h, BrokerOK(s), HandsOK(s, h), NEW n \in Nodes, s.node[n].obj \notin Objects
  PROVE  /\ ~s.node[n].has_async /\ s.node[n].async_todo = <<>>
         /\ \A p \in Procs : NoneOut(InQueue(s, n, p), InHand(h, n), InBuffer(s, n))
  <1>1. s.node[n] = NoNode
    BY NodeTypes DEF MadeNodes
  <1>2. \A p : ~At(s, n, p)
    BY DEF At
  <1>3. n # 0
    BY DEF Nodes
  <1>4. ASSUME NEW p \in Procs PROVE InQueue(s, n, p) = {}
    BY <1>2, <1>3 DEF InQueue, IsAsync, BrokerOK, PlacesOK
  <1>5. InHand(h, n) = {}
    BY <1>2, <1>3 DEF InHand, IsAsync, HandsOK
  <1>6. InBuffer(s, n) = {}
    BY <1>2, <1>3 DEF InBuffer, BrokerOK, PlacesOK
  <1>7. QED BY <1>1, <1>4, <1>5, <1>6 DEF NoNode, NoneOut

\* A queue that grew of no node's oneways has the ones it had, where they were.
LEMMA GrownQueue ==
  ASSUME NEW s, NEW u, BrokerOK(s), BrokerOK(u), NEW p \in Procs, Grown(s.todo[p], u.todo[p]), NEW n \in Nodes
  PROVE  InQueue(u, n, p) = InQueue(s, n, p)
  <1>1. s.todo[p] \in Seq(Work) /\ u.todo[p] \in Seq(Work)
    BY GrownTypes
  <1>2. n # 0
    BY DEF Nodes
  <1>3. \A w \in Sync : ~IsAsync(w, n)
    BY <1>2 DEF Sync, IsAsync
  <1>4. DOMAIN s.todo[p] = 1 .. Len(s.todo[p]) /\ DOMAIN u.todo[p] = 1 .. Len(u.todo[p])
        /\ Len(s.todo[p]) \in Nat /\ Len(u.todo[p]) \in Nat
    BY <1>1
  <1>5. \A i \in DOMAIN s.todo[p] : i \in DOMAIN u.todo[p] /\ u.todo[p][i] = s.todo[p][i]
    BY <1>4 DEF Grown
  <1>6. \A i \in DOMAIN u.todo[p] : i \in DOMAIN s.todo[p] \/ u.todo[p][i] \in Sync
    BY <1>4 DEF Grown
  <1>7. QED BY <1>3, <1>5, <1>6 DEF InQueue

\* What is out stays so, but of the processes in P, which have ended.
LEMMA OutsStay ==
  ASSUME NEW P, NEW s, NEW u, NEW h, NEW due, Good(s, h, due), BrokerOK(u),
         NodesStay(P, s, u), QueuesGrow(P, s, u), u.dead = s.dead \cup P,
         u.buffers \subseteq s.buffers, \A b \in s.buffers \ u.buffers : b.proc \in P
  PROVE  Good(u, h, due)
  <1>0. BrokerOK(s) /\ HandsOK(s, h)
    BY DEF Good
  <1>1. \A n, q : At(s, n, q) => At(u, n, q)
    BY DEF NodesStay, At
  <1>2. HandsOK(u, h)
    BY <1>0, <1>1 DEF HandsOK
  <1>3. ASSUME NEW n \in Nodes, u.node[n].obj \in Objects, owner[u.node[n].obj] \notin u.dead
        PROVE  LET q == owner[u.node[n].obj] IN
               /\ q \in Procs /\ q \notin P /\ q \notin s.dead
               /\ u.node[n].has_async = s.node[n].has_async /\ u.node[n].async_todo = s.node[n].async_todo
               /\ InQueue(u, n, q) = InQueue(s, n, q) /\ InBuffer(u, n) = InBuffer(s, n)
    <2> DEFINE q == owner[u.node[n].obj]
    <2>1. q \in Procs /\ q \notin P /\ q \notin s.dead
      BY <1>3, BrokerAssumption
    <2>2. \A p \in P : ~At(u, n, p)
      BY <2>1 DEF At
    <2>3. u.node[n].has_async = s.node[n].has_async /\ u.node[n].async_todo = s.node[n].async_todo
      BY <2>2 DEF NodesStay
    <2>4. InQueue(u, n, q) = InQueue(s, n, q)
      BY <1>0, <2>1, GrownQueue DEF QueuesGrow
    <2>5. InBuffer(u, n) = InBuffer(s, n)
      <3>1. n # 0
        BY DEF Nodes
      <3>2. ASSUME NEW b \in s.buffers, b.async = n PROVE b \in u.buffers
        <4>1. At(s, n, b.proc)
          BY <1>0, <3>1, <3>2 DEF BrokerOK, PlacesOK
        <4>2. b.proc = q
          BY <4>1, <1>1 DEF At
        <4>3. QED BY <4>2, <2>1
      <3>3. QED BY <3>2 DEF InBuffer
    <2>6. QED BY <2>1, <2>3, <2>4, <2>5
  <1>4. ASSUME NEW n \in Nodes \ {due} PROVE OneOut(u, h, n)
    <2>1. OneOut(s, h, n)
      BY DEF Good, Outs
    <2>2. CASE u.node[n].obj \in Objects /\ owner[u.node[n].obj] \notin u.dead
      <3>1. CASE s.node[n].obj \in Objects
        <4>1. u.node[n].obj = s.node[n].obj
          BY <3>1 DEF NodesStay
        <4>2. QED BY <4>1, <3>1, <2>1, <2>2, <1>3 DEF OneOut
      <3>2. CASE s.node[n].obj \notin Objects
        <4> DEFINE q == owner[u.node[n].obj]
        <4>1. /\ q \in Procs /\ InQueue(u, n, q) = InQueue(s, n, q) /\ InBuffer(u, n) = InBuffer(s, n)
              /\ u.node[n].has_async = s.node[n].has_async /\ u.node[n].async_todo = s.node[n].async_todo
          BY <2>2, <1>3
        <4>2. /\ ~s.node[n].has_async /\ s.node[n].async_todo = <<>>
              /\ NoneOut(InQueue(s, n, q), InHand(h, n), InBuffer(s, n))
          BY <1>0, <3>2, <4>1, NothingOut
        <4>3. QED BY <4>1, <4>2 DEF OneOut, AtMostOne, NoneOut
      <3>3. QED BY <3>1, <3>2
    <2>3. QED BY <2>2 DEF OneOut
  <1>5. ASSUME due # 0 PROVE DueNext(u, h, due)
    <2>1. DueNext(s, h, due)
      BY <1>5 DEF Good, Outs
    <2>2. due \in Nodes /\ s.node[due].obj \in Objects /\ u.node[due].obj = s.node[due].obj
      BY <2>1 DEF DueNext, NodesStay
    <2>3. QED BY <2>1, <2>2, <1>3 DEF DueNext
  <1>6. QED BY <1>2, <1>4, <1>5 DEF Good, Outs

\* What is steady for all keeps the record good, and its counts.
LEMMA SteadyGood ==
  ASSUME NEW s, NEW u, NEW h, NEW due, Good(s, h, due), Steady({}, s, u)
  PROVE  Good(u, h, due) /\ Same(s, u)
  <1>1. BrokerOK(u) /\ Same(s, u) /\ NodesStay({}, s, u) /\ QueuesGrow({}, s, u)
    BY DEF Good, Steady
  <1>2. QED BY <1>1, OutsStay DEF Same

\* The end of a process (BinderFile::release) keeps the record good for those that are left.
LEMMA ReleasedGood ==
  ASSUME NEW s, NEW h, Good(s, h, 0), NEW p \in Procs
  PROVE  /\ Good(Released(s, p), h, 0)
         /\ Released(s, p).spawn_requested = s.spawn_requested
         /\ Released(s, p).dead = s.dead \cup {p} /\ Released(s, p).buffers \subseteq s.buffers
  <1> DEFINE u == Released(s, p)
  <1>1. /\ BrokerOK(u)
        /\ u.spawn_requested = s.spawn_requested /\ u.dead = s.dead \cup {p}
        /\ u.buffers = s.buffers \ BuffersOf(s, p)
        /\ NodesStay({p}, s, u) /\ QueuesGrow({p}, s, u)
    BY ReleasedOK DEF Good
  <1> HIDE DEF u
  <1>2. u.buffers \subseteq s.buffers /\ \A b \in s.buffers \ u.buffers : b.proc \in {p}
    BY <1>1 DEF BuffersOf
  <1>3. Good(u, h, 0)
    BY <1>1, <1>2, OutsStay
  <1>4. QED BY <1>1, <1>2, <1>3 DEF u

\* What is queued is the last of the queue, and all else that is promised of is as it was.
LEMMA QueueProcIs ==
  ASSUME NEW s, BrokerOK(s), NEW p, NEW work
  PROVE  LET u == QueueProc(s, p, work) IN
         /\ u.node = s.node /\ u.dead = s.dead /\ u.buffers = s.buffers
         /\ u.spawn_requested = s.spawn_requested
         /\ u.todo = [s.todo EXCEPT ![p] = Append(s.todo[p], work)]
  BY DEF QueueProc, WakeOne, BrokerOK, BrokerFields

\* Where work appended for a process is, if it is a node's oneway.
HasAppended(s, u, p, w) ==
  s.todo \in [Procs -> Seq(Work)] /\ u.todo = [s.todo EXCEPT ![p] = Append(s.todo[p], w)]
Added(s, p, w, n, q) == IF q = p /\ IsAsync(w, n) THEN {Len(s.todo[p]) + 1} ELSE {}

\* One oneway more is the last of one queue.
LEMMA AppendedQueue ==
  ASSUME NEW s, NEW u, NEW p \in Procs, NEW w, HasAppended(s, u, p, w), NEW n, NEW q \in Procs
  PROVE  InQueue(u, n, q) = InQueue(s, n, q) \cup Added(s, p, w, n, q)
  <1>0. s.todo \in [Procs -> Seq(Work)] /\ u.todo = [s.todo EXCEPT ![p] = Append(s.todo[p], w)]
    BY DEF HasAppended
  <1>1. CASE q # p
    <2>1. u.todo[q] = s.todo[q]
      BY <1>0, <1>1
    <2>2. QED BY <2>1, <1>1 DEF InQueue, Added
  <1>2. CASE q = p
    <2>1. s.todo[p] \in Seq(Work \cup {w}) /\ w \in Work \cup {w} /\ u.todo[q] = Append(s.todo[p], w)
      BY <1>0, <1>2
    <2>2. /\ DOMAIN s.todo[p] = 1 .. Len(s.todo[p]) /\ Len(s.todo[p]) \in Nat
          /\ DOMAIN u.todo[q] = 1 .. Len(s.todo[p]) + 1
      BY <2>1
    <2>5. \A i \in 1 .. Len(s.todo[p]) : u.todo[q][i] = s.todo[p][i]
      BY <2>1, <2>2
    <2>6. u.todo[q][Len(s.todo[p]) + 1] = w
      BY <2>1, <2>2
    <2>3. \A i \in 1 .. Len(s.todo[p]) + 1 : i \in 1 .. Len(s.todo[p]) \/ i = Len(s.todo[p]) + 1
      BY <2>2
    <2>4. QED BY <2>2, <2>3, <2>5, <2>6, <1>2 DEF InQueue, Added
  <1>3. QED BY <1>1, <1>2

\* The rest of the nodes.
LEMMA OthersOut ==
  ASSUME NEW s, NEW u, NEW h, NEW g, NEW m, OneOut(s, h, m),
         u.node[m] = s.node[m], u.dead = s.dead, InBuffer(u, m) = InBuffer(s, m), InHand(g, m) = InHand(h, m),
         \A q \in Procs : InQueue(u, m, q) = InQueue(s, m, q)
  PROVE  OneOut(u, g, m)
  BY BrokerAssumption DEF OneOut

\* queue_oneway, one out of the node or none.
LEMMA OnewayGood ==
  ASSUME NEW s, NEW h, Good(s, h, 0), NEW n \in Nodes, s.node[n].obj \in Objects, NEW txn \in CallTxns
  PROVE  Good(OnewayQueued(s, n, txn), h, 0) /\ Same(s, OnewayQueued(s, n, txn))
  <1> DEFINE u == OnewayQueued(s, n, txn)
             p == owner[s.node[n].obj]
             w == [txn EXCEPT !.async = n]
  <1>0. BrokerOK(s) /\ HandsOK(s, h) /\ p \in Procs /\ n # 0
    BY BrokerAssumption DEF Good, Nodes
  <1>00. \A k \in Nodes : OneOut(s, h, k)
    BY DEF Good, Outs, Nodes
  <1>1. At(s, n, p)
    BY DEF At
  <1>2. BrokerOK(u) /\ Same(s, u) /\ NodesStay({p}, s, u)
    <2>1. p \in {p}
      OBVIOUS
    <2>2. Steady({p}, s, u)
      BY <1>1, <2>1, OnewayQueuedSteady
    <2>3. QED BY <1>0, <2>2 DEF Steady
  <1>3. HandsOK(u, h)
    <2>1. \A k, q : At(s, k, q) => At(u, k, q)
      BY <1>2 DEF NodesStay, At
    <2>2. QED BY <1>0, <2>1 DEF HandsOK
  <1>4. "node" \in DOMAIN s /\ s.node \in [Nodes -> MadeNodes \cup {NoNode}] /\ s.node[n] \in MadeNodes
        /\ s.todo \in [Procs -> Seq(Work)] /\ s.node[n].async_todo \in Seq(Txns)
    BY <1>0, NodeTypes DEF BrokerOK, BrokerFields, NodesOK, QueuesOK
  <1>5. OneOut(s, h, n)
    BY <1>0 DEF Good, Outs
  <1>6. w.kind = "txn" /\ w.async = n
    BY DEF Txns, CallTxns, ReplyTxns, Flying
  <1> HIDE DEF w
  <1>7. CASE s.node[n].has_async
    <2> DEFINE m == [s.node[n] EXCEPT !.async_todo = Append(s.node[n].async_todo, w)]
    <2>1. u = [s EXCEPT !.node = [s.node EXCEPT ![n] = m]]
      BY <1>4, <1>7 DEF OnewayQueued, w
    <2>2. m.obj = s.node[n].obj /\ m.has_async = s.node[n].has_async
      BY <1>4 DEF MadeNodes
    <2> HIDE DEF m, u
    <2>3. u.todo = s.todo /\ u.buffers = s.buffers /\ u.dead = s.dead
          /\ \A k \in Nodes : u.node[k] = IF k = n THEN m ELSE s.node[k]
      BY <1>4, <2>1
    <2>4. \A k, q : InQueue(u, k, q) = InQueue(s, k, q)
      BY <2>3 DEF InQueue
    <2>5. \A k : InBuffer(u, k) = InBuffer(s, k)
      BY <2>3 DEF InBuffer
    <2>6. OneOut(u, h, n)
      <3>1. /\ u.node[n] = m /\ u.dead = s.dead
            /\ InQueue(u, n, p) = InQueue(s, n, p) /\ InBuffer(u, n) = InBuffer(s, n)
        BY <2>3, <2>4, <2>5
      <3>2. m.obj = s.node[n].obj /\ m.has_async
        BY <1>7, <2>2
      <3>3. QED BY <1>5, <1>7, <3>1, <3>2 DEF OneOut
    <2>7. ASSUME NEW k \in Nodes \ {n} PROVE OneOut(u, h, k)
      <3>1. OneOut(s, h, k)
        BY <1>00
      <3>2. u.node[k] = s.node[k] /\ InBuffer(u, k) = InBuffer(s, k) /\ u.dead = s.dead
            /\ \A q \in Procs : InQueue(u, k, q) = InQueue(s, k, q)
        BY <2>3, <2>4, <2>5
      <3>3. QED BY <3>1, <3>2, OthersOut
    <2>8. Outs(u, h, 0)
      BY <2>6, <2>7 DEF Outs
    <2>9. QED BY <1>2, <1>3, <2>8 DEF Good, u
  <1>8. CASE ~s.node[n].has_async
    <2> DEFINE m == [s.node[n] EXCEPT !.has_async = TRUE]
               v == [s EXCEPT !.node = [s.node EXCEPT ![n] = m]]
    <2>1. u = QueueProc(v, p, w)
      <3>1. v = [s EXCEPT !.node[n].has_async = TRUE]
        BY <1>4
      <3> HIDE DEF v
      <3>2. QED BY <1>8, <3>1 DEF OnewayQueued, w
    <2>2. m.obj = s.node[n].obj /\ m.has_async /\ m.async_todo = s.node[n].async_todo
      BY <1>4 DEF MadeNodes
    <2>3. /\ BrokerFields \subseteq DOMAIN v /\ v.todo = s.todo /\ v.buffers = s.buffers /\ v.dead = s.dead
          /\ v.node = [s.node EXCEPT ![n] = m]
      BY <1>0, <1>4 DEF BrokerOK, BrokerFields
    <2> HIDE DEF m, v, u
    <2>4. u.node = v.node /\ u.dead = v.dead /\ u.buffers = v.buffers
          /\ u.todo = [v.todo EXCEPT ![p] = Append(v.todo[p], w)]
      BY <2>1, <2>3 DEF QueueProc, WakeOne, BrokerFields
    <2>5. \A k \in Nodes : u.node[k] = IF k = n THEN m ELSE s.node[k]
      BY <1>4, <2>3, <2>4
    <2>6. \A k : \A q \in Procs : InQueue(u, k, q) = InQueue(s, k, q) \cup Added(s, p, w, k, q)
      <3> TAKE k
      <3> TAKE q \in Procs
      <3>1. HasAppended(s, u, p, w)
        BY <1>4, <2>3, <2>4 DEF HasAppended
      <3>2. p \in Procs
        BY <1>0
      <3> HIDE DEF p
      <3>3. QED BY <3>1, <3>2, AppendedQueue
    <2>7. \A k : InBuffer(u, k) = InBuffer(s, k)
      BY <2>3, <2>4 DEF InBuffer
    <2>8. OneOut(u, h, n)
      <3> SUFFICES ASSUME p \notin s.dead PROVE OneOut(u, h, n)
        BY <2>2, <2>3, <2>4, <2>5 DEF OneOut
      <3>1. NoneOut(InQueue(s, n, p), InHand(h, n), InBuffer(s, n)) /\ s.node[n].async_todo = <<>>
        BY <1>5, <1>8 DEF OneOut
      <3>2. InQueue(u, n, p) = {Len(s.todo[p]) + 1} /\ InBuffer(u, n) = {}
        BY <1>0, <1>6, <2>6, <2>7, <3>1 DEF IsAsync, NoneOut, Added
      <3>3. u.node[n] = m
        BY <2>5
      <3>4. m.async_todo = <<>> /\ m.obj = s.node[n].obj /\ m.has_async
        BY <2>2, <3>1
      <3>5. AtMostOne(InQueue(u, n, p), InHand(h, n), InBuffer(u, n))
            /\ ~NoneOut(InQueue(u, n, p), InHand(h, n), InBuffer(u, n))
        BY <3>1, <3>2 DEF AtMostOne, NoneOut
      <3>6. QED BY <3>3, <3>4, <3>5 DEF OneOut
    <2>9. \A k \in Nodes \ {n} : OneOut(u, h, k)
      <3> TAKE k \in Nodes \ {n}
      <3>1. ~IsAsync(w, k)
        BY <1>6 DEF IsAsync
      <3>2. \A q \in Procs : InQueue(u, k, q) = InQueue(s, k, q)
        BY <2>6, <3>1 DEF Added
      <3>3. OneOut(s, h, k)
        BY <1>00
      <3>4. u.node[k] = s.node[k] /\ u.dead = s.dead /\ InBuffer(u, k) = InBuffer(s, k)
        BY <2>3, <2>4, <2>5, <2>7
      <3>5. QED BY <3>2, <3>3, <3>4, OthersOut
    <2>10. Outs(u, h, 0)
      BY <2>8, <2>9 DEF Outs
    <2>11. QED BY <1>2, <1>3, <2>10 DEF Good, u
  <1>9. QED BY <1>7, <1>8

\* async_done: a node that is due its next has it out, or none.
LEMMA AsyncDoneGood ==
  ASSUME NEW s, NEW h, NEW n, Good(s, h, n)
  PROVE  Good(AsyncDone(s, n), h, 0) /\ Same(s, AsyncDone(s, n))
  <1>1. CASE n = 0
    <2>1. AsyncDone(s, n) = s
      BY <1>1 DEF AsyncDone
    <2>2. QED BY <1>1, <2>1 DEF Same
  <1>2. CASE n # 0
    <2> DEFINE u == AsyncDone(s, n)
               p == owner[s.node[n].obj]
    <2>0. DueNext(s, h, n) /\ \A k \in Nodes \ {n} : OneOut(s, h, k)
      BY <1>2 DEF Good, Outs
    <2>1. n \in Nodes /\ s.node[n].obj \in Objects /\ At(s, n, p) /\ p \in Procs
          /\ BrokerOK(s) /\ HandsOK(s, h)
      BY <2>0, BrokerAssumption DEF DueNext, At, Good
    <2>2. BrokerOK(u) /\ Same(s, u) /\ NodesStay({p}, s, u)
      <3>1. Steady({p}, s, u)
        BY <2>1, AsyncDoneSteady
      <3>2. QED BY <2>1, <3>1 DEF Steady
    <2>3. HandsOK(u, h)
      <3>1. \A k, q : At(s, k, q) => At(u, k, q)
        BY <2>2 DEF NodesStay, At
      <3>2. QED BY <2>1, <3>1 DEF HandsOK
    <2>4. "node" \in DOMAIN s /\ s.node \in [Nodes -> MadeNodes \cup {NoNode}] /\ s.node[n] \in MadeNodes
          /\ s.todo \in [Procs -> Seq(Work)] /\ s.node[n].async_todo \in Seq(Txns)
          /\ \A i \in DOMAIN s.node[n].async_todo : s.node[n].async_todo[i].async = n
      BY <2>1, NodeTypes DEF BrokerOK, BrokerFields, NodesOK, QueuesOK, PlacesOK
    <2>5. CASE s.node[n].async_todo = <<>>
      <3> DEFINE m == [s.node[n] EXCEPT !.has_async = FALSE]
      <3>1. u = [s EXCEPT !.node = [s.node EXCEPT ![n] = m]]
        BY <1>2, <2>4, <2>5 DEF AsyncDone
      <3>2. m.obj = s.node[n].obj /\ ~m.has_async /\ m.async_todo = s.node[n].async_todo
        BY <2>4 DEF MadeNodes
      <3> HIDE DEF m, u
      <3>3. u.todo = s.todo /\ u.buffers = s.buffers /\ u.dead = s.dead
            /\ \A k \in Nodes : u.node[k] = IF k = n THEN m ELSE s.node[k]
        BY <2>4, <3>1
      <3>4. \A k, q : InQueue(u, k, q) = InQueue(s, k, q)
        BY <3>3 DEF InQueue
      <3>5. \A k : InBuffer(u, k) = InBuffer(s, k)
        BY <3>3 DEF InBuffer
      <3>6. OneOut(u, h, n)
        BY <2>0, <2>1, <2>5, <3>2, <3>3, <3>4, <3>5 DEF OneOut, DueNext, AtMostOne, NoneOut
      <3>7. \A k \in Nodes \ {n} : OneOut(u, h, k)
        BY <2>0, <3>3, <3>4, <3>5, OthersOut
      <3>8. Outs(u, h, 0)
        BY <3>6, <3>7 DEF Outs
      <3>9. QED BY <2>2, <2>3, <3>8 DEF Good, u
    <2>6. CASE s.node[n].async_todo # <<>>
      <3> DEFINE m == [s.node[n] EXCEPT !.async_todo = Tail(s.node[n].async_todo)]
                 v == [s EXCEPT !.node = [s.node EXCEPT ![n] = m]]
                 w == Head(s.node[n].async_todo)
      <3>1. u = QueueProc(v, p, w)
        <4>1. v = [s EXCEPT !.node[n].async_todo = Tail(@)]
          BY <2>4
        <4> HIDE DEF v
        <4>2. QED BY <1>2, <2>6, <4>1 DEF AsyncDone
      <3>2. w.kind = "txn" /\ w.async = n
        <4>1. w \in Txns /\ w.async = n
          BY <2>4, <2>6
        <4> HIDE DEF w
        <4>2. QED BY <4>1 DEF Txns, CallTxns, ReplyTxns, Flying
      <3>3. m.obj = s.node[n].obj /\ m.has_async = s.node[n].has_async
        BY <2>4 DEF MadeNodes
      <3>4. /\ BrokerFields \subseteq DOMAIN v /\ v.todo = s.todo /\ v.buffers = s.buffers /\ v.dead = s.dead
            /\ v.node = [s.node EXCEPT ![n] = m]
        BY <2>1, <2>4 DEF BrokerOK, BrokerFields
      <3> HIDE DEF m, v, u, w
      <3>5. u.node = v.node /\ u.dead = v.dead /\ u.buffers = v.buffers
            /\ u.todo = [v.todo EXCEPT ![p] = Append(v.todo[p], w)]
        BY <3>1, <3>4 DEF QueueProc, WakeOne, BrokerFields
      <3>6. \A k \in Nodes : u.node[k] = IF k = n THEN m ELSE s.node[k]
        BY <2>4, <3>4, <3>5
      <3>7. \A k : \A q \in Procs : InQueue(u, k, q) = InQueue(s, k, q) \cup Added(s, p, w, k, q)
        <4> TAKE k
        <4> TAKE q \in Procs
        <4>1. HasAppended(s, u, p, w)
          BY <2>4, <3>4, <3>5 DEF HasAppended
        <4>2. p \in Procs
          BY <2>1
        <4> HIDE DEF p
        <4>3. QED BY <4>1, <4>2, AppendedQueue
      <3>8. \A k : InBuffer(u, k) = InBuffer(s, k)
        BY <3>4, <3>5 DEF InBuffer
      <3>9. OneOut(u, h, n)
        <4> SUFFICES ASSUME p \notin s.dead PROVE OneOut(u, h, n)
          BY <2>1, <3>3, <3>4, <3>5, <3>6 DEF OneOut
        <4>1. NoneOut(InQueue(s, n, p), InHand(h, n), InBuffer(s, n)) /\ s.node[n].has_async
          BY <2>0 DEF DueNext
        <4>2. InQueue(u, n, p) = {Len(s.todo[p]) + 1} /\ InBuffer(u, n) = {}
          BY <2>1, <3>2, <3>7, <3>8, <4>1 DEF IsAsync, NoneOut, Added
        <4>3. u.node[n] = m
          BY <2>1, <3>6
        <4>4. m.obj = s.node[n].obj /\ m.has_async
          BY <3>3, <4>1
        <4>5. AtMostOne(InQueue(u, n, p), InHand(h, n), InBuffer(u, n))
              /\ ~NoneOut(InQueue(u, n, p), InHand(h, n), InBuffer(u, n))
          BY <4>1, <4>2 DEF AtMostOne, NoneOut
        <4>6. QED BY <4>3, <4>4, <4>5 DEF OneOut
      <3>10. \A k \in Nodes \ {n} : OneOut(u, h, k)
        <4> TAKE k \in Nodes \ {n}
        <4>1. ~IsAsync(w, k)
          BY <3>2 DEF IsAsync
        <4>2. \A q \in Procs : InQueue(u, k, q) = InQueue(s, k, q)
          BY <3>7, <4>1 DEF Added
        <4>3. QED BY <2>0, <3>4, <3>5, <3>6, <3>8, <4>2, OthersOut
      <3>11. Outs(u, h, 0)
        BY <3>9, <3>10 DEF Outs
      <3>12. QED BY <2>2, <2>3, <3>11 DEF Good, u
    <2>7. QED BY <2>5, <2>6
  <1>3. QED BY <1>1, <1>2

-----------------------------------------------------------------------------
(* A buffer's record taken out.                                            *)

FreeStep(k, s, r) == Unpinned(AsyncDone(s, r.async), r.pinned)
Freeing == INSTANCE FoldProofs WITH Op <- FreeStep, Kept <- SteadyFrom

\* A buffer's record taken out: what it pinned is let go, its node's next oneway sent.
LEMMA FreedIs ==
  ASSUME NEW s, NEW R, NEW r, R = {r}
  PROVE  Freed(s, R) = Unpinned(AsyncDone([s EXCEPT !.buffers = @ \ R], r.async), r.pinned)
  <1> DEFINE off == [s EXCEPT !.buffers = @ \ R]
             seq == InOrder(R)
  <1>1. seq \in Seq({r}) /\ Len(seq) = 1 /\ seq[1] = r
    <2>1. Cardinality(R) = 1 /\ IsFiniteSet(R)
      BY FS_Singleton
    <2>2. \E f \in [1 .. 1 -> R] : IsInjective(f)
      <3> DEFINE f == [i \in 1 .. 1 |-> r]
      <3>1. f \in [1 .. 1 -> R] /\ IsInjective(f)
        BY DEF IsInjective
      <3>2. QED BY <3>1
    <2>3. seq = CHOOSE f \in [1 .. 1 -> R] : IsInjective(f)
      BY <2>1 DEF InOrder, SetToSeq
    <2>4. seq \in [1 .. 1 -> R]
      BY <2>2, <2>3
    <2>5. seq \in Seq({r})
      BY <2>1, InOrderSeq
    <2> HIDE DEF seq
    <2>6. QED BY <2>4, <2>5
  <1> HIDE DEF seq
  <1>2. PICK run : Freeing!Runs(0, off, seq, run, Freeing!FoldOf(0, off, seq))
    BY <1>1, Freeing!FoldRuns
  <1>3. run[0] = off /\ run[1] = FreeStep(0, run[0], seq[1]) /\ Freeing!FoldOf(0, off, seq) = run[1]
    BY <1>1, <1>2 DEF Freeing!Runs
  <1>4. Freeing!FoldOf(0, off, seq) = Freed(s, R)
    BY DEF Freed, seq, FreeStep, Freeing!FoldOf, FoldLeft, Freeing!Body, MapThenFoldSet,
           Max, Freeing!Max
  <1>5. QED BY <1>1, <1>3, <1>4 DEF FreeStep

\* No record there, nothing but the record's absence.
LEMMA FreedNone ==
  ASSUME NEW s, NEW R, R = {}
  PROVE  Freed(s, R) = [s EXCEPT !.buffers = @ \ R]
  <1> DEFINE off == [s EXCEPT !.buffers = @ \ R]
             seq == InOrder(R)
  <1>1. seq \in Seq({}) /\ Len(seq) = 0
    <2>1. seq \in Seq({})
      BY FS_EmptySet, InOrderSeq
    <2> HIDE DEF seq
    <2>2. QED BY <2>1
  <1> HIDE DEF seq
  <1>2. PICK run : Freeing!Runs(0, off, seq, run, Freeing!FoldOf(0, off, seq))
    BY <1>1, Freeing!FoldRuns
  <1>3. run[0] = off /\ Freeing!FoldOf(0, off, seq) = run[0]
    BY <1>1, <1>2 DEF Freeing!Runs
  <1>4. Freeing!FoldOf(0, off, seq) = Freed(s, R)
    BY DEF Freed, seq, FreeStep, Freeing!FoldOf, FoldLeft, Freeing!Body, MapThenFoldSet,
           Max, Freeing!Max
  <1>5. QED BY <1>3, <1>4

\* The records off, and no more: the node of one is due its next.
LEMMA BuffersLess ==
  ASSUME NEW s, NEW h, Good(s, h, 0), NEW R \in SUBSET s.buffers
  PROVE  LET u == [s EXCEPT !.buffers = @ \ R] IN
         /\ BrokerOK(u) /\ HandsOK(u, h) /\ BrokerFields \subseteq DOMAIN u
         /\ u.buffers = s.buffers \ R /\ u.node = s.node /\ u.todo = s.todo
         /\ u.spawn_requested = s.spawn_requested /\ u.dead = s.dead
  <1> DEFINE u == [s EXCEPT !.buffers = @ \ R]
  <1>0. BrokerOK(s) /\ HandsOK(s, h) /\ BrokerFields \subseteq DOMAIN s
    BY DEF Good, BrokerOK
  <1>1. BrokerFields \subseteq DOMAIN u
        /\ u.node = s.node /\ u.next_node = s.next_node /\ u.local = s.local /\ u.refs = s.refs
        /\ u.last_handle = s.last_handle /\ u.todo = s.todo /\ u.own = s.own /\ u.serving = s.serving
        /\ u.spawn_requested = s.spawn_requested /\ u.dead = s.dead
    BY <1>0 DEF BrokerFields
  <1>2. u.buffers = s.buffers \ R
    BY <1>0 DEF BrokerFields
  <1> HIDE DEF u
  <1>3. \A n, p : At(u, n, p) <=> At(s, n, p)
    BY <1>1 DEF At
  <1>4. BuffersOK(u)
    BY <1>0, <1>2, FS_Subset DEF BrokerOK, BuffersOK
  <1>5. PlacesOK(u)
    BY <1>0, <1>1, <1>2, <1>3 DEF BrokerOK, PlacesOK
  <1>6. BrokerOK(u)
    BY <1>0, <1>1, <1>4, <1>5 DEF BrokerOK, NodesOK, RefsOK, QueuesOK, CountsOK
  <1>7. HandsOK(u, h)
    BY <1>0, <1>3 DEF HandsOK
  <1>8. QED BY <1>1, <1>2, <1>6, <1>7 DEF u

\* Of one thing in one place, taken from a buffer, none is left.
LEMMA OutOfOne ==
  ASSUME NEW Q, NEW H, NEW B, NEW b \in B, AtMostOne(Q, H, B)
  PROVE  NoneOut(Q, H, B \ {b})
  BY DEF AtMostOne, NoneOut

\* A buffer's record taken off leaves its node due its next oneway.
LEMMA RecordOff ==
  ASSUME NEW s, NEW h, Good(s, h, 0), NEW r \in s.buffers
  PROVE  Good([s EXCEPT !.buffers = @ \ {r}], h, r.async)
  <1> DEFINE u == [s EXCEPT !.buffers = @ \ {r}]
  <1>1. /\ BrokerOK(u) /\ HandsOK(u, h)
        /\ u.buffers = s.buffers \ {r} /\ u.node = s.node /\ u.todo = s.todo /\ u.dead = s.dead
    <2>1. {r} \in SUBSET s.buffers
      OBVIOUS
    <2>2. QED BY <2>1, BuffersLess
  <1> HIDE DEF u
  <1>2. \A n, p : InQueue(u, n, p) = InQueue(s, n, p)
    BY <1>1 DEF InQueue
  <1>3. \A n \in Nodes : OneOut(s, h, n)
    BY DEF Good, Outs, Nodes
  <1>4. ASSUME NEW n \in Nodes \ {r.async} PROVE OneOut(u, h, n)
    <2>1. InBuffer(u, n) = InBuffer(s, n)
      BY <1>1 DEF InBuffer
    <2>2. OneOut(s, h, n) /\ u.node[n] = s.node[n] /\ \A q \in Procs : InQueue(u, n, q) = InQueue(s, n, q)
      BY <1>1, <1>2, <1>3
    <2>3. QED BY <1>1, <2>1, <2>2, OthersOut
  <1>5. ASSUME r.async # 0 PROVE DueNext(u, h, r.async)
    <2> DEFINE n == r.async
               p == owner[s.node[n].obj]
    <2>1. At(s, n, r.proc)
      BY <1>5 DEF Good, BrokerOK, PlacesOK
    <2>2. n \in Nodes /\ s.node[n].obj \in Objects
      BY <2>1 DEF At
    <2>3. OneOut(s, h, n)
      BY <1>3, <2>2
    <2>4. r \in InBuffer(s, n) /\ InBuffer(u, n) = InBuffer(s, n) \ {r}
      BY <1>1 DEF InBuffer
    <2>5. ASSUME p \notin s.dead
          PROVE  s.node[n].has_async /\ NoneOut(InQueue(u, n, p), InHand(h, n), InBuffer(u, n))
      <3>1. AtMostOne(InQueue(s, n, p), InHand(h, n), InBuffer(s, n)) /\ s.node[n].has_async
        BY <2>2, <2>3, <2>4, <2>5 DEF OneOut, NoneOut
      <3>2. NoneOut(InQueue(s, n, p), InHand(h, n), InBuffer(s, n) \ {r})
        BY <2>4, <3>1, OutOfOne
      <3>3. QED BY <1>2, <2>4, <3>1, <3>2
    <2>6. QED BY <1>1, <2>2, <2>5 DEF DueNext
  <1>6. QED BY <1>1, <1>4, <1>5 DEF Good, Outs, u

\* BC_FREE_BUFFER's.
LEMMA FreedGood ==
  ASSUME NEW s, NEW h, Good(s, h, 0), NEW R \in SUBSET s.buffers, \A r, q \in R : r = q
  PROVE  LET u == Freed(s, R) IN
         /\ Good(u, h, 0) /\ u.buffers = s.buffers \ R
         /\ u.spawn_requested = s.spawn_requested /\ u.dead = s.dead
  <1>0. LET off == [s EXCEPT !.buffers = @ \ R] IN
        /\ BrokerOK(off) /\ HandsOK(off, h) /\ BrokerFields \subseteq DOMAIN off
        /\ off.buffers = s.buffers \ R /\ off.node = s.node /\ off.todo = s.todo
        /\ off.spawn_requested = s.spawn_requested /\ off.dead = s.dead
    BY BuffersLess
  <1> DEFINE off == [s EXCEPT !.buffers = @ \ R]
  <1>1. CASE R = {}
    <2> DEFINE u == [s EXCEPT !.buffers = @ \ R]
    <2>1. u = Freed(s, R)
      BY <1>1, FreedNone
    <2>2. /\ BrokerOK(u) /\ HandsOK(u, h)
          /\ u.buffers = s.buffers \ R /\ u.node = s.node /\ u.todo = s.todo
          /\ u.spawn_requested = s.spawn_requested /\ u.dead = s.dead
      BY <1>0
    <2> HIDE DEF u
    <2>3. \A n : InBuffer(u, n) = InBuffer(s, n)
      BY <1>1, <2>2 DEF InBuffer
    <2>4. \A n, q : InQueue(u, n, q) = InQueue(s, n, q)
      BY <2>2 DEF InQueue
    <2>5. ASSUME NEW n \in Nodes \ {0} PROVE OneOut(u, h, n)
      <3>1. OneOut(s, h, n)
        BY DEF Good, Outs
      <3>2. QED BY <2>2, <2>3, <2>4, <3>1, OthersOut
    <2>6. Good(u, h, 0)
      BY <2>2, <2>5 DEF Good, Outs
    <2>7. QED BY <2>1, <2>2, <2>6
  <1>2. CASE R # {}
    <2>1. PICK r \in R : R = {r}
      BY <1>2
    <2> DEFINE done == AsyncDone(off, r.async)
               u == Unpinned(done, r.pinned)
    <2>2. Freed(s, R) = u
      BY <2>1, FreedIs
    <2>3. Good(off, h, r.async)
      BY <2>1, RecordOff
    <2>4. off.buffers = s.buffers \ R /\ off.spawn_requested = s.spawn_requested /\ off.dead = s.dead
      BY <1>0
    <2> HIDE DEF off
    <2>5. Good(done, h, 0) /\ Same(off, done)
      BY <2>3, AsyncDoneGood
    <2> HIDE DEF done
    <2>6. r.pinned \in Seq(Nodes)
      BY DEF Good, BrokerOK, BuffersOK, Buffered
    <2>7. Good(u, h, 0) /\ Same(done, u)
      BY <2>5, <2>6, UnpinnedSteady, SteadyGood
    <2>8. QED BY <2>2, <2>4, <2>5, <2>7 DEF Same
  <1>3. QED BY <1>1, <1>2

-----------------------------------------------------------------------------
(* What goes out, and what is taken in hand.                               *)

\* A transaction that goes out (transaction) keeps the record good: a oneway is queued at its
\* node or sent, a call is queued, the sender's next answer with it.
LEMMA SentGood ==
  ASSUME NEW s, NEW h, Good(s, h, 0), NEW t \in Threads, NEW n \in Nodes, s.node[n].obj \in Objects,
         NEW call \in Ops, call.c = "transaction", CanCarry(s, t, call.carries)
  PROVE  Good(Sent(s, t, n, call), h, 0) /\ Same(s, Sent(s, t, n, call))
  <1> DEFINE o == s.node[n].obj
             p == owner[o]
             c == Translated(s, t, p, call.carries)
             txn == Txn(FALSE, call.oneway, IF call.oneway THEN NoThread ELSE t, o, call.code, c.carries,
                        Append(c.pinned, n))
             pinned == Pin(c.st, n)
             waits == [pinned EXCEPT !.awaiting[t] = @ + 1]
             nested == IF call.oneway THEN NoThread ELSE Nested(t, p)
             queued == IF call.oneway THEN OnewayQueued(pinned, n, txn)
                       ELSE IF nested # NoThread THEN QueueThread(waits, nested, txn)
                       ELSE QueueProc(waits, p, txn)
  <1>0. Sent(s, t, n, call) = QueueThread(queued, t, Plain("complete"))
    BY DEF Sent
  <1>1. p \in Procs /\ o \in Objects /\ call.carries \in Carriable /\ call.oneway \in BOOLEAN /\ call.code \in Codes
    BY BrokerAssumption DEF Ops
  <1>2. BrokerOK(s)
    BY DEF Good
  <1>3. Steady({}, s, c.st) /\ c.carries \in Carriable /\ c.pinned \in Seq(Nodes)
    BY <1>1, <1>2, TranslatedSteady
  <1> HIDE DEF c
  <1>4. Steady({}, s, pinned)
    BY <1>3, PinSteady, SteadyOn
  <1>5. Good(pinned, h, 0) /\ Same(s, pinned) /\ pinned.node[n].obj = o
    <2>1. Good(pinned, h, 0) /\ Same(s, pinned)
      BY <1>4, SteadyGood
    <2>2. pinned.node[n].obj = o
      BY <1>1, <1>2, <1>4 DEF Steady, NodesStay
    <2>3. QED BY <2>1, <2>2
  <1>6. txn \in CallTxns /\ txn \in Sync
    <2>1. Append(c.pinned, n) \in Seq(Nodes) \ {<<>>}
      BY <1>3
    <2> DEFINE nodes == Append(c.pinned, n)
    <2> HIDE DEF nodes
    <2>2. nodes \in Seq(Nodes) \ {<<>>}
      BY <2>1 DEF nodes
    <2>3. 0 \in 0 .. MaxNode
      BY BrokerAssumption
    <2>4. txn = [kind |-> "txn", reply |-> FALSE, oneway |-> call.oneway,
                 from |-> IF call.oneway THEN NoThread ELSE t, to |-> o, code |-> call.code,
                 carries |-> c.carries, async |-> 0, pinned |-> nodes]
      BY DEF Txn, nodes
    <2> HIDE DEF txn
    <2>5. txn \in CallTxns /\ txn.async = 0
      BY <1>1, <1>3, <2>2, <2>3, <2>4 DEF CallTxns, Flying
    <2>6. QED BY <2>5 DEF Sync, Work, Txns
  <1> HIDE DEF txn
  <1>7. Good(queued, h, 0) /\ Same(pinned, queued)
    <2>1. CASE call.oneway
      <3> HIDE DEF pinned, o
      <3>1. pinned.node[n].obj \in Objects
        BY <1>1, <1>5
      <3>2. Good(OnewayQueued(pinned, n, txn), h, 0) /\ Same(pinned, OnewayQueued(pinned, n, txn))
        BY <1>5, <1>6, <3>1, OnewayGood
      <3>3. QED BY <2>1, <3>2
    <2>2. CASE ~call.oneway
      <3> HIDE DEF pinned, o, nested
      <3>1. BrokerOK(pinned) => Alike(pinned, waits)
        BY DEF Alike, BrokerOK, BrokerFields
      <3>2. Steady({}, pinned, waits)
        BY <3>1, AlikeSteady
      <3> HIDE DEF waits
      <3>3. Steady({}, waits, QueueThread(waits, nested, txn)) /\ Steady({}, waits, QueueProc(waits, p, txn))
        BY <1>6, QueueThreadSteady, NoteSteady
      <3>4. Steady({}, pinned, QueueThread(waits, nested, txn)) /\ Steady({}, pinned, QueueProc(waits, p, txn))
        BY <3>2, <3>3, SteadyOn
      <3>5. Steady({}, pinned, queued)
        BY <2>2, <3>4
      <3> HIDE DEF queued
      <3>6. QED BY <1>5, <3>5, SteadyGood
    <2>3. QED BY <2>1, <2>2
  <1> HIDE DEF queued, pinned
  <1>8. Steady({}, queued, QueueThread(queued, t, Plain("complete")))
    BY PlainSync, QueueThreadSteady
  <1>9. Good(QueueThread(queued, t, Plain("complete")), h, 0) /\ Same(queued, QueueThread(queued, t, Plain("complete")))
    BY <1>7, <1>8, SteadyGood
  <1>10. QED BY <1>0, <1>5, <1>7, <1>9 DEF Same

\* A reply that goes to its caller.
LEMMA AnsweredSteady ==
  ASSUME NEW s, NEW t \in Threads, NEW u \in Threads, NEW c \in Carriable, CanCarry(s, t, c)
  PROVE  Steady({}, s, Answered(s, t, u, c))
  <1> SUFFICES ASSUME BrokerOK(s) PROVE Steady({}, s, Answered(s, t, u, c))
    BY DEF Steady
  <1> DEFINE r == Translated(s, t, proc[u], c)
             txn == Txn(TRUE, FALSE, NoThread, NoObject, "reply", r.carries, r.pinned)
             told == QueueThread(r.st, u, txn)
  <1>1. proc[u] \in Procs
    BY BrokerAssumption
  <1>2. Steady({}, s, r.st) /\ r.carries \in Carriable /\ r.pinned \in Seq(Nodes)
    BY <1>1, TranslatedSteady
  <1> HIDE DEF r
  <1>3. txn \in Sync
    <2>1. txn = [kind |-> "txn", reply |-> TRUE, oneway |-> FALSE, from |-> NoThread, to |-> NoObject,
                 code |-> "reply", carries |-> r.carries, async |-> 0, pinned |-> r.pinned]
      BY DEF Txn
    <2> HIDE DEF txn
    <2>3. "reply" \in Codes \cup {"reply"} /\ TRUE \in {TRUE} /\ FALSE \in {FALSE} /\ NoThread \in Threads \cup {NoThread}
          /\ NoObject \in {NoObject} /\ 0 \in {0} /\ "txn" \in {"txn"}
      OBVIOUS
    <2>2. txn \in ReplyTxns /\ txn.async = 0
      BY <1>2, <2>1, <2>3 DEF ReplyTxns, Flying
    <2>4. QED BY <2>2 DEF Sync, Work, Txns
  <1> HIDE DEF txn
  <1>4. Steady({}, r.st, told)
    BY <1>3, QueueThreadSteady
  <1> HIDE DEF told
  <1>5. Steady({}, told, QueueThread(told, t, Plain("complete")))
    BY PlainSync, QueueThreadSteady
  <1>6. Answered(s, t, u, c) = QueueThread(told, t, Plain("complete"))
    BY DEF Answered, told, txn, r
  <1>7. QED BY <1>2, <1>4, <1>5, <1>6, SteadyOn

\* A thread that leaves its process's pool (BINDER_THREAD_EXIT).
LEMMA ThreadExitedSteady ==
  ASSUME NEW s, NEW t \in Threads
  PROVE  Steady({}, s, ThreadExited(s, t))
  <1> SUFFICES ASSUME BrokerOK(s) PROVE Steady({}, s, ThreadExited(s, t))
    BY DEF Steady
  <1> DEFINE left == [s EXCEPT !.own[t] = <<>>, !.serving[t] = <<>>, !.awaiting[t] = 0,
                               !.looper = @ \ {t}, !.idle = @ \ {t}]
             caller == IF s.serving[t] = <<>> THEN NoThread ELSE Last(s.serving[t])
             told == IF caller = NoThread THEN left ELSE QueueThread(left, caller, Plain("dead_reply"))
  <1>1. /\ BrokerFields \subseteq DOMAIN s
        /\ s.own \in [Threads -> Seq(Sync)] /\ s.serving \in [Threads -> Seq(Threads \cup {NoThread})]
    BY DEF BrokerOK, QueuesOK
  <1>2. Near(s, left)
    <2>1. /\ BrokerFields \subseteq DOMAIN left
          /\ left.node = s.node /\ left.next_node = s.next_node /\ left.local = s.local /\ left.refs = s.refs
          /\ left.last_handle = s.last_handle /\ left.todo = s.todo
          /\ left.buffers = s.buffers /\ left.spawn_requested = s.spawn_requested /\ left.dead = s.dead
      BY <1>1 DEF BrokerFields
    <2>2. left.own = [s.own EXCEPT ![t] = <<>>] /\ left.serving = [s.serving EXCEPT ![t] = <<>>]
      BY <1>1 DEF BrokerFields
    <2> HIDE DEF left
    <2>3. <<>> \in Seq(Sync) /\ <<>> \in Seq(Threads \cup {NoThread})
      OBVIOUS
    <2>4. left.own \in [Threads -> Seq(Sync)] /\ left.serving \in [Threads -> Seq(Threads \cup {NoThread})]
      BY <1>1, <2>2, <2>3
    <2>5. \A n \in Nodes : NodeLike(s.node[n], s.node[n])
      BY DEF NodeLike, BrokerOK, NodesOK
    <2>6. QED BY <2>1, <2>4, <2>5 DEF Near, BrokerOK, NodesOK, RefsOK
  <1> HIDE DEF left, caller
  <1>3. Steady({}, s, left)
    BY <1>2, NearSteady
  <1>4. Steady({}, left, told)
    BY PlainSync, QueueThreadSteady, SteadySelf
  <1>5. ThreadExited(s, t) = FoldLeft(WorkDropped, told, s.own[t])
    BY DEF ThreadExited, told, left, caller
  <1> HIDE DEF told
  <1>6. Steady({}, s, told) /\ BrokerOK(told)
    BY <1>3, <1>4, SteadyOn DEF Steady
  <1>7. Sync \in SUBSET Work /\ s.own[t] \in Seq(Sync)
    BY <1>1 DEF Sync
  <1>8. Steady({}, told, FoldLeft(WorkDropped, told, s.own[t]))
    BY <1>6, <1>7, DroppedSteady
  <1>9. QED BY <1>5, <1>6, <1>8, SteadyOn

\* BC_REQUEST_DEATH_NOTIFICATION, BC_CLEAR_DEATH_NOTIFICATION.
LEMMA ToWatcherSteady ==
  ASSUME NEW P, NEW s, NEW t, NEW work \in Sync
  PROVE  Steady(P, s, ToWatcher(s, t, work))
  BY QueueThreadSteady, NoteSteady DEF ToWatcher

\* A node's watchers change.
LEMMA WatchersSteady ==
  ASSUME NEW P, NEW s, NEW n \in Nodes, s.node[n].obj \in Objects, NEW W \in SUBSET Procs
  PROVE  Steady(P, s, [s EXCEPT !.node[n].watchers = W])
  <1> SUFFICES ASSUME BrokerOK(s) PROVE Steady(P, s, [s EXCEPT !.node[n].watchers = W])
    BY DEF Steady
  <1> DEFINE m == [s.node[n] EXCEPT !.watchers = W]
             u == [s EXCEPT !.node[n].watchers = W]
  <1>1. s.node[n] \in MadeNodes
    BY NodeTypes
  <1>2. m \in MadeNodes /\ m.obj = s.node[n].obj /\ m.has_async = s.node[n].has_async
        /\ m.async_todo = s.node[n].async_todo
    BY <1>1 DEF MadeNodes
  <1>3. \A i \in DOMAIN m.async_todo : m.async_todo[i].async = n
    BY <1>2 DEF BrokerOK, PlacesOK
  <1>4. n \in DOMAIN s.node /\ "node" \in DOMAIN s
    BY DEF BrokerOK, NodesOK, BrokerFields
  <1>5. u = [s EXCEPT !.node = [s.node EXCEPT ![n] = m]]
    BY <1>4
  <1> HIDE DEF m, u
  <1>6. Steady(P, s, u)
    BY <1>2, <1>3, <1>5, NodeSteady
  <1>7. QED BY <1>6 DEF u

\* Hands that hold the same of nodes' oneways.
Oneway(r) == InHands(r) /\ r.work.kind = "txn" /\ r.work.async # 0
HandLike(q, r) == (Oneway(q) <=> Oneway(r)) /\ (Oneway(q) => r.work = q.work)
Others(t, h, g) == \A u \in Threads \ {t} : HandLike(h[u], g[u])

\* Those that have a node's oneway in hand.
LEMMA InHandOf ==
  ASSUME NEW h, NEW n \in Nodes
  PROVE  InHand(h, n) = {t \in Threads : Oneway(h[t]) /\ h[t].work.async = n}
  <1>1. n # 0
    BY DEF Nodes
  <1>2. QED BY <1>1 DEF InHand, IsAsync, Oneway

\* As long as each thread has in hand what it had, the record stays good.
LEMMA HandsSame ==
  ASSUME NEW s, NEW h, NEW g, NEW due, Good(s, h, due), \A t \in Threads : HandLike(h[t], g[t])
  PROVE  Good(s, g, due)
  <1>1. \A n \in Nodes : InHand(g, n) = InHand(h, n)
    <2> TAKE n \in Nodes
    <2>1. \A t \in Threads : t \in InHand(g, n) <=> Oneway(g[t]) /\ g[t].work.async = n
      BY InHandOf
    <2>2. \A t \in Threads : t \in InHand(h, n) <=> Oneway(h[t]) /\ h[t].work.async = n
      BY InHandOf
    <2>3. \A t \in Threads : t \in InHand(g, n) <=> t \in InHand(h, n)
      BY <2>1, <2>2 DEF HandLike
    <2>4. QED BY <2>3 DEF InHand
  <1>2. HandsOK(s, g)
    BY DEF Good, HandsOK, HandLike, Oneway
  <1>3. \A n \in Nodes \ {due} : OneOut(s, g, n)
    BY <1>1 DEF Good, Outs, OneOut
  <1>4. due = 0 \/ DueNext(s, g, due)
    BY <1>1 DEF Good, Outs, DueNext
  <1>5. QED BY <1>2, <1>3, <1>4 DEF Good, Outs

\* Of one thing in one place, taken out of a hand, none is left.
LEMMA OutOfHand ==
  ASSUME NEW Q, NEW H, NEW B, NEW t \in H, AtMostOne(Q, H, B)
  PROVE  NoneOut(Q, H \ {t}, B)
  BY DEF AtMostOne, NoneOut

\* One lets go of what it holds: its node is due its next.
LEMMA HandOff ==
  ASSUME NEW s, NEW h, NEW g, Good(s, h, 0), NEW t \in Threads, InHands(h[t]), h[t].work.kind = "txn",
         h[t].work.async \in 0 .. MaxNode, ~InHands(g[t]), Others(t, h, g)
  PROVE  Good(s, g, h[t].work.async)
  <1> DEFINE n == h[t].work.async
  <1>0. BrokerOK(s) /\ HandsOK(s, h) /\ \A m \in Nodes : OneOut(s, h, m)
    BY DEF Good, Outs, Nodes
  <1>1. HandsOK(s, g)
    <2> SUFFICES ASSUME NEW u \in Threads, Oneway(g[u]) PROVE At(s, g[u].work.async, proc[u])
      BY DEF HandsOK, Oneway
    <2>1. u # t
      BY DEF Oneway
    <2>2. HandLike(h[u], g[u])
      BY <2>1 DEF Others
    <2>3. QED BY <1>0, <2>2 DEF HandsOK, HandLike, Oneway
  <1>2. \A m \in Nodes : InHand(g, m) = InHand(h, m) \ {t}
    <2> TAKE m \in Nodes
    <2>1. \A u \in Threads : u \in InHand(g, m) <=> Oneway(g[u]) /\ g[u].work.async = m
      BY InHandOf
    <2>2. \A u \in Threads : u \in InHand(h, m) <=> Oneway(h[u]) /\ h[u].work.async = m
      BY InHandOf
    <2>3. ~Oneway(g[t])
      BY DEF Oneway
    <2>4. \A u \in Threads \ {t} : u \in InHand(g, m) <=> u \in InHand(h, m)
      BY <2>1, <2>2 DEF Others, HandLike
    <2>5. QED BY <2>1, <2>3, <2>4 DEF InHand
  <1>3. ASSUME NEW m \in Nodes \ {n} PROVE OneOut(s, g, m)
    <2>1. t \notin InHand(h, m)
      BY DEF InHand, IsAsync
    <2>2. InHand(g, m) = InHand(h, m)
      BY <1>2, <2>1
    <2>3. OneOut(s, h, m)
      BY <1>0
    <2>4. QED BY <2>2, <2>3 DEF OneOut
  <1>4. ASSUME n # 0 PROVE DueNext(s, g, n)
    <2>1. At(s, n, proc[t])
      BY <1>0, <1>4 DEF HandsOK
    <2>2. n \in Nodes /\ s.node[n].obj \in Objects /\ OneOut(s, h, n)
      BY <1>0, <2>1 DEF At
    <2> DEFINE p == owner[s.node[n].obj]
    <2>3. t \in InHand(h, n)
      BY DEF InHand, IsAsync
    <2>4. ASSUME p \notin s.dead
          PROVE  s.node[n].has_async /\ NoneOut(InQueue(s, n, p), InHand(g, n), InBuffer(s, n))
      <3>1. AtMostOne(InQueue(s, n, p), InHand(h, n), InBuffer(s, n)) /\ s.node[n].has_async
        BY <2>2, <2>3, <2>4 DEF OneOut, NoneOut
      <3>2. QED BY <1>2, <2>2, <2>3, <3>1, OutOfHand
    <2>5. QED BY <2>2, <2>4 DEF DueNext
  <1>5. QED BY <1>0, <1>1, <1>3, <1>4 DEF Good, Outs

\* One is put in a buffer.
RecordOf(w, p, b) == [proc |-> p, at |-> b, async |-> w.async, pinned |-> w.pinned]

\* A oneway in hand goes into a buffer's record (deliver).
LEMMA RecordedGood ==
  ASSUME NEW s, NEW h, NEW g, Good(s, h, 0), NEW t \in Threads, InHands(h[t]), ~InHands(g[t]), Others(t, h, g),
         NEW b \in Buffers, h[t].work \in Txns,
         NEW u, u = [s EXCEPT !.buffers = @ \cup {RecordOf(h[t].work, proc[t], b)}]
  PROVE  /\ Good(u, g, 0) /\ u.buffers = s.buffers \cup {RecordOf(h[t].work, proc[t], b)}
         /\ u.spawn_requested = s.spawn_requested /\ u.dead = s.dead
  <1> DEFINE w == h[t].work
             r == RecordOf(w, proc[t], b)
             n == w.async
  <1>0. w.kind = "txn" /\ w.async \in 0 .. MaxNode /\ w.pinned \in Seq(Nodes)
    <2>1. w \in CallTxns => w.kind = "txn" /\ w.async \in 0 .. MaxNode /\ w.pinned \in Seq(Nodes)
      BY DEF CallTxns, Flying
    <2>2. w \in ReplyTxns => w.kind = "txn" /\ w.async = 0 /\ w.pinned \in Seq(Nodes)
      BY DEF ReplyTxns, Flying
    <2>3. 0 \in 0 .. MaxNode
      BY BrokerAssumption
    <2>4. QED BY <2>1, <2>2, <2>3 DEF Txns
  <1>1. Good(s, g, n)
    BY <1>0, HandOff
  <1>2. BrokerOK(s) /\ BrokerFields \subseteq DOMAIN s /\ HandsOK(s, g) /\ HandsOK(s, h)
    BY <1>1 DEF Good, BrokerOK
  <1>3. r \in Buffered /\ r.async = n /\ r.proc = proc[t]
    BY <1>0, BrokerAssumption DEF Buffered, RecordOf
  <1>4. n # 0 => At(s, n, proc[t])
    BY <1>0, <1>2 DEF HandsOK
  <1> HIDE DEF r, w
  <1>5. BrokerFields \subseteq DOMAIN u
        /\ u.node = s.node /\ u.next_node = s.next_node /\ u.local = s.local /\ u.refs = s.refs
        /\ u.last_handle = s.last_handle /\ u.todo = s.todo /\ u.own = s.own /\ u.serving = s.serving
        /\ u.spawn_requested = s.spawn_requested /\ u.dead = s.dead
    BY <1>2 DEF BrokerFields
  <1>6. u.buffers = s.buffers \cup {r}
    BY <1>2 DEF BrokerFields, r, w
  <1>7. \A m, p : At(u, m, p) <=> At(s, m, p)
    BY <1>5 DEF At
  <1>8. BrokerOK(u)
    <2>1. BuffersOK(u)
      BY <1>2, <1>3, <1>6, FS_AddElement DEF BrokerOK, BuffersOK
    <2>2. \A q \in u.buffers : q.async # 0 => At(u, q.async, q.proc)
      BY <1>2, <1>3, <1>4, <1>6, <1>7 DEF BrokerOK, PlacesOK
    <2>3. PlacesOK(u)
      <3>1. \A p \in Procs : \A i \in DOMAIN u.todo[p] :
              u.todo[p][i].kind = "txn" /\ u.todo[p][i].async # 0 => At(u, u.todo[p][i].async, p)
        BY <1>2, <1>5, <1>7 DEF BrokerOK, PlacesOK
      <3>2. \A m \in Nodes : \A i \in DOMAIN u.node[m].async_todo : u.node[m].async_todo[i].async = m
        BY <1>2, <1>5 DEF BrokerOK, PlacesOK
      <3>3. QED BY <2>2, <3>1, <3>2 DEF PlacesOK
    <2>4. QED BY <1>2, <1>5, <2>1, <2>3 DEF BrokerOK, NodesOK, RefsOK, QueuesOK, CountsOK
  <1>9. HandsOK(u, g)
    BY <1>2, <1>7 DEF HandsOK
  <1>10. \A m, p : InQueue(u, m, p) = InQueue(s, m, p)
    BY <1>5 DEF InQueue
  <1>11. ASSUME NEW m \in Nodes \ {n} PROVE OneOut(u, g, m)
    <2>1. InBuffer(u, m) = InBuffer(s, m)
      BY <1>3, <1>6 DEF InBuffer
    <2>2. OneOut(s, g, m) /\ u.node[m] = s.node[m] /\ \A q \in Procs : InQueue(u, m, q) = InQueue(s, m, q)
      BY <1>1, <1>5, <1>10 DEF Good, Outs
    <2>3. QED BY <1>5, <2>1, <2>2, OthersOut
  <1>12. ASSUME n \in Nodes PROVE OneOut(u, g, n)
    <2> DEFINE p == owner[s.node[n].obj]
    <2>1. DueNext(s, g, n)
      <3>1. n # 0
        BY <1>12 DEF Nodes
      <3>2. QED BY <1>1, <3>1 DEF Good, Outs
    <2>2. s.node[n].obj \in Objects
      BY <2>1 DEF DueNext
    <2>3. ASSUME p \notin s.dead
          PROVE  /\ AtMostOne(InQueue(u, n, p), InHand(g, n), InBuffer(u, n))
                 /\ ~NoneOut(InQueue(u, n, p), InHand(g, n), InBuffer(u, n)) /\ s.node[n].has_async
      <3>1. s.node[n].has_async /\ NoneOut(InQueue(s, n, p), InHand(g, n), InBuffer(s, n))
        BY <2>1, <2>3 DEF DueNext
      <3>2. InBuffer(u, n) = {r} /\ InQueue(u, n, p) = {} /\ InHand(g, n) = {}
        BY <1>3, <1>6, <1>10, <3>1 DEF InBuffer, NoneOut
      <3>3. QED BY <3>1, <3>2 DEF AtMostOne, NoneOut
    <2>4. u.node[n] = s.node[n] /\ u.dead = s.dead
      BY <1>5
    <2>5. QED BY <2>3, <2>4 DEF OneOut
  <1>13. Outs(u, g, 0)
    BY <1>11, <1>12 DEF Outs
  <1>14. QED BY <1>5, <1>6, <1>8, <1>9, <1>13 DEF Good, r, w

\* One is taken off its process's queue.
LEMMA TailQueue ==
  ASSUME NEW q \in Seq(Work), q # <<>>, NEW n
  PROVE  /\ \A i \in DOMAIN Tail(q) : i + 1 \in DOMAIN q /\ Tail(q)[i] = q[i + 1]
         /\ \A i \in DOMAIN q : i # 1 => i - 1 \in DOMAIN Tail(q)
         /\ 1 \in DOMAIN q /\ q[1] = Head(q) /\ Head(q) \in Work /\ Tail(q) \in Seq(Work)
         /\ DOMAIN q \subseteq Nat /\ DOMAIN Tail(q) \subseteq Nat
  <1>1. DOMAIN q = 1 .. Len(q) /\ Len(q) \in Nat /\ Len(q) >= 1
    OBVIOUS
  <1>2. DOMAIN Tail(q) = 1 .. Len(q) - 1 /\ \A i \in 1 .. Len(q) - 1 : Tail(q)[i] = q[i + 1]
    BY <1>1
  <1>3. Head(q) = q[1] /\ q[1] \in Work /\ Tail(q) \in Seq(Work)
    BY <1>1
  <1>4. QED BY <1>1, <1>2, <1>3

HasTaken(s, u, p) ==
  /\ BrokerFields \subseteq DOMAIN u
  /\ u.node = s.node /\ u.next_node = s.next_node /\ u.local = s.local /\ u.refs = s.refs
  /\ u.last_handle = s.last_handle /\ u.own = s.own /\ u.serving = s.serving
  /\ u.buffers = s.buffers /\ u.dead = s.dead /\ u.spawn_requested \in [Procs -> Nat]
  /\ u.todo = [s.todo EXCEPT ![p] = Tail(s.todo[p])]

\* The first of a queue taken off, the others one place further on.
LEMMA TakenQueue ==
  ASSUME NEW s, BrokerOK(s), NEW u, NEW p \in Procs, s.todo[p] # <<>>, HasTaken(s, u, p), NEW n
  PROVE  /\ \A q \in Procs \ {p} : InQueue(u, n, q) = InQueue(s, n, q)
         /\ \A i \in InQueue(u, n, p) : i \in Nat /\ i + 1 \in InQueue(s, n, p)
         /\ \A i \in InQueue(s, n, p) : i \in Nat /\ (i # 1 => i - 1 \in InQueue(u, n, p))
         /\ 1 \in InQueue(s, n, p) <=> IsAsync(Head(s.todo[p]), n)
  <1>1. s.todo \in [Procs -> Seq(Work)]
    BY DEF BrokerOK, QueuesOK
  <1> DEFINE q == s.todo[p]
  <1>2. q \in Seq(Work) /\ u.todo[p] = Tail(q) /\ \A r \in Procs \ {p} : u.todo[r] = s.todo[r]
    BY <1>1 DEF HasTaken
  <1>3. /\ \A i \in DOMAIN Tail(q) : i + 1 \in DOMAIN q /\ Tail(q)[i] = q[i + 1]
        /\ \A i \in DOMAIN q : i # 1 => i - 1 \in DOMAIN Tail(q)
        /\ 1 \in DOMAIN q /\ q[1] = Head(q)
        /\ DOMAIN q \subseteq Nat /\ DOMAIN Tail(q) \subseteq Nat
    BY <1>2, TailQueue
  <1>4. \A i \in InQueue(u, n, p) : i \in DOMAIN Tail(q) /\ IsAsync(Tail(q)[i], n)
    BY <1>2 DEF InQueue
  <1>5. \A i \in DOMAIN Tail(q) : IsAsync(Tail(q)[i], n) => i \in InQueue(u, n, p)
    BY <1>2 DEF InQueue
  <1>6. \A i : i \in InQueue(s, n, p) <=> i \in DOMAIN q /\ IsAsync(q[i], n)
    BY DEF InQueue
  <1>7. \A r \in Procs \ {p} : InQueue(u, n, r) = InQueue(s, n, r)
    BY <1>2 DEF InQueue
  <1> HIDE DEF q
  <1>8. \A i \in InQueue(u, n, p) : i \in Nat /\ i + 1 \in InQueue(s, n, p)
    BY <1>3, <1>4, <1>6
  <1>9. ASSUME NEW i \in InQueue(s, n, p), i # 1 PROVE i - 1 \in InQueue(u, n, p)
    <2>1. i \in DOMAIN q /\ IsAsync(q[i], n) /\ i \in Nat /\ i - 1 \in DOMAIN Tail(q)
      BY <1>3, <1>6, <1>9
    <2>2. Tail(q)[i - 1] = q[(i - 1) + 1] /\ (i - 1) + 1 = i
      BY <1>3, <2>1
    <2>3. QED BY <1>5, <2>1, <2>2
  <1>10. \A i \in InQueue(s, n, p) : i \in Nat
    BY <1>3, <1>6
  <1>11. 1 \in InQueue(s, n, p) <=> IsAsync(Head(q), n)
    BY <1>3, <1>6
  <1>12. QED BY <1>7, <1>8, <1>9, <1>10, <1>11 DEF q

\* A oneway read off its queue goes into a hand (read_waiting).
LEMMA TakenGood ==
  ASSUME NEW s, NEW h, NEW g, Good(s, h, 0), NEW t \in Threads, ~InHands(h[t]), Others(t, h, g),
         InHands(g[t]), s.todo[proc[t]] # <<>>, g[t].work = Head(s.todo[proc[t]]),
         NEW u, HasTaken(s, u, proc[t])
  PROVE  Good(u, g, 0)
  <1> DEFINE p == proc[t]
             w == g[t].work
  <1>0. BrokerOK(s) /\ HandsOK(s, h) /\ p \in Procs /\ \A n \in Nodes : OneOut(s, h, n)
    BY BrokerAssumption DEF Good, Outs, Nodes
  <1>1. s.todo \in [Procs -> Seq(Work)] /\ s.todo[p] \in Seq(Work)
    BY <1>0 DEF BrokerOK, QueuesOK
  <1>2. 1 \in DOMAIN s.todo[p] /\ s.todo[p][1] = w /\ w \in Work /\ Tail(s.todo[p]) \in Seq(Work)
        /\ \A i \in DOMAIN Tail(s.todo[p]) : i + 1 \in DOMAIN s.todo[p] /\ Tail(s.todo[p])[i] = s.todo[p][i + 1]
    BY <1>1, TailQueue
  <1>3. w.kind = "txn" /\ w.async # 0 => At(s, w.async, p)
    BY <1>0, <1>2 DEF BrokerOK, PlacesOK
  <1>4. \A n, q : At(u, n, q) <=> At(s, n, q)
    BY DEF HasTaken, At
  <1>5. BrokerOK(u)
    <2>1. u.todo \in [Procs -> Seq(Work)] /\ u.todo[p] = Tail(s.todo[p])
          /\ \A q \in Procs \ {p} : u.todo[q] = s.todo[q]
      BY <1>0, <1>1, <1>2 DEF HasTaken
    <2>2. ASSUME NEW q \in Procs, NEW i \in DOMAIN u.todo[q],
                 u.todo[q][i].kind = "txn", u.todo[q][i].async # 0
          PROVE  At(u, u.todo[q][i].async, q)
      <3>1. CASE q = p
        <4>1. i + 1 \in DOMAIN s.todo[q] /\ u.todo[q][i] = s.todo[q][i + 1]
          BY <1>2, <2>1, <3>1
        <4>2. QED BY <1>0, <1>4, <2>2, <4>1 DEF BrokerOK, PlacesOK
      <3>2. CASE q # p
        <4>1. u.todo[q] = s.todo[q]
          BY <2>1, <3>2
        <4>2. QED BY <1>0, <1>4, <2>2, <4>1 DEF BrokerOK, PlacesOK
      <3>3. QED BY <3>1, <3>2
    <2>3. \A n \in Nodes : \A i \in DOMAIN u.node[n].async_todo : u.node[n].async_todo[i].async = n
      BY <1>0 DEF BrokerOK, PlacesOK, HasTaken
    <2>4. \A b \in u.buffers : b.async # 0 => At(u, b.async, b.proc)
      BY <1>0, <1>4 DEF BrokerOK, PlacesOK, HasTaken
    <2>5. PlacesOK(u)
      BY <2>2, <2>3, <2>4 DEF PlacesOK
    <2>6. QED BY <1>0, <2>1, <2>5 DEF BrokerOK, NodesOK, RefsOK, QueuesOK, BuffersOK, CountsOK, HasTaken
  <1>6. HandsOK(u, g)
    <2> SUFFICES ASSUME NEW v \in Threads, Oneway(g[v]) PROVE At(u, g[v].work.async, proc[v])
      BY DEF HandsOK, Oneway
    <2>1. CASE v = t
      BY <1>3, <1>4, <2>1 DEF Oneway
    <2>2. CASE v # t
      BY <1>0, <1>4, <2>2 DEF Others, HandLike, Oneway, HandsOK
    <2>3. QED BY <2>1, <2>2
  <1>7. ASSUME NEW n \in Nodes
        PROVE  InHand(g, n) = InHand(h, n) \cup (IF IsAsync(w, n) THEN {t} ELSE {}) /\ t \notin InHand(h, n)
    <2>1. \A v \in Threads : v \in InHand(g, n) <=> Oneway(g[v]) /\ g[v].work.async = n
      BY InHandOf
    <2>2. \A v \in Threads : v \in InHand(h, n) <=> Oneway(h[v]) /\ h[v].work.async = n
      BY InHandOf
    <2>3. \A v \in Threads \ {t} : v \in InHand(g, n) <=> v \in InHand(h, n)
      BY <2>1, <2>2 DEF Others, HandLike
    <2>4. t \in InHand(g, n) <=> IsAsync(w, n)
      BY DEF InHand
    <2>5. t \notin InHand(h, n)
      BY DEF InHand
    <2>6. QED BY <2>3, <2>4, <2>5 DEF InHand
  <1>8. ASSUME NEW n \in Nodes PROVE OneOut(u, g, n)
    <2> DEFINE q == owner[s.node[n].obj]
    <2>1. /\ \A r \in Procs \ {p} : InQueue(u, n, r) = InQueue(s, n, r)
          /\ \A i \in InQueue(u, n, p) : i \in Nat /\ i + 1 \in InQueue(s, n, p)
          /\ \A i \in InQueue(s, n, p) : i \in Nat /\ (i # 1 => i - 1 \in InQueue(u, n, p))
          /\ 1 \in InQueue(s, n, p) <=> IsAsync(w, n)
      BY <1>0, TakenQueue
    <2>2. InBuffer(u, n) = InBuffer(s, n) /\ u.node[n] = s.node[n] /\ u.dead = s.dead
      BY DEF InBuffer, HasTaken
    <2>3. ASSUME s.node[n].obj \in Objects, q \notin s.dead
          PROVE  /\ AtMostOne(InQueue(u, n, q), InHand(g, n), InBuffer(u, n))
                 /\ NoneOut(InQueue(u, n, q), InHand(g, n), InBuffer(u, n))
                      <=> NoneOut(InQueue(s, n, q), InHand(h, n), InBuffer(s, n))
      <3>1. AtMostOne(InQueue(s, n, q), InHand(h, n), InBuffer(s, n))
        BY <1>0, <2>3 DEF OneOut
      <3>2. CASE IsAsync(w, n)
        <4>1. q = p
          <5>1. w.kind = "txn" /\ w.async = n /\ n # 0
            BY <3>2 DEF IsAsync, Nodes
          <5>2. QED BY <1>3, <5>1 DEF At
        <4>2. 1 \in InQueue(s, n, p)
          BY <2>1, <3>2
        <4>3. InHand(h, n) = {} /\ InBuffer(s, n) = {} /\ \A i \in InQueue(s, n, p) : i = 1
          BY <3>1, <4>1, <4>2 DEF AtMostOne
        <4>4. InQueue(u, n, p) = {}
          <5> SUFFICES ASSUME NEW i \in InQueue(u, n, p) PROVE FALSE
            OBVIOUS
          <5>1. i \in Nat /\ i + 1 \in InQueue(s, n, p)
            BY <2>1
          <5>2. i + 1 = 1
            BY <4>3, <5>1
          <5>3. 0 \in InQueue(u, n, p)
            BY <5>1, <5>2
          <5>4. u.todo[p] \in Seq(Work)
            BY <1>0, <1>5 DEF BrokerOK, QueuesOK
          <5>5. QED BY <5>3, <5>4 DEF InQueue
        <4>5. InHand(g, n) = {t}
          BY <1>7, <3>2, <4>3
        <4>6. QED BY <2>2, <4>1, <4>2, <4>3, <4>4, <4>5 DEF AtMostOne, NoneOut
      <3>3. CASE ~IsAsync(w, n)
        <4>1. InHand(g, n) = InHand(h, n) /\ 1 \notin InQueue(s, n, p)
          BY <1>7, <2>1, <3>3
        <4>2. \A i, j \in InQueue(u, n, q) : i = j
          <5>1. CASE q = p
            <6> TAKE i, j \in InQueue(u, n, q)
            <6>1. i + 1 = j + 1 /\ i \in Nat /\ j \in Nat
              BY <2>1, <3>1, <5>1 DEF AtMostOne
            <6>2. QED BY <6>1
          <5>2. CASE q # p
            <6>1. q \in Procs
              BY <2>3, BrokerAssumption
            <6>2. QED BY <2>1, <3>1, <5>2, <6>1 DEF AtMostOne
          <5>3. QED BY <5>1, <5>2
        <4>3. InQueue(u, n, q) = {} <=> InQueue(s, n, q) = {}
          <5>1. CASE q = p
            <6>1. \A i \in InQueue(u, n, p) : i + 1 \in InQueue(s, n, p)
              BY <2>1
            <6>2. \A i \in InQueue(s, n, p) : i - 1 \in InQueue(u, n, p)
              BY <2>1, <4>1
            <6>3. InQueue(u, n, p) = {} <=> InQueue(s, n, p) = {}
              BY <6>1, <6>2
            <6>4. QED BY <5>1, <6>3
          <5>2. CASE q # p
            <6>1. q \in Procs
              BY <2>3, BrokerAssumption
            <6>2. QED BY <2>1, <5>2, <6>1
          <5>3. QED BY <5>1, <5>2
        <4>4. QED BY <2>2, <3>1, <4>1, <4>2, <4>3 DEF AtMostOne, NoneOut
      <3>4. QED BY <3>2, <3>3
    <2>4. QED BY <1>0, <2>2, <2>3 DEF OneOut
  <1>9. QED BY <1>5, <1>6, <1>8 DEF Good, Outs
===============================================================================

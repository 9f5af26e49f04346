------------------------------- MODULE Broker -------------------------------
(***************************************************************************)
(* What binder's driver keeps across processes: objects and the handles    *)
(* other processes have on them, queues of work, and who is woken for it.  *)
(*                                                                         *)
(* All of it is one record, changed under one lock; an operator here takes *)
(* the record and gives what becomes of it.                                *)
(***************************************************************************)
EXTENDS Naturals, Sequences, SequencesExt, FiniteSets

CONSTANTS Procs, Threads, Objects,
          proc,          \* proc[t]: the process of a thread
          owner,         \* owner[o]: the process an object is of
          MaxNode,       \* a bound of the nodes made
          MaxHandle,     \* a bound of the handle numbers of a process
          NoThread, NoObject

ASSUME BrokerAssumption ==
  /\ proc \in [Threads -> Procs] /\ owner \in [Objects -> Procs]
  /\ IsFiniteSet(Procs) /\ IsFiniteSet(Threads)
  /\ MaxNode \in Nat /\ MaxHandle \in Nat
  /\ NoThread \notin Threads /\ NoObject \notin Objects

Nodes == 1 .. MaxNode
Handles == 1 .. MaxHandle

NoNode == [obj |-> NoObject, held |-> FALSE, acquiring |-> FALSE, deferred |-> FALSE, dead |-> FALSE,
           watchers |-> {}, has_async |-> FALSE, async_todo |-> <<>>]

\* Nothing is carried, or an object of the sender's, or one it has a handle on.
Nothing == [kind |-> "nothing"]
Binder(o) == [kind |-> "binder", obj |-> o]
Handle(h) == [kind |-> "handle", handle |-> h]

Plain(kind) == [kind |-> kind]
Of(kind, o) == [kind |-> kind, obj |-> o]

\* A transaction on its way: the thread that waits for its reply, the object called, what it
\* carries as its receiver has it, the node whose oneway it is, the nodes it holds in flight.
Txn(reply, oneway, from, to, code, carries, pinned) ==
  [kind |-> "txn", reply |-> reply, oneway |-> oneway, from |-> from, to |-> to, code |-> code,
   carries |-> carries, async |-> 0, pinned |-> pinned]

-----------------------------------------------------------------------------
(* Queues and who is woken.                                                *)

\* notify_key: the thread that watches its own key.
WakeThread(s, t) == [s EXCEPT !.woken = @ \cup ({t} \cap s.watching)]

\* notify_key_one: of those that watch the process's key, the newest not yet woken.
WakeOne(s, p) ==
  LET asleep == SelectSeq(s.waiting[p], LAMBDA t : t \notin s.woken) IN
  IF asleep = <<>> THEN s ELSE [s EXCEPT !.woken = @ \cup {Last(asleep)}]

QueueThread(s, t, work) == WakeThread([s EXCEPT !.own[t] = Append(@, work)], t)
QueueProc(s, p, work) == WakeOne([s EXCEPT !.todo[p] = Append(@, work)], p)

\* For the object's owner: its sending thread when it is the sender, else its process.
QueueOwner(s, sender, work) ==
  IF sender # NoThread /\ proc[sender] = owner[work.obj]
  THEN QueueThread(s, sender, work) ELSE QueueProc(s, owner[work.obj], work)

-----------------------------------------------------------------------------
(* Handles, and the nodes in flight.                                       *)

Live(s) == Procs \ s.dead
HandlesOn(s, p, n) == {h \in Handles : s.refs[p][h] = n}

\* p's handle for a node, made if it has none; the node's owner is then asked to hold it.
HandleMade(s, p, n, sender) ==
  LET h == s.last_handle[p] + 1
      made == [s EXCEPT !.refs[p][h] = n, !.last_handle[p] = h] IN
  IF HandlesOn(s, p, n) # {} THEN s
  ELSE IF s.node[n].held THEN made
  ELSE QueueOwner([made EXCEPT !.node[n].held = TRUE, !.node[n].acquiring = TRUE],
                  sender, Of("acquire", s.node[n].obj))

Pin(s, n) == [s EXCEPT !.pins[n] = @ + 1]

\* The node of an object of the sender's, made if it has none.
LocalMade(s, o) ==
  IF s.local[o] # 0 THEN s
  ELSE [s EXCEPT !.next_node = @ + 1, !.local[o] = s.next_node,
                 !.node[s.next_node] = [NoNode EXCEPT !.obj = o]]

\* A thread carries only a handle it has; and there is room for the node and the handle made.
CanCarry(s, t, c) ==
  /\ c.kind = "handle" => s.refs[proc[t]][c.handle] # 0
  /\ c.kind = "binder" => s.local[c.obj] # 0 \/ s.next_node \in Nodes
  /\ \A p \in Procs : s.last_handle[p] + 1 \in Handles

\* What a transaction from t carries to p: the state after it, as it arrives, the nodes held.
Translated(s, t, p, c) ==
  IF c.kind = "nothing" THEN [st |-> s, carries |-> c, pinned |-> <<>>]
  ELSE LET made == IF c.kind = "binder" THEN LocalMade(s, c.obj) ELSE s
           n == IF c.kind = "binder" THEN made.local[c.obj] ELSE s.refs[proc[t]][c.handle]
           o == made.node[n].obj
           reached == Pin(made, n) IN
       IF owner[o] = p THEN [st |-> reached, carries |-> Binder(o), pinned |-> <<n>>]
       ELSE LET after == HandleMade(reached, p, n, t) IN
            [st |-> after, pinned |-> <<n>>,
             carries |-> Handle(CHOOSE h \in Handles : after.refs[p][h] = n)]

\* LetGo, not put off until the owner has said it holds it.
LetGoAtOnce(s, n) ==
  LET o == s.node[n].obj IN
  IF \/ s.pins[n] # 0 \/ ~s.node[n].held \/ s.node[n].dead
     \/ \E p \in Live(s) : HandlesOn(s, p, n) # {}
  THEN s
  ELSE QueueProc([s EXCEPT !.node[n].held = FALSE, !.local[o] = IF @ = n THEN 0 ELSE @],
                 owner[o], Of("release", o))

\* A node nothing refers to any more is let go by its owner, or once it has said it holds it.
LetGo(s, n) ==
  LET o == s.node[n].obj
      gone == [s EXCEPT !.node[n].held = FALSE, !.node[n].deferred = s.node[n].acquiring,
                        !.local[o] = IF @ = n THEN 0 ELSE @] IN
  IF \/ s.pins[n] # 0 \/ ~s.node[n].held \/ s.node[n].dead
     \/ \E p \in Live(s) : HandlesOn(s, p, n) # {}
  THEN s
  ELSE IF s.node[n].acquiring THEN gone ELSE QueueProc(gone, owner[o], Of("release", o))

\* The handles on n that nothing holds are deleted.
UnheldDropped(s, n) ==
  LetGo([s EXCEPT !.refs = [p \in Procs |-> [h \in Handles |->
           IF @[p][h] = n /\ p \notin s.dead /\ s.counts[p][h] = 0 THEN 0 ELSE @[p][h]]]], n)

UnpinOne(s, n) ==
  LET less == [s EXCEPT !.pins[n] = @ - 1] IN
  IF less.pins[n] = 0 THEN UnheldDropped(less, n) ELSE less

Unpinned(s, nodes) == FoldLeft(UnpinOne, s, nodes)

\* BC_ACQUIRE and BC_INCREFS, BC_RELEASE and BC_DECREFS.
HandleTaken(s, p, h) == IF s.refs[p][h] = 0 THEN s ELSE [s EXCEPT !.counts[p][h] = @ + 1]
HandleLeft(s, p, h) ==
  LET n == s.refs[p][h]
      less == [s EXCEPT !.counts[p][h] = IF @ = 0 THEN 0 ELSE @ - 1] IN
  IF n = 0 THEN s
  ELSE IF less.counts[p][h] # 0 \/ s.pins[n] # 0 \/ p \in s.dead THEN less
  ELSE LetGo([less EXCEPT !.refs[p][h] = 0], n)

\* BC_ACQUIRE_DONE: a release that waited for it goes now.
AcquireDone(s, o) ==
  LET mine == {n \in Nodes : s.node[n].obj = o /\ s.node[n].acquiring} IN
  IF mine = {} THEN {s}
  ELSE {LET done == [s EXCEPT !.node[n].acquiring = FALSE, !.node[n].deferred = FALSE] IN
        IF s.node[n].deferred THEN QueueProc(done, owner[o], Of("release", o)) ELSE done : n \in mine}

-----------------------------------------------------------------------------
(* Oneway calls, one at a time for each node, and work that nobody reads.  *)

OnewayQueued(s, n, txn) ==
  LET work == [txn EXCEPT !.async = n] IN
  IF s.node[n].has_async THEN [s EXCEPT !.node[n].async_todo = Append(@, work)]
  ELSE QueueProc([s EXCEPT !.node[n].has_async = TRUE], owner[s.node[n].obj], work)

AsyncDone(s, n) ==
  IF n = 0 THEN s
  ELSE IF s.node[n].async_todo = <<>> THEN [s EXCEPT !.node[n].has_async = FALSE]
  ELSE QueueProc([s EXCEPT !.node[n].async_todo = Tail(@)],
                 owner[s.node[n].obj], Head(s.node[n].async_todo))

WorkDropped(s, work) ==
  IF work.kind # "txn" THEN s
  ELSE LET told == IF work.reply \/ work.oneway THEN s
                   ELSE QueueThread(s, work.from, Plain("dead_reply")) IN
       Unpinned(AsyncDone(told, work.async), work.pinned)

-----------------------------------------------------------------------------
(* The end of a process, its driver closed.                                *)

\* A process's threads, in some order; its buffers; what is queued for it.
InOrder(S) == SetToSeq(S)
ThreadsOf(p) == {t \in Threads : proc[t] = p}
BuffersOf(s, p) == {b \in s.buffers : b.proc = p}

\* Its nodes die and their watchers hear so.
NodeDied(s, n) ==
  LET died == [s EXCEPT !.node[n].dead = TRUE, !.node[n].has_async = FALSE,
                        !.node[n].async_todo = <<>>, !.node[n].watchers = {}] IN
  FoldLeft(LAMBDA a, p : QueueProc(a, p, Of("dead", s.node[n].obj)), died,
           InOrder(s.node[n].watchers))

Released(s, p) ==
  LET nodes == InOrder({n \in Nodes : s.node[n].obj # NoObject /\ owner[s.node[n].obj] = p})
      threads == InOrder(ThreadsOf(p))
      unread == FoldLeft(LAMBDA a, n : a \o s.node[n].async_todo, <<>>, nodes)
                \o s.todo[p] \o FoldLeft(LAMBDA a, t : a \o s.own[t], <<>>, threads)
      waiting == FoldLeft(LAMBDA a, t : a \o s.serving[t], <<>>, threads)
      held == InOrder({n \in Nodes : HandlesOn(s, p, n) # {}})
      buffers == InOrder(BuffersOf(s, p))
      died == FoldLeft(NodeDied, s, nodes)
      empty == [died EXCEPT !.dead = @ \cup {p}, !.todo[p] = <<>>,
                            !.own = [t \in Threads |-> IF proc[t] = p THEN <<>> ELSE @[t]],
                            !.serving = [t \in Threads |-> IF proc[t] = p THEN <<>> ELSE @[t]],
                            !.awaiting = [t \in Threads |-> IF proc[t] = p THEN 0 ELSE @[t]],
                            !.looper = @ \ ThreadsOf(p), !.idle = @ \ ThreadsOf(p),
                            !.refs[p] = [h \in Handles |-> 0], !.buffers = @ \ BuffersOf(s, p)]
      told == FoldLeft(LAMBDA a, t : IF t = NoThread THEN a ELSE QueueThread(a, t, Plain("dead_reply")),
                       empty, waiting)
      dropped == FoldLeft(WorkDropped, told, unread)
      freed == FoldLeft(LAMBDA a, b : Unpinned(a, b.pinned), dropped, buffers) IN
  [FoldLeft(LetGo, freed, held) EXCEPT !.woken = @ \cup s.watching]
=============================================================================

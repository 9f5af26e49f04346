--------------------------- MODULE BinderProperties ---------------------------
(***************************************************************************)
(* What processes may rely on.                                             *)
(***************************************************************************)
EXTENDS Binder

LiveThreads == {t \in Threads : proc[t] \in Live(st) \ exiting}

\* Where a sequence has what, and how often.
In(seq, Test(_)) == {i \in DOMAIN seq : Test(seq[i])}
CountIn(seq, Test(_)) == Cardinality(In(seq, Test))

\* Work off its queue and not yet handed to where it belongs.
Taking(t) == IF th[t].at \in {"deliver", "placed"} THEN <<th[t].work>> ELSE <<>>

\* How much work there is, queued for a process or a thread, or being delivered.
Works(Test(_)) ==
  Cardinality(UNION {{p} \X In(st.todo[p], Test) : p \in Procs})
  + Cardinality(UNION {{t} \X In(st.own[t] \o Taking(t), Test) : t \in Threads})

-----------------------------------------------------------------------------

Answers(t) ==
  Works(LAMBDA w : w.kind = "txn" /\ ~w.reply /\ w.from = t)
  + Cardinality(UNION {{u} \X In(st.serving[u], LAMBDA v : v = t) : u \in Threads})
  + Cardinality({u \in Threads : th[u].at = "reply" /\ th[u].caller = t})
  + CountIn(st.own[t] \o Taking(t), LAMBDA w : (w.kind = "txn" /\ w.reply)
                                         \/ w.kind \in {"dead_reply", "failed_reply"})

\* Each wait has an answer on its way: its call yet to be served, being served, or answered by
\* a reply or a failure; and no wait has two, unless a process of another host process ended
\* (transaction, deliver, undeliver, release, BINDER_THREAD_EXIT).
Answerable ==
  \A t \in LiveThreads :
    /\ st.awaiting[t] <= Answers(t)
    /\ st.remote \cap exiting = {} => Answers(t) <= st.awaiting[t]

\* Of a node's oneway calls one is out while any is: on its way, or in a buffer not yet
\* freed (queue_oneway, async_done, BC_FREE_BUFFER).
OneWayOut ==
  \A n \in Nodes :
    st.node[n].obj # NoObject /\ owner[st.node[n].obj] \notin st.dead =>
      LET out == Works(LAMBDA w : w.kind = "txn" /\ w.async = n)
                 + Cardinality({b \in st.buffers : b.async = n}) IN
      /\ out = IF st.node[n].has_async THEN 1 ELSE 0
      /\ st.node[n].async_todo # <<>> => st.node[n].has_async

\* An owner is never told to let go what it was not told to hold, and while a live process
\* has a handle on its object, it holds it or is told to (handle_for, release_if_unreferenced,
\* acquire_done).
Handed(kind, o) ==
  Works(LAMBDA w : w.kind = kind /\ w.obj = o)
  + Cardinality({t \in Threads : th[t].at \in {"hand", "read_ends", "execute"} /\ th[t].got = Of(kind, o)})

ObjectsHeld ==
  \A o \in Objects : owner[o] \in Live(st) \ exiting =>
    /\ strong[o] >= 0
    /\ (\E p \in Live(st), n \in Nodes : st.node[n].obj = o /\ HandlesOn(st, p, n) # {}) =>
         strong[o] + Handed("acquire", o) - Handed("release", o) >= 1

\* A looper asked for is one that will register (decide, read).
SpawnCounted ==
  \A p \in Live(st) \ exiting :
    st.spawn_requested[p] =
      Cardinality({t \in ThreadsOf(p) : th[t].asked \/ th[t].spawn})
      + Cardinality({t \in ThreadsOf(p) \cap started :
                       \/ program[t] # <<>> /\ Head(program[t]).c = "register"
                       \/ \E i \in DOMAIN th[t].cmds : th[t].cmds[i].c = "register"})

-----------------------------------------------------------------------------

Ended(t) == proc[t] \in exiting \/ (th[t].frames = <<>> /\ (program[t] = <<>> \/ th[t].pool))

\* Every call returns and every program ends: "every sync transaction waiting on it fails"
\* when a process is gone (release); and what is queued for a process with a looper is taken,
\* without a wait for a slice's end (queue, notify_key_one, read).
CallsReturn ==
  /\ \A t \in Threads : []<>(t \notin started \/ Ended(t))
  /\ \A p \in Procs : []<>(p \in exiting \/ st.looper \cap ThreadsOf(p) = {} \/ st.todo[p] = <<>>)
=============================================================================

----------------------------- MODULE BinderDriver -----------------------------
(***************************************************************************)
(* The system calls of binder: the commands a thread writes, one at a      *)
(* time, and then its read, which waits for work and has it delivered.     *)
(* One step is one critical section: of the broker's lock, of a receive    *)
(* area's, or of the queues of those that watch.                           *)
(***************************************************************************)
EXTENDS Broker

CONSTANTS Buffers   \* the places of a receive area

ASSUME BuffersAssumption == Buffers \subseteq Nat \ {0}

VARIABLES st,       \* the broker
          area,     \* area[p]: the places of p's receive area in use
          th,       \* th[t]: where a thread is, and what its call holds
          exiting   \* the processes that are ending: of a remote one, its memory is gone

driver == <<st, area>>

\* The fields of th[t] that are the driver's: `at`; `cmds`, yet to be written; `reads`,
\* whether a read follows; `caller`, whom a reply goes to; `work`, taken off a queue; `buf`,
\* where a transaction was placed; `got`, what the read hands out; `asked`, whether a looper
\* was asked for; `registered`, a watch made, and `takes`, by the last look.
Go(t, at) == th' = [th EXCEPT ![t].at = at]
Writes(r, cmds) == [r EXCEPT !.cmds = cmds, !.at = IF cmds # <<>> THEN "write"
                                              ELSE IF r.reads THEN "look" ELSE "guest"]
Wrote(t) == th' = [th EXCEPT ![t] = Writes(@, Tail(@.cmds))]

Command(t, name) == th[t].at = "write" /\ th[t].cmds # <<>> /\ Head(th[t].cmds).c = name
Arg(t) == Head(th[t].cmds)

\* st.remote are the processes of another host process, their memory gone with it.
Gone(p) == p \in st.remote /\ p \in exiting

-----------------------------------------------------------------------------
(* Transactions and replies.                                               *)

Error(t, kind) == st' = QueueThread(st, t, Plain(kind))

\* A thread that serves a call from the process called has the nested one go to the
\* thread that waits for it.
Nested(t, p) ==
  LET from == SelectSeq(st.serving[t], LAMBDA u : u # NoThread /\ proc[u] = p) IN
  IF from = <<>> THEN NoThread ELSE Last(from)

\* What t calls goes to the object's process, or waits for the node's oneway that is out;
\* t hears that it went.
Sent(s, t, n, call) ==
  LET o == s.node[n].obj
      c == Translated(s, t, owner[o], call.carries)
      txn == Txn(FALSE, call.oneway, IF call.oneway THEN NoThread ELSE t, o, call.code, c.carries,
                 Append(c.pinned, n))
      pinned == Pin(c.st, n)
      nested == IF call.oneway THEN NoThread ELSE Nested(t, owner[o])
      queued ==
        IF call.oneway THEN OnewayQueued(pinned, n, txn)
        ELSE LET waits == [pinned EXCEPT !.awaiting[t] = @ + 1] IN
             IF nested # NoThread THEN QueueThread(waits, nested, txn)
             ELSE QueueProc(waits, owner[o], txn) IN
  QueueThread(queued, t, Plain("complete"))

\* BC_TRANSACTION.
Transaction(t) ==
  /\ Command(t, "transaction")
  /\ LET n == st.refs[proc[t]][Arg(t).handle] IN
     \/ Gone(proc[t]) /\ Error(t, "return_error")
     \/ ~Gone(proc[t]) /\ n = 0 /\ Error(t, "return_error")
     \/ /\ ~Gone(proc[t]) /\ n # 0
        /\ st.node[n].dead \/ owner[st.node[n].obj] \in st.dead
        /\ Error(t, "return_error")
     \/ /\ ~Gone(proc[t]) /\ n # 0
        /\ ~st.node[n].dead /\ owner[st.node[n].obj] \notin st.dead
        /\ CanCarry(st, t, Arg(t).carries)
        /\ st' = Sent(st, t, n, Arg(t))
  /\ Wrote(t)
  /\ UNCHANGED <<area, exiting>>

\* BC_REPLY: first the call it answers is off the thread, whatever becomes of it.
ReplyBegin(t) ==
  /\ Command(t, "reply")
  /\ st' = [st EXCEPT !.serving[t] = IF @ = <<>> THEN @ ELSE Front(@)]
  /\ th' = [th EXCEPT ![t].at = "reply",
                      ![t].caller = IF st.serving[t] = <<>> THEN NoThread ELSE Last(st.serving[t])]
  /\ UNCHANGED <<area, exiting>>

Answered(s, t, u, carries) ==
  LET c == Translated(s, t, proc[u], carries)
      txn == Txn(TRUE, FALSE, NoThread, NoObject, "reply", c.carries, c.pinned) IN
  QueueThread(QueueThread(c.st, u, txn), t, Plain("complete"))

Reply(t) ==
  /\ th[t].at = "reply"
  /\ LET u == th[t].caller IN
     \/ u = NoThread /\ Error(t, "complete")
     \/ u # NoThread /\ ~Gone(proc[t]) /\ proc[u] \in st.dead /\ Error(t, "complete")
     \/ /\ u # NoThread /\ ~Gone(proc[t]) /\ proc[u] \notin st.dead
        /\ CanCarry(st, t, Arg(t).carries)
        /\ st' = Answered(st, t, u, Arg(t).carries)
     \/ u # NoThread /\ Gone(proc[t])
        /\ st' = QueueThread(QueueThread(st, t, Plain("complete")), u, Plain("failed_reply"))
  /\ Wrote(t)
  /\ UNCHANGED <<area, exiting>>

-----------------------------------------------------------------------------
(* The other commands.                                                     *)

Record(p, b) == {r \in st.buffers : r.proc = p /\ r.at = b}

\* A buffer's record taken out: its node's next oneway goes out, what it held is let go.
Freed(s, records) ==
  FoldLeft(LAMBDA a, r : Unpinned(AsyncDone(a, r.async), r.pinned),
           [s EXCEPT !.buffers = @ \ records], InOrder(records))

\* FreeBuffer, the memory freed a step before the record.
FreeBufferMemoryFirst(t) ==
  /\ \/ /\ Command(t, "free")
        /\ area' = [area EXCEPT ![proc[t]] = @ \ {Arg(t).buf}]
        /\ th' = [th EXCEPT ![t].cmds[1].c = "freed"]
        /\ UNCHANGED st
     \/ /\ Command(t, "freed")
        /\ st' = Freed(st, Record(proc[t], Arg(t).buf))
        /\ Wrote(t)
        /\ UNCHANGED area
  /\ UNCHANGED exiting

\* BC_FREE_BUFFER: the record, and the memory, under one lock.
FreeBuffer(t) ==
  /\ Command(t, "free")
  /\ st' = Freed(st, Record(proc[t], Arg(t).buf))
  /\ area' = [area EXCEPT ![proc[t]] = @ \ {Arg(t).buf}]
  /\ Wrote(t)
  /\ UNCHANGED exiting

\* BC_ACQUIRE and BC_RELEASE, their weak ones with them.
CountHandle(t) ==
  /\ \/ Command(t, "acquire") /\ st' = HandleTaken(st, proc[t], Arg(t).handle)
     \/ Command(t, "release") /\ st' = HandleLeft(st, proc[t], Arg(t).handle)
  /\ Wrote(t)
  /\ UNCHANGED <<area, exiting>>

Acquired(t) ==
  /\ Command(t, "acquire_done")
  /\ st' \in AcquireDone(st, Arg(t).obj)
  /\ Wrote(t)
  /\ UNCHANGED <<area, exiting>>

\* BC_ENTER_LOOPER, and BC_REGISTER_LOOPER of a thread that was asked for.
EnterLooper(t) ==
  /\ \/ Command(t, "enter") /\ st' = [st EXCEPT !.looper = @ \cup {t}]
     \/ Command(t, "register")
        /\ st' = [st EXCEPT !.looper = @ \cup {t},
                            !.spawn_requested[proc[t]] = IF @ = 0 THEN 0 ELSE @ - 1]
  /\ Wrote(t)
  /\ UNCHANGED <<area, exiting>>

\* BC_REQUEST_DEATH_NOTIFICATION, BC_CLEAR_DEATH_NOTIFICATION: the answer is a looper's
\* own, or else the process's.
ToWatcher(s, t, work) ==
  IF t \in s.looper THEN QueueThread(s, t, work) ELSE QueueProc(s, proc[t], work)

WatchDeath(t) ==
  /\ Command(t, "watch")
  /\ LET n == st.refs[proc[t]][Arg(t).handle] IN
     st' = IF n = 0 THEN st
           ELSE IF st.node[n].dead THEN ToWatcher(st, t, Of("dead", st.node[n].obj))
           ELSE [st EXCEPT !.node[n].watchers = @ \cup {proc[t]}]
  /\ Wrote(t)
  /\ UNCHANGED <<area, exiting>>

ClearDeath(t) ==
  /\ Command(t, "clear")
  /\ LET n == st.refs[proc[t]][Arg(t).handle] IN
     st' = IF n = 0 THEN st
           ELSE ToWatcher([st EXCEPT !.node[n].watchers = @ \ {proc[t]}], t,
                          Of("cleared", st.node[n].obj))
  /\ Wrote(t)
  /\ UNCHANGED <<area, exiting>>

Write(t) ==
  \/ Transaction(t) \/ ReplyBegin(t) \/ Reply(t) \/ FreeBuffer(t) \/ CountHandle(t) \/ Acquired(t)
  \/ EnterLooper(t) \/ WatchDeath(t) \/ ClearDeath(t)

-----------------------------------------------------------------------------
(* The read.                                                               *)

\* A looper with no transaction on its stack takes the process's work.
TakesProc(t) == t \in st.looper /\ st.awaiting[t] = 0 /\ st.serving[t] = <<>>

\* Another looper is asked for when this one takes the process's work and no other is idle.
Wanted(t) ==
  LET p == proc[t]
      loopers == st.looper \cap ThreadsOf(p) IN
  /\ st.spawn_requested[p] = 0 /\ loopers \cap st.idle \subseteq {t}
  /\ Cardinality(loopers) < st.max_threads[p] + 1

\* Work off the thread's own queue, or else off the process's.
TakeOwn(t) ==
  /\ th[t].at = "look" /\ st.own[t] # <<>>
  /\ st' = [st EXCEPT !.own[t] = Tail(@), !.idle = @ \ {t}]
  /\ th' = [th EXCEPT ![t].at = "deliver", ![t].work = Head(st.own[t])]
  /\ UNCHANGED <<area, exiting>>

TakeProc(t) ==
  /\ th[t].at = "look" /\ st.own[t] = <<>> /\ TakesProc(t) /\ st.todo[proc[t]] # <<>>
  /\ st' = [st EXCEPT !.todo[proc[t]] = Tail(@), !.idle = @ \ {t},
                      !.spawn_requested[proc[t]] = IF Wanted(t) THEN @ + 1 ELSE @]
  /\ th' = [th EXCEPT ![t].at = "deliver", ![t].work = Head(st.todo[proc[t]]),
                      ![t].asked = @ \/ Wanted(t)]
  /\ UNCHANGED <<area, exiting>>

\* A look that finds nothing: the read ends, with the driver or with nothing as a descriptor
\* on it is closed; it makes its watch and looks again; or it sleeps.
NoWork(t) == th[t].at = "look" /\ st.own[t] = <<>> /\ (TakesProc(t) => st.todo[proc[t]] = <<>>)

Idle(t) == IF TakesProc(t) THEN st.idle \cup {t} ELSE st.idle \ {t}

ReadEnds(t) ==
  /\ NoWork(t) /\ (proc[t] \in exiting \ st.remote \/ proc[t] \in st.dead)
  /\ st' = [st EXCEPT !.idle = Idle(t)]
  /\ th' = [th EXCEPT ![t].at = IF proc[t] \in st.dead THEN "read_fails" ELSE "read_ends",
                      ![t].got = Plain("none")]
  /\ UNCHANGED <<area, exiting>>

Look(t) ==
  /\ NoWork(t) /\ proc[t] \notin exiting \ st.remote /\ proc[t] \notin st.dead
  /\ st' = [st EXCEPT !.idle = Idle(t)]
  /\ th' = [th EXCEPT ![t].at = IF th[t].registered THEN "asleep" ELSE "watch",
                      ![t].takes = TakesProc(t)]
  /\ UNCHANGED <<area, exiting>>

Watch(t) ==
  /\ th[t].at = "watch"
  /\ st' = [st EXCEPT !.watching = @ \cup {t}, !.woken = @ \ {t},
                      !.waiting[proc[t]] = IF th[t].takes THEN Append(@, t) ELSE @]
  /\ th' = [th EXCEPT ![t].at = "look", ![t].registered = TRUE]
  /\ UNCHANGED <<area, exiting>>

\* The watch dropped.
Unwatched(s, t) ==
  [s EXCEPT !.watching = @ \ {t}, !.waiting[proc[t]] = SelectSeq(@, LAMBDA u : u # t)]

Wakes(t) ==
  /\ th[t].at = "asleep"
  /\ st' = Unwatched(st, t)
  /\ th' = [th EXCEPT ![t].at = "look", ![t].registered = FALSE]
  /\ UNCHANGED <<area, exiting>>

Woken(t) == t \in st.woken /\ Wakes(t)

\* A slice's end, a second later.
Slice(t) == t \notin st.woken /\ Wakes(t)

\* A signal, before it sleeps or as it does: EINTR.
Interrupted(t) ==
  /\ th[t].signal /\ (th[t].at = "asleep" \/ (NoWork(t) /\ th[t].registered))
  /\ st' = [Unwatched(st, t) EXCEPT !.idle = IF th[t].at = "asleep" THEN @ ELSE Idle(t)]
  /\ th' = [th EXCEPT ![t].at = "read_fails", ![t].registered = FALSE, ![t].signal = FALSE]
  /\ UNCHANGED <<area, exiting>>

-----------------------------------------------------------------------------
(* Delivery.                                                               *)

Waited(s, t) == [s EXCEPT !.awaiting[t] = IF @ = 0 THEN 0 ELSE @ - 1]

\* What is written to the read's buffer: of a process here that cannot fail.
Hands(t, got) ==
  th' = [th EXCEPT ![t].at = IF proc[t] \in st.remote THEN "hand" ELSE "read_ends", ![t].got = got]

\* What is no transaction is handed out as it is; a failed call's wait is over.
Deliver(t) ==
  /\ th[t].at = "deliver" /\ th[t].work.kind # "txn"
  /\ st' = IF th[t].work.kind \in {"dead_reply", "failed_reply"} THEN Waited(st, t) ELSE st
  /\ Hands(t, th[t].work)
  /\ UNCHANGED <<area, exiting>>

\* A transaction is copied to the first free place of the receive area.
Free(p) == {b \in Buffers : b \notin area[p]}
First(S) == CHOOSE b \in S : \A c \in S : b <= c

Place(t) ==
  /\ th[t].at = "deliver" /\ th[t].work.kind = "txn" /\ ~Gone(proc[t]) /\ Free(proc[t]) # {}
  /\ LET b == First(Free(proc[t])) IN
     /\ area' = [area EXCEPT ![proc[t]] = @ \cup {b}]
     /\ th' = [th EXCEPT ![t].at = "placed", ![t].buf = b]
  /\ UNCHANGED <<st, exiting>>

\* Undelivered, a sync transaction's sender not told.
UndeliveredSilent(t) ==
  /\ th[t].at = "deliver" /\ th[t].work.kind = "txn" /\ (Gone(proc[t]) \/ Free(proc[t]) = {})
  /\ LET txn == th[t].work
         unpinned == Unpinned(st, txn.pinned) IN
     IF txn.reply
     THEN /\ st' = Waited(unpinned, t)
          /\ Hands(t, Plain("failed_reply"))
     ELSE st' = AsyncDone(unpinned, txn.async) /\ Go(t, "look")
  /\ UNCHANGED <<area, exiting>>

\* It cannot be: it fails towards its sender, a reply towards the one that waits for it here.
Undelivered(t) ==
  /\ th[t].at = "deliver" /\ th[t].work.kind = "txn" /\ (Gone(proc[t]) \/ Free(proc[t]) = {})
  /\ LET txn == th[t].work
         unpinned == Unpinned(st, txn.pinned)
         next == AsyncDone(unpinned, txn.async) IN
     IF txn.reply
     THEN /\ st' = Waited(unpinned, t)
          /\ Hands(t, Plain("failed_reply"))
     ELSE /\ st' = IF txn.oneway THEN next ELSE QueueThread(next, txn.from, Plain("failed_reply"))
          /\ Go(t, "look")
  /\ UNCHANGED <<area, exiting>>

\* Placed: its buffer recorded, and the thread's stack follows.
RecordBuffer(t) ==
  /\ th[t].at = "placed"
  /\ LET txn == th[t].work
         p == proc[t]
         recorded == [st EXCEPT !.buffers = IF txn.pinned = <<>> THEN @ ELSE (@ \ Record(p, th[t].buf)) \cup
                        {[proc |-> p, at |-> th[t].buf, async |-> txn.async, pinned |-> txn.pinned]}] IN
     st' = IF txn.reply THEN Waited(recorded, t)
           ELSE IF txn.oneway THEN recorded
           ELSE [recorded EXCEPT !.serving[t] = Append(@, txn.from)]
  /\ Hands(t, th[t].work)
  /\ UNCHANGED <<area, exiting>>

\* To a process that is gone it cannot be written, and the transaction is taken back.
Hand(t) ==
  /\ th[t].at = "hand" /\ ~Gone(proc[t])
  /\ Go(t, "read_ends")
  /\ UNCHANGED <<driver, exiting>>

TakeBack(t) ==
  /\ th[t].at = "hand" /\ Gone(proc[t])
  /\ LET txn == th[t].got
         freed == Freed(st, Record(proc[t], th[t].buf))
         popped == IF freed.serving[t] # <<>> /\ Last(freed.serving[t]) = txn.from
                   THEN [freed EXCEPT !.serving[t] = Front(@)] ELSE freed IN
     IF txn.kind # "txn" THEN UNCHANGED driver
     ELSE /\ area' = [area EXCEPT ![proc[t]] = @ \ {th[t].buf}]
          /\ st' = IF txn.reply \/ txn.oneway THEN freed
                   ELSE QueueThread(popped, txn.from, Plain("failed_reply"))
  /\ Go(t, "read_fails")
  /\ UNCHANGED exiting

\* Renotified, what is left queued told to nobody.
RenotifiedNone(s, p) == s

\* ReadDone, a looper asked for by a read that failed still counted.
ReadDoneCounted(t) ==
  /\ th[t].at \in {"read_ends", "read_fails"}
  /\ LET off == Unwatched([st EXCEPT !.idle = @ \ {t}], t) IN
     st' = IF st.todo[proc[t]] = <<>> THEN off ELSE WakeOne(off, proc[t])
  /\ th' = [th EXCEPT ![t].at = IF th[t].at = "read_ends" THEN "execute" ELSE "guest",
                      ![t].spawn = th[t].asked /\ th[t].at = "read_ends",
                      ![t].asked = FALSE, ![t].registered = FALSE]
  /\ UNCHANGED <<area, exiting>>

\* However it ends, the thread is idle no more, work still queued is told to another looper,
\* and a looper asked for by a read that failed was not.
Renotified(s, p) == IF s.todo[p] = <<>> THEN s ELSE WakeOne(s, p)

ReadDone(t) ==
  /\ th[t].at \in {"read_ends", "read_fails"}
  /\ LET p == proc[t]
         off == Unwatched([st EXCEPT !.idle = @ \ {t}], t)
         told == Renotified(off, p)
         lost == th[t].asked /\ th[t].at = "read_fails" IN
     st' = IF lost THEN [told EXCEPT !.spawn_requested[p] = IF @ = 0 THEN 0 ELSE @ - 1] ELSE told
  /\ th' = [th EXCEPT ![t].at = IF th[t].at = "read_ends" THEN "execute" ELSE "guest",
                      ![t].spawn = th[t].asked /\ th[t].at = "read_ends",
                      ![t].asked = FALSE, ![t].registered = FALSE]
  /\ UNCHANGED <<area, exiting>>

Read(t) ==
  \/ TakeOwn(t) \/ TakeProc(t) \/ ReadEnds(t) \/ Look(t) \/ Watch(t) \/ Woken(t) \/ Interrupted(t)
  \/ Deliver(t) \/ Place(t) \/ Undelivered(t) \/ RecordBuffer(t) \/ Hand(t) \/ TakeBack(t)
  \/ ReadDone(t)

-----------------------------------------------------------------------------
(* The driver's ends.                                                      *)

\* BINDER_THREAD_EXIT: the caller it served hears so, and what is left in its queue is dropped.
ThreadExited(s, t) ==
  LET left == [s EXCEPT !.own[t] = <<>>, !.serving[t] = <<>>, !.awaiting[t] = 0,
                        !.looper = @ \ {t}, !.idle = @ \ {t}]
      caller == IF s.serving[t] = <<>> THEN NoThread ELSE Last(s.serving[t]) IN
  FoldLeft(WorkDropped,
           IF caller = NoThread THEN left ELSE QueueThread(left, caller, Plain("dead_reply")),
           s.own[t])

ThreadExit(t) ==
  /\ Command(t, "thread_exit")
  /\ st' = ThreadExited(st, t)
  /\ Wrote(t)
  /\ UNCHANGED <<area, exiting>>

\* A descriptor on it closed as its process ends: every read that waits looks again.  A
\* remote process is only gone.
Close(p) ==
  /\ p \notin exiting
  /\ exiting' = exiting \cup {p}
  /\ st' = [st EXCEPT !.woken = IF p \in st.remote THEN @ ELSE @ \cup st.watching]
  /\ UNCHANGED area

\* The last reference to it dropped, no call in it; a remote one's when its connection ends.
InCall(t) == th[t].at \notin {"guest", "execute"}

CanRelease(p) ==
  /\ p \in exiting \ st.dead
  /\ p \in st.remote \/ \A t \in ThreadsOf(p) : ~InCall(t)

Release(p) ==
  /\ CanRelease(p)
  /\ st' = Released(st, p)
  /\ UNCHANGED <<area, th, exiting>>
=============================================================================

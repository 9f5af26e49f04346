---------------------------- MODULE BinderProofs ----------------------------
(***************************************************************************)
(* The binder proved: Spec => []SpawnCounted and Spec => []OneWayOut.      *)
(*                                                                         *)
(* Inv of BrokerProofs holds at first (InitInv) and is kept by every step  *)
(* (NextInv): one lemma for each command that is written, each section of a *)
(* read and each move of a thread outside the driver, <Action>Keeps.  A    *)
(* step of a thread moves that thread alone; Shaped, Plainly, Reads, Plays *)
(* and Heard say of such a move which parts of the invariant it leaves as  *)
(* they were, and BrokerProofs says it of the driver's record.             *)
(***************************************************************************)
EXTENDS BrokerProofs

\* A thread's stack, and what it waits for.
LEMMA WaitedSteady == ASSUME NEW P, NEW s, NEW t PROVE Steady(P, s, Waited(s, t))
  <1>1. BrokerOK(s) => Alike(s, Waited(s, t))
    BY DEF Alike, BrokerOK, BrokerFields, Waited
  <1>2. QED BY <1>1, AlikeSteady

\* Whom a thread serves.
LEMMA ServingSteady ==
  ASSUME NEW P, NEW s, NEW t \in Threads, NEW serving, BrokerOK(s) => serving \in Seq(Threads \cup {NoThread})
  PROVE  Steady(P, s, [s EXCEPT !.serving[t] = serving])
  <1> DEFINE u == [s EXCEPT !.serving[t] = serving]
  <1>1. ASSUME BrokerOK(s) PROVE Near(s, u)
    <2>1. u.serving = [s.serving EXCEPT ![t] = serving]
      BY <1>1 DEF BrokerOK, BrokerFields
    <2>2. u.serving \in [Threads -> Seq(Threads \cup {NoThread})]
      BY <1>1, <2>1 DEF BrokerOK, QueuesOK
    <2>3. /\ BrokerFields \subseteq DOMAIN u
          /\ u.next_node = s.next_node /\ u.todo = s.todo /\ u.own = s.own
          /\ u.last_handle = s.last_handle /\ u.buffers = s.buffers
          /\ u.spawn_requested = s.spawn_requested /\ u.dead = s.dead
          /\ u.node = s.node /\ u.local = s.local /\ u.refs = s.refs
      BY <1>1 DEF BrokerOK, BrokerFields
    <2> HIDE DEF u
    <2>4. u.node \in [Nodes -> MadeNodes \cup {NoNode}] /\ u.local \in [Objects -> 0 .. MaxNode]
          /\ u.refs \in [Procs -> [Handles -> 0 .. MaxNode]] /\ u.own \in [Threads -> Seq(Sync)]
      BY <1>1, <2>3 DEF BrokerOK, NodesOK, RefsOK, QueuesOK
    <2>5. \A n \in Nodes : NodeLike(u.node[n], s.node[n])
      BY <2>3, <2>4 DEF NodeLike
    <2>6. QED BY <2>2, <2>3, <2>4, <2>5 DEF Near
  <1>2. QED BY <1>1, NearSteady

-----------------------------------------------------------------------------
(* Where sequences have one of a set.                                      *)

\* The first of a list taken off.
LEMMA HitsTail ==
  ASSUME NEW T, NEW q \in Seq(T), q # <<>>, NEW S
  PROVE  /\ Tail(q) \in Seq(T) /\ Head(q) \in T
         /\ Head(q) \in S <=> 1 \in Hits(q, S)
         /\ Single(Hits(q, S)) => Single(Hits(Tail(q), S)) /\ (Head(q) \in S => Hits(Tail(q), S) = {})
         /\ Head(q) \notin S => (Hits(Tail(q), S) = {} <=> Hits(q, S) = {})
         /\ Hits(q, S) = {} => Hits(Tail(q), S) = {}
  <1>1. DOMAIN q = 1 .. Len(q) /\ Len(q) \in Nat /\ Len(q) >= 1
    OBVIOUS
  <1>2. DOMAIN Tail(q) = 1 .. Len(q) - 1 /\ \A i \in 1 .. Len(q) - 1 : Tail(q)[i] = q[i + 1]
    BY <1>1
  <1>3. Head(q) = q[1] /\ q[1] \in T /\ Tail(q) \in Seq(T)
    BY <1>1
  <1>4. Head(q) \in S <=> 1 \in Hits(q, S)
    BY <1>1, <1>3 DEF Hits
  <1>5. \A i \in Hits(Tail(q), S) : i \in Nat /\ i + 1 \in Hits(q, S) /\ i + 1 # 1
    BY <1>1, <1>2 DEF Hits
  <1>6. ASSUME NEW i \in Hits(q, S), i # 1 PROVE i - 1 \in Hits(Tail(q), S)
    <2>1. i \in 1 .. Len(q) /\ q[i] \in S
      BY <1>1 DEF Hits
    <2>2. i - 1 \in 1 .. Len(q) - 1 /\ (i - 1) + 1 = i
      BY <1>1, <1>6, <2>1
    <2>3. Tail(q)[i - 1] = q[i]
      BY <1>2, <2>2
    <2>4. QED BY <1>2, <2>1, <2>2, <2>3 DEF Hits
  <1>7. Single(Hits(q, S)) => Single(Hits(Tail(q), S))
    <2> SUFFICES ASSUME Single(Hits(q, S)), NEW i \in Hits(Tail(q), S), NEW j \in Hits(Tail(q), S) PROVE i = j
      BY DEF Single
    <2>1. i \in Nat /\ j \in Nat /\ i + 1 = j + 1
      BY <1>5 DEF Single
    <2>2. QED BY <2>1
  <1>8. Single(Hits(q, S)) /\ Head(q) \in S => Hits(Tail(q), S) = {}
    BY <1>4, <1>5 DEF Single
  <1>9. Head(q) \notin S => (Hits(Tail(q), S) = {} <=> Hits(q, S) = {})
    <2>1. Hits(q, S) = {} => Hits(Tail(q), S) = {}
      BY <1>5
    <2>2. ASSUME Head(q) \notin S, Hits(Tail(q), S) = {}, NEW i \in Hits(q, S) PROVE FALSE
      BY <1>4, <1>6, <2>2
    <2>3. QED BY <2>1, <2>2
  <1>10. Hits(q, S) = {} => Hits(Tail(q), S) = {}
    BY <1>5
  <1>11. QED BY <1>3, <1>4, <1>7, <1>8, <1>9, <1>10

\* The last of a list taken off.
LEMMA HitsFront ==
  ASSUME NEW T, NEW q \in Seq(T), q # <<>>, NEW S
  PROVE  /\ Front(q) \in Seq(T) /\ Last(q) \in T
         /\ Single(Hits(q, S)) => Single(Hits(Front(q), S)) /\ (Last(q) \in S => Hits(Front(q), S) = {})
         /\ Last(q) \in S => Hits(q, S) # {}
         /\ Hits(q, S) = {} => Hits(Front(q), S) = {}
  <1>1. DOMAIN q = 1 .. Len(q) /\ Len(q) \in Nat /\ Len(q) >= 1
    OBVIOUS
  <1>2. /\ DOMAIN Front(q) = 1 .. Len(q) - 1 /\ \A i \in 1 .. Len(q) - 1 : Front(q)[i] = q[i]
        /\ Front(q) \in Seq(T)
    BY <1>1 DEF Front
  <1>3. Last(q) = q[Len(q)] /\ q[Len(q)] \in T
    BY <1>1 DEF Last
  <1>4. \A i \in Hits(Front(q), S) : i \in Hits(q, S) /\ i # Len(q)
    BY <1>1, <1>2 DEF Hits
  <1>5. Last(q) \in S => Len(q) \in Hits(q, S)
    BY <1>1, <1>3 DEF Hits
  <1>6. QED BY <1>2, <1>3, <1>4, <1>5 DEF Single

\* Two lists joined.
LEMMA HitsConcat ==
  ASSUME NEW T, NEW q \in Seq(T), NEW r \in Seq(T), NEW S
  PROVE  /\ q \o r \in Seq(T)
         /\ Hits(q \o r, S) = {} <=> Hits(q, S) = {} /\ Hits(r, S) = {}
         /\ Single(Hits(q, S)) /\ Hits(r, S) = {} => Single(Hits(q \o r, S))
         /\ Hits(q, S) = {} /\ Single(Hits(r, S)) => Single(Hits(q \o r, S))
  <1>1. /\ DOMAIN q = 1 .. Len(q) /\ Len(q) \in Nat /\ DOMAIN r = 1 .. Len(r) /\ Len(r) \in Nat
        /\ DOMAIN (q \o r) = 1 .. Len(q) + Len(r) /\ q \o r \in Seq(T)
    OBVIOUS
  <1>2. \A i \in 1 .. Len(q) : (q \o r)[i] = q[i]
    BY <1>1
  <1>3. \A i \in 1 .. Len(r) : (q \o r)[Len(q) + i] = r[i]
    BY <1>1
  <1> DEFINE v == q \o r
  <1> HIDE DEF v
  <1>4. ASSUME NEW i \in Hits(v, S)
        PROVE  i \in Nat /\ (i \in Hits(q, S) \/ i - Len(q) \in Hits(r, S))
    <2>1. i \in 1 .. Len(q) + Len(r) /\ v[i] \in S
      BY <1>1 DEF Hits, v
    <2>2. CASE i \in 1 .. Len(q)
      BY <1>1, <1>2, <2>1, <2>2 DEF Hits, v
    <2>3. CASE i \notin 1 .. Len(q)
      <3>1. i - Len(q) \in 1 .. Len(r) /\ Len(q) + (i - Len(q)) = i
        BY <1>1, <2>1, <2>3
      <3>2. v[i] = r[i - Len(q)]
        BY <1>3, <3>1 DEF v
      <3>3. QED BY <1>1, <2>1, <3>1, <3>2 DEF Hits
    <2>4. QED BY <2>2, <2>3
  <1>5. \A i \in Hits(q, S) : i \in Hits(v, S)
    BY <1>1, <1>2 DEF Hits, v
  <1>6. ASSUME NEW i \in Hits(r, S) PROVE Len(q) + i \in Hits(v, S)
    <2>1. i \in 1 .. Len(r) /\ r[i] \in S
      BY <1>1 DEF Hits
    <2>2. Len(q) + i \in 1 .. Len(q) + Len(r)
      BY <1>1, <2>1
    <2>3. QED BY <1>1, <1>3, <2>1, <2>2 DEF Hits, v
  <1>7. Hits(v, S) = {} <=> Hits(q, S) = {} /\ Hits(r, S) = {}
    BY <1>4, <1>5, <1>6
  <1>8. Single(Hits(q, S)) /\ Hits(r, S) = {} => Single(Hits(v, S))
    BY <1>4 DEF Single
  <1>9. ASSUME Hits(q, S) = {}, Single(Hits(r, S)), NEW i \in Hits(v, S), NEW j \in Hits(v, S) PROVE i = j
    <2>1. i \in Nat /\ j \in Nat /\ i - Len(q) = j - Len(q)
      BY <1>4, <1>9 DEF Single
    <2>2. QED BY <1>1, <2>1
  <1>10. QED BY <1>1, <1>7, <1>8, <1>9 DEF Single, v

\* An empty list has none.
LEMMA HitsNone == ASSUME NEW S PROVE Hits(<<>>, S) = {} /\ Single({})
  BY DEF Hits, Single

\* A list of one.
LEMMA HitsOne ==
  ASSUME NEW T, NEW x \in T, NEW S
  PROVE  /\ <<x>> \in Seq(T) /\ Single(Hits(<<x>>, S))
         /\ Hits(<<x>>, S) = {} <=> x \notin S
  <1>1. <<x>> \in Seq(T) /\ DOMAIN <<x>> = {1} /\ <<x>>[1] = x
    OBVIOUS
  <1>2. QED BY <1>1 DEF Hits, Single

\* One more at the end.
LEMMA HitsAppend ==
  ASSUME NEW T, NEW q \in Seq(T), NEW x \in T, NEW S
  PROVE  /\ Append(q, x) \in Seq(T)
         /\ Hits(Append(q, x), S) = {} <=> Hits(q, S) = {} /\ x \notin S
         /\ Single(Hits(q, S)) /\ (Hits(q, S) = {} \/ x \notin S) => Single(Hits(Append(q, x), S))
  <1>1. Append(q, x) = q \o <<x>>
    OBVIOUS
  <1>2. <<x>> \in Seq(T) /\ Single(Hits(<<x>>, S)) /\ (Hits(<<x>>, S) = {} <=> x \notin S)
    BY HitsOne
  <1> DEFINE r == <<x>>
  <1> HIDE DEF r
  <1>3. r \in Seq(T)
    BY <1>2 DEF r
  <1>4. /\ q \o r \in Seq(T)
        /\ Hits(q \o r, S) = {} <=> Hits(q, S) = {} /\ Hits(r, S) = {}
        /\ Single(Hits(q, S)) /\ Hits(r, S) = {} => Single(Hits(q \o r, S))
        /\ Hits(q, S) = {} /\ Single(Hits(r, S)) => Single(Hits(q \o r, S))
    BY <1>3, HitsConcat
  <1>5. QED BY <1>1, <1>2, <1>4 DEF r

-----------------------------------------------------------------------------
(* A thread's step.                                                        *)

Owed(r) == r.asked \/ r.spawn
Registers(r, prog) ==
  \/ prog # <<>> /\ Head(prog).c = "register"
  \/ \E i \in DOMAIN r.cmds : r.cmds[i].c = "register"
Counted(s, h, prog, on, p) ==
  s.spawn_requested[p] = Cardinality({t \in ThreadsOf(p) : Owed(h[t])})
                         + Cardinality({t \in ThreadsOf(p) \cap on : Registers(h[t], prog[t])})

\* SpawnCounted, process by process.
LEMMA CountedIs ==
  SpawnCounted <=> \A p \in Procs : p \notin st.dead /\ p \notin exiting => Counted(st, th, program, started, p)
  BY DEF SpawnCounted, Live, Counted, Owed, Registers

\* And after a step.
LEMMA CountedNext ==
  SpawnCounted' <=> \A p \in Procs : p \notin st'.dead /\ p \notin exiting' => Counted(st', th', program', started', p)
  BY DEF SpawnCounted, Live, Counted, Owed, Registers

\* What a program asks is a command of the driver.
LEMMA OpsAreCommands == Seq(Ops) \subseteq Seq(Commands)
  BY DEF Commands

\* As where sequences have it.
LEMMA RegistersIs ==
  ASSUME NEW r, NEW prog \in Seq(Ops), r.cmds \in Seq(Commands), RegisterIn(prog) \subseteq {1}
  PROVE  Registers(r, prog) <=> RegisterIn(prog) # {} \/ RegisterIn(r.cmds) # {}
  <1>1. \A i \in DOMAIN r.cmds : r.cmds[i] \in Commands
    OBVIOUS
  <1>2. (\E i \in DOMAIN r.cmds : r.cmds[i].c = "register") <=> RegisterIn(r.cmds) # {}
    BY <1>1 DEF RegisterIn, Hits
  <1>3. prog # <<>> /\ Head(prog).c = "register" => RegisterIn(prog) # {}
    <2> SUFFICES ASSUME prog # <<>>, Head(prog).c = "register" PROVE 1 \in RegisterIn(prog)
      OBVIOUS
    <2>1. 1 \in DOMAIN prog /\ Head(prog) = prog[1] /\ prog[1] \in Ops
      OBVIOUS
    <2>2. prog[1] \in Commands
      BY <2>1 DEF Commands
    <2>3. QED BY <2>1, <2>2 DEF RegisterIn, Hits
  <1>4. RegisterIn(prog) # {} => prog # <<>> /\ Head(prog).c = "register"
    <2> SUFFICES ASSUME RegisterIn(prog) # {} PROVE prog # <<>> /\ Head(prog).c = "register"
      OBVIOUS
    <2>1. 1 \in RegisterIn(prog)
      OBVIOUS
    <2>2. 1 \in DOMAIN prog /\ prog[1].c = "register"
      BY <2>1 DEF RegisterIn, Hits
    <2>3. QED BY <2>2
  <1>5. QED BY <1>2, <1>3, <1>4 DEF Registers

\* A step that moves one thread.
LEMMA TypesStep ==
  ASSUME TypesOK, NEW t \in Threads, NEW q, ThreadOK(q), th' = [th EXCEPT ![t] = q], GuestOK'
  PROVE  TypesOK' /\ \A u \in Threads : th'[u] = IF u = t THEN q ELSE th[u]
  <1>1. q \in ThreadTypes
    BY DEF ThreadOK
  <1>2. th' \in [Threads -> ThreadTypes] /\ \A u \in Threads : th'[u] = IF u = t THEN q ELSE th[u]
    BY <1>1 DEF TypesOK
  <1>3. QED BY <1>2 DEF TypesOK

\* One that moves one thread and its program.
LEMMA SpawnStep ==
  ASSUME TypesOK, SpawnsOK, NEW t \in Threads, NEW q, th' = [th EXCEPT ![t] = q],
         NEW prog, program' = [program EXCEPT ![t] = prog],
         started \subseteq started', SpawnOK(q, prog, t \in started')
  PROVE  SpawnsOK'
  <1>1. \A u \in Threads : th'[u] = (IF u = t THEN q ELSE th[u])
                           /\ program'[u] = IF u = t THEN prog ELSE program[u]
    BY DEF TypesOK, GuestOK
  <1>2. ASSUME NEW u \in Threads PROVE SpawnOK(th'[u], program'[u], u \in started')
    <2>1. CASE u = t
      BY <1>1, <2>1
    <2>2. CASE u # t
      <3>1. SpawnOK(th[u], program[u], u \in started)
        BY DEF SpawnsOK
      <3>2. th'[u] = th[u] /\ program'[u] = program[u]
        BY <1>1, <2>2
      <3>3. SpawnOK(th[u], program[u], u \in started')
        BY <3>1 DEF SpawnOK
      <3>4. QED BY <3>2, <3>3
    <2>3. QED BY <2>1, <2>2
  <1>3. QED BY <1>2 DEF SpawnsOK

\* One that neither asks for a looper nor ends a request.
LEMMA CountStep ==
  ASSUME TypesOK, SpawnCounted, NEW t \in Threads, NEW q, th' = [th EXCEPT ![t] = q],
         NEW prog, program' = [program EXCEPT ![t] = prog], started' = started,
         Owed(q) <=> Owed(th[t]), Registers(q, prog) <=> Registers(th[t], program[t]),
         st'.spawn_requested = st.spawn_requested, st.dead \subseteq st'.dead, exiting \subseteq exiting'
  PROVE  SpawnCounted'
  <1>1. \A u \in Threads : th'[u] = (IF u = t THEN q ELSE th[u])
                           /\ program'[u] = IF u = t THEN prog ELSE program[u]
    BY DEF TypesOK, GuestOK
  <1>2. \A u \in Threads : (Owed(th'[u]) <=> Owed(th[u]))
                           /\ (Registers(th'[u], program'[u]) <=> Registers(th[u], program[u]))
    BY <1>1
  <1>3. ASSUME NEW p \in Procs, p \notin st'.dead, p \notin exiting' PROVE Counted(st', th', program', started', p)
    <2>1. Counted(st, th, program, started, p)
      BY <1>3, CountedIs
    <2>2. \A u \in ThreadsOf(p) : u \in Threads
      BY DEF ThreadsOf
    <2>3. {u \in ThreadsOf(p) : Owed(th'[u])} = {u \in ThreadsOf(p) : Owed(th[u])}
      BY <1>2, <2>2
    <2>4. {u \in ThreadsOf(p) \cap started' : Registers(th'[u], program'[u])}
          = {u \in ThreadsOf(p) \cap started : Registers(th[u], program[u])}
      BY <1>2, <2>2
    <2>5. QED BY <2>1, <2>3, <2>4 DEF Counted
  <1>4. QED BY <1>3, CountedNext

\* Places that leave a thread's hands are given back, and those that come were nobody's.
LEMMA AreaStep ==
  ASSUME TypesOK, AreasOK, NEW t \in Threads, NEW q, th' = [th EXCEPT ![t] = q],
         NEW A \in SUBSET Buffers, area' = [area EXCEPT ![proc[t]] = A],
         \A b \in Buffers : Once(q, b) /\ (Has(q, b) => b \in A /\ (Has(th[t], b) \/ b \notin area[proc[t]])),
         \A b \in area[proc[t]] \ A : Has(th[t], b)
  PROVE  AreasOK'
  <1>1. \A u \in Threads : th'[u] = IF u = t THEN q ELSE th[u]
    BY DEF TypesOK
  <1>2. \A p \in Procs : area'[p] = (IF p = proc[t] THEN A ELSE area[p]) /\ area[p] \subseteq Buffers
    BY DEF TypesOK, GuestOK
  <1>3. \A u \in Threads : proc[u] \in Procs
    BY BrokerAssumption
  <1>4. ASSUME NEW u \in Threads, NEW b \in Buffers
        PROVE  Once(th'[u], b) /\ (Has(th'[u], b) => b \in area'[proc[u]])
    <2>1. CASE u = t
      BY <1>1, <1>2, <1>3, <2>1
    <2>2. CASE u # t
      <3>1. Once(th[u], b) /\ (Has(th[u], b) => b \in area[proc[u]]) /\ th'[u] = th[u]
        BY <1>1, <2>2 DEF AreasOK
      <3>2. ASSUME Has(th[u], b), proc[u] = proc[t] PROVE b \in A
        <4>1. b \in area[proc[t]] \ A => Has(th[t], b)
          OBVIOUS
        <4>2. Has(th[t], b) => u = t
          BY <3>2 DEF AreasOK
        <4>3. QED BY <2>2, <3>1, <3>2, <4>1, <4>2
      <3>3. QED BY <1>2, <1>3, <3>1, <3>2
    <2>3. QED BY <2>1, <2>2
  <1>5. ASSUME NEW u \in Threads, NEW b \in Buffers, Has(q, b), Has(th[u], b), proc[u] = proc[t], u # t PROVE FALSE
    <2>1. b \in area[proc[t]]
      BY <1>5 DEF AreasOK
    <2>2. Has(th[t], b)
      BY <1>5, <2>1
    <2>3. QED BY <1>5, <2>2 DEF AreasOK
  <1>6. ASSUME NEW u \in Threads, NEW v \in Threads, NEW b \in Buffers,
               proc[u] = proc[v], Has(th'[u], b), Has(th'[v], b)
        PROVE  u = v
    <2>1. CASE u = t /\ v # t
      BY <1>1, <1>5, <1>6, <2>1
    <2>2. CASE u # t /\ v = t
      BY <1>1, <1>5, <1>6, <2>2
    <2>3. CASE u # t /\ v # t
      BY <1>1, <1>6, <2>3 DEF AreasOK
    <2>4. QED BY <2>1, <2>2, <2>3
  <1>7. QED BY <1>4, <1>6 DEF AreasOK

\* One that makes no record of a buffer, and gives no thread a place that has one.
LEMMA RecordStep ==
  ASSUME TypesOK, RecordsOK, NEW t \in Threads, NEW q, th' = [th EXCEPT ![t] = q],
         st'.buffers \subseteq st.buffers, \A r \in st'.buffers : r.at \in area'[r.proc],
         q.at = "placed" => (th[t].at = "placed" /\ q.buf = th[t].buf) \/ q.buf \notin area[proc[t]]
  PROVE  RecordsOK'
  <1>1. \A u \in Threads : th'[u] = IF u = t THEN q ELSE th[u]
    BY DEF TypesOK
  <1>2. ASSUME NEW r \in st'.buffers, NEW u \in Threads, th'[u].at = "placed", proc[u] = r.proc
        PROVE  th'[u].buf # r.at
    <2>1. r.at \in area[r.proc] /\ (th[u].at = "placed" => th[u].buf # r.at)
      BY <1>2 DEF RecordsOK
    <2>2. CASE u = t
      BY <1>1, <1>2, <2>1, <2>2
    <2>3. CASE u # t
      BY <1>1, <1>2, <2>1, <2>3
    <2>4. QED BY <2>2, <2>3
  <1>3. \A r, q0 \in st'.buffers : r.proc = q0.proc /\ r.at = q0.at => r = q0
    BY DEF RecordsOK
  <1>4. QED BY <1>2, <1>3 DEF RecordsOK

\* A step of one thread that leaves the area, its process's end and the programs alone.
Shaped(r, q, prog, there) ==
  /\ ThreadOK(q) /\ SpawnOK(q, prog, there)
  /\ \A b \in Buffers : Once(q, b) /\ (Has(q, b) => Has(r, b))
  /\ q.at = "placed" => r.at = "placed" /\ q.buf = r.buf

\* A step that leaves a thread its places of the receive area, or takes some.
LEMMA ShapedAreas ==
  ASSUME Inv, NEW t \in Threads, NEW q, th' = [th EXCEPT ![t] = q],
         area' = area, exiting' = exiting, program' = program, started' = started,
         Shaped(th[t], q, program[t], t \in started)
  PROVE  TypesOK' /\ SpawnsOK' /\ AreasOK'
  <1>1. /\ TypesOK /\ SpawnsOK /\ AreasOK
        /\ program \in [Threads -> Seq(Ops)] /\ area \in [Procs -> SUBSET Buffers] /\ proc[t] \in Procs
    BY BrokerAssumption DEF Inv, TypesOK, GuestOK
  <1>2. TypesOK'
    <2>1. GuestOK'
      BY <1>1 DEF TypesOK, GuestOK
    <2>2. QED BY <1>1, <2>1, TypesStep DEF Shaped
  <1>3. program' = [program EXCEPT ![t] = program[t]] /\ area' = [area EXCEPT ![proc[t]] = area[proc[t]]]
    BY <1>1
  <1>4. SpawnsOK'
    BY <1>1, <1>3, SpawnStep DEF Shaped
  <1>5. AreasOK'
    <2>1. area[proc[t]] \in SUBSET Buffers
      BY <1>1
    <2>2. \A b \in Buffers : Has(th[t], b) => b \in area[proc[t]]
      BY <1>1 DEF AreasOK
    <2>3. \A b \in Buffers : Once(q, b) /\ (Has(q, b) => b \in area[proc[t]] /\ (Has(th[t], b) \/ b \notin area[proc[t]]))
      BY <2>2 DEF Shaped
    <2>4. QED BY <1>1, <1>3, <2>1, <2>3, AreaStep
  <1>6. QED BY <1>2, <1>4, <1>5

\* One that makes no record of a buffer either.
LEMMA ShapedStep ==
  ASSUME Inv, NEW t \in Threads, NEW q, th' = [th EXCEPT ![t] = q],
         area' = area, exiting' = exiting, program' = program, started' = started,
         Shaped(th[t], q, program[t], t \in started), st'.buffers \subseteq st.buffers
  PROVE  TypesOK' /\ SpawnsOK' /\ AreasOK' /\ RecordsOK'
  <1>1. TypesOK /\ RecordsOK
    BY DEF Inv
  <1>2. \A r \in st'.buffers : r.at \in area'[r.proc]
    BY <1>1 DEF RecordsOK
  <1>3. q.at = "placed" => th[t].at = "placed" /\ q.buf = th[t].buf
    BY DEF Shaped
  <1>4. RecordsOK'
    BY <1>1, <1>2, <1>3, RecordStep
  <1>5. QED BY <1>4, ShapedAreas

\* Nor does it change what is counted.
Plainly(r, q, prog, there) ==
  /\ Shaped(r, q, prog, there)
  /\ Owed(q) <=> Owed(r)
  /\ Registers(q, prog) <=> Registers(r, prog)

\* One that leaves the count of loopers alone too.
LEMMA PlainStep ==
  ASSUME Inv, NEW t \in Threads, NEW q, th' = [th EXCEPT ![t] = q],
         area' = area, exiting' = exiting, program' = program, started' = started,
         Plainly(th[t], q, program[t], t \in started),
         Good(st', th', 0), st'.spawn_requested = st.spawn_requested, st'.dead = st.dead,
         st'.buffers \subseteq st.buffers
  PROVE  Inv'
  <1>1. TypesOK /\ SpawnCounted /\ program \in [Threads -> Seq(Ops)]
    BY DEF Inv, TypesOK, GuestOK
  <1>2. program' = [program EXCEPT ![t] = program[t]]
    BY <1>1
  <1>3. TypesOK' /\ SpawnsOK' /\ AreasOK' /\ RecordsOK'
    BY ShapedStep DEF Plainly
  <1>4. SpawnCounted'
    <2>1. Owed(q) <=> Owed(th[t])
      BY DEF Plainly
    <2>2. Registers(q, program[t]) <=> Registers(th[t], program[t])
      BY DEF Plainly
    <2>3. QED BY <1>1, <1>2, <2>1, <2>2, CountStep
  <1>5. QED BY <1>3, <1>4 DEF Inv

\* What is not told is as it was in its hands.
Alone(r, q) ==
  /\ q.frames = r.frames /\ q.cmds = r.cmds
  /\ Holds(q) => Holds(r) /\ q.buf = r.buf

\* A thread with its commands or frames as they were, or fewer, has no place more.
LEMMA AlonePlaces ==
  ASSUME NEW r, NEW q, Alone(r, q), NEW b, Once(r, b)
  PROVE  Once(q, b) /\ (Has(q, b) => Has(r, b))
  <1>1. Frees(q, b) = Frees(r, b) /\ Serves(q, b) = Serves(r, b)
    BY DEF Frees, Serves, Alone
  <1>2. HoldsAt(q, b) => HoldsAt(r, b)
    BY DEF HoldsAt, Alone
  <1>3. QED BY <1>1, <1>2 DEF Once, Has

\* A step of the read: nothing is written and no looper asked for.
Reads(r, q) ==
  /\ Alone(r, q) /\ ThreadOK(q)
  /\ q.asked = r.asked /\ q.spawn = r.spawn
  /\ q.at \notin {"guest", "write", "reply", "execute"} /\ r.at \notin {"guest", "write", "reply", "execute"}
  /\ q.at = "placed" => r.at = "placed" /\ q.buf = r.buf

\* A step of a read leaves commands and frames alone.
LEMMA ReadsPlainly ==
  ASSUME Inv, NEW t \in Threads, NEW q, Reads(th[t], q)
  PROVE  Plainly(th[t], q, program[t], t \in started)
  <1>1. SpawnOK(th[t], program[t], t \in started) /\ \A b \in Buffers : Once(th[t], b)
    BY DEF Inv, SpawnsOK, AreasOK
  <1>2. SpawnOK(q, program[t], t \in started)
    BY <1>1 DEF SpawnOK, Reads, Alone
  <1>3. (Owed(q) <=> Owed(th[t])) /\ (Registers(q, program[t]) <=> Registers(th[t], program[t]))
    BY DEF Owed, Registers, Reads, Alone
  <1>4. \A b \in Buffers : Once(q, b) /\ (Has(q, b) => Has(th[t], b))
    BY <1>1, AlonePlaces DEF Reads
  <1>5. QED BY <1>2, <1>3, <1>4 DEF Plainly, Shaped, Reads

\* Of others nothing changes, and of a thread that takes nothing in hand neither.
LEMMA SameHands ==
  ASSUME TypesOK, NEW t \in Threads, NEW q, th' = [th EXCEPT ![t] = q], ~Oneway(th[t]), ~Oneway(q),
         NEW s, NEW due, Good(s, th, due)
  PROVE  Good(s, th', due)
  <1>1. \A u \in Threads : th'[u] = IF u = t THEN q ELSE th[u]
    BY DEF TypesOK
  <1>2. \A u \in Threads : HandLike(th[u], th'[u])
    BY <1>1 DEF HandLike
  <1>3. QED BY <1>2, HandsSame

\* A step of one thread leaves the others what they have in hand.
LEMMA OtherHands ==
  ASSUME TypesOK, NEW t \in Threads, NEW q, th' = [th EXCEPT ![t] = q]
  PROVE  Others(t, th, th') /\ th'[t] = q
  <1>1. \A u \in Threads : th'[u] = IF u = t THEN q ELSE th[u]
    BY DEF TypesOK
  <1>2. QED BY <1>1 DEF Others, HandLike

\* A command written.
LEMMA WroteTypes ==
  ASSUME NEW r, ThreadOK(r), NEW q, q = Writes(r, Tail(r.cmds)), r.cmds # <<>>
  PROVE  /\ ThreadOK(q) /\ q.at \in {"guest", "write", "look"}
         /\ q.cmds = Tail(r.cmds) /\ q.frames = r.frames /\ q.asked = r.asked /\ q.spawn = r.spawn
         /\ q.work = r.work /\ r.cmds \in Seq(Commands) /\ Head(r.cmds) \in Commands
  <1>1. r \in ThreadTypes /\ r.cmds \in Seq(Commands)
    BY DEF ThreadOK, ThreadTypes
  <1>2. Tail(r.cmds) \in Seq(Commands) /\ Head(r.cmds) \in Commands
    BY <1>1
  <1> DEFINE next == Tail(r.cmds)
             at == IF next # <<>> THEN "write" ELSE IF r.reads THEN "look" ELSE "guest"
  <1>3. q = [r EXCEPT !.cmds = next, !.at = at]
    BY DEF Writes
  <1>4. next \in Seq(Commands) /\ at \in {"guest", "write", "look"}
    BY <1>2
  <1>5. q.cmds = next
    BY <1>1, <1>3 DEF ThreadTypes
  <1> HIDE DEF next, at
  <1>6. q \in ThreadTypes
    BY <1>1, <1>3, <1>4 DEF ThreadTypes
  <1>7. q.at = at /\ q.frames = r.frames /\ q.asked = r.asked /\ q.spawn = r.spawn /\ q.work = r.work
    BY <1>1, <1>3 DEF ThreadTypes
  <1>8. ThreadOK(q)
    BY <1>4, <1>6, <1>7 DEF ThreadOK, Holds
  <1>9. QED BY <1>2, <1>4, <1>5, <1>7, <1>8 DEF next

\* A command written is taken off the list.
LEMMA WroteShaped ==
  ASSUME Inv, NEW t \in Threads, th[t].at \in {"write", "reply"}, th[t].cmds # <<>>,
         NEW q, q = Writes(th[t], Tail(th[t].cmds))
  PROVE  /\ Shaped(th[t], q, program[t], t \in started) /\ (Owed(q) <=> Owed(th[t])) /\ t \in started
         /\ Head(th[t].cmds).c # "register" => (Registers(q, program[t]) <=> Registers(th[t], program[t]))
         /\ Head(th[t].cmds).c = "register" => Registers(th[t], program[t]) /\ ~Registers(q, program[t])
  <1> DEFINE r == th[t]
             prog == program[t]
  <1>1. ThreadOK(r) /\ prog \in Seq(Ops) /\ SpawnOK(r, prog, t \in started) /\ \A b \in Buffers : Once(r, b)
    BY DEF Inv, TypesOK, GuestOK, SpawnsOK, AreasOK
  <1>2. /\ ThreadOK(q) /\ q.at \in {"guest", "write", "look"}
        /\ q.cmds = Tail(r.cmds) /\ q.frames = r.frames /\ q.asked = r.asked /\ q.spawn = r.spawn
        /\ r.cmds \in Seq(Commands) /\ Head(r.cmds) \in Commands
    BY <1>1, WroteTypes
  <1> DEFINE S == {op \in Commands : op.c = "register"}
  <1> HIDE DEF r, prog
  <1>3. /\ r.cmds # <<>> /\ r.at \in {"write", "reply"} /\ t \in started
        /\ Head(r.cmds) \in S <=> Head(r.cmds).c = "register"
    BY <1>1, <1>2 DEF r, prog, SpawnOK
  <1>4. q.cmds \in Seq(Commands)
    BY <1>2 DEF ThreadOK, ThreadTypes
  <1> HIDE DEF S
  <1>5. /\ Single(Hits(r.cmds, S)) => Single(Hits(q.cmds, S)) /\ (Head(r.cmds) \in S => Hits(q.cmds, S) = {})
        /\ Head(r.cmds) \notin S => (Hits(q.cmds, S) = {} <=> Hits(r.cmds, S) = {})
        /\ Hits(r.cmds, S) = {} => Hits(q.cmds, S) = {} /\ Head(r.cmds) \notin S
    <2>1. Head(r.cmds) \in S => Hits(r.cmds, S) # {}
      BY <1>2, <1>3, HitsTail
    <2>2. QED BY <1>2, <1>3, <2>1, HitsTail
  <1>6. RegisterIn(r.cmds) = Hits(r.cmds, S) /\ RegisterIn(q.cmds) = Hits(q.cmds, S)
    BY DEF RegisterIn, S
  <1>7. SpawnOK(q, prog, t \in started) /\ ~r.asked /\ ~r.spawn
    BY <1>1, <1>2, <1>3, <1>5, <1>6 DEF SpawnOK
  <1>8. /\ Registers(q, prog) <=> RegisterIn(prog) # {} \/ RegisterIn(q.cmds) # {}
        /\ Registers(r, prog) <=> RegisterIn(prog) # {} \/ RegisterIn(r.cmds) # {}
    <2>1. RegisterIn(prog) \subseteq {1}
      BY <1>1 DEF SpawnOK
    <2>2. QED BY <1>1, <1>2, <1>4, <2>1, RegistersIs
  <1>9. /\ Head(r.cmds).c # "register" => (Registers(q, prog) <=> Registers(r, prog))
        /\ Head(r.cmds).c = "register" => Registers(r, prog) /\ ~Registers(q, prog)
    <2>1. /\ Single(RegisterIn(r.cmds)) /\ (RegisterIn(prog) # {} => RegisterIn(r.cmds) = {})
      BY <1>1 DEF SpawnOK
    <2>2. QED BY <1>3, <1>5, <1>6, <1>8, <2>1
  <1>10. ASSUME NEW b \in Buffers PROVE Once(q, b) /\ (Has(q, b) => Has(r, b))
    <2> DEFINE X == {op \in Commands : op.c = "free" /\ op.buf = b}
    <2>1. /\ Single(Hits(r.cmds, X)) => Single(Hits(q.cmds, X))
          /\ Hits(r.cmds, X) = {} => Hits(q.cmds, X) = {}
      <3> HIDE DEF X
      <3>1. QED BY <1>2, <1>3, HitsTail
    <2>2. Serves(q, b) = Serves(r, b)
      BY <1>2 DEF Serves
    <2>3. /\ Single(Frees(r, b)) => Single(Frees(q, b))
          /\ Frees(r, b) = {} => Frees(q, b) = {}
      BY <2>1 DEF Frees
    <2>4. ~HoldsAt(q, b)
      BY <1>2 DEF HoldsAt, Holds
    <2>5. QED BY <1>1, <2>2, <2>3, <2>4 DEF Once, Has
  <1>11. Shaped(r, q, prog, t \in started)
    BY <1>2, <1>7, <1>10 DEF Shaped
  <1>12. Owed(q) <=> Owed(r)
    BY <1>2 DEF Owed
  <1>13. QED BY <1>3, <1>9, <1>11, <1>12 DEF r, prog

\* One that is no looper's registration counts nothing.
LEMMA WrotePlainly ==
  ASSUME Inv, NEW t \in Threads, th[t].at \in {"write", "reply"}, th[t].cmds # <<>>,
         Head(th[t].cmds).c # "register", NEW q, q = Writes(th[t], Tail(th[t].cmds))
  PROVE  Plainly(th[t], q, program[t], t \in started)
  BY WroteShaped DEF Plainly

-----------------------------------------------------------------------------
(* The commands.                                                           *)

\* What each command has with it.
LEMMA CommandTypes ==
  ASSUME NEW op \in Commands
  PROVE  /\ op.c = "transaction" => op \in Ops /\ op.handle \in Handles /\ op.carries \in Carriable
         /\ op.c = "reply" => op.carries \in Carriable
         /\ op.c = "free" => op.buf \in Buffers
         /\ op.c \in {"acquire", "release", "watch", "clear"} => op.handle \in Handles
         /\ op.c = "acquire_done" => op.obj \in Objects
  BY DEF Commands, Ops

\* What the invariant says of the record and of each thread.
LEMMA GoodNow ==
  ASSUME Inv
  PROVE  /\ BrokerOK(st) /\ HandsOK(st, th) /\ Good(st, th, 0) /\ TypesOK
         /\ \A t \in Threads : ThreadOK(th[t]) /\ th[t] \in ThreadTypes /\ proc[t] \in Procs
  BY BrokerAssumption DEF Inv, Good, TypesOK, ThreadOK

\* What a command leaves of the broker, if it is good, is so after it.
LEMMA WroteStep ==
  ASSUME Inv, NEW t \in Threads, th[t].at \in {"write", "reply"}, th[t].cmds # <<>>,
         Head(th[t].cmds).c # "register", Wrote(t), UNCHANGED <<area, exiting>>, UNCHANGED guest,
         Good(st', th, 0), Same(st, st')
  PROVE  Inv'
  <1> DEFINE q == Writes(th[t], Tail(th[t].cmds))
  <1>0. TypesOK /\ ThreadOK(th[t])
    BY GoodNow
  <1>1. th' = [th EXCEPT ![t] = q]
    BY DEF Wrote
  <1>2. Plainly(th[t], q, program[t], t \in started)
    BY WrotePlainly
  <1>3. q.at \in {"guest", "write", "look"}
    BY <1>0, WroteTypes
  <1> HIDE DEF q
  <1>4. ~Oneway(th[t]) /\ ~Oneway(q)
    BY <1>3 DEF Oneway, InHands
  <1>5. Good(st', th', 0)
    BY <1>0, <1>1, <1>4, SameHands
  <1>6. /\ area' = area /\ exiting' = exiting /\ program' = program /\ started' = started
        /\ st'.spawn_requested = st.spawn_requested /\ st'.dead = st.dead /\ st'.buffers \subseteq st.buffers
    BY DEF guest, Same
  <1>7. QED BY <1>1, <1>2, <1>5, <1>6, PlainStep

\* A command written that does what is steady.
LEMMA SteadyWrote ==
  ASSUME Inv, NEW t \in Threads, th[t].at \in {"write", "reply"}, th[t].cmds # <<>>,
         Head(th[t].cmds).c # "register", Wrote(t), UNCHANGED <<area, exiting>>, UNCHANGED guest,
         NEW u, st' = u, Steady({}, st, u)
  PROVE  Inv'
  <1>1. Good(u, th, 0) /\ Same(st, u)
    BY GoodNow, SteadyGood
  <1>2. Good(st', th, 0) /\ Same(st, st')
    BY <1>1
  <1>3. QED BY <1>2, WroteStep

\* BC_TRANSACTION (State::transaction) keeps the invariant, where it fails and where it goes out.
LEMMA TransactionKeeps ==
  ASSUME Inv, NEW t \in Threads, Transaction(t), UNCHANGED guest
  PROVE  Inv'
  <1> DEFINE n == st.refs[proc[t]][Arg(t).handle]
  <1>1. /\ th[t].at = "write" /\ th[t].cmds # <<>> /\ Head(th[t].cmds).c = "transaction"
        /\ Wrote(t) /\ UNCHANGED <<area, exiting>>
    BY DEF Transaction, Command
  <1>2. /\ Arg(t) \in Ops /\ Arg(t).c = "transaction" /\ Arg(t).handle \in Handles
        /\ proc[t] \in Procs /\ BrokerOK(st) /\ Good(st, th, 0)
    <2>1. Head(th[t].cmds) \in Commands
      BY <1>1, GoodNow DEF ThreadTypes
    <2>2. QED BY <1>1, <2>1, CommandTypes, GoodNow DEF Arg
  <1>3. CASE Error(t, "return_error")
    <2>1. st' = QueueThread(st, t, Plain("return_error"))
      BY <1>3 DEF Error
    <2>2. Steady({}, st, QueueThread(st, t, Plain("return_error")))
      BY PlainSync, QueueThreadSteady
    <2>3. QED BY <1>1, <2>1, <2>2, SteadyWrote
  <1>4. CASE n # 0 /\ CanCarry(st, t, Arg(t).carries) /\ st' = Sent(st, t, n, Arg(t))
    <2>1. n \in Nodes /\ st.node[n].obj \in Objects
      BY <1>2, <1>4, RefsTypes
    <2> HIDE DEF n
    <2>2. Good(Sent(st, t, n, Arg(t)), th, 0) /\ Same(st, Sent(st, t, n, Arg(t)))
      BY <1>2, <1>4, <2>1, SentGood
    <2>3. Good(st', th, 0) /\ Same(st, st')
      BY <1>4, <2>2
    <2>4. QED BY <1>1, <2>3, WroteStep
  <1>5. QED BY <1>3, <1>4 DEF Transaction

\* BC_REPLY's second section keeps it.
LEMMA ReplyKeeps ==
  ASSUME Inv, NEW t \in Threads, Reply(t), UNCHANGED guest
  PROVE  Inv'
  <1> DEFINE u == th[t].caller
  <1>1. /\ th[t].at = "reply" /\ th[t].cmds # <<>> /\ Head(th[t].cmds).c = "reply"
        /\ Wrote(t) /\ UNCHANGED <<area, exiting>>
    BY GoodNow DEF Reply, ThreadOK
  <1>2. /\ Arg(t).carries \in Carriable /\ u \in Threads \cup {NoThread}
    <2>1. Head(th[t].cmds) \in Commands /\ th[t].caller \in Threads \cup {NoThread}
      BY <1>1, GoodNow DEF ThreadTypes
    <2>2. QED BY <1>1, <2>1, CommandTypes DEF Arg
  <1>3. CASE Error(t, "complete")
    <2>1. st' = QueueThread(st, t, Plain("complete"))
      BY <1>3 DEF Error
    <2>2. Steady({}, st, QueueThread(st, t, Plain("complete")))
      BY PlainSync, QueueThreadSteady
    <2>3. QED BY <1>1, <2>1, <2>2, SteadyWrote
  <1>4. CASE u # NoThread /\ CanCarry(st, t, Arg(t).carries) /\ st' = Answered(st, t, u, Arg(t).carries)
    <2>1. Steady({}, st, Answered(st, t, u, Arg(t).carries))
      BY <1>2, <1>4, AnsweredSteady
    <2>2. QED BY <1>1, <1>4, <2>1, SteadyWrote
  <1>5. CASE st' = QueueThread(QueueThread(st, t, Plain("complete")), u, Plain("failed_reply"))
    <2> DEFINE told == QueueThread(st, t, Plain("complete"))
    <2>1. Steady({}, st, told)
      BY PlainSync, QueueThreadSteady
    <2> HIDE DEF told
    <2>2. Steady({}, told, QueueThread(told, u, Plain("failed_reply")))
      BY PlainSync, QueueThreadSteady
    <2>3. Steady({}, st, QueueThread(told, u, Plain("failed_reply")))
      BY <2>1, <2>2, SteadyOn
    <2>4. st' = QueueThread(told, u, Plain("failed_reply"))
      BY <1>5 DEF told
    <2>5. QED BY <1>1, <2>3, <2>4, SteadyWrote
  <1>6. QED BY <1>3, <1>4, <1>5 DEF Reply

\* BC_ACQUIRE and BC_RELEASE keep it.
LEMMA CountHandleKeeps ==
  ASSUME Inv, NEW t \in Threads, CountHandle(t), UNCHANGED guest
  PROVE  Inv'
  <1>1. /\ th[t].at = "write" /\ th[t].cmds # <<>> /\ Head(th[t].cmds).c \in {"acquire", "release"}
        /\ Wrote(t) /\ UNCHANGED <<area, exiting>>
        /\ \/ st' = HandleTaken(st, proc[t], Arg(t).handle)
           \/ st' = HandleLeft(st, proc[t], Arg(t).handle)
    BY DEF CountHandle, Command
  <1>2. Arg(t).handle \in Handles /\ proc[t] \in Procs
    <2>1. Head(th[t].cmds) \in Commands
      BY <1>1, GoodNow DEF ThreadTypes
    <2>2. QED BY <1>1, <2>1, CommandTypes, GoodNow DEF Arg
  <1>3. Steady({}, st, HandleTaken(st, proc[t], Arg(t).handle)) /\ Steady({}, st, HandleLeft(st, proc[t], Arg(t).handle))
    BY <1>2, HandleTakenSteady, HandleLeftSteady
  <1>4. QED BY <1>1, <1>3, SteadyWrote

\* BC_ACQUIRE_DONE keeps it.
LEMMA AcquiredKeeps ==
  ASSUME Inv, NEW t \in Threads, Acquired(t), UNCHANGED guest
  PROVE  Inv'
  <1>1. /\ th[t].at = "write" /\ th[t].cmds # <<>> /\ Head(th[t].cmds).c = "acquire_done"
        /\ Wrote(t) /\ UNCHANGED <<area, exiting>> /\ st' \in AcquireDone(st, Arg(t).obj)
    BY DEF Acquired, Command
  <1>2. Arg(t).obj \in Objects
    <2>1. Head(th[t].cmds) \in Commands
      BY <1>1, GoodNow DEF ThreadTypes
    <2>2. QED BY <1>1, <2>1, CommandTypes DEF Arg
  <1>3. PICK u \in AcquireDone(st, Arg(t).obj) : st' = u
    BY <1>1
  <1>4. Steady({}, st, u)
    BY <1>2, AcquireDoneSteady
  <1>5. QED BY <1>1, <1>3, <1>4, SteadyWrote

\* BC_REQUEST_DEATH_NOTIFICATION keeps it.
LEMMA WatchDeathKeeps ==
  ASSUME Inv, NEW t \in Threads, WatchDeath(t), UNCHANGED guest
  PROVE  Inv'
  <1> DEFINE n == st.refs[proc[t]][Arg(t).handle]
  <1>1. /\ th[t].at = "write" /\ th[t].cmds # <<>> /\ Head(th[t].cmds).c = "watch"
        /\ Wrote(t) /\ UNCHANGED <<area, exiting>>
    BY DEF WatchDeath, Command
  <1>2. st' = IF n = 0 THEN st
              ELSE IF st.node[n].dead THEN ToWatcher(st, t, Of("dead", st.node[n].obj))
              ELSE [st EXCEPT !.node[n].watchers = @ \cup {proc[t]}]
    BY DEF WatchDeath
  <1>3. Arg(t).handle \in Handles /\ proc[t] \in Procs /\ BrokerOK(st)
    <2>1. Head(th[t].cmds) \in Commands
      BY <1>1, GoodNow DEF ThreadTypes
    <2>2. QED BY <1>1, <2>1, CommandTypes, GoodNow DEF Arg
  <1>4. n # 0 => n \in Nodes /\ st.node[n].obj \in Objects /\ st.node[n] \in MadeNodes
    BY <1>3, RefsTypes
  <1> HIDE DEF n
  <1>5. CASE n = 0
    BY <1>1, <1>2, <1>5, SteadySelf, SteadyWrote
  <1>6. CASE n # 0 /\ st.node[n].dead
    <2>1. Of("dead", st.node[n].obj) \in Sync
      BY <1>4, <1>6, OfSync
    <2>2. Steady({}, st, ToWatcher(st, t, Of("dead", st.node[n].obj)))
      BY <2>1, ToWatcherSteady
    <2>3. QED BY <1>1, <1>2, <1>6, <2>2, SteadyWrote
  <1>7. CASE n # 0 /\ ~st.node[n].dead
    <2> DEFINE W == st.node[n].watchers \cup {proc[t]}
    <2>1. W \in SUBSET Procs
      BY <1>3, <1>4, <1>7 DEF MadeNodes
    <2>2. [st EXCEPT !.node[n].watchers = @ \cup {proc[t]}] = [st EXCEPT !.node[n].watchers = W]
      OBVIOUS
    <2> HIDE DEF W
    <2>3. Steady({}, st, [st EXCEPT !.node[n].watchers = W])
      BY <1>4, <1>7, <2>1, WatchersSteady
    <2>4. st' = [st EXCEPT !.node[n].watchers = W]
      BY <1>2, <1>7, <2>2
    <2>5. QED BY <1>1, <2>3, <2>4, SteadyWrote
  <1>8. QED BY <1>5, <1>6, <1>7

\* BC_CLEAR_DEATH_NOTIFICATION keeps it.
LEMMA ClearDeathKeeps ==
  ASSUME Inv, NEW t \in Threads, ClearDeath(t), UNCHANGED guest
  PROVE  Inv'
  <1> DEFINE n == st.refs[proc[t]][Arg(t).handle]
  <1>1. /\ th[t].at = "write" /\ th[t].cmds # <<>> /\ Head(th[t].cmds).c = "clear"
        /\ Wrote(t) /\ UNCHANGED <<area, exiting>>
    BY DEF ClearDeath, Command
  <1>2. st' = IF n = 0 THEN st
              ELSE ToWatcher([st EXCEPT !.node[n].watchers = @ \ {proc[t]}], t, Of("cleared", st.node[n].obj))
    BY DEF ClearDeath
  <1>3. Arg(t).handle \in Handles /\ proc[t] \in Procs /\ BrokerOK(st)
    <2>1. Head(th[t].cmds) \in Commands
      BY <1>1, GoodNow DEF ThreadTypes
    <2>2. QED BY <1>1, <2>1, CommandTypes, GoodNow DEF Arg
  <1>4. n # 0 => n \in Nodes /\ st.node[n].obj \in Objects /\ st.node[n] \in MadeNodes
    BY <1>3, RefsTypes
  <1> HIDE DEF n
  <1>5. CASE n = 0
    BY <1>1, <1>2, <1>5, SteadySelf, SteadyWrote
  <1>6. CASE n # 0
    <2> DEFINE W == st.node[n].watchers \ {proc[t]}
               s == [st EXCEPT !.node[n].watchers = W]
               work == Of("cleared", st.node[n].obj)
    <2>1. W \in SUBSET Procs
      BY <1>4, <1>6 DEF MadeNodes
    <2>2. [st EXCEPT !.node[n].watchers = @ \ {proc[t]}] = s
      OBVIOUS
    <2> HIDE DEF W
    <2>3. Steady({}, st, s)
      BY <1>4, <1>6, <2>1, WatchersSteady
    <2>4. work \in Sync
      BY <1>4, <1>6, OfSync
    <2>5. st' = ToWatcher(s, t, work)
      BY <1>2, <1>6, <2>2
    <2> HIDE DEF s, work
    <2>6. Steady({}, st, ToWatcher(s, t, work))
      BY <2>3, <2>4, ToWatcherSteady, SteadyOn
    <2>7. QED BY <1>1, <2>5, <2>6, SteadyWrote
  <1>7. QED BY <1>5, <1>6

\* BINDER_THREAD_EXIT keeps it.
LEMMA ThreadExitKeeps ==
  ASSUME Inv, NEW t \in Threads, ThreadExit(t), UNCHANGED guest
  PROVE  Inv'
  <1>1. /\ th[t].at = "write" /\ th[t].cmds # <<>> /\ Head(th[t].cmds).c = "thread_exit"
        /\ Wrote(t) /\ UNCHANGED <<area, exiting>> /\ st' = ThreadExited(st, t)
    BY DEF ThreadExit, Command
  <1>2. QED BY <1>1, ThreadExitedSteady, SteadyWrote

-----------------------------------------------------------------------------
(* The read.                                                               *)

\* A step of a read that leaves the counts alone and the record good.
LEMMA ReadStep ==
  ASSUME Inv, NEW t \in Threads, NEW q, Reads(th[t], q), th' = [th EXCEPT ![t] = q],
         UNCHANGED <<area, exiting>>, UNCHANGED guest, Good(st', th', 0),
         st'.spawn_requested = st.spawn_requested, st'.dead = st.dead, st'.buffers \subseteq st.buffers
  PROVE  Inv'
  <1>1. Plainly(th[t], q, program[t], t \in started)
    BY ReadsPlainly
  <1>2. area' = area /\ exiting' = exiting /\ program' = program /\ started' = started
    BY DEF guest
  <1>3. QED BY <1>1, <1>2, PlainStep

\* One with no oneway in hand that does what is steady.
LEMMA SteadyRead ==
  ASSUME Inv, NEW t \in Threads, NEW q, Reads(th[t], q), th' = [th EXCEPT ![t] = q],
         UNCHANGED <<area, exiting>>, UNCHANGED guest, ~Oneway(th[t]), ~Oneway(q),
         NEW u, st' = u, Steady({}, st, u)
  PROVE  Inv'
  <1>1. Good(u, th, 0) /\ Same(st, u) /\ TypesOK
    BY GoodNow, SteadyGood
  <1>2. Good(st', th, 0) /\ Same(st, st')
    BY <1>1
  <1>3. Good(st', th', 0)
    BY <1>1, <1>2, SameHands
  <1>4. st'.buffers \subseteq st.buffers
    BY <1>2 DEF Same
  <1>5. QED BY <1>2, <1>3, <1>4, ReadStep DEF Same

\* What changes of a thread as it looks for work, and finds none.
LookPlaces == {"look", "watch", "asleep", "read_ends", "read_fails"}

\* The steps of a read before it has anything.
LEMMA LooksRead ==
  ASSUME NEW r, ThreadOK(r), r.at \in LookPlaces, NEW q, q \in ThreadTypes, q.at \in LookPlaces,
         q.frames = r.frames, q.cmds = r.cmds, q.asked = r.asked, q.spawn = r.spawn,
         ~Holds(q)
  PROVE  Reads(r, q) /\ ~Oneway(r) /\ ~Oneway(q)
  <1>1. ThreadOK(q)
    BY DEF ThreadOK, LookPlaces
  <1>2. QED BY <1>1 DEF Reads, Alone, Oneway, InHands, LookPlaces

\* A read that ends with nothing keeps the invariant.
LEMMA ReadEndsKeeps ==
  ASSUME Inv, NEW t \in Threads, ReadEnds(t), UNCHANGED guest
  PROVE  Inv'
  <1> DEFINE u == [st EXCEPT !.idle = Idle(t)]
             q == [th[t] EXCEPT !.at = IF proc[t] \in st.dead THEN "read_fails" ELSE "read_ends",
                                !.got = Plain("none")]
  <1>1. th[t].at = "look" /\ st' = u /\ UNCHANGED <<area, exiting>>
    BY DEF ReadEnds, NoWork
  <1>2. th' = [th EXCEPT ![t] = q]
    BY DEF ReadEnds
  <1>3. Plain("none") \in Work
    BY DEF Plain, Work, Notes
  <1>4. q \in ThreadTypes /\ q.frames = th[t].frames /\ q.cmds = th[t].cmds /\ q.asked = th[t].asked
        /\ q.spawn = th[t].spawn /\ q.at \in LookPlaces /\ q.got = Plain("none")
    BY <1>3, GoodNow DEF ThreadTypes, LookPlaces
  <1>5. ~Holds(q)
    BY <1>4 DEF Holds, Plain, LookPlaces
  <1>6. Steady({}, st, u)
    <2>1. BrokerOK(st) => Alike(st, u)
      BY DEF Alike, BrokerOK, BrokerFields
    <2>2. QED BY <2>1, AlikeSteady
  <1> HIDE DEF q, u
  <1>7. Reads(th[t], q) /\ ~Oneway(th[t]) /\ ~Oneway(q)
    BY <1>1, <1>4, <1>5, LooksRead, GoodNow DEF LookPlaces
  <1>8. QED BY <1>1, <1>2, <1>6, <1>7, SteadyRead

\* A look at the queues that finds nothing keeps it.
LEMMA LookKeeps ==
  ASSUME Inv, NEW t \in Threads, Look(t), UNCHANGED guest
  PROVE  Inv'
  <1> DEFINE u == [st EXCEPT !.idle = Idle(t)]
             q == [th[t] EXCEPT !.at = IF th[t].registered THEN "asleep" ELSE "watch",
                                !.takes = TakesProc(t)]
  <1>1. th[t].at = "look" /\ st' = u /\ UNCHANGED <<area, exiting>>
    BY DEF Look, NoWork
  <1>2. th' = [th EXCEPT ![t] = q]
    BY DEF Look
  <1>3. TakesProc(t) \in BOOLEAN
    BY DEF TakesProc
  <1>4. q \in ThreadTypes /\ q.frames = th[t].frames /\ q.cmds = th[t].cmds /\ q.asked = th[t].asked
        /\ q.spawn = th[t].spawn /\ q.at \in {"asleep", "watch"}
    BY <1>3, GoodNow DEF ThreadTypes
  <1>5. ~Holds(q)
    BY <1>4 DEF Holds
  <1>6. Steady({}, st, u)
    <2>1. BrokerOK(st) => Alike(st, u)
      BY DEF Alike, BrokerOK, BrokerFields
    <2>2. QED BY <2>1, AlikeSteady
  <1> HIDE DEF q, u
  <1>7. Reads(th[t], q) /\ ~Oneway(th[t]) /\ ~Oneway(q)
    BY <1>1, <1>4, <1>5, LooksRead, GoodNow DEF LookPlaces
  <1>8. QED BY <1>1, <1>2, <1>6, <1>7, SteadyRead

\* Going to sleep, after a look once more, keeps it.
LEMMA WatchKeeps ==
  ASSUME Inv, NEW t \in Threads, Watch(t), UNCHANGED guest
  PROVE  Inv'
  <1> DEFINE u == [st EXCEPT !.watching = @ \cup {t}, !.woken = @ \ {t},
                             !.waiting[proc[t]] = IF th[t].takes THEN Append(@, t) ELSE @]
             q == [th[t] EXCEPT !.at = "look", !.registered = TRUE]
  <1>1. th[t].at = "watch" /\ st' = u /\ UNCHANGED <<area, exiting>>
    BY DEF Watch
  <1>2. th' = [th EXCEPT ![t] = q]
    BY DEF Watch
  <1>4. q \in ThreadTypes /\ q.frames = th[t].frames /\ q.cmds = th[t].cmds /\ q.asked = th[t].asked
        /\ q.spawn = th[t].spawn /\ q.at = "look"
    BY GoodNow DEF ThreadTypes
  <1>5. ~Holds(q)
    BY <1>4 DEF Holds
  <1>6. Steady({}, st, u)
    <2>1. BrokerOK(st) => Alike(st, u)
      BY DEF Alike, BrokerOK, BrokerFields
    <2>2. QED BY <2>1, AlikeSteady
  <1> HIDE DEF q, u
  <1>7. Reads(th[t], q) /\ ~Oneway(th[t]) /\ ~Oneway(q)
    BY <1>1, <1>4, <1>5, LooksRead, GoodNow DEF LookPlaces
  <1>8. QED BY <1>1, <1>2, <1>6, <1>7, SteadyRead

\* A watch taken back.
LEMMA UnwatchedSteady == ASSUME NEW P, NEW s, NEW t PROVE Steady(P, s, Unwatched(s, t))
  <1>1. BrokerOK(s) => Alike(s, Unwatched(s, t))
    BY DEF Alike, BrokerOK, BrokerFields, Unwatched
  <1>2. QED BY <1>1, AlikeSteady

\* A wake, by notice or by the end of a slice, keeps it.
LEMMA WakesKeeps ==
  ASSUME Inv, NEW t \in Threads, Wakes(t), UNCHANGED guest
  PROVE  Inv'
  <1> DEFINE q == [th[t] EXCEPT !.at = "look", !.registered = FALSE]
  <1>1. th[t].at = "asleep" /\ st' = Unwatched(st, t) /\ UNCHANGED <<area, exiting>>
    BY DEF Wakes
  <1>2. th' = [th EXCEPT ![t] = q]
    BY DEF Wakes
  <1>4. q \in ThreadTypes /\ q.frames = th[t].frames /\ q.cmds = th[t].cmds /\ q.asked = th[t].asked
        /\ q.spawn = th[t].spawn /\ q.at = "look"
    BY GoodNow DEF ThreadTypes
  <1>5. ~Holds(q)
    BY <1>4 DEF Holds
  <1> HIDE DEF q
  <1>7. Reads(th[t], q) /\ ~Oneway(th[t]) /\ ~Oneway(q)
    BY <1>1, <1>4, <1>5, LooksRead, GoodNow DEF LookPlaces
  <1>8. QED BY <1>1, <1>2, <1>7, UnwatchedSteady, SteadyRead

\* A signal that interrupts a wait keeps it.
LEMMA InterruptedKeeps ==
  ASSUME Inv, NEW t \in Threads, Interrupted(t), UNCHANGED guest
  PROVE  Inv'
  <1> DEFINE off == Unwatched(st, t)
             u == [off EXCEPT !.idle = IF th[t].at = "asleep" THEN @ ELSE Idle(t)]
             q == [th[t] EXCEPT !.at = "read_fails", !.registered = FALSE, !.signal = FALSE]
  <1>1. th[t].at \in {"look", "asleep"} /\ st' = u /\ UNCHANGED <<area, exiting>>
    BY DEF Interrupted, NoWork
  <1>2. th' = [th EXCEPT ![t] = q]
    BY DEF Interrupted
  <1>4. q \in ThreadTypes /\ q.frames = th[t].frames /\ q.cmds = th[t].cmds /\ q.asked = th[t].asked
        /\ q.spawn = th[t].spawn /\ q.at = "read_fails"
    BY GoodNow DEF ThreadTypes
  <1>5. ~Holds(q)
    BY <1>4 DEF Holds
  <1>6. Steady({}, st, u)
    <2> HIDE DEF off
    <2>1. BrokerOK(off) => Alike(off, u)
      BY DEF Alike, BrokerOK, BrokerFields
    <2>2. Steady({}, off, u)
      BY <2>1, AlikeSteady
    <2>3. Steady({}, st, off)
      BY UnwatchedSteady DEF off
    <2>4. QED BY <2>2, <2>3, SteadyOn
  <1> HIDE DEF q, u
  <1>7. Reads(th[t], q) /\ ~Oneway(th[t]) /\ ~Oneway(q)
    BY <1>1, <1>4, <1>5, LooksRead, GoodNow DEF LookPlaces
  <1>8. QED BY <1>1, <1>2, <1>6, <1>7, SteadyRead

-----------------------------------------------------------------------------
(* What a step of one thread changes of what is counted.                   *)

Owing(h, p) == {t \in ThreadsOf(p) : Owed(h[t])}
Registering(h, prog, on, p) == {t \in ThreadsOf(p) \cap on : Registers(h[t], prog[t])}

\* What the count of loopers is made of are numbers.
LEMMA CountsAre ==
  ASSUME NEW p \in Procs, NEW h, NEW prog, NEW on
  PROVE  /\ IsFiniteSet(Owing(h, p)) /\ IsFiniteSet(Registering(h, prog, on, p))
         /\ Cardinality(Owing(h, p)) \in Nat /\ Cardinality(Registering(h, prog, on, p)) \in Nat
  <1>1. Owing(h, p) \subseteq Threads /\ Registering(h, prog, on, p) \subseteq Threads
    BY DEF Owing, Registering, ThreadsOf
  <1>2. IsFiniteSet(Owing(h, p)) /\ IsFiniteSet(Registering(h, prog, on, p))
    BY <1>1, BrokerAssumption, FS_Subset
  <1>3. QED BY <1>2, FS_CardinalityType

\* A thread that moves is one more that owes a request its looper, one less, or neither.
LEMMA OwingMoves ==
  ASSUME TypesOK, NEW t \in Threads, NEW q, th' = [th EXCEPT ![t] = q]
  PROVE  /\ Owed(q) /\ ~Owed(th[t]) => Cardinality(Owing(th', proc[t])) = Cardinality(Owing(th, proc[t])) + 1
         /\ ~Owed(q) /\ Owed(th[t]) => /\ Cardinality(Owing(th', proc[t])) = Cardinality(Owing(th, proc[t])) - 1
                                       /\ Cardinality(Owing(th, proc[t])) > 0
         /\ (Owed(q) <=> Owed(th[t])) => Owing(th', proc[t]) = Owing(th, proc[t])
         /\ \A p \in Procs : p # proc[t] => Owing(th', p) = Owing(th, p)
  <1>1. \A u \in Threads : th'[u] = IF u = t THEN q ELSE th[u]
    BY DEF TypesOK
  <1>2. proc[t] \in Procs
    BY BrokerAssumption
  <1>3. t \in ThreadsOf(proc[t]) /\ \A p \in Procs : p # proc[t] => t \notin ThreadsOf(p)
    BY DEF ThreadsOf
  <1>4. \A p \in Procs : ThreadsOf(p) \subseteq Threads
    BY DEF ThreadsOf
  <1>5. \A p \in Procs : p # proc[t] => Owing(th', p) = Owing(th, p)
    BY <1>1, <1>3, <1>4 DEF Owing
  <1>6. IsFiniteSet(Owing(th, proc[t])) /\ Cardinality(Owing(th, proc[t])) \in Nat
        /\ IsFiniteSet(Owing(th', proc[t])) /\ Cardinality(Owing(th', proc[t])) \in Nat
    BY <1>2, CountsAre
  <1>7. (Owed(q) <=> Owed(th[t])) => Owing(th', proc[t]) = Owing(th, proc[t])
    BY <1>1, <1>4 DEF Owing
  <1>8. ASSUME Owed(q), ~Owed(th[t])
        PROVE  Cardinality(Owing(th', proc[t])) = Cardinality(Owing(th, proc[t])) + 1
    <2>1. Owing(th', proc[t]) = Owing(th, proc[t]) \cup {t} /\ t \notin Owing(th, proc[t])
      BY <1>1, <1>2, <1>3, <1>4, <1>8 DEF Owing
    <2>2. QED BY <1>6, <2>1, FS_AddElement
  <1>9. ASSUME ~Owed(q), Owed(th[t])
        PROVE  /\ Cardinality(Owing(th', proc[t])) = Cardinality(Owing(th, proc[t])) - 1
               /\ Cardinality(Owing(th, proc[t])) > 0
    <2>1. Owing(th, proc[t]) = Owing(th', proc[t]) \cup {t} /\ t \notin Owing(th', proc[t])
      BY <1>1, <1>2, <1>3, <1>4, <1>9 DEF Owing
    <2>2. Cardinality(Owing(th, proc[t])) = Cardinality(Owing(th', proc[t])) + 1
      BY <1>6, <2>1, FS_AddElement
    <2>3. QED BY <1>6, <2>2
  <1>10. QED BY <1>5, <1>7, <1>8, <1>9

\* Or one less that is about to register.
LEMMA RegisteringMoves ==
  ASSUME TypesOK, NEW t \in Threads, NEW q, th' = [th EXCEPT ![t] = q], t \in started
  PROVE  /\ ~Registers(q, program[t]) /\ Registers(th[t], program[t]) =>
              /\ Cardinality(Registering(th', program, started, proc[t]))
                 = Cardinality(Registering(th, program, started, proc[t])) - 1
              /\ Cardinality(Registering(th, program, started, proc[t])) > 0
         /\ (Registers(q, program[t]) <=> Registers(th[t], program[t])) =>
              Registering(th', program, started, proc[t]) = Registering(th, program, started, proc[t])
         /\ \A p \in Procs : p # proc[t] =>
              Registering(th', program, started, p) = Registering(th, program, started, p)
  <1> DEFINE R(h, p) == Registering(h, program, started, p)
  <1>1. \A u \in Threads : th'[u] = IF u = t THEN q ELSE th[u]
    BY DEF TypesOK
  <1>2. proc[t] \in Procs
    BY BrokerAssumption
  <1>3. t \in ThreadsOf(proc[t]) /\ \A p \in Procs : p # proc[t] => t \notin ThreadsOf(p)
    BY DEF ThreadsOf
  <1>4. \A p \in Procs : ThreadsOf(p) \subseteq Threads
    BY DEF ThreadsOf
  <1>5. \A p \in Procs : p # proc[t] => R(th', p) = R(th, p)
    BY <1>1, <1>3, <1>4 DEF Registering
  <1>6. IsFiniteSet(R(th, proc[t])) /\ Cardinality(R(th, proc[t])) \in Nat
        /\ IsFiniteSet(R(th', proc[t])) /\ Cardinality(R(th', proc[t])) \in Nat
    BY <1>2, CountsAre
  <1>7. (Registers(q, program[t]) <=> Registers(th[t], program[t])) => R(th', proc[t]) = R(th, proc[t])
    BY <1>1, <1>4 DEF Registering
  <1>9. ASSUME ~Registers(q, program[t]), Registers(th[t], program[t])
        PROVE  /\ Cardinality(R(th', proc[t])) = Cardinality(R(th, proc[t])) - 1
               /\ Cardinality(R(th, proc[t])) > 0
    <2>1. R(th, proc[t]) = R(th', proc[t]) \cup {t} /\ t \notin R(th', proc[t])
      BY <1>1, <1>2, <1>3, <1>4, <1>9 DEF Registering
    <2> HIDE DEF R
    <2>2. Cardinality(R(th, proc[t])) = Cardinality(R(th', proc[t])) + 1
      BY <1>6, <2>1, FS_AddElement
    <2>3. QED BY <1>6, <2>2
  <1>10. QED BY <1>5, <1>7, <1>9

\* The processes that count: neither ended nor ending.
LEMMA CountChange ==
  ASSUME Inv, NEW t \in Threads, NEW q, th' = [th EXCEPT ![t] = q],
         area' = area, exiting' = exiting, program' = program, started' = started,
         Shaped(th[t], q, program[t], t \in started), t \in started,
         Good(st', th', 0), st'.dead = st.dead, st'.buffers \subseteq st.buffers,
         \A p \in Procs : p # proc[t] => st'.spawn_requested[p] = st.spawn_requested[p],
         st.spawn_requested[proc[t]] = Cardinality(Owing(th, proc[t]))
                                       + Cardinality(Registering(th, program, started, proc[t]))
         => st'.spawn_requested[proc[t]] = Cardinality(Owing(th', proc[t]))
                                           + Cardinality(Registering(th', program, started, proc[t]))
  PROVE  Inv'
  <1>1. TypesOK' /\ SpawnsOK' /\ AreasOK' /\ RecordsOK'
    BY ShapedStep
  <1>2. TypesOK /\ SpawnCounted
    BY DEF Inv
  <1>3. \A p \in Procs : p # proc[t] => /\ Owing(th', p) = Owing(th, p)
                                        /\ Registering(th', program, started, p) = Registering(th, program, started, p)
    BY <1>2, OwingMoves, RegisteringMoves
  <1>4. ASSUME NEW p \in Procs, p \notin st'.dead, p \notin exiting' PROVE Counted(st', th', program', started', p)
    <2>1. Counted(st, th, program, started, p)
      BY <1>2, <1>4, CountedIs
    <2>2. st.spawn_requested[p] = Cardinality(Owing(th, p)) + Cardinality(Registering(th, program, started, p))
      BY <2>1 DEF Counted, Owing, Registering
    <2>3. st'.spawn_requested[p] = Cardinality(Owing(th', p)) + Cardinality(Registering(th', program, started, p))
      BY <1>3, <2>2
    <2>4. QED BY <2>3 DEF Counted, Owing, Registering
  <1>5. SpawnCounted'
    BY <1>4, CountedNext
  <1>6. QED BY <1>1, <1>5 DEF Inv

\* A record whose count of loopers asked for changes is as good.
CountedAnew(s, u) ==
  /\ BrokerFields \subseteq DOMAIN u
  /\ u.node = s.node /\ u.next_node = s.next_node /\ u.local = s.local /\ u.refs = s.refs
  /\ u.last_handle = s.last_handle /\ u.todo = s.todo /\ u.own = s.own /\ u.serving = s.serving
  /\ u.buffers = s.buffers /\ u.spawn_requested \in [Procs -> Nat] /\ u.dead = s.dead

\* A change of the pool's counts is none of the record's other parts.
LEMMA CountedAnewGood ==
  ASSUME NEW s, NEW h, NEW due, Good(s, h, due), NEW u, CountedAnew(s, u)
  PROVE  Good(u, h, due)
  <1>1. BrokerOK(s)
    BY DEF Good
  <1>2. \A n, p : At(u, n, p) <=> At(s, n, p)
    BY DEF At, CountedAnew
  <1>3. PlacesOK(u)
    BY <1>1, <1>2 DEF BrokerOK, PlacesOK, CountedAnew
  <1>4. NodesOK(u) /\ RefsOK(u) /\ QueuesOK(u) /\ BuffersOK(u) /\ CountsOK(u)
    BY <1>1 DEF BrokerOK, NodesOK, RefsOK, QueuesOK, BuffersOK, CountsOK, CountedAnew
  <1>5. BrokerOK(u)
    BY <1>3, <1>4 DEF BrokerOK, CountedAnew
  <1>6. NodesStay({}, s, u)
    BY DEF NodesStay, CountedAnew
  <1>7. QueuesGrow({}, s, u)
    BY <1>1, GrownTypes, GrownSelf DEF QueuesGrow, CountedAnew
  <1>8. u.dead = s.dead \cup {} /\ u.buffers \subseteq s.buffers /\ \A b \in s.buffers \ u.buffers : b.proc \in {}
    BY DEF CountedAnew
  <1>9. QED BY <1>5, <1>6, <1>7, <1>8, OutsStay

-----------------------------------------------------------------------------
(* Loopers.                                                                *)

\* One less of a count that never goes below zero.
LEMMA LessCounted ==
  ASSUME NEW f \in [Procs -> Nat], NEW p \in Procs
  PROVE  [f EXCEPT ![p] = IF @ = 0 THEN 0 ELSE @ - 1] \in [Procs -> Nat]
  <1>1. (IF f[p] = 0 THEN 0 ELSE f[p] - 1) \in Nat
    OBVIOUS
  <1>2. QED BY <1>1

\* BC_ENTER_LOOPER and BC_REGISTER_LOOPER (1582-1589) keep the invariant: a registration ends
\* the one request it answers.
LEMMA EnterLooperKeeps ==
  ASSUME Inv, NEW t \in Threads, EnterLooper(t), UNCHANGED guest
  PROVE  Inv'
  <1>1. th[t].at = "write" /\ th[t].cmds # <<>> /\ Wrote(t) /\ UNCHANGED <<area, exiting>>
    BY DEF EnterLooper, Command
  <1>2. CASE Command(t, "enter") /\ st' = [st EXCEPT !.looper = @ \cup {t}]
    <2> DEFINE u == [st EXCEPT !.looper = @ \cup {t}]
    <2>1. BrokerOK(st) => Alike(st, u)
      BY DEF Alike, BrokerOK, BrokerFields
    <2>2. Steady({}, st, u)
      BY <2>1, AlikeSteady
    <2>3. st' = u /\ Head(th[t].cmds).c # "register"
      BY <1>2 DEF Command
    <2> HIDE DEF u
    <2>4. QED BY <1>1, <2>2, <2>3, SteadyWrote
  <1>3. CASE /\ Command(t, "register")
             /\ st' = [st EXCEPT !.looper = @ \cup {t},
                                 !.spawn_requested[proc[t]] = IF @ = 0 THEN 0 ELSE @ - 1]
    <2> DEFINE q == Writes(th[t], Tail(th[t].cmds))
               u == [st EXCEPT !.looper = @ \cup {t},
                               !.spawn_requested[proc[t]] = IF @ = 0 THEN 0 ELSE @ - 1]
    <2>1. BrokerOK(st) /\ Good(st, th, 0) /\ TypesOK /\ ThreadOK(th[t]) /\ proc[t] \in Procs
      BY GoodNow
    <2>2. th' = [th EXCEPT ![t] = q]
      BY <1>1 DEF Wrote
    <2>3. /\ Shaped(th[t], q, program[t], t \in started) /\ (Owed(q) <=> Owed(th[t])) /\ t \in started
          /\ Registers(th[t], program[t]) /\ ~Registers(q, program[t])
      BY <1>1, <1>3, WroteShaped DEF Command
    <2>4. q.at \in {"guest", "write", "look"}
      BY <1>1, <2>1, WroteTypes
    <2> HIDE DEF q
    <2>5. ~Oneway(th[t]) /\ ~Oneway(q)
      BY <1>1, <2>4 DEF Oneway, InHands
    <2>6. u.spawn_requested = [st.spawn_requested EXCEPT ![proc[t]] = IF @ = 0 THEN 0 ELSE @ - 1]
      BY <2>1 DEF BrokerOK, BrokerFields
    <2>7. st.spawn_requested \in [Procs -> Nat]
      BY <2>1 DEF BrokerOK, CountsOK
    <2>8. CountedAnew(st, u)
      <3>1. u.spawn_requested \in [Procs -> Nat]
        BY <2>1, <2>6, <2>7, LessCounted
      <3> HIDE <2>6
      <3>2. QED BY <2>1, <3>1 DEF CountedAnew, BrokerOK, BrokerFields
    <2>9. st' = u
      BY <1>3
    <2> HIDE DEF u
    <2>10. Good(u, th, 0)
      BY <2>1, <2>8, CountedAnewGood
    <2>11. Good(st', th', 0)
      BY <2>1, <2>2, <2>5, <2>9, <2>10, SameHands
    <2>12. st'.dead = st.dead /\ st'.buffers \subseteq st.buffers
      BY <2>8, <2>9 DEF CountedAnew
    <2>13. \A p \in Procs : p # proc[t] => st'.spawn_requested[p] = st.spawn_requested[p]
      BY <2>6, <2>7, <2>9
    <2> DEFINE A == Cardinality(Owing(th, proc[t]))
               B == Cardinality(Registering(th, program, started, proc[t]))
               A1 == Cardinality(Owing(th', proc[t]))
               B1 == Cardinality(Registering(th', program, started, proc[t]))
    <2>14. A1 = A /\ B1 = B - 1 /\ B > 0 /\ A \in Nat /\ B \in Nat
      BY <2>1, <2>2, <2>3, OwingMoves, RegisteringMoves, CountsAre
    <2>15. st'.spawn_requested[proc[t]] = IF st.spawn_requested[proc[t]] = 0 THEN 0
                                          ELSE st.spawn_requested[proc[t]] - 1
      BY <2>1, <2>6, <2>7, <2>9
    <2> HIDE DEF A, B, A1, B1
    <2>16. st.spawn_requested[proc[t]] = A + B => st'.spawn_requested[proc[t]] = A1 + B1
      BY <2>14, <2>15
    <2>17. area' = area /\ exiting' = exiting /\ program' = program /\ started' = started
      BY <1>1 DEF guest
    <2>18. QED BY <2>2, <2>3, <2>11, <2>12, <2>13, <2>16, <2>17, CountChange DEF A, B, A1, B1
  <1>4. QED BY <1>2, <1>3 DEF EnterLooper

\* BC_REPLY's first section, which takes the caller off, keeps it.
LEMMA ReplyBeginKeeps ==
  ASSUME Inv, NEW t \in Threads, ReplyBegin(t), UNCHANGED guest
  PROVE  Inv'
  <1> DEFINE serving == IF st.serving[t] = <<>> THEN st.serving[t] ELSE Front(st.serving[t])
             u == [st EXCEPT !.serving[t] = IF @ = <<>> THEN @ ELSE Front(@)]
             caller == IF st.serving[t] = <<>> THEN NoThread ELSE Last(st.serving[t])
             q == [th[t] EXCEPT !.at = "reply", !.caller = caller]
  <1>1. th[t].at = "write" /\ th[t].cmds # <<>> /\ Head(th[t].cmds).c = "reply" /\ UNCHANGED <<area, exiting>>
    BY DEF ReplyBegin, Command
  <1>2. th' = [th EXCEPT ![t] = q] /\ st' = u
    BY DEF ReplyBegin
  <1>3. BrokerOK(st) /\ Good(st, th, 0) /\ TypesOK /\ th[t] \in ThreadTypes
        /\ st.serving \in [Threads -> Seq(Threads \cup {NoThread})]
    BY GoodNow DEF BrokerOK, QueuesOK
  <1>4. serving \in Seq(Threads \cup {NoThread}) /\ caller \in Threads \cup {NoThread}
    <2>1. CASE st.serving[t] = <<>>
      BY <2>1
    <2>2. CASE st.serving[t] # <<>>
      BY <1>3, <2>2, HitsFront
    <2>3. QED BY <2>1, <2>2
  <1> HIDE DEF caller
  <1>5. /\ q \in ThreadTypes /\ q.at = "reply" /\ q.cmds = th[t].cmds /\ q.frames = th[t].frames
        /\ q.asked = th[t].asked /\ q.spawn = th[t].spawn
    BY <1>3, <1>4 DEF ThreadTypes
  <1>6. u = [st EXCEPT !.serving[t] = serving]
    OBVIOUS
  <1> HIDE DEF serving, u
  <1>8. Steady({}, st, u)
    BY <1>4, <1>6, ServingSteady
  <1> HIDE DEF q
  <1>9. ~Oneway(th[t]) /\ ~Oneway(q)
    BY <1>1, <1>5 DEF Oneway, InHands
  <1>10. Good(u, th, 0) /\ Same(st, u)
    BY <1>3, <1>8, SteadyGood
  <1>11. Good(st', th', 0) /\ Same(st, st')
    BY <1>2, <1>3, <1>9, <1>10, SameHands
  <1>12. ThreadOK(q)
    BY <1>1, <1>5 DEF ThreadOK, Holds
  <1>13. Plainly(th[t], q, program[t], t \in started)
    <2>1. SpawnOK(th[t], program[t], t \in started) /\ \A b \in Buffers : Once(th[t], b)
      BY DEF Inv, SpawnsOK, AreasOK
    <2>2. SpawnOK(q, program[t], t \in started)
      BY <1>1, <1>5, <2>1 DEF SpawnOK
    <2>3. (Owed(q) <=> Owed(th[t])) /\ (Registers(q, program[t]) <=> Registers(th[t], program[t]))
      BY <1>5 DEF Owed, Registers
    <2>4. Alone(th[t], q)
      BY <1>5 DEF Alone, Holds
    <2>5. \A b \in Buffers : Once(q, b) /\ (Has(q, b) => Has(th[t], b))
      BY <2>1, <2>4, AlonePlaces
    <2>6. QED BY <1>5, <1>12, <2>2, <2>3, <2>5 DEF Plainly, Shaped
  <1>14. /\ area' = area /\ exiting' = exiting /\ program' = program /\ started' = started
         /\ st'.spawn_requested = st.spawn_requested /\ st'.dead = st.dead /\ st'.buffers \subseteq st.buffers
    BY <1>1, <1>11 DEF guest, Same
  <1>15. QED BY <1>2, <1>11, <1>13, <1>14, PlainStep

\* A read that ends: a looper asked for is to be started, or it was not and none is.
LEMMA ReadDoneKeeps ==
  ASSUME Inv, NEW t \in Threads, ReadDone(t), UNCHANGED guest
  PROVE  Inv'
  <1> DEFINE p == proc[t]
             idle == [st EXCEPT !.idle = @ \ {t}]
             off == Unwatched(idle, t)
             told == Renotified(off, p)
             lost == th[t].asked /\ th[t].at = "read_fails"
             u == [told EXCEPT !.spawn_requested[p] = IF @ = 0 THEN 0 ELSE @ - 1]
             at == IF th[t].at = "read_ends" THEN "execute" ELSE "guest"
             q == [th[t] EXCEPT !.at = at, !.spawn = th[t].asked /\ th[t].at = "read_ends",
                                !.asked = FALSE, !.registered = FALSE]
  <1>1. /\ th[t].at \in {"read_ends", "read_fails"} /\ UNCHANGED <<area, exiting>>
        /\ st' = IF lost THEN u ELSE told
        /\ th' = [th EXCEPT ![t] = q]
    BY DEF ReadDone
  <1>2. BrokerOK(st) /\ Good(st, th, 0) /\ TypesOK /\ th[t] \in ThreadTypes /\ p \in Procs /\ ThreadOK(th[t])
    BY GoodNow
  <1>3. Steady({}, st, told)
    <2>1. BrokerOK(st) => Alike(st, idle)
      BY DEF Alike, BrokerOK, BrokerFields
    <2>2. Steady({}, st, idle)
      BY <2>1, AlikeSteady
    <2> HIDE DEF idle
    <2>3. Steady({}, st, off)
      BY <2>2, UnwatchedSteady, SteadyOn
    <2> HIDE DEF off
    <2>4. Steady({}, off, told)
      BY WakeOneSteady, SteadySelf DEF Renotified
    <2>5. QED BY <2>3, <2>4, SteadyOn
  <1> HIDE DEF told
  <1>4. Good(told, th, 0) /\ Same(st, told) /\ BrokerOK(told)
    BY <1>2, <1>3, SteadyGood DEF Good
  <1>5. SpawnOK(th[t], program[t], t \in started) /\ \A b \in Buffers : Once(th[t], b)
    BY DEF Inv, SpawnsOK, AreasOK
  <1>6. t \in started /\ ~th[t].spawn
    BY <1>1, <1>5 DEF SpawnOK
  <1> DEFINE spawn == th[t].asked /\ th[t].at = "read_ends"
  <1>7. at \in {"execute", "guest"} /\ spawn \in BOOLEAN
        /\ (at = "execute" <=> th[t].at = "read_ends")
    BY <1>1
  <1> HIDE DEF at, spawn
  <1>8. q = [th[t] EXCEPT !.at = at, !.spawn = spawn, !.asked = FALSE, !.registered = FALSE]
    BY DEF spawn
  <1> HIDE DEF q
  <1>9. /\ q \in ThreadTypes /\ q.at = at /\ q.cmds = th[t].cmds /\ q.frames = th[t].frames
        /\ q.asked = FALSE /\ q.spawn = spawn /\ q.got = th[t].got /\ q.buf = th[t].buf
    BY <1>2, <1>7, <1>8 DEF ThreadTypes
  <1>10. Holds(q) => Holds(th[t])
    BY <1>1, <1>7, <1>9 DEF Holds
  <1>11. ThreadOK(q)
    BY <1>2, <1>7, <1>9, <1>10 DEF ThreadOK
  <1>12. Shaped(th[t], q, program[t], t \in started)
    <2>1. SpawnOK(q, program[t], t \in started)
      BY <1>5, <1>6, <1>7, <1>9 DEF SpawnOK, spawn
    <2>2. Alone(th[t], q)
      BY <1>9, <1>10 DEF Alone
    <2>3. \A b \in Buffers : Once(q, b) /\ (Has(q, b) => Has(th[t], b))
      BY <1>5, <2>2, AlonePlaces
    <2>4. QED BY <1>7, <1>9, <1>11, <2>1, <2>3 DEF Shaped
  <1>13. /\ Registers(q, program[t]) <=> Registers(th[t], program[t])
         /\ lost => Owed(th[t]) /\ ~Owed(q)
         /\ ~lost => (Owed(q) <=> Owed(th[t]))
    BY <1>1, <1>6, <1>9 DEF Registers, Owed, spawn
  <1>14. ~Oneway(th[t]) /\ ~Oneway(q)
    BY <1>1, <1>7, <1>9 DEF Oneway, InHands
  <1>15. area' = area /\ exiting' = exiting /\ program' = program /\ started' = started
    BY <1>1 DEF guest
  <1>16. CASE ~lost
    <2>1. Good(st', th', 0) /\ Same(st, st')
      BY <1>1, <1>2, <1>4, <1>14, <1>16, SameHands
    <2>2. Plainly(th[t], q, program[t], t \in started)
      BY <1>12, <1>13, <1>16 DEF Plainly
    <2>3. st'.spawn_requested = st.spawn_requested /\ st'.dead = st.dead /\ st'.buffers \subseteq st.buffers
      BY <2>1 DEF Same
    <2>4. QED BY <1>1, <1>15, <2>1, <2>2, <2>3, PlainStep
  <1>17. CASE lost
    <2>1. u.spawn_requested = [told.spawn_requested EXCEPT ![p] = IF @ = 0 THEN 0 ELSE @ - 1]
      BY <1>4 DEF BrokerOK, BrokerFields
    <2>2. told.spawn_requested \in [Procs -> Nat] /\ told.spawn_requested = st.spawn_requested
      BY <1>4 DEF BrokerOK, CountsOK, Same
    <2>3. CountedAnew(told, u)
      <3>1. u.spawn_requested \in [Procs -> Nat]
        BY <1>2, <2>1, <2>2, LessCounted
      <3> HIDE <2>1
      <3>2. QED BY <1>4, <3>1 DEF CountedAnew, BrokerOK, BrokerFields
    <2>4. st' = u
      BY <1>1, <1>17
    <2> HIDE DEF u, lost
    <2>5. Good(u, th, 0)
      BY <1>4, <2>3, CountedAnewGood
    <2>6. Good(st', th', 0)
      BY <1>1, <1>2, <1>14, <2>4, <2>5, SameHands
    <2>7. st'.dead = st.dead /\ st'.buffers \subseteq st.buffers
      BY <1>4, <2>3, <2>4 DEF CountedAnew, Same
    <2>8. \A r \in Procs : r # p => st'.spawn_requested[r] = st.spawn_requested[r]
      BY <2>1, <2>2, <2>4
    <2> DEFINE A == Cardinality(Owing(th, p))
               B == Cardinality(Registering(th, program, started, p))
               A1 == Cardinality(Owing(th', p))
               B1 == Cardinality(Registering(th', program, started, p))
    <2>9. A1 = A - 1 /\ A > 0 /\ B1 = B /\ A \in Nat /\ B \in Nat
      BY <1>1, <1>2, <1>6, <1>13, <1>17, OwingMoves, RegisteringMoves, CountsAre
    <2>10. st'.spawn_requested[p] = IF st.spawn_requested[p] = 0 THEN 0 ELSE st.spawn_requested[p] - 1
      BY <1>2, <2>1, <2>2, <2>4
    <2> HIDE DEF A, B, A1, B1
    <2>11. st.spawn_requested[p] = A + B => st'.spawn_requested[p] = A1 + B1
      BY <2>9, <2>10
    <2>12. QED BY <1>1, <1>6, <1>12, <1>15, <2>6, <2>7, <2>8, <2>11, CountChange DEF A, B, A1, B1
  <1>18. QED BY <1>16, <1>17

-----------------------------------------------------------------------------
(* Work taken.                                                             *)

\* Work of its own read by a thread keeps it.
LEMMA TakeOwnKeeps ==
  ASSUME Inv, NEW t \in Threads, TakeOwn(t), UNCHANGED guest
  PROVE  Inv'
  <1> DEFINE u == [st EXCEPT !.own[t] = Tail(@), !.idle = @ \ {t}]
             rest == Tail(st.own[t])
             work == Head(st.own[t])
             q == [th[t] EXCEPT !.at = "deliver", !.work = work]
  <1>1. th[t].at = "look" /\ st.own[t] # <<>> /\ UNCHANGED <<area, exiting>> /\ st' = u /\ th' = [th EXCEPT ![t] = q]
    BY DEF TakeOwn
  <1>2. BrokerOK(st) /\ ThreadOK(th[t]) /\ th[t] \in ThreadTypes /\ st.own \in [Threads -> Seq(Sync)]
    BY GoodNow DEF BrokerOK, QueuesOK
  <1>3. rest \in Seq(Sync) /\ work \in Sync
    BY <1>1, <1>2
  <1> HIDE DEF work, rest
  <1>4. /\ q \in ThreadTypes /\ q.at = "deliver" /\ q.cmds = th[t].cmds /\ q.frames = th[t].frames
        /\ q.asked = th[t].asked /\ q.spawn = th[t].spawn /\ q.work = work
    <2>1. work \in Work
      BY <1>3 DEF Sync
    <2>2. QED BY <1>2, <2>1 DEF ThreadTypes
  <1>5. Near(st, u)
    <2>1. u.own = [st.own EXCEPT ![t] = rest]
      BY <1>2 DEF BrokerOK, BrokerFields, rest
    <2>2. u.own \in [Threads -> Seq(Sync)]
      BY <1>2, <1>3, <2>1
    <2>3. /\ BrokerFields \subseteq DOMAIN u
          /\ u.next_node = st.next_node /\ u.todo = st.todo /\ u.serving = st.serving
          /\ u.last_handle = st.last_handle /\ u.buffers = st.buffers
          /\ u.spawn_requested = st.spawn_requested /\ u.dead = st.dead
          /\ u.node = st.node /\ u.local = st.local /\ u.refs = st.refs
      BY <1>2 DEF BrokerOK, BrokerFields
    <2> HIDE DEF u
    <2>4. u.node \in [Nodes -> MadeNodes \cup {NoNode}] /\ u.local \in [Objects -> 0 .. MaxNode]
          /\ u.refs \in [Procs -> [Handles -> 0 .. MaxNode]]
          /\ u.serving \in [Threads -> Seq(Threads \cup {NoThread})]
      BY <1>2, <2>3 DEF BrokerOK, NodesOK, RefsOK, QueuesOK
    <2>5. \A n \in Nodes : NodeLike(u.node[n], st.node[n])
      BY <2>3, <2>4 DEF NodeLike
    <2>6. QED BY <2>2, <2>3, <2>4, <2>5 DEF Near
  <1>6. Steady({}, st, u)
    BY <1>5, NearSteady
  <1> HIDE DEF u, q
  <1>7. ~Oneway(th[t]) /\ ~Oneway(q)
    BY <1>1, <1>3, <1>4 DEF Oneway, InHands, Sync
  <1>8. ThreadOK(q)
    BY <1>4 DEF ThreadOK, Holds
  <1>9. Reads(th[t], q)
    BY <1>1, <1>4, <1>8 DEF Reads, Alone, Holds
  <1>10. QED BY <1>1, <1>6, <1>7, <1>9, SteadyRead

\* A looper that takes the process's work, and the other it asks for.
LEMMA TakeProcKeeps ==
  ASSUME Inv, NEW t \in Threads, TakeProc(t), UNCHANGED guest
  PROVE  Inv'
  <1> DEFINE p == proc[t]
             work == Head(st.todo[p])
             wanted == Wanted(t)
             asked == th[t].asked \/ wanted
             u == [st EXCEPT !.todo[p] = Tail(@), !.idle = @ \ {t},
                             !.spawn_requested[p] = IF wanted THEN @ + 1 ELSE @]
             q == [th[t] EXCEPT !.at = "deliver", !.work = work, !.asked = asked]
  <1>1. th[t].at = "look" /\ st.todo[p] # <<>> /\ UNCHANGED <<area, exiting>>
    BY DEF TakeProc
  <1>2. st' = u /\ th' = [th EXCEPT ![t] = q]
    BY DEF TakeProc
  <1>3. /\ BrokerOK(st) /\ Good(st, th, 0) /\ TypesOK /\ ThreadOK(th[t]) /\ th[t] \in ThreadTypes /\ p \in Procs
        /\ st.todo \in [Procs -> Seq(Work)] /\ st.spawn_requested \in [Procs -> Nat]
    BY GoodNow DEF BrokerOK, QueuesOK, CountsOK
  <1>4. work \in Work /\ wanted \in BOOLEAN /\ (wanted => st.spawn_requested[p] = 0)
    BY <1>1, <1>3 DEF Wanted
  <1>5. SpawnOK(th[t], program[t], t \in started) /\ \A b \in Buffers : Once(th[t], b)
    BY DEF Inv, SpawnsOK, AreasOK
  <1>6. t \in started /\ ~th[t].spawn
    BY <1>1, <1>5 DEF SpawnOK
  <1> HIDE DEF work, wanted
  <1>7. /\ q \in ThreadTypes /\ q.at = "deliver" /\ q.cmds = th[t].cmds /\ q.frames = th[t].frames
        /\ q.asked = asked /\ q.spawn = th[t].spawn /\ q.work = work
    BY <1>3, <1>4 DEF ThreadTypes
  <1>8. /\ u.todo = [st.todo EXCEPT ![p] = Tail(st.todo[p])]
        /\ u.spawn_requested = [st.spawn_requested EXCEPT ![p] = IF wanted THEN @ + 1 ELSE @]
    BY <1>3 DEF BrokerOK, BrokerFields
  <1>9. HasTaken(st, u, p)
    <2>1. u.spawn_requested \in [Procs -> Nat]
      <3>1. (IF wanted THEN st.spawn_requested[p] + 1 ELSE st.spawn_requested[p]) \in Nat
        BY <1>3
      <3>2. QED BY <1>3, <1>8, <3>1
    <2>2. /\ BrokerFields \subseteq DOMAIN u
          /\ u.node = st.node /\ u.next_node = st.next_node /\ u.local = st.local /\ u.refs = st.refs
          /\ u.last_handle = st.last_handle /\ u.own = st.own /\ u.serving = st.serving
          /\ u.buffers = st.buffers /\ u.dead = st.dead
      BY <1>3 DEF BrokerOK, BrokerFields
    <2>3. QED BY <1>8, <2>1, <2>2 DEF HasTaken
  <1> HIDE DEF u, q
  <1>10. Others(t, th, th') /\ th'[t] = q
    BY <1>2, <1>3, OtherHands
  <1>11. ~InHands(th[t]) /\ InHands(th'[t]) /\ th'[t].work = Head(st.todo[p])
    BY <1>1, <1>7, <1>10 DEF InHands, work
  <1>12. Good(u, th', 0)
    BY <1>1, <1>3, <1>9, <1>10, <1>11, TakenGood
  <1>13. ThreadOK(q)
    BY <1>7 DEF ThreadOK, Holds
  <1>14. Shaped(th[t], q, program[t], t \in started)
    <2>1. SpawnOK(q, program[t], t \in started)
      BY <1>1, <1>5, <1>6, <1>7 DEF SpawnOK
    <2>2. Alone(th[t], q)
      BY <1>7 DEF Alone, Holds
    <2>3. \A b \in Buffers : Once(q, b) /\ (Has(q, b) => Has(th[t], b))
      BY <1>5, <2>2, AlonePlaces
    <2>4. QED BY <1>7, <1>13, <2>1, <2>3 DEF Shaped
  <1>15. area' = area /\ exiting' = exiting /\ program' = program /\ started' = started
    BY <1>1 DEF guest
  <1>16. Good(st', th', 0) /\ st'.dead = st.dead /\ st'.buffers \subseteq st.buffers
    BY <1>2, <1>9, <1>12 DEF HasTaken
  <1>17. \A r \in Procs : r # p => st'.spawn_requested[r] = st.spawn_requested[r]
    BY <1>2, <1>3, <1>8
  <1>18. st'.spawn_requested[p] = IF wanted THEN st.spawn_requested[p] + 1 ELSE st.spawn_requested[p]
    BY <1>2, <1>3, <1>8
  <1>19. Registers(q, program[t]) <=> Registers(th[t], program[t])
    BY <1>7 DEF Registers
  <1> DEFINE A == Cardinality(Owing(th, p))
             B == Cardinality(Registering(th, program, started, p))
             A1 == Cardinality(Owing(th', p))
             B1 == Cardinality(Registering(th', program, started, p))
  <1>20. A \in Nat /\ B \in Nat /\ B1 = B
    BY <1>2, <1>3, <1>6, <1>19, RegisteringMoves, CountsAre
  <1>21. Owed(th[t]) => A > 0
    <2>1. Owed(th[t]) => t \in Owing(th, p)
      BY DEF Owing, ThreadsOf
    <2>2. A = 0 <=> Owing(th, p) = {}
      BY <1>3, CountsAre, FS_EmptySet
    <2>3. QED BY <1>20, <2>1, <2>2
  <1>22. /\ Owed(q) <=> th[t].asked \/ wanted
         /\ Owed(th[t]) <=> th[t].asked
    BY <1>6, <1>7 DEF Owed
  <1>23. /\ Owed(q) /\ ~Owed(th[t]) => A1 = A + 1
         /\ (Owed(q) <=> Owed(th[t])) => A1 = A
    BY <1>2, <1>3, OwingMoves
  <1> HIDE DEF A, B, A1, B1
  <1>24. ASSUME st.spawn_requested[p] = A + B PROVE st'.spawn_requested[p] = A1 + B1
    <2>1. CASE wanted
      <3>1. A = 0
        BY <1>4, <1>20, <1>24, <2>1
      <3>2. Owed(q) /\ ~Owed(th[t])
        BY <1>21, <1>22, <2>1, <3>1
      <3>3. QED BY <1>18, <1>20, <1>23, <1>24, <2>1, <3>2
    <2>2. CASE ~wanted
      BY <1>18, <1>20, <1>22, <1>23, <1>24, <2>2
    <2>3. QED BY <2>1, <2>2
  <1>25. QED BY <1>2, <1>6, <1>14, <1>15, <1>16, <1>17, <1>24, CountChange DEF A, B, A1, B1

\* What is no transaction is handed out.
LEMMA DeliverKeeps ==
  ASSUME Inv, NEW t \in Threads, Deliver(t), UNCHANGED guest
  PROVE  Inv'
  <1> DEFINE u == IF th[t].work.kind \in {"dead_reply", "failed_reply"} THEN Waited(st, t) ELSE st
             q == [th[t] EXCEPT !.at = IF proc[t] \in st.remote THEN "hand" ELSE "read_ends", !.got = th[t].work]
  <1>1. /\ th[t].at = "deliver" /\ th[t].work.kind # "txn" /\ UNCHANGED <<area, exiting>>
        /\ st' = u /\ th' = [th EXCEPT ![t] = q]
    BY DEF Deliver, Hands
  <1>2. ThreadOK(th[t]) /\ th[t] \in ThreadTypes
    BY GoodNow
  <1>3. /\ q \in ThreadTypes /\ q.at \in {"hand", "read_ends"} /\ q.cmds = th[t].cmds /\ q.frames = th[t].frames
        /\ q.asked = th[t].asked /\ q.spawn = th[t].spawn /\ q.got = th[t].work
    BY <1>2 DEF ThreadTypes
  <1>4. Steady({}, st, u)
    <2>1. BrokerOK(st) => Alike(st, u)
      BY DEF Alike, BrokerOK, BrokerFields, Waited
    <2>2. QED BY <2>1, AlikeSteady
  <1> HIDE DEF u, q
  <1>5. ~Oneway(th[t]) /\ ~Oneway(q)
    BY <1>1, <1>3 DEF Oneway, InHands
  <1>6. ~Holds(q)
    BY <1>1, <1>3 DEF Holds
  <1>7. ThreadOK(q)
    BY <1>3, <1>6 DEF ThreadOK
  <1>8. Reads(th[t], q)
    BY <1>1, <1>3, <1>6, <1>7 DEF Reads, Alone
  <1>9. QED BY <1>1, <1>4, <1>5, <1>8, SteadyRead

\* Word that is no transaction, given to the reader, keeps it.
LEMMA HandKeeps ==
  ASSUME Inv, NEW t \in Threads, Hand(t), UNCHANGED guest
  PROVE  Inv'
  <1> DEFINE q == [th[t] EXCEPT !.at = "read_ends"]
  <1>1. /\ th[t].at = "hand" /\ UNCHANGED <<area, exiting>> /\ st' = st /\ th' = [th EXCEPT ![t] = q]
    BY DEF Hand, Go, driver
  <1>2. ThreadOK(th[t]) /\ th[t] \in ThreadTypes
    BY GoodNow
  <1>3. /\ q \in ThreadTypes /\ q.at = "read_ends" /\ q.cmds = th[t].cmds /\ q.frames = th[t].frames
        /\ q.asked = th[t].asked /\ q.spawn = th[t].spawn /\ q.got = th[t].got /\ q.buf = th[t].buf
    BY <1>2 DEF ThreadTypes
  <1> HIDE DEF q
  <1>5. ~Oneway(th[t]) /\ ~Oneway(q)
    BY <1>1, <1>3 DEF Oneway, InHands
  <1>6. Holds(q) => Holds(th[t])
    BY <1>1, <1>3 DEF Holds
  <1>7. ThreadOK(q)
    BY <1>2, <1>3, <1>6 DEF ThreadOK
  <1>8. Reads(th[t], q)
    BY <1>1, <1>3, <1>6, <1>7 DEF Reads, Alone
  <1>9. QED BY <1>1, <1>5, <1>8, SteadySelf, SteadyRead

-----------------------------------------------------------------------------
(* Delivery, and what is freed.                                            *)

\* The first free place is one of the free places.
LEMMA FirstIn ==
  ASSUME NEW S \in SUBSET Buffers, S # {}
  PROVE  First(S) \in S
  <1>1. S \in SUBSET Nat
    BY BuffersAssumption
  <1>2. PICK m \in S : \A k \in S : m <= k
    BY <1>1, Unpins!Least
  <1>3. QED BY <1>2 DEF First

\* What a transaction has with it.
LEMMA TxnWork ==
  ASSUME NEW w \in Work, w.kind = "txn"
  PROVE  /\ w \in Txns /\ w.async \in 0 .. MaxNode /\ w.pinned \in Seq(Nodes)
         /\ w.from \in Threads \cup {NoThread} /\ w.reply \in BOOLEAN
         /\ w.reply => w.async = 0
         /\ ~w.reply => w.pinned # <<>>
  <1>1. w \notin Told /\ w \notin Notes
    BY DEF Told, Notes
  <1>2. w \in Txns
    BY <1>1 DEF Work
  <1>3. w \in CallTxns => /\ w.async \in 0 .. MaxNode /\ w.pinned \in Seq(Nodes) /\ w.pinned # <<>>
                          /\ w.from \in Threads \cup {NoThread} /\ w.reply = FALSE
    BY DEF CallTxns, Flying
  <1>4. w \in ReplyTxns => /\ w.async = 0 /\ w.pinned \in Seq(Nodes)
                           /\ w.from \in Threads \cup {NoThread} /\ w.reply = TRUE
    BY DEF ReplyTxns, Flying
  <1>5. 0 \in 0 .. MaxNode
    BY BrokerAssumption
  <1>6. QED BY <1>2, <1>3, <1>4, <1>5 DEF Txns

\* A place found for a transaction's payload, or none (place) keeps it: the place was nobody's.
LEMMA PlaceKeeps ==
  ASSUME Inv, NEW t \in Threads, Place(t), UNCHANGED guest
  PROVE  Inv'
  <1> DEFINE p == proc[t]
             b == First(Free(p))
             A == area[p] \cup {b}
             r == th[t]
             q == [r EXCEPT !.at = "placed", !.buf = b]
  <1>1. /\ r.at = "deliver" /\ r.work.kind = "txn" /\ Free(p) # {} /\ st' = st /\ exiting' = exiting
        /\ area' = [area EXCEPT ![p] = A] /\ th' = [th EXCEPT ![t] = q]
        /\ program' = program /\ started' = started
    BY DEF Place, guest
  <1>2. /\ TypesOK /\ SpawnsOK /\ AreasOK /\ RecordsOK /\ SpawnCounted /\ Good(st, th, 0)
        /\ ThreadOK(r) /\ r \in ThreadTypes /\ p \in Procs
        /\ program \in [Threads -> Seq(Ops)] /\ area \in [Procs -> SUBSET Buffers]
    BY GoodNow DEF Inv, TypesOK, GuestOK
  <1>3. b \in Buffers /\ b \notin area[p]
    <2>1. Free(p) \in SUBSET Buffers
      BY DEF Free
    <2>2. First(Free(p)) \in Free(p)
      BY <1>1, <2>1, FirstIn
    <2>3. QED BY <2>2 DEF Free
  <1> HIDE DEF b
  <1>4. SpawnOK(r, program[t], t \in started) /\ \A x \in Buffers : Once(r, x) /\ (Has(r, x) => x \in area[p])
    BY <1>2 DEF SpawnsOK, AreasOK
  <1>5. th' = [th EXCEPT ![t] = q]
    BY <1>1
  <1> HIDE DEF r
  <1>6. /\ q \in ThreadTypes /\ q.at = "placed" /\ q.cmds = r.cmds /\ q.frames = r.frames
        /\ q.asked = r.asked /\ q.spawn = r.spawn /\ q.work = r.work /\ q.buf = b
    BY <1>2, <1>3 DEF ThreadTypes
  <1>7. ThreadOK(q)
    BY <1>1, <1>3, <1>6 DEF ThreadOK, Holds
  <1> HIDE DEF q
  <1>8. A \in SUBSET Buffers /\ area' \in [Procs -> SUBSET Buffers]
    BY <1>1, <1>2, <1>3
  <1> HIDE DEF A
  <1>9. TypesOK'
    <2>1. GuestOK'
      BY <1>1, <1>2, <1>8 DEF TypesOK, GuestOK
    <2>2. QED BY <1>2, <1>5, <1>7, <2>1, TypesStep
  <1>10. program' = [program EXCEPT ![t] = program[t]]
    BY <1>1, <1>2
  <1>11. SpawnsOK'
    <2>1. SpawnOK(q, program[t], t \in started)
      BY <1>1, <1>4, <1>6 DEF SpawnOK
    <2>2. QED BY <1>1, <1>2, <1>5, <1>10, <2>1, SpawnStep
  <1>12. AreasOK'
    <2>1. ASSUME NEW x \in Buffers
          PROVE  Once(q, x) /\ (Has(q, x) => x \in A /\ (Has(th[t], x) \/ x \notin area[p]))
      <3>1. Frees(q, x) = Frees(r, x) /\ Serves(q, x) = Serves(r, x)
        BY <1>6 DEF Frees, Serves
      <3>2. HoldsAt(q, x) => x = b
        BY <1>6 DEF HoldsAt
      <3>3. x = b => Frees(r, x) = {} /\ Serves(r, x) = {}
        BY <1>3, <1>4 DEF Has
      <3>4. Once(q, x)
        BY <1>4, <3>1, <3>2, <3>3 DEF Once
      <3>5. Has(q, x) => Has(r, x) \/ x = b
        BY <3>1, <3>2 DEF Has
      <3>6. QED BY <1>3, <1>4, <3>4, <3>5 DEF A, r
    <2>2. \A x \in area[p] \ A : Has(th[t], x)
      BY DEF A
    <2>3. QED BY <1>1, <1>2, <1>5, <1>8, <2>1, <2>2, AreaStep
  <1>13. RecordsOK'
    <2>1. \A x \in st'.buffers : x.at \in area'[x.proc]
      <3> TAKE x \in st'.buffers
      <3>1. x.at \in area[x.proc] /\ x.proc \in Procs
        BY <1>1, <1>2 DEF RecordsOK, Good, BrokerOK, BuffersOK, Buffered
      <3>2. QED BY <1>1, <1>2, <3>1 DEF A
    <2>2. q.at = "placed" => q.buf \notin area[proc[t]]
      BY <1>3, <1>6
    <2>3. st'.buffers \subseteq st.buffers
      BY <1>1
    <2>4. QED BY <1>2, <1>5, <2>1, <2>2, <2>3, RecordStep
  <1>14. SpawnCounted'
    <2>1. Owed(q) <=> Owed(th[t])
      BY <1>6 DEF Owed, r
    <2>2. Registers(q, program[t]) <=> Registers(th[t], program[t])
      BY <1>6 DEF Registers, r
    <2>3. st'.spawn_requested = st.spawn_requested /\ st.dead \subseteq st'.dead /\ exiting \subseteq exiting'
      BY <1>1
    <2>4. QED BY <1>1, <1>2, <1>5, <1>10, <2>1, <2>2, <2>3, CountStep
  <1>15. Good(st', th', 0)
    <2>1. \A u \in Threads : th'[u] = IF u = t THEN q ELSE th[u]
      BY <1>2, <1>5 DEF TypesOK
    <2>2. HandLike(th[t], q)
      BY <1>1, <1>6 DEF HandLike, Oneway, InHands, r
    <2>3. \A u \in Threads : HandLike(th[u], th'[u])
      BY <2>1, <2>2 DEF HandLike
    <2>4. Good(st, th', 0)
      BY <1>2, <2>3, HandsSame
    <2>5. QED BY <1>1, <2>4
  <1>16. QED BY <1>9, <1>11, <1>12, <1>13, <1>14, <1>15 DEF Inv

\* A transaction that cannot be delivered (fail_undelivered) keeps it: its node's next oneway goes.
LEMMA UndeliveredKeeps ==
  ASSUME Inv, NEW t \in Threads, Undelivered(t), UNCHANGED guest
  PROVE  Inv'
  <1> DEFINE txn == th[t].work
             unpinned == Unpinned(st, txn.pinned)
             next == AsyncDone(unpinned, txn.async)
  <1>1. th[t].at = "deliver" /\ txn.kind = "txn" /\ UNCHANGED <<area, exiting>>
    BY DEF Undelivered
  <1>2. TypesOK /\ Good(st, th, 0) /\ ThreadOK(th[t]) /\ th[t] \in ThreadTypes /\ txn \in Work
    BY GoodNow DEF ThreadTypes
  <1>3. /\ txn.async \in 0 .. MaxNode /\ txn.pinned \in Seq(Nodes) /\ txn.reply \in BOOLEAN
        /\ txn.reply => txn.async = 0
    BY <1>1, <1>2, TxnWork
  <1>4. Steady({}, st, unpinned)
    BY <1>3, UnpinnedSteady
  <1>5. Good(unpinned, th, 0) /\ Same(st, unpinned)
    BY <1>2, <1>4, SteadyGood
  <1> HIDE DEF unpinned
  <1>6. CASE txn.reply
    <2> DEFINE q == [th[t] EXCEPT !.at = IF proc[t] \in st.remote THEN "hand" ELSE "read_ends",
                                  !.got = Plain("failed_reply")]
               u == Waited(unpinned, t)
    <2>1. st' = u /\ th' = [th EXCEPT ![t] = q]
      BY <1>6 DEF Undelivered, Hands, unpinned
    <2>2. Steady({}, st, u)
      BY <1>4, WaitedSteady, SteadyOn
    <2>3. Plain("failed_reply") \in Work /\ Plain("failed_reply").kind # "txn"
      BY DEF Plain, Work, Notes
    <2>4. /\ q \in ThreadTypes /\ q.at \in {"hand", "read_ends"} /\ q.cmds = th[t].cmds /\ q.frames = th[t].frames
          /\ q.asked = th[t].asked /\ q.spawn = th[t].spawn /\ q.got = Plain("failed_reply")
      BY <1>2, <2>3 DEF ThreadTypes
    <2> HIDE DEF q, u
    <2>5. ~Oneway(th[t]) /\ ~Oneway(q)
      BY <1>3, <1>6, <2>4 DEF Oneway, InHands
    <2>6. ~Holds(q)
      BY <2>3, <2>4 DEF Holds
    <2>7. ThreadOK(q)
      BY <2>4, <2>6 DEF ThreadOK
    <2>8. Reads(th[t], q)
      BY <1>1, <2>4, <2>6, <2>7 DEF Reads, Alone
    <2>9. QED BY <1>1, <2>1, <2>2, <2>5, <2>8, SteadyRead
  <1>7. CASE ~txn.reply
    <2> DEFINE q == [th[t] EXCEPT !.at = "look"]
               u == IF txn.oneway THEN next ELSE QueueThread(next, txn.from, Plain("failed_reply"))
    <2>1. st' = u /\ th' = [th EXCEPT ![t] = q]
      BY <1>7 DEF Undelivered, Go, unpinned
    <2>2. /\ q \in ThreadTypes /\ q.at = "look" /\ q.cmds = th[t].cmds /\ q.frames = th[t].frames
          /\ q.asked = th[t].asked /\ q.spawn = th[t].spawn
      BY <1>2 DEF ThreadTypes
    <2> HIDE DEF q
    <2>3. Others(t, th, th') /\ th'[t] = q
      BY <1>2, <2>1, OtherHands
    <2>4. InHands(th[t]) /\ ~InHands(th'[t])
      BY <1>1, <2>2, <2>3 DEF InHands
    <2>5. Good(unpinned, th', txn.async)
      BY <1>1, <1>3, <1>5, <2>3, <2>4, HandOff
    <2>6. Good(next, th', 0) /\ Same(unpinned, next)
      BY <2>5, AsyncDoneGood
    <2> HIDE DEF next
    <2>7. Steady({}, next, u)
      BY PlainSync, QueueThreadSteady, SteadySelf
    <2> HIDE DEF u
    <2>8. Good(u, th', 0) /\ Same(next, u)
      BY <2>6, <2>7, SteadyGood
    <2>9. /\ Good(st', th', 0) /\ st'.spawn_requested = st.spawn_requested /\ st'.dead = st.dead
          /\ st'.buffers \subseteq st.buffers
      BY <1>5, <2>1, <2>6, <2>8 DEF Same
    <2>10. ThreadOK(q)
      BY <2>2 DEF ThreadOK, Holds
    <2>11. Reads(th[t], q)
      BY <1>1, <2>2, <2>10 DEF Reads, Alone, Holds
    <2>12. QED BY <1>1, <2>1, <2>9, <2>11, ReadStep
  <1>8. QED BY <1>3, <1>6, <1>7

\* A delivery's record of its buffer (deliver) keeps it.
LEMMA RecordBufferKeeps ==
  ASSUME Inv, NEW t \in Threads, RecordBuffer(t), UNCHANGED guest
  PROVE  Inv'
  <1> DEFINE r == th[t]
             txn == r.work
             p == proc[t]
             b == r.buf
             new == RecordOf(txn, p, b)
             recorded == [st EXCEPT !.buffers = IF txn.pinned = <<>> THEN @ ELSE (@ \ Record(p, b)) \cup {new}]
             u == IF txn.reply THEN Waited(recorded, t)
                  ELSE IF txn.oneway THEN recorded
                  ELSE [recorded EXCEPT !.serving[t] = Append(@, txn.from)]
             q == [r EXCEPT !.at = IF p \in st.remote THEN "hand" ELSE "read_ends", !.got = txn]
  <1>1. /\ r.at = "placed" /\ area' = area /\ exiting' = exiting /\ program' = program /\ started' = started
        /\ st' = u /\ th' = [th EXCEPT ![t] = q]
    BY DEF RecordBuffer, Hands, RecordOf, guest
  <1>2. /\ TypesOK /\ SpawnsOK /\ AreasOK /\ RecordsOK /\ SpawnCounted /\ Good(st, th, 0) /\ BrokerOK(st)
        /\ ThreadOK(r) /\ r \in ThreadTypes /\ p \in Procs /\ txn \in Work
    BY GoodNow DEF Inv, ThreadTypes
  <1>3. txn.kind = "txn" /\ b \in Buffers
    BY <1>1, <1>2 DEF ThreadOK, Holds
  <1>4. /\ txn \in Txns /\ txn.async \in 0 .. MaxNode /\ txn.from \in Threads \cup {NoThread}
        /\ txn.reply \in BOOLEAN /\ txn.reply => txn.async = 0
        /\ ~txn.reply => txn.pinned # <<>>
    BY <1>2, <1>3, TxnWork
  <1>5. SpawnOK(r, program[t], t \in started) /\ \A x \in Buffers : Once(r, x)
    BY <1>2 DEF SpawnsOK, AreasOK
  <1>6. b \in area[p]
    <2>1. Has(r, b)
      BY <1>1 DEF Has, HoldsAt, Holds
    <2>2. QED BY <1>2, <1>3, <2>1 DEF AreasOK
  <1>7. Record(p, b) = {}
    BY <1>1, <1>2 DEF RecordsOK, Record
  <1>8. /\ q \in ThreadTypes /\ q.at \in {"hand", "read_ends"} /\ q.cmds = r.cmds /\ q.frames = r.frames
        /\ q.asked = r.asked /\ q.spawn = r.spawn /\ q.got = txn /\ q.buf = b
    BY <1>2 DEF ThreadTypes
  <1> HIDE DEF q
  <1>9. ThreadOK(q)
    BY <1>3, <1>8 DEF ThreadOK
  <1>10. Shaped(r, q, program[t], t \in started)
    <2>1. SpawnOK(q, program[t], t \in started)
      BY <1>1, <1>5, <1>8 DEF SpawnOK
    <2>2. Alone(r, q)
      BY <1>1, <1>8 DEF Alone, Holds
    <2>3. \A x \in Buffers : Once(q, x) /\ (Has(q, x) => Has(r, x))
      BY <1>5, <2>2, AlonePlaces
    <2>4. QED BY <1>8, <1>9, <2>1, <2>3 DEF Shaped
  <1>11. Others(t, th, th') /\ th'[t] = q
    BY <1>1, <1>2, OtherHands
  <1>12. InHands(th[t]) /\ ~InHands(th'[t])
    BY <1>1, <1>8, <1>11 DEF InHands
  <1>13. /\ Good(recorded, th', 0) /\ recorded.spawn_requested = st.spawn_requested /\ recorded.dead = st.dead
         /\ recorded.buffers = st.buffers \/ recorded.buffers = st.buffers \cup {new}
    <2>1. CASE txn.pinned = <<>>
      <3>1. txn.async = 0
        BY <1>4, <2>1
      <3>2. Good(st, th', txn.async)
        BY <1>2, <1>3, <1>4, <1>11, <1>12, HandOff
      <3>3. BrokerOK(st) => Alike(st, recorded)
        BY <2>1 DEF Alike, BrokerOK, BrokerFields
      <3> HIDE DEF recorded
      <3>4. Good(recorded, th', 0) /\ Same(st, recorded)
        BY <3>1, <3>2, <3>3, AlikeSteady, SteadyGood
      <3>5. QED BY <3>4 DEF Same
    <2>2. CASE txn.pinned # <<>>
      <3>1. st.buffers \ Record(p, b) = st.buffers
        BY <1>7
      <3>2. recorded = [st EXCEPT !.buffers = @ \cup {new}]
        BY <2>2, <3>1
      <3> HIDE DEF recorded, new
      <3>3. recorded = [st EXCEPT !.buffers = @ \cup {RecordOf(th[t].work, proc[t], b)}]
        BY <3>2 DEF new
      <3> HIDE DEF r, p
      <3>4. /\ Good(recorded, th', 0) /\ recorded.buffers = st.buffers \cup {RecordOf(th[t].work, proc[t], b)}
            /\ recorded.spawn_requested = st.spawn_requested /\ recorded.dead = st.dead
        <4>1. Good(st, th, 0) /\ b \in Buffers /\ th[t].work \in Txns
          BY <1>2, <1>3, <1>4 DEF r
        <4> HIDE DEF b
        <4>2. QED BY <1>11, <1>12, <3>3, <4>1, RecordedGood
      <3>5. new = RecordOf(th[t].work, proc[t], b)
        BY DEF new, r, p
      <3>6. QED BY <3>4, <3>5
    <2>3. QED BY <2>1, <2>2
  <1> HIDE DEF recorded
  <1>14. Steady({}, recorded, u)
    <2> DEFINE serving == Append(recorded.serving[t], txn.from)
    <2>1. BrokerOK(recorded) => serving \in Seq(Threads \cup {NoThread})
      <3> SUFFICES ASSUME BrokerOK(recorded) PROVE serving \in Seq(Threads \cup {NoThread})
        OBVIOUS
      <3>1. recorded.serving[t] \in Seq(Threads \cup {NoThread})
        BY DEF BrokerOK, QueuesOK
      <3>2. QED BY <1>4, <3>1
    <2>2. [recorded EXCEPT !.serving[t] = Append(@, txn.from)] = [recorded EXCEPT !.serving[t] = serving]
      OBVIOUS
    <2> HIDE DEF serving
    <2>3. Steady({}, recorded, [recorded EXCEPT !.serving[t] = serving])
      BY <2>1, ServingSteady
    <2>4. Steady({}, recorded, Waited(recorded, t)) /\ Steady({}, recorded, recorded)
      BY WaitedSteady, SteadySelf
    <2>5. QED BY <2>2, <2>3, <2>4
  <1> HIDE DEF u, new
  <1>15. Good(u, th', 0) /\ Same(recorded, u)
    BY <1>13, <1>14, SteadyGood
  <1>16. /\ Good(st', th', 0) /\ st'.spawn_requested = st.spawn_requested /\ st'.dead = st.dead
         /\ st'.buffers \subseteq st.buffers \cup {new}
    BY <1>1, <1>13, <1>15 DEF Same
  <1>17. TypesOK' /\ SpawnsOK' /\ AreasOK'
    BY <1>1, <1>10, ShapedAreas DEF r
  <1>18. RecordsOK'
    <2>1. new.proc = p /\ new.at = b
      BY DEF new, RecordOf
    <2>2. \A v \in Threads : th'[v] = IF v = t THEN q ELSE th[v]
      BY <1>1, <1>2 DEF TypesOK
    <2>3. ASSUME NEW x \in st'.buffers
          PROVE  /\ x.at \in area'[x.proc]
                 /\ \A v \in Threads : th'[v].at = "placed" /\ proc[v] = x.proc => th'[v].buf # x.at
      <3>1. CASE x \in st.buffers
        <4>1. /\ x.at \in area[x.proc]
              /\ \A v \in Threads : th[v].at = "placed" /\ proc[v] = x.proc => th[v].buf # x.at
          BY <1>2, <3>1 DEF RecordsOK
        <4>2. QED BY <1>1, <1>8, <2>2, <4>1
      <3>2. CASE x = new
        <4>1. x.at \in area'[x.proc]
          BY <1>1, <1>6, <2>1, <3>2
        <4>2. ASSUME NEW v \in Threads, th'[v].at = "placed", proc[v] = x.proc PROVE th'[v].buf # x.at
          <5>1. v # t /\ th'[v] = th[v]
            BY <1>8, <2>2, <4>2
          <5> SUFFICES ASSUME th[v].buf = b PROVE FALSE
            BY <2>1, <3>2, <5>1
          <5>2. Has(th[v], b) /\ Has(th[t], b)
            BY <1>1, <4>2, <5>1 DEF Has, HoldsAt, Holds
          <5>3. proc[v] = proc[t]
            BY <2>1, <3>2, <4>2
          <5>4. QED BY <1>2, <1>3, <5>1, <5>2, <5>3 DEF AreasOK
        <4>3. QED BY <4>1, <4>2
      <3>3. QED BY <1>16, <3>1, <3>2
    <2>4. ASSUME NEW x \in st'.buffers, NEW y \in st'.buffers, x.proc = y.proc, x.at = y.at PROVE x = y
      <3>1. \A z \in st.buffers : ~(z.proc = p /\ z.at = b)
        BY <1>7 DEF Record
      <3>2. CASE x \in st.buffers /\ y \in st.buffers
        BY <1>2, <2>4, <3>2 DEF RecordsOK
      <3>3. CASE x = new \/ y = new
        BY <1>16, <2>1, <2>4, <3>1, <3>3
      <3>4. QED BY <1>16, <3>2, <3>3
    <2>5. QED BY <2>3, <2>4 DEF RecordsOK
  <1>19. SpawnCounted'
    <2>1. program' = [program EXCEPT ![t] = program[t]]
      BY <1>1, <1>2 DEF TypesOK, GuestOK
    <2>2. Owed(q) <=> Owed(th[t])
      BY <1>8 DEF Owed
    <2>3. Registers(q, program[t]) <=> Registers(th[t], program[t])
      BY <1>8 DEF Registers
    <2>4. st.dead \subseteq st'.dead /\ exiting \subseteq exiting'
      BY <1>1, <1>16
    <2>5. QED BY <1>1, <1>2, <1>16, <2>1, <2>2, <2>3, <2>4, CountStep
  <1>20. QED BY <1>16, <1>17, <1>18, <1>19 DEF Inv

\* A record taken out with its place.
LEMMA FreedStep ==
  ASSUME Inv, NEW t \in Threads, NEW q, th' = [th EXCEPT ![t] = q], NEW b \in Buffers,
         area' = [area EXCEPT ![proc[t]] = @ \ {b}], exiting' = exiting, program' = program, started' = started,
         ThreadOK(q), SpawnOK(q, program[t], t \in started), Owed(q) <=> Owed(th[t]),
         Registers(q, program[t]) <=> Registers(th[t], program[t]),
         \A x \in Buffers : Once(q, x) /\ (Has(q, x) => Has(th[t], x) /\ x # b),
         Has(th[t], b), q.at # "placed", ~Oneway(th[t]), ~Oneway(q),
         NEW u, Steady({}, Freed(st, Record(proc[t], b)), u), st' = u
  PROVE  Inv'
  <1> DEFINE p == proc[t]
             R == Record(p, b)
             freed == Freed(st, R)
             A == area[p] \ {b}
  <1>1. /\ TypesOK /\ SpawnsOK /\ AreasOK /\ RecordsOK /\ SpawnCounted /\ Good(st, th, 0) /\ p \in Procs
        /\ program \in [Threads -> Seq(Ops)] /\ area \in [Procs -> SUBSET Buffers]
    BY GoodNow DEF Inv, TypesOK, GuestOK
  <1>2. R \in SUBSET st.buffers /\ \A x, y \in R : x = y
    BY <1>1 DEF Record, RecordsOK
  <1>3. Good(st, th', 0)
    BY <1>1, SameHands
  <1> HIDE DEF R
  <1>4. /\ Good(freed, th', 0) /\ freed.buffers = st.buffers \ R
        /\ freed.spawn_requested = st.spawn_requested /\ freed.dead = st.dead
    BY <1>2, <1>3, FreedGood
  <1>5. Steady({}, freed, u)
    BY DEF R
  <1> HIDE DEF freed
  <1>6. Good(u, th', 0) /\ Same(freed, u)
    BY <1>4, <1>5, SteadyGood
  <1>7. /\ Good(st', th', 0) /\ st'.buffers = st.buffers \ R
        /\ st'.spawn_requested = st.spawn_requested /\ st'.dead = st.dead
    BY <1>4, <1>6 DEF Same
  <1>8. area' = [area EXCEPT ![proc[t]] = A] /\ A \in SUBSET Buffers /\ area' \in [Procs -> SUBSET Buffers]
    BY <1>1
  <1>9. program' = [program EXCEPT ![t] = program[t]]
    BY <1>1
  <1>10. TypesOK'
    <2>1. GuestOK'
      BY <1>1, <1>8 DEF TypesOK, GuestOK
    <2>2. QED BY <1>1, <2>1, TypesStep
  <1>11. SpawnsOK'
    BY <1>1, <1>9, SpawnStep
  <1>12. AreasOK'
    <2>1. ASSUME NEW x \in Buffers
          PROVE  Once(q, x) /\ (Has(q, x) => x \in A /\ (Has(th[t], x) \/ x \notin area[proc[t]]))
      <3>1. Once(q, x) /\ (Has(q, x) => Has(th[t], x) /\ x # b)
        OBVIOUS
      <3>2. Has(th[t], x) => x \in area[p]
        BY <1>1 DEF AreasOK
      <3>3. QED BY <3>1, <3>2
    <2>2. \A x \in area[proc[t]] \ A : Has(th[t], x)
      OBVIOUS
    <2> HIDE DEF A
    <2>3. QED BY <1>1, <1>8, <2>1, <2>2, AreaStep
  <1>13. RecordsOK'
    <2>1. \A x \in st'.buffers : x.at \in area'[x.proc]
      <3> TAKE x \in st'.buffers
      <3>1. x \in st.buffers /\ ~(x.proc = p /\ x.at = b)
        BY <1>7 DEF R, Record
      <3>2. x.at \in area[x.proc] /\ x.proc \in Procs
        BY <1>1, <3>1 DEF RecordsOK, Good, BrokerOK, BuffersOK, Buffered
      <3>3. QED BY <1>1, <3>1, <3>2
    <2>2. st'.buffers \subseteq st.buffers
      BY <1>7
    <2>3. QED BY <1>1, <2>1, <2>2, RecordStep
  <1>14. SpawnCounted'
    <2>1. st.dead \subseteq st'.dead /\ exiting \subseteq exiting'
      BY <1>7
    <2>2. QED BY <1>1, <1>7, <1>9, <2>1, CountStep
  <1>15. QED BY <1>7, <1>10, <1>11, <1>12, <1>13, <1>14 DEF Inv

\* BC_FREE_BUFFER, record first and memory then, keeps it.
LEMMA FreeBufferKeeps ==
  ASSUME Inv, NEW t \in Threads, FreeBuffer(t), UNCHANGED guest
  PROVE  Inv'
  <1> DEFINE r == th[t]
             b == Arg(t).buf
             q == Writes(r, Tail(r.cmds))
             u == Freed(st, Record(proc[t], b))
  <1>1. /\ r.at = "write" /\ r.cmds # <<>> /\ Head(r.cmds).c = "free" /\ st' = u
        /\ area' = [area EXCEPT ![proc[t]] = @ \ {b}] /\ exiting' = exiting
        /\ program' = program /\ started' = started /\ th' = [th EXCEPT ![t] = q]
    BY DEF FreeBuffer, Command, Wrote, guest
  <1>2. ThreadOK(r) /\ r.cmds \in Seq(Commands) /\ Head(r.cmds) \in Commands /\ \A x \in Buffers : Once(r, x)
    <2>1. ThreadOK(r) /\ \A x \in Buffers : Once(r, x)
      BY GoodNow DEF Inv, AreasOK
    <2>2. QED BY <1>1, <2>1, WroteTypes
  <1>3. b \in Buffers
    BY <1>1, <1>2, CommandTypes DEF Arg
  <1>4. /\ Shaped(r, q, program[t], t \in started) /\ (Owed(q) <=> Owed(r))
        /\ (Registers(q, program[t]) <=> Registers(r, program[t]))
    BY <1>1, WroteShaped
  <1>5. q.at \in {"guest", "write", "look"} /\ q.cmds = Tail(r.cmds) /\ q.frames = r.frames
    BY <1>1, <1>2, WroteTypes
  <1>6. ThreadOK(q) /\ SpawnOK(q, program[t], t \in started)
        /\ \A x \in Buffers : Once(q, x) /\ (Has(q, x) => Has(r, x))
    BY <1>4 DEF Shaped
  <1>7. Has(r, b) /\ ~Has(q, b)
    <2> DEFINE X == {op \in Commands : op.c = "free" /\ op.buf = b}
    <2>1. Head(r.cmds) \in X
      BY <1>1, <1>2 DEF Arg
    <2> HIDE DEF X
    <2>2. /\ Hits(r.cmds, X) # {}
          /\ Single(Hits(r.cmds, X)) => Hits(q.cmds, X) = {}
      BY <1>1, <1>2, <1>5, <2>1, HitsTail
    <2>3. Frees(r, b) = Hits(r.cmds, X) /\ Frees(q, b) = Hits(q.cmds, X) /\ Serves(q, b) = Serves(r, b)
      BY <1>5 DEF Frees, Serves, X
    <2>4. ~HoldsAt(q, b)
      BY <1>5 DEF HoldsAt, Holds
    <2>5. Once(r, b)
      BY <1>2, <1>3
    <2>6. QED BY <2>2, <2>3, <2>4, <2>5 DEF Has, Once
  <1>8. ~Oneway(r) /\ ~Oneway(q) /\ q.at # "placed"
    BY <1>1, <1>5 DEF Oneway, InHands
  <1>9. Steady({}, Freed(st, Record(proc[t], b)), u)
    BY SteadySelf
  <1> HIDE DEF q, u, b, r
  <1>10. QED BY <1>1, <1>3, <1>4, <1>6, <1>7, <1>8, <1>9, FreedStep DEF r

\* A delivery taken back as its process ends (undeliver) keeps it.
LEMMA TakeBackKeeps ==
  ASSUME Inv, NEW t \in Threads, TakeBack(t), UNCHANGED guest
  PROVE  Inv'
  <1> DEFINE r == th[t]
             txn == r.got
             b == r.buf
             q == [r EXCEPT !.at = "read_fails"]
  <1>1. /\ r.at = "hand" /\ exiting' = exiting
        /\ program' = program /\ started' = started /\ th' = [th EXCEPT ![t] = q]
    BY DEF TakeBack, Go, guest
  <1>2. ThreadOK(r) /\ r \in ThreadTypes /\ txn \in Work /\ \A x \in Buffers : Once(r, x)
    BY GoodNow DEF Inv, AreasOK, ThreadTypes
  <1>3. /\ q \in ThreadTypes /\ q.at = "read_fails" /\ q.cmds = r.cmds /\ q.frames = r.frames
        /\ q.asked = r.asked /\ q.spawn = r.spawn
    BY <1>2 DEF ThreadTypes
  <1> HIDE DEF q
  <1>4. ThreadOK(q) /\ ~Holds(q)
    BY <1>3 DEF ThreadOK, Holds
  <1>5. Reads(r, q)
    BY <1>1, <1>3, <1>4 DEF Reads, Alone
  <1>6. ~Oneway(r) /\ ~Oneway(q)
    BY <1>1, <1>3 DEF Oneway, InHands
  <1>7. CASE txn.kind # "txn"
    <2>1. st' = st /\ UNCHANGED <<area, exiting>>
      BY <1>7 DEF TakeBack, driver
    <2>2. QED BY <1>1, <1>5, <1>6, <2>1, SteadySelf, SteadyRead
  <1>8. CASE txn.kind = "txn"
    <2> DEFINE freed == Freed(st, Record(proc[t], b))
               popped == IF freed.serving[t] # <<>> /\ Last(freed.serving[t]) = txn.from
                         THEN [freed EXCEPT !.serving[t] = Front(@)] ELSE freed
               u == IF txn.reply \/ txn.oneway THEN freed
                    ELSE QueueThread(popped, txn.from, Plain("failed_reply"))
    <2>1. area' = [area EXCEPT ![proc[t]] = @ \ {b}] /\ st' = u
      BY <1>8 DEF TakeBack
    <2>2. Holds(r) /\ b \in Buffers
      BY <1>1, <1>2, <1>8 DEF Holds, ThreadOK
    <2>3. Steady({}, freed, u)
      <3> HIDE DEF freed
      <3>1. Steady({}, freed, popped)
        <4>1. CASE freed.serving[t] # <<>> /\ Last(freed.serving[t]) = txn.from
          <5> DEFINE serving == Front(freed.serving[t])
          <5>1. ASSUME BrokerOK(freed) PROVE serving \in Seq(Threads \cup {NoThread})
            <6>1. freed.serving[t] \in Seq(Threads \cup {NoThread})
              BY <5>1 DEF BrokerOK, QueuesOK
            <6>2. QED BY <4>1, <6>1, HitsFront
          <5>2. popped = [freed EXCEPT !.serving[t] = serving]
            BY <4>1
          <5> HIDE DEF serving, popped
          <5>3. QED BY <5>1, <5>2, ServingSteady
        <4>2. CASE ~(freed.serving[t] # <<>> /\ Last(freed.serving[t]) = txn.from)
          BY <4>2, SteadySelf
        <4>3. QED BY <4>1, <4>2
      <3> HIDE DEF popped
      <3>2. Steady({}, popped, QueueThread(popped, txn.from, Plain("failed_reply")))
        BY PlainSync, QueueThreadSteady
      <3>3. Steady({}, freed, QueueThread(popped, txn.from, Plain("failed_reply")))
        BY <3>1, <3>2, SteadyOn
      <3>4. QED BY <3>3, SteadySelf
    <2>4. Plainly(th[t], q, program[t], t \in started)
      BY <1>5, ReadsPlainly
    <2>5. /\ SpawnOK(q, program[t], t \in started) /\ (Owed(q) <=> Owed(r))
          /\ (Registers(q, program[t]) <=> Registers(r, program[t]))
          /\ \A x \in Buffers : Once(q, x) /\ (Has(q, x) => Has(r, x))
      BY <2>4 DEF Plainly, Shaped
    <2>6. Has(r, b) /\ ~Has(q, b)
      <3>1. HoldsAt(r, b) /\ ~HoldsAt(q, b)
        BY <1>4, <2>2 DEF HoldsAt
      <3>2. Frees(q, b) = Frees(r, b) /\ Serves(q, b) = Serves(r, b)
        BY <1>3 DEF Frees, Serves
      <3>3. Once(r, b)
        BY <1>2, <2>2
      <3>4. QED BY <3>1, <3>2, <3>3 DEF Has, Once
    <2>7. q.at # "placed"
      BY <1>3
    <2>8. Steady({}, Freed(st, Record(proc[t], b)), u)
      BY <2>3
    <2> HIDE DEF u, b, r
    <2>9. QED BY <1>1, <1>4, <1>6, <2>1, <2>2, <2>5, <2>6, <2>7, <2>8, FreedStep DEF r
  <1>9. QED BY <1>7, <1>8

-----------------------------------------------------------------------------
(* Between calls of the driver.                                            *)

\* A step of a thread in its program, which the driver has no part in.
LEMMA GuestKeeps ==
  ASSUME Inv, NEW t \in Threads, NEW q, th' = [th EXCEPT ![t] = q],
         NEW prog, program' = [program EXCEPT ![t] = prog], prog \in Seq(Ops),
         st' = st, area' = area, exiting' = exiting, started' = started,
         ThreadOK(q), SpawnOK(q, prog, t \in started),
         \A b \in Buffers : Once(q, b) /\ (Has(q, b) => Has(th[t], b)),
         Owed(q) <=> Owed(th[t]), Registers(q, prog) <=> Registers(th[t], program[t]),
         ~InHands(th[t]), ~InHands(q)
  PROVE  Inv'
  <1>1. /\ TypesOK /\ SpawnsOK /\ AreasOK /\ RecordsOK /\ SpawnCounted /\ Good(st, th, 0) /\ proc[t] \in Procs
        /\ program \in [Threads -> Seq(Ops)] /\ area \in [Procs -> SUBSET Buffers]
    BY GoodNow DEF Inv, TypesOK, GuestOK
  <1>2. TypesOK'
    <2>1. GuestOK'
      BY <1>1 DEF TypesOK, GuestOK
    <2>2. QED BY <1>1, <2>1, TypesStep
  <1>3. SpawnsOK'
    BY <1>1, SpawnStep
  <1>4. AreasOK'
    <2>1. area' = [area EXCEPT ![proc[t]] = area[proc[t]]] /\ area[proc[t]] \in SUBSET Buffers
      BY <1>1
    <2>2. \A b \in Buffers : Has(th[t], b) => b \in area[proc[t]]
      BY <1>1 DEF AreasOK
    <2>3. \A b \in Buffers : Once(q, b) /\ (Has(q, b) => b \in area[proc[t]] /\ (Has(th[t], b) \/ b \notin area[proc[t]]))
      BY <2>2
    <2>4. QED BY <1>1, <2>1, <2>3, AreaStep
  <1>5. RecordsOK'
    <2>1. st'.buffers \subseteq st.buffers /\ \A r \in st'.buffers : r.at \in area'[r.proc]
      BY <1>1 DEF RecordsOK
    <2>2. q.at # "placed"
      BY DEF InHands
    <2>3. QED BY <1>1, <2>1, <2>2, RecordStep
  <1>6. SpawnCounted'
    <2>1. st'.spawn_requested = st.spawn_requested /\ st.dead \subseteq st'.dead /\ exiting \subseteq exiting'
      OBVIOUS
    <2>2. QED BY <1>1, <2>1, CountStep
  <1>7. Good(st', th', 0)
    <2>1. ~Oneway(th[t]) /\ ~Oneway(q)
      BY DEF Oneway
    <2>2. Good(st, th', 0)
      BY <1>1, <2>1, SameHands
    <2>3. QED BY <2>2
  <1>8. QED BY <1>2, <1>3, <1>4, <1>5, <1>6, <1>7 DEF Inv

\* A call of the driver, of a thread's record as it was but for its frames.
LEMMA CallsTypes ==
  ASSUME NEW r \in ThreadTypes, r.at = "guest", NEW more \in Seq(Commands), NEW reads \in BOOLEAN,
         NEW q, q = Calls(r, more, reads)
  PROVE  /\ ThreadOK(q) /\ q.at \in {"guest", "write", "look"}
         /\ q.cmds = r.cmds \o more /\ q.frames = r.frames /\ q.asked = r.asked /\ q.spawn = r.spawn
         /\ r.cmds \in Seq(Commands) /\ r.frames \in Seq(Frames)
  <1> DEFINE cmds == r.cmds \o more
             read == [r EXCEPT !.reads = reads]
             at == IF cmds # <<>> THEN "write" ELSE IF read.reads THEN "look" ELSE "guest"
  <1>1. r.cmds \in Seq(Commands) /\ r.frames \in Seq(Frames)
    BY DEF ThreadTypes
  <1>2. cmds \in Seq(Commands) /\ at \in {"guest", "write", "look"}
    BY <1>1
  <1>3. q = [read EXCEPT !.cmds = cmds, !.at = at]
    BY DEF Calls, Writes
  <1>4. read \in ThreadTypes /\ read.frames = r.frames /\ read.asked = r.asked /\ read.spawn = r.spawn
    BY DEF ThreadTypes
  <1> HIDE DEF cmds, at, read
  <1>5. /\ q \in ThreadTypes /\ q.at = at /\ q.cmds = cmds /\ q.frames = read.frames
        /\ q.asked = read.asked /\ q.spawn = read.spawn
    BY <1>2, <1>3, <1>4 DEF ThreadTypes
  <1>6. ThreadOK(q)
    BY <1>2, <1>5 DEF ThreadOK, Holds
  <1>7. QED BY <1>1, <1>2, <1>4, <1>5, <1>6 DEF cmds

\* What is written after what was put off frees nothing.
FreesNothing(seq) == \A i \in DOMAIN seq : seq[i].c # "free"

\* Commands that free nothing, added.
LEMMA CallsFree ==
  ASSUME NEW r, NEW q, r.cmds \in Seq(Commands), NEW more \in Seq(Commands), FreesNothing(more), q.cmds = r.cmds \o more,
         NEW b
  PROVE  (Frees(q, b) = {} <=> Frees(r, b) = {}) /\ (Single(Frees(r, b)) => Single(Frees(q, b)))
  <1> DEFINE X == {op \in Commands : op.c = "free" /\ op.buf = b}
  <1>1. Hits(more, X) = {}
    BY DEF Hits, FreesNothing
  <1>2. Frees(q, b) = Hits(r.cmds \o more, X) /\ Frees(r, b) = Hits(r.cmds, X)
    BY DEF Frees
  <1> HIDE DEF X
  <1>3. QED BY <1>1, <1>2, HitsConcat

\* Commands that register nobody, added.
LEMMA CallsRegister ==
  ASSUME NEW r, NEW q, r.cmds \in Seq(Commands), NEW more \in Seq(Commands), q.cmds = r.cmds \o more,
         RegisterIn(more) = {}
  PROVE  (RegisterIn(q.cmds) = {} <=> RegisterIn(r.cmds) = {})
         /\ (Single(RegisterIn(r.cmds)) => Single(RegisterIn(q.cmds)))
  <1> DEFINE S == {op \in Commands : op.c = "register"}
  <1>1. /\ RegisterIn(more) = Hits(more, S) /\ RegisterIn(r.cmds) = Hits(r.cmds, S)
        /\ RegisterIn(q.cmds) = Hits(r.cmds \o more, S)
    BY DEF RegisterIn
  <1> HIDE DEF S
  <1>2. /\ Hits(r.cmds \o more, S) = {} <=> Hits(r.cmds, S) = {} /\ Hits(more, S) = {}
        /\ Single(Hits(r.cmds, S)) /\ Hits(more, S) = {} => Single(Hits(r.cmds \o more, S))
    BY HitsConcat
  <1>3. QED BY ONLY <1>1, <1>2, RegisterIn(more) = {}

\* A thread in its program is of those started.
LEMMA InGuestIs ==
  ASSUME Inv, NEW t \in Threads, InGuest(t)
  PROVE  /\ th[t].at = "guest" /\ t \in started /\ ~th[t].asked /\ ~th[t].spawn
         /\ th[t] \in ThreadTypes /\ th[t].cmds \in Seq(Commands) /\ th[t].frames \in Seq(Frames)
         /\ program[t] \in Seq(Ops) /\ SpawnOK(th[t], program[t], TRUE)
         /\ \A b \in Buffers : Once(th[t], b)
  <1>1. th[t].at = "guest" /\ t \in started
    BY DEF InGuest
  <1>2. /\ SpawnOK(th[t], program[t], t \in started) /\ program[t] \in Seq(Ops)
        /\ \A b \in Buffers : Once(th[t], b)
    BY DEF Inv, SpawnsOK, TypesOK, GuestOK, AreasOK
  <1>3. th[t] \in ThreadTypes /\ th[t].cmds \in Seq(Commands) /\ th[t].frames \in Seq(Frames)
    BY GoodNow DEF ThreadTypes
  <1>4. SpawnOK(th[t], program[t], TRUE) /\ ~th[t].asked /\ ~th[t].spawn
    BY <1>1, <1>2 DEF SpawnOK
  <1>5. QED BY <1>1, <1>2, <1>3, <1>4

\* A loop of reads that goes on keeps it.
LEMMA ContinueKeeps ==
  ASSUME Inv, NEW t \in Threads, Continue(t)
  PROVE  Inv'
  <1> DEFINE r == th[t]
             reads == r.frames # <<>> \/ r.pool
             more == <<>>
             q == Calls(r, more, reads)
  <1>1. /\ InGuest(t) /\ th' = [th EXCEPT ![t] = q] /\ st' = st /\ area' = area /\ exiting' = exiting
        /\ program' = program /\ started' = started
    BY DEF Continue, driver, guest
  <1>2. /\ r.at = "guest" /\ t \in started /\ ~r.asked /\ ~r.spawn
        /\ r \in ThreadTypes /\ r.cmds \in Seq(Commands)
        /\ program[t] \in Seq(Ops) /\ SpawnOK(r, program[t], TRUE) /\ \A b \in Buffers : Once(r, b)
    BY <1>1, InGuestIs
  <1>3. reads \in BOOLEAN /\ more \in Seq(Commands)
    BY <1>2 DEF ThreadTypes
  <1>e. more = <<>>
    OBVIOUS
  <1> HIDE DEF reads, more
  <1>q. q = Calls(r, more, reads)
    OBVIOUS
  <1> HIDE DEF q, r
  <1>4. /\ ThreadOK(q) /\ q.at \in {"guest", "write", "look"}
        /\ q.cmds = r.cmds \o more /\ q.frames = r.frames /\ q.asked = r.asked /\ q.spawn = r.spawn
    BY <1>q, <1>2, <1>3, CallsTypes
  <1>5. q.cmds = r.cmds
    BY <1>e, <1>2, <1>3, <1>4
  <1>6. SpawnOK(q, program[t], t \in started)
    BY <1>2, <1>4, <1>5 DEF SpawnOK
  <1>7. Alone(r, q)
    BY <1>4, <1>5 DEF Alone, Holds
  <1>8. \A b \in Buffers : Once(q, b) /\ (Has(q, b) => Has(r, b))
    BY <1>2, <1>7, AlonePlaces
  <1>9. (Owed(q) <=> Owed(r)) /\ (Registers(q, program[t]) <=> Registers(r, program[t]))
    BY <1>4, <1>5 DEF Owed, Registers
  <1>10. ~InHands(r) /\ ~InHands(q)
    BY <1>2, <1>4 DEF InHands
  <1>11. program' = [program EXCEPT ![t] = program[t]]
    BY <1>1 DEF Inv, TypesOK, GuestOK
  <1>12. QED BY <1>1, <1>2, <1>4, <1>6, <1>8, <1>9, <1>10, <1>11, GuestKeeps DEF r

-----------------------------------------------------------------------------
(* A call served.                                                          *)

\* The call a thread serves.
LEMMA TopIs ==
  ASSUME Inv, NEW t \in Threads, InGuest(t), Top(t).kind = "serve"
  PROVE  /\ th[t].frames # <<>> /\ Top(t) = Last(th[t].frames) /\ Top(t) \in Frames
         /\ Top(t).buf \in Buffers /\ Top(t).returns \in Carriable
         /\ Top(t).handle \in Handles \cup {0}
         /\ Top(t).phase = "back" => Top(t).handle \in Handles
  <1>1. th[t].frames # <<>> /\ Top(t) = Last(th[t].frames)
    BY DEF Top
  <1>2. th[t].frames \in Seq(Frames)
    BY InGuestIs
  <1>3. Top(t) \in Frames
    BY <1>1, <1>2, HitsFront
  <1> DEFINE f == Top(t)
  <1> HIDE DEF f
  <1>4. f \in Frames /\ f.kind = "serve"
    BY <1>3 DEF f
  <1>5. /\ f.buf \in Buffers /\ f.returns \in Carriable /\ f.handle \in Handles \cup {0}
        /\ f.phase = "back" => f.handle \in Handles
    BY <1>4 DEF Frames, Serving
  <1>6. QED BY <1>1, <1>3, <1>5 DEF f

\* A frame changed and one put over it.
LEMMA FramesServe ==
  ASSUME NEW f \in Seq(Frames), f # <<>>, NEW g \in Frames, NEW rest \in Frames,
         NEW S, rest \notin S, g \in S <=> Last(f) \in S
  PROVE  /\ Front(f) \o <<g, rest>> \in Seq(Frames)
         /\ Hits(f, S) = {} => Hits(Front(f) \o <<g, rest>>, S) = {}
         /\ Single(Hits(f, S)) => Single(Hits(Front(f) \o <<g, rest>>, S))
  <1> DEFINE two == <<g, rest>>
  <1>1. two \in Seq(Frames) /\ DOMAIN two = {1, 2} /\ two[1] = g /\ two[2] = rest
    OBVIOUS
  <1> HIDE DEF two
  <1>3. Single(Hits(two, S)) /\ (g \notin S => Hits(two, S) = {})
    BY <1>1 DEF Hits, Single
  <1>4. /\ Front(f) \in Seq(Frames)
        /\ Single(Hits(f, S)) => Single(Hits(Front(f), S)) /\ (Last(f) \in S => Hits(Front(f), S) = {})
        /\ Last(f) \in S => Hits(f, S) # {}
        /\ Hits(f, S) = {} => Hits(Front(f), S) = {}
    BY HitsFront
  <1>5. /\ Front(f) \o two \in Seq(Frames)
        /\ Hits(Front(f) \o two, S) = {} <=> Hits(Front(f), S) = {} /\ Hits(two, S) = {}
        /\ Single(Hits(Front(f), S)) /\ Hits(two, S) = {} => Single(Hits(Front(f) \o two, S))
        /\ Hits(Front(f), S) = {} /\ Single(Hits(two, S)) => Single(Hits(Front(f) \o two, S))
    BY <1>1, <1>4, HitsConcat
  <1>6. QED BY <1>3, <1>4, <1>5 DEF two

\* A call of the driver: the thread's frames go on, and commands are written that free nothing.
GoesOn(r, back) ==
  /\ back \in ThreadTypes /\ back.at = "guest" /\ back.cmds = r.cmds /\ back.asked = r.asked
  /\ back.spawn = r.spawn
  /\ \A b \in Buffers : /\ (Serves(r, b) = {} => Serves(back, b) = {})
                         /\ (Single(Serves(r, b)) => Single(Serves(back, b)))
Fits(before, prog, more) ==
  /\ FreesNothing(more) /\ Single(RegisterIn(more)) /\ RegisterIn(prog) \subseteq RegisterIn(before)
  /\ (RegisterIn(before) # {} <=> RegisterIn(prog) # {} \/ RegisterIn(more) # {})
  /\ (RegisterIn(prog) # {} => RegisterIn(more) = {})

\* What a step of its program makes of a thread's record and program.
Plays(r, before, q, prog) ==
  /\ ThreadOK(q) /\ SpawnOK(q, prog, TRUE) /\ prog \in Seq(Ops)
  /\ \A b \in Buffers : Once(q, b) /\ (Has(q, b) => Has(r, b))
  /\ (Owed(q) <=> Owed(r)) /\ (Registers(q, prog) <=> Registers(r, before))
  /\ ~InHands(q)

\* What a thread is as its call of the driver begins.
LEMMA CallIs ==
  ASSUME NEW r, NEW back, GoesOn(r, back), NEW more \in Seq(Commands), NEW on \in BOOLEAN,
         NEW q, q = Calls(back, more, on)
  PROVE  /\ ThreadOK(q) /\ q.at \in {"guest", "write", "look"}
         /\ q.cmds = r.cmds \o more /\ q.frames = back.frames /\ q.asked = r.asked /\ q.spawn = r.spawn
         /\ r.cmds \in Seq(Commands)
  <1>1. back \in ThreadTypes /\ back.at = "guest"
    BY DEF GoesOn
  <1>2. /\ ThreadOK(q) /\ q.at \in {"guest", "write", "look"}
        /\ q.cmds = back.cmds \o more /\ q.frames = back.frames /\ q.asked = back.asked /\ q.spawn = back.spawn
        /\ back.cmds \in Seq(Commands)
    BY <1>1, CallsTypes
  <1>3. back.cmds = r.cmds /\ back.asked = r.asked /\ back.spawn = r.spawn
    BY DEF GoesOn
  <1>4. QED BY <1>2, <1>3

\* A thread that a step of its program finds.
MayPlay(r, before) ==
  /\ before \in Seq(Ops) /\ SpawnOK(r, before, TRUE) /\ (\A b \in Buffers : Once(r, b))
  /\ r \in ThreadTypes /\ r.at = "guest" /\ ~r.asked /\ ~r.spawn

\* Such a call is a move of the thread alone.
LEMMA CallMoves ==
  ASSUME NEW r, NEW before, MayPlay(r, before), NEW back, GoesOn(r, back), NEW more \in Seq(Commands),
         NEW prog \in Seq(Ops), Fits(before, prog, more),
         NEW on \in BOOLEAN, NEW q, q = Calls(back, more, on)
  PROVE  Plays(r, before, q, prog)
  <1> DEFINE S == {op \in Commands : op.c = "register"}
  <1>1. /\ before \in Seq(Ops) /\ SpawnOK(r, before, TRUE) /\ \A b \in Buffers : Once(r, b)
        /\ r.at = "guest" /\ ~r.asked /\ ~r.spawn
    BY DEF MayPlay
  <1>c. r.cmds \in Seq(Commands)
    BY CallIs
  <1>2. /\ ThreadOK(q) /\ q.at \in {"guest", "write", "look"}
        /\ q.cmds = r.cmds \o more /\ q.frames = back.frames /\ q.asked = r.asked /\ q.spawn = r.spawn
    BY CallIs
  <1>f. /\ FreesNothing(more) /\ Single(RegisterIn(more)) /\ RegisterIn(prog) \subseteq RegisterIn(before)
        /\ RegisterIn(before) # {} <=> RegisterIn(prog) # {} \/ RegisterIn(more) # {}
        /\ RegisterIn(prog) # {} => RegisterIn(more) = {}
    BY DEF Fits
  <1>3. q.cmds = r.cmds \o more /\ q.cmds \in Seq(Commands)
    BY <1>c, <1>2
  <1>4. /\ RegisterIn(q.cmds) = {} <=> RegisterIn(r.cmds) = {} /\ RegisterIn(more) = {}
        /\ Single(RegisterIn(r.cmds)) /\ RegisterIn(more) = {} => Single(RegisterIn(q.cmds))
        /\ RegisterIn(r.cmds) = {} => Single(RegisterIn(q.cmds))
    <2>1. /\ RegisterIn(more) = Hits(more, S) /\ RegisterIn(r.cmds) = Hits(r.cmds, S)
          /\ RegisterIn(q.cmds) = Hits(r.cmds \o more, S)
      BY <1>3 DEF RegisterIn
    <2> HIDE DEF S
    <2>2. Single(Hits(more, S))
      BY <1>f, <2>1
    <2>3. QED BY <1>c, <2>1, <2>2, HitsConcat
  <1>5. /\ RegisterIn(before) \subseteq {1} /\ Single(RegisterIn(r.cmds))
        /\ RegisterIn(before) # {} => RegisterIn(r.cmds) = {}
    BY <1>1 DEF SpawnOK
  <1>6. SpawnOK(q, prog, TRUE)
    BY <1>1, <1>2, <1>4, <1>5, <1>f DEF SpawnOK
  <1>7. ASSUME NEW b \in Buffers PROVE Once(q, b) /\ (Has(q, b) => Has(r, b))
    <2>1. (Frees(q, b) = {} <=> Frees(r, b) = {}) /\ (Single(Frees(r, b)) => Single(Frees(q, b)))
      BY <1>c, <1>3, <1>f, CallsFree
    <2>2. (Serves(r, b) = {} => Serves(q, b) = {}) /\ (Single(Serves(r, b)) => Single(Serves(q, b)))
      BY <1>2 DEF Serves, GoesOn
    <2>3. ~HoldsAt(q, b) /\ Once(r, b)
      BY <1>1, <1>2 DEF HoldsAt, Holds
    <2>4. QED BY <2>1, <2>2, <2>3 DEF Once, Has
  <1>8. Owed(q) <=> Owed(r)
    BY <1>2 DEF Owed
  <1>9. Registers(q, prog) <=> Registers(r, before)
    <2>1. RegisterIn(prog) \subseteq {1}
      BY <1>5, <1>f
    <2>2. Registers(q, prog) <=> RegisterIn(prog) # {} \/ RegisterIn(q.cmds) # {}
      BY <1>3, <2>1, RegistersIs
    <2>3. Registers(r, before) <=> RegisterIn(before) # {} \/ RegisterIn(r.cmds) # {}
      BY <1>1, <1>c, <1>5, RegistersIs
    <2>4. QED BY <1>4, <1>f, <2>2, <2>3
  <1>10. ~InHands(q)
    BY <1>2 DEF InHands
  <1>11. QED BY <1>2, <1>6, <1>7, <1>8, <1>9, <1>10 DEF Plays

\* A move of a thread outside the driver keeps the invariant.
LEMMA PlayKeeps ==
  ASSUME Inv, NEW t \in Threads, InGuest(t), NEW q, NEW prog, Plays(th[t], program[t], q, prog),
         th' = [th EXCEPT ![t] = q], program' = [program EXCEPT ![t] = prog],
         st' = st, area' = area, exiting' = exiting, started' = started
  PROVE  Inv'
  <1>1. t \in started /\ ~InHands(th[t])
    BY DEF InGuest, InHands
  <1>2. /\ ThreadOK(q) /\ SpawnOK(q, prog, TRUE) /\ prog \in Seq(Ops) /\ ~InHands(q)
        /\ (Owed(q) <=> Owed(th[t])) /\ (Registers(q, prog) <=> Registers(th[t], program[t]))
        /\ \A b \in Buffers : Once(q, b) /\ (Has(q, b) => Has(th[t], b))
    BY DEF Plays
  <1>3. SpawnOK(q, prog, t \in started)
    BY <1>1, <1>2
  <1>4. QED BY <1>1, <1>2, <1>3, GuestKeeps

\* A thread in its program may move.
LEMMA PlaysNow ==
  ASSUME Inv, NEW t \in Threads, InGuest(t)
  PROVE  MayPlay(th[t], program[t])
  BY InGuestIs DEF MayPlay

\* One step of serving a call: its frame goes on, and another is put on it.
LEMMA ServeMoves ==
  ASSUME NEW r, NEW before, MayPlay(r, before), r.frames # <<>>, NEW top, top = Last(r.frames),
         top.kind = "serve", NEW g \in Frames, g.kind = "serve", g.buf = top.buf, top.buf \in Buffers,
         NEW rest \in Frames, rest.kind # "serve",
         NEW more \in Seq(Commands), FreesNothing(more), RegisterIn(more) = {},
         NEW back, back = [r EXCEPT !.frames = Front(r.frames) \o <<g, rest>>],
         NEW on \in BOOLEAN, NEW q, q = Calls(back, more, on)
  PROVE  Plays(r, before, q, before)
  <1> DEFINE frames == Front(r.frames) \o <<g, rest>>
  <1>1. r.at = "guest" /\ r \in ThreadTypes /\ r.frames \in Seq(Frames) /\ before \in Seq(Ops)
    BY DEF MayPlay, ThreadTypes
  <1>2. Last(r.frames).kind = "serve" /\ g.buf = Last(r.frames).buf /\ Last(r.frames) \in Frames
    BY <1>1, HitsFront
  <1>3. ASSUME NEW b \in Buffers
        PROVE  LET S == {frame \in Frames : frame.kind = "serve" /\ frame.buf = b} IN
               /\ frames \in Seq(Frames)
               /\ (Hits(r.frames, S) = {} => Hits(frames, S) = {})
               /\ (Single(Hits(r.frames, S)) => Single(Hits(frames, S)))
    <2> DEFINE S == {frame \in Frames : frame.kind = "serve" /\ frame.buf = b}
    <2>1. rest \notin S /\ (g \in S <=> Last(r.frames) \in S)
      BY <1>2
    <2> HIDE DEF S
    <2>2. /\ frames \in Seq(Frames)
          /\ (Hits(r.frames, S) = {} => Hits(frames, S) = {})
          /\ (Single(Hits(r.frames, S)) => Single(Hits(frames, S)))
      BY <1>1, <1>2, <2>1, FramesServe
    <2>3. QED BY <2>2 DEF S
  <1>4. frames \in Seq(Frames)
    BY <1>3
  <1>5. back = [r EXCEPT !.frames = frames]
    OBVIOUS
  <1> HIDE DEF frames
  <1>6. /\ back \in ThreadTypes /\ back.at = "guest" /\ back.frames = frames /\ back.cmds = r.cmds
        /\ back.asked = r.asked /\ back.spawn = r.spawn
    BY <1>1, <1>4, <1>5 DEF ThreadTypes
  <1>7. \A b \in Buffers : /\ (Serves(r, b) = {} => Serves(back, b) = {})
                           /\ (Single(Serves(r, b)) => Single(Serves(back, b)))
    BY <1>3, <1>6 DEF Serves
  <1>g. GoesOn(r, back)
    BY <1>6, <1>7 DEF GoesOn
  <1>s. RegisterIn(before) # {} => RegisterIn(more) = {}
    OBVIOUS
  <1>8. Fits(before, before, more)
    BY DEF Fits, Single
  <1>10. QED BY <1>1, <1>g, <1>8, CallMoves

\* Of a thread in its program.
LEMMA ServeKeeps ==
  ASSUME Inv, NEW t \in Threads, InGuest(t), NEW q, Plays(th[t], program[t], q, program[t]),
         th' = [th EXCEPT ![t] = q], UNCHANGED <<driver, exiting, guest>>
  PROVE  Inv'
  <1>1. /\ program' = [program EXCEPT ![t] = program[t]]
        /\ st' = st /\ area' = area /\ exiting' = exiting /\ started' = started
    BY DEF Inv, TypesOK, GuestOK, driver, guest
  <1>2. QED BY <1>1, PlayKeeps

\* A call back into the caller keeps it.
LEMMA CallBackKeeps ==
  ASSUME Inv, NEW t \in Threads, CallBack(t)
  PROVE  Inv'
  <1> DEFINE top == Top(t)
             g == [top EXCEPT !.phase = "reply"]
             rest == Frame("await")
             op == Call(top.handle, FALSE, "plain", Nothing)
             more == <<op>>
             on == TRUE
             back == [th[t] EXCEPT !.frames = Front(th[t].frames) \o <<g, rest>>]
             q == Calls(back, more, on)
  <1>1. /\ InGuest(t) /\ top.kind = "serve" /\ top.phase = "back" /\ UNCHANGED <<driver, exiting, guest>>
    BY DEF CallBack
  <1>2. th[t] \in ThreadTypes /\ top \in Frames /\ top.handle \in Handles
    BY <1>1, InGuestIs, TopIs
  <1>l. th[t].frames # <<>> /\ top = Last(th[t].frames)
    BY <1>1, TopIs
  <1>3. th' = [th EXCEPT ![t] = q]
    <2>1. back = On(th[t], "reply", "await")
      BY <1>l DEF On
    <2>2. th' = [th EXCEPT ![t] = Calls(On(th[t], "reply", "await"), more, on)]
      BY DEF CallBack
    <2>3. QED BY <2>1, <2>2
  <1> HIDE DEF top, q
  <1>4. top \in Serving({"back"}, Handles)
    BY <1>1, <1>2 DEF Frames, Serving
  <1>5. g \in Frames /\ g.kind = "serve" /\ g.buf = top.buf
    BY <1>4 DEF Frames, Serving
  <1>6. rest \in Frames /\ rest.kind # "serve"
    BY DEF Frames, Frame
  <1>7. op \in Commands /\ op.c = "transaction"
    BY <1>2 DEF Commands, Ops, Call, Codes, Carriable, Nothing
  <1>8. g.buf = Top(t).buf /\ Top(t).kind = "serve"
    BY <1>1, <1>5 DEF top
  <1> HIDE DEF g, rest, op
  <1>9. more \in Seq(Commands) /\ FreesNothing(more) /\ RegisterIn(more) = {}
    BY <1>7 DEF FreesNothing, RegisterIn, Hits
  <1>10. q = Calls(back, more, on) /\ on \in BOOLEAN
    BY DEF q
  <1>r. th[t].frames # <<>> /\ top = Last(th[t].frames) /\ top.kind = "serve" /\ top.buf \in Buffers
    BY <1>1, TopIs DEF top
  <1>b. back = [th[t] EXCEPT !.frames = Front(th[t].frames) \o <<g, rest>>] /\ MayPlay(th[t], program[t])
    BY <1>1, PlaysNow
  <1> HIDE DEF more, on, back
  <1>11. Plays(th[t], program[t], q, program[t])
    BY <1>r, <1>b, <1>5, <1>6, <1>9, <1>10, ServeMoves
  <1>12. QED BY <1>1, <1>3, <1>11, ServeKeeps

\* A reply sent keeps it.
LEMMA SendReplyKeeps ==
  ASSUME Inv, NEW t \in Threads, SendReply(t)
  PROVE  Inv'
  <1> DEFINE top == Top(t)
             g == [top EXCEPT !.phase = "done"]
             rest == Frame("sent")
             op == [c |-> "reply", carries |-> top.returns]
             more == <<op>>
             on == TRUE
             back == [th[t] EXCEPT !.frames = Front(th[t].frames) \o <<g, rest>>]
             q == Calls(back, more, on)
  <1>1. /\ InGuest(t) /\ top.kind = "serve" /\ top.phase = "reply" /\ UNCHANGED <<driver, exiting, guest>>
    BY DEF SendReply
  <1>2. th[t] \in ThreadTypes /\ top \in Frames /\ top.returns \in Carriable
    BY <1>1, InGuestIs, TopIs
  <1>l. th[t].frames # <<>> /\ top = Last(th[t].frames)
    BY <1>1, TopIs
  <1>3. th' = [th EXCEPT ![t] = q]
    <2>1. back = On(th[t], "done", "sent")
      BY <1>l DEF On
    <2>2. th' = [th EXCEPT ![t] = Calls(On(th[t], "done", "sent"), more, on)]
      BY DEF SendReply
    <2>3. QED BY <2>1, <2>2
  <1> HIDE DEF top, q
  <1>4. top \in Serving({"reply", "done"}, Handles \cup {0})
    BY <1>1, <1>2 DEF Frames, Serving
  <1>5. g \in Frames /\ g.kind = "serve" /\ g.buf = top.buf
    BY <1>4 DEF Frames, Serving
  <1>6. rest \in Frames /\ rest.kind # "serve"
    BY DEF Frames, Frame
  <1>7. op \in Commands /\ op.c = "reply"
    BY <1>2 DEF Commands
  <1>8. g.buf = Top(t).buf /\ Top(t).kind = "serve"
    BY <1>1, <1>5 DEF top
  <1> HIDE DEF g, rest, op
  <1>9. more \in Seq(Commands) /\ FreesNothing(more) /\ RegisterIn(more) = {}
    BY <1>7 DEF FreesNothing, RegisterIn, Hits
  <1>10. q = Calls(back, more, on) /\ on \in BOOLEAN
    BY DEF q
  <1>r. th[t].frames # <<>> /\ top = Last(th[t].frames) /\ top.kind = "serve" /\ top.buf \in Buffers
    BY <1>1, TopIs DEF top
  <1>b. back = [th[t] EXCEPT !.frames = Front(th[t].frames) \o <<g, rest>>] /\ MayPlay(th[t], program[t])
    BY <1>1, PlaysNow
  <1> HIDE DEF more, on, back
  <1>11. Plays(th[t], program[t], q, program[t])
    BY <1>r, <1>b, <1>5, <1>6, <1>9, <1>10, ServeMoves
  <1>12. QED BY <1>1, <1>3, <1>11, ServeKeeps

-----------------------------------------------------------------------------
(* A call served and done with, and the next of a program.                 *)

\* A call served is a move: its frame goes, and its buffer is to be freed.
LEMMA ServedMoves ==
  ASSUME NEW r, NEW before, MayPlay(r, before), r.frames # <<>>, NEW buf \in Buffers,
         Last(r.frames).kind = "serve", Last(r.frames).buf = buf,
         NEW q, q = Later(Popped(r), OnBuffer(buf))
  PROVE  Plays(r, before, q, before)
  <1> DEFINE op == OnBuffer(buf)
             frames == Front(r.frames)
             cmds == Append(r.cmds, op)
             Serve1(b) == {frame \in Frames : frame.kind = "serve" /\ frame.buf = b}
             Free1(b) == {c \in Commands : c.c = "free" /\ c.buf = b}
             Reg == {c \in Commands : c.c = "register"}
  <1>1. /\ r.at = "guest" /\ r \in ThreadTypes /\ r.frames \in Seq(Frames) /\ before \in Seq(Ops)
        /\ r.cmds \in Seq(Commands) /\ SpawnOK(r, before, TRUE) /\ \A b \in Buffers : Once(r, b)
        /\ ~r.asked /\ ~r.spawn
    BY DEF MayPlay, ThreadTypes
  <1>2. op \in Commands /\ op.c = "free" /\ op.buf = buf
    BY DEF Commands, OnBuffer
  <1>3. frames \in Seq(Frames) /\ Last(r.frames) \in Frames
    BY <1>1, HitsFront
  <1>4. cmds \in Seq(Commands)
    BY <1>1, <1>2
  <1>5. op \notin Reg /\ \A b \in Buffers : op \in Free1(b) <=> b = buf
    BY <1>2
  <1>6. \A b \in Buffers : Last(r.frames) \in Serve1(b) <=> b = buf
    BY <1>3
  <1>7. q = [[r EXCEPT !.frames = frames] EXCEPT !.cmds = cmds]
    BY <1>1 DEF Later, Popped, ThreadTypes
  <1>c. r.cmds \in Seq(Commands) /\ op \in Commands
    BY <1>1, <1>2
  <1>f. r.frames \in Seq(Frames) /\ r.frames # <<>>
    BY <1>1
  <1> HIDE DEF frames, cmds, op
  <1>8. /\ q \in ThreadTypes /\ q.at = "guest" /\ q.cmds = cmds /\ q.frames = frames
        /\ q.asked = r.asked /\ q.spawn = r.spawn
    BY <1>1, <1>3, <1>4, <1>7 DEF ThreadTypes
  <1>9. ThreadOK(q)
    BY <1>8 DEF ThreadOK, Holds
  <1>10. /\ RegisterIn(q.cmds) = {} <=> RegisterIn(r.cmds) = {}
         /\ Single(RegisterIn(r.cmds)) => Single(RegisterIn(q.cmds))
    <2>1. RegisterIn(q.cmds) = Hits(cmds, Reg) /\ RegisterIn(r.cmds) = Hits(r.cmds, Reg)
      BY <1>8 DEF RegisterIn
    <2> HIDE DEF Reg
    <2>2. QED BY <1>1, <1>2, <1>5, <2>1, HitsAppend DEF cmds
  <1>11. ASSUME NEW b \in Buffers
         PROVE  /\ (Frees(q, b) = {} <=> Frees(r, b) = {} /\ b # buf)
                /\ (Single(Frees(r, b)) /\ (Frees(r, b) = {} \/ b # buf) => Single(Frees(q, b)))
                /\ (Single(Serves(r, b)) => Single(Serves(q, b)) /\ (b = buf => Serves(q, b) = {}))
                /\ (Serves(r, b) = {} => Serves(q, b) = {})
                /\ (b = buf => Serves(r, b) # {})
    <2> DEFINE F == Free1(b)
               S == Serve1(b)
    <2>1. Frees(q, b) = Hits(cmds, F) /\ Frees(r, b) = Hits(r.cmds, F)
      BY <1>8 DEF Frees
    <2>2. Serves(q, b) = Hits(frames, S) /\ Serves(r, b) = Hits(r.frames, S)
      BY <1>8 DEF Serves
    <2>3. (op \in F <=> b = buf) /\ (Last(r.frames) \in S <=> b = buf)
      BY <1>5, <1>6
    <2> HIDE DEF F, S, Free1, Serve1
    <2>4. /\ Hits(cmds, F) = {} <=> Hits(r.cmds, F) = {} /\ op \notin F
          /\ Single(Hits(r.cmds, F)) /\ (Hits(r.cmds, F) = {} \/ op \notin F) => Single(Hits(cmds, F))
      BY <1>c, HitsAppend DEF cmds
    <2>5. /\ Single(Hits(r.frames, S)) => Single(Hits(frames, S)) /\ (Last(r.frames) \in S => Hits(frames, S) = {})
          /\ Last(r.frames) \in S => Hits(r.frames, S) # {}
          /\ Hits(r.frames, S) = {} => Hits(frames, S) = {}
      BY <1>f, HitsFront DEF frames
    <2>6. QED BY <2>1, <2>2, <2>3, <2>4, <2>5
  <1> HIDE DEF Free1, Serve1, Reg
  <1>12. ASSUME NEW b \in Buffers PROVE Once(q, b) /\ (Has(q, b) => Has(r, b))
    <2>1. ~HoldsAt(q, b)
      BY <1>8 DEF HoldsAt, Holds
    <2>2. Once(r, b)
      BY <1>1
    <2>3. QED BY <1>11, <2>1, <2>2 DEF Once, Has
  <1>13. SpawnOK(q, before, TRUE)
    BY <1>1, <1>8, <1>10 DEF SpawnOK
  <1>14. (Owed(q) <=> Owed(r)) /\ ~InHands(q)
    BY <1>8 DEF Owed, InHands
  <1>15. Registers(q, before) <=> Registers(r, before)
    <2>1. RegisterIn(before) \subseteq {1}
      BY <1>1 DEF SpawnOK
    <2>2. q.cmds \in Seq(Commands)
      BY <1>4, <1>8
    <2>3. QED BY <1>1, <1>10, <2>1, <2>2, RegistersIs
  <1>16. QED BY <1>1, <1>9, <1>12, <1>13, <1>14, <1>15 DEF Plays

\* So it keeps the invariant.
LEMMA ServedKeeps ==
  ASSUME Inv, NEW t \in Threads, Served(t)
  PROVE  Inv'
  <1> DEFINE q == Later(Popped(th[t]), OnBuffer(Top(t).buf))
  <1>1. InGuest(t) /\ Top(t).kind = "serve" /\ th' = [th EXCEPT ![t] = q] /\ UNCHANGED <<driver, exiting, guest>>
    BY DEF Served
  <1> DEFINE buf == Top(t).buf
  <1>2. /\ th[t].frames # <<>> /\ buf \in Buffers /\ Last(th[t].frames).kind = "serve"
        /\ Last(th[t].frames).buf = buf
    BY <1>1, TopIs
  <1>3. MayPlay(th[t], program[t])
    BY <1>1, PlaysNow
  <1>4. q = Later(Popped(th[t]), OnBuffer(buf))
    OBVIOUS
  <1> HIDE DEF q, buf
  <1>5. Plays(th[t], program[t], q, program[t])
    BY <1>2, <1>3, <1>4, ServedMoves
  <1>6. QED BY <1>1, <1>5, ServeKeeps

\* The rest of a program registers no more.
LEMMA RestIs ==
  ASSUME NEW before \in Seq(Ops), before # <<>>, RegisterIn(before) \subseteq {1}
  PROVE  /\ Tail(before) \in Seq(Ops) /\ Head(before) \in Ops /\ RegisterIn(Tail(before)) = {}
         /\ RegisterIn(before) # {} <=> Head(before).c = "register"
  <1> DEFINE S == {c \in Commands : c.c = "register"}
  <1>1. Tail(before) \in Seq(Ops) /\ Head(before) \in Ops /\ Head(before) \in Commands
    BY DEF Commands
  <1>2. Head(before) \in S <=> Head(before).c = "register"
    BY <1>1
  <1>3. RegisterIn(before) = Hits(before, S) /\ RegisterIn(Tail(before)) = Hits(Tail(before), S)
    BY DEF RegisterIn
  <1> HIDE DEF S
  <1>4. /\ Head(before) \in S <=> 1 \in Hits(before, S)
        /\ Single(Hits(before, S)) => Single(Hits(Tail(before), S)) /\ (Head(before) \in S => Hits(Tail(before), S) = {})
        /\ Hits(before, S) = {} => Hits(Tail(before), S) = {}
    BY HitsTail
  <1>5. Single(Hits(before, S)) /\ (Hits(before, S) # {} <=> 1 \in Hits(before, S))
    BY <1>3 DEF Single
  <1>6. QED BY <1>1, <1>2, <1>3, <1>4, <1>5

\* The first step of a program taken off it.
LEMMA BeginFits ==
  ASSUME NEW before \in Seq(Ops), before # <<>>, RegisterIn(before) \subseteq {1}
  PROVE  /\ Tail(before) \in Seq(Ops) /\ <<Head(before)>> \in Seq(Commands)
         /\ Fits(before, Tail(before), <<Head(before)>>)
  <1> DEFINE op == Head(before)
             more == <<op>>
             S == {c \in Commands : c.c = "register"}
  <1>1. /\ Tail(before) \in Seq(Ops) /\ op \in Ops /\ RegisterIn(Tail(before)) = {}
        /\ RegisterIn(before) # {} <=> op.c = "register"
    BY RestIs
  <1>2. op \in Commands /\ op.c # "free"
    BY <1>1 DEF Commands, Ops
  <1>3. op \in S <=> op.c = "register"
    BY <1>2
  <1>4. RegisterIn(more) = Hits(more, S)
    BY DEF RegisterIn
  <1> HIDE DEF op, S
  <1>5. more \in Seq(Commands) /\ Single(RegisterIn(more)) /\ (RegisterIn(more) = {} <=> op \notin S)
    BY <1>2, <1>4, HitsOne
  <1>6. FreesNothing(more)
    BY <1>2 DEF FreesNothing
  <1> HIDE DEF more
  <1>7. Fits(before, Tail(before), more)
    BY <1>1, <1>3, <1>5, <1>6 DEF Fits
  <1>8. QED BY <1>1, <1>5, <1>7 DEF more, op

\* A frame put over a thread's.
LEMMA PushedGoesOn ==
  ASSUME NEW r \in ThreadTypes, r.at = "guest", NEW kind \in {"sent", "await"}, NEW back, back = Pushed(r, Frame(kind))
  PROVE  GoesOn(r, back)
  <1> DEFINE f == Frame(kind)
             frames == Append(r.frames, f)
  <1>1. f \in Frames /\ f.kind # "serve"
    BY DEF Frame, Frames
  <1>2. r.frames \in Seq(Frames) /\ back = [r EXCEPT !.frames = frames]
    BY DEF ThreadTypes, Pushed
  <1> HIDE DEF f
  <1>3. frames \in Seq(Frames)
    BY <1>1, <1>2
  <1>4. ASSUME NEW b \in Buffers
        PROVE  LET S == {frame \in Frames : frame.kind = "serve" /\ frame.buf = b} IN
               /\ (Hits(r.frames, S) = {} => Hits(frames, S) = {})
               /\ (Single(Hits(r.frames, S)) => Single(Hits(frames, S)))
    <2> DEFINE S == {frame \in Frames : frame.kind = "serve" /\ frame.buf = b}
    <2>1. f \notin S
      BY <1>1
    <2> HIDE DEF S
    <2>2. QED BY <1>1, <1>2, <2>1, HitsAppend DEF S
  <1> HIDE DEF frames
  <1>5. /\ back \in ThreadTypes /\ back.at = "guest" /\ back.frames = frames /\ back.cmds = r.cmds
        /\ back.asked = r.asked /\ back.spawn = r.spawn
    BY <1>2, <1>3 DEF ThreadTypes
  <1>6. QED BY <1>4, <1>5 DEF GoesOn, Serves

\* A thread that enters or leaves its pool.
LEMMA InPoolGoesOn ==
  ASSUME NEW r \in ThreadTypes, r.at = "guest", NEW in \in BOOLEAN, NEW back, back = InPool(r, in)
  PROVE  GoesOn(r, back)
  <1>1. /\ back \in ThreadTypes /\ back.at = "guest" /\ back.frames = r.frames /\ back.cmds = r.cmds
        /\ back.asked = r.asked /\ back.spawn = r.spawn
    BY DEF ThreadTypes, InPool
  <1>2. QED BY <1>1 DEF GoesOn, Serves

\* What is done without the driver, of a program that registers no more or has not to.
LEMMA TailPlays ==
  ASSUME NEW r, NEW before, MayPlay(r, before), before # <<>>, Head(before).c # "register"
  PROVE  Plays(r, before, r, Tail(before))
  <1>1. /\ r.at = "guest" /\ r \in ThreadTypes /\ before \in Seq(Ops)
        /\ r.cmds \in Seq(Commands) /\ SpawnOK(r, before, TRUE) /\ \A b \in Buffers : Once(r, b)
    BY DEF MayPlay, ThreadTypes
  <1>2. RegisterIn(before) \subseteq {1}
    BY <1>1 DEF SpawnOK
  <1>3. Tail(before) \in Seq(Ops) /\ RegisterIn(Tail(before)) = {} /\ RegisterIn(before) = {}
    BY <1>1, <1>2, RestIs
  <1>4. SpawnOK(r, Tail(before), TRUE)
    BY <1>1, <1>3 DEF SpawnOK
  <1>5. Registers(r, Tail(before)) <=> Registers(r, before)
    BY <1>1, <1>2, <1>3, RegistersIs
  <1>6. ThreadOK(r) /\ ~InHands(r)
    BY <1>1 DEF ThreadOK, Holds, InHands
  <1>7. QED BY <1>1, <1>3, <1>4, <1>5, <1>6 DEF Plays

\* The next step of a program keeps the invariant.
LEMMA BeginKeeps ==
  ASSUME Inv, NEW t \in Threads, Begin(t)
  PROVE  Inv'
  <1> DEFINE r == th[t]
             before == program[t]
             prog == Tail(before)
             op == Head(before)
             more == <<op>>
  <1>1. /\ InGuest(t) /\ before # <<>> /\ program' = [program EXCEPT ![t] = prog]
        /\ st' = st /\ area' = area /\ exiting' = exiting /\ started' = started
    BY DEF Begin, driver
  <1>2. MayPlay(r, before)
    BY <1>1, PlaysNow
  <1>3. r \in ThreadTypes /\ r.at = "guest" /\ before \in Seq(Ops) /\ RegisterIn(before) \subseteq {1}
    BY <1>2 DEF MayPlay, SpawnOK
  <1>4. prog \in Seq(Ops) /\ more \in Seq(Commands) /\ Fits(before, prog, more)
    BY <1>1, <1>3, BeginFits
  <1>5. r.pool \in BOOLEAN /\ th = [th EXCEPT ![t] = r]
    BY <1>3 DEF ThreadTypes, Inv, TypesOK
  <1>6. ASSUME NEW back, GoesOn(r, back), NEW on \in BOOLEAN
        PROVE  Plays(r, before, Calls(back, more, on), prog)
    <2> DEFINE q == Calls(back, more, on)
    <2>1. q = Calls(back, more, on)
      OBVIOUS
    <2> HIDE DEF q, r, before, prog, more
    <2>2. Plays(r, before, q, prog)
      BY <1>2, <1>4, <1>6, <2>1, CallMoves
    <2>3. QED BY <2>1, <2>2
  <1>7. \E q : Plays(r, before, q, prog) /\ th' = [th EXCEPT ![t] = q]
    <2>1. CASE op.c = "transaction"
      <3> DEFINE kind == IF op.oneway THEN "sent" ELSE "await"
                 back == Pushed(r, Frame(kind))
      <3>1. th' = [th EXCEPT ![t] = Calls(back, more, TRUE)]
        BY <2>1 DEF Begin
      <3>2. kind \in {"sent", "await"} /\ back = Pushed(r, Frame(kind))
        OBVIOUS
      <3> HIDE DEF kind, back
      <3>3. GoesOn(r, back)
        BY <1>3, <3>2, PushedGoesOn
      <3>4. Plays(r, before, Calls(back, more, TRUE), prog)
        BY <1>6, <3>3
      <3>5. QED BY <3>1, <3>4
    <2>2. CASE op.c \in {"release", "watch", "clear", "thread_exit"}
      <3> DEFINE in == r.pool /\ op.c # "thread_exit"
                 back == InPool(r, in)
      <3>1. th' = [th EXCEPT ![t] = Calls(back, more, FALSE)]
        BY <2>2 DEF Begin
      <3>2. in \in BOOLEAN /\ back = InPool(r, in)
        BY <1>5
      <3> HIDE DEF in, back
      <3>3. GoesOn(r, back)
        BY <1>3, <3>2, InPoolGoesOn
      <3>4. Plays(r, before, Calls(back, more, FALSE), prog)
        BY <1>6, <3>3
      <3>5. QED BY <3>1, <3>4
    <2>3. CASE op.c \in {"enter", "register"}
      <3> DEFINE back == InPool(r, TRUE)
      <3>1. th' = [th EXCEPT ![t] = Calls(back, more, TRUE)]
        BY <2>3 DEF Begin
      <3>2. back = InPool(r, TRUE)
        OBVIOUS
      <3> HIDE DEF back
      <3>3. GoesOn(r, back)
        BY <1>3, <3>2, InPoolGoesOn
      <3>4. Plays(r, before, Calls(back, more, TRUE), prog)
        BY <1>6, <3>3
      <3>5. QED BY <3>1, <3>4
    <2>4. CASE op.c = "told"
      <3>1. th' = th
        BY <2>4 DEF Begin
      <3>2. Plays(r, before, r, prog)
        BY <1>1, <1>2, <2>4, TailPlays
      <3>3. QED BY <1>5, <3>1, <3>2
    <2>5. QED BY <2>1, <2>2, <2>3, <2>4 DEF Begin
  <1>8. PICK q : Plays(r, before, q, prog) /\ th' = [th EXCEPT ![t] = q]
    BY <1>7
  <1> HIDE DEF prog
  <1>9. Plays(th[t], program[t], q, prog)
    BY <1>8
  <1>10. th' = [th EXCEPT ![t] = q]
    BY <1>8
  <1>11. QED BY <1>1, <1>9, <1>10, PlayKeeps

-----------------------------------------------------------------------------
(* A process that ends, and its driver released.                           *)

\* A process that begins to end keeps it.
LEMMA ExitKeeps ==
  ASSUME Inv, NEW t \in Threads, Exit(t)
  PROVE  Inv'
  <1> DEFINE p == proc[t]
             prog == Tail(program[t])
             q == th[t]
             u == [st EXCEPT !.woken = IF p \in st.remote THEN @ ELSE @ \cup st.watching]
  <1>1. /\ InGuest(t) /\ program[t] # <<>> /\ Head(program[t]).c # "register"
        /\ program' = [program EXCEPT ![t] = prog] /\ th' = th /\ started' = started
        /\ area' = area /\ exiting' = exiting \cup {p} /\ st' = u
    BY DEF Exit, Close
  <1>2. MayPlay(q, program[t])
    BY <1>1, PlaysNow
  <1>3. Plays(q, program[t], q, prog)
    BY <1>1, <1>2, TailPlays
  <1>4. /\ TypesOK /\ SpawnsOK /\ AreasOK /\ RecordsOK /\ SpawnCounted /\ Good(st, th, 0) /\ p \in Procs
        /\ program \in [Threads -> Seq(Ops)] /\ t \in started /\ BrokerOK(st)
    BY <1>1, GoodNow DEF Inv, TypesOK, GuestOK, InGuest
  <1>5. th' = [th EXCEPT ![t] = q]
    BY <1>1, <1>4 DEF TypesOK
  <1>6. BrokerOK(st) => Alike(st, u)
    BY DEF Alike, BrokerOK, BrokerFields
  <1>7. u.buffers = st.buffers /\ u.spawn_requested = st.spawn_requested /\ u.dead = st.dead
    BY <1>4, <1>6 DEF Alike
  <1> HIDE DEF u, q, prog
  <1>8. Good(u, th, 0)
    BY <1>4, <1>6, AlikeSteady, SteadyGood
  <1>9. prog \in Seq(Ops) /\ SpawnOK(q, prog, TRUE) /\ (Registers(q, prog) <=> Registers(q, program[t]))
    BY <1>3 DEF Plays
  <1>10. TypesOK'
    <2>1. GuestOK
      BY <1>4 DEF TypesOK
    <2>2. program' \in [Threads -> Seq(Ops)]
      BY <1>1, <1>4, <1>9
    <2>3. GuestOK'
      BY <1>1, <1>4, <2>1, <2>2 DEF GuestOK
    <2>4. QED BY <1>1, <1>4, <2>3 DEF TypesOK
  <1>11. SpawnsOK'
    <2>1. SpawnOK(q, prog, t \in started') /\ started \subseteq started'
      BY <1>1, <1>4, <1>9
    <2>2. QED BY <1>1, <1>4, <1>5, <2>1, SpawnStep
  <1>12. AreasOK'
    BY <1>1, <1>4 DEF AreasOK
  <1>13. RecordsOK'
    BY <1>1, <1>4, <1>7 DEF RecordsOK
  <1>14. SpawnCounted'
    <2>1. Registers(q, prog) <=> Registers(th[t], program[t])
      BY <1>9 DEF q
    <2>2. Owed(q) <=> Owed(th[t])
      BY DEF q
    <2>3. st'.spawn_requested = st.spawn_requested /\ st.dead \subseteq st'.dead /\ exiting \subseteq exiting'
      BY <1>1, <1>7
    <2>4. QED BY <1>1, <1>4, <1>5, <2>1, <2>2, <2>3, CountStep
  <1>15. Good(st', th', 0)
    BY <1>1, <1>8
  <1>16. QED BY <1>10, <1>11, <1>12, <1>13, <1>14, <1>15 DEF Inv

\* Its release keeps it.
LEMMA ReleaseKeeps ==
  ASSUME Inv, NEW p \in Procs, Release(p), UNCHANGED guest
  PROVE  Inv'
  <1>1. /\ st' = Released(st, p) /\ area' = area /\ th' = th /\ exiting' = exiting
        /\ program' = program /\ started' = started
    BY DEF Release, guest
  <1>2. /\ TypesOK /\ SpawnsOK /\ AreasOK /\ RecordsOK /\ SpawnCounted /\ Good(st, th, 0)
    BY DEF Inv
  <1>3. /\ Good(st', th, 0) /\ st'.spawn_requested = st.spawn_requested
        /\ st'.dead = st.dead \cup {p} /\ st'.buffers \subseteq st.buffers
    BY <1>1, <1>2, ReleasedGood
  <1>4. TypesOK' /\ SpawnsOK' /\ AreasOK'
    BY <1>1, <1>2 DEF TypesOK, GuestOK, SpawnsOK, AreasOK
  <1>5. RecordsOK'
    BY <1>1, <1>2, <1>3 DEF RecordsOK
  <1>6. SpawnCounted'
    BY <1>1, <1>2, <1>3, CountedIs, CountedNext DEF Counted
  <1>7. QED BY <1>1, <1>3, <1>4, <1>5, <1>6 DEF Inv

-----------------------------------------------------------------------------
(* What a thread makes of what it read.                                    *)

\* Nothing is freed but the place read of, and that not as long as it is served.
FreesIn(seq, b) == Hits(seq, {op \in Commands : op.c = "free" /\ op.buf = b})
ServesIn(seq, b) == Hits(seq, {frame \in Frames : frame.kind = "serve" /\ frame.buf = b})
Brings(r, more, frames, b) ==
  /\ Single(FreesIn(more, b)) /\ (HoldsAt(r, b) \/ FreesIn(more, b) = {})
  /\ \/ /\ (ServesIn(r.frames, b) = {} => ServesIn(frames, b) = {})
        /\ (Single(ServesIn(r.frames, b)) => Single(ServesIn(frames, b)))
     \/ HoldsAt(r, b) /\ FreesIn(more, b) = {} /\ Single(ServesIn(frames, b))

Reading(r, before) ==
  /\ before \in Seq(Ops) /\ SpawnOK(r, before, TRUE) /\ (\A b \in Buffers : Once(r, b))
  /\ ThreadOK(r) /\ r.at = "execute" /\ ~r.asked

\* What a thread that has read something goes on with.
Heard(r, before, q) ==
  /\ ThreadOK(q) /\ SpawnOK(q, before, TRUE)
  /\ \A b \in Buffers : Once(q, b) /\ (Has(q, b) => Has(r, b))
  /\ ~Owed(q) /\ (Registers(q, before) <=> Registers(r, before))
  /\ ~InHands(q)

\* What a thread is that took up what it read.
LEMMA HeardIs ==
  ASSUME NEW r, NEW before, Reading(r, before), NEW more \in Seq(Commands), RegisterIn(more) = {},
         NEW frames \in Seq(Frames), \A b \in Buffers : Brings(r, more, frames, b),
         NEW q, q = [r EXCEPT !.at = "guest", !.spawn = FALSE, !.cmds = r.cmds \o more, !.frames = frames]
  PROVE  Heard(r, before, q)
  <1> DEFINE cmds == r.cmds \o more
             Reg == {op \in Commands : op.c = "register"}
             Free1(b) == {op \in Commands : op.c = "free" /\ op.buf = b}
  <1>1. /\ r \in ThreadTypes /\ before \in Seq(Ops) /\ SpawnOK(r, before, TRUE) /\ \A b \in Buffers : Once(r, b)
        /\ ~r.asked
    BY DEF Reading, ThreadOK
  <1>2. r.cmds \in Seq(Commands)
    BY <1>1 DEF ThreadTypes
  <1>3. cmds \in Seq(Commands)
    BY <1>2
  <1> HIDE DEF cmds
  <1>4. q = [r EXCEPT !.at = "guest", !.spawn = FALSE, !.cmds = cmds, !.frames = frames]
    BY DEF cmds
  <1>5. /\ q \in ThreadTypes /\ q.at = "guest" /\ ~q.spawn /\ ~q.asked /\ q.cmds = cmds /\ q.frames = frames
    BY <1>1, <1>3, <1>4 DEF ThreadTypes
  <1>6. /\ RegisterIn(q.cmds) = {} <=> RegisterIn(r.cmds) = {}
        /\ Single(RegisterIn(r.cmds)) => Single(RegisterIn(q.cmds))
    BY <1>2, <1>5, CallsRegister DEF cmds
  <1>7. SpawnOK(q, before, TRUE)
    BY <1>1, <1>5, <1>6 DEF SpawnOK
  <1>8. Registers(q, before) <=> Registers(r, before)
    <2>1. RegisterIn(before) \subseteq {1}
      BY <1>1 DEF SpawnOK
    <2>2. q.cmds \in Seq(Commands)
      BY <1>3, <1>5
    <2>3. QED BY <1>1, <1>2, <1>6, <2>1, <2>2, RegistersIs
  <1>9. ASSUME NEW b \in Buffers PROVE Once(q, b) /\ (Has(q, b) => Has(r, b))
    <2> DEFINE F == Free1(b)
    <2>1. Frees(q, b) = Hits(cmds, F) /\ Frees(r, b) = Hits(r.cmds, F) /\ FreesIn(more, b) = Hits(more, F)
      BY <1>5 DEF Frees, FreesIn
    <2> HIDE DEF F, Free1
    <2>2. /\ Hits(cmds, F) = {} <=> Hits(r.cmds, F) = {} /\ Hits(more, F) = {}
          /\ Single(Hits(r.cmds, F)) /\ Hits(more, F) = {} => Single(Hits(cmds, F))
          /\ Hits(r.cmds, F) = {} /\ Single(Hits(more, F)) => Single(Hits(cmds, F))
      BY <1>2, HitsConcat DEF cmds
    <2>3. Serves(q, b) = ServesIn(frames, b) /\ Serves(r, b) = ServesIn(r.frames, b)
      BY <1>5 DEF Serves, ServesIn
    <2>4. ~HoldsAt(q, b)
      BY <1>5 DEF HoldsAt, Holds
    <2>5. Once(r, b) /\ Brings(r, more, frames, b)
      BY <1>1
    <2>6. CASE HoldsAt(r, b)
      <3>1. Frees(r, b) = {} /\ Serves(r, b) = {} /\ Single({})
        BY <2>5, <2>6 DEF Once, Single
      <3>2. Single(Hits(more, F)) /\ (ServesIn(frames, b) = {} \/ (Hits(more, F) = {} /\ Single(ServesIn(frames, b))))
        BY <2>1, <2>3, <2>5, <3>1 DEF Brings
      <3>3. Once(q, b)
        BY <2>1, <2>2, <2>3, <2>4, <3>1, <3>2 DEF Once
      <3>4. Has(r, b)
        BY <2>6 DEF Has
      <3>5. QED BY <3>3, <3>4
    <2>7. CASE ~HoldsAt(r, b)
      <3>1. /\ Hits(more, F) = {} /\ (Serves(r, b) = {} => Serves(q, b) = {})
            /\ (Single(Serves(r, b)) => Single(Serves(q, b)))
        BY <2>1, <2>3, <2>5, <2>7 DEF Brings
      <3>2. (Frees(q, b) = {} <=> Frees(r, b) = {}) /\ (Single(Frees(r, b)) => Single(Frees(q, b)))
        BY <2>1, <2>2, <3>1
      <3>3. QED BY <2>4, <2>5, <2>7, <3>1, <3>2 DEF Once, Has
    <2>8. QED BY <2>6, <2>7
  <1>10. ThreadOK(q)
    BY <1>5 DEF ThreadOK, Holds
  <1>11. ~Owed(q) /\ ~InHands(q)
    BY <1>5 DEF Owed, InHands
  <1>12. QED BY <1>7, <1>8, <1>9, <1>10, <1>11 DEF Heard

\* Frames that are as they were, or without the last.
LEMMA BringsFewer ==
  ASSUME NEW r, NEW before, Reading(r, before),
         NEW frames, frames = r.frames \/ (r.frames # <<>> /\ frames = Front(r.frames))
  PROVE  /\ frames \in Seq(Frames)
         /\ \A b \in Buffers : /\ (ServesIn(r.frames, b) = {} => ServesIn(frames, b) = {})
                               /\ (Single(ServesIn(r.frames, b)) => Single(ServesIn(frames, b)))
  <1>1. r.frames \in Seq(Frames)
    BY DEF Reading, ThreadOK, ThreadTypes
  <1>2. CASE frames = r.frames
    BY <1>1, <1>2
  <1>3. CASE r.frames # <<>> /\ frames = Front(r.frames)
    <2>1. frames \in Seq(Frames)
      BY <1>1, <1>3, HitsFront
    <2>2. ASSUME NEW b \in Buffers
          PROVE  /\ (ServesIn(r.frames, b) = {} => ServesIn(frames, b) = {})
                 /\ (Single(ServesIn(r.frames, b)) => Single(ServesIn(frames, b)))
      <3> DEFINE S == {frame \in Frames : frame.kind = "serve" /\ frame.buf = b}
      <3>1. ServesIn(r.frames, b) = Hits(r.frames, S) /\ ServesIn(frames, b) = Hits(frames, S)
        BY DEF ServesIn
      <3> HIDE DEF S
      <3>2. QED BY <1>1, <1>3, <3>1, HitsFront
    <2>3. QED BY <2>1, <2>2
  <1>4. QED BY <1>2, <1>3

\* Nothing to write but what frees the place held, or nothing at all.
LEMMA FreesNone == ASSUME NEW b PROVE FreesIn(<<>>, b) = {} /\ RegisterIn(<<>>) = {} /\ Single({})
  BY DEF FreesIn, RegisterIn, Hits, Single

\* What one command frees.
LEMMA FreesOne ==
  ASSUME NEW op \in Commands, NEW b
  PROVE  /\ <<op>> \in Seq(Commands) /\ Single(FreesIn(<<op>>, b))
         /\ FreesIn(<<op>>, b) = {} <=> ~(op.c = "free" /\ op.buf = b)
         /\ op.c # "register" => RegisterIn(<<op>>) = {}
  <1>1. <<op>> \in Seq(Commands) /\ DOMAIN <<op>> = {1} /\ <<op>>[1] = op
    OBVIOUS
  <1>2. QED BY <1>1 DEF FreesIn, RegisterIn, Hits, Single

\* What three free, the first and the last a handle's counts.
LEMMA FreesThree ==
  ASSUME NEW a \in Commands, NEW op \in Commands, NEW c \in Commands, NEW b,
         a.c \notin {"free", "register"}, c.c \notin {"free", "register"}, op.c # "register"
  PROVE  /\ <<a, op, c>> \in Seq(Commands) /\ Single(FreesIn(<<a, op, c>>, b))
         /\ FreesIn(<<a, op, c>>, b) = {} <=> ~(op.c = "free" /\ op.buf = b)
         /\ RegisterIn(<<a, op, c>>) = {}
  <1> DEFINE s == <<a, op, c>>
  <1>1. s \in Seq(Commands) /\ DOMAIN s = {1, 2, 3} /\ s[1] = a /\ s[2] = op /\ s[3] = c
    OBVIOUS
  <1> HIDE DEF s
  <1>2. /\ s \in Seq(Commands) /\ Single(FreesIn(s, b))
        /\ FreesIn(s, b) = {} <=> ~(op.c = "free" /\ op.buf = b)
        /\ RegisterIn(s) = {}
    BY <1>1 DEF FreesIn, RegisterIn, Hits, Single
  <1>3. QED BY <1>2 DEF s

\* A call that came, kept to be served: its place is the one held.
LEMMA BringsServe ==
  ASSUME NEW r, NEW before, Reading(r, before), Holds(r), NEW g \in Frames, g.kind = "serve", g.buf = r.buf
  PROVE  /\ Append(r.frames, g) \in Seq(Frames)
         /\ \A b \in Buffers : Brings(r, <<>>, Append(r.frames, g), b)
  <1>1. r.frames \in Seq(Frames) /\ \A b \in Buffers : Once(r, b)
    BY DEF Reading, ThreadOK, ThreadTypes
  <1>2. Append(r.frames, g) \in Seq(Frames)
    BY <1>1
  <1>3. ASSUME NEW b \in Buffers PROVE Brings(r, <<>>, Append(r.frames, g), b)
    <2> DEFINE S == {frame \in Frames : frame.kind = "serve" /\ frame.buf = b}
    <2>1. /\ ServesIn(r.frames, b) = Hits(r.frames, S)
          /\ ServesIn(Append(r.frames, g), b) = Hits(Append(r.frames, g), S)
      BY DEF ServesIn
    <2>2. g \in S <=> b = r.buf
      OBVIOUS
    <2> HIDE DEF S
    <2>3. /\ Hits(Append(r.frames, g), S) = {} <=> Hits(r.frames, S) = {} /\ g \notin S
          /\ Single(Hits(r.frames, S)) /\ (Hits(r.frames, S) = {} \/ g \notin S) => Single(Hits(Append(r.frames, g), S))
      BY <1>1, HitsAppend
    <2>4. FreesIn(<<>>, b) = {} /\ Single({})
      BY FreesNone
    <2>5. CASE b = r.buf
      <3>1. HoldsAt(r, b) /\ Serves(r, b) = {}
        BY <1>1, <2>5 DEF HoldsAt, Once
      <3>2. Hits(r.frames, S) = {} /\ Single(Hits(r.frames, S))
        BY <2>1, <2>4, <3>1 DEF Serves, ServesIn
      <3>3. QED BY <2>1, <2>3, <2>4, <3>1, <3>2 DEF Brings
    <2>6. CASE b # r.buf
      BY <2>1, <2>2, <2>3, <2>4, <2>6 DEF Brings
    <2>7. QED BY <2>5, <2>6
  <1>4. QED BY <1>2, <1>3

\* What a call has with it.
LEMMA CallTxnIs ==
  ASSUME NEW w \in Work, w.kind = "txn", ~w.reply
  PROVE  w.oneway \in BOOLEAN /\ w.to \in Objects /\ w.carries \in Carriable
         /\ (w.carries.kind = "handle" => w.carries.handle \in Handles)
  <1>1. w \in CallTxns
    <2>1. w \in Txns
      BY TxnWork
    <2>2. \A v \in ReplyTxns : v.reply = TRUE
      BY DEF ReplyTxns, Flying
    <2>3. QED BY <2>1, <2>2 DEF Txns
  <1>2. w.oneway \in BOOLEAN /\ w.to \in Objects /\ w.carries \in Carriable
    BY <1>1 DEF CallTxns, Flying
  <1>3. w.carries.kind = "handle" => w.carries.handle \in Handles
    BY <1>2 DEF Carriable
  <1>4. QED BY <1>2, <1>3

\* A oneway taken: its buffer freed, and what came with it counted and let go.
LEMMA OnewayHeard ==
  ASSUME NEW r, NEW before, Reading(r, before), Holds(r), NEW txn \in Work, txn.kind = "txn", ~txn.reply, txn.oneway,
         NEW e, e = [r EXCEPT !.at = "guest", !.spawn = FALSE], NEW q, q = Received(e, txn, r.buf)
  PROVE  Heard(r, before, q)
  <1> DEFINE h == txn.carries.handle
             a == OnHandle("acquire", h)
             op == OnBuffer(r.buf)
             c == OnHandle("release", h)
             more == IF Comes(txn, "take") THEN <<a, op, c>> ELSE <<op>>
  <1>1. /\ r \in ThreadTypes /\ r.cmds \in Seq(Commands) /\ r.buf \in Buffers /\ r.frames \in Seq(Frames)
    BY DEF Reading, ThreadOK, ThreadTypes
  <1>2. op \in Commands /\ op.c = "free" /\ op.buf = r.buf
    BY <1>1 DEF Commands, OnBuffer
  <1>3. Comes(txn, "take") => /\ a \in Commands /\ a.c = "acquire" /\ c \in Commands /\ c.c = "release"
    <2>1. Comes(txn, "take") => h \in Handles
      BY CallTxnIs DEF Comes
    <2>2. QED BY <2>1 DEF Commands, Ops, OnHandle
  <1>4. q = [e EXCEPT !.cmds = r.cmds \o more]
    <2>1. e.cmds = r.cmds /\ e \in ThreadTypes
      BY <1>1 DEF ThreadTypes
    <2>2. q = [e EXCEPT !.cmds = e.cmds \o more]
      BY DEF Received
    <2>3. QED BY <2>1, <2>2
  <1> HIDE DEF a, op, c, h
  <1>5. more \in Seq(Commands) /\ RegisterIn(more) = {}
        /\ \A b \in Buffers : Single(FreesIn(more, b)) /\ (FreesIn(more, b) = {} <=> b # r.buf)
    BY <1>2, <1>3, FreesOne, FreesThree
  <1> HIDE DEF more
  <1>6. \A b \in Buffers : Brings(r, more, r.frames, b)
    BY <1>5 DEF Brings, HoldsAt
  <1>7. q = [r EXCEPT !.at = "guest", !.spawn = FALSE, !.cmds = r.cmds \o more, !.frames = r.frames]
    BY <1>1, <1>4 DEF ThreadTypes
  <1>8. QED BY <1>1, <1>5, <1>6, <1>7, HeardIs

\* A call read is served next, its buffer kept by its frame.
LEMMA CallHeard ==
  ASSUME NEW r, NEW before, Reading(r, before), Holds(r), NEW txn \in Work, txn.kind = "txn", ~txn.reply, ~txn.oneway,
         NEW e, e = [r EXCEPT !.at = "guest", !.spawn = FALSE], NEW q, q = Received(e, txn, r.buf)
  PROVE  Heard(r, before, q)
  <1> DEFINE phase == IF Comes(txn, "back") THEN "back" ELSE "reply"
             handle == IF Comes(txn, "back") THEN txn.carries.handle ELSE 0
             returns == IF txn.code = "give" THEN Binder(txn.to) ELSE Nothing
             g == [kind |-> "serve", buf |-> r.buf, phase |-> phase, handle |-> handle, returns |-> returns]
  <1>1. /\ r \in ThreadTypes /\ r.cmds \in Seq(Commands) /\ r.buf \in Buffers /\ r.frames \in Seq(Frames)
    BY DEF Reading, ThreadOK, ThreadTypes
  <1>2. returns \in Carriable
    BY CallTxnIs DEF Carriable, Binder, Nothing
  <1>3. \/ phase = "back" /\ handle \in Handles
        \/ phase = "reply" /\ handle \in Handles \cup {0}
    BY CallTxnIs DEF Comes
  <1>4. q = Pushed(e, g)
    BY DEF Received
  <1> HIDE DEF phase, handle, returns
  <1>5. g \in Frames /\ g.kind = "serve" /\ g.buf = r.buf
    <2>1. g \in Serving({"back"}, Handles) \/ g \in Serving({"reply", "done"}, Handles \cup {0})
      BY <1>1, <1>2, <1>3 DEF Serving
    <2>2. QED BY <2>1 DEF Frames
  <1> HIDE DEF g
  <1> DEFINE frames == Append(r.frames, g)
             more == <<>>
  <1>6. frames \in Seq(Frames) /\ \A b \in Buffers : Brings(r, more, frames, b)
    BY <1>5, BringsServe
  <1>7. q = [e EXCEPT !.frames = frames]
    BY <1>1, <1>4 DEF Pushed, ThreadTypes
  <1>8. RegisterIn(more) = {} /\ more \in Seq(Commands) /\ r.cmds \o more = r.cmds
    BY <1>1, FreesNone
  <1> HIDE DEF frames, more
  <1>9. q = [r EXCEPT !.at = "guest", !.spawn = FALSE, !.cmds = r.cmds \o more, !.frames = frames]
    <2>1. {"at", "spawn", "cmds", "frames"} \subseteq DOMAIN r
      BY <1>1 DEF ThreadTypes
    <2>2. [r EXCEPT !.at = "guest", !.spawn = FALSE, !.cmds = r.cmds \o more, !.frames = frames]
            = [[r EXCEPT !.at = "guest", !.spawn = FALSE] EXCEPT !.frames = frames]
      <3> DEFINE w == [r EXCEPT !.at = "guest", !.spawn = FALSE]
      <3>1. w.cmds = r.cmds /\ DOMAIN w = DOMAIN r
        BY <2>1
      <3>2. r.cmds \o more = r.cmds
        BY <1>8
      <3> DEFINE m == r.cmds \o more
      <3> HIDE DEF m
      <3>3. m = r.cmds
        BY <3>2 DEF m
      <3>4. [r EXCEPT !.at = "guest", !.spawn = FALSE, !.cmds = m, !.frames = frames] = [w EXCEPT !.frames = frames]
        BY ONLY <3>3, <2>1
      <3>5. QED BY ONLY <3>4 DEF m
    <2>3. QED BY ONLY <1>7, <2>2, e = [r EXCEPT !.at = "guest", !.spawn = FALSE]
  <1>10. QED BY <1>6, <1>8, <1>9, HeardIs, Zenon

\* Its frames as they were or fewer, and one thing to write or none.
LEMMA FewerHeard ==
  ASSUME NEW r, NEW before, Reading(r, before),
         NEW frames, frames = r.frames \/ (r.frames # <<>> /\ frames = Front(r.frames)),
         NEW more, \/ more = <<>>
                   \/ \E op \in Commands : /\ more = <<op>> /\ op.c # "register"
                                           /\ op.c = "free" => Holds(r) /\ op.buf = r.buf,
         NEW q, q = [r EXCEPT !.at = "guest", !.spawn = FALSE, !.cmds = r.cmds \o more, !.frames = frames]
  PROVE  Heard(r, before, q)
  <1>1. /\ frames \in Seq(Frames)
        /\ \A b \in Buffers : /\ (ServesIn(r.frames, b) = {} => ServesIn(frames, b) = {})
                              /\ (Single(ServesIn(r.frames, b)) => Single(ServesIn(frames, b)))
    BY BringsFewer
  <1>2. /\ more \in Seq(Commands) /\ RegisterIn(more) = {}
        /\ \A b \in Buffers : Single(FreesIn(more, b)) /\ (HoldsAt(r, b) \/ FreesIn(more, b) = {})
    <2>1. CASE more = <<>>
      <3>1. <<>> \in Seq(Commands) /\ RegisterIn(<<>>) = {} /\ Single({})
        BY FreesNone
      <3>2. \A b \in Buffers : FreesIn(<<>>, b) = {}
        BY FreesNone
      <3>3. \A b \in Buffers : Single(FreesIn(<<>>, b)) /\ (HoldsAt(r, b) \/ FreesIn(<<>>, b) = {})
        BY <3>1, <3>2, Zenon
      <3>4. QED BY <2>1, <3>1, <3>3, Zenon
    <2>2. CASE more # <<>>
      <3>1. PICK op \in Commands : /\ more = <<op>> /\ op.c # "register"
                                   /\ op.c = "free" => Holds(r) /\ op.buf = r.buf
        BY <2>2
      <3>2. QED BY <3>1, FreesOne DEF HoldsAt
    <2>3. QED BY <2>1, <2>2
  <1>3. \A b \in Buffers : Brings(r, more, frames, b)
    BY <1>1, <1>2 DEF Brings
  <1>4. QED BY <1>1, <1>2, <1>3, HeardIs

\* Whatever was read, its buffer goes on to a frame or to the command that frees it.
LEMMA UnderstoodHeard ==
  ASSUME Inv, NEW t \in Threads, th[t].at = "execute"
  PROVE  t \in started /\ Heard(th[t], program[t], Understood(t))
  <1> DEFINE r == th[t]
             before == program[t]
             got == r.got
             e == [r EXCEPT !.at = "guest", !.spawn = FALSE]
             over == IF Top(t).kind \in {"await", "sent"} THEN Popped(e) ELSE e
             q == Understood(t)
  <1>1. /\ t \in started /\ Reading(r, before) /\ r \in ThreadTypes /\ r.frames \in Seq(Frames)
        /\ r.cmds \in Seq(Commands) /\ got \in Work /\ (got.kind = "txn" => Holds(r))
    <2>1. /\ SpawnOK(r, before, t \in started) /\ before \in Seq(Ops) /\ ThreadOK(r)
          /\ \A b \in Buffers : Once(r, b)
      BY DEF Inv, TypesOK, GuestOK, SpawnsOK, AreasOK
    <2>2. t \in started /\ ~r.asked
      BY <2>1 DEF SpawnOK
    <2>3. SpawnOK(r, before, TRUE)
      BY <2>1, <2>2
    <2>4. r \in ThreadTypes /\ r.frames \in Seq(Frames) /\ r.cmds \in Seq(Commands) /\ got \in Work
      BY <2>1 DEF ThreadOK, ThreadTypes
    <2>5. QED BY <2>1, <2>2, <2>3, <2>4 DEF Reading, Holds
  <1>2. /\ e \in ThreadTypes /\ e.frames = r.frames /\ e.cmds = r.cmds /\ e.buf = r.buf
    BY <1>1 DEF ThreadTypes
  <1>3. Top(t).kind \in {"await", "sent"} => r.frames # <<>>
    BY DEF Top
  <1> DEFINE frames == IF Top(t).kind \in {"await", "sent"} THEN Front(r.frames) ELSE r.frames
  <1>4. /\ over = [e EXCEPT !.frames = frames]
        /\ frames = r.frames \/ (r.frames # <<>> /\ frames = Front(r.frames))
        /\ frames \in Seq(Frames)
    <2>1. Popped(e) = [e EXCEPT !.frames = Front(r.frames)] /\ e = [e EXCEPT !.frames = r.frames]
      BY <1>2 DEF Popped, ThreadTypes
    <2>2. r.frames # <<>> => Front(r.frames) \in Seq(Frames)
      BY <1>1, HitsFront
    <2>3. QED BY <1>1, <1>3, <2>1, <2>2
  <1>5. got.kind = "txn" /\ got.reply => q = Later(over, OnBuffer(r.buf))
    BY <1>2 DEF Understood
  <1>6. got.kind = "txn" /\ ~got.reply => q = Received(e, got, r.buf)
    BY <1>2 DEF Understood
  <1>7. got.kind = "acquire" => q = Later(e, [c |-> "acquire_done", obj |-> got.obj])
    BY DEF Understood
  <1>8. got.kind \notin {"txn", "acquire"} => q = over \/ q = e
    BY DEF Understood
  <1>9. /\ over.cmds = r.cmds
        /\ \A more \in Seq(Commands) :
             [over EXCEPT !.cmds = r.cmds \o more]
             = [r EXCEPT !.at = "guest", !.spawn = FALSE, !.cmds = r.cmds \o more, !.frames = frames]
        /\ \A more \in Seq(Commands) :
             [e EXCEPT !.cmds = r.cmds \o more]
             = [r EXCEPT !.at = "guest", !.spawn = FALSE, !.cmds = r.cmds \o more, !.frames = r.frames]
        /\ over = [r EXCEPT !.at = "guest", !.spawn = FALSE, !.cmds = r.cmds \o <<>>, !.frames = frames]
        /\ e = [r EXCEPT !.at = "guest", !.spawn = FALSE, !.cmds = r.cmds \o <<>>, !.frames = r.frames]
    <2> HIDE DEF over, frames
    <2>1. over = [[r EXCEPT !.at = "guest", !.spawn = FALSE] EXCEPT !.frames = frames]
      BY <1>4
    <2>2. r.cmds \o <<>> = r.cmds
      BY <1>1
    <2> HIDE DEF r
    <2>3. over.cmds = r.cmds
      BY <1>1, <2>1 DEF ThreadTypes
    <2>4. ASSUME NEW cmds
          PROVE  /\ [over EXCEPT !.cmds = cmds]
                    = [r EXCEPT !.at = "guest", !.spawn = FALSE, !.cmds = cmds, !.frames = frames]
                 /\ [e EXCEPT !.cmds = cmds]
                    = [r EXCEPT !.at = "guest", !.spawn = FALSE, !.cmds = cmds, !.frames = r.frames]
      BY <1>1, <2>1 DEF ThreadTypes
    <2>5. /\ over = [r EXCEPT !.at = "guest", !.spawn = FALSE, !.cmds = r.cmds, !.frames = frames]
          /\ e = [r EXCEPT !.at = "guest", !.spawn = FALSE, !.cmds = r.cmds, !.frames = r.frames]
      BY <1>1, <2>1 DEF ThreadTypes
    <2>6. QED BY <2>2, <2>3, <2>4, <2>5
  <1> HIDE DEF q, over, e
  <1>10. e = [r EXCEPT !.at = "guest", !.spawn = FALSE]
    BY DEF e
  <1> HIDE DEF r, frames
  <1>11. CASE got.kind = "txn" /\ ~got.reply
    <2>1. Reading(r, before) /\ Holds(r) /\ got \in Work /\ got.kind = "txn" /\ ~got.reply /\ q = Received(e, got, r.buf)
      BY <1>1, <1>6, <1>11
    <2> HIDE DEF got
    <2> HIDE DEF before
    <2>2. got.oneway => Heard(r, before, q)
      BY <1>10, <2>1, OnewayHeard
    <2>3. ~got.oneway => Heard(r, before, q)
      BY <1>10, <2>1, CallHeard
    <2>4. QED BY <1>1, <2>2, <2>3 DEF q, r, before
  <1>12. CASE got.kind = "txn" /\ got.reply
    <2> DEFINE op == OnBuffer(r.buf)
               more == <<op>>
    <2>1. r.buf \in Buffers /\ Holds(r)
      BY <1>1, <1>12 DEF Reading, ThreadOK
    <2>2. op \in Commands /\ op.c = "free" /\ op.buf = r.buf
      BY <2>1 DEF Commands, OnBuffer
    <2>3. q = [over EXCEPT !.cmds = Append(r.cmds, op)]
      BY <1>5, <1>9, <1>12 DEF Later
    <2> HIDE DEF op
    <2>4. Append(r.cmds, op) = r.cmds \o more /\ more \in Seq(Commands)
      BY <1>1, <2>2
    <2>5. \E c \in Commands : more = <<c>> /\ c.c # "register" /\ (c.c = "free" => Holds(r) /\ c.buf = r.buf)
      BY <2>1, <2>2
    <2> HIDE DEF more
    <2>6. q = [r EXCEPT !.at = "guest", !.spawn = FALSE, !.cmds = r.cmds \o more, !.frames = frames]
      BY <1>9, <2>3, <2>4
    <2>7. Heard(r, before, q)
      BY <1>1, <1>4, <2>5, <2>6, FewerHeard
    <2>8. QED BY <1>1, <2>7 DEF q, r
  <1>13. CASE got.kind = "acquire"
    <2> DEFINE op == [c |-> "acquire_done", obj |-> got.obj]
               more == <<op>>
    <2>1. got.obj \in Objects
      BY <1>1, <1>13 DEF Work, Told, Notes, Txns, CallTxns, ReplyTxns, Flying
    <2>2. op \in Commands /\ op.c = "acquire_done"
      BY <2>1 DEF Commands
    <2>3. q = [e EXCEPT !.cmds = Append(e.cmds, op)]
      BY <1>7, <1>13 DEF Later
    <2> HIDE DEF op
    <2>4. Append(r.cmds, op) = r.cmds \o more /\ more \in Seq(Commands)
      BY <1>1, <2>2
    <2>5. \E c \in Commands : more = <<c>> /\ c.c # "register" /\ (c.c = "free" => Holds(r) /\ c.buf = r.buf)
      BY <2>2
    <2> HIDE DEF more
    <2>6. q = [r EXCEPT !.at = "guest", !.spawn = FALSE, !.cmds = r.cmds \o more, !.frames = r.frames]
      BY <1>2, <1>9, <2>3, <2>4
    <2>7. Heard(r, before, q)
      BY <1>1, <2>5, <2>6, FewerHeard
    <2>8. QED BY <1>1, <2>7 DEF q, r
  <1>14. CASE got.kind \notin {"txn", "acquire"}
    <2> DEFINE more == <<>>
    <2>1. \/ q = [r EXCEPT !.at = "guest", !.spawn = FALSE, !.cmds = r.cmds \o more, !.frames = frames]
          \/ q = [r EXCEPT !.at = "guest", !.spawn = FALSE, !.cmds = r.cmds \o more, !.frames = r.frames]
      BY <1>8, <1>9, <1>14
    <2>2. more = <<>>
      OBVIOUS
    <2> HIDE DEF more
    <2>3. Heard(r, before, q)
      BY <1>1, <1>4, <2>1, <2>2, FewerHeard
    <2>4. QED BY <1>1, <2>3 DEF q, r
  <1>15. QED BY <1>11, <1>12, <1>13, <1>14

\* The looper asked for is started, and it is one that will register.
LEMMA StartedCounts ==
  ASSUME TypesOK, NEW t \in Threads, NEW q, th' = [th EXCEPT ![t] = q], program' = program, t \in started,
         Owed(th[t]), ~Owed(q), Registers(q, program[t]) <=> Registers(th[t], program[t]),
         NEW u \in Spare(proc[t]), started' = started \cup {u}
  PROVE  /\ Cardinality(Owing(th', proc[t])) = Cardinality(Owing(th, proc[t])) - 1
         /\ Cardinality(Registering(th', program', started', proc[t]))
            = Cardinality(Registering(th, program, started, proc[t])) + 1
         /\ \A p \in Procs : p # proc[t] =>
              /\ Owing(th', p) = Owing(th, p)
              /\ Registering(th', program', started', p) = Registering(th, program, started, p)
  <1>1. /\ u \in Threads /\ proc[u] = proc[t] /\ u \notin started /\ u # t
        /\ program[u] # <<>> /\ Head(program[u]).c = "register"
    BY DEF Spare, ThreadsOf
  <1>2. \A v \in Threads : th'[v] = IF v = t THEN q ELSE th[v]
    BY DEF TypesOK
  <1>3. Registers(th'[u], program[u])
    BY <1>1 DEF Registers
  <1>4. proc[t] \in Procs
    BY BrokerAssumption
  <1>5. /\ Registering(th', program, started, proc[t]) = Registering(th, program, started, proc[t])
        /\ \A p \in Procs : p # proc[t] =>
             Registering(th', program, started, p) = Registering(th, program, started, p)
    BY RegisteringMoves
  <1>6. /\ Cardinality(Owing(th', proc[t])) = Cardinality(Owing(th, proc[t])) - 1
        /\ \A p \in Procs : p # proc[t] => Owing(th', p) = Owing(th, p)
    BY OwingMoves
  <1>7. /\ Registering(th', program, started', proc[t]) = Registering(th', program, started, proc[t]) \cup {u}
        /\ u \notin Registering(th', program, started, proc[t])
    BY <1>1, <1>3 DEF Registering, ThreadsOf
  <1>8. \A p \in Procs : p # proc[t] =>
          Registering(th', program, started', p) = Registering(th', program, started, p)
    BY <1>1 DEF Registering, ThreadsOf
  <1>9. IsFiniteSet(Registering(th', program, started, proc[t]))
    BY <1>4, CountsAre
  <1>10. Cardinality(Registering(th', program, started', proc[t]))
         = Cardinality(Registering(th', program, started, proc[t])) + 1
    BY <1>7, <1>9, FS_AddElement
  <1>11. QED BY <1>5, <1>6, <1>8, <1>10

\* What was read, taken up, with the looper it asks for, keeps the invariant.
LEMMA ExecuteKeeps ==
  ASSUME Inv, NEW t \in Threads, Execute(t)
  PROVE  Inv'
  <1> DEFINE q == Understood(t)
  <1>1. /\ th[t].at = "execute" /\ th' = [th EXCEPT ![t] = q]
        /\ st' = st /\ area' = area /\ exiting' = exiting /\ program' = program
    BY DEF Execute, driver
  <1>2. t \in started /\ Heard(th[t], program[t], q)
    BY <1>1, UnderstoodHeard
  <1> HIDE DEF q
  <1>3. /\ ThreadOK(q) /\ SpawnOK(q, program[t], TRUE) /\ ~Owed(q) /\ ~InHands(q)
        /\ (Registers(q, program[t]) <=> Registers(th[t], program[t]))
        /\ \A b \in Buffers : Once(q, b) /\ (Has(q, b) => Has(th[t], b))
    BY <1>2 DEF Heard
  <1>4. /\ TypesOK /\ SpawnsOK /\ AreasOK /\ RecordsOK /\ SpawnCounted /\ Good(st, th, 0) /\ proc[t] \in Procs
        /\ program \in [Threads -> Seq(Ops)] /\ area \in [Procs -> SUBSET Buffers]
        /\ SpawnOK(th[t], program[t], t \in started)
    BY GoodNow DEF Inv, TypesOK, GuestOK, SpawnsOK
  <1>5. /\ th[t].spawn => \E u \in Spare(proc[t]) : started' = started \cup {u}
        /\ ~th[t].spawn => started' = started
    BY DEF Execute
  <1>6. started \subseteq started' /\ started' \subseteq Threads
    BY <1>4, <1>5 DEF Spare, ThreadsOf, TypesOK, GuestOK
  <1>7. program' = [program EXCEPT ![t] = program[t]]
    BY <1>1, <1>4
  <1>8. TypesOK'
    <2>1. GuestOK'
      BY <1>1, <1>4, <1>6 DEF TypesOK, GuestOK
    <2>2. QED BY <1>1, <1>3, <1>4, <2>1, TypesStep
  <1>9. SpawnsOK'
    <2>1. SpawnOK(q, program[t], t \in started')
      BY <1>2, <1>3, <1>6
    <2>2. QED BY <1>1, <1>4, <1>6, <1>7, <2>1, SpawnStep
  <1>10. AreasOK'
    <2>1. area' = [area EXCEPT ![proc[t]] = area[proc[t]]] /\ area[proc[t]] \in SUBSET Buffers
      BY <1>1, <1>4
    <2>2. \A b \in Buffers : Has(th[t], b) => b \in area[proc[t]]
      BY <1>4 DEF AreasOK
    <2>3. \A b \in Buffers : Once(q, b) /\ (Has(q, b) => b \in area[proc[t]] /\ (Has(th[t], b) \/ b \notin area[proc[t]]))
      BY <1>3, <2>2
    <2>4. QED BY <1>1, <1>4, <2>1, <2>3, AreaStep
  <1>11. RecordsOK'
    <2>1. st'.buffers \subseteq st.buffers /\ \A r \in st'.buffers : r.at \in area'[r.proc]
      BY <1>1, <1>4 DEF RecordsOK
    <2>2. q.at # "placed"
      BY <1>3 DEF InHands
    <2>3. QED BY <1>1, <1>4, <2>1, <2>2, RecordStep
  <1>12. Good(st', th', 0)
    <2>1. ~Oneway(th[t]) /\ ~Oneway(q)
      BY <1>1, <1>3 DEF Oneway, InHands
    <2>2. Good(st, th', 0)
      BY <1>1, <1>4, <2>1, SameHands
    <2>3. QED BY <1>1, <2>2
  <1>13. Owed(th[t]) <=> th[t].spawn
    BY <1>1, <1>4 DEF SpawnOK, Owed
  <1>14. CASE ~th[t].spawn
    <2>1. started' = started /\ (Owed(q) <=> Owed(th[t]))
      BY <1>3, <1>5, <1>13, <1>14
    <2>2. st'.spawn_requested = st.spawn_requested /\ st.dead \subseteq st'.dead /\ exiting \subseteq exiting'
      BY <1>1
    <2>3. SpawnCounted'
      BY <1>1, <1>3, <1>4, <1>7, <2>1, <2>2, CountStep
    <2>4. QED BY <1>8, <1>9, <1>10, <1>11, <1>12, <2>3 DEF Inv
  <1>15. CASE th[t].spawn
    <2>1. PICK u \in Spare(proc[t]) : started' = started \cup {u}
      BY <1>5, <1>15
    <2>2. Owed(th[t])
      BY <1>13, <1>15
    <2>3. /\ Cardinality(Owing(th', proc[t])) = Cardinality(Owing(th, proc[t])) - 1
          /\ Cardinality(Registering(th', program', started', proc[t]))
             = Cardinality(Registering(th, program, started, proc[t])) + 1
          /\ \A p \in Procs : p # proc[t] =>
               /\ Owing(th', p) = Owing(th, p)
               /\ Registering(th', program', started', p) = Registering(th, program, started, p)
      BY <1>1, <1>2, <1>3, <1>4, <2>1, <2>2, StartedCounts
    <2>4. /\ Cardinality(Owing(th, proc[t])) \in Nat /\ Cardinality(Registering(th, program, started, proc[t])) \in Nat
      BY <1>4, CountsAre
    <2>5. ASSUME NEW p \in Procs, p \notin st'.dead, p \notin exiting'
          PROVE  Counted(st', th', program', started', p)
      <3>1. Counted(st, th, program, started, p)
        BY <1>1, <1>4, <2>5, CountedIs
      <3>2. st.spawn_requested[p] = Cardinality(Owing(th, p)) + Cardinality(Registering(th, program, started, p))
        BY <3>1 DEF Counted, Owing, Registering
      <3>3. st'.spawn_requested[p] = Cardinality(Owing(th', p)) + Cardinality(Registering(th', program', started', p))
        <4>1. CASE p = proc[t]
          BY <1>1, <2>3, <2>4, <3>2, <4>1
        <4>2. CASE p # proc[t]
          BY <1>1, <2>3, <3>2, <4>2
        <4>3. QED BY <4>1, <4>2
      <3>4. QED BY <3>3 DEF Counted, Owing, Registering
    <2>6. SpawnCounted'
      BY <2>5, CountedNext
    <2>7. QED BY <1>8, <1>9, <1>10, <1>11, <1>12, <2>6 DEF Inv
  <1>16. QED BY <1>14, <1>15

-----------------------------------------------------------------------------
(* What a run starts with.                                                 *)

\* A finite set's elements in some order are all of them, each once.
LEMMA InOrderHasAll ==
  ASSUME NEW T, IsFiniteSet(T), NEW q, q = InOrder(T)
  PROVE  /\ q \in Seq(T) /\ Len(q) = Cardinality(T) /\ Len(q) \in Nat /\ DOMAIN q = 1 .. Len(q)
         /\ \A x \in T : \E i \in DOMAIN q : q[i] = x
  <1> DEFINE n == Cardinality(T)
  <1>1. n \in Nat /\ ExistsBijection(1 .. n, T)
    BY FS_CardinalityType
  <1>2. PICK f \in Bijection(1 .. n, T) : TRUE
    BY <1>1 DEF ExistsBijection
  <1>3. f \in [1 .. n -> T] /\ IsInjective(f)
    BY <1>2 DEF Bijection, Injection, IsInjective
  <1>4. q \in [1 .. n -> T] /\ IsInjective(q)
    BY <1>3 DEF InOrder, SetToSeq
  <1> HIDE DEF n
  <1>5. q \in Injection(1 .. n, T)
    BY <1>4 DEF Injection, IsInjective
  <1>6. Cardinality(1 .. n) = n
    BY <1>1, FS_Interval
  <1>7. q \in Surjection(1 .. n, T)
    BY <1>5, <1>6, FS_Injection DEF n
  <1>8. \A x \in T : \E i \in 1 .. n : q[i] = x
    BY <1>7 DEF Surjection
  <1>9. q \in Seq(T) /\ Len(q) = n /\ DOMAIN q = 1 .. n
    BY <1>1, <1>4
  <1>10. QED BY <1>1, <1>8, <1>9 DEF n

\* The record a scenario starts with, of the objects known.
Starts(s, known, u) ==
  /\ BrokerFields \subseteq DOMAIN u
  /\ u.node = [n \in Nodes |-> IF n <= Len(known) THEN [NoNode EXCEPT !.obj = known[n], !.held = TRUE] ELSE NoNode]
  /\ u.next_node = Len(known) + 1
  /\ u.local = [o \in Objects |-> IF o \in DOMAIN s.known THEN CHOOSE i \in DOMAIN known : known[i] = o ELSE 0]
  /\ u.refs = [p \in Procs |-> [h \in Handles |->
                IF h <= Len(known) /\ p \in s.known[known[h]] THEN h ELSE 0]]
  /\ u.last_handle = [p \in Procs |-> Len(known)]
  /\ u.todo = [p \in Procs |-> <<>>] /\ u.own = [t \in Threads |-> <<>>] /\ u.serving = [t \in Threads |-> <<>>]
  /\ u.buffers = {} /\ u.spawn_requested = [p \in Procs |-> 0] /\ u.dead = {}

\* The nodes and handles a scenario begins with are a good record.
LEMMA StartsGood ==
  ASSUME NEW s \in Scenarios, NEW known, known = InOrder(DOMAIN s.known), NEW u, Starts(s, known, u),
         NEW h, \A t \in Threads : ~InHands(h[t])
  PROVE  Good(u, h, 0)
  <1>a. u.refs = [p \in Procs |-> [k \in Handles |-> IF k <= Len(known) /\ p \in s.known[known[k]] THEN k ELSE 0]]
    BY Zenon DEF Starts
  <1>b. /\ u.last_handle = [p \in Procs |-> Len(known)]
        /\ u.todo = [p \in Procs |-> <<>>] /\ u.own = [t \in Threads |-> <<>>] /\ u.serving = [t \in Threads |-> <<>>]
    BY Zenon DEF Starts
  <1>c. u.buffers = {} /\ u.spawn_requested = [p \in Procs |-> 0] /\ u.dead = {} /\ BrokerFields \subseteq DOMAIN u
    BY Zenon DEF Starts
  <1>d. u.local = [o \in Objects |-> IF o \in DOMAIN s.known THEN CHOOSE i \in DOMAIN known : known[i] = o ELSE 0]
    BY Zenon DEF Starts
  <1>e. /\ u.node = [n \in Nodes |-> IF n <= Len(known) THEN [NoNode EXCEPT !.obj = known[n], !.held = TRUE] ELSE NoNode]
        /\ u.next_node = Len(known) + 1
    BY Zenon DEF Starts
  <1>1. IsFiniteSet(DOMAIN s.known) /\ DOMAIN s.known \subseteq Objects /\ Cardinality(DOMAIN s.known) <= MaxNode
    BY ScenarioAssumption
  <1> DEFINE m == Len(known)
  <1>2. /\ known \in Seq(DOMAIN s.known) /\ m \in Nat /\ m <= MaxNode /\ DOMAIN known = 1 .. m
        /\ \A x \in DOMAIN s.known : \E i \in DOMAIN known : known[i] = x
    BY <1>1, InOrderHasAll
  <1>3. \A i \in 1 .. m : known[i] \in Objects
    BY <1>1, <1>2
  <1> HIDE DEF m
  <1>4. MaxNode \in Nat
    BY BrokerAssumption
  <1>5. ASSUME NEW n \in Nodes
        PROVE  /\ n <= m => u.node[n] \in MadeNodes /\ u.node[n].obj \in Objects
               /\ ~(n <= m) => u.node[n] = NoNode
               /\ u.node[n].async_todo = <<>> /\ u.node[n].has_async = FALSE
    <2>1. u.node[n] = IF n <= m THEN [NoNode EXCEPT !.obj = known[n], !.held = TRUE] ELSE NoNode
      BY <1>e DEF m
    <2>2. CASE n <= m
      <3>1. known[n] \in Objects
        BY <1>2, <1>3, <1>4, <2>2 DEF Nodes
      <3>2. <<>> \in Seq(Txns)
        OBVIOUS
      <3>3. QED BY <2>1, <2>2, <3>1, <3>2 DEF NoNode, MadeNodes
    <2>3. CASE ~(n <= m)
      BY <2>1, <2>3 DEF NoNode
    <2>4. QED BY <2>2, <2>3
  <1>6. NodesOK(u)
    <2>1. u.node \in [Nodes -> MadeNodes \cup {NoNode}]
      <3>1. DOMAIN u.node = Nodes /\ u.node = [n \in Nodes |-> u.node[n]]
        BY <1>e
      <3>2. QED BY <1>5, <3>1
    <2>2. u.next_node = m + 1
      BY <1>e DEF m
    <2>3. u.next_node \in Nat \ {0} /\ \A n \in Nodes : n >= u.next_node => ~(n <= m)
      BY <1>2, <1>4, <2>2 DEF Nodes
    <2>4. QED BY <1>5, <2>1, <2>3 DEF NodesOK
  <1>7. \A i \in 1 .. m : i \in Nodes /\ i \in 0 .. MaxNode /\ i # 0 /\ i <= m /\ u.node[i].obj \in Objects
    <2>1. \A i \in 1 .. m : i \in Nodes /\ i \in 0 .. MaxNode /\ i # 0 /\ i <= m
      BY <1>2, <1>4 DEF Nodes
    <2>2. QED BY <1>5, <2>1
  <1>8. ASSUME NEW o \in Objects PROVE u.local[o] \in {0} \cup 1 .. m
    <2>1. u.local[o] = IF o \in DOMAIN s.known THEN CHOOSE i \in DOMAIN known : known[i] = o ELSE 0
      BY <1>d
    <2>2. o \in DOMAIN s.known => (CHOOSE i \in DOMAIN known : known[i] = o) \in DOMAIN known
      BY <1>2
    <2>3. QED BY <1>2, <2>1, <2>2
  <1>9. ASSUME NEW p \in Procs, NEW k \in Handles PROVE u.refs[p][k] \in {0} \cup 1 .. m
    <2>1. u.refs[p][k] = IF k <= Len(known) /\ p \in s.known[known[k]] THEN k ELSE 0
      BY <1>a
    <2>2. k \in Nat \ {0}
      BY BrokerAssumption DEF Handles
    <2>3. QED BY <1>2, <2>1, <2>2 DEF m
  <1>10. RefsOK(u)
    <2>1. u.local = [o \in Objects |-> u.local[o]] /\ 0 \in 0 .. MaxNode
      BY <1>4, <1>d
    <2>2. u.local \in [Objects -> 0 .. MaxNode]
      BY <1>7, <1>8, <2>1
    <2>3. u.refs = [p \in Procs |-> [k \in Handles |-> u.refs[p][k]]]
      BY <1>a
    <2>4. u.refs \in [Procs -> [Handles -> 0 .. MaxNode]]
      BY <1>7, <1>9, <2>1, <2>3
    <2>5. u.last_handle \in [Procs -> Nat]
      BY <1>2, <1>b DEF m
    <2>6. \A o \in Objects : u.local[o] # 0 => u.node[u.local[o]].obj \in Objects
      BY <1>7, <1>8
    <2>7. \A p \in Procs, k \in Handles : u.refs[p][k] # 0 => u.node[u.refs[p][k]].obj \in Objects
      BY <1>7, <1>9
    <2>8. QED BY <2>2, <2>4, <2>5, <2>6, <2>7 DEF RefsOK
  <1>11. QueuesOK(u)
    BY <1>b DEF QueuesOK
  <1>12. BuffersOK(u) /\ CountsOK(u)
    BY <1>c, FS_EmptySet DEF BuffersOK, CountsOK
  <1>13. (\A p \in Procs : DOMAIN u.todo[p] = {}) /\ u.buffers = {}
    BY <1>b, <1>c
  <1>14. PlacesOK(u)
    <2>0. DOMAIN <<>> = {}
      OBVIOUS
    <2>1. \A n \in Nodes : DOMAIN u.node[n].async_todo = {}
      BY <1>5, <2>0, Zenon
    <2>2. QED BY <1>13, <2>1 DEF PlacesOK
  <1>15. BrokerOK(u)
    BY <1>c, <1>6, <1>10, <1>11, <1>12, <1>14 DEF BrokerOK
  <1>16. HandsOK(u, h)
    BY DEF HandsOK
  <1>17. ASSUME NEW n \in Nodes PROVE OneOut(u, h, n)
    <2> DEFINE p == owner[u.node[n].obj]
    <2>1. u.node[n].obj \in Objects => p \in Procs
      BY BrokerAssumption
    <2>2. InHand(h, n) = {} /\ InBuffer(u, n) = {}
      BY <1>13 DEF InHand, InBuffer
    <2>3. u.node[n].obj \in Objects => InQueue(u, n, p) = {}
      BY <1>13, <2>1 DEF InQueue
    <2>4. QED BY <1>5, <2>2, <2>3 DEF OneOut, AtMostOne, NoneOut
  <1>18. Outs(u, h, 0)
    BY <1>17 DEF Outs
  <1>19. QED BY <1>15, <1>16, <1>18 DEF Good

\* A thread that has done nothing.
LEMMA NewThreadIs ==
  ASSUME NEW signal \in BOOLEAN, NEW r, r = [NewThread EXCEPT !.signal = signal]
  PROVE  /\ ThreadOK(r) /\ r.at = "guest" /\ r.cmds = <<>> /\ r.frames = <<>> /\ ~r.asked /\ ~r.spawn
         /\ \A b : Frees(r, b) = {} /\ Serves(r, b) = {} /\ ~HoldsAt(r, b)
  <1> DEFINE none == Plain("none")
  <1>1. none \in Work
    BY DEF Work, Notes, Plain
  <1>n. r = [at |-> "guest", cmds |-> <<>>, reads |-> FALSE, caller |-> NoThread, work |-> none,
             buf |-> 0, got |-> none, asked |-> FALSE, registered |-> FALSE, takes |-> FALSE,
             signal |-> signal, spawn |-> FALSE, frames |-> <<>>, pool |-> FALSE]
    BY DEF NewThread
  <1> HIDE DEF none
  <1>m. <<>> \in Seq(Commands) /\ <<>> \in Seq(Frames)
    OBVIOUS
  <1>f. r.at = "guest" /\ r.cmds = <<>> /\ r.frames = <<>> /\ ~r.asked /\ ~r.spawn
    BY <1>n
  <1>t. r \in ThreadTypes
    <2>1. NewThread \in ThreadTypes
      BY <1>1, <1>m DEF NewThread, ThreadTypes, none
    <2>2. QED BY <2>1 DEF ThreadTypes
  <1>2. r \in ThreadTypes /\ r.at = "guest" /\ r.cmds = <<>> /\ r.frames = <<>> /\ ~r.asked /\ ~r.spawn
    BY <1>f, <1>t
  <1>3. ThreadOK(r)
    BY <1>2 DEF ThreadOK, Holds
  <1>4. \A b : Frees(r, b) = {} /\ Serves(r, b) = {}
    BY <1>2 DEF Frees, Serves, Hits
  <1>5. \A b : ~HoldsAt(r, b)
    BY <1>2 DEF HoldsAt, Holds
  <1>6. QED BY <1>2, <1>3, <1>4, <1>5

\* The driver opened, with any scenario, satisfies the invariant.
LEMMA InitInv == Init => Inv
  <1> SUFFICES ASSUME Init PROVE Inv
    OBVIOUS
  <1> DEFINE Known(s) == InOrder(DOMAIN s.known)
             NodeOf(s, o) == CHOOSE i \in DOMAIN Known(s) : Known(s)[i] = o
             Refs(s) == [p \in Procs |-> [h \in Handles |->
                          IF h <= Len(Known(s)) /\ p \in s.known[Known(s)[h]] THEN h ELSE 0]]
             node(s) == [n \in Nodes |-> IF n <= Len(Known(s))
                           THEN [NoNode EXCEPT !.obj = Known(s)[n], !.held = TRUE] ELSE NoNode]
             local(s) == [o \in Objects |-> IF o \in DOMAIN s.known THEN NodeOf(s, o) ELSE 0]
             counts(s) == [p \in Procs |-> [h \in Handles |-> IF Refs(s)[p][h] = 0 THEN 0 ELSE 1]]
             Begins(s) ==
               [node |-> node(s), next_node |-> Len(Known(s)) + 1, local |-> local(s),
                refs |-> Refs(s), counts |-> counts(s),
                last_handle |-> [p \in Procs |-> Len(Known(s))],
                pins |-> [n \in Nodes |-> 0],
                todo |-> [p \in Procs |-> <<>>], own |-> [t \in Threads |-> <<>>],
                looper |-> {}, idle |-> {}, serving |-> [t \in Threads |-> <<>>],
                awaiting |-> [t \in Threads |-> 0], spawn_requested |-> [p \in Procs |-> 0],
                max_threads |-> s.max_threads, remote |-> s.remote, dead |-> {}, buffers |-> {},
                waiting |-> [p \in Procs |-> <<>>], watching |-> {}, woken |-> {}]
  <1>1. PICK s \in Scenarios :
          /\ program = s.program /\ started = s.started /\ area = s.area
          /\ th = [t \in Threads |-> [NewThread EXCEPT !.signal = t \in s.signals]]
          /\ st = Begins(s)
    BY Zenon DEF Init
  <1>2. exiting = {}
    BY DEF Init
  <1> DEFINE known == Known(s)
  <1>3. known = InOrder(DOMAIN s.known) /\ Starts(s, known, st)
    <2>1. st = Begins(s)
      BY <1>1
    <2> DEFINE a == node(s)
               b == Len(known) + 1
               c == local(s)
               d == Refs(s)
               e == counts(s)
               f == [p \in Procs |-> Len(known)]
               g == [p \in Procs |-> <<>>]
               k == [t \in Threads |-> <<>>]
               l == [p \in Procs |-> 0]
               m == [n \in Nodes |-> 0]
               o == [t \in Threads |-> 0]
    <2>2. st = [node |-> a, next_node |-> b, local |-> c, refs |-> d, counts |-> e, last_handle |-> f,
                pins |-> m, todo |-> g, own |-> k, looper |-> {}, idle |-> {}, serving |-> k,
                awaiting |-> o, spawn_requested |-> l,
                max_threads |-> s.max_threads, remote |-> s.remote, dead |-> {}, buffers |-> {},
                waiting |-> g, watching |-> {}, woken |-> {}]
      BY <2>1
    <2> HIDE DEF a, b, c, d, e, f, g, k, l, m, o, Begins
    <2>3. /\ st.node = a /\ st.next_node = b /\ st.local = c /\ st.refs = d /\ st.last_handle = f
          /\ st.todo = g /\ st.own = k /\ st.serving = k /\ st.spawn_requested = l /\ st.dead = {} /\ st.buffers = {}
      BY <2>2
    <2>4. BrokerFields \subseteq DOMAIN st
      BY <2>2 DEF BrokerFields
    <2>5. Starts(s, known, st)
      BY <2>3, <2>4, Zenon DEF Starts, a, b, c, d, f, g, k, l
    <2>6. QED BY <2>5
  <1> HIDE DEF known, Begins, Known, NodeOf, Refs, node, local, counts
  <1>4. /\ program \in [Threads -> Seq(Ops)] /\ started \subseteq Threads /\ area \in [Procs -> SUBSET Buffers]
        /\ \A t \in Threads : \A i \in DOMAIN program[t] : program[t][i].c = "register" => i = 1 /\ t \notin started
    BY <1>1, ScenarioAssumption
  <1>5. ASSUME NEW t \in Threads
        PROVE  /\ ThreadOK(th[t]) /\ th[t] \in ThreadTypes /\ th[t].at = "guest" /\ th[t].cmds = <<>>
               /\ th[t].frames = <<>> /\ ~th[t].asked /\ ~th[t].spawn
               /\ \A b : Frees(th[t], b) = {} /\ Serves(th[t], b) = {} /\ ~HoldsAt(th[t], b)
    <2> DEFINE signal == t \in s.signals
               r == th[t]
    <2>1. signal \in BOOLEAN /\ r = [NewThread EXCEPT !.signal = signal]
      BY <1>1
    <2> HIDE DEF signal, r
    <2>2. /\ ThreadOK(r) /\ r.at = "guest" /\ r.cmds = <<>> /\ r.frames = <<>> /\ ~r.asked /\ ~r.spawn
          /\ \A b : Frees(r, b) = {} /\ Serves(r, b) = {} /\ ~HoldsAt(r, b)
      BY <2>1, NewThreadIs
    <2>3. QED BY <2>2 DEF r, ThreadOK
  <1>6. TypesOK
    <2>1. th = [t \in Threads |-> th[t]]
      BY <1>1
    <2>2. th \in [Threads -> ThreadTypes]
      BY <1>5, <2>1
    <2>3. QED BY <1>2, <1>4, <1>5, <2>2 DEF TypesOK, GuestOK
  <1>7. SpawnsOK
    <2> SUFFICES ASSUME NEW t \in Threads PROVE SpawnOK(th[t], program[t], t \in started)
      BY DEF SpawnsOK
    <2>1. RegisterIn(program[t]) \subseteq {1}
      BY <1>4 DEF RegisterIn, Hits
    <2>2. RegisterIn(th[t].cmds) = {}
      BY <1>5 DEF RegisterIn, Hits
    <2>3. QED BY <1>5, <2>1, <2>2 DEF SpawnOK, Single
  <1>8. AreasOK
    BY <1>5 DEF AreasOK, Once, Has, Single
  <1>9. RecordsOK
    BY <1>3 DEF RecordsOK, Starts
  <1>10. Good(st, th, 0)
    <2>1. \A t \in Threads : ~InHands(th[t])
      BY <1>5 DEF InHands
    <2>2. QED BY <1>3, <2>1, StartsGood
  <1>11. SpawnCounted
    <2>1. ASSUME NEW p \in Procs PROVE Counted(st, th, program, started, p)
      <3>1. {t \in ThreadsOf(p) : Owed(th[t])} = {}
        BY <1>5 DEF Owed, ThreadsOf
      <3>2. {t \in ThreadsOf(p) \cap started : Registers(th[t], program[t])} = {}
        <4>1. ASSUME NEW t \in Threads, t \in started PROVE ~Registers(th[t], program[t])
          <5>1. DOMAIN th[t].cmds = {}
            BY <1>5
          <5>2. program[t] # <<>> => 1 \in DOMAIN program[t] /\ Head(program[t]) = program[t][1]
            BY <1>4
          <5>3. QED BY <1>4, <4>1, <5>1, <5>2 DEF Registers
        <4>2. QED BY <4>1 DEF ThreadsOf
      <3>3. st.spawn_requested[p] = 0
        BY <1>3 DEF Starts
      <3>4. QED BY <3>1, <3>2, <3>3, FS_EmptySet DEF Counted
    <2>2. QED BY <2>1, CountedIs
  <1>12. QED BY <1>6, <1>7, <1>8, <1>9, <1>10, <1>11 DEF Inv

-----------------------------------------------------------------------------
(* Every step, and what follows.                                           *)

\* Every command written keeps it.
LEMMA WriteKeeps ==
  ASSUME Inv, NEW t \in Threads, Write(t), UNCHANGED guest
  PROVE  Inv'
  <1>1. CASE Transaction(t)
    BY <1>1, TransactionKeeps
  <1>2. CASE ReplyBegin(t)
    BY <1>2, ReplyBeginKeeps
  <1>3. CASE Reply(t)
    BY <1>3, ReplyKeeps
  <1>4. CASE FreeBuffer(t)
    BY <1>4, FreeBufferKeeps
  <1>5. CASE CountHandle(t)
    BY <1>5, CountHandleKeeps
  <1>6. CASE Acquired(t)
    BY <1>6, AcquiredKeeps
  <1>7. CASE EnterLooper(t)
    BY <1>7, EnterLooperKeeps
  <1>8. CASE WatchDeath(t)
    BY <1>8, WatchDeathKeeps
  <1>9. CASE ClearDeath(t)
    BY <1>9, ClearDeathKeeps
  <1>10. QED BY <1>1, <1>2, <1>3, <1>4, <1>5, <1>6, <1>7, <1>8, <1>9 DEF Write

\* Every step of a read keeps it.
LEMMA ReadKeeps ==
  ASSUME Inv, NEW t \in Threads, Read(t), UNCHANGED guest
  PROVE  Inv'
  <1>1. CASE TakeOwn(t)
    BY <1>1, TakeOwnKeeps
  <1>2. CASE TakeProc(t)
    BY <1>2, TakeProcKeeps
  <1>3. CASE ReadEnds(t)
    BY <1>3, ReadEndsKeeps
  <1>4. CASE Look(t)
    BY <1>4, LookKeeps
  <1>5. CASE Watch(t)
    BY <1>5, WatchKeeps
  <1>6. CASE Woken(t)
    BY <1>6, WakesKeeps DEF Woken
  <1>7. CASE Interrupted(t)
    BY <1>7, InterruptedKeeps
  <1>8. CASE Deliver(t)
    BY <1>8, DeliverKeeps
  <1>9. CASE Place(t)
    BY <1>9, PlaceKeeps
  <1>10. CASE Undelivered(t)
    BY <1>10, UndeliveredKeeps
  <1>11. CASE RecordBuffer(t)
    BY <1>11, RecordBufferKeeps
  <1>12. CASE Hand(t)
    BY <1>12, HandKeeps
  <1>13. CASE TakeBack(t)
    BY <1>13, TakeBackKeeps
  <1>14. CASE ReadDone(t)
    BY <1>14, ReadDoneKeeps
  <1>15. QED BY <1>1, <1>2, <1>3, <1>4, <1>5, <1>6, <1>7, <1>8, <1>9, <1>10, <1>11, <1>12, <1>13, <1>14 DEF Read

\* Every step of a thread keeps it.
LEMMA StepKeeps ==
  ASSUME Inv, NEW t \in Threads, Step(t)
  PROVE  Inv'
  <1>1. CASE Begin(t)
    BY <1>1, BeginKeeps
  <1>2. CASE Continue(t)
    BY <1>2, ContinueKeeps
  <1>3. CASE CallBack(t)
    BY <1>3, CallBackKeeps
  <1>4. CASE SendReply(t)
    BY <1>4, SendReplyKeeps
  <1>5. CASE Served(t)
    BY <1>5, ServedKeeps
  <1>6. CASE Execute(t)
    BY <1>6, ExecuteKeeps
  <1>7. CASE Exit(t)
    BY <1>7, ExitKeeps
  <1>8. CASE Write(t) /\ UNCHANGED guest
    BY <1>8, WriteKeeps
  <1>9. CASE ThreadExit(t) /\ UNCHANGED guest
    BY <1>9, ThreadExitKeeps
  <1>10. CASE Read(t) /\ UNCHANGED guest
    BY <1>10, ReadKeeps
  <1>11. QED
    BY <1>1, <1>2, <1>3, <1>4, <1>5, <1>6, <1>7, <1>8, <1>9, <1>10 DEF Step, GuestStep, DriverStep

\* Every step keeps it.
LEMMA NextInv == Inv /\ [Next]_vars => Inv'
  <1> SUFFICES ASSUME Inv, [Next]_vars PROVE Inv'
    OBVIOUS
  <1>1. CASE UNCHANGED vars
    <2>1. /\ st' = st /\ area' = area /\ th' = th /\ exiting' = exiting /\ program' = program /\ started' = started
      BY <1>1 DEF vars, driver, guest
    <2>2. /\ TypesOK /\ SpawnsOK /\ AreasOK /\ RecordsOK /\ SpawnCounted /\ Good(st, th, 0)
      BY DEF Inv
    <2>3. TypesOK' /\ SpawnsOK' /\ AreasOK' /\ RecordsOK'
      BY <2>1, <2>2 DEF TypesOK, GuestOK, SpawnsOK, AreasOK, RecordsOK
    <2>4. SpawnCounted'
      BY <2>1, <2>2, CountedIs, CountedNext
    <2>5. Good(st', th', 0)
      BY <2>1, <2>2
    <2>6. QED BY <2>3, <2>4, <2>5 DEF Inv
  <1>2. ASSUME NEW t \in Threads, Step(t) PROVE Inv'
    BY <1>2, StepKeeps
  <1>3. ASSUME NEW t \in Threads, Slice(t), UNCHANGED guest PROVE Inv'
    BY <1>3, WakesKeeps DEF Slice
  <1>4. ASSUME NEW p \in Procs, Release(p), UNCHANGED guest PROVE Inv'
    BY <1>4, ReleaseKeeps
  <1>5. QED BY <1>1, <1>2, <1>3, <1>4 DEF Next

\* A set without two elements has one or none.
LEMMA Sizes ==
  ASSUME NEW X, \A x, y \in X : x = y
  PROVE  Cardinality(X) = IF X = {} THEN 0 ELSE 1
  <1>1. CASE X = {}
    BY <1>1, FS_EmptySet
  <1>2. CASE X # {}
    <2>1. PICK x \in X : X = {x}
      BY <1>2
    <2>2. QED BY <1>2, <2>1, FS_Singleton
  <1>3. QED BY <1>1, <1>2

\* A oneway of a node is queued for its process, as work nobody else has.
Queued(n) == UNION {{p} \X {i \in DOMAIN st.todo[p] : IsAsync(st.todo[p][i], n)} : p \in Procs}
Taken(n) == UNION {{t} \X {i \in DOMAIN (st.own[t] \o Taking(t)) : IsAsync((st.own[t] \o Taking(t))[i], n)}
                   : t \in Threads}

\* A node's oneways in all queues are those in its owner's.
LEMMA QueuedIs ==
  ASSUME Inv, NEW n \in Nodes, st.node[n].obj \in Objects, NEW p, p = owner[st.node[n].obj]
  PROVE  Queued(n) = {p} \X InQueue(st, n, p)
  <1>1. p \in Procs /\ PlacesOK(st)
    BY BrokerAssumption, GoodNow DEF BrokerOK
  <1>2. n # 0
    BY DEF Nodes
  <1>3. \A q \in Procs : \A i \in DOMAIN st.todo[q] : IsAsync(st.todo[q][i], n) => q = p
    BY <1>1, <1>2 DEF PlacesOK, At, IsAsync
  <1>4. QED BY <1>1, <1>3 DEF Queued, InQueue

\* A node's oneways with threads are those in a hand.
LEMMA TakenIs ==
  ASSUME Inv, NEW n \in Nodes
  PROVE  Taken(n) = {<<t, Len(st.own[t]) + 1>> : t \in InHand(th, n)}
  <1>1. n # 0 /\ st.own \in [Threads -> Seq(Sync)]
    BY GoodNow DEF Nodes, BrokerOK, QueuesOK
  <1>2. ASSUME NEW t \in Threads
        PROVE  {i \in DOMAIN (st.own[t] \o Taking(t)) : IsAsync((st.own[t] \o Taking(t))[i], n)}
               = IF t \in InHand(th, n) THEN {Len(st.own[t]) + 1} ELSE {}
    <2> DEFINE own == st.own[t]
               all == own \o Taking(t)
    <2>1. own \in Seq(Sync)
      BY <1>1
    <2>2. \A i \in DOMAIN own : ~IsAsync(own[i], n)
      <3>1. \A i \in DOMAIN own : own[i] \in Sync
        BY <2>1
      <3>2. QED BY <1>1, <3>1 DEF Sync, IsAsync
    <2>3. CASE InHands(th[t])
      <3>1. Taking(t) = <<th[t].work>>
        BY <2>3 DEF Taking, InHands
      <3> DEFINE w == th[t].work
                 m == Len(own)
      <3> HIDE DEF own
      <3>2. m \in Nat /\ DOMAIN own = 1 .. m
        BY <2>1
      <3>3. DOMAIN all = 1 .. m + 1 /\ (\A i \in 1 .. m : all[i] = own[i]) /\ all[m + 1] = w
        BY <2>1, <3>1, <3>2
      <3>4. t \in InHand(th, n) <=> IsAsync(w, n)
        BY <2>3 DEF InHand
      <3> HIDE DEF w, m, all
      <3>5. \A i \in DOMAIN all : IsAsync(all[i], n) <=> i = m + 1 /\ IsAsync(w, n)
        BY <2>2, <3>2, <3>3
      <3>6. {i \in DOMAIN all : IsAsync(all[i], n)} = IF t \in InHand(th, n) THEN {m + 1} ELSE {}
        BY <3>2, <3>3, <3>4, <3>5
      <3>7. QED BY <3>6 DEF all, m, own
    <2>4. CASE ~InHands(th[t])
      <3>1. Taking(t) = <<>> /\ t \notin InHand(th, n)
        BY <2>4 DEF Taking, InHands, InHand
      <3>2. all = own
        BY <2>1, <3>1
      <3>3. QED BY <2>2, <3>1, <3>2
    <2>5. QED BY <2>3, <2>4
  <1>3. InHand(th, n) \subseteq Threads
    BY DEF InHand
  <1>4. QED BY <1>2, <1>3 DEF Taken

\* The invariant says of each node what OneWayOut says: one at a time is a count of one.
LEMMA OneWayIs == Inv => OneWayOut
  <1> SUFFICES ASSUME Inv, NEW n \in Nodes, st.node[n].obj # NoObject, owner[st.node[n].obj] \notin st.dead
               PROVE  /\ Cardinality(Queued(n)) + Cardinality(Taken(n)) + Cardinality(InBuffer(st, n))
                         = IF st.node[n].has_async THEN 1 ELSE 0
                      /\ st.node[n].async_todo # <<>> => st.node[n].has_async
    BY DEF OneWayOut, Works, In, Queued, Taken, IsAsync, InBuffer
  <1> DEFINE p == owner[st.node[n].obj]
             Q == InQueue(st, n, p)
             H == InHand(th, n)
             B == InBuffer(st, n)
  <1>1. st.node[n].obj \in Objects /\ st.node[n].has_async \in BOOLEAN
    <2>1. st.node[n] \in MadeNodes \cup {NoNode}
      BY GoodNow DEF BrokerOK, NodesOK
    <2>2. QED BY <2>1 DEF MadeNodes, NoNode
  <1>2. OneOut(st, th, n)
    BY DEF Inv, Good, Outs, Nodes
  <1>3. /\ AtMostOne(Q, H, B) /\ (st.node[n].has_async <=> ~NoneOut(Q, H, B))
        /\ st.node[n].async_todo # <<>> => st.node[n].has_async
    BY <1>1, <1>2 DEF OneOut
  <1>4. Queued(n) = {p} \X Q
    BY <1>1, QueuedIs
  <1>5. Taken(n) = {<<t, Len(st.own[t]) + 1>> : t \in H}
    BY TakenIs
  <1> HIDE DEF Q, H, B, p
  <1>6. Cardinality(Queued(n)) = IF Q = {} THEN 0 ELSE 1
    <2>1. \A x, y \in Queued(n) : x = y
      BY <1>3, <1>4 DEF AtMostOne
    <2>a. \A i \in Q : <<p, i>> \in Queued(n)
      BY <1>4
    <2>b. \A x \in Queued(n) : \E i \in Q : x = <<p, i>>
      BY <1>4
    <2>2. Queued(n) = {} <=> Q = {}
      BY <2>a, <2>b
    <2>3. QED BY <2>1, <2>2, Sizes
  <1>7. Cardinality(Taken(n)) = IF H = {} THEN 0 ELSE 1
    <2>1. \A x, y \in Taken(n) : x = y
      BY <1>3, <1>5 DEF AtMostOne
    <2>2. Taken(n) = {} <=> H = {}
      BY <1>5
    <2>3. QED BY <2>1, <2>2, Sizes
  <1>8. Cardinality(B) = IF B = {} THEN 0 ELSE 1
    BY <1>3, Sizes DEF AtMostOne
  <1>9. QED BY <1>1, <1>3, <1>6, <1>7, <1>8 DEF AtMostOne, NoneOut, B

\* The requests of a process for loopers are those owed to a reader or to a looper about to
\* register, whatever reads fail, are interrupted or find more work after they asked
\* (binder.rs 1913-1938), and whichever loopers register or leave meanwhile.
THEOREM SpawnsCounted == Spec => []SpawnCounted
  <1>1. Init => Inv
    BY InitInv
  <1>2. Inv /\ [Next]_vars => Inv'
    BY NextInv
  <1>3. Inv => SpawnCounted
    BY DEF Inv
  <1>4. QED BY <1>1, <1>2, <1>3, PTL DEF Spec

\* A node with a oneway out has exactly one, in its owner's queue, in a reader's hands or in a
\* buffer, and the others wait behind it; it goes out of every failed delivery, free, drop and
\* end of a process (binder.rs 559-568, 738-754, 1553-1570, 2205-2262) with the next one sent.
THEOREM OneWaysOut == Spec => []OneWayOut
  <1>1. Init => Inv
    BY InitInv
  <1>2. Inv /\ [Next]_vars => Inv'
    BY NextInv
  <1>3. Inv => OneWayOut
    BY OneWayIs
  <1>4. QED BY <1>1, <1>2, <1>3, PTL DEF Spec
===============================================================================

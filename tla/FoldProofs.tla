------------------------------ MODULE FoldProofs ------------------------------
(***************************************************************************)
(* What a fold over a sequence keeps, for any operation and predicate.     *)
(***************************************************************************)
EXTENDS Integers, Sequences, WellFoundedInduction, TLAPS

CONSTANTS Op(_, _, _),   \* one step of a fold: a context, what there is so far, an element
          Kept(_, _)     \* what a fold keeps, in a context of its own

\* A set of numbers that has one has a least one.
LEMMA Least ==
  ASSUME NEW T \in SUBSET Nat, T # {}
  PROVE  \E m \in T : \A k \in T : m <= k
  <1> DEFINE R == OpToRel(<, Nat)
  <1>1. IsWellFoundedOn(R, Nat)
    BY NatLessThanWellFounded
  <1>2. \A k, m \in Nat : k < m => <<k, m>> \in R
    BY DEF OpToRel
  <1> HIDE DEF R
  <1>3. PICK m \in T : \A k \in T : ~(<<k, m>> \in R)
    BY <1>1, WFMin
  <1>4. \A k \in T : k \in Nat /\ m \in Nat
    OBVIOUS
  <1>5. ASSUME NEW k \in T PROVE m <= k
    <2>1. k \in Nat /\ m \in Nat
      BY <1>4
    <2>2. ~(<<k, m>> \in R)
      BY <1>3
    <2>3. ~(k < m)
      BY ONLY <1>2, <2>1, <2>2
    <2>4. QED BY <2>1, <2>3
  <1>6. QED BY <1>5

\* The last of the indices in s, and what a fold over them gives, if f is what it gives over fewer.
Max(s) == CHOOSE m \in s : \A i \in s : m >= i
Body(k, base, seq, f, s) == IF s = {} THEN base ELSE Op(k, f[s \ {Max(s)}], seq[Max(s)])

\* The last of indices that go up to m + 1 and have it.
LEMMA MaxIs ==
  ASSUME NEW m \in Nat, NEW s \in SUBSET (1 .. m + 1), m + 1 \in s
  PROVE  Max(s) = m + 1
  <1>1. m + 1 \in s /\ \A y \in s : m + 1 >= y
    OBVIOUS
  <1>2. \A x \in s : (\A y \in s : x >= y) => x = m + 1
    OBVIOUS
  <1>3. QED BY <1>1, <1>2 DEF Max

\* The last of some indices is one of them.
LEMMA MaxIn ==
  ASSUME NEW m \in Nat, NEW s \in SUBSET (1 .. m), s # {}
  PROVE  Max(s) \in s
  <1> DEFINE T == {j \in Nat : \A x \in s : x <= j}
  <1>1. m \in T
    OBVIOUS
  <1>2. PICK j \in T : \A l \in T : j <= l
    BY <1>1, Least
  <1>3. j \in s
    <2> SUFFICES ASSUME j \notin s PROVE FALSE
      OBVIOUS
    <2>0. PICK x \in s : TRUE
      OBVIOUS
    <2>1. j # 0
      BY <2>0
    <2>2. j - 1 \in T
      BY <2>1
    <2>3. QED BY <2>2, <1>2
  <1>4. \A y \in s : j >= y
    OBVIOUS
  <1>5. QED BY <1>3, <1>4 DEF Max

\* For every set of indices, level by level, there is what a fold over it gives.
LEMMA Levels ==
  ASSUME NEW k, NEW base, NEW seq, NEW n \in Nat
  PROVE  \A m \in 0 .. n : \E g : \A s \in SUBSET (1 .. m) : g[s] = Body(k, base, seq, g, s)
  <1> DEFINE Good(m) == \E g : \A s \in SUBSET (1 .. m) : g[s] = Body(k, base, seq, g, s)
             T == {m \in 0 .. n : ~Good(m)}
  <1> SUFFICES ASSUME T # {} PROVE FALSE
    OBVIOUS
  <1> HIDE DEF Good
  <1>0. T \in SUBSET Nat
    OBVIOUS
  <1> HIDE DEF T
  <1>1. PICK m \in T : \A l \in T : m <= l
    BY <1>0, Least
  <1>2. CASE m = 0
    <2> DEFINE g == [s \in SUBSET (1 .. 0) |-> base]
    <2>1. \A s \in SUBSET (1 .. 0) : g[s] = Body(k, base, seq, g, s)
      BY DEF Body
    <2> HIDE DEF g
    <2>2. Good(m)
      BY <2>1, <1>2 DEF Good
    <2>3. QED BY <2>2 DEF T
  <1>3. CASE m # 0
    <2>1. m - 1 \in 0 .. n /\ m - 1 \in Nat /\ m \in Nat
      BY <1>3 DEF T
    <2>2. Good(m - 1)
      BY <2>1, <1>1 DEF T
    <2>3. PICK f : \A s \in SUBSET (1 .. m - 1) : f[s] = Body(k, base, seq, f, s)
      BY <2>2 DEF Good
    <2> DEFINE g == [s \in SUBSET (1 .. m) |-> IF m \in s THEN Body(k, base, seq, f, s) ELSE f[s]]
    <2>4. ASSUME NEW s \in SUBSET (1 .. m) PROVE g[s] = Body(k, base, seq, g, s)
      <3>1. CASE m \in s
        <4>1. Max(s) = m
          BY <2>1, <3>1, MaxIs
        <4>2. s \ {m} \in SUBSET (1 .. m) /\ m \notin s \ {m}
          OBVIOUS
        <4>3. g[s \ {m}] = f[s \ {m}]
          BY <4>2
        <4>4. g[s] = Body(k, base, seq, f, s)
          BY <3>1
        <4> HIDE DEF g
        <4>5. QED BY <4>1, <4>3, <4>4 DEF Body
      <3>2. CASE m \notin s
        <4>1. s \in SUBSET (1 .. m - 1)
          BY <3>2, <2>1
        <4>2. g[s] = Body(k, base, seq, f, s)
          BY <3>2, <4>1, <2>3
        <4>3. s = {} \/ Max(s) \in s
          BY <2>1, <4>1, MaxIn
        <4>4. s # {} => /\ s \ {Max(s)} \in SUBSET (1 .. m)
                        /\ m \notin s \ {Max(s)}
          BY <3>2
        <4>5. s # {} => g[s \ {Max(s)}] = f[s \ {Max(s)}]
          BY <4>4
        <4> HIDE DEF g
        <4>6. QED BY <4>2, <4>5 DEF Body
      <3>3. QED BY <3>1, <3>2
    <2> HIDE DEF g
    <2>5. Good(m)
      BY <2>4 DEF Good
    <2>6. QED BY <2>5 DEF T
  <1>4. QED BY <1>2, <1>3

\* FoldLeft of the community modules, its definitions written out: an instance of this module
\* then brings no other.
FoldOf(k, base, seq) ==
  LET over[s \in SUBSET (DOMAIN seq)] == Body(k, base, seq, over, s) IN over[DOMAIN seq]

\* A fold as its steps: what there was before each, and what there is at the end.
Runs(k, base, seq, run, end) ==
  /\ run[0] = base
  /\ \A i \in 1 .. Len(seq) : run[i] = Op(k, run[i - 1], seq[i])
  /\ end = run[Len(seq)]

\* A fold goes through the sequence's elements in order: what there is after each is one step
\* from what there was before it, and the fold's result is what there is after the last.  The
\* broker's folds stand for the loops of binder.rs (unpin, release, drop_work).
THEOREM FoldRuns ==
  ASSUME NEW k, NEW base, NEW S, NEW seq \in Seq(S)
  PROVE  \E run : Runs(k, base, seq, run, FoldOf(k, base, seq))
  <1> DEFINE n == Len(seq)
             F(f) == f = [s \in SUBSET (1 .. n) |->
                            IF s = {} THEN base ELSE Op(k, f[s \ {Max(s)}], seq[Max(s)])]
             iter == CHOOSE f : F(f)
  <1>1. n \in Nat /\ DOMAIN seq = 1 .. n
    OBVIOUS
  <1>2. \E f : F(f)
    <2>1. PICK g : \A s \in SUBSET (1 .. n) : g[s] = Body(k, base, seq, g, s)
      <3>1. n \in 0 .. n
        BY <1>1
      <3>2. \A m \in 0 .. n : \E g : \A s \in SUBSET (1 .. m) : g[s] = Body(k, base, seq, g, s)
        BY <1>1, Levels
      <3>3. QED BY <3>1, <3>2
    <2> DEFINE f == [s \in SUBSET (1 .. n) |-> g[s]]
    <2>2. ASSUME NEW s \in SUBSET (1 .. n)
          PROVE  f[s] = IF s = {} THEN base ELSE Op(k, f[s \ {Max(s)}], seq[Max(s)])
      <3>1. s \ {Max(s)} \in SUBSET (1 .. n)
        OBVIOUS
      <3>2. QED BY <3>1, <2>1 DEF Body
    <2>3. F(f)
      BY <2>2, Zenon
    <2>4. QED BY <2>3
  <1>3. F(iter)
    BY <1>2
  <1>4. FoldOf(k, base, seq) = iter[1 .. n]
    BY <1>1 DEF FoldOf, Body
  <1> HIDE DEF iter
  <1> DEFINE run == [i \in 0 .. n |-> iter[1 .. i]]
  <1>5. run[0] = base
    BY <1>1, <1>3
  <1>6. ASSUME NEW i \in 1 .. n PROVE run[i] = Op(k, run[i - 1], seq[i])
    <2>1. Max(1 .. i) = i
      <3>1. i - 1 \in Nat /\ 1 .. i = 1 .. (i - 1) + 1 /\ i = (i - 1) + 1
        BY <1>1
      <3>2. 1 .. i \in SUBSET (1 .. (i - 1) + 1) /\ (i - 1) + 1 \in 1 .. i
        BY <3>1, <1>1
      <3>3. Max(1 .. i) = (i - 1) + 1
        BY <3>1, <3>2, MaxIs
      <3>4. QED BY <3>1, <3>3
    <2>2. (1 .. i) \ {i} = 1 .. i - 1 /\ 1 .. i # {} /\ 1 .. i \in SUBSET (1 .. n)
      BY <1>1
    <2>3. iter[1 .. i] = Op(k, iter[(1 .. i) \ {i}], seq[i])
      BY <2>1, <2>2, <1>3
    <2>4. QED BY <2>2, <2>3, <1>1
  <1>7. run[n] = iter[1 .. n]
    BY <1>1
  <1> HIDE DEF run
  <1>8. QED BY <1>4, <1>5, <1>6, <1>7 DEF Runs

\* What holds at first and is kept by each step holds at the end.
THEOREM FoldKeeps ==
  ASSUME NEW k, NEW c, NEW base, NEW S, NEW seq \in Seq(S),
         Kept(c, base),
         \A s : \A i \in DOMAIN seq : Kept(c, s) => Kept(c, Op(k, s, seq[i]))
  PROVE  Kept(c, FoldOf(k, base, seq))
  <1>1. PICK run : Runs(k, base, seq, run, FoldOf(k, base, seq))
    BY FoldRuns
  <1> DEFINE n == Len(seq)
             T == {i \in 0 .. n : ~Kept(c, run[i])}
  <1>2. n \in Nat /\ DOMAIN seq = 1 .. n
    OBVIOUS
  <1>3. T = {}
    <2> SUFFICES ASSUME T # {} PROVE FALSE
      OBVIOUS
    <2>1. PICK i \in T : \A j \in T : i <= j
      <3>1. T \in SUBSET Nat
        BY <1>2
      <3> HIDE DEF T
      <3>2. QED BY <3>1, Least
    <2>2. i # 0
      BY <1>1 DEF Runs
    <2>3. i - 1 \in 0 .. n /\ i - 1 \notin T /\ i \in 1 .. n
      BY <2>1, <2>2, <1>2
    <2>4. Kept(c, run[i - 1])
      BY <2>3
    <2>5. QED BY <2>3, <2>4, <1>1, <1>2 DEF Runs
  <1>4. Kept(c, run[n])
    BY <1>2, <1>3
  <1>5. QED BY <1>1, <1>4 DEF Runs
===============================================================================

-------------------------------- MODULE Loops --------------------------------
(****************************************************************************)
(* Lemmas about loops, for the proofs about the modules that have some: a   *)
(* recursive function that calls itself last exists, and what its rounds    *)
(* keep tells of its result.                                                *)
(****************************************************************************)
EXTENDS Integers, WellFoundedInduction, TLAPS

(****************************************************************************)
(* Loops.  The code's loops are functions that call themselves last.  A     *)
(* loop on the states S stops in the states of "stop", where its result is  *)
(* res[x], and otherwise goes on from next[x].                              *)
(****************************************************************************)

(* Every nonempty set of natural numbers has a least element. *)
LEMMA LeastNat ==
    ASSUME NEW T \in SUBSET Nat, T # {}
    PROVE  \E n \in T : \A m \in T : n <= m
<1>1. PICK n \in T : \A m \in T : ~(<<m, n>> \in OpToRel(<, Nat))
  BY WFMin, NatLessThanWellFounded
<1>2. ASSUME NEW m \in T, m < n PROVE FALSE
  <2>1. <<m, n>> \in Nat \X Nat /\ <<m, n>>[1] < <<m, n>>[2]
    BY <1>2
  <2>2. <<m, n>> \in OpToRel(<, Nat)
    BY <2>1 DEF OpToRel
  <2> QED  BY <2>2, <1>1
<1> QED  BY <1>2

(* A set of states on which a measure is defined has a state of least measure. *)
LEMMA LeastState ==
    ASSUME NEW S, NEW measure \in [S -> Nat], NEW T \in SUBSET S, T # {}
    PROVE  \E x \in T : \A y \in T : measure[x] <= measure[y]
<1> DEFINE M == {measure[x] : x \in T}
<1>1. PICK n \in M : \A m \in M : n <= m
  <2>1. M \in SUBSET Nat /\ M # {}
    OBVIOUS
  <2> HIDE DEF M
  <2> QED  BY <2>1, LeastNat
<1> QED  BY <1>1

(* g computes the loop. *)
IsLoop(g, S, stop, res, next) ==
    g = [x \in S |-> IF x \in stop THEN res[x] ELSE g[next[x]]]

(* The measure falls with every round. *)
Falls(measure, S, stop, next) ==
    /\ measure \in [S -> Nat]
    /\ \A x \in S \ stop : next[x] \in S /\ measure[next[x]] < measure[x]

(* Two functions that compute the loop on sets of states that the loop does  *)
(* not leave agree where both are defined.                                   *)
LEMMA LoopUnique ==
    ASSUME NEW S, NEW stop, NEW res, NEW next, NEW measure,
           Falls(measure, S, stop, next),
           NEW A \in SUBSET S, NEW B \in SUBSET S,
           \A x \in A \ stop : next[x] \in A,
           \A x \in B \ stop : next[x] \in B,
           NEW g, IsLoop(g, A, stop, res, next),
           NEW h, IsLoop(h, B, stop, res, next)
    PROVE  \A x \in A \cap B : g[x] = h[x]
<1> DEFINE T == {x \in A \cap B : g[x] # h[x]}
<1>1. ASSUME T # {} PROVE FALSE
  <2>1. PICK x \in T : \A y \in T : measure[x] <= measure[y]
    BY <1>1, LeastState DEF Falls
  <2>2. x \in S /\ x \in A /\ x \in B /\ g[x] # h[x]
    BY <2>1
  <2>3. CASE x \in stop
    BY <2>2, <2>3 DEF IsLoop
  <2>4. CASE x \notin stop
    <3>1. g[x] = g[next[x]] /\ h[x] = h[next[x]]
      BY <2>2, <2>4 DEF IsLoop
    <3>2. next[x] \in A \cap B /\ measure[next[x]] < measure[x]
      BY <2>2, <2>4 DEF Falls
    <3>3. next[x] \in T
      BY <3>1, <3>2, <2>2
    <3>4. measure[x] \in Nat /\ measure[next[x]] \in Nat
      BY <2>2, <3>2 DEF Falls
    <3> QED  BY <2>1, <3>2, <3>3, <3>4
  <2> QED  BY <2>3, <2>4
<1> QED  BY <1>1

(* A loop with a measure is defined: some function computes it. *)
LEMMA LoopDefined ==
    ASSUME NEW S, NEW stop, NEW res, NEW next, NEW measure,
           Falls(measure, S, stop, next)
    PROVE  \E g : IsLoop(g, S, stop, res, next)
<1> DEFINE Below(n) == {x \in S : measure[x] < n}
<1>1. ASSUME NEW n \in Nat
      PROVE  \A x \in Below(n) \ stop : next[x] \in Below(n)
  BY DEF Falls
<1>2. ASSUME NEW n \in Nat, NEW x \in Below(n + 1) \ stop
      PROVE  next[x] \in Below(n)
  BY DEF Falls
<1>3. \A n \in Nat : \E g : IsLoop(g, Below(n), stop, res, next)
  <2> DEFINE T == {n \in Nat : ~\E g : IsLoop(g, Below(n), stop, res, next)}
  <2>1. ASSUME T # {} PROVE FALSE
    <3>1. PICK n \in T : \A m \in T : n <= m
      BY <2>1, LeastNat
    <3>2. CASE n = 0
      <4>1. Below(0) = {}
        BY DEF Falls
      <4>2. IsLoop([x \in {} |-> 0], {}, stop, res, next)
        BY DEF IsLoop
      <4> QED  BY <4>1, <4>2, <3>1, <3>2
    <3>3. CASE n # 0
      <4>1. n - 1 \in Nat /\ n - 1 \notin T
        <5>1. n \in Nat
          BY <3>1
        <5> HIDE DEF T
        <5> QED  BY <5>1, <3>1, <3>3
      <4>2. PICK g : IsLoop(g, Below(n - 1), stop, res, next)
        BY <4>1
      <4> DEFINE h == [x \in Below(n) |-> IF x \in stop THEN res[x] ELSE g[next[x]]]
      <4>3. ASSUME NEW x \in Below(n), x \notin stop
            PROVE  h[next[x]] = g[next[x]]
        <5>1. next[x] \in Below(n - 1) /\ next[x] \in Below(n)
          BY <1>1, <1>2, <4>1, <4>3
        <5> HIDE DEF Below
        <5> QED  BY <5>1, <4>2 DEF IsLoop
      <4>4. h = [x \in Below(n) |-> IF x \in stop THEN res[x] ELSE h[next[x]]]
        <5> HIDE DEF Below
        <5>1. \A x \in Below(n) : h[x] = IF x \in stop THEN res[x] ELSE h[next[x]]
          BY <4>3
        <5> QED  BY <5>1
      <4>5. IsLoop(h, Below(n), stop, res, next)
        BY <4>4 DEF IsLoop
      <4> QED  BY <4>5, <3>1
    <3> QED  BY <3>2, <3>3
  <2> QED  BY <2>1
<1> DEFINE G(n) == CHOOSE g : IsLoop(g, Below(n), stop, res, next)
           f == [x \in S |-> G(measure[x] + 1)[x]]
<1>4. ASSUME NEW n \in Nat PROVE IsLoop(G(n), Below(n), stop, res, next)
  BY <1>3
<1>5. ASSUME NEW x \in S
      PROVE  f[x] = IF x \in stop THEN res[x] ELSE f[next[x]]
  <2> DEFINE n == measure[x] + 1
  <2>1. n \in Nat /\ measure[x] \in Nat /\ x \in Below(n)
    BY DEF Falls
  <2>2. f[x] = G(n)[x]
    OBVIOUS
  <2>3. G(n)[x] = IF x \in stop THEN res[x] ELSE G(n)[next[x]]
    <3> HIDE DEF Below, G, n
    <3> QED  BY <2>1, <1>4 DEF IsLoop
  <2>4. CASE x \in stop
    BY <2>2, <2>3, <2>4
  <2>5. CASE x \notin stop
    <3> DEFINE y == next[x]
               k == measure[y] + 1
    <3>1. y \in S /\ y \in Below(n)
      BY <1>1, <2>1, <2>5 DEF Falls
    <3>2. k \in Nat /\ y \in Below(k)
      BY <3>1 DEF Falls
    <3>3. G(n)[y] = G(k)[y]
      <4> HIDE DEF G, n, k, y
      <4>1. Below(n) \in SUBSET S /\ Below(k) \in SUBSET S
        OBVIOUS
      <4>2. /\ \A z \in Below(n) \ stop : next[z] \in Below(n)
            /\ \A z \in Below(k) \ stop : next[z] \in Below(k)
        BY <1>1, <2>1, <3>2
      <4>3. /\ IsLoop(G(n), Below(n), stop, res, next)
            /\ IsLoop(G(k), Below(k), stop, res, next)
        BY <1>4, <2>1, <3>2
      <4> HIDE DEF Below
      <4>4. \A z \in Below(n) \cap Below(k) : G(n)[z] = G(k)[z]
        BY <4>1, <4>2, <4>3, LoopUnique
      <4> QED  BY <4>4, <3>1, <3>2
    <3>4. f[y] = G(k)[y]
      BY <3>1
    <3> QED  BY <2>2, <2>3, <2>5, <3>3, <3>4
  <2> QED  BY <2>4, <2>5
<1>6. f = [x \in S |-> IF x \in stop THEN res[x] ELSE f[next[x]]]
  <2> HIDE DEF G
  <2>1. DOMAIN f = S /\ f = [x \in S |-> f[x]]
    OBVIOUS
  <2> HIDE DEF f
  <2> QED  BY <2>1, <1>5
<1> QED  BY <1>6 DEF IsLoop

(* Every round keeps the state in inv, and a result from there is in good. *)
Keeps(inv, good, S, stop, res, next) ==
    /\ inv \subseteq S
    /\ \A x \in inv \ stop : next[x] \in inv
    /\ \A x \in inv \cap stop : res[x] \in good

(* What the rounds keep tells of the result. *)
LEMMA LoopRule ==
    ASSUME NEW S, NEW stop, NEW res, NEW next, NEW measure,
           Falls(measure, S, stop, next),
           NEW g, IsLoop(g, S, stop, res, next),
           NEW inv, NEW good, Keeps(inv, good, S, stop, res, next)
    PROVE  \A x \in inv : g[x] \in good
<1> DEFINE T == {x \in inv : g[x] \notin good}
<1>1. ASSUME T # {} PROVE FALSE
  <2>1. PICK x \in T : \A y \in T : measure[x] <= measure[y]
    <3>1. T \in SUBSET S /\ measure \in [S -> Nat]
      BY DEF Falls, Keeps
    <3> HIDE DEF T
    <3> QED  BY <1>1, <3>1, LeastState
  <2>2. x \in S /\ x \in inv /\ g[x] \notin good
    BY <2>1 DEF Keeps
  <2>3. CASE x \in stop
    BY <2>2, <2>3 DEF IsLoop, Keeps
  <2>4. CASE x \notin stop
    <3>1. g[x] = g[next[x]]
      BY <2>2, <2>4 DEF IsLoop
    <3>2. next[x] \in inv /\ measure[next[x]] < measure[x]
      BY <2>2, <2>4 DEF Falls, Keeps
    <3>3. next[x] \in T
      BY <3>1, <3>2, <2>2
    <3>4. measure[x] \in Nat /\ measure[next[x]] \in Nat
      BY <2>2, <3>2 DEF Falls, Keeps
    <3> QED  BY <2>1, <3>2, <3>3, <3>4
  <2> QED  BY <2>3, <2>4
<1> QED  BY <1>1

(* What holds of n, and of a number when it holds of the next, holds of all   *)
(* from 1 to n; and the same from 1 on.                                      *)
LEMMA Downwards ==
    ASSUME NEW n \in Nat, NEW T \in SUBSET (1..n), n \in T,
           \A i \in 1..(n - 1) : i + 1 \in T => i \in T
    PROVE  \A i \in 1..n : i \in T
<1> DEFINE U == {k \in 0..(n - 1) : n - k \notin T}
<1>1. ASSUME U # {} PROVE FALSE
  <2>1. PICK k \in U : \A j \in U : k <= j
    <3>1. U \in SUBSET Nat
      OBVIOUS
    <3> HIDE DEF U
    <3> QED  BY <1>1, <3>1, LeastNat
  <2>2. k \in 0..(n - 1) /\ n - k \notin T
    BY <2>1
  <2>3. k # 0
    BY <2>2
  <2>4. k - 1 \in 0..(n - 1) /\ ~(k <= k - 1)
    BY <2>2, <2>3
  <2>5. k - 1 \notin U
    <3> HIDE DEF U
    <3> QED  BY <2>1, <2>4
  <2>6. n - (k - 1) \in T
    BY <2>4, <2>5
  <2>7. n - k \in 1..(n - 1) /\ n - (k - 1) = (n - k) + 1
    BY <2>2, <2>3
  <2> QED  BY <2>2, <2>6, <2>7
<1>2. ASSUME NEW i \in 1..n PROVE i \in T
  <2>1. n - i \in 0..(n - 1) /\ n - (n - i) = i
    OBVIOUS
  <2>2. n - i \notin U
    BY <1>1
  <2> QED  BY <2>1, <2>2
<1> QED  BY <1>2

(* Induction from one up to n. *)
LEMMA Upwards ==
    ASSUME NEW n \in Nat, NEW T \in SUBSET (1..n), n # 0 => 1 \in T,
           \A i \in 1..(n - 1) : i \in T => i + 1 \in T
    PROVE  \A i \in 1..n : i \in T
<1> DEFINE U == {k \in 1..n : k \notin T}
<1>1. ASSUME U # {} PROVE FALSE
  <2>1. PICK k \in U : \A j \in U : k <= j
    <3>1. U \in SUBSET Nat
      OBVIOUS
    <3> HIDE DEF U
    <3> QED  BY <1>1, <3>1, LeastNat
  <2>2. k \in 1..n /\ k \notin T
    BY <2>1
  <2>3. k # 1
    BY <2>2
  <2>4. k - 1 \in 1..(n - 1) /\ k - 1 \in 1..n /\ ~(k <= k - 1) /\ (k - 1) + 1 = k
    BY <2>2, <2>3
  <2>5. k - 1 \notin U
    <3> HIDE DEF U
    <3> QED  BY <2>1, <2>4
  <2>6. k - 1 \in T
    BY <2>4, <2>5
  <2> QED  BY <2>2, <2>4, <2>6
<1> QED  BY <1>1
================================================================================

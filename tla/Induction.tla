----------------------------- MODULE Induction -----------------------------
(***************************************************************************)
(* Induction on the natural numbers, stated of sets: the facts the proofs  *)
(* about logs, orders and calendars share.  A set that holds 0 and with n  *)
(* also n + 1 holds every number.  It rests on the finite sets: the        *)
(* initial segments 0..n are finite, and their strict order has no         *)
(* infinite descent.                                                       *)
(***************************************************************************)
EXTENDS Integers, FiniteSets, FiniteSetTheorems, TLAPS

\* A set of numbers that is not empty has a least member.
LEMMA LeastOf ==
  ASSUME NEW T \in SUBSET Nat, T # {}
  PROVE  \E x \in T : \A y \in T : x <= y
<1> DEFINE Segments == {0..n : n \in T}
<1>1. \A n \in T : IsFiniteSet(0..n) /\ 0..n \in SUBSET Nat
  BY FS_Interval
<1>2. Segments \subseteq FiniteSubsetsOf(Nat)
  <2> SUFFICES ASSUME NEW n \in T PROVE 0..n \in FiniteSubsetsOf(Nat)
    OBVIOUS
  <2>1. QED
    BY <1>1 DEF FiniteSubsetsOf
<1>3. PICK s \in Segments : \A t \in Segments : <<t, s>> \notin StrictSubsetOrdering(Nat)
  <2>1. Segments # {}
    OBVIOUS
  <2> HIDE DEF Segments
  <2>2. QED
    BY <1>2, <2>1, FS_StrictSubsetOrderingWellFounded, WFMin
<1>4. PICK x \in T : s = 0..x
  OBVIOUS
<1>5. ASSUME NEW y \in T, y < x
      PROVE  FALSE
  <2>1. 0..y \subseteq 0..x /\ 0..y # 0..x
    <3>1. x \in 0..x /\ x \notin 0..y
      BY <1>5
    <3>2. QED
      BY <1>5, <3>1
  <2>2. <<0..y, 0..x>> \in StrictSubsetOrdering(Nat)
    BY <1>1, <2>1, Zenon DEF StrictSubsetOrdering
  <2>3. QED
    BY <1>3, <1>4, <2>2
<1>6. QED
  BY <1>5

\* A set of numbers up to N that is not empty has a greatest member.
LEMMA GreatestOf ==
  ASSUME NEW N \in Nat, NEW T \in SUBSET (0..N), T # {}
  PROVE  \E x \in T : \A y \in T : y <= x
<1> DEFINE Above == {n \in Nat : \A y \in T : y <= n}
<1>1. N \in Above
  OBVIOUS
<1>2. PICK x \in Above : \A n \in Above : x <= n
  <2> HIDE DEF Above
  <2>1. Above \in SUBSET Nat
    BY DEF Above
  <2>2. QED
    BY <1>1, <2>1, LeastOf
<1>3. ASSUME x \notin T
      PROVE  FALSE
  <2>1. x # 0
    <3>1. PICK y \in T : TRUE
      OBVIOUS
    <3>2. y <= x /\ y # x /\ y \in Nat
      BY <1>2, <1>3, <3>1
    <3>3. QED
      BY <3>2
  <2>2. x - 1 \in Above
    BY <1>2, <1>3, <2>1
  <2>3. QED
    BY <1>2, <2>2
<1>4. QED
  BY <1>2, <1>3

\* Induction: 0 is in S, and each member's successor is.
LEMMA NatSetInduction ==
  ASSUME NEW S \in SUBSET Nat, 0 \in S, \A n \in S : n + 1 \in S
  PROVE  S = Nat
<1> SUFFICES ASSUME Nat \ S # {} PROVE FALSE
  OBVIOUS
<1>1. PICK x \in Nat \ S : \A y \in Nat \ S : x <= y
  BY LeastOf
<1>2. x - 1 \in Nat /\ x - 1 \in S
  BY <1>1
<1>3. QED
  BY <1>1, <1>2

\* The same with a bound: what holds of 0 and is handed on below N holds to N.
LEMMA BoundedSetInduction ==
  ASSUME NEW N \in Nat, NEW S, 0 \in S, \A n \in 0..(N - 1) : n \in S => n + 1 \in S
  PROVE  0..N \subseteq S
<1> DEFINE T == {n \in Nat : n <= N => n \in S}
<1>1. \A n \in T : n + 1 \in T
  OBVIOUS
<1>2. T = Nat
  <2> HIDE DEF T
  <2>1. T \in SUBSET Nat /\ 0 \in T
    BY DEF T
  <2>2. QED
    BY <1>1, <2>1, NatSetInduction
<1>3. QED
  BY <1>2
\* From `a` on, each value of f is what `step` makes of the one before.
IsIteration(N, a, step, f) ==
  \A n \in 0..N : f[n] = IF n = 0 THEN a ELSE step[n][f[n - 1]]

\* A function defined by recursion on its argument exists.
LEMMA IterationExists ==
  ASSUME NEW N \in Nat, NEW V, NEW a \in V, NEW step \in [1..N -> [V -> V]]
  PROVE  \E f \in [0..N -> V] : IsIteration(N, a, step, f)
<1> DEFINE Runs(n, f) == \A k \in 0..n : f[k] = IF k = 0 THEN a ELSE step[k][f[k - 1]]
           S == {n \in 0..N : \E f \in [0..n -> V] : Runs(n, f)}
<1>1. 0 \in S
  <2> DEFINE g == [k \in 0..0 |-> a]
  <2>1. g \in [0..0 -> V] /\ Runs(0, g)
    OBVIOUS
  <2> HIDE DEF g
  <2>2. \E f \in [0..0 -> V] : Runs(0, f)
    BY <2>1
  <2> HIDE DEF Runs
  <2>3. QED
    BY <2>2
<1>2. ASSUME NEW n \in 0..(N - 1), n \in S
      PROVE  n + 1 \in S
  <2>1. PICK f \in [0..n -> V] : Runs(n, f)
    BY <1>2
  <2> DEFINE g == [k \in 0..(n + 1) |-> IF k <= n THEN f[k] ELSE step[n + 1][f[n]]]
  <2>2. n + 1 \in 0..N /\ n + 1 \in 1..N /\ n \in 0..n
    OBVIOUS
  <2>3. step[n + 1] \in [V -> V] /\ f[n] \in V
    BY <2>2
  <2>4. g \in [0..(n + 1) -> V]
    BY <2>3
  <2>5. ASSUME NEW k \in 0..(n + 1)
        PROVE  g[k] = IF k = 0 THEN a ELSE step[k][g[k - 1]]
    <3>1. CASE k = n + 1
      <4>1. g[k] = step[k][f[n]] /\ g[k - 1] = f[n] /\ k # 0
        BY <3>1
      <4>2. QED
        BY <4>1
    <3>2. CASE k # n + 1
      <4>1. k \in 0..n /\ g[k] = f[k] /\ (k # 0 => g[k - 1] = f[k - 1])
        BY <3>2
      <4> HIDE DEF g
      <4>2. QED
        BY <2>1, <4>1
    <3>3. QED
      BY <3>1, <3>2
  <2> HIDE DEF g
  <2>6. QED
    BY <2>2, <2>4, <2>5
<1>3. 0..N \subseteq S
  <2> HIDE DEF S
  <2>1. QED
    BY <1>1, <1>2, BoundedSetInduction
<1>4. N \in S
  BY <1>3
<1>5. QED
  BY <1>4 DEF IsIteration
=============================================================================

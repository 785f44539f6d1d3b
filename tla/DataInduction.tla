---------------------------- MODULE DataInduction ----------------------------
(***************************************************************************)
(* Induction over data without an operator as a parameter: for a set of    *)
(* numbers, and for a function that is defined by recursion on numbers     *)
(* from a step that is a function too. They rest on the order of finite    *)
(* sets by strict inclusion, which is well-founded.                        *)
(***************************************************************************)
EXTENDS Integers, FiniteSetTheorems, TLAPS

LEMMA LeastNumber ==
  ASSUME NEW T \in SUBSET Nat, T # {}
  PROVE  \E n \in T : \A m \in T : n <= m
<1> DEFINE Below == {0 .. (n - 1) : n \in T}
<1>1. Below \subseteq FiniteSubsetsOf(Nat) /\ Below # {}
  <2>1. ASSUME NEW n \in T
        PROVE  0 .. (n - 1) \in FiniteSubsetsOf(Nat)
    BY FS_Interval DEF FiniteSubsetsOf
  <2>. QED
    BY <2>1
<1>2. PICK B \in Below : \A C \in Below : <<C, B>> \notin StrictSubsetOrdering(Nat)
  <2>. HIDE DEF Below
  <2>. QED
    BY <1>1, FS_StrictSubsetOrderingWellFounded, WFMin
<1>3. PICK n \in T : B = 0 .. (n - 1)
  OBVIOUS
<1>4. ASSUME NEW m \in T, m < n
      PROVE  FALSE
  <2>1. 0 .. (m - 1) \subseteq 0 .. (n - 1) /\ m \in 0 .. (n - 1) /\ m \notin 0 .. (m - 1)
    BY <1>4
  <2>2. <<0 .. (m - 1), B>> \in StrictSubsetOrdering(Nat)
    BY <1>3, <2>1 DEF StrictSubsetOrdering
  <2>. QED
    BY <1>2, <2>2
<1>. QED
  BY <1>4

LEMMA Inductive ==
  ASSUME NEW S, 0 \in S, \A n \in Nat : n \in S => n + 1 \in S
  PROVE  Nat \subseteq S
<1> SUFFICES ASSUME Nat \ S # {} PROVE FALSE
  OBVIOUS
<1>1. PICK n \in Nat \ S : \A m \in Nat \ S : n <= m
  BY LeastNumber
<1>2. n - 1 \in Nat /\ n - 1 \notin Nat \ S
  BY <1>1
<1>. QED
  BY <1>1, <1>2

(* f folds the numbers up to n, from d on.                                 *)
Folds(f, d, step, n) == f = [k \in 0..n |-> IF k = 0 THEN d ELSE step[<<f[k - 1], k>>]]

LEMMA FoldExists ==
  ASSUME NEW D, NEW d \in D, NEW N \in Nat, NEW step \in [D \X (1..N) -> D]
  PROVE  \E f \in [0..N -> D] : Folds(f, d, step, N)
<1> DEFINE S == {n \in Nat : n <= N => \E f \in [0..n -> D] : Folds(f, d, step, n)}
<1>1. 0 \in S
  <2> DEFINE f == [k \in 0..0 |-> d]
  <2>1. f \in [0..0 -> D] /\ Folds(f, d, step, 0)
    BY DEF Folds
  <2>. QED
    BY <2>1
<1>2. ASSUME NEW n \in Nat, n \in S
      PROVE  n + 1 \in S
  <2> SUFFICES ASSUME n + 1 <= N
               PROVE  \E f \in [0..(n + 1) -> D] : Folds(f, d, step, n + 1)
    OBVIOUS
  <2>1. PICK g \in [0..n -> D] : Folds(g, d, step, n)
    BY <1>2
  <2> DEFINE f == [k \in 0..(n + 1) |-> IF k <= n THEN g[k] ELSE step[<<g[n], n + 1>>]]
  <2>2. f \in [0..(n + 1) -> D]
    OBVIOUS
  <2>3. \A k \in 0..n : f[k] = g[k]
    OBVIOUS
  <2>4. g[0] = d /\ \A k \in 1..n : g[k] = step[<<g[k - 1], k>>]
    BY <2>1 DEF Folds
  <2>5. f[n + 1] = step[<<f[n], n + 1>>]
    OBVIOUS
  <2>. HIDE DEF f
  <2>6. f[0] = d
    BY <2>3, <2>4
  <2>7. \A k \in 1..n : f[k] = step[<<f[k - 1], k>>]
    <3>1. \A k \in 1..n : k - 1 \in 0..n /\ k \in 0..n
      OBVIOUS
    <3>. QED
      BY <2>3, <2>4, <3>1
  <2>8. \A k \in 0..(n + 1) : f[k] = IF k = 0 THEN d ELSE step[<<f[k - 1], k>>]
    BY <2>5, <2>6, <2>7
  <2>. QED
    BY <2>2, <2>8 DEF Folds
<1>3. N \in S
  <2>. HIDE DEF S
  <2>. QED
    BY <1>1, <1>2, Inductive
<1>. QED
  BY <1>3
=============================================================================

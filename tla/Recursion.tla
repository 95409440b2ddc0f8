----------------------------- MODULE Recursion -----------------------------
(***************************************************************************)
(* Induction, and functions defined by recursion, over numbers.  A set of  *)
(* numbers takes the place of the predicate that induction is usually      *)
(* stated with.                                                            *)
(***************************************************************************)
EXTENDS Integers, WellFoundedInduction, TLAPS

\* Every set of numbers has a least one.
LEMMA Least ==
  ASSUME NEW S, S \subseteq Nat, S # {}
  PROVE  \E n \in S : \A m \in S : ~(m < n)
<1> DEFINE R == OpToRel(<, Nat)
<1>1. IsWellFoundedOn(R, Nat)
  BY NatLessThanWellFounded
<1>2. \A x, y \in Nat : <<x, y>> \in R <=> x < y
  BY DEF OpToRel
<1> HIDE DEF R
<1>3. \E x \in S : \A y \in S : ~(<<y, x>> \in R)
  BY <1>1, WFMin
<1> QED BY <1>2, <1>3

\* Induction over the members of a set of numbers.
LEMMA Induction ==
  ASSUME NEW S, 0 \in S, \A n \in Nat : n \in S => n + 1 \in S
  PROVE  Nat \subseteq S
<1> SUFFICES ASSUME Nat \ S # {} PROVE FALSE
  OBVIOUS
<1>1. PICK n \in Nat \ S : \A m \in Nat \ S : ~(m < n)
  BY Least
<1>2. n # 0
  BY <1>1
<1>3. n - 1 \in Nat /\ n - 1 < n /\ (n - 1) + 1 = n
  BY <1>1, <1>2
<1>4. n - 1 \in S
  BY <1>1, <1>3
<1> QED BY <1>1, <1>3, <1>4

\* f is what the recursion from base by step gives up to n.
Recursive(f, n, V, base, step) ==
  /\ f \in [0..n -> V]
  /\ f[0] = base
  /\ \A k \in 1..n : f[k] = step[<<k, f[k - 1]>>]

\* A recursion over numbers up to n has a solution.
LEMMA RecursionExists ==
  ASSUME NEW V, NEW n \in Nat, NEW base \in V, NEW step \in [(1..n) \X V -> V]
  PROVE  \E f : Recursive(f, n, V, base, step)
<1> DEFINE S == {m \in Nat : m <= n => \E f : Recursive(f, m, V, base, step)}
<1>1. 0 \in S
  <2> DEFINE f == [k \in 0..0 |-> base]
  <2>1. Recursive(f, 0, V, base, step)
    BY DEF Recursive
  <2> QED BY <2>1
<1>2. ASSUME NEW m \in Nat, m \in S PROVE m + 1 \in S
  <2> SUFFICES ASSUME m + 1 <= n PROVE \E f : Recursive(f, m + 1, V, base, step)
    OBVIOUS
  <2>1. PICK g : Recursive(g, m, V, base, step)
    BY <1>2
  <2> DEFINE f == [k \in 0..(m + 1) |-> IF k = m + 1 THEN step[<<m + 1, g[m]>>] ELSE g[k]]
  <2>2. g \in [0..m -> V] /\ g[m] \in V /\ <<m + 1, g[m]>> \in (1..n) \X V
    BY <2>1 DEF Recursive
  <2>3. f \in [0..(m + 1) -> V]
    BY <2>2
  <2>4. f[0] = base
    BY <2>1 DEF Recursive
  <2>5. ASSUME NEW k \in 1..(m + 1) PROVE f[k] = step[<<k, f[k - 1]>>]
    <3>1. CASE k = m + 1
      <4>1. k - 1 = m /\ m \in 0..(m + 1) /\ m # m + 1
        BY <3>1
      <4>2. f[m] = g[m]
        BY <4>1
      <4> QED BY <3>1, <4>1, <4>2
    <3>2. CASE k # m + 1
      <4>1. k \in 1..m /\ k - 1 \in 0..m
        BY <3>2
      <4>2. f[k] = g[k] /\ f[k - 1] = g[k - 1]
        BY <4>1
      <4> QED BY <4>1, <4>2, <2>1 DEF Recursive
    <3> QED BY <3>1, <3>2
  <2> HIDE DEF f
  <2> QED BY <2>3, <2>4, <2>5 DEF Recursive
<1> HIDE DEF S
<1>3. n \in S
  BY <1>1, <1>2, Induction
<1> QED BY <1>3 DEF S
=============================================================================

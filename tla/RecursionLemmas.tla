--------------------------- MODULE RecursionLemmas ---------------------------
(***************************************************************************)
(* Induction and recursion over the naturals up to a bound, for the loops  *)
(* of the model, which are functions defined by recursion.  The induction  *)
(* is over a set, so that it can be cited wherever the set is given.       *)
(***************************************************************************)
EXTENDS Integers, WellFoundedInduction, TLAPS

\* Every nonempty set of naturals has a least element.
LEMMA LeastNatural ==
  ASSUME NEW T, T \subseteq Nat, T # {}
  PROVE  \E m \in T : \A k \in T : m <= k
<1> DEFINE R == {p \in Nat \X Nat : p[1] < p[2]}
<1>1. IsWellFoundedOn(R, Nat)
  BY NatLessThanWellFounded DEF OpToRel
<1>2. PICK x \in T : \A y \in T : ~ (<< y, x >> \in R)
  <2> HIDE DEF R
  <2> QED BY <1>1, WFMin
<1>3. \A y \in T : x <= y
  <2> SUFFICES ASSUME NEW y \in T, ~(x <= y) PROVE << y, x >> \in R
    BY <1>2
  <2>1. x \in Nat /\ y \in Nat /\ y < x
    OBVIOUS
  <2> QED BY <2>1
<1> QED BY <1>3

\* A set that holds 0, and with each number below n the next one, holds all of
\* them up to n.
LEMMA Induction ==
  ASSUME NEW n \in Nat, NEW S, 0 \in S, \A k \in 0 .. n - 1 : k \in S => k + 1 \in S
  PROVE  \A k \in 0 .. n : k \in S
<1> DEFINE T == {k \in 0 .. n : k \notin S}
<1> SUFFICES ASSUME T # {} PROVE FALSE
  OBVIOUS
<1>1. PICK m \in T : \A k \in T : m <= k
  <2>1. T \subseteq Nat
    OBVIOUS
  <2> HIDE DEF T
  <2> QED BY <2>1, LeastNatural
<1>2. m # 0 /\ m - 1 \in 0 .. n - 1
  OBVIOUS
<1>3. m - 1 \in S
  BY <1>1, <1>2
<1> QED BY <1>2, <1>3

\* The same from any other number on.
LEMMA InductionFrom ==
  ASSUME NEW m \in Int, NEW n \in Int, NEW S, m \in S,
         \A k \in m .. n - 1 : k \in S => k + 1 \in S
  PROVE  \A k \in m .. n : k \in S
<1> SUFFICES ASSUME NEW k \in m .. n PROVE k \in S
  OBVIOUS
<1> DEFINE Q == {i \in 0 .. n - m : m + i \in S}
<1>1. n - m \in Nat /\ k - m \in 0 .. n - m
  OBVIOUS
<1>2. 0 \in Q
  BY <1>1
<1>3. \A i \in 0 .. (n - m) - 1 : i \in Q => i + 1 \in Q
  <2> SUFFICES ASSUME NEW i \in 0 .. (n - m) - 1, m + i \in S PROVE i + 1 \in Q
    OBVIOUS
  <2>1. m + i \in m .. n - 1 /\ (m + i) + 1 = m + (i + 1) /\ i + 1 \in 0 .. n - m
    OBVIOUS
  <2> QED BY <2>1
<1>4. \A i \in 0 .. n - m : i \in Q
  <2> HIDE DEF Q
  <2> QED BY <1>1, <1>2, <1>3, Induction
<1>5. m + (k - m) = k
  OBVIOUS
<1> QED BY <1>1, <1>4, <1>5

\* The states of a loop of n turns: f[k] is the state after k of them.
Runs(f, n, a, step) ==
  /\ f[0] = a
  /\ \A k \in 1 .. n : f[k] = step[<< f[k - 1], k >>]

\* A loop each of whose turns takes a state of A to a state of A has such states.
LEMMA Loop ==
  ASSUME NEW n \in Nat, NEW A, NEW a \in A, NEW step \in [A \X (1 .. n) -> A]
  PROVE  \E f \in [0 .. n -> A] : Runs(f, n, a, step)
<1> DEFINE S == {m \in 0 .. n : \E f \in [0 .. m -> A] : Runs(f, m, a, step)}
<1>1. 0 \in S
  <2> DEFINE g == [k \in 0 .. 0 |-> a]
  <2>1. g \in [0 .. 0 -> A] /\ Runs(g, 0, a, step)
    BY DEF Runs
  <2> HIDE DEF g
  <2> QED BY <2>1
<1>2. \A m \in 0 .. n - 1 : m \in S => m + 1 \in S
  <2> SUFFICES ASSUME NEW m \in 0 .. n - 1, m \in S PROVE m + 1 \in S
    OBVIOUS
  <2>1. PICK f \in [0 .. m -> A] : Runs(f, m, a, step)
    OBVIOUS
  <2> DEFINE g == [k \in 0 .. m + 1 |-> IF k <= m THEN f[k] ELSE step[<< f[m], m + 1 >>]]
  <2>2. g \in [0 .. m + 1 -> A]
    <3>1. f[m] \in A /\ m + 1 \in 1 .. n
      OBVIOUS
    <3>2. step[<< f[m], m + 1 >>] \in A
      BY <3>1
    <3> QED BY <3>2
  <2>3. \A k \in 0 .. m : g[k] = f[k]
    OBVIOUS
  <2>4. g[m + 1] = step[<< f[m], m + 1 >>]
    OBVIOUS
  <2>5. Runs(g, m + 1, a, step)
    <3> HIDE DEF g
    <3>1. g[0] = a
      BY <2>1, <2>3 DEF Runs
    <3>2. ASSUME NEW k \in 1 .. m + 1 PROVE g[k] = step[<< g[k - 1], k >>]
      <4>1. CASE k = m + 1
        <5>1. k - 1 = m /\ m \in 0 .. m
          BY <4>1
        <5> QED BY <4>1, <5>1, <2>3, <2>4
      <4>2. CASE k # m + 1
        <5>1. k \in 1 .. m /\ k - 1 \in 0 .. m /\ k \in 0 .. m
          BY <4>2
        <5> QED BY <5>1, <2>1, <2>3 DEF Runs
      <4> QED BY <4>1, <4>2
    <3> QED BY <3>1, <3>2 DEF Runs
  <2>6. m + 1 \in 0 .. n
    OBVIOUS
  <2> HIDE DEF g
  <2> QED BY <2>2, <2>5, <2>6
<1>3. \A m \in 0 .. n : m \in S
  <2> HIDE DEF S
  <2> QED BY <1>1, <1>2, Induction
<1> QED BY <1>3

\* The states of a loop keep to A.
LEMMA LoopType ==
  ASSUME NEW n \in Nat, NEW A, NEW f, f[0] \in A,
         \A k \in 1 .. n : f[k - 1] \in A => f[k] \in A
  PROVE  \A k \in 0 .. n : f[k] \in A
<1> DEFINE S == {k \in 0 .. n : f[k] \in A}
<1>1. 0 \in S
  OBVIOUS
<1>2. \A k \in 0 .. n - 1 : k \in S => k + 1 \in S
  <2> SUFFICES ASSUME NEW k \in 0 .. n - 1, f[k] \in A PROVE k + 1 \in 0 .. n /\ f[k + 1] \in A
    OBVIOUS
  <2>1. k + 1 \in 1 .. n /\ (k + 1) - 1 = k
    OBVIOUS
  <2> QED BY <2>1
<1>3. \A k \in 0 .. n : k \in S
  <2> HIDE DEF S
  <2> QED BY <1>1, <1>2, Induction
<1> QED BY <1>3

\* The same of a loop whose states after k turns are those of A[k].
LEMMA LoopWithin ==
  ASSUME NEW n \in Nat, NEW A, NEW a, NEW step, a \in A[0],
         \A k \in 1 .. n : \A s \in A[k - 1] : step[<< s, k >>] \in A[k]
  PROVE  \E f : /\ DOMAIN f = 0 .. n /\ f = [k \in 0 .. n |-> f[k]]
                /\ Runs(f, n, a, step)
                /\ \A k \in 0 .. n : f[k] \in A[k]
<1> DEFINE Good(f, m) == /\ DOMAIN f = 0 .. m /\ f = [k \in 0 .. m |-> f[k]]
                         /\ Runs(f, m, a, step)
                         /\ \A k \in 0 .. m : f[k] \in A[k]
           S == {m \in 0 .. n : \E f : Good(f, m)}
<1>1. 0 \in S
  <2> DEFINE g == [k \in 0 .. 0 |-> a]
  <2>1. Good(g, 0)
    BY DEF Runs
  <2> HIDE DEF g, Good
  <2> QED BY <2>1
<1>2. \A m \in 0 .. n - 1 : m \in S => m + 1 \in S
  <2> SUFFICES ASSUME NEW m \in 0 .. n - 1, m \in S PROVE m + 1 \in S
    OBVIOUS
  <2>1. PICK f : Good(f, m)
    <3> HIDE DEF Good
    <3> QED OBVIOUS
  <2> DEFINE g == [k \in 0 .. m + 1 |-> IF k <= m THEN f[k] ELSE step[<< f[m], m + 1 >>]]
  <2>2. \A k \in 0 .. m : g[k] = f[k]
    OBVIOUS
  <2>3. g[m + 1] = step[<< f[m], m + 1 >>]
    OBVIOUS
  <2>4. DOMAIN g = 0 .. m + 1 /\ g = [k \in 0 .. m + 1 |-> g[k]]
    OBVIOUS
  <2> HIDE DEF g
  <2>5. \A k \in 0 .. m + 1 : g[k] \in A[k]
    <3>1. f[m] \in A[m] /\ m + 1 \in 1 .. n /\ (m + 1) - 1 = m
      BY <2>1
    <3>2. step[<< f[m], m + 1 >>] \in A[m + 1]
      BY <3>1
    <3>3. \A k \in 0 .. m : g[k] \in A[k]
      BY <2>1, <2>2
    <3>4. \A k \in 0 .. m + 1 : k \in 0 .. m \/ k = m + 1
      OBVIOUS
    <3> QED BY <2>3, <3>2, <3>3, <3>4
  <2>6. Runs(g, m + 1, a, step)
    <3>1. g[0] = a
      BY <2>1, <2>2 DEF Runs
    <3>2. ASSUME NEW k \in 1 .. m + 1 PROVE g[k] = step[<< g[k - 1], k >>]
      <4>1. CASE k = m + 1
        <5>1. k - 1 = m /\ m \in 0 .. m
          BY <4>1
        <5> QED BY <4>1, <5>1, <2>2, <2>3
      <4>2. CASE k # m + 1
        <5>1. k \in 1 .. m /\ k - 1 \in 0 .. m /\ k \in 0 .. m
          BY <4>2
        <5> QED BY <5>1, <2>1, <2>2 DEF Runs
      <4> QED BY <4>1, <4>2
    <3> QED BY <3>1, <3>2 DEF Runs
  <2>7. Good(g, m + 1)
    BY <2>4, <2>5, <2>6
  <2>8. m + 1 \in 0 .. n
    OBVIOUS
  <2> HIDE DEF Good
  <2> QED BY <2>7, <2>8
<1>3. \A m \in 0 .. n : m \in S
  <2> HIDE DEF S
  <2> QED BY <1>1, <1>2, Induction
<1> QED BY <1>3
=============================================================================

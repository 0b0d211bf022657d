---------------------------- MODULE InductionFacts ----------------------------
(***************************************************************************)
(* Induction over natural numbers in a form that needs no operator as a    *)
(* parameter: a property is the set of the numbers that have it, a step of *)
(* a recursive definition is a function.                                   *)
(***************************************************************************)
EXTENDS Integers, WellFoundedInduction, TLAPS

\* Every nonempty set of natural numbers has a least member.
LEMMA LeastNumber ==
  ASSUME NEW T \in SUBSET Nat, T # {}
  PROVE  \E m \in T : \A k \in T : m <= k
<1>1. PICK m \in T : \A k \in T : <<k, m>> \notin OpToRel(<, Nat)
  BY NatLessThanWellFounded, WFMin, Zenon
<1>2. \A k \in T : ~(k < m)
  BY <1>1 DEF OpToRel
<1> QED  BY <1>2

\* Every nonempty set of natural numbers with a bound has a greatest member.
LEMMA GreatestNumber ==
  ASSUME NEW bound \in Nat, NEW T \in SUBSET (0 .. bound), T # {}
  PROVE  \E m \in T : \A k \in T : k <= m
<1> DEFINE Distances == {bound - k : k \in T}
<1>1. Distances \in SUBSET Nat /\ Distances # {}
  <2>1. \A k \in T : bound - k \in Nat
    OBVIOUS
  <2> QED  BY <2>1, Zenon
<1>2. PICK d \in Distances : \A e \in Distances : d <= e
  BY <1>1, LeastNumber, Zenon
<1>3. PICK m \in T : d = bound - m
  OBVIOUS
<1>4. ASSUME NEW k \in T PROVE k <= m
  <2>1. d <= bound - k
    BY <1>2
  <2> QED  BY <1>3, <2>1
<1> QED  BY <1>4

\* A set with 0 and the successor of each of its numbers contains all of them.
LEMMA SetInduction ==
  ASSUME NEW S, 0 \in S, \A n \in Nat : n \in S => n + 1 \in S
  PROVE  Nat \subseteq S
<1> SUFFICES ASSUME Nat \ S # {} PROVE FALSE
  OBVIOUS
<1>1. PICK m \in Nat \ S : \A k \in Nat \ S : m <= k
  BY LeastNumber
<1>2. m - 1 \in S /\ m - 1 \in Nat
  BY <1>1
<1> QED  BY <1>1, <1>2

\* f has values in V, starts with base and goes from one argument to the next by step.
Recursion(f, m, V, base, step) ==
  /\ f \in [0 .. m -> V]
  /\ f[0] = base
  /\ \A n \in 1 .. m : f[n] = step[<<n, f[n - 1]>>]

\* A function that is defined from one argument to the next exists.
LEMMA RecursionExists ==
  ASSUME NEW m \in Nat, NEW V, NEW base \in V, NEW step \in [Nat \X V -> V]
  PROVE  \E f : Recursion(f, m, V, base, step)
<1> DEFINE S == {k \in Nat : \E f : Recursion(f, k, V, base, step)}
<1>1. 0 \in S
  <2>1. Recursion([n \in 0 .. 0 |-> base], 0, V, base, step)
    BY DEF Recursion
  <2> QED  BY <2>1
<1>2. ASSUME NEW k \in Nat, k \in S PROVE k + 1 \in S
  <2>1. PICK f : Recursion(f, k, V, base, step)
    BY <1>2
  <2> DEFINE g == [n \in 0 .. k + 1 |-> IF n = k + 1 THEN step[<<n, f[k]>>] ELSE f[n]]
  <2>2. g[k + 1] = step[<<k + 1, g[k]>>] /\ \A n \in 0 .. k : g[n] = f[n]
    OBVIOUS
  <2>3. g \in [0 .. k + 1 -> V]
    BY <2>1 DEF Recursion
  <2> HIDE DEF g
  <2>4. g[0] = base
    <3>1. 0 \in 0 .. k
      OBVIOUS
    <3> QED  BY <2>1, <2>2, <3>1 DEF Recursion
  <2>5. ASSUME NEW n \in 1 .. k + 1
        PROVE  g[n] = step[<<n, g[n - 1]>>]
    <3>1. CASE n = k + 1  BY <2>2, <3>1
    <3>2. CASE n \in 1 .. k
      <4>1. n \in 0 .. k /\ n - 1 \in 0 .. k
        BY <3>2
      <4> QED  BY <2>1, <2>2, <3>2, <4>1 DEF Recursion
    <3> QED  BY <3>1, <3>2
  <2>6. Recursion(g, k + 1, V, base, step)
    BY <2>3, <2>4, <2>5 DEF Recursion
  <2> QED  BY <2>6
<1>3. m \in S
  <2> HIDE DEF S
  <2> QED  BY <1>1, <1>2, SetInduction
<1> QED  BY <1>3

=============================================================================

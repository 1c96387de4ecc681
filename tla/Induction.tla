------------------------------ MODULE Induction ------------------------------
(***************************************************************************)
(* Division, induction over numbers and recursive functions, for the       *)
(* proofs about arithmetic and about text. Induction is stated with sets   *)
(* and functions, which the provers can instantiate.                       *)
(***************************************************************************)
EXTENDS Integers, WellFoundedInduction, TLAPS

(* Division with remainder.                                                 *)
LEMMA Division ==
    ASSUME NEW a \in Nat, NEW b \in Nat \ {0}
    PROVE  /\ a \div b \in Nat /\ a % b \in 0 .. b - 1
           /\ a = b * (a \div b) + (a % b)
OBVIOUS

(* A product grows with each of its factors.                                *)
LEMMA ProductGrows ==
    ASSUME NEW a \in Nat, NEW b \in Nat, NEW c \in Nat, a <= b
    PROVE  a * c <= b * c /\ c * a <= c * b
<1>1. (b - a) * c \in Nat
    OBVIOUS
<1>2. (b - a) * c = b * c - a * c
    OBVIOUS
<1> QED BY <1>1, <1>2

(* A set of natural numbers that is not empty has a least one.              *)
LEMMA LeastNumber ==
    ASSUME NEW T \in SUBSET Nat, T # {}
    PROVE  \E m \in T : \A n \in T : m <= n
<1> DEFINE R == OpToRel(<, Nat)
<1>1. IsWellFoundedOn(R, Nat)
    BY NatLessThanWellFounded
<1>2. \A x, y \in Nat : x < y => <<x, y>> \in R
    BY DEF OpToRel
<1> HIDE DEF R
<1>3. PICK m \in T : \A n \in T : <<n, m>> \notin R
    BY <1>1, WFMin
<1>4. ASSUME NEW n \in T PROVE m <= n
    <2>1. m \in Nat /\ n \in Nat
        OBVIOUS
    <2>2. ~(n < m)
        BY <1>2, <1>3, <2>1
    <2> QED BY <2>1, <2>2
<1> QED BY <1>4

(* A set that holds 0 and, below N, the successor of each of its members,   *)
(* holds every number up to N.                                              *)
LEMMA IntervalInduction ==
    ASSUME NEW N \in Nat, NEW T, 0 \in T, \A n \in 0 .. N - 1 : n \in T => n + 1 \in T
    PROVE  0 .. N \subseteq T
<1> DEFINE Rest == {n \in 0 .. N : n \notin T}
<1> SUFFICES ASSUME Rest # {} PROVE FALSE
    OBVIOUS
<1>1. PICK m \in Rest : \A n \in Rest : m <= n
    <2>1. Rest \in SUBSET Nat
        OBVIOUS
    <2> HIDE DEF Rest
    <2> QED BY <2>1, LeastNumber
<1>2. m \in 0 .. N /\ m \notin T
    OBVIOUS
<1>3. m - 1 \in 0 .. N - 1
    BY <1>2
<1>4. m - 1 \in T
    BY <1>1, <1>2, <1>3
<1>5. (m - 1) + 1 \in T
    BY <1>3, <1>4
<1> QED BY <1>2, <1>5

(* The first value of f is c, and G makes each other value from its index   *)
(* and the value before.                                                    *)
Recursion(f, c, N, G) ==
    f[0] = c /\ \A i \in 1 .. N : f[i] = G[<<i, f[i - 1]>>]

(* A recursion has a solution.                                              *)
LEMMA RecursionExists ==
    ASSUME NEW S, NEW c \in S, NEW N \in Nat, NEW G \in [(1 .. N) \X S -> S]
    PROVE  \E f \in [0 .. N -> S] : Recursion(f, c, N, G)
<1> DEFINE
      Upto(f, n) == \A i \in 1 .. N : i <= n => f[i] = G[<<i, f[i - 1]>>]
      T == {n \in 0 .. N : \E f \in [0 .. N -> S] : f[0] = c /\ Upto(f, n)}
<1>1. 0 \in T
  <2> DEFINE f == [i \in 0 .. N |-> c]
  <2>1. f \in [0 .. N -> S] /\ f[0] = c /\ Upto(f, 0)
    OBVIOUS
  <2> QED BY <2>1
<1>2. ASSUME NEW n \in 0 .. N - 1, n \in T PROVE n + 1 \in T
  <2>1. PICK f \in [0 .. N -> S] : f[0] = c /\ Upto(f, n)
    BY <1>2
  <2> SUFFICES \E g \in [0 .. N -> S] : g[0] = c /\ Upto(g, n + 1)
    OBVIOUS
  <2> DEFINE v == G[<<n + 1, f[n]>>]
             g == [f EXCEPT ![n + 1] = v]
  <2>2. v \in S
    OBVIOUS
  <2>3. \A i \in 0 .. N : g[i] = IF i = n + 1 THEN v ELSE f[i]
    OBVIOUS
  <2>4. g \in [0 .. N -> S]
    <3> HIDE DEF v
    <3> QED BY <2>2
  <2>5. g[0] = c
    BY <2>1, <2>3
  <2>6. ASSUME NEW i \in 1 .. N, i <= n + 1 PROVE g[i] = G[<<i, g[i - 1]>>]
    <3> HIDE DEF g
    <3>1. g[i - 1] = f[i - 1]
      BY <2>3, <2>6
    <3>2. CASE i = n + 1
      <4>1. i - 1 = n /\ g[i] = v
        BY <3>2, <2>3
      <4> QED BY <3>1, <3>2, <4>1
    <3>3. CASE i # n + 1
      <4>1. i <= n /\ g[i] = f[i]
        BY <3>3, <2>3, <2>6
      <4> QED BY <3>1, <4>1, <2>1
    <3> QED BY <3>2, <3>3
  <2> HIDE DEF g
  <2> QED BY <2>4, <2>5, <2>6
<1>3. N \in T
  <2> HIDE DEF T
  <2> QED BY <1>1, <1>2, IntervalInduction
<1>4. PICK f \in [0 .. N -> S] : f[0] = c /\ Upto(f, N)
  BY <1>3
<1>5. \A i \in 1 .. N : f[i] = G[<<i, f[i - 1]>>]
  BY <1>4
<1>6. Recursion(f, c, N, G)
  BY <1>4, <1>5 DEF Recursion
<1> QED BY <1>6

(* The values of a recursive function stay in a set that its first value is *)
(* in and its equation does not leave.                                      *)
LEMMA RecursionTyped ==
    ASSUME NEW S, NEW N \in Nat, NEW f, f[0] \in S,
           \A i \in 1 .. N : f[i - 1] \in S => f[i] \in S
    PROVE  \A i \in 0 .. N : f[i] \in S
<1> DEFINE T == {i \in 0 .. N : f[i] \in S}
<1>1. 0 \in T
    OBVIOUS
<1>2. ASSUME NEW n \in 0 .. N - 1, n \in T PROVE n + 1 \in T
    <2>1. n + 1 \in 1 .. N /\ (n + 1) - 1 = n
        OBVIOUS
    <2> QED BY <1>2, <2>1
<1>3. 0 .. N \subseteq T
    <2> HIDE DEF T
    <2> QED BY <1>1, <1>2, IntervalInduction
<1> QED BY <1>3

=============================================================================

------------------------------ MODULE Numbers ------------------------------
(***************************************************************************)
(* Facts about natural numbers that the proofs share: remainders, and      *)
(* induction and recursion with sets and functions for predicates and      *)
(* operators, so that the provers can instantiate them.                    *)
(***************************************************************************)
EXTENDS Integers, WellFoundedInduction, TLAPS

------------------------------------------------------------------------------
(* Products and remainders                                                  *)

LEMMA MulMonotone ==
    ASSUME NEW a \in Nat, NEW b \in Nat, NEW l \in Nat, a <= b
    PROVE  a * l <= b * l
  BY SMT

LEMMA ModSmall ==
    ASSUME NEW x \in Nat, NEW w \in Nat, x < w
    PROVE  x % w = x
  BY SMT

LEMMA ModRange ==
    ASSUME NEW x \in Int, NEW w \in Nat, w > 0
    PROVE  x % w \in 0 .. w - 1
  BY SMT

LEMMA DivMod ==
    ASSUME NEW x \in Int, NEW w \in Nat, w > 0
    PROVE  /\ x \div w \in Int /\ (x % w) \in 0 .. w - 1
           /\ x = w * (x \div w) + (x % w)
  <1>1. x \div w \in Int
    BY SMT
  <1>2. x = w * (x \div w) + (x % w)
    BY SMT
  <1> QED
    BY <1>1, <1>2, ModRange

LEMMA RemainderUnique ==
    ASSUME NEW w \in Nat, w > 0, NEW q \in Int,
           NEW r \in 0 .. w - 1, NEW s \in 0 .. w - 1, r = w * q + s
    PROVE  r = s
  <1>1. CASE q >= 1
    <2>1. w * q >= w
      BY <1>1, SMT
    <2> QED
      BY <2>1
  <1>2. CASE q <= -1
    <2>1. w * q <= -w
      BY <1>2, SMT
    <2> QED
      BY <2>1
  <1>3. CASE q = 0
    BY <1>3
  <1> QED
    BY <1>1, <1>2, <1>3

\* Subtracting from a remainder and from the number itself wrap to the same.
LEMMA ModDifference ==
    ASSUME NEW x \in Int, NEW c \in Int, NEW w \in Nat, w > 0
    PROVE  ((x % w) - c) % w = (x - c) % w
  <1> DEFINE r == x % w
             q == x \div w
             a == (r - c) \div w
             b == (x - c) \div w
             s == (r - c) % w
             t == (x - c) % w
  <1>1. r \in Int /\ q \in Int /\ x = w * q + r
    BY DivMod
  <1>2. a \in Int /\ s \in 0 .. w - 1 /\ r - c = w * a + s
    BY <1>1, DivMod
  <1>3. b \in Int /\ t \in 0 .. w - 1 /\ x - c = w * b + t
    BY DivMod
  <1> HIDE DEF r, q, a, b, s, t
  <1>4. s = w * (b - q - a) + t
    <2>1. w * (b - q - a) = w * b - w * q - w * a
      BY <1>1, <1>2, <1>3
    <2>2. w * b \in Int /\ w * q \in Int /\ w * a \in Int
      BY <1>1, <1>2, <1>3
    <2> QED
      BY <1>1, <1>2, <1>3, <2>1, <2>2
  <1>5. b - q - a \in Int
    BY <1>1, <1>2, <1>3
  <1>6. s = t
    BY <1>2, <1>3, <1>4, <1>5, RemainderUnique
  <1> QED
    BY <1>6 DEF r, s, t

------------------------------------------------------------------------------
(* Induction and recursion                                                  *)

\* A set of natural numbers has a least element.
LEMMA LeastExists ==
    ASSUME NEW T, T \subseteq Nat, T # {}
    PROVE  \E x \in T : \A y \in T : x <= y
  <1> DEFINE R == OpToRel(<, Nat)
  <1>1. IsWellFoundedOn(R, Nat)
    BY NatLessThanWellFounded
  <1>2. PICK x \in T : \A y \in T : <<y, x>> \notin R
    <2> HIDE DEF R
    <2> QED
      BY Zenon, <1>1, WFMin
  <1>3. \A y \in T : ~(y < x)
    BY <1>2 DEF OpToRel
  <1> HIDE DEF R
  <1> QED
    BY <1>3

\* A set that holds 0 and, with a number below N, the next one, holds 0 .. N.
LEMMA SetInduction ==
    ASSUME NEW N \in Nat, NEW S, 0 \in S,
           \A n \in 0 .. N - 1 : n \in S => n + 1 \in S
    PROVE  0 .. N \subseteq S
  <1> SUFFICES ASSUME NEW T, T = (0 .. N) \ S, T # {} PROVE FALSE
    OBVIOUS
  <1>1. PICK x \in T : \A y \in T : x <= y
    BY LeastExists
  <1>2. x - 1 \in 0 .. N - 1 /\ x - 1 \in S
    BY <1>1
  <1> QED
    BY <1>1, <1>2

\* The functions that start from c and go on by Step, up to N.
Recursion(N, X, c, Step) ==
    {g \in [0 .. N -> X] : g[0] = c /\ \A n \in 1 .. N : g[n] = Step[n][g[n - 1]]}

\* There is one.
LEMMA RecursionExists ==
    ASSUME NEW N \in Nat, NEW X, NEW c \in X, NEW Step \in [1 .. N -> [X -> X]]
    PROVE  Recursion(N, X, c, Step) # {}
  <1> DEFINE Defines(g, m) == g[0] = c /\ \A n \in 1 .. m : g[n] = Step[n][g[n - 1]]
             S == {m \in 0 .. N : \E g \in [0 .. m -> X] : Defines(g, m)}
  <1>1. 0 \in S
    <2> DEFINE g == [n \in 0 .. 0 |-> c]
    <2>1. g \in [0 .. 0 -> X] /\ g[0] = c
      OBVIOUS
    <2> HIDE DEF g
    <2>2. Defines(g, 0)
      BY <2>1
    <2> QED
      BY <2>1, <2>2
  <1>2. ASSUME NEW m \in 0 .. N - 1, m \in S PROVE m + 1 \in S
    <2>1. PICK g \in [0 .. m -> X] : Defines(g, m)
      BY <1>2
    <2> DEFINE h == [n \in 0 .. m + 1 |-> IF n <= m THEN g[n] ELSE Step[m + 1][g[m]]]
    <2>2. g[m] \in X /\ m + 1 \in 1 .. N
      BY <2>1
    <2>3. h \in [0 .. m + 1 -> X]
      BY <2>1, <2>2
    <2>4. /\ \A n \in 0 .. m : h[n] = g[n]
          /\ h[m + 1] = Step[m + 1][g[m]]
      OBVIOUS
    <2> HIDE DEF h
    <2>5. h[0] = c
      BY <2>1, <2>4
    <2>6. ASSUME NEW n \in 1 .. m + 1 PROVE h[n] = Step[n][h[n - 1]]
      <3>1. CASE n = m + 1
        BY <2>4, <3>1
      <3>2. CASE n \in 1 .. m
        <4>1. n - 1 \in 0 .. m /\ n \in 0 .. m
          BY <3>2
        <4> QED
          BY <2>1, <2>4, <3>2, <4>1
      <3> QED
        BY <3>1, <3>2
    <2> QED
      BY <2>3, <2>5, <2>6
  <1> HIDE DEF Defines
  <1>3. 0 .. N \subseteq S
    <2> HIDE DEF S
    <2> QED
      BY <1>1, <1>2, SetInduction
  <1> QED
    BY <1>3 DEF Defines, Recursion
=============================================================================

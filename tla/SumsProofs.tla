----------------------------- MODULE SumsProofs -----------------------------
(***************************************************************************)
(* What the recursive sum of Sums is, for all of its arguments.  Induction *)
(* over the natural numbers is stated here for a set of numbers, not for a *)
(* predicate: the provers then need no operator parameter.                 *)
(***************************************************************************)
EXTENDS Sums, WellFoundedInduction, TLAPS

-----------------------------------------------------------------------------
(* Induction.                                                              *)

(* A set of natural numbers that is not empty has a least element.         *)
LEMMA LeastNumber ==
  ASSUME NEW T \in SUBSET Nat, T # {}
  PROVE  \E x \in T : \A y \in T : x =< y
<1> DEFINE R == OpToRel(<, Nat)
<1>1. IsWellFoundedOn(R, Nat)
  BY NatLessThanWellFounded
<1>2. \A a, b \in Nat : a < b => <<a, b>> \in R
  BY DEF OpToRel
<1> HIDE DEF R
<1>3. PICK x \in T : \A y \in T : ~(<<y, x>> \in R)
  BY <1>1, WFMin
<1>4. ASSUME NEW y \in T PROVE x =< y
  <2>1. x \in Nat /\ y \in Nat
    OBVIOUS
  <2>2. ~(<<y, x>> \in R)
    BY <1>3
  <2>3. ~(y < x)
    BY <1>2, <2>1, <2>2, Zenon
  <2> QED
    BY <2>1, <2>3
<1> QED
  BY <1>4

(* A set with 0 that is closed under successor has every natural number.   *)
LEMMA Induction ==
  ASSUME NEW S, 0 \in S, \A n \in Nat : n \in S => n + 1 \in S
  PROVE  \A n \in Nat : n \in S
<1> SUFFICES ASSUME Nat \ S # {} PROVE FALSE
  OBVIOUS
<1>1. PICK x \in Nat \ S : \A y \in Nat \ S : x =< y
  BY LeastNumber
<1>2. x # 0 /\ x - 1 \in Nat
  BY <1>1
<1>3. x - 1 \in S
  BY <1>1, <1>2
<1> QED
  BY <1>1, <1>2, <1>3

-----------------------------------------------------------------------------
(* The recursion.                                                          *)

(* h sums g as far as n.                                                   *)
Adds(g, n, h) ==
  h = [k \in 0 .. n |-> IF k = 0 THEN 0 ELSE h[k - 1] + g[k - 1]]

LEMMA AddsExists == ASSUME NEW g PROVE \A n \in Nat : \E h : Adds(g, n, h)
<1> DEFINE S == {n \in Nat : \E h : Adds(g, n, h)}
<1>1. 0 \in S
  <2>1. Adds(g, 0, [k \in 0 .. 0 |-> 0])
    BY DEF Adds
  <2> QED
    BY <2>1
<1>2. ASSUME NEW n \in Nat, n \in S PROVE n + 1 \in S
  <2>1. PICK h : Adds(g, n, h)
    BY <1>2
  <2> DEFINE hh == [k \in 0 .. n + 1 |-> IF k = n + 1 THEN h[n] + g[n] ELSE h[k]]
  <2>2. ASSUME NEW k \in 0 .. n + 1
        PROVE  hh[k] = IF k = 0 THEN 0 ELSE hh[k - 1] + g[k - 1]
    <3>1. CASE k = n + 1
      BY <3>1
    <3>2. CASE k # n + 1
      <4>1. k \in 0 .. n /\ (k # 0 => k - 1 \in 0 .. n + 1 /\ k - 1 # n + 1)
        BY <3>2
      <4>2. h[k] = IF k = 0 THEN 0 ELSE h[k - 1] + g[k - 1]
        BY <2>1, <4>1 DEF Adds
      <4> QED
        BY <3>2, <4>1, <4>2
    <3> QED
      BY <3>1, <3>2
  <2>3. Adds(g, n + 1, hh)
    BY <2>2 DEF Adds
  <2> QED
    BY <2>3
<1> HIDE DEF S
<1>3. \A n \in Nat : n \in S
  BY <1>1, <1>2, Induction
<1> QED
  BY <1>3 DEF S

LEMMA AddsUnique ==
  ASSUME NEW g, NEW m \in Nat, NEW n \in Nat, NEW h, NEW j,
         Adds(g, m, h), Adds(g, n, j)
  PROVE  \A k \in Nat : k =< m /\ k =< n => h[k] = j[k]
<1> DEFINE S == {k \in Nat : k =< m /\ k =< n => h[k] = j[k]}
<1>1. 0 \in S
  <2>1. h[0] = 0 /\ j[0] = 0
    BY DEF Adds
  <2> QED
    BY <2>1
<1>2. ASSUME NEW k \in Nat, k \in S PROVE k + 1 \in S
  <2>1. ASSUME k + 1 =< m, k + 1 =< n PROVE h[k + 1] = j[k + 1]
    <3>1. h[k + 1] = h[k] + g[k]
      BY <2>1 DEF Adds
    <3>2. j[k + 1] = j[k] + g[k]
      BY <2>1 DEF Adds
    <3> QED
      BY <1>2, <2>1, <3>1, <3>2
  <2> QED
    BY <2>1
<1> HIDE DEF S
<1>3. \A k \in Nat : k \in S
  BY <1>1, <1>2, Induction
<1> QED
  BY <1>3 DEF S

(* The sum below 0 is 0, and each step adds one term: SumBelow is what its *)
(* recursion says.                                                         *)
LEMMA SumSteps ==
  ASSUME NEW g
  PROVE  /\ SumBelow(g, 0) = 0
         /\ \A n \in Nat : SumBelow(g, n + 1) = SumBelow(g, n) + g[n]
<1> DEFINE Recurs(s) == s = [k \in Nat |-> IF k = 0 THEN 0 ELSE s[k - 1] + g[k - 1]]
           sum == CHOOSE s : Recurs(s)
<1>1. \E s : Recurs(s)
  <2> DEFINE h(n) == CHOOSE h : Adds(g, n, h)
             s == [n \in Nat |-> h(n)[n]]
  <2>1. \A n \in Nat : Adds(g, n, h(n))
    BY AddsExists
  <2> HIDE DEF h
  <2>2. ASSUME NEW n \in Nat
        PROVE  s[n] = IF n = 0 THEN 0 ELSE s[n - 1] + g[n - 1]
    <3>1. CASE n = 0
      <4>1. h(0)[0] = 0
        BY <2>1 DEF Adds
      <4> QED
        BY <3>1, <4>1
    <3>2. CASE n # 0
      <4>1. n - 1 \in Nat /\ n - 1 =< n
        BY <3>2
      <4>2. h(n)[n] = h(n)[n - 1] + g[n - 1]
        BY <2>1, <3>2, <4>1 DEF Adds
      <4>3. h(n)[n - 1] = h(n - 1)[n - 1]
        BY <2>1, <4>1, AddsUnique
      <4> QED
        BY <3>2, <4>1, <4>2, <4>3
    <3> QED
      BY <3>1, <3>2
  <2>3. Recurs(s)
    BY <2>2
  <2> QED
    BY <2>3
<1>2. Recurs(sum)
  BY <1>1
<1>3. \A n \in Nat : SumBelow(g, n) = sum[n]
  BY DEF SumBelow
<1> HIDE DEF sum
<1>4. sum[0] = 0
  BY <1>2
<1>5. ASSUME NEW n \in Nat PROVE sum[n + 1] = sum[n] + g[n]
  BY <1>2
<1> QED
  BY <1>3, <1>4, <1>5

-----------------------------------------------------------------------------
(* What sums keep.                                                         *)

LEMMA SumType ==
  ASSUME NEW g, NEW m \in Nat, \A k \in 0 .. m - 1 : g[k] \in Int
  PROVE  \A n \in 0 .. m : SumBelow(g, n) \in Int
<1> DEFINE S == {n \in Nat : n =< m => SumBelow(g, n) \in Int}
<1>1. 0 \in S
  BY SumSteps
<1>2. ASSUME NEW n \in Nat, n \in S PROVE n + 1 \in S
  <2>1. SumBelow(g, n + 1) = SumBelow(g, n) + g[n]
    BY SumSteps
  <2> QED
    BY <1>2, <2>1
<1> HIDE DEF S
<1>3. \A n \in Nat : n \in S
  BY <1>1, <1>2, Induction
<1> QED
  BY <1>3 DEF S

(* The sum depends on the terms below n alone.                             *)
LEMMA SumEqual ==
  ASSUME NEW g, NEW h, NEW m \in Nat, \A k \in 0 .. m - 1 : g[k] = h[k]
  PROVE  \A n \in 0 .. m : SumBelow(g, n) = SumBelow(h, n)
<1> DEFINE S == {n \in Nat : n =< m => SumBelow(g, n) = SumBelow(h, n)}
<1>1. 0 \in S
  BY SumSteps
<1>2. ASSUME NEW n \in Nat, n \in S PROVE n + 1 \in S
  <2>1. /\ SumBelow(g, n + 1) = SumBelow(g, n) + g[n]
        /\ SumBelow(h, n + 1) = SumBelow(h, n) + h[n]
    BY SumSteps
  <2> QED
    BY <1>2, <2>1
<1> HIDE DEF S
<1>3. \A n \in Nat : n \in S
  BY <1>1, <1>2, Induction
<1> QED
  BY <1>3 DEF S

(* The sum of differences is the difference of the sums.                   *)
LEMMA SumMinus ==
  ASSUME NEW g, NEW u, NEW v, NEW m \in Nat,
         \A k \in 0 .. m - 1 : u[k] \in Int /\ v[k] \in Int /\ g[k] = u[k] - v[k]
  PROVE  SumBelow(g, m) = SumBelow(u, m) - SumBelow(v, m)
<1> DEFINE S == {n \in Nat : n =< m => SumBelow(g, n) = SumBelow(u, n) - SumBelow(v, n)}
<1>1. 0 \in S
  BY SumSteps
<1>2. ASSUME NEW n \in Nat, n \in S PROVE n + 1 \in S
  <2>1. /\ SumBelow(g, n + 1) = SumBelow(g, n) + g[n]
        /\ SumBelow(u, n + 1) = SumBelow(u, n) + u[n]
        /\ SumBelow(v, n + 1) = SumBelow(v, n) + v[n]
    BY SumSteps
  <2>2. n + 1 =< m => SumBelow(u, n) \in Int /\ SumBelow(v, n) \in Int
    BY SumType
  <2> QED
    BY <1>2, <2>1, <2>2
<1> HIDE DEF S
<1>3. \A n \in Nat : n \in S
  BY <1>1, <1>2, Induction
<1> QED
  BY <1>3 DEF S

(* A sum whose terms are those of h from a to b - 1, and 0 elsewhere.      *)
LEMMA SumBetween ==
  ASSUME NEW g, NEW h, NEW m \in Nat, NEW a \in 0 .. m, NEW b \in a .. m,
         \A k \in 0 .. m - 1 :
           h[k] \in Int /\ g[k] = IF a =< k /\ k < b THEN h[k] ELSE 0
  PROVE  SumBelow(g, m) = SumBelow(h, b) - SumBelow(h, a)
<1> DEFINE Part(n) ==
      IF n =< a THEN 0
      ELSE IF n =< b THEN SumBelow(h, n) - SumBelow(h, a)
      ELSE SumBelow(h, b) - SumBelow(h, a)
           S == {n \in Nat : n =< m => SumBelow(g, n) = Part(n)}
<1>0. \A n \in 0 .. m : SumBelow(h, n) \in Int
  BY SumType
<1>1. 0 \in S
  BY SumSteps
<1>2. ASSUME NEW n \in Nat, n \in S PROVE n + 1 \in S
  <2>1. /\ SumBelow(g, n + 1) = SumBelow(g, n) + g[n]
        /\ SumBelow(h, n + 1) = SumBelow(h, n) + h[n]
    BY SumSteps
  <2>2. SUFFICES ASSUME n + 1 =< m PROVE SumBelow(g, n + 1) = Part(n + 1)
    OBVIOUS
  <2>3. n \in 0 .. m - 1 /\ SumBelow(g, n) = Part(n)
    BY <1>2, <2>2
  <2>4. CASE n < a
    BY <2>1, <2>3, <2>4
  <2>5. CASE n = a
    BY <1>0, <2>1, <2>3, <2>5
  <2>6. CASE n > a
    BY <1>0, <2>1, <2>3, <2>6
  <2> QED
    BY <2>3, <2>4, <2>5, <2>6
<1>3. \A n \in Nat : n \in S
  <2> HIDE DEF S
  <2> QED
    BY <1>1, <1>2, Induction
<1>4. SumBelow(g, m) = Part(m)
  BY <1>3
<1>5. SumBelow(h, a) \in Int
  BY <1>0
<1> QED
  BY <1>4, <1>5

(* A sum of nothing.                                                       *)
LEMMA SumOfNone ==
  ASSUME NEW g, NEW m \in Nat, \A k \in 0 .. m - 1 : g[k] = 0
  PROVE  SumBelow(g, m) = 0
<1>1. \A k \in 0 .. m - 1 :
        g[k] \in Int /\ g[k] = IF 0 =< k /\ k < 0 THEN g[k] ELSE 0
  OBVIOUS
<1>2. SumBelow(g, m) = SumBelow(g, 0) - SumBelow(g, 0)
  BY <1>1, SumBetween
<1> QED
  BY <1>2, SumSteps

(* A sum with one term.                                                    *)
LEMMA SumOfOne ==
  ASSUME NEW g, NEW m \in Nat, NEW a \in 0 .. m - 1, g[a] \in Int,
         \A k \in 0 .. m - 1 : k # a => g[k] = 0
  PROVE  SumBelow(g, m) = g[a]
<1>1. \A k \in 0 .. m - 1 : g[k] \in Int
  OBVIOUS
<1>2. SumBelow(g, m) = SumBelow(g, a + 1) - SumBelow(g, a)
  BY <1>1, SumBetween
<1>3. SumBelow(g, a + 1) = SumBelow(g, a) + g[a]
  BY SumSteps
<1>4. SumBelow(g, a) \in Int
  BY <1>1, SumType
<1> QED
  BY <1>2, <1>3, <1>4
==============================================================================

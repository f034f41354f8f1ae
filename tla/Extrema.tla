------------------------------ MODULE Extrema ------------------------------
(***************************************************************************)
(* Least and greatest numbers of a set, and induction over the naturals    *)
(* with a set for the property: what the proofs about ids, places in a     *)
(* text and locations rest on.                                             *)
(***************************************************************************)
EXTENDS Integers, WellFoundedInduction, TLAPS

(* A set of naturals that is not empty has a least one.                    *)
LEMMA LeastNatural ==
  ASSUME NEW S \in SUBSET Nat, S # {}
  PROVE  \E x \in S : \A y \in S : x <= y
<1> DEFINE below == {ss \in Nat \X Nat : ss[1] < ss[2]}
<1>1. IsWellFoundedOn(below, Nat)
  BY NatLessThanWellFounded DEF OpToRel
<1>2. PICK x \in S : \A y \in S : ~ (<<y, x>> \in below)
  <2> HIDE DEF below
  <2> QED
    BY <1>1, WFMin
<1>3. \A y \in S : ~ (y < x)
  BY <1>2
<1> QED
  BY <1>3

(* A set of integers below a bound has a greatest one.                     *)
LEMMA GreatestInteger ==
  ASSUME NEW S \in SUBSET Int, S # {}, NEW bound \in Int, \A x \in S : x <= bound
  PROVE  \E x \in S : \A y \in S : y <= x
<1> DEFINE gaps == {bound - x : x \in S}
<1>0. \A x \in S : x \in Int /\ bound - x \in Nat
  OBVIOUS
<1>1. gaps \in SUBSET Nat /\ gaps # {}
  BY <1>0
<1>2. PICK g \in gaps : \A h \in gaps : g <= h
  <2> HIDE DEF gaps
  <2> QED
    BY <1>1, LeastNatural
<1>3. PICK x \in S : g = bound - x
  BY <1>2
<1>4. \A y \in S : g <= bound - y
  BY <1>2
<1> QED
  BY <1>0, <1>3, <1>4

(* What holds of 0, and of n + 1 with n, holds of every natural.           *)
LEMMA SetInduction ==
  ASSUME NEW S, 0 \in S, \A n \in Nat : n \in S => n + 1 \in S
  PROVE  Nat \subseteq S
<1> SUFFICES ASSUME Nat \ S # {} PROVE FALSE
  OBVIOUS
<1>1. PICK x \in Nat \ S : \A y \in Nat \ S : x <= y
  BY LeastNatural
<1>2. x # 0 /\ x - 1 \in Nat /\ ~ (x <= x - 1)
  BY <1>1
<1>3. x - 1 \in S
  BY <1>1, <1>2
<1> QED
  BY <1>1, <1>2, <1>3

(* A function on the naturals may be defined by its first value and by how *)
(* each value follows from the one before.                                 *)
Recurs(f, S, base, step) ==
  /\ f \in [Nat -> S] /\ f[0] = base
  /\ \A n \in Nat \ {0} : f[n] = step[<<n, f[n - 1]>>]

LEMMA PrimitiveRecursion ==
  ASSUME NEW S, NEW base, base \in S, NEW step, step \in [Nat \X S -> S]
  PROVE  \E f : Recurs(f, S, base, step)
<1> DEFINE Fits(f, n) == /\ f \in [Nat -> S] /\ f[0] = base
                         /\ \A k \in 1..n : f[k] = step[<<k, f[k - 1]>>]
           Good == {n \in Nat : \E f : Fits(f, n)}
           best[n \in Nat] == CHOOSE f : Fits(f, n)
           whole == [n \in Nat |-> best[n][n]]
<1>1. 0 \in Good
  <2>1. Fits([n \in Nat |-> base], 0)
    OBVIOUS
  <2> HIDE DEF Fits
  <2> QED
    BY <2>1
<1>2. ASSUME NEW n \in Nat, n \in Good PROVE n + 1 \in Good
  <2>1. PICK f : Fits(f, n)
    BY <1>2
  <2> DEFINE g == [f EXCEPT ![n + 1] = step[<<n + 1, f[n]>>]]
  <2>2. f[n] \in S /\ step[<<n + 1, f[n]>>] \in S
    BY <2>1
  <2>3. g \in [Nat -> S] /\ g[n + 1] = step[<<n + 1, f[n]>>] /\ \A k \in 0..n : g[k] = f[k]
    BY <2>1, <2>2
  <2> HIDE DEF g
  <2>4. Fits(g, n + 1)
    <3>1. ASSUME NEW k \in 1..(n + 1) PROVE g[k] = step[<<k, g[k - 1]>>]
      <4>1. CASE k = n + 1
        BY <2>3, <4>1
      <4>2. CASE k # n + 1
        <5>1. k \in 1..n /\ k - 1 \in 0..n /\ k \in 0..n
          BY <4>2
        <5> QED
          BY <2>1, <2>3, <5>1
      <4> QED
        BY <4>1, <4>2
    <3> QED
      BY <2>1, <2>3, <3>1
  <2> HIDE DEF Fits
  <2> QED
    BY <2>4
<1>3. Nat \subseteq Good
  <2> HIDE DEF Good
  <2> QED
    BY <1>1, <1>2, SetInduction
<1>4. \A n \in Nat : Fits(best[n], n)
  <2> HIDE DEF Fits
  <2> SUFFICES ASSUME NEW n \in Nat PROVE Fits(best[n], n)
    OBVIOUS
  <2>1. \E f : Fits(f, n)
    BY <1>3
  <2> QED
    BY <2>1
<1>5. ASSUME NEW m \in Nat PROVE best[m + 1][m] = best[m][m]
  <2> DEFINE Same == {k \in Nat : k <= m => best[m + 1][k] = best[m][k]}
  <2> HIDE DEF best
  <2>1. 0 \in Same
    BY <1>4
  <2>2. ASSUME NEW k \in Nat, k \in Same PROVE k + 1 \in Same
    <3> SUFFICES ASSUME k + 1 <= m PROVE best[m + 1][k + 1] = best[m][k + 1]
      OBVIOUS
    <3>1. k + 1 \in 1..m /\ k + 1 \in 1..(m + 1) /\ (k + 1) - 1 = k /\ k <= m
      OBVIOUS
    <3>2. best[m][k + 1] = step[<<k + 1, best[m][k]>>]
      BY <1>4, <3>1
    <3>3. best[m + 1][k + 1] = step[<<k + 1, best[m + 1][k]>>]
      BY <1>4, <3>1
    <3> QED
      BY <2>2, <3>1, <3>2, <3>3
  <2>3. m \in Same
    <3> HIDE DEF Same
    <3> QED
      BY <2>1, <2>2, SetInduction
  <2> QED
    BY <2>3
<1>6. whole \in [Nat -> S] /\ whole[0] = base
  <2> HIDE DEF best
  <2> QED
    BY <1>4
<1>7. ASSUME NEW n \in Nat \ {0} PROVE whole[n] = step[<<n, whole[n - 1]>>]
  <2> HIDE DEF best
  <2>1. n - 1 \in Nat /\ (n - 1) + 1 = n /\ n \in 1..n
    OBVIOUS
  <2>2. best[n][n] = step[<<n, best[n][n - 1]>>]
    BY <1>4, <2>1
  <2>3. best[n][n - 1] = best[n - 1][n - 1]
    BY <1>5, <2>1
  <2> QED
    BY <2>1, <2>2, <2>3
<1> HIDE DEF whole
<1> QED
  BY <1>6, <1>7 DEF Recurs
=============================================================================

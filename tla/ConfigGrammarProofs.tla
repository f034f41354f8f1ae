------------------------ MODULE ConfigGrammarProofs -------------------------
(***************************************************************************)
(* Facts about the tokens of a configuration text and about the tree that  *)
(* tokens stand for, for any text: what ParseToken returns, how the tokens *)
(* follow each other, what one more token adds to the tree, and where the  *)
(* search for the port meets the statements of the tree.                   *)
(***************************************************************************)
EXTENDS ConfigGrammar, Extrema, SequenceTheorems, FiniteSetTheorems, TLAPS
LOCAL INSTANCE FiniteSetsExt
LOCAL INSTANCE Functions
LOCAL SE == INSTANCE SequencesExt

-----------------------------------------------------------------------------
(* The numbers of a set in their order.                                    *)

LEMMA InOrderGrows ==
  ASSUME NEW S
  PROVE  /\ InOrder(S, 0) = << >>
         /\ \A n \in Nat :
              /\ InOrder(S, n) \in Seq(Nat)
              /\ n + 1 \in S => InOrder(S, n + 1) = Append(InOrder(S, n), n + 1)
              /\ n + 1 \notin S => InOrder(S, n + 1) = InOrder(S, n)
<1> DEFINE Value(g, k) == IF k = 0 THEN << >>
                          ELSE IF k \in S THEN Append(g[k - 1], k) ELSE g[k - 1]
           upTo == CHOOSE g : g = [k \in Nat |-> Value(g, k)]
           T == Seq(Nat)
           none == << >>
           step == [p \in Nat \X T |-> IF p[1] \in S THEN Append(p[2], p[1]) ELSE p[2]]
<1>1. step \in [Nat \X T -> T] /\ none \in T
  OBVIOUS
<1>2. \A k \in Nat, s \in T : step[<<k, s>>] = IF k \in S THEN Append(s, k) ELSE s
  OBVIOUS
<1>3. PICK f : Recurs(f, T, none, step)
  <2> HIDE DEF step, T, none
  <2> QED
    BY <1>1, PrimitiveRecursion
<1>30. f \in [Nat -> T] /\ f[0] = none /\ \A n \in Nat \ {0} : f[n] = step[<<n, f[n - 1]>>]
  <2> HIDE DEF step, T, none
  <2> QED
    BY <1>3 DEF Recurs
<1>4. f = [k \in Nat |-> Value(f, k)]
  <2>1. ASSUME NEW k \in Nat \ {0} PROVE f[k] = Value(f, k)
    <3>1. f[k - 1] \in T /\ k \in Nat
      BY <1>30
    <3> HIDE DEF step, T
    <3>2. step[<<k, f[k - 1]>>] = IF k \in S THEN Append(f[k - 1], k) ELSE f[k - 1]
      BY <1>2, <3>1
    <3> QED
      BY <1>30, <3>2
  <2>2. f[0] = Value(f, 0)
    BY <1>30
  <2> HIDE DEF Value, T
  <2> QED
    BY <1>30, <2>1, <2>2
<1>5. PICK g : g = [k \in Nat |-> Value(g, k)] /\ \A n \in Nat : InOrder(S, n) = g[n]
  <2>1. upTo = [k \in Nat |-> Value(upTo, k)]
    BY <1>4
  <2>2. \A n \in Nat : InOrder(S, n) = upTo[n]
    BY DEF InOrder
  <2> HIDE DEF upTo, Value
  <2> QED
    BY <2>1, <2>2
<1> HIDE DEF upTo, T, step, none
<1>6. \A n \in Nat : g[n] = Value(g, n)
  <2> HIDE DEF Value
  <2> QED
    BY <1>5
<1>7. g[0] = << >> /\ g[0] \in Seq(Nat)
  <2>1. g[0] = << >>
    BY <1>6
  <2>2. << >> \in Seq(Nat)
    OBVIOUS
  <2> QED
    BY <2>1, <2>2, Zenon
<1>8. ASSUME NEW n \in Nat
      PROVE  /\ n + 1 \in S => g[n + 1] = Append(g[n], n + 1)
             /\ n + 1 \notin S => g[n + 1] = g[n]
  <2>1. g[n + 1] = Value(g, n + 1) /\ n + 1 # 0 /\ (n + 1) - 1 = n
    <3> HIDE DEF Value
    <3> QED
      BY <1>6
  <2> QED
    BY <2>1
<1> HIDE DEF Value
<1>9. \A n \in Nat : g[n] \in Seq(Nat)
  <2> DEFINE Typed == {n \in Nat : g[n] \in Seq(Nat)}
  <2>1. 0 \in Typed
    BY <1>7
  <2>2. ASSUME NEW n \in Nat, n \in Typed PROVE n + 1 \in Typed
    <3>1. g[n] \in Seq(Nat) /\ Append(g[n], n + 1) \in Seq(Nat)
      BY <2>2
    <3>2. g[n + 1] \in Seq(Nat)
      BY <1>8, <3>1, Zenon
    <3> QED
      BY <3>2
  <2> HIDE DEF Typed
  <2>3. Nat \subseteq Typed
    BY <2>1, <2>2, SetInduction
  <2> QED
    BY <2>3 DEF Typed
<1>10. InOrder(S, 0) = << >>
  BY <1>5, <1>7, Zenon
<1>11. ASSUME NEW n \in Nat
       PROVE /\ InOrder(S, n) \in Seq(Nat)
             /\ n + 1 \in S => InOrder(S, n + 1) = Append(InOrder(S, n), n + 1)
             /\ n + 1 \notin S => InOrder(S, n + 1) = InOrder(S, n)
  <2>1. n + 1 \in Nat
    OBVIOUS
  <2>2. InOrder(S, n) = g[n] /\ InOrder(S, n + 1) = g[n + 1]
    BY <1>5, <2>1
  <2> QED
    BY <1>8, <1>9, <2>2, Zenon
<1> QED
  BY <1>10, <1>11

(* They are in the set, ascend, and are all of them.                       *)
LEMMA InOrderIsSorted ==
  ASSUME NEW S, NEW n \in Nat
  PROVE  LET at == InOrder(S, n)
         IN  /\ at \in Seq(Nat) /\ Len(at) \in Nat /\ DOMAIN at = 1..Len(at)
             /\ \A i \in DOMAIN at : at[i] \in S /\ at[i] \in 1..n
             /\ \A i, j \in DOMAIN at : i < j => at[i] < at[j]
             /\ \A k \in 1..n : k \in S => \E i \in DOMAIN at : at[i] = k
<1> DEFINE Fine(at, m) == /\ at \in Seq(Nat)
                          /\ \A i \in 1..Len(at) : at[i] \in S /\ at[i] \in 1..m
                          /\ \A i, j \in 1..Len(at) : i < j => at[i] < at[j]
                          /\ \A k \in 1..m : k \in S => \E i \in 1..Len(at) : at[i] = k
           Good == {m \in Nat : Fine(InOrder(S, m), m)}
<1>1. 0 \in Good
  <2>1. Fine(<< >>, 0)
    OBVIOUS
  <2> HIDE DEF Fine
  <2> QED
    BY <2>1, InOrderGrows
<1>2. ASSUME NEW m \in Nat, m \in Good PROVE m + 1 \in Good
  <2> DEFINE at == InOrder(S, m)
  <2>1. at \in Seq(Nat)
    BY InOrderGrows
  <2>2. CASE m + 1 \in S
    <3>1. InOrder(S, m + 1) = Append(at, m + 1)
      BY <2>2, InOrderGrows
    <3>2. Fine(at, m)
      BY <1>2
    <3> HIDE DEF at
    <3> DEFINE new == Append(at, m + 1)
    <3>3. /\ new \in Seq(Nat) /\ Len(at) \in Nat /\ Len(new) = Len(at) + 1
          /\ new[Len(at) + 1] = m + 1 /\ \A i \in 1..Len(at) : new[i] = at[i]
      BY <2>1
    <3> HIDE DEF new
    <3>4. ASSUME NEW i \in 1..Len(new) PROVE new[i] \in S /\ new[i] \in 1..(m + 1)
      <4>1. CASE i = Len(at) + 1
        BY <2>2, <3>3, <4>1
      <4>2. CASE i # Len(at) + 1
        <5>1. i \in 1..Len(at)
          BY <3>3, <4>2
        <5> QED
          BY <3>2, <3>3, <5>1
      <4> QED
        BY <4>1, <4>2
    <3>5. ASSUME NEW i \in 1..Len(new), NEW j \in 1..Len(new), i < j PROVE new[i] < new[j]
      <4>1. i \in 1..Len(at) /\ at[i] \in 1..m
        BY <3>2, <3>3, <3>5
      <4>2. CASE j = Len(at) + 1
        BY <3>3, <4>1, <4>2
      <4>3. CASE j # Len(at) + 1
        <5>1. j \in 1..Len(at)
          BY <3>3, <4>3
        <5> QED
          BY <3>2, <3>3, <3>5, <4>1, <5>1
      <4> QED
        BY <4>2, <4>3
    <3>6. ASSUME NEW k \in 1..(m + 1), k \in S PROVE \E i \in 1..Len(new) : new[i] = k
      <4>1. CASE k = m + 1
        BY <3>3, <4>1
      <4>2. CASE k # m + 1
        <5>1. PICK i \in 1..Len(at) : at[i] = k
          BY <3>2, <3>6, <4>2
        <5> QED
          BY <3>3, <5>1
      <4> QED
        BY <4>1, <4>2
    <3>7. InOrder(S, m + 1) = new
      BY <3>1 DEF new
    <3> QED
      BY <3>3, <3>4, <3>5, <3>6, <3>7
  <2>3. CASE m + 1 \notin S
    <3>1. InOrder(S, m + 1) = at
      BY <2>3, InOrderGrows
    <3> HIDE DEF at
    <3> QED
      BY <1>2, <2>3, <3>1 DEF at
  <2> QED
    BY <2>2, <2>3
<1>3. n \in Good
  <2> HIDE DEF Good
  <2> QED
    BY <1>1, <1>2, SetInduction
<1>4. Fine(InOrder(S, n), n)
  BY <1>3
<1> HIDE DEF Fine
<1>5. InOrder(S, n) \in Seq(Nat)
  BY InOrderGrows
<1>6. Len(InOrder(S, n)) \in Nat /\ DOMAIN InOrder(S, n) = 1..Len(InOrder(S, n))
  BY <1>5, LenProperties
<1> QED
  BY <1>4, <1>5, <1>6 DEF Fine

(* Only what the set says of 1..n counts.                                  *)
LEMMA InOrderAgrees ==
  ASSUME NEW S, NEW R, NEW n \in Nat, \A k \in 1..n : k \in S <=> k \in R
  PROVE  InOrder(S, n) = InOrder(R, n)
<1> DEFINE Good == {m \in Nat : m <= n => InOrder(S, m) = InOrder(R, m)}
<1>1. 0 \in Good
  BY InOrderGrows
<1>2. ASSUME NEW m \in Nat, m \in Good PROVE m + 1 \in Good
  <2> SUFFICES ASSUME m + 1 <= n PROVE InOrder(S, m + 1) = InOrder(R, m + 1)
    OBVIOUS
  <2>1. InOrder(S, m) = InOrder(R, m) /\ (m + 1 \in S <=> m + 1 \in R)
    BY <1>2
  <2> QED
    BY <2>1, InOrderGrows
<1>3. n \in Good
  <2> HIDE DEF Good
  <2> QED
    BY <1>1, <1>2, SetInduction
<1> QED
  BY <1>3

LEMMA InOrderOfAll ==
  ASSUME NEW S, NEW n \in Nat, \A k \in 1..n : k \in S
  PROVE  InOrder(S, n) = [k \in 1..n |-> k]
<1> DEFINE Good == {m \in Nat : m <= n => InOrder(S, m) = [k \in 1..m |-> k]}
<1>1. 0 \in Good
  BY InOrderGrows
<1>2. ASSUME NEW m \in Nat, m \in Good PROVE m + 1 \in Good
  <2> SUFFICES ASSUME m + 1 <= n PROVE InOrder(S, m + 1) = [k \in 1..(m + 1) |-> k]
    OBVIOUS
  <2>1. InOrder(S, m + 1) = Append(InOrder(S, m), m + 1)
    <3>1. m + 1 \in S
      OBVIOUS
    <3> QED
      BY <3>1, InOrderGrows
  <2>2. InOrder(S, m) = [k \in 1..m |-> k]
    BY <1>2
  <2>3. Append([k \in 1..m |-> k], m + 1) = [k \in 1..(m + 1) |-> k]
    OBVIOUS
  <2> QED
    BY <2>1, <2>2, <2>3
<1>3. n \in Good
  <2> HIDE DEF Good
  <2> QED
    BY <1>1, <1>2, SetInduction
<1> QED
  BY <1>3

(* Nothing between m and n: the numbers of 1..n are those of 1..m.         *)
LEMMA InOrderStops ==
  ASSUME NEW S, NEW m \in Nat, NEW n \in Nat, m <= n, \A k \in (m + 1)..n : k \notin S
  PROVE  InOrder(S, n) = InOrder(S, m)
<1> DEFINE Good == {d \in Nat : m + d <= n => InOrder(S, m + d) = InOrder(S, m)}
<1>1. 0 \in Good
  OBVIOUS
<1>2. ASSUME NEW d \in Nat, d \in Good PROVE d + 1 \in Good
  <2> SUFFICES ASSUME m + (d + 1) <= n PROVE InOrder(S, m + (d + 1)) = InOrder(S, m)
    OBVIOUS
  <2>1. (m + d) + 1 = m + (d + 1) /\ (m + d) + 1 \notin S /\ m + d \in Nat
    OBVIOUS
  <2>2. InOrder(S, (m + d) + 1) = InOrder(S, m + d)
    BY <2>1, InOrderGrows
  <2> QED
    BY <1>2, <2>1, <2>2
<1>3. n - m \in Good
  <2> HIDE DEF Good
  <2> QED
    BY <1>1, <1>2, SetInduction
<1> QED
  BY <1>3

(* The numbers of 1..m come first among those of 1..n.                     *)
LEMMA InOrderIsPrefix ==
  ASSUME NEW S, NEW m \in Nat, NEW n \in Nat, m <= n
  PROVE  /\ Len(InOrder(S, m)) <= Len(InOrder(S, n))
         /\ \A i \in 1..Len(InOrder(S, m)) : InOrder(S, n)[i] = InOrder(S, m)[i]
<1> DEFINE Starts(long, short) == /\ Len(short) <= Len(long)
                                  /\ \A i \in 1..Len(short) : long[i] = short[i]
           Good == {d \in Nat : Starts(InOrder(S, m + d), InOrder(S, m))}
<1>0. \A k \in Nat : InOrder(S, k) \in Seq(Nat) /\ Len(InOrder(S, k)) \in Nat
  BY InOrderGrows, LenProperties
<1>1. 0 \in Good
  BY <1>0
<1>2. ASSUME NEW d \in Nat, d \in Good PROVE d + 1 \in Good
  <2>1. (m + d) + 1 = m + (d + 1) /\ m + d \in Nat
    OBVIOUS
  <2> DEFINE short == InOrder(S, m)
             mid == InOrder(S, m + d)
             long == InOrder(S, m + (d + 1))
  <2>2. long = mid \/ long = Append(mid, m + (d + 1))
    BY <2>1, InOrderGrows
  <2>3. short \in Seq(Nat) /\ mid \in Seq(Nat) /\ Starts(mid, short)
    BY <1>0, <1>2
  <2> HIDE DEF short, mid, long
  <2>4. Starts(long, short)
    <3>1. CASE long = mid
      BY <2>3, <3>1
    <3>2. CASE long = Append(mid, m + (d + 1))
      BY <2>3, <3>2
    <3> QED
      BY <2>2, <3>1, <3>2
  <2> QED
    BY <2>4 DEF short, long
<1>3. n - m \in Good
  <2> HIDE DEF Good
  <2> QED
    BY <1>1, <1>2, SetInduction
<1> QED
  BY <1>3

-----------------------------------------------------------------------------
(* Sequences of tokens.                                                    *)

AnyText == Seq(Pieces)
AnyToken == [type : TokenTypes, value : AnyText, next : Nat \ {0}]

LEMMA SelectedIsTyped ==
  ASSUME NEW T, NEW s \in Seq(T), NEW S
  PROVE  Selected(s, S) \in Seq(T)
<1> DEFINE at == InOrder(S, Len(s))
<1>1. Len(s) \in Nat
  BY LenProperties
<1>2. /\ Len(at) \in Nat /\ DOMAIN at = 1..Len(at)
      /\ \A i \in DOMAIN at : at[i] \in 1..Len(s)
  BY <1>1, InOrderIsSorted
<1> HIDE DEF at
<1>3. \A i \in 1..Len(at) : s[at[i]] \in T
  BY <1>2, ElementOfSeq
<1>4. [i \in 1..Len(at) |-> s[at[i]]] \in Seq(T)
  BY <1>2, <1>3
<1> QED
  BY <1>2, <1>4 DEF Selected, at

(* Selecting the front of a sequence.                                      *)
LEMMA SelectedFront ==
  ASSUME NEW T, NEW a \in Seq(T), NEW b \in Seq(T), NEW S,
         \A k \in 1..Len(a) : k \in S,
         \A k \in (Len(a) + 1)..(Len(a) + Len(b)) : k \notin S
  PROVE  Selected(a \o b, S) = a
<1>1. /\ Len(a) \in Nat /\ Len(b) \in Nat /\ Len(a \o b) = Len(a) + Len(b)
      /\ \A i \in 1..Len(a) : (a \o b)[i] = a[i]
  BY LenProperties, ConcatProperties
<1>2. InOrder(S, Len(a) + Len(b)) = InOrder(S, Len(a))
  BY <1>1, InOrderStops
<1>3. InOrder(S, Len(a)) = [k \in 1..Len(a) |-> k]
  BY <1>1, InOrderOfAll
<1>4. Selected(a \o b, S) = [i \in 1..Len(a) |-> (a \o b)[[k \in 1..Len(a) |-> k][i]]]
  BY <1>1, <1>2, <1>3 DEF Selected
<1>5. [i \in 1..Len(a) |-> (a \o b)[[k \in 1..Len(a) |-> k][i]]] = [i \in 1..Len(a) |-> a[i]]
  BY <1>1
<1>6. [i \in 1..Len(a) |-> a[i]] = a
  BY LenProperties
<1> QED
  BY <1>4, <1>5, <1>6

LEMMA AppendIs ==
  ASSUME NEW T, NEW s \in Seq(T), NEW t \in T, NEW new \in Seq(T),
         Len(new) = Len(s) + 1, new[Len(s) + 1] = t, \A i \in 1..Len(s) : new[i] = s[i]
  PROVE  new = Append(s, t)
<1> DEFINE app == Append(s, t)
<1>1. /\ app \in Seq(T) /\ Len(s) \in Nat /\ Len(app) = Len(s) + 1
      /\ app[Len(s) + 1] = t /\ \A i \in 1..Len(s) : app[i] = s[i]
  OBVIOUS
<1> HIDE DEF app
<1>2. ASSUME NEW i \in 1..Len(new) PROVE new[i] = app[i]
  <2>1. i = Len(s) + 1 \/ i \in 1..Len(s)
    BY <1>1
  <2> QED
    BY <1>1, <2>1
<1>3. new = app
  BY <1>1, <1>2, SeqEqual
<1> QED
  BY <1>3 DEF app

LEMMA MeaningfulGrows ==
  ASSUME NEW T, NEW s \in Seq(T), NEW t \in T
  PROVE  /\ t.type \in {"COMMENT", "WHITESPACE"} => Meaningful(Append(s, t)) = Meaningful(s)
         /\ t.type \notin {"COMMENT", "WHITESPACE"} =>
              Meaningful(Append(s, t)) = Append(Meaningful(s), t)
<1> DEFINE n == Len(s)
           Some(u) == {k \in DOMAIN u : u[k].type \notin {"COMMENT", "WHITESPACE"}}
           u == Append(s, t)
           at == InOrder(Some(s), n)
<1>1. n \in Nat /\ DOMAIN s = 1..n
  BY LenProperties
<1>2. /\ u \in Seq(T) /\ Len(u) = n + 1 /\ DOMAIN u = 1..(n + 1)
      /\ u[n + 1] = t /\ \A k \in 1..n : u[k] = s[k]
  BY <1>1
<1> HIDE DEF u
<1>3. \A k \in 1..n : k \in Some(u) <=> k \in Some(s)
  BY <1>1, <1>2
<1>4. n + 1 \in Some(u) <=> t.type \notin {"COMMENT", "WHITESPACE"}
  BY <1>1, <1>2
<1> HIDE DEF n, Some
<1>5. InOrder(Some(u), n) = at
  BY <1>1, <1>3, InOrderAgrees
<1>6. at \in Seq(Nat) /\ Len(at) \in Nat /\ DOMAIN at = 1..Len(at) /\ \A i \in 1..Len(at) : at[i] \in 1..n
  BY <1>1, InOrderIsSorted
<1>7. Meaningful(s) = [i \in 1..Len(at) |-> s[at[i]]]
  BY <1>6 DEF Meaningful, Selected, Some, n
<1> HIDE DEF at
<1>8. \A i \in 1..Len(at) : u[at[i]] = s[at[i]]
  BY <1>2, <1>6
<1>9. CASE t.type \in {"COMMENT", "WHITESPACE"}
  <2>1. InOrder(Some(u), n + 1) = at
    BY <1>1, <1>4, <1>5, <1>9, InOrderGrows
  <2>2. Meaningful(u) = [i \in 1..Len(at) |-> u[at[i]]]
    BY <1>2, <1>6, <2>1 DEF Meaningful, Selected, Some
  <2>3. [i \in 1..Len(at) |-> u[at[i]]] = [i \in 1..Len(at) |-> s[at[i]]]
    BY <1>8
  <2> QED
    BY <1>7, <1>9, <2>2, <2>3 DEF u
<1>10. CASE t.type \notin {"COMMENT", "WHITESPACE"}
  <2> DEFINE more == Append(at, n + 1)
             old == [i \in 1..Len(at) |-> s[at[i]]]
             new == [i \in 1..(Len(at) + 1) |-> u[more[i]]]
  <2>1. InOrder(Some(u), n + 1) = more
    BY <1>1, <1>4, <1>5, <1>10, InOrderGrows
  <2>2. /\ Len(more) = Len(at) + 1 /\ DOMAIN more = 1..(Len(at) + 1)
        /\ more[Len(at) + 1] = n + 1 /\ \A i \in 1..Len(at) : more[i] = at[i]
    BY <1>1, <1>6
  <2>3. Meaningful(u) = new
    BY <1>2, <2>1, <2>2 DEF Meaningful, Selected, Some
  <2> HIDE DEF more
  <2>4. old \in Seq(T) /\ Len(old) = Len(at)
    <3>1. \A i \in 1..Len(at) : s[at[i]] \in T
      BY <1>1, <1>6, ElementOfSeq DEF n
    <3> QED
      BY <1>6, <3>1
  <2>5. new[Len(at) + 1] = t /\ \A i \in 1..Len(at) : new[i] = old[i]
    BY <1>2, <1>6, <1>8, <2>2
  <2>6. new \in Seq(T) /\ Len(new) = Len(at) + 1
    <3>1. \A i \in 1..(Len(at) + 1) : new[i] \in T
      <4> SUFFICES ASSUME NEW i \in 1..(Len(at) + 1) PROVE new[i] \in T
        OBVIOUS
      <4>1. i = Len(at) + 1 \/ i \in 1..Len(at)
        BY <1>6
      <4> HIDE DEF new
      <4> QED
        BY <2>4, <2>5, <4>1, ElementOfSeq
    <3> QED
      BY <1>6, <3>1
  <2> HIDE DEF new, old
  <2>8. new = Append(old, t)
    BY <2>4, <2>5, <2>6, AppendIs
  <2> QED
    BY <1>7, <1>10, <2>3, <2>8 DEF u, old
<1> QED
  BY <1>9, <1>10

(* What follows does not change what was selected before.                  *)
LEMMA MeaningfulIsPrefix ==
  ASSUME NEW T, NEW a \in Seq(T), NEW b \in Seq(T)
  PROVE  /\ Len(Meaningful(a)) <= Len(Meaningful(a \o b))
         /\ \A i \in 1..Len(Meaningful(a)) : Meaningful(a \o b)[i] = Meaningful(a)[i]
<1> DEFINE Some(u) == {k \in DOMAIN u : u[k].type \notin {"COMMENT", "WHITESPACE"}}
           c == a \o b
           short == InOrder(Some(a), Len(a))
           long == InOrder(Some(c), Len(c))
<1>1. /\ Len(a) \in Nat /\ Len(b) \in Nat /\ DOMAIN a = 1..Len(a)
      /\ c \in Seq(T) /\ Len(c) = Len(a) + Len(b) /\ DOMAIN c = 1..Len(c)
      /\ \A i \in 1..Len(a) : c[i] = a[i]
  BY LenProperties, ConcatProperties
<1> HIDE DEF c
<1>2. \A k \in 1..Len(a) : k \in Some(c) <=> k \in Some(a)
  BY <1>1
<1> HIDE DEF Some
<1>3. InOrder(Some(c), Len(a)) = short
  BY <1>1, <1>2, InOrderAgrees
<1>4. Len(a) <= Len(c) /\ Len(c) \in Nat
  BY <1>1
<1>5. Len(short) <= Len(long) /\ \A i \in 1..Len(short) : long[i] = short[i]
  BY <1>1, <1>3, <1>4, InOrderIsPrefix
<1>6. /\ Len(short) \in Nat /\ DOMAIN short = 1..Len(short)
      /\ \A i \in 1..Len(short) : short[i] \in 1..Len(a)
      /\ Len(long) \in Nat /\ DOMAIN long = 1..Len(long)
  BY <1>1, <1>4, InOrderIsSorted
<1>7. /\ Meaningful(a) = [i \in 1..Len(short) |-> a[short[i]]]
      /\ Meaningful(c) = [i \in 1..Len(long) |-> c[long[i]]]
  BY <1>6 DEF Meaningful, Selected, Some
<1> HIDE DEF short, long
<1>8. Len(Meaningful(a)) = Len(short) /\ Len(Meaningful(c)) = Len(long)
  BY <1>6, <1>7
<1>9. ASSUME NEW i \in 1..Len(short) PROVE Meaningful(c)[i] = Meaningful(a)[i]
  <2>1. i \in 1..Len(long) /\ long[i] = short[i] /\ short[i] \in 1..Len(a)
    BY <1>5, <1>6
  <2>2. Meaningful(c)[i] = c[short[i]] /\ Meaningful(a)[i] = a[short[i]]
    BY <1>7, <2>1
  <2> QED
    BY <1>1, <2>1, <2>2
<1> QED
  BY <1>5, <1>8, <1>9 DEF c

-----------------------------------------------------------------------------
(* The lexer.                                                              *)

(* SkipTo gives the first place of one of the pieces, or the one behind    *)
(* the text.                                                               *)
LEMMA SkipToIsFirst ==
  ASSUME NEW text \in AnyText, NEW i \in Nat, NEW stops
  PROVE  LET j == SkipTo(text, i, stops)
         IN  /\ j \in Nat /\ j <= Len(text) + 1
             /\ j <= Len(text) => j >= i /\ text[j] \in stops
             /\ \A k \in i..Len(text) : text[k] \in stops => j <= k
<1> DEFINE S == {j \in i..Len(text) : text[j] \in stops} \union {Len(text) + 1}
<1>1. Len(text) \in Nat
  BY LenProperties DEF AnyText
<1>2. S \in SUBSET Nat /\ S # {}
  BY <1>1
<1>3. PICK x \in S : \A y \in S : x <= y
  BY <1>2, LeastNatural
<1>4. SkipTo(text, i, stops) \in S /\ \A y \in S : SkipTo(text, i, stops) <= y
  BY <1>3 DEF SkipTo, Min
<1>5. Len(text) + 1 \in S /\ \A k \in i..Len(text) : text[k] \in stops => k \in S
  OBVIOUS
<1>6. LET j == SkipTo(text, i, stops)
      IN  (j \in i..Len(text) /\ text[j] \in stops) \/ j = Len(text) + 1
  BY <1>4
<1> HIDE DEF S
<1> QED
  BY <1>1, <1>4, <1>5, <1>6

LEMMA EscapesUnfolds ==
  ASSUME NEW text, NEW from \in Nat
  PROVE  \A i \in Nat : Escapes(text, from)[i] =
           (/\ i > from + 1
            /\ text[i - 1] = "\\" /\ ~Escapes(text, from)[i - 1]
            /\ text[i] \in DOMAIN Unescaped)
<1> DEFINE Can(i) == i > from + 1 /\ text[i - 1] = "\\" /\ text[i] \in DOMAIN Unescaped
           Value(g, i) == /\ i > from + 1
                          /\ text[i - 1] = "\\" /\ ~g[i - 1]
                          /\ text[i] \in DOMAIN Unescaped
           escaped == CHOOSE g : g = [i \in Nat |-> Value(g, i)]
           step == [p \in Nat \X BOOLEAN |-> Can(p[1]) /\ ~p[2]]
<1>1. step \in [Nat \X BOOLEAN -> BOOLEAN] /\ FALSE \in BOOLEAN
  OBVIOUS
<1>2. \A i \in Nat, e \in BOOLEAN : step[<<i, e>>] = (Can(i) /\ ~e)
  OBVIOUS
<1>3. PICK f : Recurs(f, BOOLEAN, FALSE, step)
  <2> HIDE DEF step
  <2> QED
    BY <1>1, PrimitiveRecursion
<1> HIDE DEF step
<1>4. /\ f \in [Nat -> BOOLEAN] /\ f[0] = FALSE
      /\ \A n \in Nat \ {0} : f[n] = step[<<n, f[n - 1]>>]
  BY <1>3 DEF Recurs
<1>5. ASSUME NEW i \in Nat PROVE f[i] = Value(f, i)
  <2>1. CASE i = 0
    <3>1. ~(0 > from + 1)
      OBVIOUS
    <3> QED
      BY <1>4, <2>1, <3>1, Zenon
  <2>2. CASE i # 0
    <3>1. i \in Nat \ {0} /\ i - 1 \in Nat
      BY <2>2
    <3>2. f[i - 1] \in BOOLEAN
      BY <1>4, <3>1
    <3>3. f[i] = (Can(i) /\ ~f[i - 1])
      <4> HIDE DEF Can
      <4> QED
        BY <1>2, <1>4, <3>1, <3>2, Zenon
    <3>4. Value(f, i) = (Can(i) /\ ~f[i - 1])
      BY Zenon
    <3> QED
      BY <3>3, <3>4, Zenon
  <2> QED
    BY <2>1, <2>2
<1>6. f = [i \in Nat |-> Value(f, i)]
  <2> HIDE DEF Value
  <2> QED
    BY <1>4, <1>5
<1>7. escaped = [i \in Nat |-> Value(escaped, i)]
  BY <1>6, Zenon
<1>8. Escapes(text, from) = escaped
  BY DEF Escapes
<1> HIDE DEF escaped
<1>9. \A i \in Nat : escaped[i] = Value(escaped, i)
  <2> HIDE DEF Value
  <2> QED
    BY <1>7
<1> QED
  BY <1>8, <1>9, Zenon

(***************************************************************************)
(* What the parser may rely on of a token: its type and its place; the     *)
(* stream moves on behind all but the last; a word ends before the end of  *)
(* the text, at a piece that begins no comment.                            *)
(***************************************************************************)
SoundToken(text, from, t) ==
  /\ t \in AnyToken /\ t.type # "START"
  /\ t.type \notin {"EOF", "ERROR"} => from <= Len(text) /\ t.next > from /\ t.next <= Len(text) + 1
  /\ t.type \in Words => t.next <= Len(text) /\ text[t.next] # "#" /\ t.value # << >>
  /\ t.type = "COMMENT" => text[from] = "#"

LEMMA TokenIs ==
  ASSUME NEW type \in TokenTypes, NEW value \in AnyText, NEW next \in Nat \ {0}
  PROVE  LET t == Token(type, value, next)
         IN  t \in AnyToken /\ t.type = type /\ t.value = value /\ t.next = next
BY DEF Token, AnyToken

LEMMA UnescapedIsText ==
  ASSUME NEW p \in DOMAIN Unescaped
  PROVE  Unescaped[p] \in Pieces
<1> DEFINE plain == {"'", "\"", "n", "t", "\\"}
           Plain(q) == CASE q = "n" -> "\n" [] q = "t" -> "\t" [] OTHER -> q
<1>1. DOMAIN Unescaped = plain /\ Unescaped[p] = Plain(p)
  BY DEF Unescaped
<1>2. p \in Pieces /\ "\n" \in Pieces /\ "\t" \in Pieces
  BY <1>1, PiecesAssumption
<1>3. CASE p = "n"
  BY <1>1, <1>2, <1>3, Zenon
<1>4. CASE p = "t"
  <2>1. Plain(p) = "\t"
    BY <1>4
  <2> QED
    BY <1>1, <1>2, <2>1, Zenon
<1>5. CASE p # "n" /\ p # "t"
  <2>1. Plain(p) = p
    BY <1>5
  <2> QED
    BY <1>1, <1>2, <2>1, Zenon
<1> QED
  BY <1>3, <1>4, <1>5

LEMMA QuotedStringIsSound ==
  ASSUME NEW text \in AnyText, NEW from \in 1..Len(text), text[from] # "#"
  PROVE  SoundToken(text, from, QuotedString(text, from))
<1> DEFINE escaped == Escapes(text, from)
           close == {i \in (from + 1)..(Len(text) - 1) : text[i] = text[from] /\ ~escaped[i]}
           end == Min(close)
           S == {i \in from..end : ~escaped[i + 1]}
           kept == InOrder(S, end)
           value == [k \in DOMAIN kept |-> LET i == kept[k]
                                           IN  IF escaped[i] THEN Unescaped[text[i]] ELSE text[i]]
           ends == close # {} /\ text[end + 1] \in Blanks \union {";", "{"}
<1>1. Len(text) \in Nat /\ DOMAIN text = 1..Len(text) /\ from \in Nat
  BY LenProperties DEF AnyText
<1>2. QuotedString(text, from) = IF ends THEN Token("QUOTED_STRING", value, end + 1)
                                 ELSE Token("ERROR", << >>, Len(text) + 1)
  BY DEF QuotedString
<1>3. ASSUME NEW i \in Nat, escaped[i] PROVE i > from + 1 /\ text[i] \in DOMAIN Unescaped
  <2>1. escaped[i] = (/\ i > from + 1
                      /\ text[i - 1] = "\\" /\ ~escaped[i - 1]
                      /\ text[i] \in DOMAIN Unescaped)
    BY <1>1, EscapesUnfolds, Zenon
  <2> QED
    BY <1>3, <2>1, Zenon
<1> HIDE DEF escaped
<1>4. CASE ~ends
  <2>1. << >> \in AnyText /\ "ERROR" \in TokenTypes /\ Len(text) + 1 \in Nat \ {0}
    BY <1>1 DEF AnyText, TokenTypes, Words
  <2>2. QuotedString(text, from) = Token("ERROR", << >>, Len(text) + 1)
    BY <1>2, <1>4
  <2> DEFINE t == Token("ERROR", << >>, Len(text) + 1)
  <2>3. t \in AnyToken /\ t.type = "ERROR"
    BY <2>1, TokenIs
  <2> HIDE DEF t
  <2>4. SoundToken(text, from, t)
    BY <2>3 DEF SoundToken, Words
  <2> QED
    BY <2>2, <2>4 DEF t
<1>5. CASE ends
  <2>1. close \in SUBSET Nat /\ close # {}
    <3>1. close # {}
      BY <1>5, Zenon
    <3>2. close \subseteq (from + 1)..(Len(text) - 1)
      BY Zenon
    <3> HIDE DEF close
    <3> QED
      BY <1>1, <3>1, <3>2
  <2>2. end \in close
    <3>1. PICK x \in close : \A y \in close : x <= y
      BY <2>1, LeastNatural
    <3> QED
      BY <3>1 DEF Min
  <2>3. end \in Nat /\ from < end /\ end + 1 <= Len(text) /\ text[end + 1] # "#"
    <3>1. text[end + 1] \in Blanks \union {";", "{"}
      BY <1>5
    <3>2. end \in (from + 1)..(Len(text) - 1)
      BY <2>2
    <3> HIDE DEF end
    <3>3. text[end + 1] # "#"
      BY <3>1 DEF Blanks
    <3> QED
      BY <1>1, <3>2, <3>3
  <2> HIDE DEF end, close, ends
  <2>4. /\ kept \in Seq(Nat) /\ Len(kept) \in Nat /\ DOMAIN kept = 1..Len(kept)
        /\ \A k \in DOMAIN kept : kept[k] \in S
        /\ \A i \in 1..end : i \in S => \E k \in DOMAIN kept : kept[k] = i
    <3> HIDE DEF S
    <3> QED
      BY <2>3, InOrderIsSorted
  <2>5. from \in S
    <3>1. ~escaped[from + 1]
      <4>1. from + 1 \in Nat /\ ~(from + 1 > from + 1)
        BY <1>1
      <4> QED
        BY <1>3, <4>1
    <3>2. from \in from..end
      BY <1>1, <2>3
    <3> QED
      BY <3>1, <3>2
  <2>6. \A k \in 1..Len(kept) : kept[k] \in 1..Len(text)
    <3> SUFFICES ASSUME NEW k \in 1..Len(kept) PROVE kept[k] \in 1..Len(text)
      OBVIOUS
    <3>1. kept[k] \in S
      BY <2>4
    <3> HIDE DEF kept
    <3> QED
      BY <1>1, <2>3, <3>1
  <2>7. Len(kept) > 0
    <3>1. PICK k \in 1..Len(kept) : kept[k] = from
      <4>1. from \in 1..end
        BY <1>1, <2>3
      <4> HIDE DEF S, kept
      <4> QED
        BY <2>4, <2>5, <4>1
    <3> HIDE DEF kept
    <3> QED
      BY <2>4, <3>1
  <2> HIDE DEF kept, S
  <2>8. \A k \in 1..Len(kept) : value[k] \in Pieces
    <3> SUFFICES ASSUME NEW k \in 1..Len(kept) PROVE value[k] \in Pieces
      OBVIOUS
    <3>1. kept[k] \in Nat /\ text[kept[k]] \in Pieces
      BY <1>1, <2>6, ElementOfSeq DEF AnyText
    <3>2. value[k] = IF escaped[kept[k]] THEN Unescaped[text[kept[k]]] ELSE text[kept[k]]
      BY <2>4
    <3> HIDE DEF value
    <3>3. CASE escaped[kept[k]]
      BY <1>3, <3>1, <3>2, <3>3, UnescapedIsText, Zenon
    <3>4. CASE ~escaped[kept[k]]
      BY <3>1, <3>2, <3>4, Zenon
    <3> QED
      BY <3>3, <3>4
  <2>9. value = [k \in 1..Len(kept) |-> value[k]]
    BY <2>4
  <2> HIDE DEF value
  <2>11. value \in AnyText /\ value # << >>
    <3>1. value \in Seq(Pieces) /\ Len(value) = Len(kept)
      BY <2>4, <2>8, <2>9
    <3>2. Len(<< >>) = 0
      OBVIOUS
    <3> QED
      BY <2>7, <3>1, <3>2 DEF AnyText
  <2>12. QuotedString(text, from) = Token("QUOTED_STRING", value, end + 1)
    BY <1>2, <1>5, Zenon DEF ends
  <2> DEFINE t == Token("QUOTED_STRING", value, end + 1)
  <2>13. t \in AnyToken /\ t.type = "QUOTED_STRING" /\ t.value = value /\ t.next = end + 1
    <3>1. "QUOTED_STRING" \in TokenTypes /\ end + 1 \in Nat \ {0}
      BY <2>3 DEF TokenTypes, Words
    <3> QED
      BY <2>11, <3>1, TokenIs
  <2> HIDE DEF t
  <2>14. SoundToken(text, from, t)
    BY <1>1, <2>3, <2>11, <2>13 DEF SoundToken, Words
  <2> QED
    BY <2>12, <2>14 DEF t
<1> QED
  BY <1>4, <1>5

LEMMA SubSeqOfText ==
  ASSUME NEW text \in AnyText, NEW i \in 1..Len(text), NEW j \in i..Len(text)
  PROVE  SubSeq(text, i, j) \in AnyText /\ SubSeq(text, i, j) # << >>
<1> DEFINE word == SubSeq(text, i, j)
<1>1. Len(text) \in Nat
  BY LenProperties DEF AnyText
<1>2. i \in 1..(Len(text) + 1) /\ j \in (i - 1)..Len(text)
  BY <1>1
<1>3. word \in Seq(Pieces) /\ Len(word) = j - i + 1
  BY <1>2, SubSeqProperties DEF AnyText
<1> HIDE DEF word
<1>4. Len(word) > 0 /\ Len(<< >>) = 0
  BY <1>3
<1> QED
  BY <1>3, <1>4 DEF word, AnyText

(* A run of pieces that ends in front of next is a token, unless the text  *)
(* ends there.                                                             *)
LEMMA RunIsSound ==
  ASSUME NEW text \in AnyText, NEW from \in 1..Len(text), NEW next \in Nat,
         from < next, next <= Len(text) + 1,
         NEW type \in {"NORMAL", "WHITESPACE", "COMMENT"}, NEW skipped \in {0, 1},
         type = "NORMAL" /\ next <= Len(text) => text[next] # "#",
         type = "NORMAL" => skipped = 0,
         type = "COMMENT" <=> text[from] = "#"
  PROVE  SoundToken(text, from, IF next > Len(text) THEN Token("EOF", << >>, next)
                                ELSE Token(type, SubSeq(text, from, next - 1), next + skipped))
<1>1. Len(text) \in Nat /\ from \in Nat
  BY LenProperties DEF AnyText
<1>2. CASE next > Len(text)
  <2> DEFINE t == Token("EOF", << >>, next)
  <2>1. t \in AnyToken /\ t.type = "EOF"
    <3>1. << >> \in AnyText /\ "EOF" \in TokenTypes /\ next \in Nat \ {0}
      BY <1>1 DEF AnyText, TokenTypes, Words
    <3> QED
      BY <3>1, TokenIs
  <2> HIDE DEF t
  <2>2. SoundToken(text, from, t)
    BY <2>1 DEF SoundToken, Words
  <2> QED
    BY <1>2, <2>2 DEF t
<1>3. CASE next <= Len(text)
  <2> DEFINE word == SubSeq(text, from, next - 1)
             t == Token(type, word, next + skipped)
  <2>1. word \in AnyText /\ word # << >>
    BY <1>1, <1>3, SubSeqOfText
  <2> HIDE DEF word
  <2>2. t \in AnyToken /\ t.type = type /\ t.value = word /\ t.next = next + skipped
    <3>1. type \in TokenTypes /\ next + skipped \in Nat \ {0}
      BY <1>1 DEF TokenTypes, Words
    <3> QED
      BY <2>1, <3>1, TokenIs
  <2> HIDE DEF t
  <2>3. next + skipped > from /\ next + skipped <= Len(text) + 1
    BY <1>1, <1>3
  <2>4. ASSUME type \in Words
        PROVE  t.next <= Len(text) /\ text[t.next] # "#" /\ t.value # << >>
    <3>1. type = "NORMAL"
      BY <2>4 DEF Words
    <3> QED
      BY <1>3, <2>1, <2>2, <3>1 DEF AnyText
  <2>5. SoundToken(text, from, t)
    BY <1>1, <2>2, <2>3, <2>4 DEF SoundToken
  <2>6. ~(next > Len(text))
    BY <1>1, <1>3
  <2> QED
    BY <2>5, <2>6 DEF t, word
<1> QED
  BY <1>1, <1>2, <1>3

LEMMA SignIsSound ==
  ASSUME NEW text \in AnyText, NEW from \in 1..Len(text), text[from] # "#",
         NEW type \in {"START_BLOCK", "END_BLOCK", "STATEMENT_END"}
  PROVE  SoundToken(text, from, Token(type, <<text[from]>>, from + 1))
<1> DEFINE t == Token(type, <<text[from]>>, from + 1)
<1>1. Len(text) \in Nat /\ from \in Nat
  BY LenProperties DEF AnyText
<1>2. <<text[from]>> \in AnyText
  <2>1. text[from] \in Pieces
    BY ElementOfSeq DEF AnyText
  <2> QED
    BY <2>1 DEF AnyText
<1>3. t \in AnyToken /\ t.type = type /\ t.next = from + 1
  <2>1. type \in TokenTypes /\ from + 1 \in Nat \ {0}
    BY <1>1 DEF TokenTypes, Words
  <2> QED
    BY <1>2, <2>1, TokenIs
<1> HIDE DEF t
<1>4. SoundToken(text, from, t)
  BY <1>1, <1>3 DEF SoundToken, Words
<1> QED
  BY <1>4 DEF t

(* The kinds of token, by their first piece.                               *)
LEMMA ParseTokenIs ==
  ASSUME NEW text \in AnyText, NEW from \in 1..Len(text)
  PROVE  LET c == text[from]
             Run(stops, type, skipped) ==
               LET next == SkipTo(text, from, stops)
               IN  IF next > Len(text) THEN Token("EOF", << >>, next)
                   ELSE Token(type, SubSeq(text, from, next - 1), next + skipped)
             t == ParseToken(text, from)
         IN  /\ c = "{" => t = Token("START_BLOCK", <<c>>, from + 1)
             /\ c = "}" => t = Token("END_BLOCK", <<c>>, from + 1)
             /\ c = ";" => t = Token("STATEMENT_END", <<c>>, from + 1)
             /\ c \in {"'", "\""} => t = QuotedString(text, from)
             /\ c = "#" => t = Run({"\n", "\r"}, "COMMENT", 1)
             /\ c \in Blanks => t = Run(Range(text) \ Blanks, "WHITESPACE", 0)
             /\ c \notin {"{", "}", ";", "'", "\"", "#"} \union Blanks =>
                  t = Run(EndsWord, "NORMAL", 0)
<1> DEFINE Run(stops, type, skipped) ==
             LET next == SkipTo(text, from, stops)
             IN  IF next > Len(text) THEN Token("EOF", << >>, next)
                 ELSE Token(type, SubSeq(text, from, next - 1), next + skipped)
           Sign(type, c) == Token(type, <<c>>, from + 1)
           quoted == QuotedString(text, from)
           t == ParseToken(text, from)
<1>1. Len(text) \in Nat /\ from \in Nat /\ ~(from > Len(text))
  BY LenProperties DEF AnyText
<1>2. PICK c : c = text[from]
  OBVIOUS
<1> DEFINE ofKind == CASE c = "{" -> Sign("START_BLOCK", c)
                       [] c = "}" -> Sign("END_BLOCK", c)
                       [] c = ";" -> Sign("STATEMENT_END", c)
                       [] c \in {"'", "\""} -> quoted
                       [] c = "#" -> Run({"\n", "\r"}, "COMMENT", 1)
                       [] c \in Blanks -> Run(Range(text) \ Blanks, "WHITESPACE", 0)
                       [] OTHER -> Run(EndsWord, "NORMAL", 0)
<1>3. t = ofKind
  <2>1. t = IF from > Len(text) THEN Token("EOF", << >>, from) ELSE ofKind
    BY <1>2 DEF ParseToken
  <2> HIDE DEF t, ofKind
  <2> QED
    BY <1>1, <2>1, Zenon
<1> HIDE DEF Run, Sign, quoted, t
<1>4. c = "{" => t = Sign("START_BLOCK", c)
  BY <1>3 DEF Blanks
<1>5. c = "}" => t = Sign("END_BLOCK", c)
  BY <1>3 DEF Blanks
<1>6. c = ";" => t = Sign("STATEMENT_END", c)
  BY <1>3 DEF Blanks
<1>7. c \in {"'", "\""} => t = quoted
  BY <1>3 DEF Blanks
<1>8. c = "#" => t = Run({"\n", "\r"}, "COMMENT", 1)
  BY <1>3 DEF Blanks
<1>9. c \in Blanks => t = Run(Range(text) \ Blanks, "WHITESPACE", 0)
  BY <1>3 DEF Blanks
<1>10. c \notin {"{", "}", ";", "'", "\"", "#"} \union Blanks => t = Run(EndsWord, "NORMAL", 0)
  BY <1>3 DEF Blanks
<1> QED
  BY <1>2, <1>4, <1>5, <1>6, <1>7, <1>8, <1>9, <1>10, Zenon DEF Run, Sign, quoted, t

LEMMA ParseTokenIsSound ==
  ASSUME NEW text \in AnyText, NEW from \in Nat \ {0}
  PROVE  SoundToken(text, from, ParseToken(text, from))
<1>1. Len(text) \in Nat
  BY LenProperties DEF AnyText
<1>2. CASE from > Len(text)
  <2> DEFINE t == Token("EOF", << >>, from)
  <2>1. ParseToken(text, from) = t
    BY <1>2 DEF ParseToken
  <2>2. t \in AnyToken /\ t.type = "EOF"
    <3>1. << >> \in AnyText /\ "EOF" \in TokenTypes
      BY DEF AnyText, TokenTypes, Words
    <3> QED
      BY <3>1, TokenIs
  <2> HIDE DEF t
  <2>3. SoundToken(text, from, t)
    BY <2>2 DEF SoundToken, Words
  <2> QED
    BY <2>1, <2>3
<1>3. CASE from <= Len(text)
  <2>1. from \in 1..Len(text) /\ from \in Nat
    BY <1>1, <1>3
  <2> DEFINE Run(stops, type, skipped) ==
               LET next == SkipTo(text, from, stops)
               IN  IF next > Len(text) THEN Token("EOF", << >>, next)
                   ELSE Token(type, SubSeq(text, from, next - 1), next + skipped)
             Sign(type) == Token(type, <<text[from]>>, from + 1)
  <2>2. PICK c : c = text[from]
    OBVIOUS
  <2>3. LET t == ParseToken(text, from)
        IN  /\ c = "{" => t = Sign("START_BLOCK")
            /\ c = "}" => t = Sign("END_BLOCK")
            /\ c = ";" => t = Sign("STATEMENT_END")
            /\ c \in {"'", "\""} => t = QuotedString(text, from)
            /\ c = "#" => t = Run({"\n", "\r"}, "COMMENT", 1)
            /\ c \in Blanks => t = Run(Range(text) \ Blanks, "WHITESPACE", 0)
            /\ c \notin {"{", "}", ";", "'", "\"", "#"} \union Blanks =>
                 t = Run(EndsWord, "NORMAL", 0)
    BY <2>1, <2>2, ParseTokenIs, Zenon
  <2>4. ASSUME NEW stops, c \notin stops, NEW type \in {"NORMAL", "WHITESPACE", "COMMENT"},
               NEW skipped \in {0, 1}, type = "NORMAL" => skipped = 0,
               type = "NORMAL" => "#" \notin stops, type = "COMMENT" <=> c = "#"
        PROVE  SoundToken(text, from, Run(stops, type, skipped))
    <3> DEFINE next == SkipTo(text, from, stops)
    <3>1. /\ next \in Nat /\ next <= Len(text) + 1
          /\ next <= Len(text) => next >= from /\ text[next] \in stops
      BY <2>1, SkipToIsFirst
    <3> HIDE DEF next
    <3>2. next # from
      BY <2>1, <2>2, <2>4, <3>1
    <3>3. from < next
      BY <1>1, <2>1, <3>1, <3>2
    <3>4. type = "NORMAL" /\ next <= Len(text) => text[next] # "#"
      BY <2>4, <3>1
    <3>5. type = "COMMENT" <=> text[from] = "#"
      BY <2>2, <2>4
    <3>6. SoundToken(text, from, IF next > Len(text) THEN Token("EOF", << >>, next)
                                 ELSE Token(type, SubSeq(text, from, next - 1), next + skipped))
      BY <2>1, <2>4, <3>1, <3>3, <3>4, <3>5, RunIsSound
    <3> QED
      BY <3>6 DEF next
  <2>5. ASSUME NEW type \in {"START_BLOCK", "END_BLOCK", "STATEMENT_END"}, c # "#"
        PROVE  SoundToken(text, from, Sign(type))
    BY <2>1, <2>2, <2>5, SignIsSound
  <2>6. c # "#" => SoundToken(text, from, QuotedString(text, from))
    BY <2>1, <2>2, QuotedStringIsSound
  <2> HIDE DEF Run, Sign
  <2>7. CASE c \in {"{", "}", ";"}
    <3>1. c # "#"
      BY <2>7
    <3>2. ParseToken(text, from) \in {Sign("START_BLOCK"), Sign("END_BLOCK"), Sign("STATEMENT_END")}
      BY <2>3, <2>7, Zenon
    <3> QED
      BY <2>5, <3>1, <3>2, Zenon
  <2>8. CASE c \in {"'", "\""}
    <3>1. c # "#"
      BY <2>8
    <3> QED
      BY <2>3, <2>6, <2>8, <3>1, Zenon
  <2>9. CASE c = "#"
    <3>1. c \notin {"\n", "\r"}
      BY <2>9
    <3>2. SoundToken(text, from, Run({"\n", "\r"}, "COMMENT", 1))
      BY <2>4, <2>9, <3>1
    <3> QED
      BY <2>3, <2>9, <3>2, Zenon
  <2>10. CASE c \in Blanks
    <3> DEFINE stops == Range(text) \ Blanks
    <3>1. c \notin stops /\ c # "#"
      BY <2>10 DEF Blanks
    <3> HIDE DEF stops
    <3>2. SoundToken(text, from, Run(stops, "WHITESPACE", 0))
      BY <2>4, <3>1
    <3> QED
      BY <2>3, <2>10, <3>2, Zenon DEF stops
  <2>11. CASE c \notin {"{", "}", ";", "'", "\"", "#"} \union Blanks
    <3>1. c \notin EndsWord /\ c # "#"
      BY <2>11 DEF EndsWord
    <3>2. "#" \notin EndsWord
      BY DEF EndsWord, Blanks
    <3>3. SoundToken(text, from, Run(EndsWord, "NORMAL", 0))
      BY <2>4, <3>1, <3>2
    <3> QED
      BY <2>3, <2>11, <3>3, Zenon
  <2> QED
    BY <2>7, <2>8, <2>9, <2>10, <2>11
<1> QED
  BY <1>1, <1>2, <1>3

-----------------------------------------------------------------------------
(* The tokens of a text, one behind the other.                             *)

Place == Nat \ {0}
Ends(t) == t.type \in {"EOF", "ERROR"}

LEMMA RestIsBehind ==
  ASSUME NEW text \in AnyText, NEW i \in Place, NEW f, NEW g,
         \A k \in Place : k > i => f[k] = g[k]
  PROVE  TokenAndRest(text, f, i) = TokenAndRest(text, g, i)
<1> DEFINE t == ParseToken(text, i)
<1>1. SoundToken(text, i, t)
  BY ParseTokenIsSound DEF Place
<1> HIDE DEF t
<1>2. t \in AnyToken /\ (~Ends(t) => t.next > i)
  BY <1>1 DEF SoundToken, Ends
<1>3. ~Ends(t) => f[t.next] = g[t.next]
  <2>1. t.next \in Place
    BY <1>2 DEF AnyToken, Place
  <2> QED
    BY <1>2, <2>1
<1>4. TokenAndRest(text, f, i) = IF Ends(t) THEN <<t>> ELSE <<t>> \o f[t.next]
  BY Zenon DEF TokenAndRest, t, Ends
<1>5. TokenAndRest(text, g, i) = IF Ends(t) THEN <<t>> ELSE <<t>> \o g[t.next]
  BY Zenon DEF TokenAndRest, t, Ends
<1> QED
  <2>1. CASE Ends(t)
    BY <1>4, <1>5, <2>1, Zenon
  <2>2. CASE ~Ends(t)
    BY <1>3, <1>4, <1>5, <2>2, Zenon
  <2> QED
    BY <2>1, <2>2

LEMMA TokenAndRestIsTyped ==
  ASSUME NEW text \in AnyText, NEW i \in Place, NEW f \in [Place -> Seq(AnyToken)]
  PROVE  TokenAndRest(text, f, i) \in Seq(AnyToken)
<1> DEFINE t == ParseToken(text, i)
<1>1. SoundToken(text, i, t)
  BY ParseTokenIsSound DEF Place
<1> HIDE DEF t
<1>2. t \in AnyToken /\ t.next \in Place
  BY <1>1 DEF SoundToken, AnyToken, Place
<1>3. TokenAndRest(text, f, i) = IF Ends(t) THEN <<t>> ELSE <<t>> \o f[t.next]
  BY Zenon DEF TokenAndRest, t, Ends
<1>4. <<t>> \in Seq(AnyToken) /\ f[t.next] \in Seq(AnyToken)
  BY <1>2
<1>5. <<t>> \o f[t.next] \in Seq(AnyToken)
  BY <1>4, ConcatProperties
<1> QED
  BY <1>3, <1>4, <1>5, Zenon

(* The recursion of TokensFrom has a solution, since every token but the   *)
(* last moves on: built from the end of the text.                          *)
LEMMA TokensFromExist ==
  ASSUME NEW text \in AnyText
  PROVE  \E f \in [Place -> Seq(AnyToken)] : \A j \in Place : f[j] = TokenAndRest(text, f, j)
<1> DEFINE L == Len(text)
           Fits(f, n) == /\ f \in [Place -> Seq(AnyToken)]
                         /\ \A j \in Place : j > L - n => f[j] = TokenAndRest(text, f, j)
           Good == {n \in Nat : \E f : Fits(f, n)}
<1>0. L \in Nat
  BY LenProperties DEF AnyText
<1> HIDE DEF L
<1>1. 0 \in Good
  <2> DEFINE f == [j \in Place |-> <<ParseToken(text, j)>>]
  <2>1. ASSUME NEW j \in Place PROVE ParseToken(text, j) \in AnyToken
    BY ParseTokenIsSound DEF Place, SoundToken
  <2>2. f \in [Place -> Seq(AnyToken)]
    BY <2>1
  <2>3. ASSUME NEW j \in Place, j > L - 0 PROVE f[j] = TokenAndRest(text, f, j)
    <3>1. j > L
      BY <1>0, <2>3
    <3>2. ParseToken(text, j) = Token("EOF", << >>, j)
      BY <3>1 DEF ParseToken, L
    <3>3. ParseToken(text, j).type = "EOF"
      BY <3>2 DEF Token
    <3>4. f[j] = <<ParseToken(text, j)>>
      BY Zenon
    <3> HIDE DEF f
    <3> QED
      BY <3>3, <3>4 DEF TokenAndRest
  <2> HIDE DEF f
  <2> QED
    BY <2>2, <2>3
<1>2. ASSUME NEW n \in Nat, n \in Good PROVE n + 1 \in Good
  <2>1. PICK f : Fits(f, n)
    BY <1>2
  <2>2. CASE L - n \notin Place
    <3>1. \A j \in Place : j > L - (n + 1) => j > L - n
      BY <1>0, <2>2 DEF Place
    <3>2. Fits(f, n + 1)
      BY <2>1, <3>1
    <3> HIDE DEF Fits
    <3> QED
      BY <3>2
  <2>3. CASE L - n \in Place
    <3> DEFINE i == L - n
               value == TokenAndRest(text, f, i)
               g == [f EXCEPT ![i] = value]
    <3>1. value \in Seq(AnyToken)
      <4> HIDE DEF i
      <4> QED
        BY <2>1, <2>3, TokenAndRestIsTyped DEF i
    <3> HIDE DEF value
    <3>2. /\ g \in [Place -> Seq(AnyToken)] /\ g[i] = value
          /\ \A j \in Place : j # i => g[j] = f[j]
      BY <2>1, <2>3, <3>1
    <3> HIDE DEF g
    <3>3. i \in Int /\ i \in Place
      BY <1>0, <2>3
    <3>4. ASSUME NEW j \in Place, j > L - (n + 1) PROVE g[j] = TokenAndRest(text, g, j)
      <4>1. j >= i /\ j \in Nat
        BY <1>0, <3>4 DEF Place
      <4> HIDE DEF i
      <4>2. \A k \in Place : k > j => g[k] = f[k]
        BY <3>2, <3>3, <4>1 DEF Place
      <4>3. TokenAndRest(text, g, j) = TokenAndRest(text, f, j)
        BY <4>2, RestIsBehind
      <4>4. CASE j = i
        BY <3>2, <4>3, <4>4 DEF value
      <4>5. CASE j # i
        <5>1. j > L - n
          BY <3>3, <4>1, <4>5 DEF i
        <5>2. f[j] = TokenAndRest(text, f, j)
          BY <2>1, <5>1
        <5> QED
          BY <3>2, <4>3, <4>5, <5>2
      <4> QED
        BY <4>4, <4>5
    <3>5. Fits(g, n + 1)
      BY <3>2, <3>4
    <3> HIDE DEF Fits
    <3> QED
      BY <3>5
  <2> QED
    BY <2>2, <2>3
<1>3. L \in Good
  <2> HIDE DEF Good
  <2> QED
    BY <1>0, <1>1, <1>2, SetInduction
<1>4. PICK f : Fits(f, L)
  BY <1>3
<1>5. \A j \in Place : j > L - L
  BY <1>0 DEF Place
<1> QED
  BY <1>4, <1>5

LEMMA TokensFromUnfolds ==
  ASSUME NEW text \in AnyText, NEW i \in Place
  PROVE  LET t == ParseToken(text, i)
         IN  /\ TokensFrom(text, i) \in Seq(AnyToken)
             /\ Ends(t) => TokensFrom(text, i) = <<t>>
             /\ ~Ends(t) => TokensFrom(text, i) = <<t>> \o TokensFrom(text, t.next)
<1> DEFINE from == CHOOSE f : f = [j \in Nat \ {0} |-> TokenAndRest(text, f, j)]
<1>1. PICK f \in [Place -> Seq(AnyToken)] : \A j \in Place : f[j] = TokenAndRest(text, f, j)
  BY TokensFromExist
<1>2. f = [j \in Nat \ {0} |-> TokenAndRest(text, f, j)]
  BY <1>1 DEF Place
<1>3. from = [j \in Nat \ {0} |-> TokenAndRest(text, from, j)]
  BY <1>2, Zenon
<1>4. \A j \in Place : TokensFrom(text, j) = from[j]
  BY DEF TokensFrom
<1> HIDE DEF from
<1>5. \A j \in Place : from[j] = TokenAndRest(text, from, j)
  BY <1>3, Zenon DEF Place
<1>6. \A j \in Place : from[j] = f[j]
  <2> DEFINE L == Len(text)
             Good == {n \in Nat : \A j \in Place : j > L - n => from[j] = f[j]}
  <2>0. L \in Nat
    BY LenProperties DEF AnyText
  <2> HIDE DEF L
  <2>1. ASSUME NEW j \in Place, \A k \in Place : k > j => from[k] = f[k]
        PROVE  from[j] = f[j]
    <3>1. TokenAndRest(text, from, j) = TokenAndRest(text, f, j)
      BY <2>1, RestIsBehind
    <3> QED
      BY <1>1, <1>5, <3>1
  <2>2. 0 \in Good
    <3> SUFFICES ASSUME NEW j \in Place, j > L - 0 PROVE from[j] = f[j]
      OBVIOUS
    <3>1. ParseToken(text, j) = Token("EOF", << >>, j)
      BY <2>0 DEF ParseToken, L
    <3>2. ParseToken(text, j).type = "EOF"
      BY <3>1 DEF Token
    <3>3. TokenAndRest(text, from, j) = TokenAndRest(text, f, j)
      BY <3>2 DEF TokenAndRest
    <3> QED
      BY <1>1, <1>5, <3>3
  <2>3. ASSUME NEW n \in Nat, n \in Good PROVE n + 1 \in Good
    <3> SUFFICES ASSUME NEW j \in Place, j > L - (n + 1) PROVE from[j] = f[j]
      OBVIOUS
    <3>1. \A k \in Place : k > j => from[k] = f[k]
      BY <2>0, <2>3 DEF Place
    <3> QED
      BY <2>1, <3>1
  <2>4. L \in Good
    <3> HIDE DEF Good
    <3> QED
      BY <2>0, <2>2, <2>3, SetInduction
  <2>5. \A j \in Place : j > L - L
    BY <2>0 DEF Place
  <2> QED
    BY <2>4, <2>5
<1> DEFINE t == ParseToken(text, i)
<1>7. SoundToken(text, i, t)
  BY ParseTokenIsSound DEF Place
<1> HIDE DEF t
<1>8. t.next \in Place
  BY <1>7 DEF SoundToken, AnyToken, Place
<1>9. TokensFrom(text, i) = IF Ends(t) THEN <<t>> ELSE <<t>> \o from[t.next]
  BY <1>4, <1>5, Zenon DEF TokenAndRest, t, Ends
<1>10. TokensFrom(text, i) \in Seq(AnyToken)
  BY <1>1, <1>4, <1>6
<1>11. TokensFrom(text, t.next) = from[t.next]
  BY <1>4, <1>8
<1> QED
  BY <1>9, <1>10, <1>11, Zenon DEF t

LEMMA OneAndRest ==
  ASSUME NEW S, NEW t \in S, NEW rest \in Seq(S)
  PROVE  LET all == <<t>> \o rest
         IN  /\ all \in Seq(S) /\ Len(rest) \in Nat /\ Len(all) = 1 + Len(rest) /\ all[1] = t
             /\ \A k \in 2..(1 + Len(rest)) : all[k] = rest[k - 1]
<1>1. <<t>> \in Seq(S) /\ Len(<<t>>) = 1 /\ <<t>>[1] = t
  OBVIOUS
<1>2. PICK one \in Seq(S) : one = <<t>>
  BY <1>1
<1>3. Len(one) = 1 /\ one[1] = t
  BY <1>2
<1>4. /\ Len(rest) \in Nat /\ one \o rest \in Seq(S) /\ Len(one \o rest) = 1 + Len(rest)
      /\ \A k \in 1..(1 + Len(rest)) :
           (one \o rest)[k] = IF k <= 1 THEN one[k] ELSE rest[k - 1]
  BY <1>3, ConcatProperties, LenProperties
<1>5. ASSUME NEW k \in 2..(1 + Len(rest)) PROVE (one \o rest)[k] = rest[k - 1]
  BY <1>4
<1>6. (one \o rest)[1] = t
  BY <1>3, <1>4
<1> QED
  BY <1>2, <1>4, <1>5, <1>6

(* All of them but the last end behind the place they are read from.       *)
LEMMA TokensMoveOn ==
  ASSUME NEW text \in AnyText, NEW i \in Place
  PROVE  \A k \in 1..Len(TokensFrom(text, i)) :
           Ends(TokensFrom(text, i)[k]) \/ TokensFrom(text, i)[k].next > i
<1> DEFINE L == Len(text)
           Moves(j) == \A k \in 1..Len(TokensFrom(text, j)) :
                         Ends(TokensFrom(text, j)[k]) \/ TokensFrom(text, j)[k].next > j
           Good == {n \in Nat : \A j \in Place : j > L - n => Moves(j)}
<1>0. L \in Nat
  BY LenProperties DEF AnyText
<1> HIDE DEF L
<1>1. ASSUME NEW j \in Place, \A m \in Place : m > j => Moves(m)
      PROVE  Moves(j)
  <2> DEFINE t == ParseToken(text, j)
             rest == TokensFrom(text, t.next)
             all == TokensFrom(text, j)
  <2>1. SoundToken(text, j, t)
    BY ParseTokenIsSound DEF Place
  <2>2. t \in AnyToken /\ t.next \in Place /\ (~Ends(t) => t.next > j)
    <3> HIDE DEF t
    <3> QED
      BY <2>1 DEF SoundToken, AnyToken, Place, Ends
  <2>3. /\ Ends(t) => all = <<t>>
        /\ ~Ends(t) => all = <<t>> \o rest
    BY TokensFromUnfolds, Zenon
  <2>4. rest \in Seq(AnyToken)
    <3> HIDE DEF t
    <3> QED
      BY <2>2, TokensFromUnfolds
  <2>5. t.next > j => Moves(t.next)
    <3> HIDE DEF Moves
    <3> QED
      BY <1>1, <2>2
  <2> HIDE DEF t, all
  <2>6. CASE Ends(t)
    <3>1. Len(all) = 1 /\ all[1] = t
      BY <2>3, <2>6
    <3>2. ASSUME NEW k \in 1..Len(all) PROVE Ends(all[k])
      BY <2>6, <3>1, <3>2
    <3> QED
      BY <3>2 DEF all
  <2>7. CASE ~Ends(t)
    <3>1. \A k \in 1..Len(rest) : Ends(rest[k]) \/ rest[k].next > t.next
      BY <2>2, <2>5, <2>7
    <3> HIDE DEF rest
    <3>2. /\ Len(rest) \in Nat /\ Len(all) = 1 + Len(rest) /\ all[1] = t
          /\ \A k \in 2..(1 + Len(rest)) : all[k] = rest[k - 1]
      BY <2>2, <2>3, <2>4, <2>7, OneAndRest
    <3>3. ASSUME NEW k \in 1..Len(all) PROVE Ends(all[k]) \/ all[k].next > j
      <4>1. CASE k = 1
        BY <2>2, <2>7, <3>2, <4>1
      <4>2. CASE k # 1
        <5>1. k \in 2..(1 + Len(rest)) /\ k - 1 \in 1..Len(rest)
          BY <3>2, <4>2
        <5>2. Ends(rest[k - 1]) \/ rest[k - 1].next > t.next
          BY <3>1, <5>1
        <5>3. all[k] = rest[k - 1] /\ rest[k - 1] \in AnyToken
          BY <2>4, <3>2, <5>1, ElementOfSeq
        <5>4. rest[k - 1].next > t.next => rest[k - 1].next > j
          BY <2>2, <2>7, <5>3 DEF AnyToken, Place
        <5> QED
          BY <5>2, <5>3, <5>4
      <4> QED
        BY <4>1, <4>2
    <3> QED
      BY <3>3 DEF all
  <2> QED
    BY <2>6, <2>7
<1> HIDE DEF Moves
<1>2. 0 \in Good
  <2> SUFFICES ASSUME NEW j \in Place, j > L - 0 PROVE Moves(j)
    OBVIOUS
  <2>1. ParseToken(text, j) = Token("EOF", << >>, j)
    BY <1>0 DEF ParseToken, L
  <2>2. Ends(ParseToken(text, j))
    BY <2>1 DEF Token, Ends
  <2>3. TokensFrom(text, j) = <<ParseToken(text, j)>>
    BY <2>2, TokensFromUnfolds, Zenon
  <2> QED
    BY <2>2, <2>3 DEF Moves
<1>3. ASSUME NEW n \in Nat, n \in Good PROVE n + 1 \in Good
  <2> SUFFICES ASSUME NEW j \in Place, j > L - (n + 1) PROVE Moves(j)
    OBVIOUS
  <2>1. \A k \in Place : k > j => Moves(k)
    BY <1>0, <1>3 DEF Place
  <2> QED
    BY <1>1, <2>1
<1>4. L \in Good
  <2> HIDE DEF Good
  <2> QED
    BY <1>0, <1>2, <1>3, SetInduction
<1>5. i > L - L
  BY <1>0 DEF Place
<1>6. Moves(i)
  BY <1>4, <1>5
<1> QED
  BY <1>6 DEF Moves

-----------------------------------------------------------------------------
(* Braces: how many are open where.                                        *)

AnyTokens == Seq(AnyToken)

(* T is the beginning of U.                                                *)
StartsWith(U, T) == Len(T) <= Len(U) /\ \A j \in 1..Len(T) : U[j] = T[j]

LEMMA TokensAre ==
  ASSUME NEW T \in AnyTokens
  PROVE  Len(T) \in Nat /\ DOMAIN T = 1..Len(T) /\ \A k \in 1..Len(T) : T[k] \in AnyToken
BY LenProperties, ElementOfSeq DEF AnyTokens

LEMMA AppendStartsWith ==
  ASSUME NEW T \in AnyTokens, NEW t \in AnyToken
  PROVE  LET U == Append(T, t)
         IN  /\ U \in AnyTokens /\ Len(U) = Len(T) + 1 /\ U[Len(T) + 1] = t
             /\ StartsWith(U, T)
<1> DEFINE U == Append(T, t)
<1>1. /\ U \in Seq(AnyToken) /\ Len(T) \in Nat /\ Len(U) = Len(T) + 1 /\ U[Len(T) + 1] = t
      /\ \A j \in 1..Len(T) : U[j] = T[j]
  BY DEF AnyTokens
<1> HIDE DEF U
<1>2. U \in AnyTokens /\ StartsWith(U, T)
  BY <1>1 DEF AnyTokens, StartsWith
<1> QED
  BY <1>1, <1>2 DEF U

LEMMA PlacesAgree ==
  ASSUME NEW T \in AnyTokens, NEW U \in AnyTokens, StartsWith(U, T),
         NEW type, NEW k \in Int, k <= Len(T)
  PROVE  Places(U, type, k) = Places(T, type, k)
<1>1. \A j \in 1..k : U[j] = T[j]
  BY TokensAre DEF StartsWith
<1> QED
  BY <1>1 DEF Places

LEMMA PlacesAreFew ==
  ASSUME NEW T, NEW type, NEW j \in Int, NEW k \in Int, j <= k
  PROVE  /\ IsFiniteSet(Places(T, type, k)) /\ Cardinality(Places(T, type, k)) \in Nat
         /\ Cardinality(Places(T, type, j)) <= Cardinality(Places(T, type, k))
<1>1. IsFiniteSet(1..k)
  BY FS_Interval
<1>2. Places(T, type, k) \subseteq 1..k /\ Places(T, type, j) \subseteq Places(T, type, k)
  BY DEF Places
<1>3. IsFiniteSet(Places(T, type, k))
  BY <1>1, <1>2, FS_Subset
<1> QED
  BY <1>2, <1>3, FS_Subset, FS_CardinalityType

LEMMA PlacesGrow ==
  ASSUME NEW T, NEW type, NEW k \in Nat
  PROVE  /\ Places(T, type, 0) = {} /\ Cardinality(Places(T, type, 0)) = 0
         /\ T[k + 1].type # type => Places(T, type, k + 1) = Places(T, type, k)
         /\ T[k + 1].type = type =>
              /\ Places(T, type, k + 1) = Places(T, type, k) \union {k + 1}
              /\ Cardinality(Places(T, type, k + 1)) = Cardinality(Places(T, type, k)) + 1
<1>1. Places(T, type, 0) = {}
  BY DEF Places
<1>2. Cardinality(Places(T, type, 0)) = 0
  BY <1>1, FS_EmptySet
<1>3. T[k + 1].type # type => Places(T, type, k + 1) = Places(T, type, k)
  BY DEF Places
<1>4. ASSUME T[k + 1].type = type
      PROVE  /\ Places(T, type, k + 1) = Places(T, type, k) \union {k + 1}
             /\ Cardinality(Places(T, type, k + 1)) = Cardinality(Places(T, type, k)) + 1
  <2>1. Places(T, type, k + 1) = Places(T, type, k) \union {k + 1}
    BY <1>4 DEF Places
  <2>2. k + 1 \notin Places(T, type, k)
    BY DEF Places
  <2>3. IsFiniteSet(Places(T, type, k))
    BY PlacesAreFew
  <2> HIDE DEF Places
  <2> QED
    BY <2>1, <2>2, <2>3, FS_AddElement
<1> QED
  BY <1>1, <1>2, <1>3, <1>4

LEMMA LevelGrows ==
  ASSUME NEW T \in AnyTokens, NEW k \in 1..Len(T)
  PROVE  /\ Level(T, 1) = 0 /\ Level(T, k) \in Int /\ Level(T, k + 1) \in Int
         /\ T[k].type \notin {"START_BLOCK", "END_BLOCK"} => Level(T, k + 1) = Level(T, k)
         /\ T[k].type = "START_BLOCK" => Level(T, k + 1) = Level(T, k) + 1
         /\ T[k].type = "END_BLOCK" => Level(T, k + 1) = Level(T, k) - 1
<1> DEFINE s(i) == Cardinality(Places(T, "START_BLOCK", i))
           e(i) == Cardinality(Places(T, "END_BLOCK", i))
<1>1. k \in Nat /\ k - 1 \in Nat /\ (k - 1) + 1 = k /\ (k + 1) - 1 = k
  BY TokensAre
<1>2. s(k) \in Nat /\ e(k) \in Nat /\ s(k - 1) \in Nat /\ e(k - 1) \in Nat /\ s(0) = 0 /\ e(0) = 0
  BY <1>1, PlacesAreFew, PlacesGrow
<1>3. /\ T[k].type # "START_BLOCK" => s(k) = s(k - 1)
      /\ T[k].type = "START_BLOCK" => s(k) = s(k - 1) + 1
      /\ T[k].type # "END_BLOCK" => e(k) = e(k - 1)
      /\ T[k].type = "END_BLOCK" => e(k) = e(k - 1) + 1
  <2>1. \A type : /\ T[(k - 1) + 1].type # type => Places(T, type, (k - 1) + 1) = Places(T, type, k - 1)
                  /\ T[(k - 1) + 1].type = type =>
                       Cardinality(Places(T, type, (k - 1) + 1)) = Cardinality(Places(T, type, k - 1)) + 1
    BY <1>1, PlacesGrow
  <2> QED
    BY <1>1, <2>1
<1>4. Level(T, k) = s(k - 1) - e(k - 1) /\ Level(T, k + 1) = s(k) - e(k) /\ Level(T, 1) = s(0) - e(0)
  BY <1>1 DEF Level
<1> HIDE DEF s, e
<1> QED
  BY <1>2, <1>3, <1>4

LEMMA NoLevel ==
  ASSUME NEW T
  PROVE  Level(T, 1) = 0
<1>1. Cardinality(Places(T, "START_BLOCK", 0)) = 0 /\ Cardinality(Places(T, "END_BLOCK", 0)) = 0
  BY PlacesGrow
<1> QED
  BY <1>1 DEF Level

LEMMA LevelAgrees ==
  ASSUME NEW T \in AnyTokens, NEW U \in AnyTokens, StartsWith(U, T), NEW k \in 1..(Len(T) + 1)
  PROVE  Level(U, k) = Level(T, k)
<1>1. k - 1 \in Int /\ k - 1 <= Len(T)
  BY TokensAre
<1>2. \A type : Places(U, type, k - 1) = Places(T, type, k - 1)
  BY <1>1, PlacesAgree
<1> QED
  BY <1>2 DEF Level

LEMMA BlocksAreNumbered ==
  ASSUME NEW T \in AnyTokens, NEW j \in Nat, NEW k \in Nat, j <= k
  PROVE  /\ BlockOpenedAt(T, k) \in Nat /\ BlockOpenedAt(T, j) >= 1
         /\ BlockOpenedAt(T, j) <= BlockOpenedAt(T, k) /\ BlockOpenedAt(T, 0) = 1
         /\ T[k + 1].type # "START_BLOCK" => BlockOpenedAt(T, k + 1) = BlockOpenedAt(T, k)
         /\ T[k + 1].type = "START_BLOCK" => BlockOpenedAt(T, k + 1) = BlockOpenedAt(T, k) + 1
<1> DEFINE s(i) == Cardinality(Places(T, "START_BLOCK", i))
<1>1. s(j) \in Nat /\ s(k) \in Nat /\ s(j) <= s(k) /\ s(0) = 0
  BY PlacesAreFew, PlacesGrow
<1>2. /\ T[k + 1].type # "START_BLOCK" => s(k + 1) = s(k)
      /\ T[k + 1].type = "START_BLOCK" => s(k + 1) = s(k) + 1
  BY PlacesGrow
<1>3. \A i : BlockOpenedAt(T, i) = 1 + s(i)
  BY DEF BlockOpenedAt
<1> HIDE DEF s
<1> QED
  BY <1>1, <1>2, <1>3

LEMMA BlockNumbersAgree ==
  ASSUME NEW T \in AnyTokens, NEW U \in AnyTokens, StartsWith(U, T), NEW k \in Int, k <= Len(T)
  PROVE  BlockOpenedAt(U, k) = BlockOpenedAt(T, k)
BY PlacesAgree DEF BlockOpenedAt

-----------------------------------------------------------------------------
(* The innermost block.                                                    *)

LEMMA MaxIsGreatest ==
  ASSUME NEW S \in SUBSET Int, S # {}, NEW bound \in Int, \A x \in S : x <= bound
  PROVE  Max(S) \in S /\ \A y \in S : y <= Max(S)
<1>1. PICK x \in S : \A y \in S : y <= x
  BY GreatestInteger
<1> QED
  BY <1>1 DEF Max

(* The braces open in front of k at the level of its block.                *)
OpenBraces(T, k) == {j \in Places(T, "START_BLOCK", k - 1) : Level(T, j) = Level(T, k) - 1}

LEMMA BlockAroundIs ==
  ASSUME NEW T \in AnyTokens, NEW k \in 1..(Len(T) + 1)
  PROVE  /\ OpenBraces(T, k) = {} => BlockAround(T, k) = 1
         /\ OpenBraces(T, k) # {} => BlockAround(T, k) = BlockOpenedAt(T, Max(OpenBraces(T, k)))
         /\ BlockAround(T, k) \in 1..BlockOpenedAt(T, k - 1)
<1> DEFINE open == OpenBraces(T, k)
<1>1. k - 1 \in Nat /\ BlockOpenedAt(T, k - 1) \in Nat /\ BlockOpenedAt(T, k - 1) >= 1
  BY TokensAre, BlocksAreNumbered
<1>2. BlockAround(T, k) = IF open = {} THEN 1 ELSE BlockOpenedAt(T, Max(open))
  BY DEF BlockAround, OpenBraces
<1>3. CASE open = {}
  BY <1>1, <1>2, <1>3
<1>4. CASE open # {}
  <2>1. open \in SUBSET Int /\ \A x \in open : x <= k - 1 /\ x \in Nat
    BY <1>1 DEF Places, OpenBraces
  <2> HIDE DEF open
  <2>2. PICK bound \in Int : bound = k - 1
    BY <1>1
  <2>3. Max(open) \in open
    BY <1>4, <2>1, <2>2, MaxIsGreatest
  <2>4. Max(open) \in Nat /\ Max(open) <= k - 1
    BY <2>1, <2>3
  <2>5. BlockOpenedAt(T, Max(open)) \in 1..BlockOpenedAt(T, k - 1)
    <3> DEFINE m == Max(open)
    <3>1. m \in Nat /\ m <= k - 1
      BY <2>4
    <3> HIDE DEF m
    <3>2. BlockOpenedAt(T, m) >= 1 /\ BlockOpenedAt(T, m) <= BlockOpenedAt(T, k - 1) /\ BlockOpenedAt(T, m) \in Nat
      BY <1>1, <3>1, BlocksAreNumbered
    <3> QED
      BY <1>1, <3>2 DEF m
  <2> QED
    BY <1>2, <1>4, <2>5 DEF open
<1> QED
  BY <1>3, <1>4

LEMMA BlockAroundAgrees ==
  ASSUME NEW T \in AnyTokens, NEW U \in AnyTokens, StartsWith(U, T), NEW k \in 1..(Len(T) + 1)
  PROVE  BlockAround(U, k) = BlockAround(T, k)
<1>1. Len(T) \in Nat /\ Len(U) \in Nat /\ k \in 1..(Len(U) + 1) /\ k - 1 \in Nat /\ k - 1 <= Len(T)
  BY TokensAre DEF StartsWith
<1>2. Places(U, "START_BLOCK", k - 1) = Places(T, "START_BLOCK", k - 1)
  BY <1>1, PlacesAgree
<1>3. ASSUME NEW j \in Places(T, "START_BLOCK", k - 1) PROVE j \in 1..(k - 1) /\ Level(U, j) = Level(T, j)
  <2>1. j \in 1..(k - 1)
    BY DEF Places
  <2>2. j \in 1..(Len(T) + 1)
    BY <1>1, <2>1
  <2> QED
    BY <2>1, <2>2, LevelAgrees
<1>4. Level(U, k) = Level(T, k)
  BY LevelAgrees
<1>5. OpenBraces(U, k) = OpenBraces(T, k)
  BY <1>2, <1>3, <1>4 DEF OpenBraces
<1>6. CASE OpenBraces(T, k) = {}
  BY <1>1, <1>5, <1>6, BlockAroundIs
<1>7. CASE OpenBraces(T, k) # {}
  <2> DEFINE open == OpenBraces(T, k)
             m == Max(open)
  <2>1. open \in SUBSET Int /\ \A x \in open : x <= k - 1
    BY <1>1 DEF Places, OpenBraces
  <2>2. PICK bound \in Int : bound = k - 1
    BY <1>1
  <2>3. m \in open
    <3>1. open # {}
      BY <1>7
    <3> HIDE DEF open
    <3> QED
      BY <2>1, <2>2, <3>1, MaxIsGreatest
  <2> HIDE DEF open
  <2> HIDE DEF m
  <2>4. m \in Int /\ m <= Len(T)
    <3>1. m \in Int /\ m <= k - 1 /\ k - 1 \in Int
      BY <1>1, <2>1, <2>3
    <3> QED
      BY <1>1, <3>1
  <2>5. BlockOpenedAt(U, m) = BlockOpenedAt(T, m)
    BY <2>4, BlockNumbersAgree
  <2> QED
    BY <1>1, <1>5, <1>7, <2>5, BlockAroundIs DEF m, open
<1> QED
  BY <1>6, <1>7

(* Only braces change the innermost block.                                 *)
LEMMA BlockAroundStays ==
  ASSUME NEW T \in AnyTokens, NEW k \in 1..Len(T), T[k].type \notin {"START_BLOCK", "END_BLOCK"}
  PROVE  BlockAround(T, k + 1) = BlockAround(T, k)
<1>1. k - 1 \in Nat /\ (k - 1) + 1 = k /\ (k + 1) - 1 = k
  BY TokensAre
<1>2. Places(T, "START_BLOCK", (k - 1) + 1) = Places(T, "START_BLOCK", k - 1)
  BY <1>1, PlacesGrow
<1>3. Places(T, "START_BLOCK", k) = Places(T, "START_BLOCK", k - 1)
  BY <1>1, <1>2
<1>4. Level(T, k + 1) = Level(T, k)
  BY LevelGrows
<1> QED
  BY <1>1, <1>3, <1>4 DEF BlockAround

-----------------------------------------------------------------------------
(* The statement that begins at a word.                                    *)

LEMMA RunOfWords ==
  ASSUME NEW T \in AnyTokens, NEW k \in 1..Len(T), IsWord(T[k])
  PROVE  LET m == LastWord(T, k)
         IN  m \in k..Len(T) /\ (\A i \in k..m : IsWord(T[i])) /\ ~WordAt(T, m + 1)
<1> DEFINE S == {j \in k..Len(T) : \A i \in k..j : IsWord(T[i])}
           m == LastWord(T, k)
<1>1. Len(T) \in Nat /\ DOMAIN T = 1..Len(T) /\ k \in Nat
  BY TokensAre
<1>2. S \in SUBSET Int /\ k \in S /\ \A x \in S : x <= Len(T)
  BY <1>1
<1>3. m \in S /\ \A y \in S : y <= m
  <2>1. Max(S) \in S /\ \A y \in S : y <= Max(S)
    <3>1. S # {}
      BY <1>2
    <3> HIDE DEF S, m
    <3>2. PICK bound \in Nat : bound = Len(T)
      BY <1>1, Zenon
    <3> QED
      <4>1. bound \in Int /\ S \in SUBSET Int
        BY <1>2, <3>2
      <4>2. \A x \in S : x <= bound
        BY <1>2, <3>2, Zenon
      <4> QED
        BY <3>1, <4>1, <4>2, MaxIsGreatest, Zenon
  <2>2. m = Max(S)
    BY DEF LastWord
  <2> HIDE DEF m, S
  <2> QED
    BY <2>1, <2>2
<1> HIDE DEF m
<1>4. m \in k..Len(T) /\ \A i \in k..m : IsWord(T[i])
  BY <1>3
<1>5. ~WordAt(T, m + 1)
  <2> SUFFICES ASSUME m + 1 \in DOMAIN T, IsWord(T[m + 1]) PROVE FALSE
    BY DEF WordAt
  <2>1. m + 1 \in k..Len(T)
    BY <1>1, <1>4
  <2>2. ASSUME NEW i \in k..(m + 1) PROVE IsWord(T[i])
    <3>1. i \in k..m \/ i = m + 1
      BY <1>1, <1>4
    <3> QED
      BY <1>4, <3>1
  <2>3. m + 1 \in S
    BY <2>1, <2>2
  <2> QED
    BY <1>1, <1>3, <1>4, <2>3
<1> QED
  BY <1>4, <1>5 DEF m

LEMMA LastWordIs ==
  ASSUME NEW T \in AnyTokens, NEW k \in 1..Len(T), NEW m \in k..Len(T),
         \A i \in k..m : IsWord(T[i]), ~WordAt(T, m + 1)
  PROVE  LastWord(T, k) = m
<1> DEFINE l == LastWord(T, k)
<1>1. Len(T) \in Nat /\ DOMAIN T = 1..Len(T) /\ k \in Nat /\ m \in Nat
  BY TokensAre
<1>2. IsWord(T[k])
  BY <1>1
<1>3. l \in k..Len(T) /\ (\A i \in k..l : IsWord(T[i])) /\ ~WordAt(T, l + 1)
  BY <1>2, RunOfWords
<1> HIDE DEF l
<1>4. ~(l < m)
  <2> SUFFICES ASSUME l < m PROVE FALSE
    OBVIOUS
  <2>1. l + 1 \in k..m /\ l + 1 \in DOMAIN T
    BY <1>1, <1>3
  <2> QED
    BY <1>3, <2>1 DEF WordAt
<1>5. ~(m < l)
  <2> SUFFICES ASSUME m < l PROVE FALSE
    OBVIOUS
  <2>1. m + 1 \in k..l /\ m + 1 \in DOMAIN T
    BY <1>1, <1>3
  <2> QED
    BY <1>3, <2>1 DEF WordAt
<1> QED
  BY <1>1, <1>3, <1>4, <1>5 DEF l

AnyStatement == [tokens : Seq(AnyText), child : Nat]

LEMMA StatementIsTyped ==
  ASSUME NEW T \in AnyTokens, NEW k \in 1..Len(T), IsWord(T[k])
  PROVE  /\ StatementAt(T, k) \in AnyStatement
         /\ TokensAt(T, k) \in Seq(AnyText) /\ Len(TokensAt(T, k)) = LastWord(T, k) - k + 1
         /\ \A i \in 1..(LastWord(T, k) - k + 1) : TokensAt(T, k)[i] = T[k + i - 1].value
<1> DEFINE m == LastWord(T, k)
           len == m - k + 1
<1>1. Len(T) \in Nat /\ k \in Nat /\ \A j \in 1..Len(T) : T[j] \in AnyToken
  BY TokensAre
<1>2. m \in k..Len(T)
  BY RunOfWords
<1> HIDE DEF m
<1>3. len \in Nat /\ \A i \in 1..len : k + i - 1 \in 1..Len(T)
  BY <1>1, <1>2
<1>4. TokensAt(T, k) = [i \in 1..len |-> T[k + i - 1].value]
  BY DEF TokensAt, m
<1>5. \A i \in 1..len : T[k + i - 1].value \in AnyText
  BY <1>1, <1>3 DEF AnyToken
<1> HIDE DEF len
<1>6. /\ TokensAt(T, k) \in Seq(AnyText) /\ Len(TokensAt(T, k)) = len
      /\ \A i \in 1..len : TokensAt(T, k)[i] = T[k + i - 1].value
  BY <1>3, <1>4, <1>5
<1>7. m + 1 \in Nat
  BY <1>1, <1>2
<1>8. NoBlock \in Nat /\ BlockOpenedAt(T, m + 1) \in Nat
  BY <1>7, BlocksAreNumbered DEF NoBlock
<1>9. PICK child \in Nat : StatementAt(T, k) = [tokens |-> TokensAt(T, k), child |-> child]
  BY <1>8 DEF StatementAt, Statement, m
<1>10. StatementAt(T, k) \in AnyStatement
  BY <1>6, <1>9 DEF AnyStatement
<1> QED
  BY <1>6, <1>10 DEF m, len

(* A token behind a statement already ended, or neither a word nor "{",    *)
(* leaves it as it is.                                                     *)
LEMMA StatementKept ==
  ASSUME NEW T \in AnyTokens, NEW t \in AnyToken, NEW k \in 1..Len(T), IsWord(T[k]),
         LastWord(T, k) < Len(T) \/ (~IsWord(t) /\ t.type # "START_BLOCK")
  PROVE  StatementAt(Append(T, t), k) = StatementAt(T, k)
<1> DEFINE U == Append(T, t)
           n == Len(T)
           m == LastWord(T, k)
<1>1. n \in Nat /\ DOMAIN T = 1..n /\ k \in Nat
  BY TokensAre
<1>2. /\ U \in AnyTokens /\ Len(U) = n + 1 /\ U[n + 1] = t /\ StartsWith(U, T)
      /\ \A j \in 1..n : U[j] = T[j]
  BY AppendStartsWith DEF StartsWith
<1>3. DOMAIN U = 1..(n + 1)
  BY <1>2, TokensAre
<1>4. m \in k..n /\ (\A i \in k..m : IsWord(T[i])) /\ ~WordAt(T, m + 1)
  BY RunOfWords
<1>5. m < n \/ (~IsWord(t) /\ t.type # "START_BLOCK")
  OBVIOUS
<1> HIDE DEF U, m, n
<1>6. \A i \in k..m : U[i] = T[i]
  BY <1>1, <1>2, <1>4
<1>7. LastWord(U, k) = m
  <2>1. k \in 1..Len(U) /\ m \in k..Len(U)
    BY <1>1, <1>2, <1>4
  <2>2. \A i \in k..m : IsWord(U[i])
    BY <1>4, <1>6
  <2>3. ~WordAt(U, m + 1)
    <3>1. CASE m < n
      <4>1. m + 1 \in 1..n
        BY <1>1, <1>4, <3>1
      <4> QED
        BY <1>1, <1>2, <1>4, <4>1 DEF WordAt
    <3>2. CASE m = n
      BY <1>1, <1>2, <1>5, <3>2 DEF WordAt
    <3> QED
      BY <1>1, <1>4, <3>1, <3>2
  <2> QED
    BY <1>2, <2>1, <2>2, <2>3, LastWordIs
<1>8. TokensAt(U, k) = TokensAt(T, k)
  <2>1. ASSUME NEW i \in 1..(m - k + 1) PROVE U[k + i - 1] = T[k + i - 1]
    <3>1. k + i - 1 \in k..m
      BY <1>1, <1>4
    <3> QED
      BY <1>6, <3>1
  <2> QED
    BY <1>7, <2>1 DEF TokensAt, m
<1>9. CASE m < n
  <2>1. m + 1 \in 1..n /\ m + 1 \in DOMAIN U /\ m + 1 \in Int /\ m + 1 <= n
    BY <1>1, <1>3, <1>4, <1>9
  <2>2. U[m + 1] = T[m + 1] /\ BlockOpenedAt(U, m + 1) = BlockOpenedAt(T, m + 1)
    BY <1>2, <2>1, BlockNumbersAgree DEF n
  <2> QED
    BY <1>1, <1>7, <1>8, <2>1, <2>2 DEF StatementAt, U, m
<1>10. CASE m = n
  <2>1. m + 1 \notin DOMAIN T /\ m + 1 \in DOMAIN U /\ U[m + 1].type # "START_BLOCK"
    BY <1>1, <1>2, <1>3, <1>5, <1>10
  <2>2. StatementAt(T, k) = Statement(TokensAt(T, k), NoBlock)
    BY <2>1 DEF StatementAt, m
  <2>3. StatementAt(U, k) = Statement(TokensAt(T, k), NoBlock)
    BY <1>7, <1>8, <2>1 DEF StatementAt
  <2> QED
    BY <2>2, <2>3 DEF U
<1> QED
  BY <1>1, <1>4, <1>9, <1>10

(* A word or "{" right behind a statement.                                 *)
LEMMA StatementGrows ==
  ASSUME NEW T \in AnyTokens, NEW t \in AnyToken, NEW k \in 1..Len(T), IsWord(T[k]),
         LastWord(T, k) = Len(T)
  PROVE  /\ StatementAt(T, k) = Statement(TokensAt(T, k), NoBlock)
         /\ IsWord(t) => StatementAt(Append(T, t), k) =
                           Statement(Append(TokensAt(T, k), t.value), NoBlock)
         /\ t.type = "START_BLOCK" => StatementAt(Append(T, t), k) =
                           Statement(TokensAt(T, k), BlockOpenedAt(T, Len(T)) + 1)
<1> DEFINE U == Append(T, t)
           n == Len(T)
<1>1. n \in Nat /\ DOMAIN T = 1..n /\ k \in Nat
  BY TokensAre
<1>2. /\ U \in AnyTokens /\ Len(U) = n + 1 /\ U[n + 1] = t /\ StartsWith(U, T)
      /\ \A j \in 1..n : U[j] = T[j]
  BY AppendStartsWith DEF StartsWith
<1>3. DOMAIN U = 1..(n + 1)
  BY <1>2, TokensAre
<1>4. \A i \in k..n : IsWord(T[i])
  BY RunOfWords
<1>40. LastWord(T, k) = n
  OBVIOUS
<1>41. /\ TokensAt(T, k) \in Seq(AnyText) /\ Len(TokensAt(T, k)) = n - k + 1
       /\ \A i \in 1..(n - k + 1) : TokensAt(T, k)[i] = T[k + i - 1].value
  BY <1>40, StatementIsTyped
<1> HIDE DEF U, n
<1>5. StatementAt(T, k) = Statement(TokensAt(T, k), NoBlock)
  <2>1. n + 1 \notin DOMAIN T
    BY <1>1
  <2> QED
    BY <1>40, <2>1 DEF StatementAt
<1>6. k \in 1..Len(U) /\ IsWord(U[k])
  BY <1>1, <1>2, <1>4 DEF n
<1>7. ASSUME IsWord(t)
      PROVE  StatementAt(U, k) = Statement(Append(TokensAt(T, k), t.value), NoBlock)
  <2>1. LastWord(U, k) = n + 1
    <3>1. n + 1 \in k..Len(U)
      BY <1>1, <1>2 DEF n
    <3>2. ASSUME NEW i \in k..(n + 1) PROVE IsWord(U[i])
      <4>1. i \in k..n \/ i = n + 1
        BY <1>1
      <4> QED
        BY <1>1, <1>2, <1>4, <1>7, <4>1
    <3>3. ~WordAt(U, (n + 1) + 1)
      BY <1>1, <1>3 DEF WordAt
    <3> QED
      BY <1>2, <1>6, <3>1, <3>2, <3>3, LastWordIs
  <2>2. /\ TokensAt(U, k) \in Seq(AnyText) /\ Len(TokensAt(U, k)) = (n + 1) - k + 1
        /\ \A i \in 1..((n + 1) - k + 1) : TokensAt(U, k)[i] = U[k + i - 1].value
    BY <1>2, <1>6, <2>1, StatementIsTyped
  <2>3. TokensAt(U, k) = Append(TokensAt(T, k), t.value)
    <3>1. n - k + 1 \in Nat /\ (n + 1) - k + 1 = (n - k + 1) + 1 /\ k + ((n - k + 1) + 1) - 1 = n + 1
      BY <1>1 DEF n
    <3>2. TokensAt(U, k)[(n - k + 1) + 1] = t.value
      BY <1>2, <2>2, <3>1
    <3>3. \A i \in 1..(n - k + 1) : TokensAt(U, k)[i] = TokensAt(T, k)[i]
      <4> SUFFICES ASSUME NEW i \in 1..(n - k + 1)
                   PROVE  TokensAt(U, k)[i] = TokensAt(T, k)[i]
        OBVIOUS
      <4>1. k + i - 1 \in 1..n /\ i \in 1..((n + 1) - k + 1)
        BY <1>1, <3>1
      <4> QED
        BY <1>2, <1>41, <2>2, <4>1
    <3>4. t.value \in AnyText
      BY DEF AnyToken
    <3>5. Len(TokensAt(U, k)) = Len(TokensAt(T, k)) + 1
      BY <1>41, <2>2, <3>1
    <3> QED
      BY <1>41, <2>2, <3>2, <3>3, <3>4, <3>5, AppendIs
  <2>4. (n + 1) + 1 \notin DOMAIN U
    BY <1>1, <1>3
  <2> QED
    BY <2>1, <2>3, <2>4 DEF StatementAt
<1>8. ASSUME t.type = "START_BLOCK"
      PROVE  StatementAt(U, k) = Statement(TokensAt(T, k), BlockOpenedAt(T, n) + 1)
  <2>0. ~IsWord(t)
    BY <1>8 DEF IsWord, Words
  <2>1. LastWord(U, k) = n
    <3>1. n \in k..Len(U)
      BY <1>1, <1>2 DEF n
    <3>2. \A i \in k..n : IsWord(U[i])
      BY <1>1, <1>2, <1>4
    <3>3. ~WordAt(U, n + 1)
      BY <1>2, <2>0 DEF WordAt
    <3> QED
      BY <1>2, <1>6, <3>1, <3>2, <3>3, LastWordIs
  <2>2. /\ TokensAt(U, k) \in Seq(AnyText) /\ Len(TokensAt(U, k)) = n - k + 1
        /\ \A i \in 1..(n - k + 1) : TokensAt(U, k)[i] = U[k + i - 1].value
    BY <1>2, <1>6, <2>1, StatementIsTyped
  <2>3. TokensAt(U, k) = TokensAt(T, k)
    <3>1. ASSUME NEW i \in 1..(n - k + 1) PROVE TokensAt(U, k)[i] = TokensAt(T, k)[i]
      <4>1. k + i - 1 \in 1..n
        BY <1>1
      <4> QED
        BY <1>2, <1>41, <2>2, <4>1
    <3> QED
      BY <1>41, <2>2, <3>1, SeqEqual
  <2>4. n + 1 \in DOMAIN U /\ U[n + 1].type = "START_BLOCK"
    BY <1>1, <1>2, <1>3, <1>8
  <2>5. BlockOpenedAt(U, n + 1) = BlockOpenedAt(T, n) + 1
    <3>1. BlockOpenedAt(U, n) = BlockOpenedAt(T, n)
      BY <1>1, <1>2, BlockNumbersAgree DEF n
    <3>2. BlockOpenedAt(U, n + 1) = BlockOpenedAt(U, n) + 1
      <4>1. n <= n
        BY <1>1
      <4> QED
        BY <1>1, <1>2, <2>4, <4>1, BlocksAreNumbered
    <3> QED
      BY <3>1, <3>2
  <2> QED
    BY <2>1, <2>3, <2>4, <2>5 DEF StatementAt
<1> QED
  BY <1>5, <1>7, <1>8 DEF U, n

-----------------------------------------------------------------------------
(* What one more token adds to the tree.                                   *)

AnyHeap == Seq(Seq(AnyStatement))

Starts(T, b) == InOrder({k \in DOMAIN T : Begins(T, k) /\ BlockAround(T, k) = b}, Len(T))

LEMMA StartsAre ==
  ASSUME NEW T \in AnyTokens, NEW b
  PROVE  LET at == Starts(T, b)
         IN  /\ at \in Seq(Nat) /\ Len(at) \in Nat /\ DOMAIN at = 1..Len(at)
             /\ \A i \in 1..Len(at) : /\ at[i] \in 1..Len(T) /\ Begins(T, at[i])
                                      /\ BlockAround(T, at[i]) = b
             /\ \A i, j \in 1..Len(at) : i < j => at[i] < at[j]
             /\ \A k \in 1..Len(T) : Begins(T, k) /\ BlockAround(T, k) = b =>
                  \E i \in 1..Len(at) : at[i] = k
<1> DEFINE S == {k \in DOMAIN T : Begins(T, k) /\ BlockAround(T, k) = b}
           at == Starts(T, b)
<1>1. Len(T) \in Nat /\ DOMAIN T = 1..Len(T)
  BY TokensAre
<1>2. at = InOrder(S, Len(T))
  BY DEF Starts
<1>3. /\ \A k \in S : k \in 1..Len(T) /\ Begins(T, k) /\ BlockAround(T, k) = b
      /\ \A k \in 1..Len(T) : Begins(T, k) /\ BlockAround(T, k) = b => k \in S
  BY <1>1
<1> HIDE DEF S, at
<1>4. /\ at \in Seq(Nat) /\ Len(at) \in Nat /\ DOMAIN at = 1..Len(at)
      /\ \A i \in DOMAIN at : at[i] \in S /\ at[i] \in 1..Len(T)
      /\ \A i, j \in DOMAIN at : i < j => at[i] < at[j]
      /\ \A k \in 1..Len(T) : k \in S => \E i \in DOMAIN at : at[i] = k
  BY <1>1, <1>2, InOrderIsSorted
<1> QED
  BY <1>3, <1>4 DEF at

LEMMA TreeIs ==
  ASSUME NEW T \in AnyTokens
  PROVE  /\ Tree(T) \in AnyHeap
         /\ Len(Tree(T)) = BlockOpenedAt(T, Len(T)) /\ Len(Tree(T)) \in Nat
         /\ DOMAIN Tree(T) = 1..Len(Tree(T)) /\ 1 \in DOMAIN Tree(T)
         /\ \A b \in DOMAIN Tree(T) :
              /\ Tree(T)[b] = [i \in 1..Len(Starts(T, b)) |-> StatementAt(T, Starts(T, b)[i])]
              /\ Tree(T)[b] \in Seq(AnyStatement) /\ Len(Tree(T)[b]) = Len(Starts(T, b))
<1> DEFINE N == BlockOpenedAt(T, Len(T))
           block(b) == [i \in 1..Len(Starts(T, b)) |-> StatementAt(T, Starts(T, b)[i])]
<1>1. N \in Nat /\ N >= 1
  BY TokensAre, BlocksAreNumbered
<1>2. ASSUME NEW b PROVE block(b) \in Seq(AnyStatement) /\ Len(block(b)) = Len(Starts(T, b))
  <2> DEFINE at == Starts(T, b)
  <2>1. Len(at) \in Nat /\ \A i \in 1..Len(at) : at[i] \in 1..Len(T) /\ Begins(T, at[i])
    BY StartsAre
  <2> HIDE DEF at
  <2>2. \A i \in 1..Len(at) : StatementAt(T, at[i]) \in AnyStatement
    BY <2>1, StatementIsTyped DEF Begins
  <2>3. LET s == [i \in 1..Len(at) |-> StatementAt(T, at[i])]
        IN  s \in Seq(AnyStatement) /\ Len(s) = Len(at)
    BY <2>1, <2>2
  <2> QED
    BY <2>3 DEF at
<1>3. Tree(T) = [b \in 1..N |-> block(b)]
  <2>1. ASSUME NEW b \in 1..N
        PROVE  block(b) = LET starts == InOrder({k \in DOMAIN T : Begins(T, k) /\ BlockAround(T, k) = b}, Len(T))
                          IN  [i \in DOMAIN starts |-> StatementAt(T, starts[i])]
    <3>1. DOMAIN Starts(T, b) = 1..Len(Starts(T, b))
      BY StartsAre
    <3> QED
      BY <3>1 DEF Starts
  <2> HIDE DEF block
  <2> QED
    BY <2>1 DEF Tree
<1> HIDE DEF N, block
<1>4. \A b \in 1..N : block(b) \in Seq(AnyStatement)
  BY <1>2
<1>5. Tree(T) \in Seq(Seq(AnyStatement)) /\ Len(Tree(T)) = N /\ DOMAIN Tree(T) = 1..N
  BY <1>1, <1>3, <1>4
<1>6. \A b \in 1..N : Tree(T)[b] = block(b)
  BY <1>3
<1> QED
  BY <1>1, <1>2, <1>5, <1>6 DEF N, block, AnyHeap

LEMMA TreeOfNothing == << >> \in AnyTokens /\ Tree(<< >>) = << << >> >>
<1>1. << >> \in AnyTokens /\ Len(<< >>) = 0
  BY DEF AnyTokens
<1>2. BlockOpenedAt(<< >>, 0) = 1
  BY <1>1, BlocksAreNumbered
<1>3. Len(Tree(<< >>)) = 1 /\ Tree(<< >>) \in AnyHeap /\ DOMAIN Tree(<< >>) = 1..1
  BY <1>1, <1>2, TreeIs
<1>4. Len(Starts(<< >>, 1)) = 0
  <2>1. InOrder({k \in DOMAIN << >> : Begins(<< >>, k) /\ BlockAround(<< >>, k) = 1}, 0) = << >>
    BY InOrderGrows
  <2> QED
    BY <1>1, <2>1 DEF Starts
<1>5. Tree(<< >>)[1] \in Seq(AnyStatement) /\ Len(Tree(<< >>)[1]) = 0
  BY <1>1, <1>3, <1>4, TreeIs
<1>6. Tree(<< >>)[1] = << >>
  BY <1>5
<1> QED
  BY <1>1, <1>3, <1>6 DEF AnyHeap

(* Statements begin where they did, and one more when a word follows no    *)
(* word.                                                                   *)
LEMMA StartsGrow ==
  ASSUME NEW T \in AnyTokens, NEW t \in AnyToken, NEW b
  PROVE  LET begins == IsWord(t) /\ ~WordAt(T, Len(T)) /\ BlockAround(T, Len(T) + 1) = b
         IN  /\ ~begins => Starts(Append(T, t), b) = Starts(T, b)
             /\ begins => Starts(Append(T, t), b) = Append(Starts(T, b), Len(T) + 1)
<1> DEFINE U == Append(T, t)
           n == Len(T)
           S(V) == {k \in DOMAIN V : Begins(V, k) /\ BlockAround(V, k) = b}
           begins == IsWord(t) /\ ~WordAt(T, n) /\ BlockAround(T, n + 1) = b
<1>1. n \in Nat /\ DOMAIN T = 1..n
  BY TokensAre
<1>2. /\ U \in AnyTokens /\ Len(U) = n + 1 /\ U[n + 1] = t /\ StartsWith(U, T)
      /\ \A j \in 1..n : U[j] = T[j]
  BY AppendStartsWith DEF StartsWith
<1>3. DOMAIN U = 1..(n + 1)
  BY <1>2, TokensAre
<1>4. \A k \in 1..(n + 1) : BlockAround(U, k) = BlockAround(T, k)
  BY <1>2, BlockAroundAgrees
<1> HIDE DEF U
<1>5. ASSUME NEW k \in 1..(n + 1) PROVE WordAt(U, k - 1) <=> WordAt(T, k - 1)
  <2>1. CASE k - 1 \in 1..n
    BY <1>1, <1>2, <1>3, <2>1 DEF WordAt
  <2>2. CASE k - 1 \notin 1..n
    <3>1. k - 1 = 0
      BY <1>1, <2>2
    <3> QED
      BY <1>1, <1>3, <3>1 DEF WordAt
  <2> QED
    BY <2>1, <2>2
<1>6. ASSUME NEW k \in 1..n PROVE k \in S(U) <=> k \in S(T)
  <2>1. k \in 1..(n + 1)
    BY <1>1
  <2>2. Begins(U, k) <=> Begins(T, k)
    BY <1>2, <1>5, <2>1 DEF Begins
  <2> QED
    BY <1>1, <1>3, <1>4, <2>1, <2>2
<1>7. n + 1 \in S(U) <=> begins
  <2>1. n + 1 \in 1..(n + 1) /\ (n + 1) - 1 = n
    BY <1>1
  <2>2. WordAt(U, (n + 1) - 1) <=> WordAt(T, (n + 1) - 1)
    BY <1>5, <2>1
  <2>3. Begins(U, n + 1) <=> (IsWord(t) /\ ~WordAt(T, n))
    BY <1>2, <2>1, <2>2 DEF Begins
  <2> QED
    BY <1>3, <1>4, <2>1, <2>3
<1> HIDE DEF n
<1>8. Starts(U, b) = InOrder(S(U), n + 1) /\ Starts(T, b) = InOrder(S(T), n)
  BY <1>2 DEF Starts, n
<1> HIDE DEF S, begins
<1>9. InOrder(S(U), n) = InOrder(S(T), n)
  BY <1>1, <1>6, InOrderAgrees
<1>10. CASE begins
  <2>1. InOrder(S(U), n + 1) = Append(InOrder(S(U), n), n + 1)
    BY <1>1, <1>7, <1>10, InOrderGrows
  <2> QED
    BY <1>8, <1>9, <1>10, <2>1 DEF U, n, begins
<1>11. CASE ~begins
  <2>1. InOrder(S(U), n + 1) = InOrder(S(U), n)
    BY <1>1, <1>7, <1>11, InOrderGrows
  <2> QED
    BY <1>8, <1>9, <1>11, <2>1 DEF U, n, begins
<1> QED
  BY <1>10, <1>11

LEMMA BlocksGrow ==
  ASSUME NEW T \in AnyTokens, NEW t \in AnyToken
  PROVE  /\ t.type # "START_BLOCK" => Len(Tree(Append(T, t))) = Len(Tree(T))
         /\ t.type = "START_BLOCK" => Len(Tree(Append(T, t))) = Len(Tree(T)) + 1
<1> DEFINE U == Append(T, t)
           n == Len(T)
<1>1. n \in Nat
  BY TokensAre
<1>2. U \in AnyTokens /\ Len(U) = n + 1 /\ U[n + 1] = t /\ StartsWith(U, T)
  BY AppendStartsWith
<1> HIDE DEF U
<1>3. BlockOpenedAt(U, n) = BlockOpenedAt(T, n)
  BY <1>1, <1>2, BlockNumbersAgree
<1>4. Len(Tree(T)) = BlockOpenedAt(T, n) /\ Len(Tree(U)) = BlockOpenedAt(U, n + 1)
  BY <1>2, TreeIs
<1>5. /\ U[n + 1].type # "START_BLOCK" => BlockOpenedAt(U, n + 1) = BlockOpenedAt(U, n)
      /\ U[n + 1].type = "START_BLOCK" => BlockOpenedAt(U, n + 1) = BlockOpenedAt(U, n) + 1
  <2>1. n <= n
    BY <1>1
  <2> QED
    BY <1>1, <1>2, <2>1, BlocksAreNumbered
<1> QED
  BY <1>2, <1>3, <1>4, <1>5 DEF U

LEMMA BlocksStay ==
  ASSUME NEW T \in AnyTokens, NEW t \in AnyToken
  PROVE  DOMAIN Tree(T) \subseteq DOMAIN Tree(Append(T, t))
<1> DEFINE U == Append(T, t)
           old == Len(Tree(T))
           new == Len(Tree(U))
<1>1. U \in AnyTokens
  BY AppendStartsWith
<1>2. new = old \/ new = old + 1
  BY BlocksGrow
<1>3. old \in Nat /\ DOMAIN Tree(T) = 1..old /\ DOMAIN Tree(U) = 1..new
  BY <1>1, TreeIs
<1> HIDE DEF U, old, new
<1>4. 1..old \subseteq 1..new
  BY <1>2, <1>3
<1> QED
  BY <1>3, <1>4 DEF U

(* A block none of whose statements changes.                               *)
LEMMA BlockKept ==
  ASSUME NEW T \in AnyTokens, NEW t \in AnyToken, NEW b \in DOMAIN Tree(T),
         Starts(Append(T, t), b) = Starts(T, b),
         \A i \in 1..Len(Starts(T, b)) : LET k == Starts(T, b)[i]
                                         IN  StatementAt(Append(T, t), k) = StatementAt(T, k)
  PROVE  b \in DOMAIN Tree(Append(T, t)) /\ Tree(Append(T, t))[b] = Tree(T)[b]
<1> DEFINE U == Append(T, t)
           at == Starts(T, b)
<1>1. U \in AnyTokens
  BY AppendStartsWith
<1>2. b \in DOMAIN Tree(U)
  BY BlocksStay
<1>3. Tree(T)[b] = [i \in 1..Len(at) |-> StatementAt(T, at[i])]
  BY TreeIs
<1>4. Tree(U)[b] = [i \in 1..Len(Starts(U, b)) |-> StatementAt(U, Starts(U, b)[i])]
  BY <1>1, <1>2, TreeIs
<1>5. Starts(U, b) = at /\ \A i \in 1..Len(at) : StatementAt(U, at[i]) = StatementAt(T, at[i])
  OBVIOUS
<1> HIDE DEF U, at
<1>6. Tree(U)[b] = Tree(T)[b]
  BY <1>3, <1>4, <1>5
<1> QED
  BY <1>2, <1>6 DEF U

LEMMA SameHeap ==
  ASSUME NEW h \in AnyHeap, NEW g \in AnyHeap, Len(h) = Len(g), \A b \in DOMAIN h : h[b] = g[b]
  PROVE  h = g
BY SeqEqual, LenProperties DEF AnyHeap

LEMMA TreeUnchanged ==
  ASSUME NEW T \in AnyTokens, NEW t \in AnyToken, ~IsWord(t), t.type # "START_BLOCK"
  PROVE  Tree(Append(T, t)) = Tree(T)
<1> DEFINE U == Append(T, t)
<1>1. U \in AnyTokens
  BY AppendStartsWith
<1>2. Tree(U) \in AnyHeap /\ Tree(T) \in AnyHeap /\ Len(Tree(U)) = Len(Tree(T))
  BY <1>1, TreeIs, BlocksGrow
<1>3. ASSUME NEW b \in DOMAIN Tree(T) PROVE Tree(U)[b] = Tree(T)[b]
  <2>1. Starts(U, b) = Starts(T, b)
    BY StartsGrow
  <2>2. ASSUME NEW i \in 1..Len(Starts(T, b))
        PROVE  StatementAt(U, Starts(T, b)[i]) = StatementAt(T, Starts(T, b)[i])
    <3>1. Starts(T, b)[i] \in 1..Len(T) /\ IsWord(T[Starts(T, b)[i]])
      BY StartsAre DEF Begins
    <3> QED
      BY <3>1, StatementKept
  <2> QED
    BY <2>1, <2>2, BlockKept
<1> HIDE DEF U
<1>4. Tree(T) = Tree(U)
  BY <1>2, <1>3, SameHeap
<1> QED
  BY <1>4 DEF U

LEMMA StatementBegins ==
  ASSUME NEW T \in AnyTokens, NEW t \in AnyToken, IsWord(t)
  PROVE  StatementAt(Append(T, t), Len(T) + 1) = Statement(<<t.value>>, NoBlock)
<1> DEFINE U == Append(T, t)
           n == Len(T)
<1>1. n \in Nat
  BY TokensAre
<1>2. U \in AnyTokens /\ Len(U) = n + 1 /\ U[n + 1] = t
  BY AppendStartsWith
<1>3. DOMAIN U = 1..(n + 1)
  BY <1>2, TokensAre
<1> HIDE DEF U, n
<1>4. n + 1 \in 1..Len(U) /\ n + 1 \in (n + 1)..Len(U) /\ \A i \in (n + 1)..(n + 1) : i = n + 1
  BY <1>1, <1>2
<1>5. ~WordAt(U, (n + 1) + 1) /\ (n + 1) + 1 \notin DOMAIN U
  BY <1>1, <1>3 DEF WordAt
<1>6. LastWord(U, n + 1) = n + 1
  BY <1>2, <1>4, <1>5, LastWordIs
<1>7. LET s == TokensAt(U, n + 1) IN s \in Seq(AnyText) /\ Len(s) = 1 /\ s[1] = t.value
  <2>1. (n + 1) - (n + 1) + 1 = 1 /\ (n + 1) + 1 - 1 = n + 1
    BY <1>1
  <2>2. PICK k \in 1..Len(U) : k = n + 1
    BY <1>4
  <2>3. IsWord(U[k]) /\ LastWord(U, k) = k /\ k - k + 1 = 1 /\ k + 1 - 1 = k
    BY <1>1, <1>2, <1>6, <2>1, <2>2
  <2>4. LET s == TokensAt(U, k)
        IN  s \in Seq(AnyText) /\ Len(s) = 1 /\ \A i \in 1..1 : s[i] = U[k + i - 1].value
    BY <1>2, <2>3, StatementIsTyped
  <2>5. TokensAt(U, k)[1] = U[k + 1 - 1].value
    BY <2>4
  <2> QED
    BY <1>2, <2>2, <2>3, <2>4, <2>5
<1>8. TokensAt(U, n + 1) = <<t.value>>
  BY <1>7
<1> QED
  BY <1>5, <1>6, <1>8 DEF StatementAt, U, n

LEMMA TreeGetsStatement ==
  ASSUME NEW T \in AnyTokens, NEW t \in AnyToken, IsWord(t), ~WordAt(T, Len(T))
  PROVE  /\ BlockAround(T, Len(T) + 1) \in DOMAIN Tree(T)
         /\ Tree(Append(T, t)) = [Tree(T) EXCEPT ![BlockAround(T, Len(T) + 1)] =
                                    Append(@, Statement(<<t.value>>, NoBlock))]
<1> DEFINE U == Append(T, t)
           n == Len(T)
           b == BlockAround(T, n + 1)
           at == Starts(T, b)
           s == Statement(<<t.value>>, NoBlock)
<1>0. n \in Nat /\ DOMAIN T = 1..n
  BY TokensAre
<1>1. U \in AnyTokens /\ t.type # "START_BLOCK"
  BY AppendStartsWith DEF IsWord, Words
<1>2. Tree(U) \in AnyHeap /\ Tree(T) \in AnyHeap /\ Len(Tree(U)) = Len(Tree(T))
  BY <1>1, TreeIs, BlocksGrow
<1>3. b \in DOMAIN Tree(T)
  <2>1. n + 1 \in 1..(Len(T) + 1) /\ (n + 1) - 1 = Len(T)
    BY <1>0
  <2>2. b \in 1..BlockOpenedAt(T, (n + 1) - 1)
    <3> HIDE DEF n
    <3> QED
      BY <2>1, BlockAroundIs
  <2> HIDE DEF b
  <2> QED
    BY <2>1, <2>2, TreeIs
<1>4. ASSUME NEW c, NEW i \in 1..Len(Starts(T, c))
      PROVE  StatementAt(U, Starts(T, c)[i]) = StatementAt(T, Starts(T, c)[i])
  <2> DEFINE k == Starts(T, c)[i]
  <2>1. k \in 1..Len(T) /\ IsWord(T[k])
    BY StartsAre DEF Begins
  <2> HIDE DEF k
  <2>2. LastWord(T, k) \in k..Len(T) /\ \A j \in k..LastWord(T, k) : IsWord(T[j])
    BY <2>1, RunOfWords
  <2>3. LastWord(T, k) # Len(T)
    BY <1>0, <2>1, <2>2 DEF WordAt
  <2>4. LastWord(T, k) < Len(T)
    BY <1>0, <2>1, <2>2, <2>3
  <2> QED
    BY <2>1, <2>4, StatementKept DEF k
<1>5. ASSUME NEW c \in DOMAIN Tree(T), c # b PROVE Tree(U)[c] = Tree(T)[c]
  <2>1. Starts(U, c) = Starts(T, c)
    BY <1>5, StartsGrow
  <2> QED
    BY <1>4, <2>1, BlockKept
<1>6. s \in AnyStatement
  BY DEF Statement, NoBlock, AnyStatement, AnyToken
<1>7. Tree(U)[b] = Append(Tree(T)[b], s)
  <2>1. Starts(U, b) = Append(at, n + 1)
    BY StartsGrow
  <2>2. b \in DOMAIN Tree(U)
    <3> HIDE DEF U, b
    <3> QED
      BY <1>1, <1>2, <1>3, TreeIs
  <2>3. /\ Tree(U)[b] = [i \in 1..Len(Starts(U, b)) |-> StatementAt(U, Starts(U, b)[i])]
        /\ Tree(U)[b] \in Seq(AnyStatement) /\ Len(Tree(U)[b]) = Len(Starts(U, b))
    BY <1>1, <2>2, TreeIs
  <2>4. /\ Tree(T)[b] = [i \in 1..Len(at) |-> StatementAt(T, at[i])]
        /\ Tree(T)[b] \in Seq(AnyStatement) /\ Len(Tree(T)[b]) = Len(at)
    BY <1>3, TreeIs
  <2>5. at \in Seq(Nat) /\ Len(at) \in Nat
    BY StartsAre
  <2>6. StatementAt(U, n + 1) = s
    BY StatementBegins
  <2>7. \A i \in 1..Len(at) : StatementAt(U, at[i]) = StatementAt(T, at[i])
    BY <1>4
  <2> HIDE DEF U, at, s, b, n
  <2>8. Len(Starts(U, b)) = Len(at) + 1
    BY <1>0, <2>1, <2>5
  <2>9. Starts(U, b)[Len(at) + 1] = n + 1 /\ \A i \in 1..Len(at) : Starts(U, b)[i] = at[i]
    BY <1>0, <2>1, <2>5
  <2>10. Tree(U)[b][Len(at) + 1] = s
    BY <2>3, <2>5, <2>6, <2>8, <2>9
  <2>11. \A i \in 1..Len(at) : Tree(U)[b][i] = Tree(T)[b][i]
    BY <2>3, <2>4, <2>5, <2>7, <2>8, <2>9
  <2> QED
    BY <1>6, <2>3, <2>4, <2>8, <2>10, <2>11, AppendIs
<1> HIDE DEF U, b, s
<1>8. DOMAIN Tree(U) = DOMAIN Tree(T) /\ \E N \in Nat : DOMAIN Tree(U) = 1..N
  BY <1>1, <1>2, TreeIs
<1>9. Tree(U) = [c \in DOMAIN Tree(U) |-> Tree(U)[c]] /\ Tree(T) = [c \in DOMAIN Tree(T) |-> Tree(T)[c]]
  BY <1>2 DEF AnyHeap
<1>10. Tree(U) = [Tree(T) EXCEPT ![b] = Append(@, s)]
  BY <1>3, <1>5, <1>7, <1>8, <1>9
<1> QED
  BY <1>3, <1>10 DEF U, b, s

(* Behind a word, the statement that word belongs to is the last of the    *)
(* innermost block, and no other is still open.                            *)
IsLastStatement(T, k) ==
  LET b == BlockAround(T, Len(T) + 1)
      at == Starts(T, b)
  IN  /\ k \in 1..Len(T) /\ IsWord(T[k]) /\ LastWord(T, k) = Len(T)
      /\ b \in DOMAIN Tree(T) /\ Len(at) > 0 /\ at[Len(at)] = k
      /\ \A j \in 1..Len(T) : Begins(T, j) /\ j # k => LastWord(T, j) < Len(T)

LEMMA LastStatement ==
  ASSUME NEW T \in AnyTokens, WordAt(T, Len(T))
  PROVE  \E k : IsLastStatement(T, k)
<1> DEFINE n == Len(T)
           S == {j \in 1..n : \A i \in j..n : IsWord(T[i])}
           b == BlockAround(T, n + 1)
           at == Starts(T, b)
<1>1. n \in Nat /\ DOMAIN T = 1..n
  BY TokensAre
<1>2. n \in 1..n /\ IsWord(T[n])
  BY <1>1 DEF WordAt
<1>3. PICK k \in S : \A j \in S : k <= j
  <2>1. n \in S
    BY <1>1, <1>2
  <2>2. S \in SUBSET Nat /\ S # {}
    BY <2>1
  <2> HIDE DEF S
  <2> QED
    BY <2>2, LeastNatural
<1>4. k \in 1..n /\ \A i \in k..n : IsWord(T[i])
  BY <1>3
<1>5. ~WordAt(T, k - 1)
  <2> SUFFICES ASSUME k - 1 \in 1..n, IsWord(T[k - 1]) PROVE FALSE
    BY <1>1 DEF WordAt
  <2>1. ASSUME NEW i \in (k - 1)..n PROVE IsWord(T[i])
    <3>1. i = k - 1 \/ i \in k..n
      BY <1>1, <1>4
    <3> QED
      BY <1>4, <3>1
  <2>2. k - 1 \in S
    BY <2>1
  <2> QED
    BY <1>3, <1>4, <2>2
<1> HIDE DEF S
<1>6. Begins(T, k) /\ IsWord(T[k])
  BY <1>1, <1>4, <1>5 DEF Begins
<1>7. LastWord(T, k) = n
  <2>1. n \in k..n /\ n + 1 \notin DOMAIN T
    BY <1>1, <1>4
  <2> QED
    BY <1>4, <2>1, LastWordIs DEF WordAt
<1>8. BlockAround(T, k) = b
  <2> DEFINE Good == {d \in Nat : k + d <= n + 1 => BlockAround(T, k + d) = BlockAround(T, k)}
  <2>1. 0 \in Good
    <3>1. k + 0 = k
      BY <1>1, <1>4
    <3> QED
      BY <3>1
  <2>2. ASSUME NEW d \in Nat, d \in Good PROVE d + 1 \in Good
    <3> SUFFICES ASSUME k + (d + 1) <= n + 1
                 PROVE  BlockAround(T, k + (d + 1)) = BlockAround(T, k)
      OBVIOUS
    <3>1. k + d \in k..n /\ k + d \in 1..n /\ k + (d + 1) = (k + d) + 1 /\ k + d <= n + 1
      BY <1>1, <1>4
    <3>2. T[k + d].type \notin {"START_BLOCK", "END_BLOCK"}
      BY <1>4, <3>1 DEF IsWord, Words
    <3>3. BlockAround(T, (k + d) + 1) = BlockAround(T, k + d)
      BY <3>1, <3>2, BlockAroundStays
    <3> QED
      BY <2>2, <3>1, <3>3
  <2>3. n + 1 - k \in Good
    <3>1. n + 1 - k \in Nat
      BY <1>1, <1>4
    <3> HIDE DEF Good
    <3> QED
      BY <2>1, <2>2, <3>1, SetInduction
  <2>4. k + (n + 1 - k) = n + 1
    BY <1>1, <1>4
  <2> QED
    BY <1>1, <2>3, <2>4
<1>9. b \in DOMAIN Tree(T)
  <2>1. n + 1 \in 1..(Len(T) + 1) /\ (n + 1) - 1 = Len(T)
    BY <1>1
  <2>2. b \in 1..BlockOpenedAt(T, (n + 1) - 1)
    <3> HIDE DEF n
    <3> QED
      BY <2>1, BlockAroundIs
  <2> HIDE DEF b
  <2> QED
    BY <2>1, <2>2, TreeIs
<1>10. ASSUME NEW j \in 1..n, Begins(T, j), j # k PROVE j < k
  <2> SUFFICES ASSUME ~(j < k) PROVE FALSE
    OBVIOUS
  <2>1. j - 1 \in k..n /\ j - 1 \in 1..n
    BY <1>1, <1>4, <1>10
  <2> QED
    BY <1>1, <1>4, <1>10, <2>1 DEF Begins, WordAt
<1>11. ASSUME NEW j \in 1..n, Begins(T, j), j # k PROVE LastWord(T, j) < n
  <2>1. j < k
    BY <1>10, <1>11
  <2>2. LastWord(T, j) \in j..n /\ \A i \in j..LastWord(T, j) : IsWord(T[i])
    BY <1>11, RunOfWords DEF Begins
  <2>3. LastWord(T, j) # n
    <3> SUFFICES ASSUME LastWord(T, j) = n PROVE FALSE
      OBVIOUS
    <3>1. k - 1 \in j..n /\ k - 1 \in DOMAIN T
      BY <1>1, <1>4, <2>1
    <3> QED
      BY <1>5, <2>2, <3>1 DEF WordAt
  <2> QED
    BY <1>1, <2>2, <2>3
<1>12. Len(at) > 0 /\ at[Len(at)] = k
  <2>1. /\ Len(at) \in Nat
        /\ \A i \in 1..Len(at) : at[i] \in 1..n /\ Begins(T, at[i]) /\ BlockAround(T, at[i]) = b
        /\ \A i, j \in 1..Len(at) : i < j => at[i] < at[j]
        /\ \A j \in 1..n : Begins(T, j) /\ BlockAround(T, j) = b => \E i \in 1..Len(at) : at[i] = j
    BY StartsAre
  <2> HIDE DEF at, n, b
  <2>2. PICK i \in 1..Len(at) : at[i] = k
    BY <1>4, <1>6, <1>8, <2>1
  <2>3. Len(at) \in 1..Len(at)
    BY <2>1
  <2>4. at[Len(at)] \in 1..n /\ Begins(T, at[Len(at)])
    BY <2>1, <2>3
  <2>5. at[Len(at)] = k
    <3> SUFFICES ASSUME at[Len(at)] # k PROVE FALSE
      OBVIOUS
    <3>1. at[Len(at)] < k
      BY <1>10, <2>4
    <3>2. i < Len(at)
      <4>1. i # Len(at)
        BY <2>2
      <4> QED
        BY <2>1, <4>1
    <3>3. k < at[Len(at)]
      BY <2>1, <2>2, <2>3, <3>2
    <3> QED
      BY <1>4, <2>4, <3>1, <3>3
  <2> QED
    BY <2>1, <2>2, <2>5
<1> QED
  BY <1>4, <1>6, <1>7, <1>9, <1>11, <1>12 DEF IsLastStatement

(* The statements of the tree when one, the last, has changed.             *)
LEMMA LastStatementChanges ==
  ASSUME NEW T \in AnyTokens, NEW t \in AnyToken, NEW k, IsLastStatement(T, k),
         ~(IsWord(t) /\ ~WordAt(T, Len(T)))
  PROVE  LET b == BlockAround(T, Len(T) + 1)
             block == Tree(T)[b]
         IN  /\ b \in DOMAIN Tree(T) /\ block # << >> /\ block[Len(block)] = StatementAt(T, k)
             /\ \A c \in DOMAIN Tree(T) : c # b => Tree(Append(T, t))[c] = Tree(T)[c]
             /\ Tree(Append(T, t))[b] =
                  [block EXCEPT ![Len(block)] = StatementAt(Append(T, t), k)]
<1> DEFINE U == Append(T, t)
           b == BlockAround(T, Len(T) + 1)
           at == Starts(T, b)
           block == Tree(T)[b]
           m == Len(block)
<1>1. U \in AnyTokens
  BY AppendStartsWith
<1>2. /\ k \in 1..Len(T) /\ IsWord(T[k])
      /\ b \in DOMAIN Tree(T) /\ Len(at) > 0 /\ at[Len(at)] = k
      /\ \A j \in 1..Len(T) : Begins(T, j) /\ j # k => LastWord(T, j) < Len(T)
  BY DEF IsLastStatement
<1>3. /\ block = [i \in 1..Len(at) |-> StatementAt(T, at[i])]
      /\ block \in Seq(AnyStatement) /\ m = Len(at) /\ Len(at) \in Nat
  BY <1>2, TreeIs, StartsAre
<1>4. ASSUME NEW j \in 1..Len(T), Begins(T, j), j # k
      PROVE  StatementAt(U, j) = StatementAt(T, j)
  BY <1>2, <1>4, StatementKept DEF Begins
<1>5. \A c : Starts(U, c) = Starts(T, c)
  BY StartsGrow
<1>6. ASSUME NEW c, NEW i \in 1..Len(Starts(T, c)), Starts(T, c)[i] # k
      PROVE  StatementAt(U, Starts(T, c)[i]) = StatementAt(T, Starts(T, c)[i])
  <2>1. Starts(T, c)[i] \in 1..Len(T) /\ Begins(T, Starts(T, c)[i])
    BY StartsAre
  <2> QED
    BY <1>4, <1>6, <2>1
<1>7. ASSUME NEW c \in DOMAIN Tree(T), c # b PROVE Tree(U)[c] = Tree(T)[c]
  <2>1. BlockAround(T, k) = b
    <3>1. Len(at) \in 1..Len(at)
      BY <1>2, <1>3
    <3> QED
      BY <1>2, <3>1, StartsAre
  <2>2. ASSUME NEW i \in 1..Len(Starts(T, c)) PROVE Starts(T, c)[i] # k
    BY <1>7, <2>1, StartsAre
  <2>3. \A i \in 1..Len(Starts(T, c)) :
          StatementAt(U, Starts(T, c)[i]) = StatementAt(T, Starts(T, c)[i])
    BY <1>6, <2>2
  <2> QED
    BY <1>5, <2>3, BlockKept
<1>8. Tree(U)[b] = [block EXCEPT ![m] = StatementAt(U, k)]
  <2>1. b \in DOMAIN Tree(U)
    BY <1>2, BlocksStay
  <2>2. Tree(U)[b] = [i \in 1..Len(at) |-> StatementAt(U, at[i])]
    <3>1. Tree(U)[b] = [i \in 1..Len(Starts(U, b)) |-> StatementAt(U, Starts(U, b)[i])]
      BY <1>1, <2>1, TreeIs
    <3>2. Starts(U, b) = at
      BY <1>5
    <3> HIDE DEF U, at, b
    <3> QED
      BY <3>1, <3>2
  <2>3. ASSUME NEW i \in 1..Len(at), i # Len(at)
        PROVE  StatementAt(U, at[i]) = StatementAt(T, at[i])
    <3>1. i < Len(at) /\ Len(at) \in 1..Len(at)
      BY <1>2, <1>3, <2>3
    <3>2. at[i] < at[Len(at)] /\ at[i] \in Nat /\ at[Len(at)] \in Nat
      BY <3>1, StartsAre
    <3>3. at[i] # k
      BY <1>2, <3>2
    <3> QED
      BY <1>6, <3>3
  <2>4. StatementAt(U, at[Len(at)]) = StatementAt(U, k)
    BY <1>2
  <2> HIDE DEF U, at, block, b
  <2>5. m = Len(at) /\ DOMAIN block = 1..Len(at) /\ Len(at) \in DOMAIN block
    BY <1>2, <1>3
  <2>6. \A i \in 1..Len(at) : block[i] = StatementAt(T, at[i])
    BY <1>3
  <2>7. \A i \in 1..Len(at) : Tree(U)[b][i] = IF i = m THEN StatementAt(U, k) ELSE block[i]
    BY <2>2, <2>3, <2>4, <2>5, <2>6
  <2>8. Tree(U)[b] = [i \in 1..Len(at) |-> IF i = m THEN StatementAt(U, k) ELSE block[i]]
    BY <2>2, <2>7
  <2>9. [block EXCEPT ![m] = StatementAt(U, k)] =
          [i \in 1..Len(at) |-> IF i = m THEN StatementAt(U, k) ELSE block[i]]
    BY <2>5
  <2> QED
    BY <2>8, <2>9
<1>9. block # << >> /\ block[m] = StatementAt(T, k)
  <2> HIDE DEF block, at, b
  <2>1. Len(at) \in 1..Len(at)
    BY <1>2, <1>3
  <2>2. block[m] = StatementAt(T, at[Len(at)])
    BY <1>3, <2>1
  <2> QED
    BY <1>2, <1>3, <2>2
<1> QED
  BY <1>2, <1>7, <1>8, <1>9

LEMMA TreeContinues ==
  ASSUME NEW T \in AnyTokens, NEW t \in AnyToken, IsWord(t), WordAt(T, Len(T))
  PROVE  LET b == BlockAround(T, Len(T) + 1)
         IN  /\ b \in DOMAIN Tree(T) /\ Tree(T)[b] # << >>
             /\ Tree(Append(T, t)) =
                  [Tree(T) EXCEPT ![b][Len(Tree(T)[b])].tokens = Append(@, t.value)]
<1> DEFINE U == Append(T, t)
           b == BlockAround(T, Len(T) + 1)
           block == Tree(T)[b]
           m == Len(block)
           s == [block[m] EXCEPT !.tokens = Append(block[m].tokens, t.value)]
<1>1. PICK k : IsLastStatement(T, k)
  BY LastStatement
<1>2. k \in 1..Len(T) /\ IsWord(T[k]) /\ LastWord(T, k) = Len(T)
  BY <1>1 DEF IsLastStatement
<1>3. /\ b \in DOMAIN Tree(T) /\ block # << >> /\ block[m] = StatementAt(T, k)
      /\ \A c \in DOMAIN Tree(T) : c # b => Tree(U)[c] = Tree(T)[c]
      /\ Tree(U)[b] = [block EXCEPT ![m] = StatementAt(U, k)]
  BY <1>1, LastStatementChanges
<1>4. /\ StatementAt(T, k) = [tokens |-> TokensAt(T, k), child |-> NoBlock]
      /\ StatementAt(U, k) = [tokens |-> Append(TokensAt(T, k), t.value), child |-> NoBlock]
  BY <1>2, StatementGrows DEF Statement
<1>5. StatementAt(U, k) = s
  <2>1. block[m] = [tokens |-> TokensAt(T, k), child |-> NoBlock]
    BY <1>3, <1>4, Zenon
  <2> HIDE DEF block, m
  <2>2. s = [tokens |-> Append(TokensAt(T, k), t.value), child |-> NoBlock]
    BY <2>1
  <2> QED
    BY <1>4, <2>2, Zenon
<1>6. U \in AnyTokens /\ t.type # "START_BLOCK"
  BY AppendStartsWith DEF IsWord, Words
<1>7. Len(Tree(U)) = Len(Tree(T)) /\ DOMAIN Tree(U) = DOMAIN Tree(T)
  <2>1. Len(Tree(U)) = Len(Tree(T))
    BY <1>6, BlocksGrow
  <2>2. DOMAIN Tree(U) = 1..Len(Tree(U)) /\ DOMAIN Tree(T) = 1..Len(Tree(T))
    BY <1>6, TreeIs
  <2> QED
    BY <2>1, <2>2, Zenon
<1>8. Tree(U) = [c \in DOMAIN Tree(U) |-> Tree(U)[c]] /\ Tree(T) = [c \in DOMAIN Tree(T) |-> Tree(T)[c]]
  BY <1>6, TreeIs DEF AnyHeap
<1> HIDE DEF U, b
<1>9. Tree(U)[b] = [block EXCEPT ![m] = s]
  BY <1>3, <1>5, Zenon
<1> HIDE DEF s
<1>10. Tree(U) = [Tree(T) EXCEPT ![b] = [block EXCEPT ![m] = s]]
  BY <1>3, <1>7, <1>8, <1>9
<1>11. Tree(U) = [Tree(T) EXCEPT ![b][m] = s]
  BY <1>10
<1>12. Tree(U) = [Tree(T) EXCEPT ![b][m].tokens = Append(@, t.value)]
  BY <1>11 DEF s
<1> QED
  BY <1>3, <1>12 DEF U, b

LEMMA TreeOpens ==
  ASSUME NEW T \in AnyTokens, NEW t \in AnyToken, t.type = "START_BLOCK", WordAt(T, Len(T))
  PROVE  LET b == BlockAround(T, Len(T) + 1)
         IN  /\ b \in DOMAIN Tree(T) /\ Tree(T)[b] # << >>
             /\ Tree(Append(T, t)) =
                  Append([Tree(T) EXCEPT ![b][Len(Tree(T)[b])].child = Len(Tree(T)) + 1], << >>)
<1> DEFINE U == Append(T, t)
           b == BlockAround(T, Len(T) + 1)
           block == Tree(T)[b]
           m == Len(block)
           new == Len(Tree(T)) + 1
           s == [block[m] EXCEPT !.child = new]
           heap == [Tree(T) EXCEPT ![b][m].child = new]
<1>0. ~IsWord(t)
  BY DEF IsWord, Words
<1>1. PICK k : IsLastStatement(T, k)
  BY LastStatement
<1>2. k \in 1..Len(T) /\ IsWord(T[k]) /\ LastWord(T, k) = Len(T)
  BY <1>1 DEF IsLastStatement
<1>3. /\ b \in DOMAIN Tree(T) /\ block # << >> /\ block[m] = StatementAt(T, k)
      /\ \A c \in DOMAIN Tree(T) : c # b => Tree(U)[c] = Tree(T)[c]
      /\ Tree(U)[b] = [block EXCEPT ![m] = StatementAt(U, k)]
  BY <1>0, <1>1, LastStatementChanges
<1>4. /\ StatementAt(T, k) = [tokens |-> TokensAt(T, k), child |-> NoBlock]
      /\ StatementAt(U, k) = [tokens |-> TokensAt(T, k), child |-> new]
  <2>1. new = BlockOpenedAt(T, Len(T)) + 1
    BY TreeIs
  <2> QED
    BY <1>2, <2>1, StatementGrows DEF Statement
<1>5. StatementAt(U, k) = s
  BY <1>3, <1>4
<1>6. U \in AnyTokens
  BY AppendStartsWith
<1>7. Len(Tree(U)) = new /\ Len(Tree(T)) \in Nat /\ DOMAIN Tree(T) = 1..Len(Tree(T))
  BY BlocksGrow, TreeIs
<1>8. Tree(U) \in AnyHeap /\ Tree(T) \in AnyHeap
  BY <1>6, TreeIs
<1>9. Tree(U)[new] = << >>
  <2>1. new \in DOMAIN Tree(U)
    <3>1. DOMAIN Tree(U) = 1..Len(Tree(U))
      BY <1>6, TreeIs
    <3> HIDE DEF U
    <3> QED
      BY <1>7, <3>1
  <2>2. Starts(U, new) = Starts(T, new)
    BY <1>0, StartsGrow
  <2>3. Len(Starts(T, new)) = 0
    <3> SUFFICES ASSUME Len(Starts(T, new)) # 0 PROVE FALSE
      OBVIOUS
    <3>1. 1 \in 1..Len(Starts(T, new))
      <4>1. Len(Starts(T, new)) \in Nat
        BY StartsAre
      <4> QED
        BY <4>1
    <3>2. PICK j \in 1..Len(T) : BlockAround(T, j) = new
      BY <3>1, StartsAre
    <3>3. j \in 1..(Len(T) + 1) /\ j - 1 \in Nat /\ j - 1 <= Len(T) /\ Len(T) \in Nat
      BY TokensAre
    <3>4. new \in 1..BlockOpenedAt(T, j - 1)
      BY <3>2, <3>3, BlockAroundIs
    <3>5. BlockOpenedAt(T, j - 1) <= BlockOpenedAt(T, Len(T)) /\ BlockOpenedAt(T, j - 1) \in Nat
      <4>1. PICK i \in Nat : i = j - 1
        BY <3>3
      <4>2. i <= i /\ i <= Len(T)
        BY <3>3, <4>1
      <4>3. BlockOpenedAt(T, i) <= BlockOpenedAt(T, Len(T)) /\ BlockOpenedAt(T, i) \in Nat
        BY <3>3, <4>2, BlocksAreNumbered
      <4> QED
        BY <4>1, <4>3
    <3>6. Len(Tree(T)) = BlockOpenedAt(T, Len(T))
      BY TreeIs
    <3> QED
      BY <1>7, <3>4, <3>5, <3>6
  <2>4. Tree(U)[new] \in Seq(AnyStatement) /\ Len(Tree(U)[new]) = 0
    BY <1>6, <2>1, <2>2, <2>3, TreeIs
  <2> QED
    BY <2>4
<1> HIDE DEF U, b
<1>10. heap = [Tree(T) EXCEPT ![b] = [block EXCEPT ![m] = s]]
  OBVIOUS
<1>11. Tree(U)[b] = [block EXCEPT ![m] = s]
  BY <1>3, <1>5, Zenon
<1>12. Len(heap) = Len(Tree(T)) /\ DOMAIN heap = DOMAIN Tree(T)
       /\ \A c \in DOMAIN Tree(T) : heap[c] = Tree(U)[c]
  <2>1. DOMAIN heap = DOMAIN Tree(T)
    BY <1>10
  <2>2. Len(heap) = Len(Tree(T))
    BY <1>7, <2>1
  <2>3. \A c \in DOMAIN Tree(T) : heap[c] = Tree(U)[c]
    BY <1>3, <1>10, <1>11
  <2> QED
    BY <2>1, <2>2, <2>3
<1> HIDE DEF heap, new, s
<1>13. Tree(U) = Append(heap, << >>)
  <2>1. heap \in Seq(Seq(AnyStatement))
    <3>1. \A c \in 1..Len(Tree(T)) : Tree(U)[c] \in Seq(AnyStatement)
      BY <1>7, <1>8, ElementOfSeq DEF AnyHeap, new
    <3>2. heap = [c \in 1..Len(Tree(T)) |-> Tree(U)[c]]
      <4>1. heap = [c \in DOMAIN heap |-> heap[c]]
        BY <1>10
      <4> QED
        BY <1>7, <1>12, <4>1
    <3> QED
      BY <1>7, <3>1, <3>2
  <2>2. << >> \in Seq(AnyStatement)
    OBVIOUS
  <2>3. Tree(U) \in Seq(Seq(AnyStatement)) /\ Len(Tree(U)) = Len(heap) + 1
    BY <1>7, <1>8, <1>12 DEF AnyHeap, new
  <2>4. Tree(U)[Len(heap) + 1] = << >>
    BY <1>9, <1>12 DEF new
  <2>5. \A c \in 1..Len(heap) : Tree(U)[c] = heap[c]
    BY <1>7, <1>12
  <2> QED
    BY <2>1, <2>2, <2>3, <2>4, <2>5, AppendIs
<1> QED
  BY <1>3, <1>13 DEF U, b, heap, new

-----------------------------------------------------------------------------
(* The text a tree is printed as.                                          *)

(* Sequences of S put one behind the other are a sequence of S.            *)
LEMMA FlattenIsTyped ==
  ASSUME NEW S, NEW seqs \in Seq(Seq(S))
  PROVE  SE!FlattenSeq(seqs) \in Seq(S)
<1> DEFINE n == Len(seqs)
           Value(g, i) == IF i = 1 THEN seqs[i] ELSE g[i - 1] \o seqs[i]
           flatten == CHOOSE g : g = [i \in 1..n |-> Value(g, i)]
           T == Seq(S)
           none == << >>
           more == [k \in Nat |-> IF k \in 1..n THEN seqs[k] ELSE << >>]
           step == [p \in Nat \X T |-> p[2] \o more[p[1]]]
<1>0. n \in Nat /\ \A k \in 1..n : seqs[k] \in T
  BY LenProperties, ElementOfSeq
<1>1. none \in T
  OBVIOUS
<1>2. more \in [Nat -> T]
  BY <1>0, <1>1
<1> HIDE DEF n, none, more
<1>3. step \in [Nat \X T -> T]
  <2>1. ASSUME NEW p \in Nat \X T PROVE p[2] \o more[p[1]] \in T
    BY <1>2, <2>1, ConcatProperties
  <2> QED
    BY <2>1
<1>4. \A k \in Nat, s \in T : step[<<k, s>>] = s \o more[k]
  OBVIOUS
<1> HIDE DEF step, T
<1>5. PICK f : Recurs(f, T, none, step)
  BY <1>1, <1>3, PrimitiveRecursion
<1>6. f \in [Nat -> T] /\ f[0] = none /\ \A k \in Nat \ {0} : f[k] = f[k - 1] \o more[k]
  <2>1. f \in [Nat -> T] /\ f[0] = none /\ \A k \in Nat \ {0} : f[k] = step[<<k, f[k - 1]>>]
    BY <1>5 DEF Recurs
  <2>2. \A k \in Nat \ {0} : k \in Nat /\ f[k - 1] \in T
    BY <2>1
  <2> QED
    BY <1>4, <2>1, <2>2
<1> DEFINE h == [i \in 1..n |-> f[i]]
<1>7. h = [i \in 1..n |-> Value(h, i)]
  <2>1. ASSUME NEW i \in 1..n PROVE h[i] = Value(h, i)
    <3>1. more[i] = seqs[i] /\ i \in Nat \ {0} /\ seqs[i] \in T
      BY <1>0, <2>1 DEF more
    <3>2. f[i] = f[i - 1] \o seqs[i]
      BY <1>6, <3>1, Zenon
    <3>3. CASE i = 1
      <4>0. i - 1 = 0
        BY <3>3
      <4>1. f[i - 1] = << >>
        BY <1>6, <4>0, Zenon DEF none
      <4>2. << >> \o seqs[i] = seqs[i]
        BY <3>1, ConcatEmptySeq DEF T
      <4> QED
        BY <3>2, <3>3, <4>1, <4>2, Zenon
    <3>4. CASE i # 1
      <4>1. i - 1 \in 1..n
        BY <1>0, <2>1, <3>4
      <4>2. h[i - 1] = f[i - 1] /\ h[i] = f[i]
        BY <4>1
      <4> QED
        BY <3>2, <3>4, <4>2, Zenon
    <3> QED
      BY <3>3, <3>4
  <2> HIDE DEF Value
  <2> QED
    BY <2>1
<1>8. flatten = [i \in 1..n |-> Value(flatten, i)]
  BY <1>7, Zenon
<1>9. n # 0 => SE!FlattenSeq(seqs) = flatten[n]
  BY DEF SE!FlattenSeq, n
<1> HIDE DEF flatten
<1>10. ASSUME NEW i \in 1..n PROVE flatten[i] \in T
  <2> DEFINE Good == {k \in Nat : k + 1 \in 1..n => flatten[k + 1] \in T}
  <2>1. 0 \in Good
    <3> SUFFICES ASSUME 1 \in 1..n PROVE flatten[1] \in T
      OBVIOUS
    <3>1. flatten[1] = seqs[1]
      BY <1>8, Zenon
    <3> QED
      BY <1>0, <3>1
  <2>2. ASSUME NEW k \in Nat, k \in Good PROVE k + 1 \in Good
    <3> SUFFICES ASSUME (k + 1) + 1 \in 1..n PROVE flatten[(k + 1) + 1] \in T
      OBVIOUS
    <3>1. PICK j \in 1..n : j = (k + 1) + 1
      OBVIOUS
    <3>2. j # 1 /\ j - 1 = k + 1 /\ k + 1 \in 1..n
      BY <1>0, <3>1
    <3>3. flatten[k + 1] \in T
      BY <2>2, <3>2
    <3>4. flatten[j] = flatten[j - 1] \o seqs[j]
      BY <1>8, <3>2, Zenon
    <3>5. seqs[j] \in T
      BY <1>0
    <3> QED
      BY <3>1, <3>2, <3>3, <3>4, <3>5, ConcatProperties DEF T
  <2>3. i - 1 \in Good
    <3>1. i - 1 \in Nat
      BY <1>0
    <3> HIDE DEF Good
    <3> QED
      BY <2>1, <2>2, <3>1, SetInduction
  <2> QED
    BY <1>0, <2>3
<1>11. CASE n = 0
  <2>1. SE!FlattenSeq(seqs) = seqs /\ seqs = << >>
    BY <1>11 DEF SE!FlattenSeq, n
  <2> QED
    BY <2>1
<1>12. CASE n # 0
  <2>1. n \in 1..n
    BY <1>0, <1>12
  <2> QED
    BY <1>9, <1>10, <1>12, <2>1 DEF T
<1> QED
  BY <1>11, <1>12

(* A statement's block is behind the one the statement is in.              *)
GrowsDown(heap) ==
  /\ heap \in AnyHeap
  /\ \A b \in 1..Len(heap) : \A i \in 1..Len(heap[b]) :
       heap[b][i].child # NoBlock => heap[b][i].child \in (b + 1)..Len(heap)

LEMMA TreeGrowsDown ==
  ASSUME NEW T \in AnyTokens
  PROVE  GrowsDown(Tree(T))
<1>1. Tree(T) \in AnyHeap /\ DOMAIN Tree(T) = 1..Len(Tree(T)) /\ Len(Tree(T)) = BlockOpenedAt(T, Len(T))
  BY TreeIs
<1>2. ASSUME NEW b \in 1..Len(Tree(T)), NEW i \in 1..Len(Tree(T)[b]),
             Tree(T)[b][i].child # NoBlock
      PROVE  Tree(T)[b][i].child \in (b + 1)..Len(Tree(T))
  <2> DEFINE k == Starts(T, b)[i]
             m == LastWord(T, k)
  <2>1. Tree(T)[b][i] = StatementAt(T, k) /\ i \in 1..Len(Starts(T, b))
    <3>1. /\ Tree(T)[b] = [j \in 1..Len(Starts(T, b)) |-> StatementAt(T, Starts(T, b)[j])]
          /\ Len(Tree(T)[b]) = Len(Starts(T, b))
      BY <1>1, TreeIs
    <3>2. i \in 1..Len(Starts(T, b))
      BY <3>1, Zenon
    <3> QED
      BY <3>1, <3>2, Zenon
  <2>2. k \in 1..Len(T) /\ IsWord(T[k]) /\ BlockAround(T, k) = b
    BY <2>1, StartsAre DEF Begins
  <2> HIDE DEF k
  <2>3. m \in k..Len(T)
    BY <2>2, RunOfWords
  <2> HIDE DEF m
  <2>4. /\ StatementAt(T, k).child # NoBlock
        /\ StatementAt(T, k) = Statement(TokensAt(T, k),
              IF m + 1 \in DOMAIN T /\ T[m + 1].type = "START_BLOCK" THEN BlockOpenedAt(T, m + 1)
              ELSE NoBlock)
    BY <1>2, <2>1, Zenon DEF StatementAt, m
  <2>5. /\ m + 1 \in DOMAIN T /\ T[m + 1].type = "START_BLOCK"
        /\ StatementAt(T, k).child = BlockOpenedAt(T, m + 1)
    <3> DEFINE opens == m + 1 \in DOMAIN T /\ T[m + 1].type = "START_BLOCK"
    <3>1. StatementAt(T, k).child = IF opens THEN BlockOpenedAt(T, m + 1) ELSE NoBlock
      BY <2>4 DEF Statement
    <3> QED
      BY <2>4, <3>1, Zenon
  <2>6. Len(T) \in Nat /\ DOMAIN T = 1..Len(T)
    BY TokensAre
  <2>7. k - 1 \in Nat /\ m \in Nat /\ m + 1 \in Nat /\ m + 1 <= Len(T) /\ k - 1 <= m /\ Len(T) \in Nat
    BY <2>2, <2>3, <2>5, <2>6
  <2>8. b \in 1..BlockOpenedAt(T, k - 1)
    <3>1. k \in 1..(Len(T) + 1)
      BY <2>2, <2>6
    <3> QED
      BY <2>2, <3>1, BlockAroundIs
  <2>9. PICK c \in Nat : c = k - 1
    BY <2>7
  <2>10. /\ BlockOpenedAt(T, c) \in Nat /\ BlockOpenedAt(T, c) <= BlockOpenedAt(T, m)
         /\ BlockOpenedAt(T, m) \in Nat /\ BlockOpenedAt(T, m + 1) = BlockOpenedAt(T, m) + 1
    <3>1. c <= m /\ m <= m /\ m \in Nat
      BY <2>7, <2>9
    <3>2. BlockOpenedAt(T, c) \in Nat /\ BlockOpenedAt(T, c) <= BlockOpenedAt(T, m)
      BY <3>1, BlocksAreNumbered
    <3>3. BlockOpenedAt(T, m) \in Nat /\ BlockOpenedAt(T, m + 1) = BlockOpenedAt(T, m) + 1
      BY <2>5, <3>1, BlocksAreNumbered
    <3> QED
      BY <3>2, <3>3
  <2>11. BlockOpenedAt(T, m + 1) <= BlockOpenedAt(T, Len(T)) /\ BlockOpenedAt(T, Len(T)) \in Nat
    <3>1. PICK n \in Nat : n = m + 1
      BY <2>7
    <3>2. BlockOpenedAt(T, n) <= BlockOpenedAt(T, Len(T)) /\ BlockOpenedAt(T, Len(T)) \in Nat
      <4>1. n <= Len(T) /\ Len(T) <= Len(T)
        BY <2>7, <3>1
      <4>2. BlockOpenedAt(T, n) <= BlockOpenedAt(T, Len(T))
        BY <2>7, <4>1, BlocksAreNumbered
      <4>3. BlockOpenedAt(T, Len(T)) \in Nat
        BY <2>7, <4>1, BlocksAreNumbered
      <4> QED
        BY <4>2, <4>3
    <3> QED
      BY <3>1, <3>2
  <2>12. Tree(T)[b][i].child = BlockOpenedAt(T, m + 1)
    BY <2>1, <2>5, Zenon
  <2> QED
    BY <1>1, <2>8, <2>9, <2>10, <2>11, <2>12
<1> QED
  BY <1>1, <1>2 DEF GrowsDown

LEMMA SignsArePieces ==
  " " \in Pieces /\ ";" \in Pieces /\ "{" \in Pieces /\ "}" \in Pieces /\ "\n" \in Pieces
BY PiecesAssumption

LEMMA ShortTexts ==
  ASSUME NEW p \in Pieces, NEW q \in Pieces, NEW r \in Pieces
  PROVE  <<p>> \in AnyText /\ <<p, q, r>> \in AnyText
BY DEF AnyText

LEMMA TokensAreText ==
  ASSUME NEW tokens \in Seq(AnyText)
  PROVE  Tokens(tokens) \in AnyText
<1> DEFINE spaced == [i \in DOMAIN tokens |-> IF i = 1 THEN tokens[i] ELSE <<" ">> \o tokens[i]]
<1>1. Len(tokens) \in Nat /\ DOMAIN tokens = 1..Len(tokens) /\ \A i \in 1..Len(tokens) : tokens[i] \in AnyText
  BY LenProperties, ElementOfSeq
<1>2. <<" ">> \in AnyText
  BY SignsArePieces, ShortTexts, Zenon
<1>3. ASSUME NEW i \in 1..Len(tokens) PROVE spaced[i] \in AnyText
  <2>1. tokens[i] \in AnyText /\ <<" ">> \o tokens[i] \in AnyText
    BY <1>1, <1>2, ConcatProperties DEF AnyText
  <2>2. spaced[i] = tokens[i] \/ spaced[i] = <<" ">> \o tokens[i]
    BY <1>1
  <2> QED
    BY <2>1, <2>2, Zenon
<1>4. spaced \in Seq(AnyText)
  <2>1. spaced = [i \in 1..Len(tokens) |-> spaced[i]]
    BY <1>1
  <2> HIDE DEF spaced
  <2> QED
    BY <1>1, <1>3, <2>1
<1> HIDE DEF spaced
<1>5. SE!FlattenSeq(spaced) \in AnyText
  BY <1>4, FlattenIsTyped DEF AnyText
<1> QED
  BY <1>5, Zenon DEF Tokens, spaced

LEMMA IndentIsText ==
  ASSUME NEW depth \in Nat
  PROVE  Indent(depth) \in AnyText
<1>1. PICK blank \in Pieces : blank = " "
  BY SignsArePieces
<1>2. PICK n \in Nat : n = 2 * depth
  OBVIOUS
<1>3. [i \in 1..n |-> blank] \in AnyText
  BY DEF AnyText
<1> QED
  BY <1>1, <1>2, <1>3, Zenon DEF Indent

(* What BlockText says of one statement.                                   *)
StatementText(s, print, depth) ==
  Indent(depth) \o Tokens(s.tokens)
    \o (IF s.child = NoBlock THEN <<";">>
        ELSE <<" ", "{", "\n">> \o print[<<s.child, depth + 1>>] \o Indent(depth) \o <<"}">>)
    \o <<"\n">>

LEMMA StatementTextIsText ==
  ASSUME NEW s \in AnyStatement, NEW depth \in Nat, NEW print,
         s.child # NoBlock => print[<<s.child, depth + 1>>] \in AnyText
  PROVE  StatementText(s, print, depth) \in AnyText
<1> DEFINE inner == print[<<s.child, depth + 1>>]
           body == IF s.child = NoBlock THEN <<";">>
                   ELSE <<" ", "{", "\n">> \o inner \o Indent(depth) \o <<"}">>
<1>1. /\ <<";">> \in AnyText /\ <<"}">> \in AnyText /\ <<"\n">> \in AnyText
      /\ <<" ", "{", "\n">> \in AnyText
  BY SignsArePieces, ShortTexts, Zenon
<1>2. Indent(depth) \in AnyText
  BY IndentIsText
<1>3. Tokens(s.tokens) \in AnyText
  <2>1. s.tokens \in Seq(AnyText)
    BY DEF AnyStatement
  <2> QED
    BY <2>1, TokensAreText
<1>4. body \in AnyText
  <2>1. ASSUME s.child # NoBlock
        PROVE  <<" ", "{", "\n">> \o inner \o Indent(depth) \o <<"}">> \in AnyText
    <3>1. inner \in AnyText
      BY <2>1
    <3> HIDE DEF inner
    <3>2. <<" ", "{", "\n">> \o inner \in AnyText
      BY <1>1, <3>1, ConcatProperties DEF AnyText
    <3>3. <<" ", "{", "\n">> \o inner \o Indent(depth) \in AnyText
      BY <1>2, <3>2, ConcatProperties DEF AnyText
    <3> QED
      BY <1>1, <3>3, ConcatProperties DEF AnyText
  <2> QED
    BY <1>1, <2>1, Zenon
<1> HIDE DEF body
<1>5. Indent(depth) \o Tokens(s.tokens) \in AnyText
  BY <1>2, <1>3, ConcatProperties DEF AnyText
<1>6. Indent(depth) \o Tokens(s.tokens) \o body \in AnyText
  BY <1>4, <1>5, ConcatProperties DEF AnyText
<1>7. Indent(depth) \o Tokens(s.tokens) \o body \o <<"\n">> \in AnyText
  BY <1>1, <1>6, ConcatProperties DEF AnyText
<1> QED
  BY <1>7, Zenon DEF StatementText, body

LEMMA BlockTextIsText ==
  ASSUME NEW heap, GrowsDown(heap), NEW b \in 1..Len(heap), NEW depth \in Nat, NEW print,
         \A c \in (b + 1)..Len(heap) : print[<<c, depth + 1>>] \in AnyText
  PROVE  BlockText(heap, print, b, depth) \in AnyText
<1> DEFINE lines == [i \in DOMAIN heap[b] |-> StatementText(heap[b][i], print, depth)]
<1>1. /\ heap[b] \in Seq(AnyStatement) /\ Len(heap[b]) \in Nat /\ DOMAIN heap[b] = 1..Len(heap[b])
      /\ \A i \in 1..Len(heap[b]) : heap[b][i] \in AnyStatement
  <2>1. heap[b] \in Seq(AnyStatement)
    BY ElementOfSeq DEF GrowsDown, AnyHeap
  <2> QED
    BY <2>1, LenProperties, ElementOfSeq
<1>2. ASSUME NEW i \in 1..Len(heap[b]) PROVE StatementText(heap[b][i], print, depth) \in AnyText
  <2>1. heap[b][i] \in AnyStatement
    BY <1>1
  <2>2. heap[b][i].child # NoBlock => print[<<heap[b][i].child, depth + 1>>] \in AnyText
    BY DEF GrowsDown
  <2> QED
    BY <2>1, <2>2, StatementTextIsText
<1>3. lines \in Seq(AnyText)
  BY <1>1, <1>2
<1>4. SE!FlattenSeq(lines) \in AnyText
  <2> HIDE DEF lines
  <2> QED
    BY <1>3, FlattenIsTyped DEF AnyText
<1> QED
  BY <1>4, Zenon DEF BlockText, StatementText

LEMMA BlockTextIsBelow ==
  ASSUME NEW heap, GrowsDown(heap), NEW b \in 1..Len(heap), NEW depth \in Nat, NEW print, NEW other,
         \A c \in (b + 1)..Len(heap) : print[<<c, depth + 1>>] = other[<<c, depth + 1>>]
  PROVE  BlockText(heap, print, b, depth) = BlockText(heap, other, b, depth)
<1> DEFINE lines(p) == [i \in DOMAIN heap[b] |-> StatementText(heap[b][i], p, depth)]
<1>1. DOMAIN heap[b] = 1..Len(heap[b])
  <2>1. heap[b] \in Seq(AnyStatement)
    BY ElementOfSeq DEF GrowsDown, AnyHeap
  <2> QED
    BY <2>1, LenProperties
<1>2. ASSUME NEW i \in DOMAIN heap[b]
      PROVE  StatementText(heap[b][i], print, depth) = StatementText(heap[b][i], other, depth)
  <2>1. CASE heap[b][i].child = NoBlock
    BY <2>1, Zenon DEF StatementText
  <2>2. CASE heap[b][i].child # NoBlock
    <3>1. print[<<heap[b][i].child, depth + 1>>] = other[<<heap[b][i].child, depth + 1>>]
      BY <1>1, <2>2 DEF GrowsDown
    <3> QED
      BY <3>1, Zenon DEF StatementText
  <2> QED
    BY <2>1, <2>2
<1>3. lines(print) = lines(other)
  BY <1>2, Zenon
<1>4. BlockText(heap, print, b, depth) = SE!FlattenSeq(lines(print))
  BY Zenon DEF BlockText, StatementText
<1>5. BlockText(heap, other, b, depth) = SE!FlattenSeq(lines(other))
  BY Zenon DEF BlockText, StatementText
<1> QED
  BY <1>3, <1>4, <1>5, Zenon

(* The recursion of ToString has a solution, and its values are texts:     *)
(* blocks only contain later ones.                                         *)
LEMMA PrintExists ==
  ASSUME NEW heap, GrowsDown(heap)
  PROVE  \E f : /\ f \in [(DOMAIN heap) \X Nat -> AnyText]
                /\ \A b \in DOMAIN heap, d \in Nat : f[<<b, d>>] = BlockText(heap, f, b, d)
<1> DEFINE L == Len(heap)
           D == (DOMAIN heap) \X Nat
           Fits(f, n) == /\ f \in [D -> AnyText]
                         /\ \A b \in 1..L, d \in Nat :
                              b > L - n => f[<<b, d>>] = BlockText(heap, f, b, d)
           Good == {n \in Nat : \E f : Fits(f, n)}
<1>0. L \in Nat /\ DOMAIN heap = 1..L
  BY LenProperties DEF GrowsDown, AnyHeap
<1>d. D = (1..L) \X Nat
  BY <1>0, Zenon
<1> HIDE DEF L, D
<1>1. 0 \in Good
  <2> DEFINE f == [at \in D |-> << >>]
  <2>1. << >> \in AnyText
    BY DEF AnyText
  <2>2. f \in [D -> AnyText]
    BY <2>1
  <2>3. ~ \E b \in 1..L : b > L - 0
    BY <1>0
  <2> HIDE DEF f
  <2>4. Fits(f, 0)
    BY <2>2, <2>3
  <2> HIDE DEF Fits
  <2> QED
    BY <2>4
<1>2. ASSUME NEW n \in Nat, n \in Good PROVE n + 1 \in Good
  <2>1. PICK f : Fits(f, n)
    BY <1>2
  <2> DEFINE g == [at \in D |-> IF at[1] = L - n THEN BlockText(heap, f, at[1], at[2]) ELSE f[at]]
  <2>2. ASSUME NEW b \in 1..L, NEW d \in Nat
        PROVE  /\ b # L - n => g[<<b, d>>] = f[<<b, d>>]
               /\ b = L - n => g[<<b, d>>] = BlockText(heap, f, b, d)
    <3>1. <<b, d>> \in D
      BY <1>d
    <3>2. <<b, d>>[1] = b /\ <<b, d>>[2] = d
      OBVIOUS
    <3>3. g[<<b, d>>] = IF b = L - n THEN BlockText(heap, f, b, d) ELSE f[<<b, d>>]
      BY <3>1, <3>2, Zenon
    <3> QED
      BY <3>3, Zenon
  <2>3. ASSUME NEW b \in 1..L, NEW d \in Nat PROVE BlockText(heap, f, b, d) \in AnyText
    <3>1. \A c \in (b + 1)..L : f[<<c, d + 1>>] \in AnyText
      <4> SUFFICES ASSUME NEW c \in (b + 1)..L PROVE f[<<c, d + 1>>] \in AnyText
        OBVIOUS
      <4>1. <<c, d + 1>> \in D
        BY <1>0, <1>d
      <4> QED
        BY <2>1, <4>1
    <3> QED
      BY <3>1, BlockTextIsText DEF L
  <2>4. g \in [D -> AnyText]
    <3>1. ASSUME NEW at \in D PROVE g[at] \in AnyText
      <4>1. PICK b \in 1..L, d \in Nat : at = <<b, d>>
        BY <1>d
      <4>2. f[<<b, d>>] \in AnyText
        BY <2>1, <4>1
      <4>3. g[<<b, d>>] = f[<<b, d>>] \/ g[<<b, d>>] = BlockText(heap, f, b, d)
        BY <2>2
      <4> HIDE DEF g
      <4> QED
        BY <2>3, <4>1, <4>2, <4>3
    <3>2. g = [at \in D |-> g[at]]
      BY Zenon
    <3> HIDE DEF g
    <3> QED
      BY <3>1, <3>2
  <2> HIDE DEF g
  <2>5. ASSUME NEW b \in 1..L, NEW d \in Nat, b > L - (n + 1)
        PROVE  g[<<b, d>>] = BlockText(heap, g, b, d)
    <3>1. \A c \in (b + 1)..L : g[<<c, d + 1>>] = f[<<c, d + 1>>]
      <4> SUFFICES ASSUME NEW c \in (b + 1)..L PROVE g[<<c, d + 1>>] = f[<<c, d + 1>>]
        OBVIOUS
      <4>1. c \in 1..L /\ c # L - n /\ d + 1 \in Nat
        BY <1>0, <2>5
      <4> QED
        BY <2>2, <4>1
    <3>2. BlockText(heap, g, b, d) = BlockText(heap, f, b, d)
      BY <3>1, BlockTextIsBelow DEF L
    <3>3. CASE b = L - n
      BY <2>2, <3>2, <3>3
    <3>4. CASE b # L - n
      <4>1. b > L - n
        BY <1>0, <2>5, <3>4
      <4>2. f[<<b, d>>] = BlockText(heap, f, b, d)
        BY <2>1, <4>1
      <4> QED
        BY <2>2, <3>2, <3>4, <4>2
    <3> QED
      BY <3>3, <3>4
  <2>6. Fits(g, n + 1)
    BY <2>4, <2>5
  <2> HIDE DEF Fits
  <2> QED
    BY <2>6
<1>3. L \in Good
  <2> HIDE DEF Good
  <2> QED
    BY <1>0, <1>1, <1>2, SetInduction
<1>4. PICK f : Fits(f, L)
  BY <1>3
<1>5. \A b \in 1..L : b > L - L
  BY <1>0
<1>6. f \in [D -> AnyText] /\ \A b \in DOMAIN heap, d \in Nat : f[<<b, d>>] = BlockText(heap, f, b, d)
  BY <1>0, <1>4, <1>5
<1> QED
  BY <1>6, Zenon DEF D

LEMMA ToStringIsText ==
  ASSUME NEW heap, GrowsDown(heap), 1 \in DOMAIN heap
  PROVE  ToString(heap) \in AnyText
<1> DEFINE D == (DOMAIN heap) \X Nat
           print == CHOOSE p : p = [at \in D |-> BlockText(heap, p, at[1], at[2])]
           L == Len(heap)
<1>0. L \in Nat /\ DOMAIN heap = 1..L
  BY LenProperties DEF GrowsDown, AnyHeap
<1>1. PICK f : /\ f \in [D -> AnyText]
               /\ \A b \in DOMAIN heap, d \in Nat : f[<<b, d>>] = BlockText(heap, f, b, d)
  BY PrintExists
<1>2. f = [at \in D |-> BlockText(heap, f, at[1], at[2])]
  <2>1. ASSUME NEW at \in D PROVE f[at] = BlockText(heap, f, at[1], at[2])
    <3>1. PICK b \in DOMAIN heap, d \in Nat : at = <<b, d>>
      OBVIOUS
    <3>2. at[1] = b /\ at[2] = d
      BY <3>1
    <3> QED
      BY <1>1, <3>1, <3>2, Zenon
  <2> HIDE DEF D
  <2> QED
    BY <1>1, <2>1
<1>3. print = [at \in D |-> BlockText(heap, print, at[1], at[2])]
  BY <1>2, Zenon
<1>4. ToString(heap) = print[<<1, 0>>]
  BY DEF ToString
<1> HIDE DEF print
<1>5. ASSUME NEW b \in 1..L, NEW d \in Nat PROVE print[<<b, d>>] = BlockText(heap, print, b, d)
  <2>1. <<b, d>> \in D
    BY <1>0
  <2>2. <<b, d>>[1] = b /\ <<b, d>>[2] = d
    OBVIOUS
  <2> HIDE DEF D
  <2> QED
    BY <1>3, <2>1, <2>2, Zenon
<1> HIDE DEF L, D
<1> DEFINE Good == {n \in Nat : \A b \in 1..L, d \in Nat : b > L - n => print[<<b, d>>] \in AnyText}
<1>6. 0 \in Good
  BY <1>0
<1>7. ASSUME NEW n \in Nat, n \in Good PROVE n + 1 \in Good
  <2> SUFFICES ASSUME NEW b \in 1..L, NEW d \in Nat, b > L - (n + 1) PROVE print[<<b, d>>] \in AnyText
    BY <1>0
  <2>1. \A c \in (b + 1)..L : print[<<c, d + 1>>] \in AnyText
    <3> SUFFICES ASSUME NEW c \in (b + 1)..L PROVE print[<<c, d + 1>>] \in AnyText
      OBVIOUS
    <3>1. c \in 1..L /\ c > L - n /\ d + 1 \in Nat
      BY <1>0
    <3> QED
      BY <1>7, <3>1
  <2>2. BlockText(heap, print, b, d) \in AnyText
    BY <2>1, BlockTextIsText DEF L
  <2> QED
    BY <1>5, <2>2
<1>8. L \in Good
  <2> HIDE DEF Good
  <2> QED
    BY <1>0, <1>6, <1>7, SetInduction
<1>9. 1 \in 1..L /\ 1 > L - L
  BY <1>0
<1> QED
  BY <1>4, <1>8, <1>9

(* What the tokens of a text stand for is printed as a text.               *)
LEMMA PrintedTreeIsText ==
  ASSUME NEW T \in AnyTokens
  PROVE  ToString(Tree(T)) \in AnyText
BY TreeIs, TreeGrowsDown, ToStringIsText

-----------------------------------------------------------------------------
(* The stack that belongs to a sequence of tokens.                         *)

(* The braces that open a block inside d - 1 others; the last of them is   *)
(* the one still open when T is d deep.                                    *)
OpenAt(T, d) == {j \in Places(T, "START_BLOCK", Len(T)) : Level(T, j) = d - 1}

(* s is a stack of the configuration and the d blocks open behind T.       *)
StackOf(T, d, s) ==
  /\ d \in Nat /\ d = Level(T, Len(T) + 1)
  /\ \A k \in 1..(Len(T) + 1) : Level(T, k) >= 0
  /\ s \in Seq(Nat) /\ Len(s) = d + 1 /\ s[1] = 1
  /\ \A e \in 1..d : OpenAt(T, e) # {} /\ s[e + 1] = BlockOpenedAt(T, Max(OpenAt(T, e)))

LEMMA LevelsAreNumbers ==
  ASSUME NEW T \in AnyTokens
  PROVE  \A k \in 1..(Len(T) + 1) : Level(T, k) \in Int
<1>1. Len(T) \in Nat
  BY TokensAre
<1>2. ASSUME NEW k \in 1..(Len(T) + 1) PROVE Level(T, k) \in Int
  <2>1. CASE k = 1
    BY <2>1, NoLevel
  <2>2. CASE k # 1
    <3>1. PICK j \in 1..Len(T) : k = j + 1
      <4>1. k - 1 \in 1..Len(T) /\ k = (k - 1) + 1
        BY <1>1, <2>2
      <4> QED
        BY <4>1
    <3> QED
      BY <3>1, LevelGrows
  <2> QED
    BY <2>1, <2>2
<1> QED
  BY <1>2

LEMMA OpenAtIs ==
  ASSUME NEW T \in AnyTokens, NEW e \in Int, OpenAt(T, e) # {}
  PROVE  /\ OpenAt(T, e) \subseteq 1..Len(T)
         /\ Max(OpenAt(T, e)) \in OpenAt(T, e)
         /\ \A j \in OpenAt(T, e) : j <= Max(OpenAt(T, e))
<1>1. OpenAt(T, e) \subseteq 1..Len(T)
  BY DEF OpenAt, Places
<1>2. Len(T) \in Nat
  BY TokensAre
<1> DEFINE S == OpenAt(T, e)
<1> HIDE DEF S
<1>3. S \subseteq 1..Len(T) /\ S # {}
  BY <1>1 DEF S
<1>4. PICK bound \in Int : bound = Len(T)
  BY <1>2
<1>5. S \in SUBSET Int /\ \A x \in S : x <= bound
  BY <1>2, <1>3, <1>4
<1>6. Max(S) \in S /\ \A y \in S : y <= Max(S)
  BY <1>3, <1>5, MaxIsGreatest, Zenon
<1> QED
  BY <1>1, <1>6 DEF S

LEMMA OpenAtGrows ==
  ASSUME NEW T \in AnyTokens, NEW t \in AnyToken, NEW e \in Int
  PROVE  LET U == Append(T, t)
             opens == t.type = "START_BLOCK" /\ Level(T, Len(T) + 1) = e - 1
         IN  /\ ~opens => OpenAt(U, e) = OpenAt(T, e)
             /\ opens => OpenAt(U, e) = OpenAt(T, e) \union {Len(T) + 1}
<1> DEFINE U == Append(T, t)
           n == Len(T)
           old == Places(T, "START_BLOCK", n)
           new == Places(U, "START_BLOCK", n + 1)
<1>1. U \in AnyTokens /\ Len(U) = n + 1 /\ U[n + 1] = t /\ StartsWith(U, T) /\ n \in Nat
  BY AppendStartsWith, TokensAre
<1> HIDE DEF U, n
<1>2. Places(U, "START_BLOCK", n) = old
  BY <1>1, PlacesAgree DEF n
<1>3. /\ t.type # "START_BLOCK" => new = old
      /\ t.type = "START_BLOCK" => new = old \union {n + 1}
  <2>0. n \in Nat
    BY <1>1
  <2>1. \A type : U[n + 1].type # type => Places(U, type, n + 1) = Places(U, type, n)
    BY <2>0, PlacesGrow
  <2>2. \A type : U[n + 1].type = type => Places(U, type, n + 1) = Places(U, type, n) \union {n + 1}
    BY <2>0, PlacesGrow
  <2> QED
    BY <1>1, <1>2, <2>1, <2>2, Zenon
<1>4. \A j \in 1..(n + 1) : Level(U, j) = Level(T, j)
  BY <1>1, LevelAgrees DEF n
<1>5. old \subseteq 1..n
  BY DEF Places
<1>6. OpenAt(T, e) = {j \in old : Level(T, j) = e - 1}
  BY DEF OpenAt, n
<1>7. OpenAt(U, e) = {j \in new : Level(U, j) = e - 1}
  BY <1>1, Zenon DEF OpenAt
<1>8. old \subseteq 1..(n + 1) /\ n + 1 \in 1..(n + 1)
  BY <1>1, <1>5
<1> HIDE DEF old, new
<1> QED
  BY <1>3, <1>4, <1>6, <1>7, <1>8 DEF U, n

LEMMA NothingIsOpen == StackOf(<< >>, 0, <<1>>)
<1>1. Len(<< >>) = 0 /\ Level(<< >>, 1) = 0
  BY NoLevel
<1>2. <<1>> \in Seq(Nat) /\ Len(<<1>>) = 1 /\ <<1>>[1] = 1
  OBVIOUS
<1> HIDE DEF Level
<1>3. \A k \in 1..(Len(<< >>) + 1) : Level(<< >>, k) >= 0
  BY <1>1
<1>4. Level(<< >>, Len(<< >>) + 1) = 0
  BY <1>1
<1> QED
  BY <1>2, <1>3, <1>4 DEF StackOf

(* What another token leaves of the stack.                                 *)
LEMMA StackAgrees ==
  ASSUME NEW T \in AnyTokens, NEW t \in AnyToken, NEW d, NEW s, StackOf(T, d, s),
         NEW e \in 1..d
  PROVE  /\ OpenAt(Append(T, t), e) # {}
         /\ s[e + 1] = BlockOpenedAt(Append(T, t), Max(OpenAt(Append(T, t), e)))
<1> DEFINE U == Append(T, t)
<1>1. OpenAt(T, e) # {} /\ s[e + 1] = BlockOpenedAt(T, Max(OpenAt(T, e)))
  BY DEF StackOf
<1>2. Level(T, Len(T) + 1) # e - 1 /\ e \in Int
  BY DEF StackOf
<1>3. OpenAt(U, e) = OpenAt(T, e)
  BY <1>2, OpenAtGrows
<1>4. Max(OpenAt(T, e)) \in 1..Len(T)
  BY <1>1, <1>2, OpenAtIs
<1>5. U \in AnyTokens /\ StartsWith(U, T)
  BY AppendStartsWith
<1> HIDE DEF U
<1>6. BlockOpenedAt(U, Max(OpenAt(T, e))) = BlockOpenedAt(T, Max(OpenAt(T, e)))
  <2>1. PICK m \in 1..Len(T) : m = Max(OpenAt(T, e))
    BY <1>4
  <2>2. m \in Int /\ m <= Len(T)
    BY TokensAre
  <2> QED
    BY <1>5, <2>1, <2>2, BlockNumbersAgree
<1> QED
  BY <1>1, <1>3, <1>6, Zenon DEF U

(* The levels behind another token.                                        *)
LEMMA LevelsGrow ==
  ASSUME NEW T \in AnyTokens, NEW t \in AnyToken, NEW d, NEW s, StackOf(T, d, s)
  PROVE  LET U == Append(T, t)
         IN  /\ U \in AnyTokens /\ Len(U) = Len(T) + 1 /\ Len(T) \in Nat
             /\ Level(U, Len(T) + 1) = d
             /\ t.type \notin {"START_BLOCK", "END_BLOCK"} => Level(U, Len(U) + 1) = d
             /\ t.type = "START_BLOCK" => Level(U, Len(U) + 1) = d + 1
             /\ t.type = "END_BLOCK" => Level(U, Len(U) + 1) = d - 1
             /\ Level(U, Len(U) + 1) >= 0 => \A k \in 1..(Len(U) + 1) : Level(U, k) >= 0
<1> DEFINE U == Append(T, t)
           n == Len(T)
<1>1. U \in AnyTokens /\ Len(U) = n + 1 /\ U[n + 1] = t /\ StartsWith(U, T) /\ n \in Nat
  BY AppendStartsWith, TokensAre
<1> HIDE DEF U
<1>2. \A j \in 1..(n + 1) : Level(U, j) = Level(T, j)
  BY <1>1, LevelAgrees
<1>3. Level(U, n + 1) = d
  <2>1. n + 1 \in 1..(n + 1)
    BY <1>1
  <2> QED
    BY <1>2, <2>1 DEF StackOf
<1>4. n + 1 \in 1..Len(U)
  BY <1>1
<1>5. /\ t.type \notin {"START_BLOCK", "END_BLOCK"} => Level(U, (n + 1) + 1) = d
      /\ t.type = "START_BLOCK" => Level(U, (n + 1) + 1) = d + 1
      /\ t.type = "END_BLOCK" => Level(U, (n + 1) + 1) = d - 1
  BY <1>1, <1>3, <1>4, LevelGrows
<1>6. \A k \in 1..(n + 1) : Level(U, k) >= 0
  BY <1>2 DEF StackOf
<1>7. ASSUME Level(U, (n + 1) + 1) >= 0, NEW k \in 1..((n + 1) + 1) PROVE Level(U, k) >= 0
  <2>1. CASE k = (n + 1) + 1
    BY <1>7, <2>1
  <2>2. CASE k # (n + 1) + 1
    <3>1. k \in 1..(n + 1)
      BY <1>1, <2>2
    <3> QED
      BY <1>6, <3>1
  <2> QED
    BY <2>1, <2>2
<1> QED
  BY <1>1, <1>3, <1>5, <1>7 DEF U

LEMMA StackStays ==
  ASSUME NEW T \in AnyTokens, NEW t \in AnyToken, NEW d, NEW s, StackOf(T, d, s),
         t.type \notin {"START_BLOCK", "END_BLOCK"}
  PROVE  StackOf(Append(T, t), d, s)
<1>1. d \in Nat /\ s \in Seq(Nat) /\ Len(s) = d + 1 /\ s[1] = 1
  BY DEF StackOf
<1>2. Level(Append(T, t), Len(Append(T, t)) + 1) = d
  BY LevelsGrow
<1>3. \A k \in 1..(Len(Append(T, t)) + 1) : Level(Append(T, t), k) >= 0
  BY <1>1, <1>2, LevelsGrow
<1>4. ASSUME NEW e \in 1..d
      PROVE  /\ OpenAt(Append(T, t), e) # {}
             /\ s[e + 1] = BlockOpenedAt(Append(T, t), Max(OpenAt(Append(T, t), e)))
  BY StackAgrees
<1> QED
  BY <1>1, <1>2, <1>3, <1>4 DEF StackOf

LEMMA StackCloses ==
  ASSUME NEW T \in AnyTokens, NEW t \in AnyToken, NEW d, NEW s, StackOf(T, d, s),
         t.type = "END_BLOCK", d >= 1
  PROVE  StackOf(Append(T, t), d - 1, SubSeq(s, 1, Len(s) - 1))
<1> DEFINE r == SubSeq(s, 1, Len(s) - 1)
<1>1. d \in Nat /\ s \in Seq(Nat) /\ Len(s) = d + 1 /\ s[1] = 1
  BY DEF StackOf
<1>2. r \in Seq(Nat) /\ Len(r) = d /\ \A i \in 1..d : r[i] = s[i]
  BY <1>1
<1>3. d - 1 \in Nat /\ Len(r) = (d - 1) + 1 /\ r[1] = 1
  BY <1>1, <1>2
<1> HIDE DEF r
<1>4. Level(Append(T, t), Len(Append(T, t)) + 1) = d - 1
  BY LevelsGrow
<1>5. \A k \in 1..(Len(Append(T, t)) + 1) : Level(Append(T, t), k) >= 0
  BY <1>3, <1>4, LevelsGrow
<1>6. ASSUME NEW e \in 1..(d - 1)
      PROVE  /\ OpenAt(Append(T, t), e) # {}
             /\ r[e + 1] = BlockOpenedAt(Append(T, t), Max(OpenAt(Append(T, t), e)))
  <2>1. e \in 1..d /\ e + 1 \in 1..d
    BY <1>1
  <2> QED
    BY <1>2, <2>1, StackAgrees
<1>7. StackOf(Append(T, t), d - 1, r)
  BY <1>2, <1>3, <1>4, <1>5, <1>6 DEF StackOf
<1> QED
  BY <1>7 DEF r

LEMMA StackOpens ==
  ASSUME NEW T \in AnyTokens, NEW t \in AnyToken, NEW d, NEW s, StackOf(T, d, s),
         t.type = "START_BLOCK"
  PROVE  StackOf(Append(T, t), d + 1, Append(s, Len(Tree(T)) + 1))
<1> DEFINE U == Append(T, t)
           n == Len(T)
           new == Len(Tree(T)) + 1
           r == Append(s, new)
<1>1. d \in Nat /\ s \in Seq(Nat) /\ Len(s) = d + 1 /\ s[1] = 1 /\ Level(T, n + 1) = d
  BY DEF StackOf
<1>2. Len(Tree(T)) = BlockOpenedAt(T, n) /\ Len(Tree(T)) \in Nat
  BY TreeIs
<1> HIDE DEF new
<1>3. new \in Nat
  BY <1>2 DEF new
<1>4. r \in Seq(Nat) /\ Len(r) = d + 2 /\ r[d + 2] = new /\ \A i \in 1..(d + 1) : r[i] = s[i]
  BY <1>1, <1>3
<1>5. r[1] = 1 /\ Len(r) = (d + 1) + 1 /\ d + 1 \in Nat
  BY <1>1, <1>4
<1> HIDE DEF r
<1>6. U \in AnyTokens /\ Len(U) = n + 1 /\ U[n + 1] = t /\ StartsWith(U, T) /\ n \in Nat
  BY AppendStartsWith, TokensAre
<1>7. Level(U, Len(U) + 1) = d + 1
  BY LevelsGrow
<1>8. \A k \in 1..(Len(U) + 1) : Level(U, k) >= 0
  BY <1>5, <1>7, LevelsGrow
<1>9. ASSUME NEW e \in 1..(d + 1)
      PROVE  OpenAt(U, e) # {} /\ r[e + 1] = BlockOpenedAt(U, Max(OpenAt(U, e)))
  <2>1. CASE e \in 1..d
    <3>1. e + 1 \in 1..(d + 1)
      BY <1>1, <2>1
    <3>2. OpenAt(U, e) # {} /\ s[e + 1] = BlockOpenedAt(U, Max(OpenAt(U, e)))
      BY <2>1, StackAgrees
    <3> QED
      BY <1>4, <3>1, <3>2
  <2>2. CASE e = d + 1
    <3>1. OpenAt(U, e) = OpenAt(T, e) \union {n + 1}
      BY <1>1, <2>2, OpenAtGrows
    <3>2. /\ OpenAt(U, e) \subseteq 1..(n + 1) /\ Max(OpenAt(U, e)) \in OpenAt(U, e)
          /\ n + 1 <= Max(OpenAt(U, e))
      BY <1>5, <1>6, <2>2, <3>1, OpenAtIs
    <3>3. Max(OpenAt(U, e)) = n + 1
      <4>1. PICK m \in 1..(n + 1) : m = Max(OpenAt(U, e))
        BY <3>2
      <4> QED
        BY <1>6, <3>2, <4>1
    <3> HIDE DEF U
    <3>4. BlockOpenedAt(U, n + 1) = BlockOpenedAt(U, n) + 1
      <4>1. n <= n
        BY <1>6
      <4> QED
        BY <1>6, <4>1, BlocksAreNumbered
    <3>5. BlockOpenedAt(U, n) = BlockOpenedAt(T, n)
      <4>1. n \in Int /\ n <= Len(T)
        BY <1>6
      <4> QED
        BY <1>6, <4>1, BlockNumbersAgree
    <3>6. r[e + 1] = new
      <4>1. e + 1 = d + 2
        BY <1>1, <2>2
      <4> QED
        BY <1>4, <4>1, Zenon
    <3>7. OpenAt(U, e) # {}
      BY <3>1 DEF U
    <3> QED
      BY <1>2, <3>3, <3>4, <3>5, <3>6, <3>7, Zenon DEF new
  <2> QED
    BY <1>1, <2>1, <2>2
<1>10. StackOf(U, d + 1, r)
  BY <1>4, <1>5, <1>7, <1>8, <1>9 DEF StackOf
<1> QED
  BY <1>10 DEF r, new

(* The top of the stack is the block the next token belongs to.            *)
LEMMA TopIsAround ==
  ASSUME NEW T \in AnyTokens, NEW d, NEW s, StackOf(T, d, s)
  PROVE  s[Len(s)] = BlockAround(T, Len(T) + 1)
<1> DEFINE n == Len(T)
<1>1. d \in Nat /\ Len(s) = d + 1 /\ s[1] = 1 /\ Level(T, n + 1) = d
  BY DEF StackOf
<1>2. n \in Nat
  BY TokensAre
<1>3. OpenBraces(T, n + 1) = OpenAt(T, d)
  <2>1. (n + 1) - 1 = n
    BY <1>2
  <2>2. OpenBraces(T, n + 1) = {j \in Places(T, "START_BLOCK", n) : Level(T, j) = d - 1}
    BY <1>1, <2>1, Zenon DEF OpenBraces
  <2> QED
    BY <2>2 DEF OpenAt
<1>4. n + 1 \in 1..(n + 1)
  BY <1>2
<1>5. CASE d = 0
  <2>1. OpenAt(T, d) = {}
    <3> SUFFICES ASSUME NEW j \in OpenAt(T, d) PROVE FALSE
      OBVIOUS
    <3>1. j \in 1..n /\ Level(T, j) = 0 - 1
      BY <1>5 DEF OpenAt, Places
    <3>2. Level(T, j) >= 0
      BY <1>2, <3>1 DEF StackOf
    <3> QED
      BY <3>1, <3>2
  <2> QED
    BY <1>1, <1>3, <1>4, <1>5, <2>1, BlockAroundIs
<1>6. CASE d # 0
  <2>1. d \in 1..d
    BY <1>1, <1>6
  <2>2. OpenAt(T, d) # {} /\ s[d + 1] = BlockOpenedAt(T, Max(OpenAt(T, d)))
    BY <2>1 DEF StackOf
  <2> QED
    BY <1>1, <1>3, <1>4, <2>2, BlockAroundIs
<1> QED
  BY <1>5, <1>6

-----------------------------------------------------------------------------
(* The tokens in front of a place of the text.                             *)

(* The type of the last token of T, START when there is none.              *)
LastType(T) == IF Len(T) = 0 THEN "START" ELSE T[Len(T)].type

(* before are the tokens of the text in front of place p, none of them a   *)
(* mistake or the end.                                                     *)
FirstTokens(text, p, before) ==
  /\ before \in AnyTokens
  /\ TokensFrom(text, 1) = before \o TokensFrom(text, p)
  /\ \A i \in 1..Len(before) :
       before[i].next <= p /\ before[i].type \notin {"EOF", "ERROR", "START"}

LEMMA MeaningfulIs ==
  ASSUME NEW s \in AnyTokens
  PROVE  /\ Meaningful(s) \in AnyTokens
         /\ \A k \in 1..Len(Meaningful(s)) :
              /\ Meaningful(s)[k].type \notin {"COMMENT", "WHITESPACE"}
              /\ \E i \in 1..Len(s) : Meaningful(s)[k] = s[i]
<1> DEFINE S == {k \in DOMAIN s : s[k].type \notin {"COMMENT", "WHITESPACE"}}
           at == InOrder(S, Len(s))
<1>1. Len(s) \in Nat /\ DOMAIN s = 1..Len(s)
  BY TokensAre
<1>2. Meaningful(s) = [k \in DOMAIN at |-> s[at[k]]]
  BY DEF Meaningful, Selected
<1>3. Meaningful(s) \in AnyTokens
  BY SelectedIsTyped DEF Meaningful, AnyTokens
<1> HIDE DEF S
<1>4. DOMAIN at = 1..Len(at) /\ Len(at) \in Nat /\ \A k \in DOMAIN at : at[k] \in S /\ at[k] \in 1..Len(s)
  BY <1>1, InOrderIsSorted
<1> HIDE DEF at
<1>5. Len(Meaningful(s)) = Len(at)
  BY <1>2, <1>4
<1>6. \A k \in 1..Len(at) : Meaningful(s)[k] = s[at[k]]
  BY <1>2, <1>4, Zenon
<1>7. \A k \in 1..Len(at) : s[at[k]].type \notin {"COMMENT", "WHITESPACE"} /\ at[k] \in 1..Len(s)
  BY <1>4 DEF S
<1> QED
  BY <1>3, <1>5, <1>6, <1>7

LEMMA NoneInFront ==
  ASSUME NEW text \in AnyText
  PROVE  FirstTokens(text, 1, << >>) /\ Meaningful(<< >>) = << >>
<1>1. TokensFrom(text, 1) \in AnyTokens
  <2>1. 1 \in Place
    BY DEF Place
  <2> QED
    BY <2>1, TokensFromUnfolds DEF AnyTokens
<1>2. << >> \o TokensFrom(text, 1) = TokensFrom(text, 1) /\ << >> \in AnyTokens /\ Len(<< >>) = 0
  BY <1>1, ConcatEmptySeq DEF AnyTokens
<1>3. Meaningful(<< >>) = << >>
  <2>1. Meaningful(<< >>) \in AnyTokens
    BY <1>2, MeaningfulIs
  <2>2. Len(Meaningful(<< >>)) = 0
    <3> SUFFICES ASSUME Len(Meaningful(<< >>)) # 0 PROVE FALSE
      OBVIOUS
    <3>1. 1 \in 1..Len(Meaningful(<< >>))
      BY <2>1, TokensAre
    <3>2. \E i \in 1..Len(<< >>) : Meaningful(<< >>)[1] = << >>[i]
      BY <1>2, <3>1, MeaningfulIs
    <3> QED
      BY <1>2, <3>2
  <2> QED
    BY <2>1, <2>2 DEF AnyTokens
<1> QED
  BY <1>2, <1>3 DEF FirstTokens

(* The token at p is the next of them.                                     *)
LEMMA OneMoreInFront ==
  ASSUME NEW text \in AnyText, NEW p \in Place, NEW before, FirstTokens(text, p, before),
         ~Ends(ParseToken(text, p))
  PROVE  LET t == ParseToken(text, p)
         IN  /\ t \in AnyToken /\ t.next \in Place
             /\ FirstTokens(text, t.next, Append(before, t))
<1> DEFINE t == ParseToken(text, p)
           after == Append(before, t)
<1>1. SoundToken(text, p, t)
  BY ParseTokenIsSound DEF Place
<1>2. t \in AnyToken /\ t.next \in Place /\ t.next > p /\ t.type \notin {"EOF", "ERROR", "START"}
  BY <1>1 DEF SoundToken, Ends, AnyToken, Place
<1>3. TokensFrom(text, p) = <<t>> \o TokensFrom(text, t.next)
  BY TokensFromUnfolds
<1> HIDE DEF t
<1>4. TokensFrom(text, t.next) \in AnyTokens
  BY <1>2, TokensFromUnfolds DEF AnyTokens
<1>5. before \in AnyTokens /\ Len(before) \in Nat
  BY TokensAre DEF FirstTokens
<1>6. after \in AnyTokens /\ Len(after) = Len(before) + 1 /\ after[Len(before) + 1] = t
      /\ \A i \in 1..Len(before) : after[i] = before[i]
  BY <1>2, <1>5, AppendStartsWith DEF StartsWith
<1>7. TokensFrom(text, 1) = after \o TokensFrom(text, t.next)
  <2>1. before \o (<<t>> \o TokensFrom(text, t.next)) = (before \o <<t>>) \o TokensFrom(text, t.next)
    <3>1. <<t>> \in Seq(AnyToken)
      BY <1>2
    <3> QED
      BY <1>4, <1>5, <3>1, ConcatAssociative DEF AnyTokens
  <2>2. before \o <<t>> = after
    BY <1>2, <1>5, AppendIsConcat DEF AnyTokens
  <2> QED
    BY <1>3, <2>1, <2>2 DEF FirstTokens
<1> HIDE DEF after
<1>8. ASSUME NEW i \in 1..Len(after)
      PROVE  after[i].next <= t.next /\ after[i].type \notin {"EOF", "ERROR", "START"}
  <2>1. CASE i = Len(before) + 1
    <3>1. after[i] = t
      BY <1>6, <2>1
    <3> QED
      BY <1>2, <3>1 DEF Place
  <2>2. CASE i # Len(before) + 1
    <3>1. i \in 1..Len(before)
      BY <1>5, <1>6, <2>2
    <3>2. after[i] = before[i] /\ before[i].next \in Nat
      BY <1>5, <1>6, <3>1, TokensAre DEF AnyToken
    <3>3. before[i].next <= p /\ before[i].type \notin {"EOF", "ERROR", "START"}
      BY <3>1 DEF FirstTokens
    <3>4. PICK a \in Nat, b \in Nat, c \in Nat : a = before[i].next /\ b = p /\ c = t.next
      BY <1>2, <3>2 DEF Place
    <3>5. a <= c
      BY <1>2, <3>3, <3>4
    <3> QED
      BY <3>2, <3>3, <3>4, <3>5, Zenon
  <2> QED
    BY <2>1, <2>2
<1>9. FirstTokens(text, t.next, after)
  BY <1>6, <1>7, <1>8 DEF FirstTokens
<1> QED
  BY <1>2, <1>9 DEF t, after

(* All tokens of the text are those in front of p, the one at p, and       *)
(* others behind it, none when it is the last.                             *)
LEMMA AllTokensAre ==
  ASSUME NEW text \in AnyText, NEW p \in Place, NEW before, FirstTokens(text, p, before)
  PROVE  LET t == ParseToken(text, p)
         IN  /\ t \in AnyToken
             /\ \E rest \in AnyTokens : /\ TokensFrom(text, 1) = Append(before, t) \o rest
                                        /\ Ends(t) => rest = << >>
<1> DEFINE t == ParseToken(text, p)
<1>1. SoundToken(text, p, t)
  BY ParseTokenIsSound DEF Place
<1>2. t \in AnyToken
  BY <1>1 DEF SoundToken
<1>3. before \in AnyTokens
  BY DEF FirstTokens
<1>4. CASE Ends(t)
  <2>1. TokensFrom(text, 1) = before \o <<t>>
    BY <1>4, TokensFromUnfolds DEF FirstTokens
  <2> HIDE DEF t
  <2>2. before \o <<t>> = Append(before, t)
    BY <1>2, <1>3, AppendIsConcat DEF AnyTokens
  <2>3. Append(before, t) \in AnyTokens
    BY <1>2, <1>3, AppendStartsWith
  <2>4. Append(before, t) \o << >> = Append(before, t) /\ << >> \in AnyTokens
    BY <2>3, ConcatEmptySeq DEF AnyTokens
  <2>5. TokensFrom(text, 1) = Append(before, t) \o << >>
    BY <2>1, <2>2, <2>4, Zenon
  <2>6. \E rest \in AnyTokens : TokensFrom(text, 1) = Append(before, t) \o rest /\ (Ends(t) => rest = << >>)
    BY <2>4, <2>5, Zenon
  <2> QED
    BY <1>2, <2>6 DEF t
<1>5. CASE ~Ends(t)
  <2>1. t.next \in Place /\ FirstTokens(text, t.next, Append(before, t))
    BY <1>5, OneMoreInFront
  <2> HIDE DEF t
  <2>2. TokensFrom(text, t.next) \in AnyTokens
    BY <2>1, TokensFromUnfolds DEF AnyTokens
  <2>3. TokensFrom(text, 1) = Append(before, t) \o TokensFrom(text, t.next)
    BY <2>1 DEF FirstTokens
  <2>4. \E rest \in AnyTokens : TokensFrom(text, 1) = Append(before, t) \o rest /\ (Ends(t) => rest = << >>)
    BY <1>5, <2>2, <2>3, Zenon
  <2> QED
    BY <1>2, <2>4 DEF t
<1> QED
  BY <1>4, <1>5

(* What the last of them can be.                                           *)
LEMMA LastTypeIs ==
  ASSUME NEW text, NEW p, NEW before, FirstTokens(text, p, before)
  PROVE  LET T == Meaningful(before)
         IN  /\ T \in AnyTokens
             /\ \A k \in 1..Len(T) : T[k].type \notin {"EOF", "ERROR", "START", "COMMENT", "WHITESPACE"}
             /\ LastType(T) \in Words \union {"START", "START_BLOCK", "END_BLOCK", "STATEMENT_END"}
             /\ LastType(T) = "START" <=> Len(T) = 0
             /\ LastType(T) # "START" => Len(T) \in 1..Len(T) /\ LastType(T) = T[Len(T)].type
             /\ LastType(T) \in Words <=> WordAt(T, Len(T))
<1> DEFINE T == Meaningful(before)
<1>1. before \in AnyTokens
  BY DEF FirstTokens
<1>2. T \in AnyTokens /\ Len(T) \in Nat /\ DOMAIN T = 1..Len(T) /\ \A k \in 1..Len(T) : T[k] \in AnyToken
  BY <1>1, MeaningfulIs, TokensAre
<1>3. \A k \in 1..Len(T) : T[k].type \notin {"EOF", "ERROR", "START", "COMMENT", "WHITESPACE"}
  <2> SUFFICES ASSUME NEW k \in 1..Len(T)
               PROVE  T[k].type \notin {"EOF", "ERROR", "START", "COMMENT", "WHITESPACE"}
    OBVIOUS
  <2>1. T[k].type \notin {"COMMENT", "WHITESPACE"}
    BY <1>1, MeaningfulIs
  <2>2. PICK i \in 1..Len(before) : T[k] = before[i]
    BY <1>1, MeaningfulIs
  <2> HIDE DEF T
  <2>3. before[i].type \notin {"EOF", "ERROR", "START"}
    BY DEF FirstTokens
  <2> QED
    BY <2>1, <2>2, <2>3
<1> HIDE DEF T
<1>4. CASE Len(T) = 0
  <2>1. LastType(T) = "START"
    BY <1>4 DEF LastType
  <2>2. ~WordAt(T, Len(T))
    BY <1>2, <1>4 DEF WordAt
  <2>3. "START" \notin Words
    BY DEF Words
  <2> QED
    BY <1>2, <1>3, <1>4, <2>1, <2>2, <2>3 DEF T
<1>5. CASE Len(T) # 0
  <2>1. LastType(T) = T[Len(T)].type /\ Len(T) \in 1..Len(T)
    BY <1>2, <1>5 DEF LastType
  <2>2. T[Len(T)].type \in TokenTypes
    BY <1>2, <2>1 DEF AnyToken
  <2>3. T[Len(T)].type \notin {"EOF", "ERROR", "START", "COMMENT", "WHITESPACE"}
    BY <1>3, <2>1
  <2>4. LastType(T) \in Words \union {"START", "START_BLOCK", "END_BLOCK", "STATEMENT_END"}
    BY <2>1, <2>2, <2>3 DEF TokenTypes
  <2>5. LastType(T) \in Words <=> WordAt(T, Len(T))
    BY <1>2, <2>1 DEF WordAt, IsWord
  <2>6. LastType(T) # "START"
    BY <2>1, <2>3
  <2> QED
    BY <1>2, <1>3, <1>5, <2>1, <2>4, <2>5, <2>6 DEF T
<1> QED
  BY <1>4, <1>5

-----------------------------------------------------------------------------
(* Well formed configurations, token by token.                             *)

(* Every token but an EOF is where WellFormed wants it.                    *)
InPlace(T) ==
  \A k \in 1..Len(T) :
    /\ T[k].type \in {"STATEMENT_END", "START_BLOCK"} => WordAt(T, k - 1)
    /\ T[k].type = "END_BLOCK" => ~WordAt(T, k - 1)

(* No two words touch.                                                     *)
Apart(tokens) == \A k \in 2..Len(tokens) : ~(IsWord(tokens[k - 1]) /\ IsWord(tokens[k]))

LEMMA WordAgrees ==
  ASSUME NEW T \in AnyTokens, NEW U \in AnyTokens, StartsWith(U, T), NEW k \in Int, k <= Len(T)
  PROVE  WordAt(U, k) <=> WordAt(T, k)
<1>1. /\ Len(T) \in Nat /\ DOMAIN T = 1..Len(T) /\ Len(U) \in Nat /\ DOMAIN U = 1..Len(U)
      /\ Len(T) <= Len(U)
  BY TokensAre DEF StartsWith
<1>2. CASE k \in 1..Len(T)
  <2>1. U[k] = T[k] /\ k \in DOMAIN U /\ k \in DOMAIN T
    BY <1>1, <1>2 DEF StartsWith
  <2> QED
    BY <2>1 DEF WordAt
<1>3. CASE k \notin 1..Len(T)
  <2>1. k \notin DOMAIN U /\ k \notin DOMAIN T
    BY <1>1, <1>3
  <2> QED
    BY <2>1 DEF WordAt
<1> QED
  BY <1>2, <1>3

LEMMA InPlaceGrows ==
  ASSUME NEW T \in AnyTokens, NEW t \in AnyToken, InPlace(T),
         t.type \in {"STATEMENT_END", "START_BLOCK"} => WordAt(T, Len(T)),
         t.type = "END_BLOCK" => ~WordAt(T, Len(T))
  PROVE  InPlace(Append(T, t))
<1> DEFINE U == Append(T, t)
           n == Len(T)
<1>1. /\ U \in AnyTokens /\ Len(U) = n + 1 /\ U[n + 1] = t /\ StartsWith(U, T) /\ n \in Nat
      /\ \A k \in 1..n : U[k] = T[k]
  BY AppendStartsWith, TokensAre DEF StartsWith
<1> HIDE DEF U
<1>2. ASSUME NEW k \in 1..(n + 1)
      PROVE  /\ U[k].type \in {"STATEMENT_END", "START_BLOCK"} => WordAt(U, k - 1)
             /\ U[k].type = "END_BLOCK" => ~WordAt(U, k - 1)
  <2>1. WordAt(U, k - 1) <=> WordAt(T, k - 1)
    <3>1. k - 1 \in Int /\ k - 1 <= Len(T)
      BY <1>1
    <3> QED
      BY <1>1, <3>1, WordAgrees
  <2>2. CASE k \in 1..n
    BY <1>1, <2>1, <2>2 DEF InPlace
  <2>3. CASE k = n + 1
    <3>1. k - 1 = n /\ U[k] = t
      BY <1>1, <2>3
    <3> QED
      BY <2>1, <3>1
  <2> QED
    BY <1>1, <2>2, <2>3
<1> QED
  BY <1>1, <1>2 DEF InPlace, U

LEMMA ApartGrows ==
  ASSUME NEW T \in AnyTokens, NEW t \in AnyToken, Apart(T), ~(WordAt(T, Len(T)) /\ IsWord(t))
  PROVE  Apart(Append(T, t))
<1> DEFINE U == Append(T, t)
           n == Len(T)
<1>1. /\ U \in AnyTokens /\ Len(U) = n + 1 /\ U[n + 1] = t /\ n \in Nat /\ DOMAIN T = 1..n
      /\ \A k \in 1..n : U[k] = T[k]
  BY AppendStartsWith, TokensAre DEF StartsWith
<1> HIDE DEF U
<1>2. ASSUME NEW k \in 2..(n + 1) PROVE ~(IsWord(U[k - 1]) /\ IsWord(U[k]))
  <2>1. k - 1 \in 1..n /\ U[k - 1] = T[k - 1]
    BY <1>1
  <2>2. CASE k \in 2..n
    <3>1. U[k] = T[k]
      BY <1>1, <2>2
    <3> QED
      BY <2>1, <2>2, <3>1 DEF Apart
  <2>3. CASE k = n + 1
    <3>1. U[k] = t /\ k - 1 = n /\ n \in DOMAIN T
      BY <1>1, <2>1, <2>3
    <3>2. U[k - 1] = T[n]
      BY <2>1, <3>1
    <3> QED
      BY <3>1, <3>2, Zenon DEF WordAt
  <2> QED
    BY <1>1, <2>2, <2>3
<1> QED
  BY <1>1, <1>2 DEF Apart, U

(* A text that ends behind a statement, in no block.                       *)
LEMMA EndsWell ==
  ASSUME NEW T \in AnyTokens, NEW t \in AnyToken, t.type = "EOF", InPlace(T),
         \A k \in 1..Len(T) : T[k].type \notin {"EOF", "ERROR"},
         NEW s, StackOf(T, 0, s), ~WordAt(T, Len(T))
  PROVE  WellFormed(Append(T, t))
<1> DEFINE U == Append(T, t)
           n == Len(T)
<1>1. /\ U \in AnyTokens /\ Len(U) = n + 1 /\ U[n + 1] = t /\ StartsWith(U, T) /\ n \in Nat
      /\ \A k \in 1..n : U[k] = T[k]
  BY AppendStartsWith, TokensAre DEF StartsWith
<1>2. /\ Level(U, n + 1) = 0 /\ Level(U, Len(U) + 1) = 0
      /\ \A k \in 1..(Len(U) + 1) : Level(U, k) >= 0
  <2>1. Level(U, Len(U) + 1) = 0 /\ Level(U, n + 1) = 0
    BY LevelsGrow
  <2>2. \A k \in 1..(Len(U) + 1) : Level(U, k) >= 0
    BY <2>1, LevelsGrow
  <2> QED
    BY <2>1, <2>2
<1>3. InPlace(U)
  BY InPlaceGrows
<1> HIDE DEF U
<1>4. DOMAIN U = 1..(n + 1)
  BY <1>1, TokensAre
<1>5. ASSUME NEW k \in DOMAIN U
      PROVE  /\ U[k].type # "ERROR"
             /\ U[k].type \in {"STATEMENT_END", "START_BLOCK"} => WordAt(U, k - 1)
             /\ U[k].type \in {"END_BLOCK", "EOF"} => ~WordAt(U, k - 1)
             /\ Level(U, k + 1) >= 0
  <2>1. /\ U[k].type \in {"STATEMENT_END", "START_BLOCK"} => WordAt(U, k - 1)
        /\ U[k].type = "END_BLOCK" => ~WordAt(U, k - 1)
    BY <1>1, <1>3, <1>4 DEF InPlace
  <2>2. Level(U, k + 1) >= 0
    <3>1. k + 1 \in 1..(Len(U) + 1)
      BY <1>1, <1>4
    <3> QED
      BY <1>2, <3>1
  <2>3. CASE k \in 1..n
    BY <1>1, <2>1, <2>2, <2>3
  <2>4. CASE k = n + 1
    <3>1. U[k] = t /\ k - 1 = n
      BY <1>1, <2>4
    <3>2. ~WordAt(U, n)
      <4>1. n \in Int /\ n <= Len(T)
        BY <1>1
      <4> QED
        BY <1>1, <4>1, WordAgrees
    <3> QED
      BY <2>1, <2>2, <3>1, <3>2
  <2> QED
    BY <1>1, <1>4, <2>3, <2>4
<1> QED
  BY <1>1, <1>2, <1>5 DEF WellFormed, U

(* Whatever follows, a token out of place stays out of place.              *)
LEMMA StaysBad ==
  ASSUME NEW T \in AnyTokens, NEW t \in AnyToken, NEW W \in AnyTokens,
         StartsWith(W, Append(T, t)), WellFormed(W)
  PROVE  /\ t.type # "ERROR"
         /\ t.type \in {"STATEMENT_END", "START_BLOCK"} => WordAt(T, Len(T))
         /\ t.type \in {"END_BLOCK", "EOF"} => ~WordAt(T, Len(T))
         /\ t.type = "END_BLOCK" => Level(T, Len(T) + 1) >= 1
<1> DEFINE U == Append(T, t)
           n == Len(T)
<1>1. /\ U \in AnyTokens /\ Len(U) = n + 1 /\ U[n + 1] = t /\ StartsWith(U, T) /\ n \in Nat
  BY AppendStartsWith, TokensAre
<1> HIDE DEF U
<1>2. /\ n + 1 \in DOMAIN W /\ W[n + 1] = t /\ Len(W) >= n + 1 /\ Len(W) \in Nat
      /\ \A k \in 1..(n + 1) : W[k] = U[k]
  <2>1. Len(W) \in Nat /\ DOMAIN W = 1..Len(W)
    BY TokensAre
  <2>2. Len(W) >= n + 1 /\ \A k \in 1..(n + 1) : W[k] = U[k]
    BY <1>1 DEF StartsWith, U
  <2> QED
    BY <1>1, <2>1, <2>2
<1>3. StartsWith(W, T)
  BY <1>1, <1>2 DEF StartsWith
<1>4. WordAt(W, n) <=> WordAt(T, n)
  <2>1. n \in Int /\ n <= Len(T)
    BY <1>1
  <2> QED
    BY <1>3, <2>1, WordAgrees
<1>5. (n + 1) - 1 = n
  BY <1>1
<1>6. /\ t.type # "ERROR"
      /\ t.type \in {"STATEMENT_END", "START_BLOCK"} => WordAt(W, n)
      /\ t.type \in {"END_BLOCK", "EOF"} => ~WordAt(W, n)
      /\ Level(W, (n + 1) + 1) >= 0
  BY <1>2, <1>5 DEF WellFormed
<1>7. t.type = "END_BLOCK" => Level(T, n + 1) >= 1
  <2> SUFFICES ASSUME t.type = "END_BLOCK" PROVE Level(T, n + 1) >= 1
    OBVIOUS
  <2>1. Level(W, n + 1) = Level(T, n + 1)
    <3>1. n + 1 \in 1..(Len(T) + 1)
      BY <1>1
    <3> QED
      BY <1>3, <3>1, LevelAgrees
  <2>2. Level(W, (n + 1) + 1) = Level(W, n + 1) - 1 /\ Level(W, n + 1) \in Int
    <3>1. n + 1 \in 1..Len(W)
      BY <1>1, <1>2
    <3> QED
      BY <1>2, <3>1, LevelGrows
  <2> QED
    BY <1>6, <2>1, <2>2
<1> QED
  BY <1>4, <1>6, <1>7

LEMMA StaysTouching ==
  ASSUME NEW T \in AnyTokens, NEW t \in AnyToken, NEW rest \in AnyTokens,
         WordAt(T, Len(T)), IsWord(t)
  PROVE  ~Apart(Append(T, t) \o rest)
<1> DEFINE U == Append(T, t)
           all == U \o rest
           n == Len(T)
<1>1. /\ U \in AnyTokens /\ Len(U) = n + 1 /\ U[n + 1] = t /\ n \in Nat
      /\ \A k \in 1..n : U[k] = T[k]
  BY AppendStartsWith, TokensAre DEF StartsWith
<1> HIDE DEF U
<1>2. Len(all) = (n + 1) + Len(rest) /\ Len(rest) \in Nat /\ \A k \in 1..(n + 1) : all[k] = U[k]
  <2>1. Len(rest) \in Nat
    BY TokensAre
  <2>2. U \in Seq(AnyToken) /\ rest \in Seq(AnyToken)
    BY <1>1 DEF AnyTokens
  <2>3. Len(all) = Len(U) + Len(rest)
    BY <2>2, ConcatProperties
  <2>4. \A i \in 1..(Len(U) + Len(rest)) : all[i] = IF i <= Len(U) THEN U[i] ELSE rest[i - Len(U)]
    BY <2>2, ConcatProperties
  <2> HIDE DEF all
  <2>5. \A k \in 1..(n + 1) : all[k] = U[k]
    BY <1>1, <2>1, <2>4
  <2> QED
    BY <1>1, <2>1, <2>3, <2>5
<1>3. n \in 1..n /\ IsWord(T[n])
  BY TokensAre DEF WordAt
<1> HIDE DEF all
<1>4. n + 1 \in 2..Len(all) /\ (n + 1) - 1 = n
  BY <1>1, <1>2, <1>3
<1>5. all[n] = T[n] /\ all[n + 1] = t
  BY <1>1, <1>2, <1>3
<1>6. ~Apart(all)
  BY <1>3, <1>4, <1>5 DEF Apart
<1> QED
  BY <1>6 DEF all, U

(* The meaningful tokens of the text begin with those read and the next.   *)
LEMMA MeaningfulFront ==
  ASSUME NEW text \in AnyText, NEW p \in Place, NEW before, FirstTokens(text, p, before),
         ParseToken(text, p).type \notin {"COMMENT", "WHITESPACE"}
  PROVE  LET t == ParseToken(text, p)
             W == Meaningful(TokensFrom(text, 1))
             U == Append(Meaningful(before), t)
         IN  W \in AnyTokens /\ StartsWith(W, U) /\ (Ends(t) => W = U)
<1> DEFINE t == ParseToken(text, p)
           after == Append(before, t)
           U == Append(Meaningful(before), t)
<1>1. PICK rest \in AnyTokens : TokensFrom(text, 1) = after \o rest /\ (Ends(t) => rest = << >>)
  BY AllTokensAre
<1>2. t \in AnyToken /\ before \in AnyTokens
  BY AllTokensAre DEF FirstTokens
<1>3. t.type \notin {"COMMENT", "WHITESPACE"}
  OBVIOUS
<1> HIDE DEF t
<1>4. after \in AnyTokens
  BY <1>2, AppendStartsWith
<1>5. Meaningful(after) = U
  BY <1>2, <1>3, MeaningfulGrows DEF AnyTokens
<1>6. U \in AnyTokens
  BY <1>4, <1>5, MeaningfulIs
<1> HIDE DEF after, U
<1>7. after \o rest \in AnyTokens
  BY <1>4, ConcatProperties DEF AnyTokens
<1>8. Meaningful(after \o rest) \in AnyTokens
  BY <1>7, MeaningfulIs
<1>9. StartsWith(Meaningful(after \o rest), U)
  BY <1>4, <1>5, MeaningfulIsPrefix DEF StartsWith, AnyTokens
<1>10. Ends(t) => Meaningful(after \o rest) = U
  <2> SUFFICES ASSUME Ends(t) PROVE Meaningful(after \o rest) = U
    OBVIOUS
  <2>1. after \o << >> = after
    BY <1>4, ConcatEmptySeq DEF AnyTokens
  <2> QED
    BY <1>1, <1>5, <2>1, Zenon
<1>11. TokensFrom(text, 1) = after \o rest
  BY <1>1
<1> QED
  BY <1>8, <1>9, <1>10, <1>11, Zenon DEF U, t

-----------------------------------------------------------------------------
(* Blocks as parts of the text: which tokens are in which, and the words   *)
(* that head them.                                                         *)

(* Token o opens a block; 0 stands for the configuration itself.           *)
Brace(T, o) == o = 0 \/ (o \in 1..Len(T) /\ T[o].type = "START_BLOCK")

(* Token k is in the block that o opens, or in a block in it.              *)
Within(T, o, k) ==
  /\ k \in (o + 1)..Len(T)
  /\ \A j \in (o + 1)..k : Level(T, j) >= Level(T, o + 1)

(* Every token is at its place and no brace closes what is not open.       *)
Balanced(T) ==
  /\ T \in AnyTokens /\ InPlace(T)
  /\ \A k \in 1..(Len(T) + 1) : Level(T, k) >= 0

LEMMA BraceLevel ==
  ASSUME NEW T \in AnyTokens, NEW o, Brace(T, o)
  PROVE  /\ o \in 0..Len(T) /\ o \in Nat /\ Level(T, o + 1) \in Int
         /\ o = 0 => Level(T, o + 1) = 0
         /\ o # 0 => /\ o \in 1..Len(T) /\ T[o].type = "START_BLOCK" /\ ~IsWord(T[o])
                     /\ Level(T, o) \in Int /\ Level(T, o + 1) = Level(T, o) + 1
<1>1. Len(T) \in Nat
  BY TokensAre
<1>2. CASE o = 0
  BY <1>1, <1>2, NoLevel
<1>3. CASE o # 0
  <2>1. o \in 1..Len(T) /\ T[o].type = "START_BLOCK"
    BY <1>3 DEF Brace
  <2>2. ~IsWord(T[o])
    BY <2>1 DEF IsWord, Words
  <2> QED
    BY <1>1, <1>3, <2>1, <2>2, LevelGrows
<1> QED
  BY <1>2, <1>3

(* Where the level gets above d, a brace opens at d.                       *)
LEMMA LevelRises ==
  ASSUME NEW T \in AnyTokens, NEW d \in Int, NEW k \in 1..(Len(T) + 1), NEW j \in 1..k,
         Level(T, j) <= d, Level(T, k) > d
  PROVE  \E i \in j..(k - 1) : /\ i \in 1..Len(T) /\ T[i].type = "START_BLOCK" /\ Level(T, i) = d
                               /\ \A l \in (i + 1)..k : Level(T, l) > d
<1>1. Len(T) \in Nat /\ \A l \in 1..(Len(T) + 1) : Level(T, l) \in Int
  BY TokensAre, LevelsAreNumbers
<1> DEFINE S == {l \in j..k : Level(T, l) <= d}
<1>2. S \in SUBSET Int /\ S # {} /\ k \in Int /\ \A x \in S : x <= k
  BY <1>1
<1>3. PICK i \in S : \A l \in S : l <= i
  <2> HIDE DEF S
  <2> QED
    BY <1>2, GreatestInteger
<1>4. i \in j..k /\ Level(T, i) <= d
  OBVIOUS
<1>5. i # k /\ i \in j..(k - 1) /\ i \in 1..Len(T) /\ i + 1 \in 1..(Len(T) + 1)
  BY <1>1, <1>4
<1>6. ASSUME NEW l \in (i + 1)..k PROVE Level(T, l) > d
  <2>1. l \in j..k /\ ~(l <= i) /\ l \in 1..(Len(T) + 1)
    BY <1>1, <1>4
  <2>2. Level(T, l) \in Int
    BY <1>1, <2>1
  <2> QED
    BY <1>3, <2>1, <2>2
<1> HIDE DEF S
<1>7. Level(T, i + 1) > d
  <2>1. i + 1 \in (i + 1)..k
    BY <1>5
  <2> QED
    BY <1>6, <2>1
<1>8. T[i].type = "START_BLOCK" /\ Level(T, i) = d
  <2>1. /\ Level(T, i) \in Int /\ Level(T, i + 1) \in Int
        /\ T[i].type \notin {"START_BLOCK", "END_BLOCK"} => Level(T, i + 1) = Level(T, i)
        /\ T[i].type = "START_BLOCK" => Level(T, i + 1) = Level(T, i) + 1
        /\ T[i].type = "END_BLOCK" => Level(T, i + 1) = Level(T, i) - 1
    BY <1>5, LevelGrows
  <2> QED
    BY <1>4, <1>7, <2>1
<1> QED
  BY <1>5, <1>6, <1>8

LEMMA BraceNumbers ==
  ASSUME NEW T \in AnyTokens, NEW o, NEW p, Brace(T, o), Brace(T, p), o < p
  PROVE  BlockOpenedAt(T, o) < BlockOpenedAt(T, p) /\ BlockOpenedAt(T, o) \in Nat /\ BlockOpenedAt(T, o) >= 1
<1>1. o \in Nat /\ p \in Nat /\ p # 0 /\ p - 1 \in Nat /\ (p - 1) + 1 = p /\ o <= p - 1
  BY BraceLevel
<1>2. T[(p - 1) + 1].type = "START_BLOCK"
  BY <1>1, BraceLevel
<1>3. PICK n \in Nat : n = p - 1
  BY <1>1
<1>4. o <= n /\ T[n + 1].type = "START_BLOCK" /\ n + 1 = p
  BY <1>1, <1>2, <1>3
<1>5. /\ BlockOpenedAt(T, n) \in Nat /\ BlockOpenedAt(T, o) >= 1
      /\ BlockOpenedAt(T, o) <= BlockOpenedAt(T, n)
      /\ BlockOpenedAt(T, n + 1) = BlockOpenedAt(T, n) + 1
  BY <1>1, <1>4, BlocksAreNumbered
<1>6. BlockOpenedAt(T, o) \in Nat
  <2>1. o <= o
    BY <1>1
  <2> QED
    BY <1>1, <2>1, BlocksAreNumbered
<1> QED
  BY <1>4, <1>5, <1>6

LEMMA BracesDiffer ==
  ASSUME NEW T \in AnyTokens, NEW o, NEW p, Brace(T, o), Brace(T, p),
         BlockOpenedAt(T, o) = BlockOpenedAt(T, p)
  PROVE  o = p
<1>1. o \in Nat /\ p \in Nat
  BY BraceLevel
<1>2. ~(o < p)
  BY BraceNumbers
<1>3. ~(p < o)
  BY BraceNumbers
<1> QED
  BY <1>1, <1>2, <1>3

(* Every block has its brace.                                              *)
LEMMA BraceOfBlock ==
  ASSUME NEW T \in AnyTokens, NEW b \in 1..BlockOpenedAt(T, Len(T))
  PROVE  \E o : Brace(T, o) /\ BlockOpenedAt(T, o) = b
<1> DEFINE Good == {n \in Nat : n <= Len(T) =>
                      \A c \in 1..BlockOpenedAt(T, n) : \E o : Brace(T, o) /\ BlockOpenedAt(T, o) = c}
<1>0. Len(T) \in Nat
  BY TokensAre
<1>1. 0 \in Good
  <2>1. BlockOpenedAt(T, 0) = 1
    BY BlocksAreNumbered
  <2>2. Brace(T, 0)
    BY DEF Brace
  <2>3. \A c \in 1..1 : c = 1
    OBVIOUS
  <2>4. \A c \in 1..BlockOpenedAt(T, 0) : c = BlockOpenedAt(T, 0)
    BY <2>1, <2>3
  <2> QED
    BY <2>2, <2>4
<1>2. ASSUME NEW n \in Nat, n \in Good PROVE n + 1 \in Good
  <2> SUFFICES ASSUME n + 1 <= Len(T), NEW c \in 1..BlockOpenedAt(T, n + 1)
               PROVE  \E o : Brace(T, o) /\ BlockOpenedAt(T, o) = c
    OBVIOUS
  <2>1. /\ BlockOpenedAt(T, n) \in Nat
        /\ T[n + 1].type # "START_BLOCK" => BlockOpenedAt(T, n + 1) = BlockOpenedAt(T, n)
        /\ T[n + 1].type = "START_BLOCK" => BlockOpenedAt(T, n + 1) = BlockOpenedAt(T, n) + 1
    <3>1. n <= n
      OBVIOUS
    <3> QED
      BY <3>1, BlocksAreNumbered
  <2>2. \A e \in 1..BlockOpenedAt(T, n) : \E o : Brace(T, o) /\ BlockOpenedAt(T, o) = e
    BY <1>0, <1>2
  <2>3. CASE c \in 1..BlockOpenedAt(T, n)
    BY <2>2, <2>3
  <2>4. CASE c \notin 1..BlockOpenedAt(T, n)
    <3>1. T[n + 1].type = "START_BLOCK" /\ c = BlockOpenedAt(T, n + 1)
      BY <2>1, <2>4
    <3>2. Brace(T, n + 1)
      BY <1>0, <3>1 DEF Brace
    <3> QED
      BY <3>1, <3>2
  <2> QED
    BY <2>3, <2>4
<1>3. Len(T) \in Good
  <2> HIDE DEF Good
  <2> QED
    BY <1>0, <1>1, <1>2, SetInduction
<1> QED
  BY <1>0, <1>3

(* Every token is in the block around it, at its level.                    *)
LEMMA BraceAround ==
  ASSUME NEW T, Balanced(T), NEW k \in 1..Len(T)
  PROVE  \E o : /\ Brace(T, o) /\ Within(T, o, k) /\ Level(T, k) = Level(T, o + 1)
                /\ BlockAround(T, k) = BlockOpenedAt(T, o)
<1>0. /\ T \in AnyTokens /\ Len(T) \in Nat
      /\ \A l \in 1..(Len(T) + 1) : Level(T, l) \in Int /\ Level(T, l) >= 0
  BY TokensAre, LevelsAreNumbers DEF Balanced
<1> DEFINE open == OpenBraces(T, k)
<1>1. \A j \in open : /\ j \in 1..Len(T) /\ j < k /\ T[j].type = "START_BLOCK"
                      /\ Level(T, j) = Level(T, k) - 1
  BY <1>0 DEF OpenBraces, Places
<1>2. ASSUME NEW j \in 1..k, Level(T, j) < Level(T, k)
      PROVE  \E i \in open : j <= i
  <2>0. k \in 1..(Len(T) + 1)
    BY <1>0
  <2>1. Level(T, k) \in Int /\ Level(T, j) \in Int
    BY <1>0, <2>0
  <2>2. PICK i \in j..(k - 1) : i \in 1..Len(T) /\ T[i].type = "START_BLOCK" /\ Level(T, i) = Level(T, k) - 1
    <3>1. PICK d \in Int : d = Level(T, k) - 1
      BY <2>1
    <3>2. Level(T, j) <= d /\ Level(T, k) > d
      BY <1>2, <2>1, <3>1
    <3> QED
      BY <1>0, <2>0, <3>1, <3>2, LevelRises
  <2>3. i \in 1..(k - 1)
    BY <2>2
  <2>4. i \in open
    BY <2>2, <2>3 DEF OpenBraces, Places
  <2> QED
    BY <2>2, <2>4
<1>3. CASE open = {}
  <2>1. \A j \in 1..k : Level(T, j) >= Level(T, k)
    <3> SUFFICES ASSUME NEW j \in 1..k PROVE Level(T, j) >= Level(T, k)
      OBVIOUS
    <3>1. j \in 1..(Len(T) + 1) /\ k \in 1..(Len(T) + 1)
      BY <1>0
    <3>2. Level(T, j) \in Int /\ Level(T, k) \in Int
      BY <1>0, <3>1
    <3> QED
      BY <1>2, <1>3, <3>2
  <2>2. Level(T, k) = 0 /\ Level(T, 1) = 0
    <3>1. Level(T, 1) = 0 /\ 1 \in 1..k /\ k \in 1..(Len(T) + 1)
      BY <1>0, NoLevel
    <3>2. Level(T, 1) >= Level(T, k)
      BY <2>1, <3>1
    <3>3. Level(T, k) \in Int /\ Level(T, k) >= 0
      BY <1>0, <3>1
    <3> QED
      BY <3>1, <3>2, <3>3
  <2>3. Within(T, 0, k)
    BY <1>0, <2>1, <2>2 DEF Within
  <2>4. BlockAround(T, k) = 1 /\ BlockOpenedAt(T, 0) = 1
    <3>1. k \in 1..(Len(T) + 1)
      BY <1>0
    <3> QED
      BY <1>0, <1>3, <3>1, BlockAroundIs, BlocksAreNumbered
  <2> QED
    BY <2>2, <2>3, <2>4 DEF Brace
<1>4. CASE open # {}
  <2> DEFINE o == Max(open)
  <2>1. o \in open /\ \A j \in open : j <= o
    <3>1. open \in SUBSET Int /\ k \in Int /\ \A x \in open : x <= k
      BY <1>1
    <3> HIDE DEF open
    <3> QED
      BY <1>4, <3>1, MaxIsGreatest
  <2>2. k \in 1..(Len(T) + 1)
    BY <1>0
  <2>3. BlockAround(T, k) = BlockOpenedAt(T, o)
    BY <1>0, <1>4, <2>2, BlockAroundIs
  <2> HIDE DEF o
  <2>4. o \in 1..Len(T) /\ o < k /\ T[o].type = "START_BLOCK" /\ Level(T, o) = Level(T, k) - 1
    BY <1>1, <2>1
  <2>5. Brace(T, o)
    BY <2>4 DEF Brace
  <2>6. Level(T, o + 1) = Level(T, k) /\ Level(T, k) \in Int
    <3>1. Level(T, k) \in Int
      BY <1>0, <2>2
    <3>2. Level(T, o + 1) = Level(T, o) + 1
      BY <1>0, <2>4, <2>5, BraceLevel
    <3> QED
      BY <2>4, <3>1, <3>2
  <2>7. Within(T, o, k)
    <3>1. ASSUME NEW j \in (o + 1)..k PROVE Level(T, j) >= Level(T, k)
      <4>1. j \in 1..k /\ j > o /\ j \in 1..(Len(T) + 1)
        BY <1>0, <2>4
      <4>2. Level(T, j) \in Int
        BY <1>0, <4>1
      <4>3. \A i \in open : i \in Int /\ ~(j <= i)
        BY <1>1, <2>1, <4>1
      <4> QED
        BY <1>2, <2>6, <4>1, <4>2, <4>3
    <3> QED
      BY <1>0, <2>4, <2>6, <3>1 DEF Within
  <2> QED
    BY <2>3, <2>5, <2>6, <2>7
<1> QED
  BY <1>3, <1>4

LEMMA AroundIffWithin ==
  ASSUME NEW T, Balanced(T), NEW o, Brace(T, o), NEW k \in 1..Len(T)
  PROVE  BlockAround(T, k) = BlockOpenedAt(T, o)
           <=> Within(T, o, k) /\ Level(T, k) = Level(T, o + 1)
<1>0. T \in AnyTokens /\ Len(T) \in Nat
  BY TokensAre DEF Balanced
<1>1. PICK p : /\ Brace(T, p) /\ Within(T, p, k) /\ Level(T, k) = Level(T, p + 1)
               /\ BlockAround(T, k) = BlockOpenedAt(T, p)
  BY BraceAround
<1>2. ASSUME BlockAround(T, k) = BlockOpenedAt(T, o)
      PROVE  Within(T, o, k) /\ Level(T, k) = Level(T, o + 1)
  <2>1. o = p
    BY <1>0, <1>1, <1>2, BracesDiffer
  <2> QED
    BY <1>1, <2>1
<1>3. ASSUME Within(T, o, k), Level(T, k) = Level(T, o + 1)
      PROVE  BlockAround(T, k) = BlockOpenedAt(T, o)
  <2>1. /\ o \in Nat /\ p \in Nat
        /\ o # 0 => Level(T, o) \in Int /\ Level(T, o + 1) = Level(T, o) + 1
        /\ p # 0 => Level(T, p) \in Int /\ Level(T, p + 1) = Level(T, p) + 1
    BY <1>0, <1>1, BraceLevel
  <2>2. ~(p < o)
    <3> SUFFICES ASSUME p < o PROVE FALSE
      OBVIOUS
    <3>1. o \in (p + 1)..k /\ o # 0
      BY <1>3, <2>1 DEF Within
    <3>2. Level(T, o) >= Level(T, p + 1)
      BY <1>1, <3>1 DEF Within
    <3> QED
      BY <1>1, <1>3, <2>1, <3>1, <3>2
  <2>3. ~(o < p)
    <3> SUFFICES ASSUME o < p PROVE FALSE
      OBVIOUS
    <3>1. p \in (o + 1)..k /\ p # 0
      BY <1>1, <2>1 DEF Within
    <3>2. Level(T, p) >= Level(T, o + 1)
      BY <1>3, <3>1 DEF Within
    <3> QED
      BY <1>1, <1>3, <2>1, <3>1, <3>2
  <2>4. o = p
    BY <2>1, <2>2, <2>3
  <2> QED
    BY <1>1, <2>4
<1> QED
  BY <1>2, <1>3

(* Words leave the level as it is.                                         *)
LEMMA WordsKeepLevel ==
  ASSUME NEW T \in AnyTokens, NEW k \in 1..Len(T), NEW m \in k..Len(T), \A i \in k..m : IsWord(T[i])
  PROVE  \A i \in k..(m + 1) : Level(T, i) = Level(T, k)
<1> DEFINE Good == {n \in Nat : k + n <= m + 1 => Level(T, k + n) = Level(T, k)}
<1>0. Len(T) \in Nat /\ k \in Nat /\ m \in Nat
  BY TokensAre
<1>1. 0 \in Good
  BY <1>0
<1>2. ASSUME NEW n \in Nat, n \in Good PROVE n + 1 \in Good
  <2> SUFFICES ASSUME k + (n + 1) <= m + 1 PROVE Level(T, k + (n + 1)) = Level(T, k)
    OBVIOUS
  <2>1. PICK i \in k..m : i = k + n
    BY <1>0
  <2>2. i \in 1..Len(T) /\ IsWord(T[i]) /\ Level(T, i) = Level(T, k) /\ k + (n + 1) = i + 1
    BY <1>0, <1>2, <2>1
  <2>3. T[i].type \notin {"START_BLOCK", "END_BLOCK"}
    BY <2>2 DEF IsWord, Words
  <2>4. Level(T, i + 1) = Level(T, i)
    BY <2>2, <2>3, LevelGrows
  <2> QED
    BY <2>2, <2>4
<1>3. Nat \subseteq Good
  <2> HIDE DEF Good
  <2> QED
    BY <1>1, <1>2, SetInduction
<1> SUFFICES ASSUME NEW i \in k..(m + 1) PROVE Level(T, i) = Level(T, k)
  OBVIOUS
<1>4. i - k \in Nat /\ k + (i - k) = i
  BY <1>0
<1> QED
  BY <1>0, <1>3, <1>4

(* The statement that begins at a has a block, and brace q opens it.       *)
Heads(T, a, q) == Begins(T, a) /\ q = LastWord(T, a) + 1 /\ q # 0 /\ Brace(T, q)

LEMMA HeadIs ==
  ASSUME NEW T \in AnyTokens, NEW a \in 1..Len(T), NEW q, Heads(T, a, q)
  PROVE  /\ q \in 1..Len(T) /\ a < q /\ a \in Nat /\ q \in Nat /\ \A i \in a..(q - 1) : IsWord(T[i])
         /\ \A i \in a..q : Level(T, i) = Level(T, a)
         /\ Level(T, a) \in Int /\ Level(T, q + 1) = Level(T, a) + 1
<1>0. Len(T) \in Nat
  BY TokensAre
<1>1. IsWord(T[a]) /\ Brace(T, q) /\ q # 0
  BY DEF Heads, Begins
<1>2. q \in 1..Len(T) /\ Level(T, q) \in Int /\ Level(T, q + 1) = Level(T, q) + 1
  BY <1>1, BraceLevel
<1>3. LastWord(T, a) \in a..Len(T) /\ \A i \in a..LastWord(T, a) : IsWord(T[i])
  BY <1>1, RunOfWords
<1>4. PICK m \in a..Len(T) : q = m + 1 /\ \A i \in a..m : IsWord(T[i])
  BY <1>3 DEF Heads
<1>5. \A i \in a..(m + 1) : Level(T, i) = Level(T, a)
  BY <1>4, WordsKeepLevel
<1>6. q \in a..(m + 1) /\ a < q /\ q - 1 = m
  BY <1>0, <1>4
<1> QED
  BY <1>0, <1>2, <1>4, <1>5, <1>6

(* Above every statement in a block, in the innermost or not, there is one *)
(* that is in the block itself.                                            *)
LEMMA Ancestor ==
  ASSUME NEW T, Balanced(T), NEW o, Brace(T, o), NEW k \in 1..Len(T), Begins(T, k), Within(T, o, k)
  PROVE  \E a \in 1..k : /\ Begins(T, a) /\ BlockAround(T, a) = BlockOpenedAt(T, o)
                         /\ a = k \/ \E q : Heads(T, a, q) /\ Within(T, q, k)
<1>0. /\ T \in AnyTokens /\ Len(T) \in Nat /\ DOMAIN T = 1..Len(T)
      /\ \A l \in 1..(Len(T) + 1) : Level(T, l) \in Int
  BY TokensAre, LevelsAreNumbers DEF Balanced
<1> DEFINE d == Level(T, o + 1)
<1>1. o \in Nat /\ d \in Int /\ o < k /\ o + 1 \in 1..k /\ k \in 1..(Len(T) + 1)
  BY <1>0, BraceLevel DEF Within
<1>2. Level(T, k) \in Int /\ Level(T, k) >= d
  <2>1. k \in (o + 1)..k
    BY <1>1
  <2> QED
    BY <1>0, <1>1, <2>1 DEF Within
<1>3. CASE Level(T, k) = d
  BY <1>3, AroundIffWithin
<1>4. CASE Level(T, k) # d
  <2>1. Level(T, k) > d /\ Level(T, o + 1) <= d
    BY <1>1, <1>2, <1>4
  <2> HIDE DEF d
  <2>2. PICK q \in (o + 1)..(k - 1) : /\ q \in 1..Len(T) /\ T[q].type = "START_BLOCK" /\ Level(T, q) = d
                                      /\ \A l \in (q + 1)..k : Level(T, l) > d
    BY <1>0, <1>1, <2>1, LevelRises
  <2>3. q # 0 /\ q \in Nat /\ Brace(T, q) /\ Level(T, q + 1) = d + 1
    <3>1. q # 0 /\ q \in Nat /\ Brace(T, q)
      BY <2>2 DEF Brace
    <3> QED
      BY <1>0, <2>2, <3>1, BraceLevel
  <2>4. Within(T, q, k)
    <3>1. ASSUME NEW l \in (q + 1)..k PROVE Level(T, l) >= d + 1
      <4>1. l \in 1..(Len(T) + 1)
        BY <1>0, <2>2
      <4>2. Level(T, l) \in Int
        BY <1>0, <4>1
      <4> QED
        BY <1>1, <2>2, <4>2
    <3>2. k \in (q + 1)..Len(T)
      BY <1>0, <1>1, <2>2
    <3> QED
      BY <2>3, <3>1, <3>2 DEF Within
  <2>5. WordAt(T, q - 1)
    BY <2>2 DEF Balanced, InPlace
  <2>6. q - 1 \in 1..Len(T) /\ IsWord(T[q - 1])
    BY <1>0, <2>5 DEF WordAt
  <2> DEFINE S == {j \in 1..(q - 1) : \A i \in j..(q - 1) : IsWord(T[i])}
  <2>7. q - 1 \in S /\ S \in SUBSET Nat
    BY <2>3, <2>6
  <2>8. PICK a \in S : \A j \in S : a <= j
    <3> HIDE DEF S
    <3> QED
      BY <2>7, LeastNatural
  <2>9. a \in 1..(q - 1) /\ a \in 1..Len(T) /\ \A i \in a..(q - 1) : IsWord(T[i])
    BY <2>6, <2>8
  <2>10. ~WordAt(T, a - 1)
    <3> SUFFICES ASSUME WordAt(T, a - 1) PROVE FALSE
      OBVIOUS
    <3>1. a - 1 \in 1..(q - 1) /\ IsWord(T[a - 1])
      BY <1>0, <2>9 DEF WordAt
    <3>2. ASSUME NEW i \in (a - 1)..(q - 1) PROVE IsWord(T[i])
      <4>1. i = a - 1 \/ i \in a..(q - 1)
        BY <2>9, <3>1
      <4> QED
        BY <2>9, <3>1, <4>1
    <3>3. a - 1 \in S
      BY <3>1, <3>2
    <3> QED
      BY <2>8, <2>9, <3>3
  <2> HIDE DEF S
  <2>11. Begins(T, a)
    <3>1. a \in a..(q - 1)
      BY <2>9
    <3> QED
      BY <2>9, <2>10, <3>1 DEF Begins
  <2>12. LastWord(T, a) = q - 1 /\ q = LastWord(T, a) + 1
    <3>1. PICK m \in a..Len(T) : m = q - 1
      BY <2>6, <2>9
    <3>2. m + 1 = q /\ \A i \in a..m : IsWord(T[i])
      BY <2>3, <2>9, <3>1
    <3>3. ~WordAt(T, m + 1)
      BY <1>0, <2>3, <3>2, BraceLevel DEF WordAt
    <3>4. LastWord(T, a) = m
      BY <1>0, <2>9, <3>1, <3>2, <3>3, LastWordIs
    <3> QED
      BY <2>3, <3>1, <3>4
  <2>13. Heads(T, a, q)
    BY <2>3, <2>11, <2>12 DEF Heads
  <2>14. o < a
    <3> SUFFICES ASSUME ~(o < a) PROVE FALSE
      OBVIOUS
    <3>1. o \in a..(q - 1) /\ o # 0
      BY <1>1, <2>2, <2>9
    <3> QED
      BY <1>0, <2>9, <3>1, BraceLevel
  <2>15. Level(T, a) = d
    <3>1. a < q /\ a \in Nat /\ \A i \in a..q : Level(T, i) = Level(T, a)
      BY <1>0, <2>9, <2>13, HeadIs
    <3>2. q \in a..q
      BY <2>3, <3>1
    <3> QED
      BY <2>2, <3>1, <3>2
  <2>16. Within(T, o, a)
    <3>1. a \in (o + 1)..Len(T) /\ a < k
      BY <1>1, <2>2, <2>9, <2>14
    <3>2. \A j \in (o + 1)..a : j \in (o + 1)..k
      BY <1>1, <3>1
    <3> QED
      BY <3>1, <3>2 DEF Within
  <2>17. BlockAround(T, a) = BlockOpenedAt(T, o)
    BY <2>9, <2>15, <2>16, AroundIffWithin DEF d
  <2>18. a \in 1..k
    BY <2>2, <2>9
  <2> QED
    BY <2>4, <2>11, <2>13, <2>17, <2>18
<1> QED
  BY <1>3, <1>4

(* What is in the block of a statement is in the block of that statement,  *)
(* behind it, and in front of the next one.                                *)
LEMMA Descends ==
  ASSUME NEW T, Balanced(T), NEW o, Brace(T, o), NEW a \in 1..Len(T),
         BlockAround(T, a) = BlockOpenedAt(T, o), NEW q, Heads(T, a, q), NEW k, Within(T, q, k)
  PROVE  /\ Within(T, o, k) /\ a < k /\ k \in 1..Len(T)
         /\ \A c \in 1..Len(T) : Begins(T, c) /\ BlockAround(T, c) = BlockOpenedAt(T, o) =>
              c <= a \/ k < c
<1>0. T \in AnyTokens /\ Len(T) \in Nat
  BY TokensAre DEF Balanced
<1> DEFINE d == Level(T, o + 1)
<1>1. Within(T, o, a) /\ Level(T, a) = d
  BY AroundIffWithin
<1>2. /\ q \in 1..Len(T) /\ a < q /\ a \in Nat /\ q \in Nat /\ \A i \in a..(q - 1) : IsWord(T[i])
      /\ \A i \in a..q : Level(T, i) = d
      /\ d \in Int /\ Level(T, q + 1) = d + 1
  BY <1>0, <1>1, HeadIs
<1>3. o \in Nat /\ \A j \in (o + 1)..a : Level(T, j) >= d
  BY <1>0, <1>1, BraceLevel DEF Within
<1>4. k \in (q + 1)..Len(T) /\ \A j \in (q + 1)..k : Level(T, j) >= d + 1
  BY <1>2 DEF Within
<1>5. a \in (o + 1)..Len(T)
  BY <1>1 DEF Within
<1> HIDE DEF d
<1>6. ASSUME NEW j \in (o + 1)..k PROVE Level(T, j) >= d
  <2>1. j \in (o + 1)..a \/ j \in a..q \/ j \in (q + 1)..k
    BY <1>2, <1>3, <1>4, <1>5
  <2>2. ASSUME j \in (q + 1)..k PROVE Level(T, j) >= d
    <3>1. j \in 1..(Len(T) + 1)
      BY <1>0, <1>2, <1>4, <2>2
    <3>2. Level(T, j) \in Int
      BY <1>0, <3>1, LevelsAreNumbers
    <3> QED
      BY <1>2, <1>4, <2>2, <3>2
  <2>3. ASSUME j \in a..q PROVE Level(T, j) >= d
    BY <1>2, <2>3
  <2> QED
    BY <1>3, <2>1, <2>2, <2>3
<1>7. Within(T, o, k)
  BY <1>2, <1>3, <1>4, <1>5, <1>6 DEF Within, d
<1>8. ASSUME NEW c \in 1..Len(T), Begins(T, c), BlockAround(T, c) = BlockOpenedAt(T, o)
      PROVE  c <= a \/ k < c
  <2> SUFFICES ASSUME ~(c <= a), ~(k < c) PROVE FALSE
    OBVIOUS
  <2>1. Level(T, c) = d
    BY <1>8, AroundIffWithin DEF d
  <2>2. c - 1 \in a..(q - 1) \/ c \in (q + 1)..k
    BY <1>2, <1>4
  <2>3. CASE c - 1 \in a..(q - 1)
    <3>1. IsWord(T[c - 1]) /\ c - 1 \in DOMAIN T
      BY <1>0, <1>2, <2>3, TokensAre
    <3> QED
      BY <1>8, <3>1 DEF Begins, WordAt
  <2>4. CASE c \in (q + 1)..k
    BY <1>2, <1>4, <2>1, <2>4
  <2> QED
    BY <2>2, <2>3, <2>4
<1> QED
  BY <1>2, <1>4, <1>7, <1>8

-----------------------------------------------------------------------------
(* The search for the port.                                                *)

(* The statements that name a port, and what the one that begins at k      *)
(* names.                                                                  *)
Names(T) == {k \in 1..Len(T) : /\ Begins(T, k) /\ Len(TokensAt(T, k)) = 2
                               /\ TokensAt(T, k)[1] = <<"port">>}

PortAt(T, k) == Stoi(TokensAt(T, k)[2])

(* What the first of the statements S names.                               *)
FirstPort(T, S) ==
  IF S = {} THEN NoPort ELSE PortAt(T, CHOOSE k \in S : \A j \in S : k <= j)

LEMMA FirstPortIs ==
  ASSUME NEW T, NEW S \in SUBSET Nat, NEW k \in S, \A j \in S : k <= j
  PROVE  FirstPort(T, S) = PortAt(T, k)
<1>1. ASSUME NEW i \in S, \A j \in S : i <= j PROVE i = k
  BY <1>1
<1>2. (CHOOSE i \in S : \A j \in S : i <= j) = k
  BY <1>1
<1> QED
  BY <1>2, Zenon DEF FirstPort

(* The statement at a, those of R and those of S follow each other.        *)
InTurn(T, a, R, S) ==
  /\ a \in Nat /\ R \in SUBSET Names(T) /\ S \in SUBSET Names(T)
  /\ \A k \in R : a < k
  /\ \A k \in S : a < k
  /\ \A j \in R, k \in S : j < k

LEMMA FirstOfThree ==
  ASSUME NEW T, \A k \in Names(T) : PortAt(T, k) # NoPort,
         NEW a, NEW R, NEW S, InTurn(T, a, R, S)
  PROVE  FirstPort(T, ({a} \cap Names(T)) \union R \union S)
           = IF a \in Names(T) THEN PortAt(T, a)
             ELSE IF FirstPort(T, R) # NoPort THEN FirstPort(T, R) ELSE FirstPort(T, S)
<1> DEFINE all == ({a} \cap Names(T)) \union R \union S
<1>0. /\ a \in Nat /\ R \subseteq Names(T) /\ S \subseteq Names(T)
      /\ \A k \in R : a < k
      /\ \A k \in S : a < k
      /\ \A j \in R, k \in S : j < k
  BY Zenon DEF InTurn
<1>1. R \in SUBSET Nat /\ S \in SUBSET Nat /\ all \in SUBSET Nat
  <2>1. Names(T) \subseteq Nat
    BY DEF Names
  <2> QED
    BY <1>0, <2>1, Zenon
<1>2. CASE a \in Names(T)
  <2>1. a \in all /\ \A j \in all : a <= j
    BY <1>0, <1>1, <1>2
  <2> HIDE DEF all
  <2>2. FirstPort(T, all) = PortAt(T, a)
    BY <1>1, <2>1, FirstPortIs
  <2> QED
    BY <1>2, <2>2 DEF all
<1>3. CASE a \notin Names(T) /\ R # {}
  <2>1. PICK k \in R : \A j \in R : k <= j
    BY <1>1, <1>3, LeastNatural
  <2>2. k \in all /\ \A j \in all : k <= j
    BY <1>0, <1>1, <1>3, <2>1
  <2> HIDE DEF all
  <2>3. FirstPort(T, all) = PortAt(T, k)
    BY <1>1, <2>2, FirstPortIs
  <2>4. FirstPort(T, R) = PortAt(T, k) /\ PortAt(T, k) # NoPort
    BY <1>0, <1>1, <2>1, FirstPortIs
  <2> QED
    BY <1>3, <2>3, <2>4 DEF all
<1>4. CASE a \notin Names(T) /\ R = {}
  <2>1. all = S
    BY <1>4
  <2>2. FirstPort(T, R) = NoPort
    BY <1>4 DEF FirstPort
  <2> QED
    BY <1>4, <2>1, <2>2, Zenon
<1> QED
  BY <1>2, <1>3, <1>4

(* The statements that name a port in the block that o opens and in the    *)
(* blocks in it, from the block's i-th statement on.                       *)
NamesFrom(T, o, i) ==
  LET at == Starts(T, BlockOpenedAt(T, o))
  IN  {k \in Names(T) : Within(T, o, k) /\ i <= Len(at) /\ at[i] <= k}

LEMMA NamesOfBlock ==
  ASSUME NEW T, Balanced(T), NEW o, Brace(T, o)
  PROVE  NamesFrom(T, o, 1) = {k \in Names(T) : Within(T, o, k)}
<1> DEFINE at == Starts(T, BlockOpenedAt(T, o))
<1>0. T \in AnyTokens /\ Len(T) \in Nat
  BY TokensAre DEF Balanced
<1>1. /\ at \in Seq(Nat) /\ Len(at) \in Nat
      /\ \A i, j \in 1..Len(at) : i < j => at[i] < at[j]
      /\ \A i \in 1..Len(at) : at[i] \in 1..Len(T)
      /\ \A k \in 1..Len(T) : Begins(T, k) /\ BlockAround(T, k) = BlockOpenedAt(T, o) =>
           \E i \in 1..Len(at) : at[i] = k
  BY <1>0, StartsAre
<1>2. NamesFrom(T, o, 1) = {k \in Names(T) : Within(T, o, k) /\ 1 <= Len(at) /\ at[1] <= k}
  BY DEF NamesFrom
<1> HIDE DEF at
<1>3. ASSUME NEW k \in Names(T), Within(T, o, k) PROVE 1 <= Len(at) /\ at[1] <= k
  <2>1. k \in 1..Len(T) /\ Begins(T, k)
    BY DEF Names
  <2>2. PICK a \in 1..k : Begins(T, a) /\ BlockAround(T, a) = BlockOpenedAt(T, o)
    BY <1>3, <2>1, Ancestor
  <2>3. PICK i \in 1..Len(at) : at[i] = a
    <3>1. a \in 1..Len(T)
      BY <1>0, <2>1
    <3> QED
      BY <1>1, <2>2, <3>1
  <2>4. 1 \in 1..Len(at) /\ (i = 1 \/ 1 < i)
    BY <1>1
  <2>5. at[1] <= at[i]
    BY <1>1, <2>4
  <2>6. at[1] \in 1..Len(T)
    BY <1>1, <2>4
  <2> QED
    BY <1>0, <2>1, <2>2, <2>3, <2>4, <2>5, <2>6
<1> QED
  BY <1>2, <1>3

(* Those in the block that q opens for the statement that begins at a.     *)
NamesBelow(T, a, q) == IF Heads(T, a, q) THEN NamesFrom(T, q, 1) ELSE {}

(* The i-th statement of a block, what is in its block, and the rest.      *)
LEMMA NamesSplit ==
  ASSUME NEW T, Balanced(T), NEW o, Brace(T, o), NEW i \in Nat \ {0},
         NEW at, at = Starts(T, BlockOpenedAt(T, o)), i <= Len(at), NEW a, a = at[i],
         NEW q, q = LastWord(T, a) + 1
  PROVE  /\ NamesFrom(T, o, i)
               = ({a} \cap Names(T)) \union NamesBelow(T, a, q) \union NamesFrom(T, o, i + 1)
         /\ InTurn(T, a, NamesBelow(T, a, q), NamesFrom(T, o, i + 1))
<1> DEFINE R == NamesBelow(T, a, q)
           S == NamesFrom(T, o, i + 1)
<1>0. T \in AnyTokens /\ Len(T) \in Nat
  BY TokensAre DEF Balanced
<1>1. /\ at \in Seq(Nat) /\ Len(at) \in Nat
      /\ \A m, n \in 1..Len(at) : m < n => at[m] < at[n]
      /\ \A m \in 1..Len(at) : /\ at[m] \in 1..Len(T) /\ Begins(T, at[m])
                               /\ BlockAround(T, at[m]) = BlockOpenedAt(T, o)
      /\ \A k \in 1..Len(T) : Begins(T, k) /\ BlockAround(T, k) = BlockOpenedAt(T, o) =>
           \E m \in 1..Len(at) : at[m] = k
  BY <1>0, StartsAre
<1>2. i \in 1..Len(at) /\ a \in 1..Len(T) /\ Begins(T, a) /\ BlockAround(T, a) = BlockOpenedAt(T, o)
  BY <1>1
<1>3. NamesFrom(T, o, i) = {k \in Names(T) : Within(T, o, k) /\ a <= k}
  BY DEF NamesFrom
<1>4. /\ S \subseteq Names(T)
      /\ \A k \in Names(T) : k \in S <=> Within(T, o, k) /\ i + 1 <= Len(at) /\ at[i + 1] <= k
  BY DEF NamesFrom
<1>5. Heads(T, a, q) => R = {k \in Names(T) : Within(T, q, k)}
  <2>1. Heads(T, a, q) => Brace(T, q)
    BY DEF Heads
  <2> QED
    BY <2>1, NamesOfBlock DEF NamesBelow
<1>6. ~Heads(T, a, q) => R = {}
  BY DEF NamesBelow
<1> HIDE DEF R, S
<1>7. R \subseteq Names(T)
  BY <1>5, <1>6
<1>8. Names(T) \subseteq 1..Len(T) /\ \A k \in Names(T) : Begins(T, k)
  BY DEF Names
<1>9. ASSUME NEW k \in R
      PROVE  /\ Within(T, o, k) /\ a < k
             /\ \A c \in 1..Len(T) : Begins(T, c) /\ BlockAround(T, c) = BlockOpenedAt(T, o) =>
                  c <= a \/ k < c
  <2>1. Heads(T, a, q) /\ Within(T, q, k)
    BY <1>5, <1>6
  <2> QED
    BY <1>2, <2>1, Descends
<1>10. ASSUME NEW k \in S PROVE i + 1 \in 1..Len(at) /\ a < at[i + 1] /\ at[i + 1] <= k /\ a < k
  <2>1. i + 1 \in 1..Len(at) /\ at[i + 1] <= k
    BY <1>1, <1>4
  <2>2. at[i + 1] \in 1..Len(T) /\ at[i] < at[i + 1] /\ k \in 1..Len(T)
    BY <1>1, <1>2, <1>4, <1>8, <2>1
  <2> QED
    BY <1>2, <2>1, <2>2
<1>11. ASSUME NEW j \in R, NEW k \in S PROVE j < k
  <2>1. i + 1 \in 1..Len(at) /\ a < at[i + 1] /\ at[i + 1] <= k
    BY <1>10
  <2>2. at[i + 1] \in 1..Len(T) /\ j \in 1..Len(T) /\ k \in 1..Len(T)
    BY <1>1, <1>4, <1>7, <1>8, <2>1
  <2>3. at[i + 1] <= a \/ j < at[i + 1]
    BY <1>1, <1>9, <2>1, <2>2
  <2> QED
    BY <1>2, <2>1, <2>2, <2>3
<1>12. Within(T, o, a)
  BY <1>2, AroundIffWithin
<1>13. ASSUME NEW k \in Names(T), Within(T, o, k), a <= k, k # a, k \notin R PROVE k \in S
  <2>1. k \in 1..Len(T) /\ Begins(T, k)
    BY <1>8
  <2>2. PICK c \in 1..k : /\ Begins(T, c) /\ BlockAround(T, c) = BlockOpenedAt(T, o)
                          /\ c = k \/ \E p : Heads(T, c, p) /\ Within(T, p, k)
    BY <1>13, <2>1, Ancestor
  <2>3. c \in 1..Len(T)
    BY <1>0, <2>1
  <2>4. a <= c
    <3>1. CASE c = k
      BY <1>13, <3>1
    <3>2. CASE c # k
      <4>1. PICK p : Heads(T, c, p) /\ Within(T, p, k)
        BY <2>2, <3>2
      <4>2. a <= c \/ k < a
        BY <1>2, <2>2, <2>3, <4>1, Descends
      <4> QED
        BY <1>2, <1>13, <2>1, <4>2
    <3> QED
      BY <3>1, <3>2
  <2>5. c # a
    <3> SUFFICES ASSUME c = a PROVE FALSE
      OBVIOUS
    <3>1. PICK p : Heads(T, a, p) /\ Within(T, p, k)
      BY <1>13, <2>2
    <3>2. p = q
      BY <3>1 DEF Heads
    <3> QED
      BY <1>5, <1>13, <3>1, <3>2
  <2>6. PICK m \in 1..Len(at) : at[m] = c
    BY <1>1, <2>2, <2>3
  <2>7. i < m
    <3>1. ~(m < i)
      BY <1>1, <1>2, <2>3, <2>4, <2>5, <2>6
    <3> QED
      BY <1>1, <1>2, <2>5, <2>6, <3>1
  <2>8. i + 1 \in 1..Len(at) /\ (i + 1 = m \/ i + 1 < m)
    BY <1>1, <1>2, <2>7
  <2>9. at[i + 1] <= c
    <3>1. at[i + 1] \in 1..Len(T)
      BY <1>1, <2>8
    <3> QED
      BY <1>1, <2>3, <2>6, <2>8, <3>1
  <2>10. at[i + 1] <= k
    <3>1. at[i + 1] \in 1..Len(T)
      BY <1>1, <2>8
    <3> QED
      BY <2>1, <2>3, <2>9, <3>1
  <2> QED
    BY <1>4, <1>13, <2>8, <2>10
<1>14. NamesFrom(T, o, i) = ({a} \cap Names(T)) \union R \union S
  <2>1. ASSUME NEW k \in NamesFrom(T, o, i) PROVE k \in ({a} \cap Names(T)) \union R \union S
    BY <1>3, <1>13
  <2>2. ASSUME NEW k \in ({a} \cap Names(T)) \union R \union S PROVE k \in NamesFrom(T, o, i)
    <3>1. CASE k \in {a} \cap Names(T)
      BY <1>2, <1>3, <1>12, <3>1
    <3>2. CASE k \in R
      <4>1. k \in Names(T) /\ Within(T, o, k) /\ a < k /\ k \in 1..Len(T)
        BY <1>7, <1>8, <1>9, <3>2
      <4> QED
        BY <1>2, <1>3, <4>1
    <3>3. CASE k \in S
      <4>1. k \in Names(T) /\ Within(T, o, k) /\ a < k /\ k \in 1..Len(T)
        BY <1>4, <1>8, <1>10, <3>3
      <4> QED
        BY <1>2, <1>3, <4>1
    <3> QED
      BY <2>2, <3>1, <3>2, <3>3
  <2> QED
    BY <2>1, <2>2
<1>15. InTurn(T, a, R, S)
  BY <1>2, <1>4, <1>7, <1>9, <1>10, <1>11 DEF InTurn
<1> QED
  BY <1>14, <1>15 DEF R, S

LEMMA FirstSplits ==
  ASSUME NEW T, Balanced(T), \A k \in Names(T) : PortAt(T, k) # NoPort,
         NEW o, Brace(T, o), NEW i \in Nat \ {0},
         NEW at, at = Starts(T, BlockOpenedAt(T, o)), i <= Len(at), NEW a, a = at[i],
         NEW q, q = LastWord(T, a) + 1
  PROVE  FirstPort(T, NamesFrom(T, o, i))
           = IF a \in Names(T) THEN PortAt(T, a)
             ELSE IF FirstPort(T, NamesBelow(T, a, q)) # NoPort THEN FirstPort(T, NamesBelow(T, a, q))
             ELSE FirstPort(T, NamesFrom(T, o, i + 1))
<1> DEFINE R == NamesBelow(T, a, q)
           S == NamesFrom(T, o, i + 1)
<1>1. NamesFrom(T, o, i) = ({a} \cap Names(T)) \union R \union S /\ InTurn(T, a, R, S)
  BY NamesSplit
<1> HIDE DEF R, S
<1>2. FirstPort(T, ({a} \cap Names(T)) \union R \union S)
        = IF a \in Names(T) THEN PortAt(T, a)
          ELSE IF FirstPort(T, R) # NoPort THEN FirstPort(T, R) ELSE FirstPort(T, S)
  BY <1>1, FirstOfThree
<1> QED
  BY <1>1, <1>2, Zenon DEF R, S

BraceOf(T, b) == CHOOSE o : Brace(T, o) /\ BlockOpenedAt(T, o) = b

(* What the search answers from statement i of block b on.                 *)
Answer(T, b, i) == FirstPort(T, NamesFrom(T, BraceOf(T, b), i))

LEMMA BraceOfIs ==
  ASSUME NEW T \in AnyTokens, NEW b \in 1..Len(Tree(T))
  PROVE  Brace(T, BraceOf(T, b)) /\ BlockOpenedAt(T, BraceOf(T, b)) = b
<1>1. b \in 1..BlockOpenedAt(T, Len(T))
  BY TreeIs
<1>2. \E o : Brace(T, o) /\ BlockOpenedAt(T, o) = b
  BY <1>1, BraceOfBlock
<1> QED
  BY <1>2, Zenon DEF BraceOf

(* One turn of the search, when its other turns answer as they should.     *)
LEMMA PortFromIs ==
  ASSUME NEW T, Balanced(T), \A k \in Names(T) : PortAt(T, k) # NoPort,
         NEW b \in 1..Len(Tree(T)), NEW i \in Nat \ {0}, NEW helper,
         \A c \in (b + 1)..Len(Tree(T)) : helper[<<c, 1>>] = Answer(T, c, 1),
         i <= Len(Tree(T)[b]) => helper[<<b, i + 1>>] = Answer(T, b, i + 1)
  PROVE  PortFrom(Tree(T), helper, b, i) = Answer(T, b, i)
<1> DEFINE h == Tree(T)
           o == BraceOf(T, b)
           at == Starts(T, b)
<1>0. T \in AnyTokens /\ Len(T) \in Nat
  BY TokensAre DEF Balanced
<1>1. Brace(T, o) /\ BlockOpenedAt(T, o) = b
  BY <1>0, BraceOfIs
<1>2. /\ DOMAIN h = 1..Len(h) /\ Len(h) \in Nat
      /\ h[b] = [j \in 1..Len(at) |-> StatementAt(T, at[j])] /\ Len(h[b]) = Len(at)
  BY <1>0, TreeIs
<1>3. Len(at) \in Nat /\ \A j \in 1..Len(at) : at[j] \in 1..Len(T) /\ Begins(T, at[j])
                                               /\ BlockAround(T, at[j]) = b
  BY <1>0, StartsAre
<1>4. CASE i > Len(at)
  <2>1. NamesFrom(T, o, i) = {}
    BY <1>1, <1>3, <1>4 DEF NamesFrom
  <2>2. Answer(T, b, i) = NoPort
    BY <2>1 DEF Answer, FirstPort
  <2>3. PortFrom(h, helper, b, i) = NoPort
    BY <1>2, <1>4 DEF PortFrom
  <2> QED
    BY <2>2, <2>3
<1>5. CASE i <= Len(at)
  <2> DEFINE a == at[i]
             q == LastWord(T, a) + 1
             s == h[b][i]
             R == NamesBelow(T, a, q)
             S == NamesFrom(T, o, i + 1)
             nested == IF s.child = NoBlock THEN NoPort ELSE helper[<<s.child, 1>>]
  <2>1. i \in 1..Len(at) /\ a \in 1..Len(T) /\ Begins(T, a) /\ BlockAround(T, a) = b
    BY <1>3, <1>5
  <2>2. s = StatementAt(T, a)
    BY <1>2, <2>1
  <2>3. /\ s.tokens = TokensAt(T, a)
        /\ s.child = IF q \in DOMAIN T /\ T[q].type = "START_BLOCK" THEN BlockOpenedAt(T, q) ELSE NoBlock
    BY <2>2 DEF StatementAt, Statement
  <2>4. PICK aa, qq, oo, tt : aa = a /\ qq = q /\ oo = o /\ tt = at
    OBVIOUS
  <2>5. Answer(T, b, i) = IF a \in Names(T) THEN PortAt(T, a)
                          ELSE IF FirstPort(T, R) # NoPort THEN FirstPort(T, R) ELSE FirstPort(T, S)
    <3>1. /\ Brace(T, oo) /\ tt = Starts(T, BlockOpenedAt(T, oo)) /\ i <= Len(tt)
          /\ aa = tt[i] /\ qq = LastWord(T, aa) + 1
      BY <1>1, <1>5, <2>4
    <3>2. FirstPort(T, NamesFrom(T, oo, i)) =
            IF aa \in Names(T) THEN PortAt(T, aa)
            ELSE IF FirstPort(T, NamesBelow(T, aa, qq)) # NoPort THEN FirstPort(T, NamesBelow(T, aa, qq))
            ELSE FirstPort(T, NamesFrom(T, oo, i + 1))
      BY <3>1, FirstSplits
    <3>3. Answer(T, b, i) = FirstPort(T, NamesFrom(T, oo, i))
      BY <2>4, Zenon DEF Answer
    <3>4. aa = a /\ FirstPort(T, NamesBelow(T, aa, qq)) = FirstPort(T, R)
          /\ FirstPort(T, NamesFrom(T, oo, i + 1)) = FirstPort(T, S)
      BY <2>4, Zenon
    <3> HIDE DEF a, R, S
    <3> QED
      BY <3>2, <3>3, <3>4, Zenon
  <2>6. nested = FirstPort(T, R)
    <3>1. LastWord(T, a) \in a..Len(T) /\ q \in Nat /\ q # 0
      BY <2>1, RunOfWords, <1>0 DEF Begins
    <3>2. DOMAIN T = 1..Len(T)
      BY <1>0, TokensAre
    <3>3. Heads(T, a, q) <=> q \in DOMAIN T /\ T[q].type = "START_BLOCK"
      BY <2>1, <3>1, <3>2 DEF Heads, Brace
    <3>4. CASE Heads(T, a, q)
      <4>1. s.child = BlockOpenedAt(T, q) /\ Brace(T, q)
        BY <2>3, <3>3, <3>4 DEF Heads
      <4>2. BlockOpenedAt(T, q) \in Nat /\ BlockOpenedAt(T, q) >= 1
        <5>1. q <= q
          BY <3>1
        <5> QED
          BY <1>0, <3>1, <5>1, BlocksAreNumbered
      <4>3. s.child # NoBlock
        BY <4>1, <4>2 DEF NoBlock
      <4>4. s.child \in (b + 1)..Len(h)
        <5>1. GrowsDown(h) /\ i \in 1..Len(h[b])
          BY <1>0, <1>2, <2>1, TreeGrowsDown
        <5>2. \A c \in 1..Len(h) : \A j \in 1..Len(h[c]) :
                h[c][j].child # NoBlock => h[c][j].child \in (c + 1)..Len(h)
          BY <5>1, Zenon DEF GrowsDown
        <5> QED
          BY <4>3, <5>1, <5>2, Zenon
      <4>5. BraceOf(T, s.child) = q
        <5>1. Brace(T, BraceOf(T, s.child)) /\ BlockOpenedAt(T, BraceOf(T, s.child)) = s.child
          <6>1. s.child \in 1..Len(h)
            BY <4>4
          <6> QED
            BY <1>0, <6>1, BraceOfIs
        <5> QED
          BY <1>0, <4>1, <5>1, BracesDiffer
      <4>6. helper[<<s.child, 1>>] = FirstPort(T, NamesFrom(T, q, 1))
        BY <4>4, <4>5, Zenon DEF Answer
      <4> QED
        BY <3>4, <4>3, <4>6, Zenon DEF NamesBelow
    <3>5. CASE ~Heads(T, a, q)
      <4>1. s.child = NoBlock
        BY <2>3, <3>3, <3>5
      <4> QED
        BY <3>5, <4>1, Zenon DEF FirstPort, NamesBelow
    <3> QED
      BY <3>4, <3>5
  <2>7. helper[<<b, i + 1>>] = FirstPort(T, S)
    BY <1>2, <1>5 DEF Answer
  <2>8. Len(s.tokens) = 2 /\ s.tokens[1] = <<"port">> <=> a \in Names(T)
    <3> HIDE DEF a, s
    <3> QED
      BY <2>1, <2>3 DEF Names
  <2>9. Stoi(s.tokens[2]) = PortAt(T, a)
    BY <2>3 DEF PortAt
  <2>10. PortFrom(h, helper, b, i) =
           IF Len(s.tokens) = 2 /\ s.tokens[1] = <<"port">> THEN Stoi(s.tokens[2])
           ELSE IF nested # NoPort THEN nested ELSE helper[<<b, i + 1>>]
    <3>1. ~(i > Len(h[b]))
      BY <1>2, <1>3, <1>5
    <3> QED
      BY <3>1, Zenon DEF PortFrom
  <2> HIDE DEF nested, s, h, R, S, a
  <2> QED
    BY <2>5, <2>6, <2>7, <2>8, <2>9, <2>10, Zenon DEF h
<1> QED
  BY <1>2, <1>3, <1>4, <1>5

(* The recursion of GetPortHelper has one solution, the answers.           *)
LEMMA PortSearchIs ==
  ASSUME NEW T, Balanced(T), \A k \in Names(T) : PortAt(T, k) # NoPort
  PROVE  GetPortHelper(Tree(T)) = FirstPort(T, Names(T))
<1> DEFINE h == Tree(T)
           D == (DOMAIN h) \X (Nat \ {0})
           helper == CHOOSE g : g = [at \in D |-> PortFrom(h, g, at[1], at[2])]
           f == [at \in D |-> Answer(T, at[1], at[2])]
           L == Len(h)
<1>0. T \in AnyTokens /\ L \in Nat /\ DOMAIN h = 1..L /\ 1 \in 1..L
  BY TreeIs DEF Balanced
<1>1. ASSUME NEW b \in 1..L, NEW i \in Nat \ {0} PROVE <<b, i>> \in D /\ f[<<b, i>>] = Answer(T, b, i)
  <2>1. <<b, i>> \in D
    BY <1>0
  <2>2. <<b, i>>[1] = b /\ <<b, i>>[2] = i
    OBVIOUS
  <2> QED
    BY <2>1, <2>2, Zenon
<1>2. f = [at \in D |-> PortFrom(h, f, at[1], at[2])]
  <2>1. ASSUME NEW at \in D PROVE Answer(T, at[1], at[2]) = PortFrom(h, f, at[1], at[2])
    <3>1. PICK b \in 1..L, i \in Nat \ {0} : at = <<b, i>>
      BY <1>0
    <3>2. at[1] = b /\ at[2] = i
      BY <3>1
    <3>3. \A c \in (b + 1)..L : f[<<c, 1>>] = Answer(T, c, 1)
      <4> SUFFICES ASSUME NEW c \in (b + 1)..L PROVE f[<<c, 1>>] = Answer(T, c, 1)
        OBVIOUS
      <4>1. c \in 1..L /\ 1 \in Nat \ {0}
        BY <1>0
      <4> HIDE DEF f
      <4> QED
        BY <1>1, <4>1
    <3>4. f[<<b, i + 1>>] = Answer(T, b, i + 1)
      <4>1. i + 1 \in Nat \ {0}
        OBVIOUS
      <4> HIDE DEF f
      <4> QED
        BY <1>1, <4>1
    <3> HIDE DEF f
    <3>5. PortFrom(h, f, b, i) = Answer(T, b, i)
      BY <3>3, <3>4, PortFromIs
    <3> QED
      BY <3>2, <3>5, Zenon
  <2> HIDE DEF D
  <2> QED
    BY <2>1, Zenon
<1>3. helper = [at \in D |-> PortFrom(h, helper, at[1], at[2])]
  <2> HIDE DEF f
  <2> QED
    BY <1>2, Zenon
<1>4. GetPortHelper(h) = helper[<<1, 1>>]
  BY DEF GetPortHelper
<1> HIDE DEF helper, f
<1>5. ASSUME NEW b \in 1..L, NEW i \in Nat \ {0} PROVE helper[<<b, i>>] = PortFrom(h, helper, b, i)
  <2>1. <<b, i>> \in D
    BY <1>1
  <2>2. <<b, i>>[1] = b /\ <<b, i>>[2] = i
    OBVIOUS
  <2> HIDE DEF D
  <2> QED
    BY <1>3, <2>1, <2>2, Zenon
<1> HIDE DEF D
<1> DEFINE Fine(b) == \A i \in Nat \ {0} : helper[<<b, i>>] = Answer(T, b, i)
           Good == {n \in Nat : \A b \in 1..L : b > L - n => Fine(b)}
<1>6. 0 \in Good
  BY <1>0
<1>7. ASSUME NEW b \in 1..L, \A c \in (b + 1)..L : Fine(c) PROVE Fine(b)
  <2> DEFINE m == Len(h[b])
             Far == {n \in Nat : \A i \in Nat \ {0} : i > m - n => helper[<<b, i>>] = Answer(T, b, i)}
  <2>0. m \in Nat
    <3>1. h[b] \in Seq(AnyStatement)
      BY <1>0, TreeIs
    <3> QED
      BY <3>1
  <2>1. \A c \in (b + 1)..L : helper[<<c, 1>>] = Answer(T, c, 1)
    <3>1. 1 \in Nat \ {0}
      OBVIOUS
    <3> QED
      BY <1>7, <3>1, Zenon
  <2> HIDE DEF Fine
  <2>2. ASSUME NEW i \in Nat \ {0}, i <= m => helper[<<b, i + 1>>] = Answer(T, b, i + 1)
        PROVE  helper[<<b, i>>] = Answer(T, b, i)
    <3>1. PortFrom(h, helper, b, i) = Answer(T, b, i)
      BY <2>1, <2>2, PortFromIs
    <3> QED
      BY <1>5, <3>1
  <2> HIDE DEF m
  <2>3. 0 \in Far
    <3> SUFFICES ASSUME NEW i \in Nat \ {0}, i > m - 0 PROVE helper[<<b, i>>] = Answer(T, b, i)
      OBVIOUS
    <3>1. ~(i <= m)
      BY <2>0
    <3> QED
      BY <2>2, <3>1
  <2>4. ASSUME NEW n \in Nat, n \in Far PROVE n + 1 \in Far
    <3> SUFFICES ASSUME NEW i \in Nat \ {0}, i > m - (n + 1) PROVE helper[<<b, i>>] = Answer(T, b, i)
      OBVIOUS
    <3>1. i + 1 > m - n /\ i + 1 \in Nat \ {0}
      BY <2>0
    <3>2. helper[<<b, i + 1>>] = Answer(T, b, i + 1)
      BY <2>4, <3>1
    <3> QED
      BY <2>2, <3>2
  <2>5. m \in Far
    <3> HIDE DEF Far
    <3> QED
      BY <2>0, <2>3, <2>4, SetInduction
  <2>6. ASSUME NEW i \in Nat \ {0} PROVE i > m - m
    BY <2>0
  <2> QED
    BY <2>5, <2>6 DEF Fine
<1>8. ASSUME NEW n \in Nat, n \in Good PROVE n + 1 \in Good
  <2> SUFFICES ASSUME NEW b \in 1..L, b > L - (n + 1) PROVE Fine(b)
    OBVIOUS
  <2>1. \A c \in (b + 1)..L : c \in 1..L /\ c > L - n
    BY <1>0
  <2> HIDE DEF Fine
  <2>2. \A c \in (b + 1)..L : Fine(c)
    BY <1>8, <2>1
  <2> QED
    BY <1>7, <2>2
<1>9. Fine(1)
  <2>1. L \in Good
    <3> HIDE DEF Good
    <3> QED
      BY <1>0, <1>6, <1>8, SetInduction
  <2>2. 1 > L - L
    BY <1>0
  <2> HIDE DEF Fine
  <2> QED
    BY <1>0, <2>1, <2>2
<1>10. GetPortHelper(h) = Answer(T, 1, 1)
  <2>1. 1 \in Nat \ {0}
    OBVIOUS
  <2> QED
    BY <1>4, <1>9, <2>1
<1>11. BraceOf(T, 1) = 0
  <2>1. Brace(T, 0) /\ BlockOpenedAt(T, 0) = 1
    BY <1>0, BlocksAreNumbered DEF Brace
  <2>2. Brace(T, BraceOf(T, 1)) /\ BlockOpenedAt(T, BraceOf(T, 1)) = 1
    BY <1>0, BraceOfIs
  <2> QED
    BY <1>0, <2>1, <2>2, BracesDiffer
<1>12. NamesFrom(T, 0, 1) = Names(T)
  <2>1. NamesFrom(T, 0, 1) = {k \in Names(T) : Within(T, 0, k)}
    BY NamesOfBlock DEF Brace
  <2>2. ASSUME NEW k \in Names(T) PROVE Within(T, 0, k)
    <3>1. k \in 1..Len(T) /\ Len(T) \in Nat
      BY <1>0, TokensAre DEF Names
    <3>2. Level(T, 0 + 1) = 0
      BY <1>0, NoLevel
    <3>3. \A j \in 1..k : Level(T, j) >= 0
      BY <3>1 DEF Balanced
    <3> QED
      BY <3>1, <3>2, <3>3 DEF Within
  <2> QED
    BY <2>1, <2>2
<1> QED
  BY <1>10, <1>11, <1>12, Zenon DEF Answer

LEMMA PortsAre ==
  ASSUME NEW T \in AnyTokens
  PROVE  /\ (\A i \in DOMAIN Ports(T) : Ports(T)[i] # NoPort) =>
              \A k \in Names(T) : PortAt(T, k) # NoPort
         /\ Ports(T) = << >> => FirstPort(T, Names(T)) = NoPort
         /\ Ports(T) # << >> => FirstPort(T, Names(T)) = Ports(T)[1]
<1> DEFINE at == InOrder(Names(T), Len(T))
           ports == [i \in DOMAIN at |-> PortAt(T, at[i])]
<1>0. Len(T) \in Nat /\ DOMAIN T = 1..Len(T) /\ Names(T) \subseteq 1..Len(T)
  BY TokensAre DEF Names
<1>1. Ports(T) = ports
  <2>1. Names(T) = {k \in DOMAIN T : /\ Begins(T, k) /\ Len(TokensAt(T, k)) = 2
                                     /\ TokensAt(T, k)[1] = <<"port">>}
    BY <1>0 DEF Names
  <2> QED
    BY <2>1, Zenon DEF Ports, PortAt
<1>2. /\ at \in Seq(Nat) /\ Len(at) \in Nat /\ DOMAIN at = 1..Len(at)
      /\ \A i \in DOMAIN at : at[i] \in Names(T) /\ at[i] \in 1..Len(T)
      /\ \A i, j \in DOMAIN at : i < j => at[i] < at[j]
      /\ \A k \in 1..Len(T) : k \in Names(T) => \E i \in DOMAIN at : at[i] = k
  BY <1>0, InOrderIsSorted
<1> HIDE DEF at
<1>3. DOMAIN ports = 1..Len(at) /\ \A i \in 1..Len(at) : ports[i] = PortAt(T, at[i])
  BY <1>2
<1>4. \A k \in Names(T) : \E i \in 1..Len(at) : at[i] = k
  BY <1>0, <1>2
<1>5. ports = << >> <=> Len(at) = 0
  BY <1>2, <1>3
<1> HIDE DEF ports
<1>6. (\A i \in DOMAIN ports : ports[i] # NoPort) => \A k \in Names(T) : PortAt(T, k) # NoPort
  BY <1>3, <1>4
<1>7. ASSUME ports = << >> PROVE FirstPort(T, Names(T)) = NoPort
  <2>1. Names(T) = {}
    BY <1>4, <1>5, <1>7
  <2> QED
    BY <2>1 DEF FirstPort
<1>8. ASSUME ports # << >> PROVE FirstPort(T, Names(T)) = ports[1]
  <2>1. 1 \in 1..Len(at)
    BY <1>2, <1>5, <1>8
  <2>2. at[1] \in Names(T) /\ at[1] \in Nat
    BY <1>2, <2>1
  <2>3. ASSUME NEW j \in Names(T) PROVE at[1] <= j
    <3>1. PICK i \in 1..Len(at) : at[i] = j
      BY <1>4
    <3>2. i = 1 \/ 1 < i
      OBVIOUS
    <3>3. i = 1 \/ at[1] < at[i]
      BY <1>2, <2>1, <3>2
    <3>4. at[i] \in Nat
      BY <1>2
    <3> QED
      BY <2>2, <3>1, <3>3, <3>4
  <2>4. Names(T) \in SUBSET Nat
    BY <1>0
  <2>5. FirstPort(T, Names(T)) = PortAt(T, at[1])
    BY <2>2, <2>3, <2>4, FirstPortIs
  <2> QED
    BY <1>3, <2>1, <2>5
<1> QED
  BY <1>1, <1>6, <1>7, <1>8, Zenon
=============================================================================

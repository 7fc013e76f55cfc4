----------------------------- MODULE Induction ------------------------------
(***************************************************************************)
(* Induction and recursion over the natural numbers, stated over sets and  *)
(* functions so that no operator has to be instantiated, and what they say *)
(* of a sequence with some of its elements left out.                       *)
(***************************************************************************)
EXTENDS Retain, WellFoundedInduction, TLAPS

(* Every non-empty set of natural numbers has a least element. *)
LEMMA LeastElement ==
  ASSUME NEW S \in SUBSET Nat, S # {}
  PROVE  \E m \in S : \A k \in S : m <= k
<1> DEFINE less == {ss \in Nat \X Nat : ss[1] < ss[2]}
<1>1. IsWellFoundedOn(less, Nat)
  BY NatLessThanWellFounded DEF OpToRel
<1>2. \E m \in S : \A k \in S : ~ (<<k, m>> \in less)
  <2> HIDE DEF less
  <2> QED BY Zenon, <1>1, WFMin
<1>3. PICK m \in S : \A k \in S : ~ (<<k, m>> \in less)
  BY <1>2
<1>4. \A k \in S : m <= k
  <2> SUFFICES ASSUME NEW k \in S, k < m PROVE FALSE
    OBVIOUS
  <2>1. <<k, m>> \in Nat \X Nat
    OBVIOUS
  <2>2. <<k, m>>[1] < <<k, m>>[2]
    OBVIOUS
  <2> QED BY <1>3, <2>1, <2>2
<1> QED
  BY <1>4

(* Induction over an initial segment of the natural numbers. *)
LEMMA SetInduction ==
  ASSUME NEW n \in Nat, NEW S, 0 \in S,
         \A i \in 0..(n - 1) : i \in S => i + 1 \in S
  PROVE  \A i \in 0..n : i \in S
<1> DEFINE bad == {i \in 0..n : i \notin S}
<1> SUFFICES ASSUME bad # {} PROVE FALSE
  OBVIOUS
<1>0. bad \in SUBSET Nat
  OBVIOUS
<1>1. PICK m \in bad : \A k \in bad : m <= k
  <2> HIDE DEF bad
  <2> QED BY <1>0, LeastElement
<1>2. m # 0 /\ m - 1 \in 0..(n - 1)
  OBVIOUS
<1>3. m - 1 \in S
  BY <1>1, <1>2
<1> QED
  BY <1>2, <1>3

(***************************************************************************)
(* A function defined by recursion exists: v0 first, and then at each step *)
(* what F makes of the value before.                                       *)
(***************************************************************************)
Steps(n, V) == [1..n -> [V -> V]]

IsRun(g, n, V, v0, F) ==
  /\ g \in [0..n -> V]
  /\ g[0] = v0
  /\ \A k \in 1..n : g[k] = F[k][g[k - 1]]

LEMMA RecursionExists ==
  ASSUME NEW n \in Nat, NEW V, NEW v0 \in V, NEW F \in Steps(n, V)
  PROVE  \E g : IsRun(g, n, V, v0, F)
<1> USE DEF Steps
<1> DEFINE fits(g, m) == g[0] = v0 /\ \A k \in 1..m : g[k] = F[k][g[k - 1]]
           S == {m \in Nat : m <= n => \E g \in [0..m -> V] : fits(g, m)}
<1>1. 0 \in S
  <2>1. [k \in 0..0 |-> v0] \in [0..0 -> V] /\ fits([k \in 0..0 |-> v0], 0)
    OBVIOUS
  <2> QED BY Zenon, <2>1
<1>2. \A m \in 0..(n - 1) : m \in S => m + 1 \in S
  <2> SUFFICES ASSUME NEW m \in 0..(n - 1), \E g \in [0..m -> V] : fits(g, m)
               PROVE  \E h \in [0..(m + 1) -> V] : fits(h, m + 1)
    <3> HIDE DEF fits
    <3> QED OBVIOUS
  <2> PICK g \in [0..m -> V] : fits(g, m)
    OBVIOUS
  <2> DEFINE h == [k \in 0..(m + 1) |-> IF k = m + 1 THEN F[m + 1][g[m]] ELSE g[k]]
  <2>1. F[m + 1] \in [V -> V] /\ g[m] \in V
    OBVIOUS
  <2>2. h \in [0..(m + 1) -> V]
    BY <2>1
  <2>3. h[0] = v0
    OBVIOUS
  <2>4. ASSUME NEW k \in 1..(m + 1) PROVE h[k] = F[k][h[k - 1]]
    <3>1. CASE k = m + 1
      BY <3>1
    <3>2. CASE k # m + 1
      BY <3>2
    <3> QED BY <3>1, <3>2
  <2>5. fits(h, m + 1)
    BY <2>3, <2>4
  <2> QED BY Zenon, <2>2, <2>5
<1>3. \A m \in 0..n : m \in S
  <2> HIDE DEF S
  <2> QED BY Zenon, <1>1, <1>2, SetInduction
<1> QED BY <1>3 DEF IsRun

(***************************************************************************)
(* Retain keeps, in a sequence over the same set, exactly the elements at  *)
(* the kept indexes, and the last one last.                                *)
(***************************************************************************)
LEMMA RetainProperties ==
  ASSUME NEW T, NEW seq \in Seq(T), NEW keep
  PROVE  LET r == Retain(seq, keep)
         IN  /\ r \in Seq(T)
             /\ \A j \in 1..Len(r) : \E i \in 1..Len(seq) : i \in keep /\ r[j] = seq[i]
             /\ \A i \in 1..Len(seq) : i \in keep => \E j \in 1..Len(r) : r[j] = seq[i]
             /\ Len(seq) > 0 /\ Len(seq) \in keep =>
                  Len(r) > 0 /\ r[Len(r)] = seq[Len(seq)]
<1> DEFINE n == Len(seq)
           body(g) == [k \in 0..n |-> IF k = 0 THEN <<>>
                                      ELSE IF k \in keep THEN Append(g[k - 1], seq[k])
                                      ELSE g[k - 1]]
           upto == CHOOSE g : g = body(g)
           F == [k \in 1..n |-> [s \in Seq(T) |->
                   IF k \in keep THEN Append(s, seq[k]) ELSE s]]
<1>0. n \in Nat
  OBVIOUS
<1>1. Retain(seq, keep) = upto[n]
  BY DEF Retain
<1>2. upto = body(upto)
  <2>1. F \in Steps(n, Seq(T))
    BY DEF Steps
  <2>2. <<>> \in Seq(T)
    OBVIOUS
  <2>3. PICK g : IsRun(g, n, Seq(T), <<>>, F)
    <3> HIDE DEF F, n, body
    <3> QED BY Zenon, <1>0, <2>1, <2>2, RecursionExists
  <2>3a. /\ g \in [0..n -> Seq(T)]
         /\ g[0] = <<>>
         /\ \A k \in 1..n : g[k] = F[k][g[k - 1]]
    <3> HIDE DEF F, n
    <3> QED BY <2>3 DEF IsRun
  <2>4. \A k \in 1..n : g[k] = IF k \in keep THEN Append(g[k - 1], seq[k]) ELSE g[k - 1]
    <3> SUFFICES ASSUME NEW k \in 1..n
                 PROVE  g[k] = IF k \in keep THEN Append(g[k - 1], seq[k]) ELSE g[k - 1]
      OBVIOUS
    <3>1. g[k - 1] \in Seq(T)
      BY SMTT(60), <1>0, <2>3a
    <3> QED BY Zenon, <2>3a, <3>1
  <2>5. g = body(g)
    <3>1. \A k \in 0..n : k = 0 \/ k \in 1..n
      BY <1>0
    <3>2. \A k \in 0..n : g[k] = IF k = 0 THEN <<>>
                                 ELSE IF k \in keep THEN Append(g[k - 1], seq[k])
                                 ELSE g[k - 1]
      BY <2>3a, <2>4, <3>1, Zenon
    <3>3. g = [k \in 0..n |-> g[k]]
      <4> HIDE DEF n, F
      <4> QED BY <2>3a
    <3> QED BY <3>2, <3>3, Zenon
  <2> HIDE DEF body
  <2> QED BY <2>5
<1>3. /\ upto[0] = <<>>
      /\ \A k \in 1..n : upto[k] = IF k \in keep THEN Append(upto[k - 1], seq[k])
                                   ELSE upto[k - 1]
  <2>1. 0 \in 0..n /\ \A k \in 1..n : k \in 0..n /\ k # 0
    BY <1>0
  <2> HIDE DEF upto
  <2>2. \A k \in 0..n : upto[k] = IF k = 0 THEN <<>>
                                  ELSE IF k \in keep THEN Append(upto[k - 1], seq[k])
                                  ELSE upto[k - 1]
    BY <1>2, Zenon
  <2> QED BY <2>1, <2>2, Zenon
<1> HIDE DEF upto
<1> DEFINE good(k) ==
             /\ upto[k] \in Seq(T)
             /\ \A j \in 1..Len(upto[k]) : \E i \in 1..k : i \in keep /\ upto[k][j] = seq[i]
             /\ \A i \in 1..k : i \in keep => \E j \in 1..Len(upto[k]) : upto[k][j] = seq[i]
             /\ k > 0 /\ k \in keep =>
                  Len(upto[k]) > 0 /\ upto[k][Len(upto[k])] = seq[k]
           S == {k \in 0..n : good(k)}
<1>4. 0 \in S
  <2>1. upto[0] = <<>> /\ 0 \in 0..n
    BY <1>0, <1>3
  <2>2. good(0)
    BY <2>1
  <2> QED BY Zenon, <2>1, <2>2
<1>5. \A k \in 0..(n - 1) : k \in S => k + 1 \in S
  <2> SUFFICES ASSUME NEW k \in 0..(n - 1), good(k) PROVE good(k + 1)
    <3>1. \A k \in 0..(n - 1) : k + 1 \in 0..n
      BY <1>0
    <3> HIDE DEF good
    <3> QED BY <3>1
  <2>0. k + 1 \in 1..n /\ seq[k + 1] \in T /\ (k + 1) - 1 = k
    BY <1>0
  <2>1. CASE k + 1 \in keep
    <3>1. upto[k + 1] = Append(upto[k], seq[k + 1])
      BY Zenon, <1>3, <2>0, <2>1
    <3> DEFINE u == upto[k]
               m == Len(u)
    <3>2. u \in Seq(T) /\ m \in Nat
      OBVIOUS
    <3>3. /\ upto[k + 1] \in Seq(T)
          /\ Len(upto[k + 1]) = m + 1
          /\ \A j \in 1..m : upto[k + 1][j] = u[j]
          /\ upto[k + 1][m + 1] = seq[k + 1]
      BY <2>0, <3>1, <3>2
    <3>4. \A j \in 1..(m + 1) : \E i \in 1..(k + 1) : i \in keep /\ upto[k + 1][j] = seq[i]
      <4> SUFFICES ASSUME NEW j \in 1..(m + 1)
                   PROVE  \E i \in 1..(k + 1) : i \in keep /\ upto[k + 1][j] = seq[i]
        OBVIOUS
      <4>1. CASE j = m + 1
        BY <2>1, <3>3, <4>1
      <4>2. CASE j \in 1..m
        <5>1. PICK i \in 1..k : i \in keep /\ u[j] = seq[i]
          BY <4>2
        <5> QED BY <3>3, <4>2, <5>1
      <4> QED BY <3>2, <4>1, <4>2
    <3>5. \A i \in 1..(k + 1) : i \in keep => \E j \in 1..(m + 1) : upto[k + 1][j] = seq[i]
      <4> SUFFICES ASSUME NEW i \in 1..(k + 1), i \in keep
                   PROVE  \E j \in 1..(m + 1) : upto[k + 1][j] = seq[i]
        OBVIOUS
      <4>1. CASE i = k + 1
        <5>1. m + 1 \in 1..(m + 1)
          BY <3>2
        <5> QED BY Zenon, <3>3, <4>1, <5>1
      <4>2. CASE i \in 1..k
        <5>1. PICK j \in 1..m : u[j] = seq[i]
          BY <4>2
        <5>2. j \in 1..(m + 1) /\ upto[k + 1][j] = seq[i]
          BY <3>2, <3>3, <5>1
        <5> QED BY <5>2
      <4>3. i = k + 1 \/ i \in 1..k
        OBVIOUS
      <4> QED BY <4>1, <4>2, <4>3
    <3> QED BY SMTT(60), <3>2, <3>3, <3>4, <3>5
  <2>2. CASE k + 1 \notin keep
    <3>1. upto[k + 1] = upto[k]
      BY <1>3, <2>0, <2>2
    <3>2. \A j \in 1..Len(upto[k]) : \E i \in 1..(k + 1) : i \in keep /\ upto[k][j] = seq[i]
      <4> SUFFICES ASSUME NEW j \in 1..Len(upto[k])
                   PROVE  \E i \in 1..(k + 1) : i \in keep /\ upto[k][j] = seq[i]
        OBVIOUS
      <4>1. PICK i \in 1..k : i \in keep /\ upto[k][j] = seq[i]
        OBVIOUS
      <4> QED BY <4>1
    <3>3. \A i \in 1..(k + 1) : i \in keep => i \in 1..k
      BY <2>2
    <3> QED BY <2>2, <3>1, <3>2, <3>3
  <2> QED BY <2>1, <2>2
<1>6. n \in S
  <2> HIDE DEF S, n
  <2>1. \A k \in 0..n : k \in S
    BY <1>0, <1>4, <1>5, SetInduction
  <2> QED BY <1>0, <2>1
<1> QED BY Zenon, <1>1, <1>6

LEMMA RetainedFrom ==
  ASSUME NEW T, NEW seq \in Seq(T), NEW keep, NEW j \in 1..Len(Retain(seq, keep))
  PROVE  \E i \in 1..Len(seq) : i \in keep /\ Retain(seq, keep)[j] = seq[i]
<1> DEFINE r == Retain(seq, keep)
<1>1. \A k \in 1..Len(r) : \E i \in 1..Len(seq) : i \in keep /\ r[k] = seq[i]
  BY RetainProperties
<1> HIDE DEF r
<1>2. j \in 1..Len(r)
  BY DEF r
<1>3. \E i \in 1..Len(seq) : i \in keep /\ r[j] = seq[i]
  BY <1>1, <1>2, Zenon
<1> QED BY <1>3 DEF r

=============================================================================

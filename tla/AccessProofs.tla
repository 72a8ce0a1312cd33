---------------------------- MODULE AccessProofs ----------------------------
(***************************************************************************)
(* Who gets in, for every value of the constants: the rate limiter, the    *)
(* schema a build serves on, the accounts with their sessions, links and   *)
(* passwords, the requests that are sent again, and the link to Google.    *)
(***************************************************************************)
EXTENDS MCAccess, Sequences, FiniteSetTheorems, TLAPS

-----------------------------------------------------------------------------
(* The rate limiter.  v1 is tat, v2 turn, v3 clock, v4 hits, v5 told.      *)

\* What a number of requests costs.
LEMMA CostOf ==
    ASSUME Limiter!LimiterAssumption, NEW n \in Nat
    PROVE  /\ Limiter!Cost(n) \in Nat /\ Limiter!Cost(n + 1) = Limiter!Cost(n) + Interval
           /\ Limiter!Cost(1) = Interval
  BY DEF Limiter!LimiterAssumption, Limiter!Cost

\* A number of requests that a time pays for is what the rate allows for it.
LEMMA Paid ==
    ASSUME Limiter!LimiterAssumption, NEW n \in Nat, NEW x \in Int, Limiter!Cost(n) <= x
    PROVE  n <= x \div Interval
  <1> DEFINE q == x \div Interval
  <1>1. Interval \in Nat /\ Interval > 0 /\ n * Interval <= x
    BY DEF Limiter!LimiterAssumption, Limiter!Cost
  <1>2. q \in Int /\ x < Interval * (q + 1)
    BY <1>1
  <1> HIDE DEF q
  <1>3. ASSUME q + 1 <= n PROVE FALSE
    <2>1. Interval * (q + 1) <= Interval * n
      BY <1>1, <1>2, <1>3
    <2> QED BY <1>1, <1>2, <2>1
  <1> QED BY <1>2, <1>3 DEF q

\* A sweep forgets only keys whose time has come.
LEMMA Swept ==
    ASSUME Limiter!LimiterTypeOK, NEW table, table = Limiter!Sweep(v1)
    PROVE  /\ table \in [Attempts -> Nat \cup {Limiter!Never}]
           /\ \A j \in Attempts : table[j] = v1[j] \/ (table[j] = Limiter!Never /\ v1[j] <= v3)
  BY DEF Limiter!LimiterTypeOK, Limiter!Sweep, Limiter!Expire, Limiter!Never

\* Sets are counted alike in every part.
LEMMA Counted ==
    ASSUME NEW S PROVE (Limiter!IsFiniteSet(S) <=> IsFiniteSet(S)) /\ Limiter!Cardinality(S) = Cardinality(S)
  BY DEF Limiter!IsFiniteSet, IsFiniteSet, Limiter!Cardinality, Cardinality

\* Tables hold finitely many keys.
LEMMA HeldFinite ==
    ASSUME Limiter!LimiterAssumption, NEW table
    PROVE  /\ IsFiniteSet(Limiter!Held(table)) /\ Cardinality(Limiter!Held(table)) \in Nat
           /\ Limiter!Held(table) \in SUBSET Attempts
  <1>1. Limiter!Held(table) \in SUBSET Attempts
    BY DEF Limiter!Held
  <1>2. IsFiniteSet(Attempts)
    BY Counted DEF Limiter!LimiterAssumption
  <1> QED BY <1>1, <1>2, FS_Subset, FS_CardinalityType

\* A table that is thrown out in part has room again.
LEMMA Evicted ==
    ASSUME Limiter!LimiterAssumption, NEW from \in [Attempts -> Nat \cup {Limiter!Never}],
           Cardinality(Limiter!Held(from)) <= MaxKeys, v3 \in Nat,
           NEW table \in Limiter!Evict(from)
    PROVE  /\ table \in [Attempts -> Nat \cup {Limiter!Never}]
           /\ \A j \in Attempts : table[j] = from[j] \/ table[j] = Limiter!Never
           /\ Cardinality(Limiter!Held(table)) < MaxKeys
  <1> DEFINE left == Limiter!Expire(from)
             held == Limiter!Held(left)
             n    == Cardinality(held) \div EvictFraction
             kept(o) == [k \in Attempts |-> IF k \in o THEN Limiter!Never ELSE left[k]]
  <1>1. /\ left \in [Attempts -> Nat \cup {Limiter!Never}]
        /\ \A j \in Attempts : left[j] = from[j] \/ left[j] = Limiter!Never
    BY DEF Limiter!Expire
  <1>2. IsFiniteSet(held) /\ Cardinality(held) \in Nat /\ Limiter!Cardinality(held) = Cardinality(held)
    BY HeldFinite, Counted
  <1>3. CASE Cardinality(held) < MaxKeys
    BY <1>1, <1>2, <1>3 DEF Limiter!Evict
  <1>4. CASE ~(Cardinality(held) < MaxKeys)
    <2>1. PICK o \in SUBSET held : Limiter!Cardinality(o) = n /\ table = kept(o)
      BY <1>2, <1>4 DEF Limiter!Evict
    <2>2. Limiter!Held(table) = held \ o
      BY <2>1 DEF Limiter!Held
    <2>3. Cardinality(held \ o) = Cardinality(held) - n
      <3>1. Cardinality(o) = n
        BY <2>1, Counted
      <3>2. Cardinality(held \ o) = Cardinality(held) - Cardinality(held \cap o)
        BY <1>2, FS_Difference
      <3>3. held \cap o = o
        OBVIOUS
      <3> QED BY ONLY <3>1, <3>2, <3>3
    <2>4. n >= 1
      BY <1>2, <1>4 DEF Limiter!LimiterAssumption
    <2>5. Cardinality(held) <= Cardinality(Limiter!Held(from))
      <3>1. held \in SUBSET Limiter!Held(from)
        BY <1>1 DEF Limiter!Held
      <3> QED BY <3>1, HeldFinite, FS_Subset
    <2>6. Cardinality(Limiter!Held(from)) \in Nat
      BY HeldFinite
    <2> HIDE DEF left, held, n
    <2>7. MaxKeys \in Nat
      BY DEF Limiter!LimiterAssumption
    <2>8. n \in Int
      BY <1>2 DEF n, Limiter!LimiterAssumption
    <2>9. Cardinality(Limiter!Held(table)) < MaxKeys
      BY <1>2, <2>2, <2>3, <2>4, <2>5, <2>6, <2>7, <2>8
    <2> QED BY <1>1, <2>1, <2>9
  <1> QED BY <1>3, <1>4

\* The table in which Allow looks a key up.
Looks(k, swept, table) ==
    table \in IF swept[k] = Limiter!Never /\ Limiter!Cardinality(Limiter!Held(swept)) >= MaxKeys
              THEN Limiter!Evict(swept) ELSE {swept}

\* Keys are gone from it only if their time has come or a full table threw them out, and
\* there is room for this one.
HasPlace(k, swept, table) ==
    /\ table \in [Attempts -> Nat \cup {Limiter!Never}]
    /\ \A j \in Attempts : \/ table[j] = v1[j]
                           \/ table[j] = Limiter!Never /\ (v1[j] <= v3 \/ swept[j] > v3)
    /\ Cardinality(Limiter!Held(table)) <= MaxKeys
    /\ \A next \in Nat : Cardinality(Limiter!Held([table EXCEPT ![k] = next])) <= MaxKeys
    /\ swept[k] > v3 => table[k] # Limiter!Never

LEMMA Looked ==
    ASSUME Limiter!LimiterAssumption, Limiter!LimiterTypeOK, NEW k \in Attempts,
           NEW swept, swept = Limiter!Sweep(v1), NEW table, Looks(k, swept, table)
    PROVE  HasPlace(k, swept, table)
  <1> SUFFICES ASSUME NEW next \in Nat
               PROVE  /\ table \in [Attempts -> Nat \cup {Limiter!Never}]
                      /\ \A j \in Attempts : \/ table[j] = v1[j]
                                             \/ table[j] = Limiter!Never /\ (v1[j] <= v3 \/ swept[j] > v3)
                      /\ Cardinality(Limiter!Held(table)) <= MaxKeys
                      /\ Cardinality(Limiter!Held([table EXCEPT ![k] = next])) <= MaxKeys
                      /\ swept[k] > v3 => table[k] # Limiter!Never
    <2>1. 0 \in Nat
      OBVIOUS
    <2> QED BY <2>1, Zenon DEF HasPlace
  <1>0. table \in IF swept[k] = Limiter!Never /\ Limiter!Cardinality(Limiter!Held(swept)) >= MaxKeys
                  THEN Limiter!Evict(swept) ELSE {swept}
    BY DEF Looks
  <1>1. /\ swept \in [Attempts -> Nat \cup {Limiter!Never}]
        /\ \A j \in Attempts : swept[j] = v1[j] \/ (swept[j] = Limiter!Never /\ v1[j] <= v3)
    BY Swept
  <1>2. \A any \in [Attempts -> Nat \cup {Limiter!Never}] :
           IsFiniteSet(Limiter!Held(any)) /\ Cardinality(Limiter!Held(any)) \in Nat
    BY HeldFinite
  <1>3. Cardinality(Limiter!Held(swept)) <= MaxKeys
    <2>1. Limiter!Held(swept) \in SUBSET Limiter!Held(v1)
      BY <1>1 DEF Limiter!Held
    <2>2. Cardinality(Limiter!Held(v1)) <= MaxKeys /\ v1 \in [Attempts -> Nat \cup {Limiter!Never}]
      BY Counted DEF Limiter!LimiterTypeOK, Limiter!Held
    <2>3. Cardinality(Limiter!Held(swept)) <= Cardinality(Limiter!Held(v1))
      BY <1>2, <2>1, <2>2, FS_Subset
    <2> QED BY <1>1, <1>2, <2>2, <2>3 DEF Limiter!LimiterAssumption
  <1>4. v3 \in Nat /\ MaxKeys \in Nat \ {0}
    BY DEF Limiter!LimiterTypeOK, Limiter!LimiterAssumption
  <1>5. \A any \in [Attempts -> Nat \cup {Limiter!Never}] :
           /\ any[k] # Limiter!Never => Limiter!Held([any EXCEPT ![k] = next]) = Limiter!Held(any)
           /\ any[k] = Limiter!Never => Limiter!Held([any EXCEPT ![k] = next]) = Limiter!Held(any) \cup {k}
           /\ any[k] = Limiter!Never => k \notin Limiter!Held(any)
    BY DEF Limiter!Held, Limiter!Never
  <1>8. Limiter!Cardinality(Limiter!Held(swept)) = Cardinality(Limiter!Held(swept))
    BY Counted
  <1>6. CASE swept[k] = Limiter!Never /\ Cardinality(Limiter!Held(swept)) >= MaxKeys
    <2>1. /\ table \in [Attempts -> Nat \cup {Limiter!Never}]
          /\ \A j \in Attempts : table[j] = swept[j] \/ table[j] = Limiter!Never
          /\ Cardinality(Limiter!Held(table)) < MaxKeys
      BY <1>0, <1>1, <1>3, <1>4, <1>6, <1>8, Evicted
    <2>2. table[k] = Limiter!Never
      BY <1>6, <2>1
    <2>3. Cardinality(Limiter!Held(table) \cup {k}) = Cardinality(Limiter!Held(table)) + 1
      BY <1>2, <1>5, <2>1, <2>2, FS_AddElement
    <2>4. \A j \in Attempts : \/ table[j] = v1[j]
                              \/ table[j] = Limiter!Never /\ (v1[j] <= v3 \/ swept[j] > v3)
      BY <1>1, <1>4, <2>1 DEF Limiter!Never
    <2>5. Cardinality(Limiter!Held(table)) \in Nat
      BY <1>2, <2>1
    <2>6. Limiter!Held([table EXCEPT ![k] = next]) = Limiter!Held(table) \cup {k}
      BY <1>5, <2>1, <2>2
    <2>7. Cardinality(Limiter!Held(table)) <= MaxKeys /\ Cardinality(Limiter!Held(table)) + 1 <= MaxKeys
      BY <1>4, <2>1, <2>5
    <2>8. ~(swept[k] > v3)
      BY <1>4, <1>6 DEF Limiter!Never
    <2> QED BY <2>1, <2>3, <2>4, <2>6, <2>7, <2>8
  <1>7. CASE ~(swept[k] = Limiter!Never /\ Cardinality(Limiter!Held(swept)) >= MaxKeys)
    <2>1. table = swept
      BY <1>0, <1>7, <1>8
    <2>2. Cardinality(Limiter!Held(swept)) \in Nat
      BY <1>1, <1>2
    <2>3. CASE swept[k] # Limiter!Never
      BY <1>1, <1>3, <1>5, <2>1, <2>3
    <2>4. CASE swept[k] = Limiter!Never
      <3>1. Cardinality(Limiter!Held(swept) \cup {k}) = Cardinality(Limiter!Held(swept)) + 1
        BY <1>1, <1>2, <1>5, <2>4, FS_AddElement
      <3>2. Cardinality(Limiter!Held(swept)) < MaxKeys
        BY <1>4, <1>7, <2>2, <2>4
      <3>3. Cardinality(Limiter!Held([table EXCEPT ![k] = next])) <= MaxKeys
        <4>1. Limiter!Held([table EXCEPT ![k] = next]) = Limiter!Held(swept) \cup {k}
          BY <1>1, <1>5, <2>1, <2>4
        <4>2. Cardinality(Limiter!Held(swept)) + 1 <= MaxKeys
          BY <1>4, <2>2, <3>2
        <4> QED BY <3>1, <4>1, <4>2
      <3>4. ~(swept[k] > v3)
        BY <1>4, <2>4 DEF Limiter!Never
      <3>5. Limiter!Held(table) = Limiter!Held(swept)
        BY <2>1
      <3>6. \A j \in Attempts : \/ table[j] = v1[j]
                                \/ table[j] = Limiter!Never /\ (v1[j] <= v3 \/ swept[j] > v3)
        BY <1>1, <2>1
      <3> QED BY <1>1, <1>3, <2>1, <3>3, <3>4, <3>5, <3>6
    <2> QED BY <2>3, <2>4
  <1> QED BY <1>6, <1>7

\* The requests of a key are paid for, and no burst is too long.
KeyPaid(k)  == \A i \in 1..Len(v4[k]) : v4[k][i] + Limiter!Cost(Len(v4[k]) - i + 1) <= Limiter!Ahead(k)
KeyBurst(k) == \A i, h \in 1..Len(v4[k]) :
                  i <= h => Limiter!Cost(h - i + 1) <= Period + v4[k][h] - v4[k][i]

LEMMA ByKey ==
    (Limiter!PaidInv <=> \A k \in Attempts : KeyPaid(k)) /\ (Limiter!BurstInv <=> \A k \in Attempts : KeyBurst(k))
  BY DEF Limiter!PaidInv, Limiter!BurstInv, KeyPaid, KeyBurst

LEMMA Suffix ==
    ASSUME NEW h \in Seq(Nat), NEW i \in 1..Len(h) PROVE Len(h) - i + 1 \in Nat /\ h[i] \in Nat
  OBVIOUS

\* A key whose place in the table stays, or whose time has come, or that is forgiven, stays
\* paid for.
LEMMA StaysPaid ==
    ASSUME Limiter!LimiterAssumption, Limiter!LimiterTypeOK, NEW j \in Attempts, KeyPaid(j), KeyBurst(j), v3' \in Nat, v3 <= v3',
           v1'[j] \in Nat \cup {Limiter!Never},
           v4'[j] = <<>> \/ (v4'[j] = v4[j] /\ (v1[j] <= v1'[j] \/ v1[j] <= v3))
    PROVE  KeyPaid(j)' /\ KeyBurst(j)'
  <1>1. CASE v4'[j] = <<>>
    BY <1>1 DEF KeyPaid, KeyBurst
  <1>2. CASE v4'[j] = v4[j] /\ (v1[j] <= v1'[j] \/ v1[j] <= v3)
    <2>1. v4[j] \in Seq(Nat) /\ v3 \in Nat /\ v1[j] \in Nat \cup {Limiter!Never}
      BY DEF Limiter!LimiterTypeOK
    <2>2. Limiter!Ahead(j) <= Limiter!Ahead(j)' /\ Limiter!Ahead(j) \in Nat /\ Limiter!Ahead(j)' \in Nat
      BY <1>2, <2>1 DEF Limiter!Ahead, Limiter!Never
    <2>3. \A i \in 1..Len(v4[j]) : v4[j][i] + Limiter!Cost(Len(v4[j]) - i + 1) <= Limiter!Ahead(j)'
      <3>1. TAKE i \in 1..Len(v4[j])
      <3>2. v4[j][i] + Limiter!Cost(Len(v4[j]) - i + 1) <= Limiter!Ahead(j)
        BY DEF KeyPaid
      <3>3. Len(v4[j]) - i + 1 \in Nat /\ v4[j][i] \in Nat
        BY <2>1, Suffix
      <3>4. Limiter!Cost(Len(v4[j]) - i + 1) \in Nat
        BY <3>3, CostOf
      <3> QED BY <2>2, <3>2, <3>3, <3>4
    <2> QED BY <1>2, <2>3 DEF KeyPaid, KeyBurst, Limiter!Cost
  <1> QED BY <1>1, <1>2

\* A request that is let through pays for itself, and the burst it ends is not too long.
LEMMA PaysItsWay ==
    ASSUME Limiter!LimiterAssumption, Limiter!LimiterTypeOK, NEW k \in Attempts, KeyPaid(k), KeyBurst(k),
           NEW from \in Nat, Limiter!Ahead(k) <= from, v3 <= from, from + Interval <= v3 + Period,
           v4'[k] = Append(v4[k], v3), v1'[k] = from + Interval, v3' = v3
    PROVE  KeyPaid(k)' /\ KeyBurst(k)'
  <1> DEFINE n == Len(v4[k])
             h == v4[k]
             new == v4'[k]
  <1>1. h \in Seq(Nat) /\ v3 \in Nat /\ Interval \in Nat /\ Period \in Nat /\ Interval <= Period
    BY DEF Limiter!LimiterTypeOK, Limiter!LimiterAssumption
  <1>2. Limiter!Ahead(k)' = from + Interval /\ Limiter!Ahead(k) \in Int
    BY <1>1 DEF Limiter!Ahead, Limiter!LimiterTypeOK, Limiter!Never
  <1>3. /\ n \in Nat /\ Len(new) = n + 1 /\ new[n + 1] = v3
        /\ \A i \in 1..n : new[i] = h[i] /\ h[i] \in Nat
    <2>1. new = Append(h, v3) /\ n = Len(h)
      OBVIOUS
    <2> HIDE DEF h, n, new
    <2>2. n \in Nat /\ \A i \in 1..n : h[i] \in Nat
      BY ONLY <1>1, <2>1
    <2>3. Len(new) = n + 1 /\ new[n + 1] = v3
      BY ONLY <1>1, <2>1
    <2>4. \A i \in 1..n : new[i] = h[i]
      BY ONLY <1>1, <2>1
    <2> QED BY ONLY <2>2, <2>3, <2>4
  <1>4. \A m \in Nat : Limiter!Cost(m) \in Nat /\ Limiter!Cost(m + 1) = Limiter!Cost(m) + Interval
    BY CostOf
  <1>5. Limiter!Cost(1) = Interval
    BY CostOf
  <1>6. \A i \in 1..n : h[i] + Limiter!Cost(n - i + 1) <= Limiter!Ahead(k)
    BY DEF KeyPaid
  <1>7. \A i, j \in 1..n : i <= j => Limiter!Cost(j - i + 1) <= Period + h[j] - h[i]
    BY DEF KeyBurst
  <1>11. /\ KeyPaid(k)' <=> \A i \in 1..Len(new) : new[i] + Limiter!Cost(Len(new) - i + 1) <= Limiter!Ahead(k)'
         /\ KeyBurst(k)' <=> \A i, j \in 1..Len(new) :
                                i <= j => Limiter!Cost(j - i + 1) <= Period + new[j] - new[i]
    BY DEF KeyPaid, KeyBurst, Limiter!Cost
  <1> HIDE DEF h, n, new
  <1>8. \A i \in 1..n : h[i] + Limiter!Cost(n + 1 - i + 1) <= from + Interval
    <2>1. TAKE i \in 1..n
    <2>2. n - i + 1 \in Nat /\ n + 1 - i + 1 = (n - i + 1) + 1
      BY <1>3
    <2>3. Limiter!Cost(n + 1 - i + 1) = Limiter!Cost(n - i + 1) + Interval /\ Limiter!Cost(n - i + 1) \in Nat
      BY <1>4, <2>2
    <2>4. h[i] + Limiter!Cost(n - i + 1) <= from /\ h[i] \in Nat
      BY <1>2, <1>3, <1>6, <2>3
    <2> QED BY <1>1, <2>3, <2>4
  <1>9. KeyPaid(k)'
    <2>1. \A i \in 1..(n + 1) : new[i] + Limiter!Cost(n + 1 - i + 1) <= from + Interval
      <3>1. TAKE i \in 1..(n + 1)
      <3>2. CASE i \in 1..n
        BY <1>3, <1>8, <3>2
      <3>3. CASE i = n + 1
        <4>1. n + 1 - i + 1 = 1
          BY <1>3, <3>3
        <4> QED BY <1>1, <1>3, <1>5, <3>3, <4>1
      <3> QED BY <1>3, <3>2, <3>3
    <2> QED BY <1>2, <1>3, <1>11, <2>1
  <1>10. KeyBurst(k)'
    <2>1. \A i, j \in 1..(n + 1) : i <= j => Limiter!Cost(j - i + 1) <= Period + new[j] - new[i]
      <3>1. TAKE i, j \in 1..(n + 1)
      <3>2. HAVE i <= j
      <3>3. CASE i \in 1..n /\ j \in 1..n
        BY <1>3, <1>7, <3>2, <3>3
      <3>4. CASE i \in 1..n /\ j = n + 1
        <4>1. h[i] + Limiter!Cost(j - i + 1) <= v3 + Period /\ h[i] \in Nat
          <5>1. h[i] + Limiter!Cost(n + 1 - i + 1) <= from + Interval /\ h[i] \in Nat
            BY <1>3, <1>8, <3>4
          <5>2. n + 1 - i + 1 \in Nat
            BY <1>3, <3>4
          <5>3. Limiter!Cost(n + 1 - i + 1) \in Nat
            BY <1>4, <5>2
          <5>4. j - i + 1 = n + 1 - i + 1
            BY <1>3, <3>4
          <5>5. h[i] + Limiter!Cost(n + 1 - i + 1) <= v3 + Period
            BY <1>1, <5>1, <5>3
          <5> QED BY <5>1, <5>4, <5>5
        <4>2. j - i + 1 \in Nat
          BY <1>3, <3>4
        <4>3. Limiter!Cost(j - i + 1) \in Nat
          BY <1>4, <4>2
        <4>4. new[i] = h[i] /\ new[j] = v3
          BY <1>3, <3>4
        <4> DEFINE cost == Limiter!Cost(j - i + 1)
        <4>5. cost \in Nat /\ h[i] \in Nat /\ v3 \in Nat /\ Period \in Nat /\ h[i] + cost <= v3 + Period
          BY <1>1, <4>1, <4>3
        <4> HIDE DEF cost
        <4>6. cost <= Period + v3 - h[i]
          BY ONLY <4>5
        <4> QED BY ONLY <4>4, <4>6 DEF cost
      <3>5. CASE i = n + 1 /\ j = n + 1
        <4>1. j - i + 1 = 1
          BY <1>3, <3>5
        <4> QED BY <1>1, <1>3, <1>5, <3>5, <4>1
      <3> QED BY <1>3, <3>2, <3>3, <3>4, <3>5
    <2>2. Len(new) = n + 1
      BY <1>3
    <2>3. \A i, j \in 1..Len(new) : i <= j => Limiter!Cost(j - i + 1) <= Period + new[j] - new[i]
      BY ONLY <2>1, <2>2, Zenon
    <2> QED BY ONLY <1>11, <2>3
  <1> QED BY <1>9, <1>10

\* What Allow does, with its local names as parameters.
Gone(swept, table)      == {j \in Attempts : swept[j] > v3 /\ table[j] = Limiter!Never}
KeptHits(swept, table)  == [j \in Attempts |-> IF j \in Gone(swept, table) THEN <<>> ELSE v4[j]]
KeptTold(swept, table)  == [j \in Attempts |-> IF j \in Gone(swept, table) THEN Limiter!Never ELSE v5[j]]
From(k, table)          == IF table[k] < v3 THEN v3 ELSE table[k]

LetThrough(k, swept, table) ==
    /\ v3 >= (From(k, table) + Interval) - Period
    /\ v1' = [table EXCEPT ![k] = From(k, table) + Interval]
    /\ v4' = [KeptHits(swept, table) EXCEPT ![k] = Append(@, v3)]
    /\ v5' = [KeptTold(swept, table) EXCEPT ![k] = Limiter!Never]

Refused(k, swept, table) ==
    /\ v3 < (From(k, table) + Interval) - Period
    /\ v1' = table /\ v4' = KeptHits(swept, table)
    /\ v5' = [KeptTold(swept, table) EXCEPT ![k] = (From(k, table) + Interval) - Period]

LEMMA AllowSteps ==
    ASSUME NEW k \in Attempts, Limiter!Allow(k)
    PROVE  /\ v2' = (v2 + 1) % SweepEvery /\ v3' = v3
           /\ \E table : /\ Looks(k, Limiter!Sweep(v1), table)
                         /\ LetThrough(k, Limiter!Sweep(v1), table) \/ Refused(k, Limiter!Sweep(v1), table)
  <1> DEFINE swept == Limiter!Sweep(v1)
  <1>1. v2' = (v2 + 1) % SweepEvery /\ v3' = v3
    BY DEF Limiter!Allow
  <1> DEFINE told(table) == [j \in Attempts |-> IF j \in Gone(swept, table) \cup {k} THEN Limiter!Never ELSE v5[j]]
  <1>2. PICK table \in IF swept[k] = Limiter!Never /\ Limiter!Cardinality(Limiter!Held(swept)) >= MaxKeys
                       THEN Limiter!Evict(swept) ELSE {swept} :
          \/ /\ v3 >= (From(k, table) + Interval) - Period
             /\ v1' = [table EXCEPT ![k] = From(k, table) + Interval]
             /\ v4' = [KeptHits(swept, table) EXCEPT ![k] = Append(@, v3)]
             /\ v5' = told(table)
          \/ Refused(k, swept, table)
    <2>1. \E table \in IF swept[k] = Limiter!Never /\ Limiter!Cardinality(Limiter!Held(swept)) >= MaxKeys
                       THEN Limiter!Evict(swept) ELSE {swept} :
             \/ /\ v3 >= (From(k, table) + Interval) - Period
                /\ Len(v4[k]) < MaxHits
                /\ v1' = [table EXCEPT ![k] = From(k, table) + Interval]
                /\ v4' = [KeptHits(swept, table) EXCEPT ![k] = Append(@, v3)]
                /\ v5' = told(table)
             \/ /\ v3 < (From(k, table) + Interval) - Period
                /\ v1' = table
                /\ v4' = KeptHits(swept, table)
                /\ v5' = [KeptTold(swept, table) EXCEPT ![k] = (From(k, table) + Interval) - Period]
      BY DEF Limiter!Allow, Gone, KeptHits, KeptTold, From
    <2> HIDE DEF swept, told
    <2> QED BY <2>1 DEF Refused
  <1>3. told(table) = [KeptTold(swept, table) EXCEPT ![k] = Limiter!Never]
    BY DEF KeptTold
  <1>5. Looks(k, swept, table)
    BY <1>2 DEF Looks
  <1> HIDE DEF swept, told
  <1>4. LetThrough(k, swept, table) \/ Refused(k, swept, table)
    BY <1>2, <1>3 DEF LetThrough
  <1> QED BY <1>1, <1>4, <1>5 DEF swept

\* The table in which the key is looked up, and the time the request counts from.
LEMMA AllowFrom ==
    ASSUME Limiter!LimiterAssumption, Limiter!LimiterTypeOK, NEW k \in Attempts,
           NEW table, Looks(k, Limiter!Sweep(v1), table)
    PROVE  /\ table \in [Attempts -> Nat \cup {Limiter!Never}]
           /\ \A j \in Attempts : table[j] = v1[j]
                                  \/ (table[j] = Limiter!Never /\ (v1[j] <= v3 \/ j \in Gone(Limiter!Sweep(v1), table)))
           /\ k \notin Gone(Limiter!Sweep(v1), table)
           /\ From(k, table) \in Nat /\ v3 <= From(k, table) /\ Limiter!Ahead(k) <= From(k, table)
           /\ table[k] >= v3 \/ From(k, table) = v3
           /\ Cardinality(Limiter!Held(table)) <= MaxKeys
           /\ Cardinality(Limiter!Held([table EXCEPT ![k] = From(k, table) + Interval])) <= MaxKeys
  <1> DEFINE swept == Limiter!Sweep(v1)
  <1>1. HasPlace(k, swept, table)
    BY Looked
  <1>2. v3 \in Nat /\ Interval \in Nat /\ v1 \in [Attempts -> Nat \cup {Limiter!Never}]
    BY DEF Limiter!LimiterTypeOK, Limiter!LimiterAssumption
  <1> HIDE DEF swept
  <1>3. /\ table \in [Attempts -> Nat \cup {Limiter!Never}]
        /\ \A j \in Attempts : \/ table[j] = v1[j]
                               \/ table[j] = Limiter!Never /\ (v1[j] <= v3 \/ swept[j] > v3)
        /\ swept[k] > v3 => table[k] # Limiter!Never
    BY <1>1 DEF HasPlace
  <1>4. From(k, table) \in Nat /\ v3 <= From(k, table) /\ (table[k] >= v3 \/ From(k, table) = v3)
    BY <1>2, <1>3 DEF From, Limiter!Never
  <1>5. From(k, table) + Interval \in Nat
    BY <1>2, <1>4
  <1>6. /\ Cardinality(Limiter!Held(table)) <= MaxKeys
        /\ Cardinality(Limiter!Held([table EXCEPT ![k] = From(k, table) + Interval])) <= MaxKeys
    BY <1>1, <1>5, Zenon DEF HasPlace
  <1>7. k \notin Gone(swept, table)
    BY <1>3 DEF Gone
  <1>8. \A j \in Attempts : table[j] = v1[j]
                            \/ (table[j] = Limiter!Never /\ (v1[j] <= v3 \/ j \in Gone(swept, table)))
    BY <1>3 DEF Gone
  <1>9. Limiter!Ahead(k) <= From(k, table)
    BY <1>2, <1>3, <1>7, <1>8 DEF From, Limiter!Ahead, Limiter!Never
  <1> QED BY <1>3, <1>4, <1>6, <1>7, <1>8, <1>9 DEF swept

\* A request moves its key's time on or is refused; the other keys stay, or are forgotten.
LEMMA AllowKeeps ==
    ASSUME Limiter!LimiterAssumption, Limiter!LimiterInv, NEW k \in Attempts, Limiter!Allow(k)
    PROVE  Limiter!LimiterInv'
  <1> DEFINE swept == Limiter!Sweep(v1)
  <1>1. v2' = (v2 + 1) % SweepEvery /\ v3' = v3
    BY AllowSteps
  <1>2. PICK table : Looks(k, swept, table) /\ (LetThrough(k, swept, table) \/ Refused(k, swept, table))
    BY AllowSteps
  <1> DEFINE from == From(k, table)
             gone == Gone(swept, table)
  <1>3. /\ table \in [Attempts -> Nat \cup {Limiter!Never}]
        /\ \A j \in Attempts : table[j] = v1[j] \/ (table[j] = Limiter!Never /\ (v1[j] <= v3 \/ j \in gone))
        /\ k \notin gone
        /\ from \in Nat /\ v3 <= from /\ Limiter!Ahead(k) <= from
        /\ table[k] >= v3 \/ from = v3
        /\ Cardinality(Limiter!Held(table)) <= MaxKeys
        /\ Cardinality(Limiter!Held([table EXCEPT ![k] = from + Interval])) <= MaxKeys
    BY <1>2, AllowFrom DEF Limiter!LimiterInv
  <1>4. /\ v1 \in [Attempts -> Nat \cup {Limiter!Never}] /\ v2 \in Nat /\ v3 \in 0..MaxClock /\ MaxClock \in Nat
        /\ v4 \in [Attempts -> Seq(Nat)] /\ v5 \in [Attempts -> Nat \cup {Limiter!Never}]
        /\ Interval \in Nat /\ Period \in Nat /\ Interval <= Period /\ SweepEvery \in Nat \ {0}
    BY DEF Limiter!LimiterInv, Limiter!LimiterTypeOK, Limiter!LimiterAssumption
  <1>5. /\ KeptHits(swept, table) = [j \in Attempts |-> IF j \in gone THEN <<>> ELSE v4[j]]
        /\ KeptTold(swept, table) = [j \in Attempts |-> IF j \in gone THEN Limiter!Never ELSE v5[j]]
    BY DEF KeptHits, KeptTold
  <1>6. LetThrough(k, swept, table) =>
          /\ from + Interval <= v3 + Period
          /\ v1' = [table EXCEPT ![k] = from + Interval]
          /\ v4' = [KeptHits(swept, table) EXCEPT ![k] = Append(@, v3)]
          /\ v5' = [KeptTold(swept, table) EXCEPT ![k] = Limiter!Never]
    BY <1>3, <1>4 DEF LetThrough
  <1>7. Refused(k, swept, table) =>
          /\ v3 < (from + Interval) - Period
          /\ v1' = table /\ v4' = KeptHits(swept, table)
          /\ v5' = [KeptTold(swept, table) EXCEPT ![k] = (from + Interval) - Period]
    BY DEF Refused
  <1>8. \A j \in Attempts : KeyPaid(j) /\ KeyBurst(j)
    BY ByKey DEF Limiter!LimiterInv
  <1>9. Limiter!LimiterTypeOK
    BY DEF Limiter!LimiterInv
  <1>10. Cardinality(Limiter!Held(v1')) <= MaxKeys
    BY <1>2, <1>3, <1>6, <1>7
  <1>11. \A j \in Attempts : v5[j] # Limiter!Never /\ v1[j] # Limiter!Never => v5[j] = v1[j] + Interval - Period
    BY DEF Limiter!LimiterInv, Limiter!ToldInv
  <1> HIDE DEF swept, from, gone
  <1>12. v1' \in [Attempts -> Nat \cup {Limiter!Never}] /\ v3' \in Nat /\ v3 <= v3'
    <2>1. from + Interval \in Nat
      BY ONLY <1>3, <1>4
    <2>2. v1' \in [Attempts -> Nat \cup {Limiter!Never}]
      BY ONLY <1>2, <1>3, <1>6, <1>7, <2>1
    <2>3. v3 \in Nat
      BY <1>4
    <2> QED BY ONLY <1>1, <2>2, <2>3
  <1>13. \A j \in Attempts : j # k \/ Refused(k, swept, table) =>
            /\ v1'[j] = table[j]
            /\ v4'[j] = IF j \in gone THEN <<>> ELSE v4[j]
    <2>1. CASE LetThrough(k, swept, table)
      <3>1. \A j \in Attempts : j # k => /\ v1'[j] = table[j]
                                         /\ v4'[j] = IF j \in gone THEN <<>> ELSE v4[j]
        BY ONLY <1>3, <1>5, <1>6, <2>1
      <3>2. v4' = v4' /\ (Refused(k, swept, table) => ~LetThrough(k, swept, table))
        BY <1>3, <1>4, <1>6, <1>7
      <3> QED BY ONLY <2>1, <3>1, <3>2
    <2>2. CASE Refused(k, swept, table)
      BY ONLY <1>5, <1>7, <2>2
    <2> QED BY <1>2, <2>1, <2>2
  <1>14. \A j \in Attempts : j # k \/ Refused(k, swept, table) => KeyPaid(j)' /\ KeyBurst(j)'
    <2>1. TAKE j \in Attempts
    <2>2. HAVE j # k \/ Refused(k, swept, table)
    <2>3. v4'[j] = <<>> \/ (v4'[j] = v4[j] /\ (v1[j] <= v1'[j] \/ v1[j] <= v3))
      <3>1. v1'[j] = table[j] /\ v4'[j] = IF j \in gone THEN <<>> ELSE v4[j]
        BY <1>13, <2>2
      <3>2. CASE j \in gone
        BY <3>1, <3>2
      <3>3. CASE j \notin gone
        <4>1. v1[j] \in Nat \cup {Limiter!Never} /\ v3 \in Nat
          BY <1>4
        <4>2. table[j] = v1[j] \/ v1[j] <= v3
          BY <1>3, <3>3
        <4> QED BY ONLY <3>1, <3>3, <4>1, <4>2 DEF Limiter!Never
      <3> QED BY <3>2, <3>3
    <2> QED BY <1>8, <1>9, <1>12, <2>3, StaysPaid
  <1>15. LetThrough(k, swept, table) => KeyPaid(k)' /\ KeyBurst(k)'
    <2>1. HAVE LetThrough(k, swept, table)
    <2>2. v4'[k] = Append(v4[k], v3) /\ v1'[k] = from + Interval /\ from + Interval <= v3 + Period
      BY <1>3, <1>5, <1>6, <2>1
    <2> QED BY <1>1, <1>3, <1>8, <1>9, <2>2, PaysItsWay
  <1>16. \A j \in Attempts : KeyPaid(j)' /\ KeyBurst(j)'
    BY <1>2, <1>14, <1>15
  <1>17. Limiter!PaidInv' /\ Limiter!BurstInv'
    BY <1>16 DEF KeyPaid, KeyBurst, Limiter!PaidInv, Limiter!BurstInv
  <1>18. Refused(k, swept, table) => table[k] # Limiter!Never /\ from = table[k]
    BY <1>3, <1>4 DEF Refused, from, From, Limiter!Never
  <1>19. Limiter!ToldInv'
    <2>1. \A j \in Attempts : v5'[j] # Limiter!Never /\ v1'[j] # Limiter!Never
                                 => v5'[j] = v1'[j] + Interval - Period
      <3>1. TAKE j \in Attempts
      <3>2. CASE j # k
        BY <1>2, <1>3, <1>5, <1>6, <1>7, <1>11, <3>2
      <3>3. CASE j = k
        BY <1>2, <1>3, <1>4, <1>5, <1>6, <1>7, <1>18, <3>3
      <3> QED BY <3>2, <3>3
    <2> QED BY <2>1 DEF Limiter!ToldInv
  <1>20. v4' \in [Attempts -> Seq(Nat)]
    <2>1. KeptHits(swept, table) \in [Attempts -> Seq(Nat)]
      <3>1. <<>> \in Seq(Nat)
        OBVIOUS
      <3> QED BY <1>4, <1>5, <3>1, Zenon
    <2>2. \A h \in Seq(Nat) : Append(h, v3) \in Seq(Nat)
      BY <1>4
    <2>3. KeptHits(swept, table)[k] \in Seq(Nat)
      BY ONLY <2>1
    <2>4. Append(KeptHits(swept, table)[k], v3) \in Seq(Nat)
      BY ONLY <2>2, <2>3
    <2>5. [KeptHits(swept, table) EXCEPT ![k] = Append(@, v3)] \in [Attempts -> Seq(Nat)]
      BY ONLY <2>1, <2>4
    <2> QED BY <1>2, <1>6, <1>7, <2>1, <2>5, Zenon
  <1>21. v5' \in [Attempts -> Nat \cup {Limiter!Never}]
    <2>1. Refused(k, swept, table) => (from + Interval) - Period \in Nat
      BY <1>3, <1>4, <1>7
    <2> QED BY <1>2, <1>3, <1>4, <1>5, <1>6, <1>7, <2>1
  <1>22. v2' \in 0..(SweepEvery - 1) /\ v3' \in 0..MaxClock
    BY <1>1, <1>4
  <1>23. Limiter!LimiterTypeOK'
    <2>1. Limiter!Cardinality(Limiter!Held(v1')) = Cardinality(Limiter!Held(v1'))
      BY Counted
    <2>2. Limiter!Held(v1') = {j \in Attempts : v1'[j] # Limiter!Never}
      BY DEF Limiter!Held
    <2>3. Limiter!Cardinality({j \in Attempts : v1'[j] # Limiter!Never}) <= MaxKeys
      BY <1>10, <2>1, <2>2
    <2> QED BY <1>12, <1>20, <1>21, <1>22, <2>3 DEF Limiter!LimiterTypeOK, Limiter!Never
  <1> QED BY <1>17, <1>19, <1>23 DEF Limiter!LimiterInv

\* A sign-in with the right password forgets the key and forgives it.
LEMMA ResetKeeps ==
    ASSUME Limiter!LimiterAssumption, Limiter!LimiterInv, NEW k \in Attempts, Limiter!Reset(k)
    PROVE  Limiter!LimiterInv'
  <1>1. /\ v1 \in [Attempts -> Nat \cup {Limiter!Never}] /\ v3 \in Nat
        /\ v4 \in [Attempts -> Seq(Nat)] /\ v5 \in [Attempts -> Nat \cup {Limiter!Never}]
        /\ v2 \in 0..(SweepEvery - 1) /\ v3 \in 0..MaxClock
    BY DEF Limiter!LimiterInv, Limiter!LimiterTypeOK, Limiter!LimiterAssumption
  <1>2. /\ v1' = [v1 EXCEPT ![k] = Limiter!Never] /\ v2' = v2 /\ v3' = v3
        /\ v4' = [j \in Attempts |-> IF j \in {k} THEN <<>> ELSE v4[j]]
        /\ v5' = [j \in Attempts |-> IF j \in {k} THEN Limiter!Never ELSE v5[j]]
    BY DEF Limiter!Reset, Limiter!Forgive
  <1>3. \A j \in Attempts : KeyPaid(j) /\ KeyBurst(j)
    BY ByKey DEF Limiter!LimiterInv
  <1>4. \A j \in Attempts : KeyPaid(j)' /\ KeyBurst(j)'
    <2>1. TAKE j \in Attempts
    <2>2. v4'[j] = <<>> \/ (v4'[j] = v4[j] /\ (v1[j] <= v1'[j] \/ v1[j] <= v3))
      <3>1. CASE j = k
        BY <1>2, <3>1
      <3>2. CASE j # k
        <4>1. v4'[j] = v4[j] /\ v1'[j] = v1[j] /\ v1[j] \in Nat \cup {Limiter!Never}
          BY <1>1, <1>2, <3>2
        <4> QED BY ONLY <4>1 DEF Limiter!Never
      <3> QED BY <3>1, <3>2
    <2>3. v1'[j] \in Nat \cup {Limiter!Never} /\ v3' \in Nat /\ v3 <= v3'
      BY <1>1, <1>2
    <2>4. Limiter!LimiterTypeOK
      BY DEF Limiter!LimiterInv
    <2> QED BY <1>3, <2>2, <2>3, <2>4, StaysPaid
  <1>5. Limiter!PaidInv' /\ Limiter!BurstInv'
    BY <1>4 DEF KeyPaid, KeyBurst, Limiter!PaidInv, Limiter!BurstInv
  <1>6. Limiter!ToldInv'
    BY <1>1, <1>2 DEF Limiter!LimiterInv, Limiter!ToldInv
  <1>7. Cardinality(Limiter!Held(v1')) <= MaxKeys
    <2>1. Limiter!Held(v1') \in SUBSET Limiter!Held(v1)
      BY <1>1, <1>2 DEF Limiter!Held
    <2>2. Cardinality(Limiter!Held(v1')) <= Cardinality(Limiter!Held(v1))
      BY <2>1, HeldFinite, FS_Subset
    <2>3. Cardinality(Limiter!Held(v1)) <= MaxKeys
      BY Counted DEF Limiter!LimiterInv, Limiter!LimiterTypeOK, Limiter!Held
    <2>4. Cardinality(Limiter!Held(v1)) \in Nat /\ Cardinality(Limiter!Held(v1')) \in Nat /\ MaxKeys \in Nat
      BY HeldFinite DEF Limiter!LimiterAssumption
    <2> QED BY <2>2, <2>3, <2>4
  <1>8. Limiter!LimiterTypeOK'
    <2>1. Limiter!Cardinality(Limiter!Held(v1')) = Cardinality(Limiter!Held(v1'))
      BY Counted
    <2>2. Limiter!Held(v1') = {j \in Attempts : v1'[j] # Limiter!Never}
      BY DEF Limiter!Held
    <2>3. Limiter!Cardinality({j \in Attempts : v1'[j] # Limiter!Never}) <= MaxKeys
      BY <1>7, <2>1, <2>2
    <2> QED BY <1>1, <1>2, <2>3 DEF Limiter!LimiterTypeOK, Limiter!Never
  <1> QED BY <1>5, <1>6, <1>8 DEF Limiter!LimiterInv

\* Time passes, or nothing happens.
LEMMA TickKeeps ==
    ASSUME Limiter!LimiterAssumption, Limiter!LimiterInv, Limiter!LimiterTick \/ UNCHANGED Limiter!limiterVars
    PROVE  Limiter!LimiterInv'
  <1>1. v1' = v1 /\ v2' = v2 /\ v4' = v4 /\ v5' = v5 /\ v3' \in 0..MaxClock /\ v3 \in Nat /\ v3 <= v3'
    BY DEF Limiter!LimiterTick, Limiter!limiterVars, Limiter!LimiterInv, Limiter!LimiterTypeOK, Limiter!LimiterAssumption
  <1>2. \A j \in Attempts : KeyPaid(j)' /\ KeyBurst(j)'
    <2>1. TAKE j \in Attempts
    <2>2. v1[j] \in Nat \cup {Limiter!Never} /\ Limiter!LimiterTypeOK
      BY DEF Limiter!LimiterInv, Limiter!LimiterTypeOK
    <2>3. v4'[j] = v4[j] /\ v1[j] <= v1'[j] /\ v1'[j] \in Nat \cup {Limiter!Never} /\ v3' \in Nat
      BY <1>1, <2>2 DEF Limiter!Never
    <2>4. KeyPaid(j) /\ KeyBurst(j)
      BY ByKey DEF Limiter!LimiterInv
    <2> QED BY <1>1, <2>2, <2>3, <2>4, StaysPaid
  <1>3. Limiter!PaidInv' /\ Limiter!BurstInv'
    BY <1>2 DEF KeyPaid, KeyBurst, Limiter!PaidInv, Limiter!BurstInv
  <1>4. Limiter!LimiterTypeOK' /\ Limiter!ToldInv'
    BY <1>1 DEF Limiter!LimiterInv, Limiter!LimiterTypeOK, Limiter!ToldInv
  <1> QED BY <1>3, <1>4 DEF Limiter!LimiterInv

\* Nobody was let through or refused at the start.
LEMMA LimiterStarts ==
    ASSUME Limiter!LimiterAssumption, Limiter!LimiterInit PROVE Limiter!LimiterInv
  <1>1. \A j \in Attempts : v1[j] = Limiter!Never /\ v4[j] = <<>> /\ v5[j] = Limiter!Never
    BY DEF Limiter!LimiterInit
  <1>2. Limiter!Cardinality({j \in Attempts : v1[j] # Limiter!Never}) = 0
    <2>1. {j \in Attempts : v1[j] # Limiter!Never} = {}
      BY <1>1
    <2>2. Limiter!Cardinality({}) = Cardinality({})
      BY Counted
    <2> QED BY <2>1, <2>2, FS_EmptySet
  <1>3. Limiter!LimiterTypeOK
    BY <1>2 DEF Limiter!LimiterInit, Limiter!LimiterTypeOK, Limiter!LimiterAssumption
  <1> QED BY <1>1, <1>3 DEF Limiter!LimiterInv, Limiter!PaidInv, Limiter!BurstInv, Limiter!ToldInv

\* Every step of the limiter keeps the invariant.
LEMMA LimiterKeeps ==
    ASSUME Limiter!LimiterAssumption, Limiter!LimiterInv, [Limiter!LimiterNext]_(Limiter!limiterVars)
    PROVE  Limiter!LimiterInv'
  BY AllowKeeps, ResetKeeps, TickKeeps DEF Limiter!LimiterNext, Limiter!Middleware, Limiter!Bearer

\* What the invariant says of the two promises.
LEMMA LimiterGives ==
    ASSUME Limiter!LimiterAssumption, Limiter!LimiterInv PROVE Limiter!WithinRate /\ Limiter!RetryIsHonoured
  <1>1. Limiter!WithinRate
    <2>1. ASSUME NEW k \in Attempts, NEW i \in 1..Len(v4[k]), NEW j \in 1..Len(v4[k]), i <= j
          PROVE  j - i + 1 <= (Period + v4[k][j] - v4[k][i]) \div Interval
      <3>1. Limiter!Cost(j - i + 1) <= Period + v4[k][j] - v4[k][i]
        BY <2>1 DEF Limiter!LimiterInv, Limiter!BurstInv
      <3>2. v4[k] \in Seq(Nat) /\ Period \in Nat
        BY DEF Limiter!LimiterInv, Limiter!LimiterTypeOK, Limiter!LimiterAssumption
      <3>3. j - i + 1 \in Nat /\ Period + v4[k][j] - v4[k][i] \in Int
        <4> DEFINE h == v4[k]
        <4>1. h \in Seq(Nat) /\ i \in 1..Len(h) /\ j \in 1..Len(h)
          BY <3>2
        <4> HIDE DEF h
        <4>2. Len(h) \in Nat /\ h[i] \in Nat /\ h[j] \in Nat
          BY ONLY <4>1
        <4>3. i \in Nat /\ j \in Nat /\ j - i + 1 \in Nat
          BY ONLY <2>1, <4>1, <4>2
        <4>4. Period + h[j] - h[i] \in Int
          BY ONLY <3>2, <4>2
        <4> QED BY ONLY <4>3, <4>4 DEF h
      <3> DEFINE n == j - i + 1
                 x == Period + v4[k][j] - v4[k][i]
      <3>4. n \in Nat /\ x \in Int /\ Limiter!Cost(n) <= x
        BY <3>1, <3>3
      <3> HIDE DEF n, x
      <3>5. n <= x \div Interval
        BY <3>4, Paid
      <3> QED BY ONLY <3>5 DEF n, x
    <2> QED BY <2>1 DEF Limiter!WithinRate
  <1>2. Limiter!RetryIsHonoured
    BY DEF Limiter!LimiterInv, Limiter!LimiterTypeOK, Limiter!LimiterAssumption, Limiter!ToldInv,
           Limiter!RetryIsHonoured, Limiter!Blocked
  <1> QED BY <1>1, <1>2

\* For any keys, period, interval, table size and times of sweeping: between any two requests
\* of a key that were let through there were no more than a burst and what the rate allows,
\* and a key that waited as long as it was told is not refused (ratelimit: AllowN, expire,
\* sweep, evict, Blocked, Reset).
THEOREM RateStaysKept == Spec => []RateIsKept
  <1> DEFINE Inv == part = "limiter" => Limiter!LimiterInv
  <1>0. Limiter!LimiterAssumption
    BY AccessAssumption
  <1>1. Init => Inv
    BY <1>0, LimiterStarts DEF Init
  <1>2. Inv /\ [Next]_vars => Inv'
    <2>1. ASSUME Inv, [Next]_vars, part' = "limiter" PROVE Limiter!LimiterInv'
      <3>1. part = "limiter" /\ [Limiter!LimiterNext]_(Limiter!limiterVars)
        BY <2>1 DEF Next, vars, Limiter!limiterVars
      <3> QED BY <1>0, <2>1, <3>1, LimiterKeeps
    <2> QED BY <2>1
  <1>3. Inv => RateIsKept
    BY <1>0, LimiterGives DEF RateIsKept
  <1> QED BY <1>1, <1>2, <1>3, PTL DEF Spec

-----------------------------------------------------------------------------
(* Migrations.  v1 is schema, v2 version, v3 holder, v4 migs, v5 forced,   *)
(* v6 commands.                                                            *)

MigFacts ==
    /\ v1 \in 0..Newest /\ v2 \in [v : 0..Newest, dirty : BOOLEAN] /\ v5 \in BOOLEAN
    /\ v4 \in [Builds -> [pc : {"idle", "asked", "held", "marked", "ran", "check", "up"},
                          serve : BOOLEAN, verb : {"up", "down", "goto"}, n : Nat, goal : 0..Newest]]
    /\ Newest \in Nat /\ BuildLatest \in [Builds -> 0..Newest]
    /\ \A m \in Builds : /\ v4[m].pc \in {"held", "marked", "ran"} => v3 = [is |-> m]
                         /\ v4[m].verb = "goto" => v4[m].n \in 0..Newest
    /\ ~v2.dirty /\ ~v5 => v1 = v2.v
    /\ \A m \in Builds : /\ v4[m].pc \in {"marked", "ran"} => v2.dirty
                         /\ v4[m].pc = "ran" /\ ~v5 => v1 = v2.v

LEMMA MigFactsHold ==
    ASSUME Migrations!MigrationsAssumption, Migrations!SchemaInv PROVE MigFacts /\ v6 \in 0..MaxCommands
  BY DEF MigFacts, Migrations!MigrationsAssumption, Migrations!SchemaInv, Migrations!MigrationsTypeOK,
         Migrations!RowInv, Migrations!MarkInv, Migrations!Versions

\* Only one migrator has the lock.
LEMMA OneHolds ==
    ASSUME MigFacts, NEW m \in Builds, v3 = [is |-> m]
    PROVE  \A i \in Builds \ {m} : v4[i].pc \notin {"held", "marked", "ran"}
  BY DEF MigFacts

LEMMA NobodyHolds ==
    ASSUME Migrations!MigrationsAssumption, MigFacts, v3 = Migrations!NoOne
    PROVE  \A i \in Builds : v4[i].pc \notin {"held", "marked", "ran"}
  BY DEF MigFacts, Migrations!NoOne, Migrations!MigrationsAssumption

\* A step of one migrator keeps the invariant if what it is doing now agrees with the row, and
\* the others hold nothing or the row and the tables stay.
Agrees(m) ==
    /\ v1' \in 0..Newest /\ v2' \in [v : 0..Newest, dirty : BOOLEAN] /\ v5' \in BOOLEAN /\ v6' \in 0..MaxCommands
    /\ \E r \in [pc : {"idle", "asked", "held", "marked", "ran", "check", "up"},
                 serve : BOOLEAN, verb : {"up", "down", "goto"}, n : Nat, goal : 0..Newest] :
          /\ v4' = [v4 EXCEPT ![m] = r]
          /\ r.verb = "goto" => r.n \in 0..Newest
          /\ r.pc \in {"held", "marked", "ran"} => v3' = [is |-> m]
          /\ r.pc \in {"marked", "ran"} => v2'.dirty
          /\ r.pc = "ran" /\ ~v5' => v1' = v2'.v
          /\ r.pc = "up" => v4[m].pc = "up" \/ v5 \/ v1 = BuildLatest[m]
    /\ ~v2'.dirty /\ ~v5' => v1' = v2'.v
    /\ \/ v1' = v1 /\ v2' = v2 /\ v3' = v3 /\ v5' = v5
       \/ \A i \in Builds \ {m} : v4[i].pc \notin {"held", "marked", "ran"}

LEMMA AgreedKeeps ==
    ASSUME Migrations!MigrationsAssumption, MigFacts, NEW m \in Builds, Agrees(m)
    PROVE  Migrations!SchemaInv' /\ Migrations!StartedOnItsSchema
  <1>1. PICK r \in [pc : {"idle", "asked", "held", "marked", "ran", "check", "up"},
                    serve : BOOLEAN, verb : {"up", "down", "goto"}, n : Nat, goal : 0..Newest] :
          /\ v4' = [v4 EXCEPT ![m] = r]
          /\ r.verb = "goto" => r.n \in 0..Newest
          /\ r.pc \in {"held", "marked", "ran"} => v3' = [is |-> m]
          /\ r.pc \in {"marked", "ran"} => v2'.dirty
          /\ r.pc = "ran" /\ ~v5' => v1' = v2'.v
          /\ r.pc = "up" => v4[m].pc = "up" \/ v5 \/ v1 = BuildLatest[m]
    BY DEF Agrees
  <1>2. v4'[m] = r /\ \A i \in Builds \ {m} : v4'[i] = v4[i]
    BY <1>1 DEF MigFacts
  <1>3. v4' \in [Builds -> [pc : {"idle", "asked", "held", "marked", "ran", "check", "up"},
                            serve : BOOLEAN, verb : {"up", "down", "goto"}, n : Nat, goal : 0..Newest]]
    BY <1>1 DEF MigFacts
  <1>4. /\ v1' \in 0..Newest /\ v2' \in [v : 0..Newest, dirty : BOOLEAN] /\ v5' \in BOOLEAN
        /\ v6' \in 0..MaxCommands
        /\ ~v2'.dirty /\ ~v5' => v1' = v2'.v
    BY DEF Agrees
  <1>5. \A i \in Builds \ {m} :
          /\ v4[i].pc \in {"held", "marked", "ran"} => v3' = [is |-> i]
          /\ v4[i].pc \in {"marked", "ran"} => v2'.dirty
          /\ v4[i].pc = "ran" /\ ~v5' => v1' = v2'.v
          /\ v4[i].verb = "goto" => v4[i].n \in 0..Newest
    BY DEF MigFacts, Agrees
  <1>6. \A i \in Builds :
          /\ v4'[i].pc \in {"held", "marked", "ran"} => v3' = [is |-> i]
          /\ v4'[i].pc \in {"marked", "ran"} => v2'.dirty
          /\ v4'[i].pc = "ran" /\ ~v5' => v1' = v2'.v
          /\ v4'[i].verb = "goto" => v4'[i].n \in 0..Newest
    BY <1>1, <1>2, <1>5
  <1>7. Migrations!SchemaInv'
    BY <1>3, <1>4, <1>6 DEF Migrations!SchemaInv, Migrations!MigrationsTypeOK, Migrations!RowInv,
       Migrations!MarkInv, Migrations!Versions
  <1>8. Migrations!StartedOnItsSchema
    BY <1>1, <1>2 DEF Migrations!StartedOnItsSchema
  <1> QED BY <1>7, <1>8

MigRow == [pc : {"idle", "asked", "held", "marked", "ran", "check", "up"},
           serve : BOOLEAN, verb : {"up", "down", "goto"}, n : Nat, goal : 0..Newest]

\* A migrator that asks, checks, comes up or stops, holding nothing.
LEMMA Apart ==
    ASSUME Migrations!MigrationsAssumption, Migrations!SchemaInv, NEW m \in Builds, NEW r \in MigRow,
           v4' = [v4 EXCEPT ![m] = r], r.pc \in {"idle", "asked", "check", "up"},
           r.verb = "goto" => r.n \in 0..Newest,
           r.pc = "up" => v5 \/ v1 = BuildLatest[m],
           v1' = v1, v2' = v2, v5' = v5, v6' \in 0..MaxCommands,
           v3' = v3 \/ (v3 = [is |-> m] /\ v3' = Migrations!NoOne)
    PROVE  Migrations!SchemaInv' /\ Migrations!StartedOnItsSchema
  <1>1. MigFacts
    BY MigFactsHold
  <1>2. v3' = v3 \/ \A i \in Builds \ {m} : v4[i].pc \notin {"held", "marked", "ran"}
    BY <1>1, OneHolds
  <1>3. Agrees(m)
    BY <1>1, <1>2 DEF Agrees, MigRow, MigFacts
  <1> QED BY <1>1, <1>3, AgreedKeeps

\* The commands, and a server that starts.
LEMMA AskKeeps ==
    ASSUME Migrations!MigrationsAssumption, Migrations!SchemaInv, NEW m \in Builds, NEW ask \in MigRow,
           ask.verb = "goto" => ask.n \in 0..Newest, Migrations!Ask(m, ask)
    PROVE  Migrations!SchemaInv' /\ Migrations!StartedOnItsSchema
  <1> DEFINE r == [ask EXCEPT !.pc = "asked"]
  <1>1. v6 \in 0..MaxCommands /\ MaxCommands \in Nat
    BY MigFactsHold DEF Migrations!MigrationsAssumption
  <1>2. r \in MigRow /\ r.pc = "asked" /\ r.verb = ask.verb /\ r.n = ask.n
    BY DEF MigRow
  <1>3. v4' = [v4 EXCEPT ![m] = r] /\ v1' = v1 /\ v2' = v2 /\ v3' = v3 /\ v5' = v5
    BY DEF Migrations!Ask, Migrations!With
  <1>4. v6' \in 0..MaxCommands
    BY <1>1 DEF Migrations!Ask, Migrations!Command
  <1> HIDE DEF r
  <1> QED BY <1>2, <1>3, <1>4, Apart

LEMMA CommandKeeps ==
    ASSUME Migrations!MigrationsAssumption, Migrations!SchemaInv, NEW m \in Builds,
           \/ \E n \in 0..1 : Migrations!migrateUp(m, n) \/ Migrations!migrateDown(m, n)
           \/ \E v \in Migrations!Versions : Migrations!migrateGoto(m, v)
    PROVE  Migrations!SchemaInv' /\ Migrations!StartedOnItsSchema
  <1> DEFINE ask(verb, n) == [Migrations!Idle EXCEPT !.verb = verb, !.n = n]
  <1>0. Migrations!Idle \in MigRow /\ Migrations!Idle.verb = "up"
    BY DEF MigRow, Migrations!Idle, Migrations!MigrationsAssumption
  <1>1. \A verb \in {"up", "down", "goto"}, n \in Nat :
          ask(verb, n) \in MigRow /\ ask(verb, n).verb = verb /\ ask(verb, n).n = n
    BY <1>0 DEF MigRow
  <1>2. \/ \E n \in 0..1 : Migrations!Ask(m, ask("up", n)) \/ Migrations!Ask(m, ask("down", n))
        \/ \E v \in 0..Newest : Migrations!Ask(m, ask("goto", v))
    BY DEF Migrations!migrateUp, Migrations!migrateDown, Migrations!migrateGoto, Migrations!Versions
  <1> HIDE DEF ask
  <1>3. CASE \E n \in 0..1 : Migrations!Ask(m, ask("up", n)) \/ Migrations!Ask(m, ask("down", n))
    <2>1. PICK n \in 0..1, verb \in {"up", "down"} : Migrations!Ask(m, ask(verb, n))
      BY <1>3
    <2>2. ask(verb, n) \in MigRow /\ ask(verb, n).verb # "goto"
      BY <1>1
    <2> QED BY <2>1, <2>2, AskKeeps
  <1>4. CASE \E v \in 0..Newest : Migrations!Ask(m, ask("goto", v))
    <2>1. PICK v \in 0..Newest : Migrations!Ask(m, ask("goto", v))
      BY <1>4
    <2>2. ask("goto", v) \in MigRow /\ ask("goto", v).n = v
      BY <1>1
    <2> QED BY <2>1, <2>2, AskKeeps
  <1> QED BY <1>2, <1>3, <1>4

LEMMA NewKeeps ==
    ASSUME Migrations!MigrationsAssumption, Migrations!SchemaInv, NEW m \in Builds, NEW migrate \in BOOLEAN,
           Migrations!New(m, migrate)
    PROVE  Migrations!SchemaInv' /\ Migrations!StartedOnItsSchema
  <1> DEFINE r == [Migrations!Idle EXCEPT !.pc = IF migrate THEN "asked" ELSE "check", !.serve = TRUE]
  <1>1. v6 \in 0..MaxCommands /\ MaxCommands \in Nat
    BY MigFactsHold DEF Migrations!MigrationsAssumption
  <1>0. Migrations!Idle \in MigRow /\ Migrations!Idle.verb = "up"
    BY DEF MigRow, Migrations!Idle, Migrations!MigrationsAssumption
  <1>2. r \in MigRow /\ r.pc \in {"asked", "check"} /\ r.verb = "up"
    BY <1>0 DEF MigRow
  <1>3. v4' = [v4 EXCEPT ![m] = r] /\ v1' = v1 /\ v2' = v2 /\ v3' = v3 /\ v5' = v5
    BY DEF Migrations!New, Migrations!With
  <1>4. v6' \in 0..MaxCommands
    BY <1>1 DEF Migrations!New, Migrations!Command
  <1> HIDE DEF r
  <1> QED BY <1>2, <1>3, <1>4, Apart

\* A server that checks what it found, and a migrator that dies.
LEMMA StartKeeps ==
    ASSUME Migrations!MigrationsAssumption, Migrations!SchemaInv, NEW m \in Builds, Migrations!Start(m)
    PROVE  Migrations!SchemaInv' /\ Migrations!StartedOnItsSchema
  <1>1. MigFacts /\ v6 \in 0..MaxCommands
    BY MigFactsHold
  <1>2. v1' = v1 /\ v2' = v2 /\ v3' = v3 /\ v5' = v5 /\ v6' = v6
    BY DEF Migrations!Start
  <1>3. CASE Migrations!CheckSchema(m)
    <2>1. v5 \/ v1 = BuildLatest[m]
      BY <1>1, <1>3 DEF Migrations!CheckSchema, MigFacts
    <2> DEFINE r == [v4[m] EXCEPT !.pc = "up"]
    <2>2. v4' = [v4 EXCEPT ![m] = r]
      BY <1>3 DEF Migrations!Start, Migrations!With
    <2>3. r \in MigRow /\ r.pc = "up" /\ (r.verb = "goto" => r.n \in 0..Newest)
      BY <1>1 DEF MigFacts, MigRow
    <2> HIDE DEF r
    <2> QED BY <1>1, <1>2, <2>1, <2>2, <2>3, Apart
  <1>4. CASE ~Migrations!CheckSchema(m)
    <2>1. Migrations!Idle \in MigRow /\ Migrations!Idle.pc = "idle" /\ Migrations!Idle.verb = "up"
      BY <1>1 DEF Migrations!Idle, MigRow, MigFacts
    <2>2. v4' = [v4 EXCEPT ![m] = Migrations!Idle]
      BY <1>4 DEF Migrations!Start, Migrations!With
    <2> HIDE DEF Migrations!Idle
    <2> QED BY <1>1, <1>2, <2>1, <2>2, Apart
  <1> QED BY <1>3, <1>4

LEMMA DiesKeeps ==
    ASSUME Migrations!MigrationsAssumption, Migrations!SchemaInv, NEW m \in Builds, Migrations!Dies(m)
    PROVE  Migrations!SchemaInv' /\ Migrations!StartedOnItsSchema
  <1>1. MigFacts /\ v6 \in 0..MaxCommands /\ MaxCommands \in Nat
    BY MigFactsHold DEF Migrations!MigrationsAssumption
  <1>2. Migrations!Idle \in MigRow /\ Migrations!Idle.pc = "idle" /\ Migrations!Idle.verb = "up"
    BY <1>1 DEF Migrations!Idle, MigRow, MigFacts
  <1>3. /\ v1' = v1 /\ v2' = v2 /\ v5' = v5 /\ v6' \in 0..MaxCommands
        /\ v3' = v3 \/ (v3 = [is |-> m] /\ v3' = Migrations!NoOne)
        /\ v4' = [v4 EXCEPT ![m] = Migrations!Idle]
    BY <1>1 DEF Migrations!Dies, Migrations!Command, Migrations!With
  <1> QED BY <1>2, <1>3, Apart

\* The lock is taken and given back.
LEMMA LockKeeps ==
    ASSUME Migrations!MigrationsAssumption, Migrations!SchemaInv, NEW m \in Builds,
           Migrations!Lock(m) \/ Migrations!Unlock(m)
    PROVE  Migrations!SchemaInv' /\ Migrations!StartedOnItsSchema
  <1>1. MigFacts /\ v6 \in 0..MaxCommands
    BY MigFactsHold
  <1>2. v1' = v1 /\ v2' = v2 /\ v5' = v5 /\ v6' = v6
    BY DEF Migrations!Lock, Migrations!Unlock
  <1>3. \A ok \in BOOLEAN : LET r == Migrations!Leave(m, ok) IN
          r \in MigRow /\ r.pc \in {"idle", "check"} /\ (r.verb = "goto" => r.n \in 0..Newest)
    BY <1>1 DEF Migrations!Leave, MigFacts, MigRow
  <1>4. CASE Migrations!Lock(m) /\ (v2.dirty \/ v2.v > BuildLatest[m])
    BY <1>1, <1>2, <1>3, <1>4, Apart DEF Migrations!Lock, Migrations!With
  <1>5. CASE Migrations!Unlock(m)
    <2>1. v3 = [is |-> m]
      BY <1>1, <1>5 DEF Migrations!Unlock, MigFacts
    <2>2. v3' = Migrations!NoOne /\ v4' = [v4 EXCEPT ![m] = Migrations!Leave(m, v4[m].goal = v2.v)]
      BY <1>5 DEF Migrations!Unlock, Migrations!With
    <2>3. (v4[m].goal = v2.v) \in BOOLEAN
      OBVIOUS
    <2> QED BY <1>1, <1>2, <1>3, <2>1, <2>2, <2>3, Apart
  <1>6. CASE Migrations!Lock(m) /\ ~(v2.dirty \/ v2.v > BuildLatest[m])
    <2>1. Migrations!Goal(m) \in 0..Newest
      BY <1>1 DEF Migrations!Goal, Migrations!MigrateUp, Migrations!MigrateDown, Migrations!MigrateGoto,
         Migrations!Least, MigFacts
    <2>2. v3 = Migrations!NoOne /\ v3' = [is |-> m]
      BY <1>6 DEF Migrations!Lock
    <2>3. v4' = [v4 EXCEPT ![m] = [v4[m] EXCEPT !.pc = "held", !.goal = Migrations!Goal(m)]]
      BY <1>6 DEF Migrations!Lock, Migrations!With
    <2>4. \A i \in Builds \ {m} : v4[i].pc \notin {"held", "marked", "ran"}
      BY <1>1, <2>2, NobodyHolds
    <2> DEFINE r == [v4[m] EXCEPT !.pc = "held", !.goal = Migrations!Goal(m)]
    <2>5. v4' = [v4 EXCEPT ![m] = r] /\ r \in MigRow /\ r.pc = "held" /\ (r.verb = "goto" => r.n \in 0..Newest)
      BY <1>1, <2>1, <2>3 DEF MigFacts, MigRow
    <2> HIDE DEF r
    <2>6. Agrees(m)
      BY <1>1, <1>2, <2>2, <2>4, <2>5 DEF Agrees, MigRow, MigFacts
    <2> QED BY <1>1, <2>6, AgreedKeeps
  <1> QED BY <1>4, <1>5, <1>6

\* A migration is marked, run and cleared.
LEMMA MarkKeeps ==
    ASSUME Migrations!MigrationsAssumption, Migrations!SchemaInv, NEW m \in Builds, Migrations!Mark(m)
    PROVE  Migrations!SchemaInv' /\ Migrations!StartedOnItsSchema
  <1> DEFINE r == [v4[m] EXCEPT !.pc = "marked"]
  <1>1. MigFacts /\ v6 \in 0..MaxCommands
    BY MigFactsHold
  <1>2. r \in MigRow /\ r.pc = "marked" /\ (r.verb = "goto" => r.n \in 0..Newest)
    BY <1>1 DEF MigFacts, MigRow
  <1>3. /\ v4[m].pc = "held" /\ v4[m].goal # v2.v /\ v2' = [v |-> Migrations!Step(m), dirty |-> TRUE]
        /\ v4' = [v4 EXCEPT ![m] = r] /\ v1' = v1 /\ v3' = v3 /\ v5' = v5 /\ v6' = v6
    BY DEF Migrations!Mark, Migrations!With
  <1>4. Migrations!Step(m) \in 0..Newest
    BY <1>1, <1>3 DEF Migrations!Step, MigFacts
  <1>5. v3 = [is |-> m]
    BY <1>1, <1>3 DEF MigFacts
  <1>6. \A i \in Builds \ {m} : v4[i].pc \notin {"held", "marked", "ran"}
    BY <1>1, <1>5, OneHolds
  <1>7. v2' \in [v : 0..Newest, dirty : BOOLEAN] /\ v2'.dirty
    BY <1>3, <1>4
  <1>8. v1 \in 0..Newest /\ v5 \in BOOLEAN
    BY <1>1 DEF MigFacts
  <1> HIDE DEF r
  <1>9. Agrees(m)
    BY <1>1, <1>2, <1>3, <1>5, <1>6, <1>7, <1>8 DEF Agrees, MigRow
  <1> QED BY <1>1, <1>9, AgreedKeeps

LEMMA RunKeeps ==
    ASSUME Migrations!MigrationsAssumption, Migrations!SchemaInv, NEW m \in Builds, NEW works \in BOOLEAN,
           Migrations!RunSQL(m, works)
    PROVE  Migrations!SchemaInv' /\ Migrations!StartedOnItsSchema
  <1>1. MigFacts /\ v6 \in 0..MaxCommands /\ MaxCommands \in Nat
    BY MigFactsHold DEF Migrations!MigrationsAssumption
  <1>2. v4[m].pc = "marked" /\ v2' = v2 /\ v5' = v5
    BY DEF Migrations!RunSQL
  <1>3. v3 = [is |-> m] /\ v2.dirty /\ v2 \in [v : 0..Newest, dirty : BOOLEAN] /\ v5 \in BOOLEAN
    BY <1>1, <1>2 DEF MigFacts
  <1>4. CASE works
    <2> DEFINE r == [v4[m] EXCEPT !.pc = "ran"]
    <2>1. r \in MigRow /\ r.pc = "ran" /\ (r.verb = "goto" => r.n \in 0..Newest)
      BY <1>1 DEF MigFacts, MigRow
    <2>2. v1' = v2.v /\ v4' = [v4 EXCEPT ![m] = r] /\ v3' = v3 /\ v6' = v6
      BY <1>4 DEF Migrations!RunSQL, Migrations!With
    <2>3. \A i \in Builds \ {m} : v4[i].pc \notin {"held", "marked", "ran"}
      BY <1>1, <1>3, OneHolds
    <2> HIDE DEF r
    <2>4. Agrees(m)
      BY <1>1, <1>2, <1>3, <2>1, <2>2, <2>3 DEF Agrees, MigRow
    <2> QED BY <1>1, <2>4, AgreedKeeps
  <1>5. CASE ~works
    <2>1. LET r == Migrations!Leave(m, FALSE) IN
            r \in MigRow /\ r.pc = "idle" /\ (r.verb = "goto" => r.n \in 0..Newest)
      BY <1>1 DEF Migrations!Leave, MigFacts, MigRow
    <2>2. v1' = v1 /\ v3' = Migrations!NoOne /\ v4' = [v4 EXCEPT ![m] = Migrations!Leave(m, FALSE)]
      BY <1>5 DEF Migrations!RunSQL, Migrations!With
    <2>3. v6' \in 0..MaxCommands
      BY <1>1, <1>5 DEF Migrations!RunSQL, Migrations!Command
    <2> QED BY <1>2, <1>3, <2>1, <2>2, <2>3, Apart
  <1> QED BY <1>4, <1>5

LEMMA ClearKeeps ==
    ASSUME Migrations!MigrationsAssumption, Migrations!SchemaInv, NEW m \in Builds, Migrations!Clear(m)
    PROVE  Migrations!SchemaInv' /\ Migrations!StartedOnItsSchema
  <1> DEFINE r == [v4[m] EXCEPT !.pc = "held"]
  <1>1. MigFacts /\ v6 \in 0..MaxCommands
    BY MigFactsHold
  <1>2. r \in MigRow /\ r.pc = "held" /\ (r.verb = "goto" => r.n \in 0..Newest)
    BY <1>1 DEF MigFacts, MigRow
  <1>3. /\ v4[m].pc = "ran" /\ v2' = [v2 EXCEPT !.dirty = FALSE]
        /\ v4' = [v4 EXCEPT ![m] = r] /\ v1' = v1 /\ v3' = v3 /\ v5' = v5 /\ v6' = v6
    BY DEF Migrations!Clear, Migrations!With
  <1>4. v3 = [is |-> m] /\ (~v5 => v1 = v2.v) /\ v1 \in 0..Newest /\ v5 \in BOOLEAN
    BY <1>1, <1>3 DEF MigFacts
  <1>5. v2' \in [v : 0..Newest, dirty : BOOLEAN] /\ v2'.v = v2.v
    BY <1>1, <1>3 DEF MigFacts
  <1>6. \A i \in Builds \ {m} : v4[i].pc \notin {"held", "marked", "ran"}
    BY <1>1, <1>4, OneHolds
  <1> HIDE DEF r
  <1>7. Agrees(m)
    BY <1>1, <1>2, <1>3, <1>4, <1>5, <1>6 DEF Agrees, MigRow
  <1> QED BY <1>1, <1>7, AgreedKeeps

\* A version is forced, by a command that has the lock for one statement.
LEMMA ForceKeeps ==
    ASSUME Migrations!MigrationsAssumption, Migrations!SchemaInv, NEW m \in Builds,
           NEW v \in Migrations!Versions, Migrations!migrateForce(m, v)
    PROVE  Migrations!SchemaInv' /\ Migrations!StartedOnItsSchema
  <1>1. MigFacts /\ v6 \in 0..MaxCommands /\ MaxCommands \in Nat
    BY MigFactsHold DEF Migrations!MigrationsAssumption
  <1>2. /\ v4[m].pc = "idle" /\ v3 = Migrations!NoOne /\ v2' = [v |-> v, dirty |-> FALSE]
        /\ v5' = (v5 \/ v # v1) /\ v1' = v1 /\ v3' = v3 /\ v4' = v4
    BY DEF Migrations!migrateForce
  <1>3. v6' \in 0..MaxCommands
    BY <1>1 DEF Migrations!migrateForce, Migrations!Command
  <1>4. v2' \in [v : 0..Newest, dirty : BOOLEAN] /\ v5' \in BOOLEAN /\ v1 \in 0..Newest
    BY <1>1, <1>2 DEF Migrations!Versions, MigFacts
  <1>5. \A i \in Builds : v4[i].pc \notin {"held", "marked", "ran"}
    BY <1>1, <1>2, NobodyHolds
  <1>6. v4[m] \in MigRow /\ (v4[m].verb = "goto" => v4[m].n \in 0..Newest) /\ v4' = [v4 EXCEPT ![m] = v4[m]]
    BY <1>1, <1>2 DEF MigFacts, MigRow
  <1>7. Agrees(m)
    BY <1>2, <1>3, <1>4, <1>5, <1>6 DEF Agrees, MigRow
  <1> QED BY <1>1, <1>7, AgreedKeeps

\* Every step of the commands and servers keeps the invariant, and starts as it should.
LEMMA MigrationsKeep ==
    ASSUME Migrations!MigrationsAssumption, Migrations!SchemaInv, [Migrations!MigrationsNext]_(Migrations!migVars)
    PROVE  Migrations!SchemaInv' /\ Migrations!StartedOnItsSchema
  <1>1. CASE Migrations!MigrationsNext
    <2>1. PICK m \in Builds :
            \/ \/ \E n \in 0..1 : Migrations!migrateUp(m, n) \/ Migrations!migrateDown(m, n)
               \/ \E v \in Migrations!Versions : Migrations!migrateGoto(m, v)
            \/ \E v \in Migrations!Versions : Migrations!migrateForce(m, v)
            \/ \E migrate \in BOOLEAN : Migrations!New(m, migrate)
            \/ \E works \in BOOLEAN : Migrations!RunSQL(m, works)
            \/ (Migrations!Lock(m) \/ Migrations!Unlock(m))
            \/ Migrations!Mark(m) \/ Migrations!Clear(m) \/ Migrations!Start(m) \/ Migrations!Dies(m)
      BY <1>1, Zenon DEF Migrations!MigrationsNext
    <2>2. CASE \/ \E n \in 0..1 : Migrations!migrateUp(m, n) \/ Migrations!migrateDown(m, n)
               \/ \E v \in Migrations!Versions : Migrations!migrateGoto(m, v)
      BY <2>2, CommandKeeps
    <2>3. CASE \E v \in Migrations!Versions : Migrations!migrateForce(m, v)
      BY <2>3, ForceKeeps
    <2>4. CASE \E migrate \in BOOLEAN : Migrations!New(m, migrate)
      BY <2>4, NewKeeps
    <2>5. CASE \E works \in BOOLEAN : Migrations!RunSQL(m, works)
      BY <2>5, RunKeeps
    <2>6. CASE Migrations!Lock(m) \/ Migrations!Unlock(m)
      BY <2>6, LockKeeps
    <2>7. CASE Migrations!Mark(m)
      BY <2>7, MarkKeeps
    <2>8. CASE Migrations!Clear(m)
      BY <2>8, ClearKeeps
    <2>9. CASE Migrations!Start(m)
      BY <2>9, StartKeeps
    <2>10. CASE Migrations!Dies(m)
      BY <2>10, DiesKeeps
    <2> QED BY <2>1, <2>2, <2>3, <2>4, <2>5, <2>6, <2>7, <2>8, <2>9, <2>10
  <1>2. CASE UNCHANGED Migrations!migVars
    <2>1. v1' = v1 /\ v2' = v2 /\ v3' = v3 /\ v4' = v4 /\ v5' = v5 /\ v6' = v6
      BY <1>2 DEF Migrations!migVars
    <2> QED BY <2>1 DEF Migrations!SchemaInv, Migrations!MigrationsTypeOK, Migrations!RowInv, Migrations!MarkInv,
               Migrations!StartedOnItsSchema
  <1> QED BY <1>1, <1>2

LEMMA MigrationsStart ==
    ASSUME Migrations!MigrationsAssumption, Migrations!MigrationsInit PROVE Migrations!SchemaInv
  <1>0. Migrations!Idle \in MigRow /\ Migrations!Idle.verb = "up" /\ Migrations!Idle.pc = "idle"
    BY DEF MigRow, Migrations!Idle, Migrations!MigrationsAssumption
  <1>1. v1 = 0 /\ v2 = [v |-> 0, dirty |-> FALSE] /\ v5 = FALSE /\ v6 = 0 /\ Newest \in Nat /\ MaxCommands \in Nat
    BY DEF Migrations!MigrationsAssumption, Migrations!MigrationsInit
  <1>2. v4 = [m \in Builds |-> Migrations!Idle]
    BY DEF Migrations!MigrationsInit
  <1>3. v4 \in [Builds -> MigRow] /\ \A m \in Builds : v4[m].pc = "idle" /\ v4[m].verb = "up"
    BY <1>0, <1>2
  <1>4. Migrations!MigrationsTypeOK
    <2>1. v1 \in 0..Newest /\ v6 \in 0..MaxCommands
      BY <1>1
    <2>4. v2 \in [v : 0..Newest, dirty : BOOLEAN]
      BY <1>1
    <2>5. v5 \in BOOLEAN
      BY <1>1, Zenon
    <2>2. \A m \in Builds : /\ v4[m].pc \in {"held", "marked", "ran"} => v3 = [is |-> m]
                            /\ v4[m].verb = "goto" => v4[m].n \in 0..Newest
      BY ONLY <1>3
    <2>3. v4 \in [Builds -> MigRow]
      BY ONLY <1>3
    <2>6. v4 \in [Builds -> [pc : {"idle", "asked", "held", "marked", "ran", "check", "up"},
                             serve : BOOLEAN, verb : {"up", "down", "goto"}, n : Nat, goal : 0..Newest]]
      BY <2>3 DEF MigRow
    <2> QED BY <2>1, <2>2, <2>4, <2>5, <2>6 DEF Migrations!MigrationsTypeOK, Migrations!Versions
  <1> QED BY <1>1, <1>3, <1>4 DEF Migrations!SchemaInv, Migrations!RowInv, Migrations!MarkInv

\* For any builds and any number of commands, deaths and failures: a server that comes up found
\* the schema of its build, unless somebody forced a version that was not the schema's
\* (db/migrate.go, CheckSchema; app/app.go, New).
THEOREM StartsRight == Spec => StartsOnItsSchema
  <1> DEFINE Inv == part = "migrations" => Migrations!SchemaInv
             Act == part = "migrations" => Migrations!StartedOnItsSchema
  <1>0. Migrations!MigrationsAssumption
    BY AccessAssumption
  <1>1. Init => Inv
    BY <1>0, MigrationsStart DEF Init
  <1>2. Inv /\ [Next]_vars => Inv' /\ [Act]_vars
    <2>1. ASSUME Inv, [Next]_vars, part = "migrations" PROVE Migrations!SchemaInv' /\ Migrations!StartedOnItsSchema
      <3>1. [Migrations!MigrationsNext]_(Migrations!migVars)
        BY <2>1 DEF Next, vars, Migrations!migVars
      <3> QED BY <1>0, <2>1, <3>1, MigrationsKeep
    <2>2. ASSUME [Next]_vars PROVE part' = part
      BY <2>2 DEF Next, vars
    <2> QED BY <2>1, <2>2
  <1> QED BY <1>1, <1>2, PTL DEF Spec, StartsOnItsSchema

-----------------------------------------------------------------------------
(* Accounts.  v1 is user, v2 sess, v3 apiToken, v4 links, v5 calls,        *)
(* v6 made, v7 now, v8 ended, v9 uses.                                     *)

\* What a step does to the tables: a session is not made again, and what is gone stays gone; a
\* link that was used is not opened again.
SessNext ==
    /\ v2' \in [Sessions -> Accounts!Session]
    /\ \A s \in Sessions : /\ v2'[s].exp <= v2'[s].abs
                           /\ v2[s].st # "none" => v2'[s].st # "none"
                           /\ v2[s].st = "gone" => v2'[s].st = "gone"
LinkNext ==
    /\ v4' \in [Links -> Accounts!Link]
    /\ \A l \in Links : v4'[l].st \in {"none", "open"} => v4[l].st \in {"none", "open"}
CallNext(c) == \E r \in Accounts!Call : v5' = [v5 EXCEPT ![c] = r] /\ r.pc # "drop"
RestNext ==
    /\ v3' \in {"none", "active", "revoked"} /\ v6' \in 0..MaxCalls /\ v7' \in 0..MaxTime

\* The invariant, part by part.
AccFacts ==
    /\ v1 \in Accounts!User /\ v2 \in [Sessions -> Accounts!Session] /\ v4 \in [Links -> Accounts!Link]
    /\ v3 \in {"none", "active", "revoked"}
    /\ v5 \in [Pair -> Accounts!Call] /\ v6 \in 0..MaxCalls /\ v7 \in 0..MaxTime
    /\ v8 \in SUBSET Sessions /\ v9 \in [Links -> Nat]
    /\ \A s \in Sessions : v2[s].exp <= v2[s].abs

LEMMA AccFactsHold ==
    ASSUME Accounts!AccountsTypeOK
    PROVE  AccFacts
  BY DEF AccFacts, Accounts!AccountsTypeOK

LEMMA AccTypes ==
    ASSUME v1' \in Accounts!User, SessNext, LinkNext, RestNext, v5' \in [Pair -> Accounts!Call],
           v8' \in SUBSET Sessions, v9' \in [Links -> Nat]
    PROVE  Accounts!AccountsTypeOK'
  BY DEF SessNext, LinkNext, RestNext, Accounts!AccountsTypeOK, Accounts!User, Accounts!Session, Accounts!Link,
         Accounts!Call, Accounts!NoSession, Accounts!NoLink, Accounts!NoPassword

\* The sessions that running changes are to end, after a step that begins none.
LEMMA SeenStays ==
    ASSUME AccFacts, Accounts!SeenInv, SessNext, v5' = v5 \/ \E c \in Pair : CallNext(c)
    PROVE  Accounts!SeenInv' /\ v5' \in [Pair -> Accounts!Call]
  <1>1. \A i \in Pair : v5[i].pc = "drop" => \A s \in v5[i].seen : v2[s].st # "none" /\ s # Accounts!Mine(i)
    BY DEF Accounts!SeenInv
  <1>3. \A i \in Pair : v5[i].seen \in SUBSET Sessions
    BY DEF AccFacts, Accounts!Call
  <1>4. ASSUME NEW i \in Pair, v5'[i] = v5[i], v5'[i].pc = "drop", NEW s \in v5'[i].seen
        PROVE  v2'[s].st # "none" /\ s # Accounts!Mine(i)'
    <2>1. v2[s].st # "none" /\ s # Accounts!Mine(i) /\ s \in Sessions
      BY <1>1, <1>3, <1>4
    <2>2. Accounts!Mine(i)' = Accounts!Mine(i)
      BY <1>4 DEF Accounts!Mine
    <2> QED BY <2>1, <2>2 DEF SessNext
  <1>5. CASE v5' = v5
    BY <1>4, <1>5 DEF Accounts!SeenInv, AccFacts
  <1>6. ASSUME NEW c \in Pair, CallNext(c) PROVE Accounts!SeenInv' /\ v5' \in [Pair -> Accounts!Call]
    <2>1. PICK r \in Accounts!Call : v5' = [v5 EXCEPT ![c] = r] /\ r.pc # "drop"
      BY <1>6 DEF CallNext
    <2>2. v5' \in [Pair -> Accounts!Call] /\ v5'[c] = r /\ \A i \in Pair \ {c} : v5'[i] = v5[i]
      BY <2>1 DEF AccFacts
    <2> QED BY <1>4, <2>1, <2>2 DEF Accounts!SeenInv
  <1> QED BY <1>5, <1>6

\* A step that ends no session for a change, and accepts no link.
LEMMA Onward ==
    ASSUME Accounts!EndedInv, v1' \in Accounts!User, SessNext, LinkNext, RestNext,
           v5' = v5 \/ \E c \in Pair : CallNext(c), v8' = v8, v9' = v9
    PROVE  Accounts!EndedInv'
  <1>1. AccFacts /\ Accounts!SeenInv /\ Accounts!GoneInv /\ Accounts!UsesInv
    BY AccFactsHold DEF Accounts!EndedInv
  <1>2. Accounts!SeenInv' /\ v5' \in [Pair -> Accounts!Call]
    BY <1>1, SeenStays
  <1>3. Accounts!AccountsTypeOK'
    BY <1>1, <1>2, AccTypes DEF AccFacts
  <1>4. Accounts!GoneInv'
    BY <1>1 DEF Accounts!GoneInv, AccFacts, SessNext
  <1>5. Accounts!UsesInv'
    BY <1>1 DEF Accounts!UsesInv, LinkNext
  <1> QED BY <1>2, <1>3, <1>4, <1>5 DEF Accounts!EndedInv

\* How a call goes on, and how it begins.
LEMMA Going ==
    ASSUME AccFacts, NEW c \in Pair, NEW pc \in Accounts!Points, pc # "drop", Accounts!Goto(c, pc)
    PROVE  CallNext(c)
  <1> DEFINE r == [v5[c] EXCEPT !.pc = pc]
  <1>1. r \in Accounts!Call /\ r.pc = pc
    BY DEF AccFacts, Accounts!Call
  <1>2. v5' = [v5 EXCEPT ![c] = r]
    BY DEF Accounts!Goto
  <1> HIDE DEF r
  <1> QED BY <1>1, <1>2 DEF CallNext

LEMMA IdleCall == Accounts!Idle \in Accounts!Call /\ Accounts!Idle.pc = "idle"
  <1>1. "idle" \in Accounts!Ops /\ "idle" \in Accounts!Points
    BY DEF Accounts!Ops, Accounts!Points
  <1> QED BY <1>1 DEF Accounts!Idle, Accounts!Call, Accounts!NoSession, Accounts!NoLink, Accounts!NoPassword

LEMMA Finishing ==
    ASSUME NEW c \in Pair, Accounts!Done(c) PROVE CallNext(c)
  BY IdleCall DEF CallNext, Accounts!Done

LEMMA Entering ==
    ASSUME AccFacts, NEW c \in Pair, NEW s \in Sessions \cup {Accounts!NoSession}, Accounts!Enter(c, s)
    PROVE  CallNext(c)
  <1> DEFINE at == IF s = Accounts!NoSession THEN 0 ELSE v2[s].reauth
             r  == [v5[c] EXCEPT !.sess = s, !.pc = "start", !.reauth = at]
  <1>1. at \in Nat
    BY DEF AccFacts, Accounts!Session
  <1>2. v5' = [v5 EXCEPT ![c].sess = s, ![c].pc = "start", ![c].reauth = at]
    BY DEF Accounts!Enter
  <1> HIDE DEF at
  <1>3. r \in Accounts!Call /\ r.pc = "start"
    <2>1. "start" \in Accounts!Points
      BY DEF Accounts!Points
    <2>2. v5[c] \in Accounts!Call
      BY DEF AccFacts
    <2> QED BY <1>1, <2>1, <2>2 DEF Accounts!Call
  <1>4. v5' = [v5 EXCEPT ![c] = r]
    BY <1>2 DEF AccFacts, Accounts!Call
  <1> HIDE DEF r
  <1> QED BY <1>3, <1>4 DEF CallNext

LEMMA Arriving ==
    ASSUME AccFacts, NEW c \in Pair, NEW op \in Accounts!Ops, NEW s \in Sessions \cup {Accounts!NoSession},
           NEW cur \in Passwords \cup {Accounts!NoPassword}, NEW new \in Passwords \cup {Accounts!NoPassword},
           NEW l \in Links \cup {Accounts!NoLink}, Accounts!Arrive(c, op, s, cur, new, l)
    PROVE  CallNext(c)
  <1> DEFINE pc == IF s = Accounts!NoSession THEN "start" ELSE "cookie"
             r  == [Accounts!Idle EXCEPT !.op = op, !.sess = s, !.cur = cur, !.new = new, !.link = l, !.pc = pc]
  <1>1. pc \in Accounts!Points /\ pc # "drop"
    BY DEF Accounts!Points
  <1>2. v5' = [v5 EXCEPT ![c] = r]
    BY DEF Accounts!Arrive
  <1> HIDE DEF pc
  <1>3. r \in Accounts!Call /\ r.pc = pc
    BY <1>1, IdleCall DEF Accounts!Call
  <1> HIDE DEF r
  <1> QED BY <1>1, <1>2, <1>3 DEF CallNext

\* Statements that make, move on or end sessions.
LEMMA SessStays ==
    ASSUME AccFacts, v2' = v2 PROVE SessNext
  BY DEF AccFacts, SessNext

LEMMA Times ==
    ASSUME Accounts!AccountsAssumption, AccFacts, NEW abs \in Nat
    PROVE  /\ Accounts!Extend(v7, abs) \in Nat /\ Accounts!Extend(v7, abs) <= abs
           /\ v7 \in Nat /\ v7 + AbsoluteTTL \in Nat
  BY DEF Accounts!AccountsAssumption, AccFacts, Accounts!Extend

LEMMA Ends ==
    ASSUME AccFacts, NEW S \in SUBSET Sessions,
           v2' = [s \in Sessions |-> IF v2[s].st = "live" /\ s \in S THEN [v2[s] EXCEPT !.st = "gone"] ELSE v2[s]]
    PROVE  SessNext
  <1>1. ASSUME NEW s \in Sessions
        PROVE  /\ v2'[s] \in Accounts!Session /\ v2'[s].exp <= v2'[s].abs
               /\ v2[s].st # "none" => v2'[s].st # "none"
               /\ v2[s].st = "gone" => v2'[s].st = "gone"
    <2>1. v2[s] \in Accounts!Session /\ v2[s].exp <= v2[s].abs
      BY DEF AccFacts
    <2>2. CASE v2[s].st = "live" /\ s \in S
      BY <2>1, <2>2 DEF Accounts!Session
    <2>3. CASE ~(v2[s].st = "live" /\ s \in S)
      BY <2>1, <2>3
    <2> QED BY <2>2, <2>3
  <1>2. v2' \in [Sessions -> Accounts!Session]
    BY <1>1
  <1> QED BY <1>1, <1>2 DEF SessNext

LEMMA DropsAll ==
    ASSUME AccFacts, NEW except, Accounts!DeleteUserSessions(except)
    PROVE  SessNext /\ \A s \in Sessions \ {except} : v2'[s].st # "live"
  <1>1. v2' = [s \in Sessions |-> IF v2[s].st = "live" /\ s \in Sessions \ {except}
                                  THEN [v2[s] EXCEPT !.st = "gone"] ELSE v2[s]]
    BY DEF Accounts!DeleteUserSessions
  <1>2. Sessions \ {except} \in SUBSET Sessions
    OBVIOUS
  <1>3. \A s \in Sessions \ {except} : v2'[s].st # "live"
    <2>1. TAKE s \in Sessions \ {except}
    <2>2. v2[s] \in Accounts!Session
      BY DEF AccFacts
    <2> QED BY <1>1, <2>2 DEF Accounts!Session
  <1> QED BY <1>1, <1>2, <1>3, Ends

LEMMA DropsOne ==
    ASSUME AccFacts, NEW s \in Sessions, Accounts!DeleteSession(s) PROVE SessNext
  <1>1. v2' = [i \in Sessions |-> IF v2[i].st = "live" /\ i \in {s} THEN [v2[i] EXCEPT !.st = "gone"] ELSE v2[i]]
    <2>1. v2 \in [Sessions -> Accounts!Session]
      BY DEF AccFacts
    <2>2. v2' = [v2 EXCEPT ![s].st = IF v2[s].st = "live" THEN "gone" ELSE v2[s].st]
      BY DEF Accounts!DeleteSession
    <2>3. v2[s].st # "live" => [v2[s] EXCEPT !.st = v2[s].st] = v2[s]
      BY <2>1 DEF Accounts!Session
    <2> QED BY <2>1, <2>2, <2>3
  <1> QED BY <1>1, Ends

\* A call that has no session ends none and touches none.
LEMMA Nobodys ==
    ASSUME Accounts!AccountsAssumption, AccFacts, NEW s, s = Accounts!NoSession,
           Accounts!DeleteSession(s) \/ Accounts!TouchSession(s) \/ Accounts!SetSessionReauth(s)
    PROVE  SessNext
  <1>1. s \notin Sessions /\ v2 \in [Sessions -> Accounts!Session]
    BY DEF Accounts!AccountsAssumption, Accounts!NoSession, AccFacts
  <1>2. \A x, y, z : /\ [v2 EXCEPT ![s].st = x] = v2 /\ [v2 EXCEPT ![s].reauth = x] = v2
                     /\ [v2 EXCEPT ![s].seen = y, ![s].exp = z] = v2
    BY <1>1
  <1>3. v2' = v2
    BY <1>2 DEF Accounts!DeleteSession, Accounts!TouchSession, Accounts!SetSessionReauth
  <1> QED BY <1>3, SessStays

LEMMA Replaces ==
    ASSUME AccFacts, NEW s \in Sessions, NEW r \in Accounts!Session, r.exp <= r.abs, v2' = [v2 EXCEPT ![s] = r],
           r.st = v2[s].st \/ v2[s].st = "none"
    PROVE  SessNext
  BY DEF AccFacts, SessNext

LEMMA Creates ==
    ASSUME Accounts!AccountsAssumption, AccFacts, Accounts!CreateSession PROVE SessNext
  <1>1. PICK s \in Sessions : v2[s].st = "none" /\ v2' = [v2 EXCEPT ![s] = Accounts!NewSession]
    BY DEF Accounts!CreateSession
  <1>2. v7 \in Nat /\ v7 + AbsoluteTTL \in Nat
    BY Times
  <1>3. Accounts!Extend(v7, v7 + AbsoluteTTL) \in Nat /\ Accounts!Extend(v7, v7 + AbsoluteTTL) <= v7 + AbsoluteTTL
    BY <1>2, Times
  <1>4. Accounts!NewSession \in Accounts!Session /\ Accounts!NewSession.exp <= Accounts!NewSession.abs
    BY <1>2, <1>3 DEF Accounts!NewSession, Accounts!Session
  <1> QED BY <1>1, <1>4, Replaces

LEMMA Touches ==
    ASSUME Accounts!AccountsAssumption, AccFacts, NEW s \in Sessions,
           Accounts!TouchSession(s) \/ Accounts!SetSessionReauth(s)
    PROVE  SessNext
  <1>1. v2[s] \in Accounts!Session /\ v2[s].exp <= v2[s].abs /\ v2[s].abs \in Nat
    BY DEF AccFacts, Accounts!Session
  <1>2. Accounts!Extend(v7, v2[s].abs) \in Nat /\ Accounts!Extend(v7, v2[s].abs) <= v2[s].abs /\ v7 \in Nat
    BY <1>1, Times
  <1>3. CASE v2' = v2
    BY <1>3, SessStays
  <1>4. CASE v2' = [v2 EXCEPT ![s].seen = v7, ![s].exp = Accounts!Extend(v7, v2[s].abs)]
    <2> DEFINE r == [v2[s] EXCEPT !.seen = v7, !.exp = Accounts!Extend(v7, v2[s].abs)]
    <2>1. r \in Accounts!Session /\ r.exp <= r.abs /\ r.st = v2[s].st
      BY <1>1, <1>2 DEF Accounts!Session
    <2>2. v2' = [v2 EXCEPT ![s] = r]
      BY <1>4 DEF AccFacts, Accounts!Session
    <2> HIDE DEF r
    <2> QED BY <2>1, <2>2, Replaces
  <1>5. CASE v2' = [v2 EXCEPT ![s].reauth = v7]
    <2> DEFINE r == [v2[s] EXCEPT !.reauth = v7]
    <2>1. r \in Accounts!Session /\ r.exp <= r.abs /\ r.st = v2[s].st
      BY <1>1, <1>2 DEF Accounts!Session
    <2>2. v2' = [v2 EXCEPT ![s] = r]
      BY <1>5 DEF AccFacts, Accounts!Session
    <2> HIDE DEF r
    <2> QED BY <2>1, <2>2, Replaces
  <1> QED BY <1>3, <1>4, <1>5 DEF Accounts!TouchSession, Accounts!SetSessionReauth

\* The account's row.
LEMMA UserTyped ==
    ASSUME AccFacts,
           \/ v1' = v1 \/ Accounts!SetEmailVerified \/ Accounts!CreateIdentity \/ Accounts!DeleteIdentity
           \/ \E b \in BOOLEAN : Accounts!SetUserDisabled(b)
           \/ \E p \in Passwords \cup {Accounts!NoPassword} : Accounts!SetPasswordHash(p)
           \/ \E p \in Passwords \cup {Accounts!NoPassword}, b \in BOOLEAN, g \in BOOLEAN :
                 v1' = Accounts!NewUser(p, b, g)
    PROVE  v1' \in Accounts!User
  <1>1. v1 \in Accounts!User
    BY DEF AccFacts
  <1>2. CASE v1' = v1
    BY <1>1, <1>2
  <1>3. CASE Accounts!SetEmailVerified
    BY <1>1, <1>3 DEF Accounts!SetEmailVerified, Accounts!User
  <1>4. CASE Accounts!CreateIdentity \/ Accounts!DeleteIdentity
    BY <1>1, <1>4 DEF Accounts!CreateIdentity, Accounts!DeleteIdentity, Accounts!User
  <1>5. CASE \E b \in BOOLEAN : Accounts!SetUserDisabled(b)
    BY <1>1, <1>5 DEF Accounts!SetUserDisabled, Accounts!User
  <1>6. CASE \E p \in Passwords \cup {Accounts!NoPassword} : Accounts!SetPasswordHash(p)
    BY <1>1, <1>6 DEF Accounts!SetPasswordHash, Accounts!User
  <1>7. CASE \E p \in Passwords \cup {Accounts!NoPassword}, b \in BOOLEAN, g \in BOOLEAN :
               v1' = Accounts!NewUser(p, b, g)
    BY <1>7 DEF Accounts!NewUser, Accounts!User
  <1> QED BY <1>2, <1>3, <1>4, <1>5, <1>6, <1>7

LEMMA LinkStays ==
    ASSUME AccFacts, v4' = v4 PROVE LinkNext
  BY DEF AccFacts, LinkNext

\* A step of one call that neither ends sessions for a change nor accepts a link.
Ordinary(c) ==
    /\ v1' \in Accounts!User /\ SessNext /\ LinkNext /\ CallNext(c)
    /\ v3' \in {"none", "active", "revoked"} /\ v6' \in 0..MaxCalls /\ v7' = v7 /\ v8' = v8 /\ v9' = v9

LEMMA OrdinaryKeeps ==
    ASSUME Accounts!EndedInv, NEW c \in Pair, Ordinary(c) PROVE Accounts!EndedInv'
  <1>1. AccFacts
    BY AccFactsHold DEF Accounts!EndedInv
  <1>2. RestNext
    BY <1>1 DEF RestNext, Ordinary, AccFacts
  <1> QED BY <1>2, Onward DEF Ordinary

\* A call arrives.
LEMMA ArriveKeeps ==
    ASSUME Accounts!AccountsAssumption, Accounts!EndedInv, NEW c \in Pair, NEW op \in Accounts!Ops,
           NEW s \in Sessions \cup {Accounts!NoSession},
           NEW cur \in Passwords \cup {Accounts!NoPassword}, NEW new \in Passwords \cup {Accounts!NoPassword},
           NEW l \in Links \cup {Accounts!NoLink}, Accounts!Arrive(c, op, s, cur, new, l)
    PROVE  Accounts!EndedInv'
  <1>1. AccFacts
    BY AccFactsHold DEF Accounts!EndedInv
  <1>2. v1' = v1 /\ v2' = v2 /\ v3' = v3 /\ v4' = v4 /\ v7' = v7 /\ v8' = v8 /\ v9' = v9
    BY DEF Accounts!Arrive
  <1>3. v6' \in 0..MaxCalls
    BY <1>1 DEF Accounts!Arrive, Accounts!AccountsAssumption, AccFacts
  <1>4. CallNext(c)
    BY <1>1, Arriving
  <1>5. SessNext /\ LinkNext
    BY <1>1, <1>2, SessStays, LinkStays
  <1>6. Ordinary(c)
    BY <1>1, <1>2, <1>3, <1>4, <1>5 DEF Ordinary, AccFacts
  <1> QED BY <1>6, OrdinaryKeeps

LEMMA PostKeeps ==
    ASSUME Accounts!AccountsAssumption, Accounts!EndedInv, NEW c \in Pair,
           Accounts!PostForms(c) \/ Accounts!PostSettings(c) \/ Accounts!GoogleCallback(c) \/ Accounts!UserCommand(c)
    PROVE  Accounts!EndedInv'
  <1>1. PICK op \in Accounts!Ops, s \in Sessions \cup {Accounts!NoSession},
             cur \in Passwords \cup {Accounts!NoPassword}, new \in Passwords \cup {Accounts!NoPassword},
             l \in Links \cup {Accounts!NoLink} : Accounts!Arrive(c, op, s, cur, new, l)
    <2> DEFINE S == Sessions \cup {Accounts!NoSession}
               P == Passwords \cup {Accounts!NoPassword}
               L == Links \cup {Accounts!NoLink}
               Some == \E op \in Accounts!Ops, s \in S, cur \in P, new \in P, l \in L :
                          Accounts!Arrive(c, op, s, cur, new, l)
    <2>1. Accounts!Holding \subseteq S /\ Accounts!Mailed \subseteq L
      BY DEF Accounts!Holding, Accounts!Mailed
    <2>2. Accounts!NoSession \in S /\ Accounts!NoPassword \in P /\ Accounts!NoLink \in L /\ Passwords \subseteq P
      OBVIOUS
    <2>3. {"idle", "register", "user create", "login", "google", "link", "unlink", "change", "reset",
           "set-password", "disable", "enable", "forgot", "resend", "verify", "logout", "revoke",
           "revoke others", "reauth", "token", "revoke token"} = Accounts!Ops
      BY DEF Accounts!Ops
    <2> HIDE DEF S, P, L
    <2>4. \A op \in Accounts!Ops : Accounts!Plain(c, op) => Some
      BY <2>1, <2>2 DEF Accounts!Plain
    <2>5. ASSUME Accounts!PostForms(c) PROVE Some
      <3>1. Accounts!PostRegister(c) => Some
        BY <2>2, <2>3 DEF Accounts!PostRegister
      <3>2. Accounts!PostLogin(c) => Some
        BY <2>1, <2>2, <2>3 DEF Accounts!PostLogin
      <3>3. Accounts!PostForgot(c) => Some
        BY <2>2, <2>3 DEF Accounts!PostForgot
      <3>4. Accounts!PostReset(c) => Some
        BY <2>1, <2>2, <2>3 DEF Accounts!PostReset
      <3>5. Accounts!VerifyPage(c) => Some
        BY <2>1, <2>2, <2>3 DEF Accounts!VerifyPage
      <3> QED BY <2>5, <3>1, <3>2, <3>3, <3>4, <3>5, Zenon DEF Accounts!PostForms
    <2>6. ASSUME Accounts!PostSettings(c) PROVE Some
      <3>1. Accounts!PostChange(c) => Some
        BY <2>1, <2>2, <2>3 DEF Accounts!PostChange
      <3>2. Accounts!PostReauth(c) => Some
        BY <2>1, <2>2, <2>3 DEF Accounts!PostReauth
      <3>3. Accounts!PostSettings(c) =>
               Some \/ \E op \in {"unlink", "resend", "logout", "revoke", "revoke others", "token", "revoke token"} :
                          Accounts!Plain(c, op)
        BY <3>1, <3>2, Zenon DEF Accounts!PostSettings, Accounts!PostUnlink, Accounts!PostResend, Accounts!PostLogout,
           Accounts!PostRevoke, Accounts!PostRevokeOthers, Accounts!PostToken, Accounts!PostRevokeToken
      <3> HIDE DEF Some
      <3> QED BY <2>3, <2>4, <2>6, <3>3
    <2>7. ASSUME Accounts!GoogleCallback(c) PROVE Some
      <3>1. Accounts!GoogleLogin(c) => Some
        BY <2>1, <2>2, <2>3 DEF Accounts!GoogleLogin
      <3> HIDE DEF Some
      <3> QED BY <2>3, <2>4, <2>7, <3>1 DEF Accounts!GoogleCallback
    <2>8. ASSUME Accounts!UserCommand(c) PROVE Some
      <3>1. Accounts!CmdUserCreate(c) => Some
        BY <2>2, <2>3 DEF Accounts!CmdUserCreate
      <3>2. Accounts!CmdUserSetPassword(c) => Some
        BY <2>2, <2>3 DEF Accounts!CmdUserSetPassword
      <3>3. Accounts!CmdUserToggle(c) => Some
        BY <2>2, <2>3 DEF Accounts!CmdUserToggle
      <3> HIDE DEF Some
      <3> QED BY <2>8, <3>1, <3>2, <3>3 DEF Accounts!UserCommand
    <2> HIDE DEF Some
    <2>9. Some
      BY <2>5, <2>6, <2>7, <2>8
    <2> QED BY <2>9 DEF Some, S, P, L
  <1> QED BY <1>1, ArriveKeeps

\* Steps of a call that change at most the account's row.
UserStep ==
    \/ v1' = v1 \/ Accounts!SetEmailVerified \/ Accounts!CreateIdentity \/ Accounts!DeleteIdentity
    \/ \E b \in BOOLEAN : Accounts!SetUserDisabled(b)
    \/ \E p \in Passwords \cup {Accounts!NoPassword} : Accounts!SetPasswordHash(p)
    \/ \E p \in Passwords \cup {Accounts!NoPassword}, b \in BOOLEAN, g \in BOOLEAN :
          v1' = Accounts!NewUser(p, b, g)
Moves(c) == Accounts!Done(c) \/ \E pc \in Accounts!Points \ {"drop"} : Accounts!Goto(c, pc)
Quiet(c) == Accounts!Rest /\ v2' = v2 /\ v4' = v4 /\ UserStep /\ Moves(c)

LEMMA Moving ==
    ASSUME AccFacts, NEW c \in Pair, Moves(c) PROVE CallNext(c)
  BY Going, Finishing DEF Moves

LEMMA RestKeeps ==
    ASSUME Accounts!EndedInv, NEW c \in Pair, Accounts!Rest, v1' \in Accounts!User, SessNext, LinkNext, CallNext(c)
    PROVE  Accounts!EndedInv'
  <1>1. AccFacts
    BY AccFactsHold DEF Accounts!EndedInv
  <1>2. v3' = v3 /\ v6' = v6 /\ v7' = v7 /\ v8' = v8 /\ v9' = v9
    BY DEF Accounts!Rest
  <1>3. Ordinary(c)
    BY <1>1, <1>2 DEF Ordinary, AccFacts
  <1> QED BY <1>3, OrdinaryKeeps

LEMMA QuietKeeps ==
    ASSUME Accounts!EndedInv, NEW c \in Pair, Quiet(c) PROVE Accounts!EndedInv'
  <1>1. AccFacts
    BY AccFactsHold DEF Accounts!EndedInv
  <1>2. v1' \in Accounts!User
    BY <1>1, UserTyped DEF Quiet, UserStep
  <1>3. SessNext /\ LinkNext /\ CallNext(c)
    BY <1>1, SessStays, LinkStays, Moving DEF Quiet
  <1> QED BY <1>2, <1>3, RestKeeps DEF Quiet

LEMMA QuietSteps ==
    ASSUME AccFacts, NEW c \in Pair,
           \/ Accounts!Fail(c) \/ Accounts!Register(c) \/ Accounts!UserCreate(c) \/ Accounts!Login(c)
           \/ Accounts!ExternalLogin(c) \/ Accounts!LinkIdentity(c) \/ Accounts!ExternalSignup(c)
           \/ Accounts!UnlinkIdentity(c) \/ Accounts!ChangePassword(c) \/ Accounts!UserSetPassword(c)
           \/ Accounts!IssueReset(c) \/ Accounts!ResendVerify(c) \/ Accounts!Confirmed(c)
    PROVE  Quiet(c)
  <1>0. {"session", "delete", "rehash", "adopt", "link", "signup", "unlink", "hash"}
           \subseteq Accounts!Points \ {"drop"}
    BY DEF Accounts!Points
  <1>1. v5[c].cur \in Passwords \cup {Accounts!NoPassword} /\ v5[c].new \in Passwords \cup {Accounts!NoPassword}
    BY DEF AccFacts, Accounts!Call
  <1>2. CASE Accounts!Fail(c)
    BY <1>2 DEF Accounts!Fail, Quiet, Moves, UserStep
  <1>3. CASE Accounts!Register(c)
    <2>1. CASE Accounts!SendVerify(c)
      BY <1>0, <2>1 DEF Accounts!SendVerify, Quiet, Moves, UserStep
    <2>2. CASE ~Accounts!SendVerify(c)
      <3>1. v1' = Accounts!NewUser(v5[c].new, FALSE, FALSE) /\ Accounts!Goto(c, "delete")
        BY <1>3, <2>2 DEF Accounts!Register
      <3>2. Accounts!Rest /\ v2' = v2 /\ v4' = v4
        BY <1>3, <2>2 DEF Accounts!Register
      <3>3. UserStep
        BY <1>1, <3>1 DEF UserStep
      <3> QED BY <1>0, <3>1, <3>2, <3>3 DEF Quiet, Moves
    <2> QED BY <2>1, <2>2
  <1>4. CASE Accounts!UserCreate(c)
    <2>1. UserStep
      BY <1>1, <1>4 DEF Accounts!UserCreate, UserStep
    <2> QED BY <1>4, <2>1 DEF Accounts!UserCreate, Quiet, Moves
  <1>5. CASE Accounts!Login(c)
    <2>1. CASE Accounts!UpgradeHash(c)
      <3>1. UserStep
        BY <1>1, <2>1 DEF Accounts!UpgradeHash, UserStep
      <3> QED BY <1>0, <2>1, <3>1 DEF Accounts!UpgradeHash, Quiet, Moves
    <2>2. CASE ~Accounts!UpgradeHash(c)
      BY <1>0, <1>5, <2>2 DEF Accounts!Login, Quiet, Moves, UserStep
    <2> QED BY <2>1, <2>2
  <1>6. CASE Accounts!ExternalLogin(c)
    <2>1. Moves(c)
      BY <1>0, <1>6 DEF Accounts!ExternalLogin, Moves
    <2> QED BY <1>6, <2>1 DEF Accounts!ExternalLogin, Quiet, UserStep
  <1>7. CASE Accounts!LinkIdentity(c)
    BY <1>0, <1>7 DEF Accounts!LinkIdentity, Quiet, Moves, UserStep
  <1>8. CASE Accounts!ExternalSignup(c)
    <2>1. UserStep
      BY <1>8 DEF Accounts!ExternalSignup, UserStep
    <2> QED BY <1>0, <1>8, <2>1 DEF Accounts!ExternalSignup, Quiet, Moves
  <1>9. CASE Accounts!UnlinkIdentity(c)
    BY <1>0, <1>9 DEF Accounts!UnlinkIdentity, Quiet, Moves, UserStep
  <1>10. CASE Accounts!ChangePassword(c) \/ Accounts!UserSetPassword(c)
    BY <1>0, <1>10 DEF Accounts!ChangePassword, Accounts!UserSetPassword, Quiet, Moves, UserStep
  <1>11. CASE Accounts!IssueReset(c) \/ Accounts!ResendVerify(c)
    BY <1>0, <1>11 DEF Accounts!IssueReset, Accounts!ResendVerify, Quiet, Moves, UserStep
  <1>12. CASE Accounts!Confirmed(c)
    BY <1>12 DEF Accounts!Confirmed, Quiet, Moves, UserStep
  <1> QED BY <1>2, <1>3, <1>4, <1>5, <1>6, <1>7, <1>8, <1>9, <1>10, <1>11, <1>12

\* Steps that make, touch or end sessions on their own.
LEMMA SessionKeeps ==
    ASSUME Accounts!AccountsAssumption, Accounts!EndedInv, NEW c \in Pair,
           \/ Accounts!Authenticate(c) \/ Accounts!Welcome(c) \/ Accounts!Logout(c)
           \/ Accounts!RevokeSessions(c) \/ Accounts!Reauth(c)
    PROVE  Accounts!EndedInv'
  <1>0. AccFacts
    BY AccFactsHold DEF Accounts!EndedInv
  <1>1. {"expire", "touch", "logout", "mark"} \subseteq Accounts!Points \ {"drop"}
    BY DEF Accounts!Points
  <1>2. v5[c].sess \in Sessions \cup {Accounts!NoSession} /\ Accounts!NoSession \in Sessions \cup {Accounts!NoSession}
    BY <1>0 DEF AccFacts, Accounts!Call
  <1>3. /\ \A s \in Sessions \cup {Accounts!NoSession} : Accounts!Enter(c, s) => CallNext(c)
        /\ Moves(c) => CallNext(c)
    BY <1>0, Entering, Moving
  <1>4. v1' = v1 /\ v4' = v4 /\ Accounts!Rest
    BY DEF Accounts!Authenticate, Accounts!Welcome, Accounts!Logout, Accounts!RevokeSessions, Accounts!Reauth
  <1>5. SUFFICES SessNext /\ CallNext(c)
    <2>1. LinkNext /\ v1' \in Accounts!User
      BY <1>0, <1>4, LinkStays DEF AccFacts
    <2> QED BY <1>4, <2>1, RestKeeps
  <1>6. v2' = v2 => SessNext
    BY <1>0, SessStays
  <1>7. Accounts!DeleteSession(v5[c].sess) \/ Accounts!TouchSession(v5[c].sess)
           \/ Accounts!SetSessionReauth(v5[c].sess) => SessNext
    <2>1. CASE v5[c].sess = Accounts!NoSession
      BY <1>0, <2>1, Nobodys
    <2>2. CASE v5[c].sess \in Sessions
      BY <1>0, <2>2, DropsOne, Touches
    <2> QED BY <1>2, <2>1, <2>2
  <1>8. CASE Accounts!Authenticate(c)
    <2>1. \/ v2' = v2 /\ \/ \E s \in {v5[c].sess, Accounts!NoSession} : Accounts!Enter(c, s)
                         \/ \E pc \in {"expire", "touch"} : Accounts!Goto(c, pc)
          \/ Accounts!DeleteSession(v5[c].sess) /\ Accounts!Enter(c, Accounts!NoSession)
          \/ Accounts!Enter(c, v5[c].sess) /\ Accounts!TouchSession(v5[c].sess)
      BY <1>8 DEF Accounts!Authenticate
    <2>2. CASE v2' = v2 /\ \/ \E s \in {v5[c].sess, Accounts!NoSession} : Accounts!Enter(c, s)
                           \/ \E pc \in {"expire", "touch"} : Accounts!Goto(c, pc)
      BY <1>1, <1>2, <1>3, <1>6, <2>2 DEF Moves
    <2> QED BY <1>2, <1>3, <1>7, <2>1, <2>2
  <1>9. CASE Accounts!Welcome(c)
    <2>1. \/ Accounts!CreateSession /\ (Accounts!Done(c) \/ Accounts!Goto(c, "logout"))
          \/ Accounts!DeleteSession(v5[c].sess) /\ Accounts!Done(c)
      BY <1>9 DEF Accounts!Welcome
    <2>2. Accounts!CreateSession => SessNext
      BY <1>0, Creates
    <2> QED BY <1>1, <1>3, <1>7, <2>1, <2>2 DEF Moves
  <1>10. CASE Accounts!Logout(c)
    BY <1>3, <1>7, <1>10 DEF Accounts!Logout, Moves
  <1>11. CASE Accounts!RevokeSessions(c)
    <2>1. Accounts!Done(c) /\ ((\E s \in Sessions : Accounts!DeleteSession(s)) \/ Accounts!DeleteUserSessions(v5[c].sess))
      BY <1>11 DEF Accounts!RevokeSessions, Accounts!RevokeSession, Accounts!RevokeOtherSessions, Accounts!LiveSessions
    <2>2. SessNext
      BY <1>0, <2>1, DropsOne, DropsAll
    <2> QED BY <1>3, <2>1, <2>2 DEF Moves
  <1>12. CASE Accounts!Reauth(c)
    <2>1. \/ v2' = v2 /\ Accounts!Goto(c, "mark")
          \/ Accounts!Done(c) /\ Accounts!SetSessionReauth(v5[c].sess)
      BY <1>12 DEF Accounts!Reauth, Accounts!MarkReauth
    <2> QED BY <1>1, <1>3, <1>6, <1>7, <2>1 DEF Moves
  <1> QED BY <1>8, <1>9, <1>10, <1>11, <1>12

\* API tokens.
LEMMA TokenKeeps ==
    ASSUME Accounts!EndedInv, NEW c \in Pair, Accounts!CreateAPIToken(c) \/ Accounts!RevokeAPIToken(c)
    PROVE  Accounts!EndedInv'
  <1>1. AccFacts
    BY AccFactsHold DEF Accounts!EndedInv
  <1>2. /\ v1' = v1 /\ v2' = v2 /\ v3' \in {"none", "active", "revoked"} /\ v4' = v4 /\ v6' = v6 /\ v7' = v7
        /\ v8' = v8 /\ v9' = v9 /\ Accounts!Done(c)
    BY DEF Accounts!CreateAPIToken, Accounts!RevokeAPIToken
  <1>3. SessNext /\ LinkNext /\ CallNext(c)
    BY <1>1, <1>2, SessStays, LinkStays, Finishing
  <1>4. Ordinary(c)
    BY <1>1, <1>2, <1>3 DEF Ordinary, AccFacts
  <1> QED BY <1>4, OrdinaryKeeps

\* Links are issued.
LEMMA IssueKeeps ==
    ASSUME Accounts!AccountsAssumption, Accounts!EndedInv, NEW c \in Pair, Accounts!Issue(c)
    PROVE  Accounts!EndedInv'
  <1>1. AccFacts /\ v7 \in Nat /\ LinkTTL \in Nat
    BY AccFactsHold DEF Accounts!EndedInv, AccFacts, Accounts!AccountsAssumption
  <1>2. v1' = v1 /\ v2' = v2 /\ Accounts!Rest
    BY DEF Accounts!Issue
  <1>3. "issue" \in Accounts!Points \ {"drop"}
    BY DEF Accounts!Points
  <1>4. Accounts!Purpose(c) \in {"verify", "reset"}
    BY DEF Accounts!Purpose
  <1>5. CallNext(c)
    <2>1. Moves(c)
      BY <1>3 DEF Accounts!Issue, Moves
    <2> QED BY <1>1, <2>1, Moving
  <1>6. v4 \in [Links -> Accounts!Link]
    BY <1>1 DEF AccFacts
  <1>7. LinkNext
    <2>1. CASE Accounts!DeleteEmailTokens(Accounts!Purpose(c))
      <3>1. ASSUME NEW l \in Links
            PROVE  v4'[l] \in Accounts!Link /\ (v4'[l].st \in {"none", "open"} => v4[l].st \in {"none", "open"})
        <4>1. v4[l] \in Accounts!Link
          BY <1>6
        <4>2. v4'[l] = v4[l] \/ v4'[l] = [v4[l] EXCEPT !.st = "gone"]
          BY <2>1 DEF Accounts!DeleteEmailTokens
        <4> QED BY <4>1, <4>2 DEF Accounts!Link
      <3>2. v4' = [l \in Links |-> v4'[l]]
        BY <2>1 DEF Accounts!DeleteEmailTokens
      <3>3. v4' \in [Links -> Accounts!Link]
        BY <3>1, <3>2
      <3> QED BY <3>1, <3>3 DEF LinkNext
    <2>2. CASE Accounts!CreateEmailToken(Accounts!Purpose(c))
      <3> DEFINE r == [st |-> "open", purpose |-> Accounts!Purpose(c), exp |-> v7 + LinkTTL]
      <3>1. PICK l \in Links : v4[l].st = "none" /\ v4' = [v4 EXCEPT ![l] = r]
        BY <2>2 DEF Accounts!CreateEmailToken
      <3>2. r \in Accounts!Link
        BY <1>1, <1>4 DEF Accounts!Link
      <3> HIDE DEF r
      <3> QED BY <1>6, <3>1, <3>2 DEF LinkNext
    <2> QED BY <2>1, <2>2 DEF Accounts!Issue
  <1>8. SessNext /\ v1' \in Accounts!User
    BY <1>1, <1>2, SessStays DEF AccFacts
  <1> QED BY <1>2, <1>5, <1>7, <1>8, RestKeeps

\* A link is accepted.
LEMMA AcceptKeeps ==
    ASSUME Accounts!AccountsAssumption, Accounts!EndedInv, NEW c \in Pair,
           Accounts!ResetPassword(c) \/ Accounts!ConfirmVerify(c)
    PROVE  Accounts!EndedInv'
  <1> DEFINE l == v5[c].link
  <1>1. AccFacts /\ Accounts!SeenInv /\ Accounts!GoneInv /\ Accounts!UsesInv
    BY AccFactsHold DEF Accounts!EndedInv
  <1>2. v1' = v1 /\ v2' = v2 /\ v3' = v3 /\ v6' = v6 /\ v7' = v7 /\ v8' = v8
    BY DEF Accounts!ResetPassword, Accounts!ConfirmVerify
  <1>3. /\ v4[l].st = "open" /\ v4' = [v4 EXCEPT ![l].st = "used"]
        /\ v9' = [v9 EXCEPT ![l] = @ + 1]
    BY DEF Accounts!ResetPassword, Accounts!ConfirmVerify, Accounts!ConsumeEmailToken
  <1>4. {"hash", "verified"} \subseteq Accounts!Points \ {"drop"}
    BY DEF Accounts!Points
  <1>5. CallNext(c)
    <2>1. Moves(c)
      BY <1>4 DEF Accounts!ResetPassword, Accounts!ConfirmVerify, Moves
    <2> QED BY <1>1, <2>1, Moving
  <1>6. v4 \in [Links -> Accounts!Link] /\ v9 \in [Links -> Nat]
    BY <1>1 DEF AccFacts
  <1> HIDE DEF l
  <1>7. LinkNext
    BY <1>3, <1>6 DEF LinkNext, Accounts!Link
  <1>8. v9' \in [Links -> Nat]
    <2>1. CASE l \in Links
      BY <1>3, <1>6, <2>1
    <2>2. CASE l \notin Links
      <3>1. v9' = v9
        BY <1>3, <1>6, <2>2
      <3> QED BY <1>6, <3>1
    <2> QED BY <2>1, <2>2
  <1>9. Accounts!UsesInv'
    <2>1. ASSUME NEW k \in Links PROVE v9'[k] <= 1 /\ (v4'[k].st \in {"none", "open"} => v9'[k] = 0)
      <3>1. v9[k] <= 1 /\ (v4[k].st \in {"none", "open"} => v9[k] = 0)
        BY <1>1 DEF Accounts!UsesInv
      <3>2. CASE k = l
        <4>1. v9'[k] = v9[k] + 1 /\ v4'[k].st = "used" /\ v9[k] = 0
          BY <1>3, <1>6, <3>1, <3>2 DEF Accounts!Link
        <4> QED BY <4>1
      <3>3. CASE k # l
        BY <1>3, <1>6, <3>1, <3>3
      <3> QED BY <3>2, <3>3
    <2> QED BY <2>1 DEF Accounts!UsesInv
  <1>10. SessNext /\ RestNext /\ v1' \in Accounts!User
    BY <1>1, <1>2, SessStays DEF RestNext, AccFacts
  <1>11. Accounts!SeenInv' /\ v5' \in [Pair -> Accounts!Call]
    BY <1>1, <1>5, <1>10, SeenStays
  <1>12. Accounts!AccountsTypeOK'
    BY <1>1, <1>2, <1>7, <1>8, <1>10, <1>11, AccTypes DEF AccFacts
  <1>13. Accounts!GoneInv'
    BY <1>1, <1>2 DEF Accounts!GoneInv
  <1> QED BY <1>9, <1>11, <1>12, <1>13 DEF Accounts!EndedInv

\* A change of the account begins: it writes the row, and notes which sessions are live.
LEMMA TurnKeeps ==
    ASSUME Accounts!AccountsAssumption, Accounts!EndedInv, NEW c \in Pair, NEW mine,
           mine = Accounts!Mine(c), Accounts!Turn(c, mine, "drop"), Accounts!Rest, v2' = v2, v4' = v4, UserStep
    PROVE  Accounts!EndedInv'
  <1> DEFINE to == Accounts!LiveSessions \ {mine}
             r  == [v5[c] EXCEPT !.pc = "drop", !.seen = to]
  <1>1. AccFacts /\ Accounts!SeenInv /\ Accounts!GoneInv /\ Accounts!UsesInv
    BY AccFactsHold DEF Accounts!EndedInv
  <1>2. v3' = v3 /\ v6' = v6 /\ v7' = v7 /\ v8' = v8 /\ v9' = v9
    BY DEF Accounts!Rest
  <1>3. to \in SUBSET Sessions /\ \A s \in to : v2[s].st # "none" /\ s # mine
    BY DEF Accounts!LiveSessions
  <1>4. v5' = [v5 EXCEPT ![c].pc = "drop", ![c].seen = to]
    BY DEF Accounts!Turn
  <1> HIDE DEF to
  <1>5. r \in Accounts!Call /\ r.seen = to /\ r.op = v5[c].op /\ r.sess = v5[c].sess /\ v5' = [v5 EXCEPT ![c] = r]
    <2>1. v5 \in [Pair -> Accounts!Call] /\ "drop" \in Accounts!Points
      BY <1>1 DEF AccFacts, Accounts!Points
    <2> QED BY <1>3, <1>4, <2>1 DEF Accounts!Call
  <1> HIDE DEF r
  <1>6. v5' \in [Pair -> Accounts!Call] /\ v5'[c] = r /\ \A i \in Pair \ {c} : v5'[i] = v5[i]
    BY <1>1, <1>5 DEF AccFacts
  <1>7. Accounts!Mine(c)' = mine
    BY <1>5, <1>6 DEF Accounts!Mine
  <1>8. Accounts!SeenInv'
    <2>1. ASSUME NEW i \in Pair, v5'[i].pc = "drop", NEW s \in v5'[i].seen
          PROVE  v2'[s].st # "none" /\ s # Accounts!Mine(i)'
      <3>1. CASE i = c
        BY <1>3, <1>5, <1>6, <1>7, <2>1, <3>1
      <3>2. CASE i # c
        <4>1. v5'[i] = v5[i]
          BY <1>6, <3>2
        <4>2. Accounts!Mine(i)' = Accounts!Mine(i)
          BY <4>1 DEF Accounts!Mine
        <4> QED BY <1>1, <2>1, <4>1, <4>2 DEF Accounts!SeenInv
      <3> QED BY <3>1, <3>2
    <2> QED BY <2>1 DEF Accounts!SeenInv
  <1>9. SessNext /\ LinkNext /\ RestNext /\ v1' \in Accounts!User
    <2>1. v1' \in Accounts!User
      BY <1>1, UserTyped DEF UserStep
    <2> QED BY <1>1, <1>2, <2>1, SessStays, LinkStays DEF RestNext, AccFacts
  <1>10. Accounts!AccountsTypeOK'
    BY <1>1, <1>2, <1>6, <1>9, AccTypes DEF AccFacts
  <1>11. Accounts!GoneInv' /\ Accounts!UsesInv'
    BY <1>1, <1>2 DEF Accounts!GoneInv, Accounts!UsesInv
  <1> QED BY <1>8, <1>10, <1>11 DEF Accounts!EndedInv

\* A change of the account ends the sessions it noted.
LEMMA DropKeeps ==
    ASSUME Accounts!AccountsAssumption, Accounts!EndedInv, NEW c \in Pair, v5[c].pc = "drop",
           Accounts!Drop(c, Accounts!Mine(c)), CallNext(c),
           v1' = v1, v3' = v3, v4' = v4, v6' = v6, v7' = v7, v9' = v9
    PROVE  Accounts!EndedInv'
  <1>1. AccFacts /\ Accounts!SeenInv /\ Accounts!GoneInv /\ Accounts!UsesInv
    BY AccFactsHold DEF Accounts!EndedInv
  <1>2. v8' = v8 \cup v5[c].seen /\ Accounts!DeleteUserSessions(Accounts!Mine(c))
    BY DEF Accounts!Drop
  <1>3. SessNext /\ \A s \in Sessions \ {Accounts!Mine(c)} : v2'[s].st # "live"
    BY <1>1, <1>2, DropsAll
  <1>4. v5[c].seen \in SUBSET Sessions /\ \A s \in v5[c].seen : v2[s].st # "none" /\ s # Accounts!Mine(c)
    BY <1>1 DEF AccFacts, Accounts!Call, Accounts!SeenInv
  <1>5. \A s \in Sessions : v2'[s].st \in {"none", "live", "gone"}
    BY <1>3 DEF SessNext, Accounts!Session
  <1>6. Accounts!GoneInv'
    <2>1. \A s \in v5[c].seen : v2'[s].st = "gone"
      BY <1>3, <1>4, <1>5 DEF SessNext
    <2>2. \A s \in v8 : v2'[s].st = "gone"
      BY <1>1, <1>3 DEF SessNext, Accounts!GoneInv, AccFacts
    <2> QED BY <1>2, <2>1, <2>2 DEF Accounts!GoneInv
  <1>7. LinkNext /\ RestNext /\ v8' \in SUBSET Sessions /\ v9' \in [Links -> Nat]
    BY <1>1, <1>2, <1>4, LinkStays DEF RestNext, AccFacts
  <1>8. Accounts!SeenInv' /\ v5' \in [Pair -> Accounts!Call]
    BY <1>1, <1>3, SeenStays
  <1>9. Accounts!AccountsTypeOK'
    BY <1>1, <1>3, <1>7, <1>8, AccTypes DEF AccFacts
  <1>10. Accounts!UsesInv'
    BY <1>1 DEF Accounts!UsesInv
  <1> QED BY <1>6, <1>8, <1>9, <1>10 DEF Accounts!EndedInv

LEMMA ChangeKeeps ==
    ASSUME Accounts!AccountsAssumption, Accounts!EndedInv, NEW c \in Pair,
           Accounts!Adopt(c) \/ Accounts!Save(c) \/ Accounts!SetDisabled(c)
    PROVE  Accounts!EndedInv'
  <1>1. AccFacts
    BY AccFactsHold DEF Accounts!EndedInv
  <1>2. v5[c].new \in Passwords \cup {Accounts!NoPassword} /\ Accounts!NoPassword \in Passwords \cup {Accounts!NoPassword}
    BY <1>1 DEF AccFacts, Accounts!Call
  <1>3. {"link", "verified"} \subseteq Accounts!Points \ {"drop"}
    BY DEF Accounts!Points
  <1>4. Moves(c) => CallNext(c)
    BY <1>1, Moving
  <1>5. CASE Accounts!Adopt(c)
    <2>1. Accounts!Mine(c) = Accounts!NoSession /\ v4' = v4 /\ v3' = v3 /\ v6' = v6 /\ v7' = v7 /\ v9' = v9
      BY <1>5 DEF Accounts!Adopt, Accounts!Mine
    <2>2. CASE /\ Accounts!SetPasswordHash(Accounts!NoPassword) /\ Accounts!Turn(c, Accounts!NoSession, "drop")
               /\ v2' = v2 /\ v8' = v8
      <3>1. UserStep /\ Accounts!Rest
        BY <1>2, <2>1, <2>2 DEF UserStep, Accounts!Rest
      <3> QED BY <2>1, <2>2, <3>1, TurnKeeps
    <2>3. CASE /\ v5[c].pc = "drop" /\ Accounts!Drop(c, Accounts!NoSession) /\ Accounts!Goto(c, "link") /\ v1' = v1
      <3>1. CallNext(c)
        BY <1>3, <1>4, <2>3 DEF Moves
      <3> QED BY <2>1, <2>3, <3>1, DropKeeps
    <2> QED BY <1>5, <2>2, <2>3 DEF Accounts!Adopt
  <1>6. CASE Accounts!Save(c)
    <2>1. v4' = v4 /\ v3' = v3 /\ v6' = v6 /\ v7' = v7 /\ v9' = v9
      BY <1>6 DEF Accounts!Save
    <2>2. CASE /\ Accounts!SetPasswordHash(v5[c].new) /\ Accounts!Turn(c, Accounts!Mine(c), "drop")
               /\ v2' = v2 /\ v8' = v8
      <3>1. UserStep /\ Accounts!Rest
        BY <1>2, <2>1, <2>2 DEF UserStep, Accounts!Rest
      <3> QED BY <2>1, <2>2, <3>1, TurnKeeps
    <2>3. CASE /\ v5[c].pc = "drop" /\ Accounts!Drop(c, Accounts!Mine(c))
               /\ Accounts!Goto(c, "verified") \/ Accounts!Done(c)
               /\ v1' = v1
      <3>1. CallNext(c)
        BY <1>3, <1>4, <2>3 DEF Moves
      <3> QED BY <2>1, <2>3, <3>1, DropKeeps
    <2> QED BY <1>6, <2>2, <2>3 DEF Accounts!Save
  <1>7. CASE Accounts!SetDisabled(c)
    <2>1. v4' = v4 /\ v2' = v2 /\ Accounts!Rest
      BY <1>7 DEF Accounts!SetDisabled
    <2>2. CASE /\ v5[c].op = "disable" /\ Accounts!SetUserDisabled(TRUE)
               /\ Accounts!Turn(c, Accounts!NoSession, "drop")
      <3>1. UserStep
        BY <2>2 DEF UserStep
      <3>2. Accounts!Mine(c) = Accounts!NoSession
        BY <2>2 DEF Accounts!Mine
      <3> QED BY <2>1, <2>2, <3>1, <3>2, TurnKeeps
    <2>3. CASE Accounts!SetUserDisabled(FALSE) /\ Accounts!Done(c)
      <3>1. Quiet(c)
        BY <2>1, <2>3 DEF Quiet, UserStep, Moves
      <3> QED BY <3>1, QuietKeeps
    <2> QED BY <1>7, <2>2, <2>3 DEF Accounts!SetDisabled, Accounts!At
  <1> QED BY <1>5, <1>6, <1>7

\* The retention job ends what has run out; time passes; or nothing happens.
LEMMA OthersKeep ==
    ASSUME Accounts!AccountsAssumption, Accounts!EndedInv,
           Accounts!SweepSessions \/ Accounts!Tick \/ UNCHANGED Accounts!accountsVars
    PROVE  Accounts!EndedInv'
  <1>1. AccFacts
    BY AccFactsHold DEF Accounts!EndedInv
  <1>2. v1' = v1 /\ v3' = v3 /\ v4' = v4 /\ v5' = v5 /\ v6' = v6 /\ v8' = v8 /\ v9' = v9
    BY DEF Accounts!SweepSessions, Accounts!Tick, Accounts!accountsVars
  <1>3. v7' \in 0..MaxTime
    BY <1>1 DEF Accounts!SweepSessions, Accounts!Tick, Accounts!accountsVars, AccFacts, Accounts!AccountsAssumption
  <1>4. SessNext
    <2>1. CASE Accounts!SweepSessions
      <3> DEFINE S == {s \in Sessions : v2[s].exp <= v7}
      <3>1. S \in SUBSET Sessions
        OBVIOUS
      <3>2. v2' = [s \in Sessions |-> IF v2[s].st = "live" /\ s \in S THEN [v2[s] EXCEPT !.st = "gone"] ELSE v2[s]]
        BY <2>1 DEF Accounts!SweepSessions
      <3> HIDE DEF S
      <3> QED BY <1>1, <3>1, <3>2, Ends
    <2>2. CASE v2' = v2
      BY <1>1, <2>2, SessStays
    <2> QED BY <2>1, <2>2 DEF Accounts!Tick, Accounts!accountsVars
  <1>5. LinkNext /\ RestNext /\ v1' \in Accounts!User
    BY <1>1, <1>2, <1>3, LinkStays DEF RestNext, AccFacts
  <1> QED BY <1>2, <1>4, <1>5, Onward

\* Every step of the accounts keeps the invariant.
LEMMA AccountsKeep ==
    ASSUME Accounts!AccountsAssumption, Accounts!EndedInv, [Accounts!AccountsNext]_(Accounts!accountsVars)
    PROVE  Accounts!EndedInv'
  <1>1. AccFacts
    BY AccFactsHold DEF Accounts!EndedInv
  <1>2. ASSUME NEW c \in Pair,
               \/ Accounts!Fail(c) \/ Accounts!Register(c) \/ Accounts!UserCreate(c) \/ Accounts!Login(c)
               \/ Accounts!ExternalLogin(c) \/ Accounts!LinkIdentity(c) \/ Accounts!ExternalSignup(c)
               \/ Accounts!UnlinkIdentity(c) \/ Accounts!ChangePassword(c) \/ Accounts!UserSetPassword(c)
               \/ Accounts!IssueReset(c) \/ Accounts!ResendVerify(c) \/ Accounts!Confirmed(c)
        PROVE  Accounts!EndedInv'
    <2>1. Quiet(c)
      BY <1>1, <1>2, QuietSteps
    <2> QED BY <2>1, QuietKeeps
  <1>3. ASSUME NEW c \in Pair,
               \/ (Accounts!PostForms(c) \/ Accounts!PostSettings(c) \/ Accounts!GoogleCallback(c) \/ Accounts!UserCommand(c))
               \/ (Accounts!Authenticate(c) \/ Accounts!Welcome(c) \/ Accounts!Logout(c)
                   \/ Accounts!RevokeSessions(c) \/ Accounts!Reauth(c))
               \/ (Accounts!CreateAPIToken(c) \/ Accounts!RevokeAPIToken(c))
               \/ Accounts!Issue(c)
               \/ (Accounts!ResetPassword(c) \/ Accounts!ConfirmVerify(c))
               \/ (Accounts!Adopt(c) \/ Accounts!Save(c) \/ Accounts!SetDisabled(c))
        PROVE  Accounts!EndedInv'
    BY <1>3, PostKeeps, SessionKeeps, TokenKeeps, IssueKeeps, AcceptKeeps, ChangeKeeps
  <1> QED BY <1>2, <1>3, OthersKeep, Zenon DEF Accounts!AccountsNext

LEMMA AccountsStart ==
    ASSUME Accounts!AccountsAssumption, Accounts!AccountsInit PROVE Accounts!EndedInv
  <1>1. v1 \in Accounts!User /\ v3 = "none" /\ v6 = 0 /\ v7 = 0 /\ v8 = {} /\ v9 = [l \in Links |-> 0]
    BY DEF Accounts!AccountsInit
  <1>2. v5 = [c \in Pair |-> Accounts!Idle]
    BY DEF Accounts!AccountsInit
  <1>3. v5 \in [Pair -> Accounts!Call] /\ \A c \in Pair : v5[c].pc # "drop"
    BY <1>2, IdleCall
  <1>4. MaxCalls \in Nat /\ MaxTime \in Nat /\ AbsoluteTTL \in Nat /\ SessionTTL \in Nat /\ LinkTTL \in Nat
    BY DEF Accounts!AccountsAssumption
  <1>5. v2 \in [Sessions -> Accounts!Session] /\ \A s \in Sessions : v2[s].exp <= v2[s].abs
    <2> DEFINE r == [st |-> "live", seen |-> 0, reauth |-> 0, abs |-> AbsoluteTTL,
                     exp |-> Accounts!Extend(0, AbsoluteTTL)]
    <2>1. PICK first : v2 = [s \in Sessions |-> IF s # first THEN Accounts!NoRow ELSE r]
      BY DEF Accounts!AccountsInit
    <2>2. Accounts!NoRow \in Accounts!Session /\ Accounts!NoRow.exp <= Accounts!NoRow.abs
      BY DEF Accounts!NoRow, Accounts!Session
    <2>3. Accounts!Extend(0, AbsoluteTTL) \in Nat /\ Accounts!Extend(0, AbsoluteTTL) <= AbsoluteTTL
      BY <1>4 DEF Accounts!Extend
    <2>4. r \in Accounts!Session /\ r.exp <= r.abs
      BY <1>4, <2>3 DEF Accounts!Session
    <2> HIDE DEF r
    <2> QED BY <2>1, <2>2, <2>4
  <1>6. v4 \in [Links -> Accounts!Link]
    <2> DEFINE r == [st |-> "open", exp |-> LinkTTL, purpose |-> IF v1.verified THEN "reset" ELSE "verify"]
    <2>1. PICK first : v4 = [l \in Links |-> IF l # first THEN Accounts!NoMail ELSE r]
      BY DEF Accounts!AccountsInit
    <2>2. Accounts!NoMail \in Accounts!Link
      BY DEF Accounts!NoMail, Accounts!Link
    <2>3. r \in Accounts!Link
      BY <1>4 DEF Accounts!Link
    <2> HIDE DEF r
    <2> QED BY <2>1, <2>2, <2>3
  <1>7. Accounts!AccountsTypeOK
    BY <1>1, <1>3, <1>4, <1>5, <1>6 DEF Accounts!AccountsTypeOK
  <1>8. Accounts!SeenInv /\ Accounts!GoneInv /\ Accounts!UsesInv
    BY <1>1, <1>3 DEF Accounts!SeenInv, Accounts!GoneInv, Accounts!UsesInv
  <1> QED BY <1>7, <1>8 DEF Accounts!EndedInv

\* For any number of requests, commands, sessions and links: a session that a replaced password
\* or a disabled account was to end never comes back, and a mailed link is accepted once (auth:
\* ChangePassword, ResetPassword, SetPassword, SetDisabled, adopt; store/pg, ConsumeEmailToken).
THEOREM AccountStaysSafe == Spec => []AccountIsSafe
  <1> DEFINE Inv == part = "accounts" => Accounts!EndedInv
  <1>0. Accounts!AccountsAssumption
    BY AccessAssumption
  <1>1. Init => Inv
    BY <1>0, AccountsStart DEF Init
  <1>2. Inv /\ [Next]_vars => Inv'
    <2>1. ASSUME Inv, [Next]_vars, part' = "accounts" PROVE Accounts!EndedInv'
      <3>1. part = "accounts" /\ [Accounts!AccountsNext]_(Accounts!accountsVars)
        BY <2>1 DEF Next, vars, Accounts!accountsVars
      <3> QED BY <1>0, <2>1, <3>1, AccountsKeep
    <2> QED BY <2>1
  <1>3. Inv => AccountIsSafe
    <2>1. Accounts!EndedInv => Accounts!EndedStayEnded
      BY DEF Accounts!EndedInv, Accounts!GoneInv, Accounts!EndedStayEnded, Accounts!LiveSessions
    <2>2. Accounts!EndedInv => Accounts!LinkOnce
      BY DEF Accounts!EndedInv, Accounts!UsesInv, Accounts!LinkOnce
    <2> QED BY <2>1, <2>2 DEF AccountIsSafe
  <1> QED BY <1>1, <1>2, <1>3, PTL DEF Spec

-----------------------------------------------------------------------------
(* Idempotency keys: IdempotencyProofs, read as a part of MCAccess.  v1 is *)
(* keyRows, v2 attempts, v3 effects, v4 faults.                            *)

Kept == INSTANCE IdempotencyProofs WITH
    keyRows <- v1, attempts <- v2, effects <- v3, faults <- v4

\* What it says there is what it says here.
LEMMA SameStart == Kept!IdempotencyInit <=> Idempotency!IdempotencyInit
  BY DEF Kept!IdempotencyInit, Idempotency!IdempotencyInit, Kept!Free, Idempotency!Free

LEMMA SameOnceStart == Kept!Once!OnceInit <=> Idempotency!Once!OnceInit
  BY DEF Kept!Once!OnceInit, Idempotency!Once!OnceInit, Kept!Told, Idempotency!Told

LEMMA SameOnce == Kept!Once!OnceNext <=> Idempotency!Once!OnceNext
  BY DEF Kept!Once!OnceNext, Idempotency!Once!OnceNext, Kept!Told, Idempotency!Told, Kept!Once!CarryOut,
         Idempotency!Once!CarryOut,
    Kept!Once!Tell, Idempotency!Once!Tell, Kept!Once!Forget, Idempotency!Once!Forget

LEMMA SameSteps == Kept!IdempotencyNext <=> Idempotency!IdempotencyNext
  BY DEF Kept!IdempotencyNext, Idempotency!IdempotencyNext, Kept!Send, Idempotency!Send,
         Kept!ClaimIdempotency, Idempotency!ClaimIdempotency, Kept!Lookup, Idempotency!Lookup,
         Kept!Handle, Idempotency!Handle, Kept!Store, Idempotency!Store, Kept!ServerCrash,
         Idempotency!ServerCrash, Kept!PurgeKey, Idempotency!PurgeKey, Kept!With, Idempotency!With,
         Kept!Step, Idempotency!Step, Kept!Answer, Idempotency!Answer, Kept!Free, Idempotency!Free,
         Kept!ReadRow, Idempotency!ReadRow, Kept!SaveIdempotency, Idempotency!SaveIdempotency,
         Kept!DropIdempotency, Idempotency!DropIdempotency

\* For any attempts, keys, bodies, crashes and purges: what api/idempotency.go does implements
\* OnceOnly, as MCAccess states it (RetriesAreSafe).
THEOREM RetriesStaySafe == Spec => RetriesAreSafe
  <1> DEFINE Inv == part = "idempotency" => Kept!IdempotencyInv
             Act == part = "idempotency" => Idempotency!Once!OnceNext \/ UNCHANGED Idempotency!Once!onceVars
  <1>0. Kept!IdempotencyAssumption
    BY AccessAssumption DEF Kept!IdempotencyAssumption, Idempotency!IdempotencyAssumption
  <1>1. Init => Inv /\ (part = "idempotency" => Idempotency!Once!OnceInit)
    <2>1. ASSUME Idempotency!IdempotencyInit PROVE Kept!IdempotencyInv /\ Kept!Once!OnceInit
      <3>1. Kept!IdempotencyInit
        BY <2>1, SameStart
      <3>2. Kept!Once!OnceInit
        BY <3>1 DEF Kept!IdempotencyInit, Kept!Once!OnceInit, Kept!Told
      <3> QED BY <1>0, <3>1, <3>2, Kept!InitInv
    <2> QED BY <2>1, SameOnceStart DEF Init
  <1>2. Inv /\ [Next]_vars => Inv' /\ [Act]_vars
    <2>1. ASSUME Inv, [Next]_vars, part = "idempotency"
          PROVE  Kept!IdempotencyInv' /\ (Idempotency!Once!OnceNext \/ UNCHANGED Idempotency!Once!onceVars)
      <3>1. [Idempotency!IdempotencyNext]_(Idempotency!idempotencyVars)
        BY <2>1 DEF Next, vars, Idempotency!idempotencyVars
      <3>2. [Kept!IdempotencyNext]_(Kept!idempotencyVars)
        BY <3>1, SameSteps DEF Idempotency!idempotencyVars, Kept!idempotencyVars
      <3>3. [Kept!Once!OnceNext]_(Kept!Once!onceVars)
        BY <1>0, <2>1, <3>2, Kept!NextRefines
      <3>4. Kept!IdempotencyInv'
        BY <1>0, <2>1, <3>2, Kept!NextInv
      <3>5. Kept!Once!onceVars = Idempotency!Once!onceVars /\ Kept!Once!onceVars' = Idempotency!Once!onceVars'
        BY DEF Kept!Once!onceVars, Idempotency!Once!onceVars, Kept!Told, Idempotency!Told
      <3> QED BY <3>3, <3>4, <3>5, SameOnce
    <2>2. ASSUME [Next]_vars PROVE part' = part
      BY <2>2 DEF Next, vars
    <2> QED BY <2>1, <2>2
  <1> QED BY <1>1, <1>2, PTL DEF Spec, RetriesAreSafe

-----------------------------------------------------------------------------
(* The link to Google.  v1 is account, v2 valid, v3 locals, v4 binds, v5   *)
(* life, v6 dead, v7 procs, v8 pulls, v9 orphans, v10 linkCalls.           *)

\* The types, as the steps below use them.
LinkFacts ==
    /\ v1 \in [is : {"none", "ok", "revoked"}, token : 0..MaxLinkCalls]
    /\ v2 \subseteq 1..MaxLinkCalls /\ v3 \subseteq Locals /\ 1 \in v3
    /\ v4 \in [BindIds -> GoogleLink!Row] /\ v5 \in [Channels -> -1..2] /\ v6 \subseteq Channels
    /\ v7 \in [Pair -> GoogleLink!Proc]
    /\ v8 \subseteq BindIds /\ v9 \subseteq Channels /\ v10 \in 0..MaxLinkCalls
    /\ MaxLinkCalls \in Nat /\ Channels \subseteq Nat \ {0} /\ BindIds \subseteq Nat \ {0} /\ Locals \subseteq Nat \ {0}
    /\ ReadOnly \subseteq Remotes /\ Dirs \subseteq {"both", "pull", "push"}

LEMMA LinkFactsHold == ASSUME GoogleLink!LinkTypeOK PROVE LinkFacts
  BY AccessAssumption DEF GoogleLink!LinkTypeOK, GoogleLink!LinkAssumption, LinkFacts

LEMMA OwnsAre ==
    ASSUME LinkFacts, NEW b \in BindIds
    PROVE  GoogleLink!Owns(b) \subseteq Channels /\ v4[b].chan \in GoogleLink!Owns(b) \cup {0}
  <1>1. v4[b].chan \in Channels \cup {0}
    BY DEF LinkFacts, GoogleLink!Row
  <1>2. ASSUME NEW p \in Pair PROVE v7[p].rows[b].chan \in Channels \cup {0}
    <2>1. v7[p].rows \in [BindIds -> GoogleLink!Row]
      BY DEF LinkFacts, GoogleLink!Proc
    <2> QED BY <2>1 DEF GoogleLink!Row
  <1> QED BY <1>1, <1>2 DEF GoogleLink!Owns

LEMMA NoBindIs ==
    /\ GoogleLink!NoBind \in GoogleLink!Row /\ ~GoogleLink!NoBind.live /\ GoogleLink!NoBind.chan = 0
    /\ GoogleLink!NoBind.local = 0
  BY DEF GoogleLink!NoBind, GoogleLink!Row

LEMMA GoneIs == GoogleLink!Gone \in GoogleLink!Row /\ ~GoogleLink!Gone.live /\ GoogleLink!Gone.chan = 0
  BY NoBindIs DEF GoogleLink!Gone, GoogleLink!Row

LEMMA IdleIs ==
    /\ GoogleLink!Idle \in GoogleLink!Proc /\ GoogleLink!Idle.pc = "idle" /\ GoogleLink!Idle.stopped = {}
    /\ \A b \in BindIds : GoogleLink!Idle.rows[b] = GoogleLink!NoBind
  <1> DEFINE bs == [b \in BindIds |-> GoogleLink!NoBind]
             pk == [remote |-> "", target |-> 0, dir |-> "both"]
  <1>1. bs \in [BindIds -> GoogleLink!Row] /\ \A b \in BindIds : bs[b] = GoogleLink!NoBind
    BY NoBindIs
  <1>2. pk \in [remote : Remotes \cup {""}, target : {0, -1} \cup Locals \cup Channels, dir : {"both", "pull", "push"}]
    OBVIOUS
  <1>3. GoogleLink!Idle = [pc |-> "idle", token |-> 0, rows |-> bs, left |-> {}, at |-> 0, pick |-> pk, stopped |-> {}]
    BY DEF GoogleLink!Idle
  <1>4. 0 \in 0..MaxLinkCalls
    BY AccessAssumption DEF GoogleLink!LinkAssumption
  <1> HIDE DEF bs, pk
  <1> QED BY <1>1, <1>2, <1>3, <1>4 DEF GoogleLink!Proc

\* What a step of a process does to the channels.  It knows of no channel that was not known of
\* the binding before, stops only such, and leaves none that a row still names unaccounted for.
LinkStep(p, r) ==
    /\ v7' = [v7 EXCEPT ![p] = r]
    /\ \A b \in BindIds : /\ v4'[b].chan \in {v4[b].chan, 0} /\ r.rows[b].chan \in GoogleLink!Owns(b) \cup {0}
                          /\ v4'[b].live => v4[b].live \/ v4'[b].chan = 0
                          /\ ~v4'[b].live => v4'[b].chan = 0
    /\ r.pc # "save"
    /\ r.pc \in {"watch", "open", "save", "refused", "unbind", "redirect", "pull"} => r.at \in BindIds
    /\ r.pc \in {"open", "save", "refused", "unbind"} => r.stopped \subseteq GoogleLink!Named(r.rows[r.at])
    /\ r.pc \notin {"open", "save", "refused", "unbind", "delete"} => r.stopped = {}
    /\ v5' = v5
    /\ v6 \subseteq v6' /\ v6' \ v6 \subseteq r.stopped /\ \A c \in v6' \ v6 : \E b \in BindIds : c \in GoogleLink!Owns(b)
    /\ v9 \subseteq v9'
    /\ \A c \in v7[p].stopped : c \in r.stopped \cup v9' \/ \A b \in BindIds : v4'[b].live => v4'[b].chan # c

LEMMA LinkStepKeeps ==
    ASSUME GoogleLink!LinkInv, NEW p \in Pair, NEW r \in GoogleLink!Proc, LinkStep(p, r)
    PROVE  GoogleLink!OwnInv' /\ GoogleLink!FreshInv' /\ GoogleLink!StopInv' /\ GoogleLink!AliveInv'
  <1>0. LinkFacts
    BY LinkFactsHold DEF GoogleLink!LinkInv
  <1>1. v7'[p] = r /\ \A q \in Pair \ {p} : v7'[q] = v7[q]
    BY <1>0 DEF LinkStep, LinkFacts
  <1>2. \A b \in BindIds : GoogleLink!Owns(b)' \subseteq GoogleLink!Owns(b)
    BY <1>1 DEF LinkStep, GoogleLink!Owns
  <1>3. GoogleLink!OwnInv'
    BY <1>2 DEF LinkStep, GoogleLink!LinkInv, GoogleLink!OwnInv
  <1>4. GoogleLink!FreshInv'
    <2>1. \A c \in v6' : v5'[c] # -1
      BY DEF LinkStep, GoogleLink!LinkInv, GoogleLink!OwnInv, GoogleLink!FreshInv
    <2>2. ASSUME NEW q \in Pair, v7'[q].pc = "save"
          PROVE  LET c == v7'[q].pick.target
                 IN  /\ c \in Channels /\ v5'[c] # -1 /\ c \notin v6' /\ \A b \in BindIds : c \notin GoogleLink!Owns(b)'
                     /\ \A e \in Pair \ {q} : v7'[e].pc = "save" => v7'[e].pick.target # c
      <3>1. q # p /\ v7'[q] = v7[q]
        BY <1>1, <2>2 DEF LinkStep
      <3> DEFINE c == v7[q].pick.target
      <3>2. /\ c \in Channels /\ v5[c] # -1 /\ c \notin v6 /\ \A b \in BindIds : c \notin GoogleLink!Owns(b)
            /\ \A e \in Pair \ {q} : v7[e].pc = "save" => v7[e].pick.target # c
        BY <2>2, <3>1 DEF GoogleLink!LinkInv, GoogleLink!FreshInv
      <3>3. c \notin v6'
        BY <3>2 DEF LinkStep
      <3>4. \A b \in BindIds : c \notin GoogleLink!Owns(b)'
        BY <1>2, <3>2
      <3>5. \A e \in Pair \ {q} : v7'[e].pc = "save" => v7'[e].pick.target # c
        BY <1>1, <3>2 DEF LinkStep
      <3> QED BY <3>1, <3>2, <3>3, <3>4, <3>5 DEF LinkStep
    <2> QED BY <2>1, <2>2 DEF GoogleLink!FreshInv
  <1>5. GoogleLink!StopInv'
    <2>1. \A q \in Pair \ {p} : v7'[q] = v7[q]
      BY <1>1
    <2> QED BY <1>1, <2>1 DEF LinkStep, GoogleLink!LinkInv, GoogleLink!StopInv, GoogleLink!Named
  <1>6. GoogleLink!AliveInv'
    <2> SUFFICES ASSUME NEW b \in BindIds, v4'[b].live, v4'[b].chan \in v6'
                 PROVE  v4'[b].chan \in v9' \cup UNION {v7'[q].stopped : q \in Pair}
      BY DEF GoogleLink!AliveInv, GoogleLink!Bindings
    <2> DEFINE c == v4'[b].chan
    <2>1. r.stopped \subseteq UNION {v7'[q].stopped : q \in Pair}
      BY <1>1
    <2>2. CASE c \notin v6
      BY <2>1, <2>2 DEF LinkStep
    <2>3. CASE c \in v6
      <3>1. c # 0 /\ c = v4[b].chan /\ v4[b].live
        BY <1>0, <2>3 DEF LinkStep, LinkFacts
      <3>2. c \in v9 \cup UNION {v7[q].stopped : q \in Pair}
        BY <2>3, <3>1 DEF GoogleLink!LinkInv, GoogleLink!AliveInv, GoogleLink!Bindings
      <3>3. CASE c \in v9
        BY <3>3 DEF LinkStep
      <3>4. ASSUME NEW q \in Pair, c \in v7[q].stopped PROVE c \in v9' \cup UNION {v7'[e].stopped : e \in Pair}
        <4>1. CASE q = p
          BY <2>1, <3>4, <4>1 DEF LinkStep
        <4>2. CASE q # p
          BY <1>1, <3>4, <4>2
        <4> QED BY <4>1, <4>2
      <3> QED BY <3>2, <3>3, <3>4
    <2> QED BY <2>2, <2>3
  <1> QED BY <1>3, <1>4, <1>5, <1>6

\* A new channel is nobody's.
LEMMA OpenKeeps ==
    ASSUME GoogleLink!LinkInv, NEW p \in Pair, NEW r \in GoogleLink!Proc, NEW c \in Channels, v7[p].pc = "open",
           v5[c] = -1, v5' = [v5 EXCEPT ![c] = 2], v7' = [v7 EXCEPT ![p] = r], UNCHANGED <<v4, v6, v9>>,
           r.pc = "save", r.at = v7[p].at, r.rows = v7[p].rows, r.stopped = v7[p].stopped, r.pick.target = c
    PROVE  GoogleLink!OwnInv' /\ GoogleLink!FreshInv' /\ GoogleLink!StopInv' /\ GoogleLink!AliveInv'
  <1>0. LinkFacts
    BY LinkFactsHold DEF GoogleLink!LinkInv
  <1>1. v7'[p] = r /\ \A q \in Pair \ {p} : v7'[q] = v7[q]
    BY <1>0 DEF LinkFacts
  <1>2. \A b \in BindIds : GoogleLink!Owns(b)' = GoogleLink!Owns(b)
    BY <1>1 DEF GoogleLink!Owns
  <1>3. v5'[c] # -1 /\ \A d \in Channels : v5[d] # -1 => v5'[d] # -1
    BY <1>0 DEF LinkFacts
  <1>4. \A b \in BindIds : GoogleLink!Owns(b) \subseteq Channels
    BY <1>0, OwnsAre
  <1>5. GoogleLink!OwnInv'
    BY <1>2, <1>3, <1>4 DEF GoogleLink!LinkInv, GoogleLink!OwnInv
  <1>6. GoogleLink!FreshInv'
    <2>1. \A d \in v6' : v5'[d] # -1
      BY <1>0, <1>3 DEF GoogleLink!LinkInv, GoogleLink!FreshInv, LinkFacts
    <2>2. c \notin v6 /\ \A b \in BindIds : c \notin GoogleLink!Owns(b)
      BY DEF GoogleLink!LinkInv, GoogleLink!FreshInv, GoogleLink!OwnInv
    <2>3. ASSUME NEW q \in Pair, v7'[q].pc = "save"
          PROVE  LET d == v7'[q].pick.target
                 IN  /\ d \in Channels /\ v5'[d] # -1 /\ d \notin v6' /\ \A b \in BindIds : d \notin GoogleLink!Owns(b)'
                     /\ \A e \in Pair \ {q} : v7'[e].pc = "save" => v7'[e].pick.target # d
      <3>1. \A e \in Pair \ {p} : v7[e].pc = "save" => v7[e].pick.target # c
        BY DEF GoogleLink!LinkInv, GoogleLink!FreshInv
      <3>2. CASE q = p
        BY <1>1, <1>2, <1>3, <2>2, <3>1, <3>2
      <3>3. CASE q # p
        <4>1. LET d == v7[q].pick.target
              IN  /\ d \in Channels /\ v5[d] # -1 /\ d \notin v6 /\ \A b \in BindIds : d \notin GoogleLink!Owns(b)
                  /\ \A e \in Pair \ {q} : v7[e].pc = "save" => v7[e].pick.target # d
          BY <1>1, <2>3, <3>3 DEF GoogleLink!LinkInv, GoogleLink!FreshInv
        <4> QED BY <1>1, <1>2, <1>3, <2>3, <3>1, <3>3, <4>1
      <3> QED BY <3>2, <3>3
    <2> QED BY <2>1, <2>3 DEF GoogleLink!FreshInv
  <1>7. GoogleLink!StopInv'
    BY <1>1 DEF GoogleLink!LinkInv, GoogleLink!StopInv, GoogleLink!Named
  <1>8. GoogleLink!AliveInv'
    <2>1. \A q \in Pair : v7'[q].stopped = v7[q].stopped
      BY <1>1
    <2> QED BY <2>1 DEF GoogleLink!LinkInv, GoogleLink!AliveInv, GoogleLink!Bindings
  <1> QED BY <1>5, <1>6, <1>7, <1>8

LEMMA WithChannel ==
    ASSUME NEW w \in GoogleLink!Row, NEW c
    PROVE  [w EXCEPT !.chan = c].chan = c /\ [w EXCEPT !.chan = c].live = w.live
  BY DEF GoogleLink!Row

\* Its row takes it, and drops the one that was stopped.
LEMMA SaveKeeps ==
    ASSUME GoogleLink!LinkInv, NEW p \in Pair, NEW r \in GoogleLink!Proc, NEW a, NEW c, v7[p].pc = "save",
           a = v7[p].at, c = v7[p].pick.target, v4[a].live, v4' = [v4 EXCEPT ![a].chan = c],
           v7' = [v7 EXCEPT ![p] = r], UNCHANGED <<v5, v6, v9>>,
           r.pc = "next", r.rows = v7[p].rows, r.stopped = {}
    PROVE  GoogleLink!OwnInv' /\ GoogleLink!FreshInv' /\ GoogleLink!StopInv' /\ GoogleLink!AliveInv'
  <1>0. LinkFacts
    BY LinkFactsHold DEF GoogleLink!LinkInv
  <1>1. v7'[p] = r /\ \A q \in Pair \ {p} : v7'[q] = v7[q]
    BY <1>0 DEF LinkFacts
  <1>2. a \in BindIds /\ v7[p].stopped \subseteq GoogleLink!Named(v7[p].rows[a])
    BY DEF GoogleLink!LinkInv, GoogleLink!StopInv
  <1>3. /\ c \in Channels /\ v5[c] # -1 /\ c \notin v6 /\ \A b \in BindIds : c \notin GoogleLink!Owns(b)
        /\ \A q \in Pair \ {p} : v7[q].pc = "save" => v7[q].pick.target # c
    BY DEF GoogleLink!LinkInv, GoogleLink!FreshInv
  <1>4. v4'[a].chan = c /\ v4'[a].live /\ \A b \in BindIds \ {a} : v4'[b] = v4[b]
    <2>1. v4'[a] = [v4[a] EXCEPT !.chan = c] /\ \A b \in BindIds \ {a} : v4'[b] = v4[b]
      BY <1>0, <1>2 DEF LinkFacts
    <2>2. v4[a] \in GoogleLink!Row
      BY <1>0, <1>2 DEF LinkFacts
    <2>3. \A w \in GoogleLink!Row : [w EXCEPT !.chan = c].chan = c /\ [w EXCEPT !.chan = c].live = w.live
      BY WithChannel
    <2> DEFINE w == v4[a]
    <2>4. [w EXCEPT !.chan = c].chan = c /\ [w EXCEPT !.chan = c].live = w.live
      <3> HIDE DEF w
      <3> QED BY <2>2, <2>3 DEF w
    <2> QED BY <2>1, <2>4, Zenon
  <1>5. /\ GoogleLink!Owns(a)' \subseteq GoogleLink!Owns(a) \cup {c}
        /\ \A b \in BindIds \ {a} : GoogleLink!Owns(b)' = GoogleLink!Owns(b)
    BY <1>1, <1>2, <1>4 DEF GoogleLink!Owns
  <1>6. GoogleLink!OwnInv'
    <2>1. /\ \A b \in BindIds : \A d \in GoogleLink!Owns(b) : v5[d] # -1 /\ \A e \in BindIds \ {b} : d \notin GoogleLink!Owns(e)
          /\ \A b \in BindIds : ~v4[b].live => v4[b].chan = 0
      BY DEF GoogleLink!LinkInv, GoogleLink!OwnInv
    <2>2. ASSUME NEW b \in BindIds, NEW d \in GoogleLink!Owns(b)'
          PROVE  v5'[d] # -1 /\ \A e \in BindIds \ {b} : d \notin GoogleLink!Owns(e)'
      BY <1>2, <1>3, <1>5, <2>1, <2>2
    <2>3. \A b \in BindIds : ~v4'[b].live => v4'[b].chan = 0
      BY <1>4, <2>1
    <2> QED BY <2>2, <2>3 DEF GoogleLink!OwnInv
  <1>7. GoogleLink!FreshInv'
    <2>1. \A d \in v6' : v5'[d] # -1
      BY DEF GoogleLink!LinkInv, GoogleLink!FreshInv
    <2>2. ASSUME NEW q \in Pair, v7'[q].pc = "save"
          PROVE  LET d == v7'[q].pick.target
                 IN  /\ d \in Channels /\ v5'[d] # -1 /\ d \notin v6' /\ \A b \in BindIds : d \notin GoogleLink!Owns(b)'
                     /\ \A e \in Pair \ {q} : v7'[e].pc = "save" => v7'[e].pick.target # d
      <3>1. q # p /\ v7'[q] = v7[q]
        BY <1>1, <2>2
      <3>2. LET d == v7[q].pick.target
            IN  /\ d \in Channels /\ v5[d] # -1 /\ d \notin v6 /\ \A b \in BindIds : d \notin GoogleLink!Owns(b)
                /\ \A e \in Pair \ {q} : v7[e].pc = "save" => v7[e].pick.target # d
        BY <2>2, <3>1 DEF GoogleLink!LinkInv, GoogleLink!FreshInv
      <3>3. v7[q].pick.target # c
        BY <1>3, <2>2, <3>1
      <3>4. \A b \in BindIds : v7[q].pick.target \notin GoogleLink!Owns(b)'
        BY <1>5, <3>2, <3>3
      <3> QED BY <1>1, <3>1, <3>2, <3>4
    <2> QED BY <2>1, <2>2 DEF GoogleLink!FreshInv
  <1>8. GoogleLink!StopInv'
    BY <1>1 DEF GoogleLink!LinkInv, GoogleLink!StopInv, GoogleLink!Named
  <1>9. GoogleLink!AliveInv'
    <2> SUFFICES ASSUME NEW b \in BindIds, v4'[b].live, v4'[b].chan \in v6'
                 PROVE  v4'[b].chan \in v9' \cup UNION {v7'[q].stopped : q \in Pair}
      BY DEF GoogleLink!AliveInv, GoogleLink!Bindings
    <2>1. b # a /\ v4'[b] = v4[b]
      BY <1>3, <1>4
    <2>2. v4[b].chan \in v9 \cup UNION {v7[q].stopped : q \in Pair}
      BY <2>1 DEF GoogleLink!LinkInv, GoogleLink!AliveInv, GoogleLink!Bindings
    <2>3. v4[b].chan \notin v7[p].stopped
      <3>1. v4[b].chan \in GoogleLink!Owns(b)
        BY <1>0, <2>1 DEF LinkFacts, GoogleLink!Owns
      <3>2. v7[p].stopped \subseteq GoogleLink!Owns(a)
        BY <1>2 DEF GoogleLink!Owns, GoogleLink!Named
      <3> QED BY <1>2, <2>1, <3>1, <3>2 DEF GoogleLink!LinkInv, GoogleLink!OwnInv
    <2> QED BY <1>1, <2>1, <2>2, <2>3
  <1> QED BY <1>6, <1>7, <1>8, <1>9

\* A step that touches neither rows, channels nor processes.
LEMMA LinkPartsRest ==
    ASSUME GoogleLink!LinkInv, UNCHANGED <<v4, v6, v7, v9>>, \A c \in Channels : v5[c] # -1 => v5'[c] # -1
    PROVE  GoogleLink!OwnInv' /\ GoogleLink!FreshInv' /\ GoogleLink!StopInv' /\ GoogleLink!AliveInv'
  <1>0. LinkFacts
    BY LinkFactsHold DEF GoogleLink!LinkInv
  <1>1. \A b \in BindIds : GoogleLink!Owns(b)' = GoogleLink!Owns(b) /\ GoogleLink!Owns(b) \subseteq Channels
    BY <1>0, OwnsAre DEF GoogleLink!Owns
  <1>2. GoogleLink!OwnInv'
    BY <1>1 DEF GoogleLink!LinkInv, GoogleLink!OwnInv
  <1>3. GoogleLink!FreshInv'
    <2>1. \A c \in v6' : v5'[c] # -1
      BY <1>0 DEF GoogleLink!LinkInv, GoogleLink!FreshInv, LinkFacts
    <2>2. ASSUME NEW q \in Pair, v7'[q].pc = "save"
          PROVE  LET d == v7'[q].pick.target
                 IN  /\ d \in Channels /\ v5'[d] # -1 /\ d \notin v6' /\ \A b \in BindIds : d \notin GoogleLink!Owns(b)'
                     /\ \A e \in Pair \ {q} : v7'[e].pc = "save" => v7'[e].pick.target # d
      <3>1. LET d == v7[q].pick.target
            IN  /\ d \in Channels /\ v5[d] # -1 /\ d \notin v6 /\ \A b \in BindIds : d \notin GoogleLink!Owns(b)
                /\ \A e \in Pair \ {q} : v7[e].pc = "save" => v7[e].pick.target # d
        BY <2>2 DEF GoogleLink!LinkInv, GoogleLink!FreshInv
      <3> QED BY <1>1, <3>1
    <2> QED BY <2>1, <2>2 DEF GoogleLink!FreshInv
  <1>4. GoogleLink!StopInv' /\ GoogleLink!AliveInv'
    BY DEF GoogleLink!LinkInv, GoogleLink!StopInv, GoogleLink!AliveInv, GoogleLink!Bindings
  <1> QED BY <1>2, <1>3, <1>4

-----------------------------------------------------------------------------
(* Its steps. *)

\* The types of the tables.
LinkTables ==
    /\ v1 \in [is : {"none", "ok", "revoked"}, token : 0..MaxLinkCalls]
    /\ v2 \subseteq 1..MaxLinkCalls /\ v3 \subseteq Locals /\ 1 \in v3
    /\ v4 \in [BindIds -> GoogleLink!Row]
    /\ \A b \in BindIds : v4[b].live => v4[b].remote \in Remotes /\ v4[b].local \in v3 /\ v1.is # "none"
    /\ v6 \subseteq Channels /\ v8 \subseteq BindIds /\ v9 \subseteq Channels /\ v10 \in 0..MaxLinkCalls

Picks == [remote : Remotes \cup {""}, target : {0, -1} \cup Locals \cup Channels, dir : {"both", "pull", "push"}]

Choosing == {"apply", "unbind", "bind", "redirect"}

LEMMA ProcMoves ==
    ASSUME GoogleLink!LinkInv, NEW p \in Pair, NEW r \in GoogleLink!Proc, LinkStep(p, r), LinkTables',
           r.pc \in Choosing => r.pick.remote \in Remotes
    PROVE  GoogleLink!LinkInv'
  <1>1. v5' \in [Channels -> -1..2]
    BY DEF LinkStep, GoogleLink!LinkInv, GoogleLink!LinkTypeOK
  <1>2. v7' \in [Pair -> GoogleLink!Proc]
    BY DEF LinkStep, GoogleLink!LinkInv, GoogleLink!LinkTypeOK
  <1>3. \A q \in Pair : v7'[q].pc \in Choosing => v7'[q].pick.remote \in Remotes
    BY DEF LinkStep, GoogleLink!LinkInv, GoogleLink!LinkTypeOK, Choosing
  <1>4. GoogleLink!LinkTypeOK'
    BY <1>1, <1>2, <1>3 DEF LinkTables, GoogleLink!LinkTypeOK, Choosing
  <1> QED BY <1>4, LinkStepKeeps DEF GoogleLink!LinkInv

LEMMA TablesTyped == ASSUME GoogleLink!LinkInv PROVE LinkTables
  BY DEF GoogleLink!LinkInv, GoogleLink!LinkTypeOK, LinkTables

\* What a process read is known of the binding.
LEMMA RowsKnown ==
    ASSUME LinkFacts, NEW p \in Pair, NEW b \in BindIds
    PROVE  /\ v4[b] \in GoogleLink!Row /\ v7[p].rows[b] \in GoogleLink!Row
           /\ v4[b].chan \in GoogleLink!Owns(b) \cup {0} /\ v7[p].rows[b].chan \in GoogleLink!Owns(b) \cup {0}
  <1>1. v4[b] \in GoogleLink!Row /\ v7[p].rows \in [BindIds -> GoogleLink!Row]
    BY DEF LinkFacts, GoogleLink!Proc
  <1>2. v4[b].chan \in GoogleLink!Owns(b) \cup {0} /\ v7[p].rows[b].chan \in GoogleLink!Owns(b) \cup {0}
    BY DEF GoogleLink!Owns
  <1> QED BY <1>1, <1>2

\* Steps of nobody: the account, the jobs that are queued, time.
LEMMA LinkRests ==
    ASSUME GoogleLink!LinkInv, UNCHANGED <<v4, v6, v7, v9>>, \A c \in Channels : v5[c] # -1 => v5'[c] # -1,
           v5' \in [Channels -> -1..2], LinkTables'
    PROVE  GoogleLink!LinkInv'
  <1>1. GoogleLink!LinkTypeOK'
    BY DEF LinkTables, GoogleLink!LinkTypeOK, GoogleLink!LinkInv
  <1> QED BY <1>1, LinkPartsRest DEF GoogleLink!LinkInv

LEMMA ConnectKeeps ==
    ASSUME GoogleLink!LinkInv, GoogleLink!Connect \/ GoogleLink!Run \/ GoogleLink!RevokeAtGoogle
    PROVE  GoogleLink!LinkInv'
  <1>0. LinkFacts /\ LinkTables
    BY LinkFactsHold, TablesTyped DEF GoogleLink!LinkInv
  <1>1. UNCHANGED <<v4, v5, v6, v7, v9>>
    BY DEF GoogleLink!Connect, GoogleLink!Run, GoogleLink!RevokeAtGoogle
  <1>2. LinkTables'
    <2>1. CASE GoogleLink!Connect
      <3>1. v10' \in 0..MaxLinkCalls /\ v10' = v10 + 1 /\ v10' \in 1..MaxLinkCalls
        BY <1>0, <2>1 DEF LinkFacts, GoogleLink!Connect, GoogleLink!Call
      <3>2. v2' \subseteq 1..MaxLinkCalls
        BY <1>0, <2>1, <3>1 DEF LinkFacts, GoogleLink!Connect
      <3>3. v1' \in [is : {"none", "ok", "revoked"}, token : 0..MaxLinkCalls] /\ v1'.is = "ok"
        BY <1>0, <2>1, <3>1 DEF LinkFacts, GoogleLink!Connect
      <3>4. v8' \subseteq BindIds
        BY <1>0, <2>1 DEF LinkFacts, GoogleLink!Connect, GoogleLink!Bindings
      <3> QED BY <1>0, <1>1, <2>1, <3>1, <3>2, <3>3, <3>4 DEF LinkTables, GoogleLink!Connect
    <2>2. CASE GoogleLink!Run
      BY <1>0, <1>1, <2>2 DEF LinkTables, GoogleLink!Run, GoogleLink!Bindings
    <2>3. CASE GoogleLink!RevokeAtGoogle
      <3>1. v10' \in 0..MaxLinkCalls
        BY <1>0, <2>3 DEF LinkFacts, GoogleLink!RevokeAtGoogle, GoogleLink!Call
      <3> QED BY <1>0, <1>1, <2>3, <3>1 DEF LinkTables, GoogleLink!RevokeAtGoogle
    <2> QED BY <2>1, <2>2, <2>3
  <1> QED BY <1>0, <1>1, <1>2, LinkRests DEF LinkFacts

LEMMA JobsKeep ==
    ASSUME GoogleLink!LinkInv, \/ \E c \in Channels : GoogleLink!Webhook(c) \/ GoogleLink!Age(c)
                               \/ \E b \in BindIds : GoogleLink!HandlePoll(b)
    PROVE  GoogleLink!LinkInv'
  <1>0. LinkFacts /\ LinkTables
    BY LinkFactsHold, TablesTyped DEF GoogleLink!LinkInv
  <1>1. UNCHANGED <<v1, v2, v3, v4, v6, v7, v9, v10>>
    BY DEF GoogleLink!Webhook, GoogleLink!Age, GoogleLink!HandlePoll
  <1>2. v8' \subseteq BindIds
    <2>1. \/ v8' = v8
          \/ \E b \in BindIds : v8' = v8 \cup {b}
      BY DEF GoogleLink!Webhook, GoogleLink!Age, GoogleLink!HandlePoll, GoogleLink!Bindings
    <2> QED BY <1>0, <2>1 DEF LinkFacts
  <1>3. v5' \in [Channels -> -1..2] /\ \A c \in Channels : v5[c] # -1 => v5'[c] # -1
    <2>1. ASSUME NEW c \in Channels, GoogleLink!Age(c)
          PROVE  v5' \in [Channels -> -1..2] /\ \A d \in Channels : v5[d] # -1 => v5'[d] # -1
      <3>1. v5[c] \in -1..2 /\ v5[c] > 0 /\ v5' = [v5 EXCEPT ![c] = v5[c] - 1]
        BY <1>0, <2>1 DEF LinkFacts, GoogleLink!Age
      <3>2. v5[c] - 1 \in -1..2 /\ v5[c] - 1 # -1
        BY <3>1
      <3> QED BY <1>0, <3>1, <3>2 DEF LinkFacts
    <2>2. CASE v5' = v5
      BY <1>0, <2>2 DEF LinkFacts
    <2> QED BY <2>1, <2>2 DEF GoogleLink!Webhook, GoogleLink!HandlePoll
  <1>4. LinkTables'
    BY <1>0, <1>1, <1>2 DEF LinkTables
  <1> QED BY <1>1, <1>3, <1>4, LinkRests

LEMMA WatchKeeps ==
    ASSUME GoogleLink!LinkInv, NEW p \in Pair, GoogleLink!Watch(p) PROVE GoogleLink!LinkInv'
  <1> DEFINE me == v7[p]
             row == me.rows[me.at]
  <1>0. LinkFacts /\ LinkTables
    BY LinkFactsHold, TablesTyped DEF GoogleLink!LinkInv
  <1>1. me \in GoogleLink!Proc /\ me.at \in BindIds /\ me.stopped = {} /\ me.pc = "watch"
    BY <1>0 DEF LinkFacts, GoogleLink!Watch, GoogleLink!LinkInv, GoogleLink!StopInv
  <1>2. row \in GoogleLink!Row /\ \A b \in BindIds : me.rows[b].chan \in GoogleLink!Owns(b) \cup {0}
    BY <1>0, <1>1, RowsKnown
  <1>3. GoogleLink!Named(row) \subseteq Channels /\ GoogleLink!Named(row) \subseteq GoogleLink!Owns(me.at)
    BY <1>1, <1>2 DEF GoogleLink!Row, GoogleLink!Named
  <1>4. CASE ~GoogleLink!Pulls(row)
    <2> DEFINE r == [me EXCEPT !.pc = "next"]
    <2>1. r \in GoogleLink!Proc /\ r.pc = "next" /\ r.rows = me.rows /\ r.stopped = {}
      BY <1>1 DEF GoogleLink!Proc
    <2>2. v7' = [v7 EXCEPT ![p] = r] /\ UNCHANGED <<v1, v2, v3, v4, v5, v6, v8, v9, v10>>
      BY <1>4 DEF GoogleLink!Watch, GoogleLink!With
    <2> HIDE DEF r
    <2>3. LinkStep(p, r)
      BY <1>0, <1>1, <1>2, <2>1, <2>2, RowsKnown DEF LinkStep, GoogleLink!LinkInv, GoogleLink!OwnInv
    <2>4. LinkTables'
      BY <1>0, <2>2 DEF LinkTables
    <2> QED BY <2>1, <2>3, <2>4, ProcMoves DEF Choosing
  <1>5. CASE GoogleLink!Pulls(row)
    <2> DEFINE r == [me EXCEPT !.pc = "open", !.stopped = GoogleLink!Named(row)]
    <2>1. r \in GoogleLink!Proc /\ r.pc = "open" /\ r.rows = me.rows /\ r.at = me.at /\ r.stopped = GoogleLink!Named(row)
      <3> HIDE DEF row
      <3> QED BY <1>1, <1>3 DEF GoogleLink!Proc
    <2>2. v7' = [v7 EXCEPT ![p] = r] /\ UNCHANGED <<v1, v2, v3, v4, v5, v8, v9, v10>>
      BY <1>5 DEF GoogleLink!Watch, GoogleLink!With
    <2>3. v6' \in {v6, v6 \cup GoogleLink!Named(row)}
      BY <1>5 DEF GoogleLink!Watch, GoogleLink!StopWatch
    <2> HIDE DEF r
    <2>4. v6 \subseteq v6' /\ v6' \ v6 \subseteq r.stopped /\ \A c \in v6' \ v6 : \E b \in BindIds : c \in GoogleLink!Owns(b)
      BY <1>1, <1>3, <2>1, <2>3
    <2>5. LinkStep(p, r)
      BY <1>0, <1>1, <1>2, <2>1, <2>2, <2>4, RowsKnown DEF LinkStep, GoogleLink!LinkInv, GoogleLink!OwnInv
    <2>6. LinkTables'
      BY <1>0, <1>3, <2>2, <2>3 DEF LinkTables
    <2> QED BY <2>1, <2>5, <2>6, ProcMoves DEF Choosing
  <1> QED BY <1>4, <1>5

LEMMA OpenChannelKeeps ==
    ASSUME GoogleLink!LinkInv, NEW p \in Pair, GoogleLink!OpenChannel(p) PROVE GoogleLink!LinkInv'
  <1> DEFINE me == v7[p]
  <1>0. LinkFacts /\ LinkTables
    BY LinkFactsHold, TablesTyped DEF GoogleLink!LinkInv
  <1>1. me \in GoogleLink!Proc /\ me.at \in BindIds /\ me.stopped \subseteq GoogleLink!Named(me.rows[me.at]) /\ me.pc = "open"
    BY <1>0 DEF LinkFacts, GoogleLink!OpenChannel, GoogleLink!LinkInv, GoogleLink!StopInv
  <1>2. UNCHANGED <<v1, v2, v3, v4, v6, v8, v9>>
    BY DEF GoogleLink!OpenChannel
  <1>3. v10' \in 0..MaxLinkCalls
    <2>1. v10' = v10 \/ (v10 < MaxLinkCalls /\ v10' = v10 + 1)
      BY Zenon DEF GoogleLink!OpenChannel, GoogleLink!Call
    <2> QED BY <1>0, <2>1 DEF LinkFacts
  <1>4. LinkTables'
    BY <1>0, <1>2, <1>3 DEF LinkTables
  <1>5. ASSUME NEW c \in Channels, v5[c] = -1, v5' = [v5 EXCEPT ![c] = 2],
               v7' = [v7 EXCEPT ![p] = [me EXCEPT !.pc = "save", !.pick.target = c]]
        PROVE  GoogleLink!LinkInv'
    <2> DEFINE k == [me.pick EXCEPT !.target = c]
               r == [me EXCEPT !.pc = "save", !.pick = k]
    <2>1. me.pick \in Picks
      BY <1>1 DEF GoogleLink!Proc, Picks
    <2>2. k \in Picks /\ k.target = c
      BY <2>1 DEF Picks
    <2>3. v7' = [v7 EXCEPT ![p] = r]
      BY <1>5
    <2> HIDE DEF k
    <2>4. /\ r \in GoogleLink!Proc /\ r.pc = "save" /\ r.at = me.at
          /\ r.rows = me.rows /\ r.stopped = me.stopped /\ r.pick.target = c
      <3>1. r = [me EXCEPT !.pc = "save", !.pick = k] /\ me \in GoogleLink!Proc
        BY <1>1
      <3> HIDE DEF me, r
      <3>3. r \in GoogleLink!Proc /\ r.pc = "save" /\ r.pick = k /\ r.at = me.at /\ r.rows = me.rows /\ r.stopped = me.stopped
        BY <2>2, <3>1 DEF GoogleLink!Proc, Picks
      <3> QED BY <2>2, <3>3
    <2> HIDE DEF r
    <2>5. GoogleLink!OwnInv' /\ GoogleLink!FreshInv' /\ GoogleLink!StopInv' /\ GoogleLink!AliveInv'
      BY <1>1, <1>2, <1>5, <2>3, <2>4, OpenKeeps
    <2>6. v5' \in [Channels -> -1..2]
      BY <1>0, <1>5 DEF LinkFacts
    <2>7. v7' \in [Pair -> GoogleLink!Proc] /\ \A q \in Pair : v7'[q].pc \in Choosing => v7'[q].pick.remote \in Remotes
      BY <1>0, <2>3, <2>4 DEF LinkFacts, GoogleLink!LinkInv, GoogleLink!LinkTypeOK, Choosing
    <2>8. GoogleLink!LinkTypeOK'
      BY <1>4, <2>6, <2>7 DEF LinkTables, GoogleLink!LinkTypeOK, Choosing
    <2> QED BY <2>5, <2>8 DEF GoogleLink!LinkInv
  <1>6. ASSUME v5' = v5, v7' = [v7 EXCEPT ![p] = [me EXCEPT !.pc = "refused"]] PROVE GoogleLink!LinkInv'
    <2> DEFINE r == [me EXCEPT !.pc = "refused"]
    <2>1. r \in GoogleLink!Proc /\ r.pc = "refused" /\ r.rows = me.rows /\ r.at = me.at /\ r.stopped = me.stopped
      BY <1>1 DEF GoogleLink!Proc
    <2>2. v7' = [v7 EXCEPT ![p] = r]
      BY <1>6
    <2> HIDE DEF r
    <2>3. LinkStep(p, r)
      BY <1>0, <1>1, <1>2, <1>6, <2>1, <2>2, RowsKnown DEF LinkStep, GoogleLink!LinkInv, GoogleLink!OwnInv
    <2> QED BY <1>4, <2>1, <2>3, ProcMoves DEF Choosing
  <1> QED BY <1>5, <1>6 DEF GoogleLink!OpenChannel, GoogleLink!With

LEMMA SaveWatchKeeps ==
    ASSUME GoogleLink!LinkInv, NEW p \in Pair, GoogleLink!SaveWatch(p) PROVE GoogleLink!LinkInv'
  <1> DEFINE me == v7[p]
             r  == [me EXCEPT !.pc = "next", !.stopped = {}]
  <1>0. LinkFacts /\ LinkTables
    BY LinkFactsHold, TablesTyped DEF GoogleLink!LinkInv
  <1>1. /\ me \in GoogleLink!Proc /\ me.at \in BindIds /\ me.stopped \subseteq GoogleLink!Named(me.rows[me.at])
        /\ me.pc \in {"save", "refused"}
    BY <1>0 DEF LinkFacts, GoogleLink!SaveWatch, GoogleLink!LinkInv, GoogleLink!StopInv
  <1>2. UNCHANGED <<v1, v2, v3, v5, v6, v8, v9, v10>> /\ v7' = [v7 EXCEPT ![p] = r]
    BY DEF GoogleLink!SaveWatch, GoogleLink!With
  <1>3. r \in GoogleLink!Proc /\ r.pc = "next" /\ r.rows = me.rows /\ r.stopped = {}
    BY <1>1 DEF GoogleLink!Proc
  <1>4. PICK a \in BindIds : a = me.at
    BY <1>1
  <1>5. ASSUME NEW c \in Channels \cup {0}
        PROVE  /\ [v4 EXCEPT ![a].chan = c] \in [BindIds -> GoogleLink!Row]
               /\ \A b \in BindIds \ {a} : [v4 EXCEPT ![a].chan = c][b] = v4[b]
               /\ [v4 EXCEPT ![a].chan = c][a].chan = c /\ [v4 EXCEPT ![a].chan = c][a].live = v4[a].live
               /\ [v4 EXCEPT ![a].chan = c][a].remote = v4[a].remote /\ [v4 EXCEPT ![a].chan = c][a].local = v4[a].local
    <2>1. \A w \in GoogleLink!Row : LET x == [w EXCEPT !.chan = c]
                                    IN  x \in GoogleLink!Row /\ x.chan = c /\ x.live = w.live /\ x.remote = w.remote
                                        /\ x.local = w.local
      BY DEF GoogleLink!Row
    <2>2. v4 \in [BindIds -> GoogleLink!Row]
      BY <1>0 DEF LinkFacts
    <2>3. PICK w \in GoogleLink!Row : w = v4[a]
      BY <2>2
    <2>4. [v4 EXCEPT ![a].chan = c] = [v4 EXCEPT ![a] = [w EXCEPT !.chan = c]]
      BY <2>2, <2>3
    <2> QED BY <2>1, <2>2, <2>3, <2>4
  <1>6. ASSUME NEW c \in Channels \cup {0}, v4' = [v4 EXCEPT ![a].chan = c] PROVE LinkTables'
    <2>1. v4' \in [BindIds -> GoogleLink!Row] /\ \A b \in BindIds : v4'[b].live = v4[b].live /\ v4'[b].remote = v4[b].remote
                                                                   /\ v4'[b].local = v4[b].local
      BY <1>5, <1>6
    <2> QED BY <1>0, <1>2, <2>1 DEF LinkTables
  <1> HIDE DEF r
  <1>7. CASE me.pc = "refused"
    <2>1. v4' = [v4 EXCEPT ![a].chan = 0]
      BY <1>4, <1>7 DEF GoogleLink!SaveWatch, GoogleLink!WatchFailed
    <2>2. \A b \in BindIds : v4'[b].chan \in {v4[b].chan, 0} /\ v4'[b].live = v4[b].live
      BY <1>5, <2>1
    <2>3. ASSUME NEW d \in me.stopped, NEW b \in BindIds PROVE v4'[b].chan # d
      <3>1. d \in GoogleLink!Owns(a) /\ d # 0
        BY <1>0, <1>1, <1>4, RowsKnown DEF GoogleLink!Named
      <3>2. CASE b = a
        BY <1>5, <2>1, <3>1, <3>2
      <3>3. CASE b # a
        <4>1. v4[b].chan \in GoogleLink!Owns(b) \cup {0} /\ d \notin GoogleLink!Owns(b)
          BY <1>0, <3>1, <3>3, RowsKnown DEF GoogleLink!LinkInv, GoogleLink!OwnInv
        <4> QED BY <1>5, <2>1, <3>1, <3>3, <4>1
      <3> QED BY <3>2, <3>3
    <2>4. LinkStep(p, r)
      BY <1>0, <1>1, <1>2, <1>3, <2>2, <2>3, RowsKnown DEF LinkStep, GoogleLink!LinkInv, GoogleLink!OwnInv
    <2> QED BY <1>3, <1>6, <2>1, <2>4, ProcMoves DEF Choosing
  <1>8. CASE me.pc = "save" /\ v4[a].live
    <2>1. PICK c \in Channels : c = me.pick.target
      BY <1>8 DEF GoogleLink!LinkInv, GoogleLink!FreshInv
    <2>2. v4' = [v4 EXCEPT ![a].chan = c]
      BY <1>4, <1>8, <2>1 DEF GoogleLink!SaveWatch
    <2>3. GoogleLink!OwnInv' /\ GoogleLink!FreshInv' /\ GoogleLink!StopInv' /\ GoogleLink!AliveInv'
      BY <1>2, <1>3, <1>4, <1>8, <2>1, <2>2, SaveKeeps
    <2>4. LinkTables'
      BY <1>6, <2>2
    <2>5. v7' \in [Pair -> GoogleLink!Proc] /\ \A q \in Pair : v7'[q].pc \in Choosing => v7'[q].pick.remote \in Remotes
      BY <1>0, <1>2, <1>3 DEF LinkFacts, GoogleLink!LinkInv, GoogleLink!LinkTypeOK, Choosing
    <2>6. GoogleLink!LinkTypeOK'
      BY <1>0, <1>2, <2>4, <2>5 DEF LinkTables, GoogleLink!LinkTypeOK, Choosing, LinkFacts
    <2> QED BY <2>3, <2>6 DEF GoogleLink!LinkInv
  <1>9. CASE me.pc = "save" /\ ~v4[a].live
    <2>1. v4' = v4
      BY <1>4, <1>9 DEF GoogleLink!SaveWatch
    <2>2. \A d \in me.stopped : \A b \in BindIds : v4'[b].live => v4'[b].chan # d
      <3> SUFFICES ASSUME NEW d \in me.stopped, NEW b \in BindIds, v4[b].live PROVE v4[b].chan # d
        BY <2>1
      <3>1. d \in GoogleLink!Owns(a) /\ d # 0
        BY <1>0, <1>1, <1>4, RowsKnown DEF GoogleLink!Named
      <3>2. b # a
        BY <1>9
      <3>3. v4[b].chan \in GoogleLink!Owns(b) \cup {0} /\ d \notin GoogleLink!Owns(b)
        BY <1>0, <3>1, <3>2, RowsKnown DEF GoogleLink!LinkInv, GoogleLink!OwnInv
      <3> QED BY <3>1, <3>3
    <2>3. LinkStep(p, r)
      BY <1>0, <1>1, <1>2, <1>3, <2>1, <2>2, RowsKnown DEF LinkStep, GoogleLink!LinkInv, GoogleLink!OwnInv
    <2>4. LinkTables'
      BY <1>0, <1>2, <2>1 DEF LinkTables
    <2> QED BY <1>3, <2>3, <2>4, ProcMoves DEF Choosing
  <1> QED BY <1>1, <1>7, <1>8, <1>9

\* A process that begins, or ends, with the tables as they are.
LEMMA BeginKeeps ==
    ASSUME GoogleLink!LinkInv, NEW p \in Pair, NEW r \in GoogleLink!Proc, v7[p].stopped = {},
           v7' = [v7 EXCEPT ![p] = r], UNCHANGED <<v5, v6, v9>>, LinkTables',
           r.pc \notin {"open", "save", "refused", "unbind", "delete"}, r.stopped = {},
           r.pc \in {"watch", "redirect", "pull"} => r.at \in BindIds,
           r.pc \in Choosing => r.pick.remote \in Remotes,
           \A b \in BindIds : r.rows[b] \in {GoogleLink!NoBind, v4[b], v7[p].rows[b]},
           \A b \in BindIds : v4'[b].chan \in {v4[b].chan, 0} /\ ((v4'[b].live <=> v4[b].live) \/ v4'[b].chan = 0)
    PROVE  GoogleLink!LinkInv'
  <1>0. LinkFacts
    BY LinkFactsHold DEF GoogleLink!LinkInv
  <1>1. \A b \in BindIds : r.rows[b].chan \in GoogleLink!Owns(b) \cup {0}
    BY <1>0, RowsKnown, NoBindIs
  <1>2. \A b \in BindIds : ~v4'[b].live => v4'[b].chan = 0
    BY DEF GoogleLink!LinkInv, GoogleLink!OwnInv
  <1>3. LinkStep(p, r)
    BY <1>0, <1>1, <1>2 DEF LinkStep
  <1> QED BY <1>3, ProcMoves

LEMMA HandleWatchKeeps ==
    ASSUME GoogleLink!LinkInv, NEW p \in Pair, GoogleLink!HandleWatch(p) PROVE GoogleLink!LinkInv'
  <1> DEFINE i == GoogleLink!Idle
             l == GoogleLink!Candidates
             r == [i EXCEPT !.pc = "next", !.rows = v4, !.left = l]
  <1>0. LinkFacts /\ LinkTables
    BY LinkFactsHold, TablesTyped DEF GoogleLink!LinkInv
  <1>1. l \subseteq BindIds
    BY DEF GoogleLink!Candidates, GoogleLink!Bindings
  <1>2. UNCHANGED <<v1, v2, v3, v4, v5, v6, v8, v9>> /\ v7' = [v7 EXCEPT ![p] = r] /\ v7[p].pc = "idle" /\ GoogleLink!Call
    BY DEF GoogleLink!HandleWatch, GoogleLink!With
  <1>3. i \in GoogleLink!Proc /\ i.pc = "idle" /\ i.stopped = {}
    BY IdleIs
  <1> HIDE DEF i, l
  <1>4. r \in GoogleLink!Proc /\ r.pc = "next" /\ r.rows = v4 /\ r.stopped = {}
    BY <1>0, <1>1, <1>3 DEF GoogleLink!Proc, LinkFacts
  <1> HIDE DEF r
  <1>5. LinkTables'
    <2>1. v10' \in 0..MaxLinkCalls
      BY <1>0, <1>2 DEF LinkFacts, GoogleLink!Call
    <2> QED BY <1>0, <1>2, <2>1 DEF LinkTables
  <1>6. v7[p].stopped = {}
    BY <1>2 DEF GoogleLink!LinkInv, GoogleLink!StopInv
  <1> QED BY <1>2, <1>4, <1>5, <1>6, BeginKeeps DEF Choosing

LEMMA LoadKeeps ==
    ASSUME GoogleLink!LinkInv, NEW p \in Pair, NEW b \in BindIds, GoogleLink!Load(p, b) PROVE GoogleLink!LinkInv'
  <1> DEFINE i == GoogleLink!Idle
             t == v1.token
             r == [i EXCEPT !.pc = "pull", !.token = t, !.rows = v4, !.at = b]
  <1>0. LinkFacts /\ LinkTables
    BY LinkFactsHold, TablesTyped DEF GoogleLink!LinkInv
  <1>1. t \in 0..MaxLinkCalls
    BY <1>0 DEF LinkFacts
  <1>2. UNCHANGED <<v1, v2, v3, v4, v5, v6, v9, v10>> /\ v8' \subseteq v8 /\ v7[p].pc = "idle"
    BY DEF GoogleLink!Load
  <1>3. v7' = [v7 EXCEPT ![p] = r] \/ v7' = v7
    BY DEF GoogleLink!Load, GoogleLink!With
  <1>4. i \in GoogleLink!Proc /\ i.pc = "idle" /\ i.stopped = {}
    BY IdleIs
  <1> HIDE DEF i, t
  <1>5. r \in GoogleLink!Proc /\ r.pc = "pull" /\ r.rows = v4 /\ r.stopped = {} /\ r.at = b
    BY <1>0, <1>1, <1>4 DEF GoogleLink!Proc, LinkFacts
  <1> HIDE DEF r
  <1>6. LinkTables'
    BY <1>0, <1>2 DEF LinkTables
  <1>7. v7[p].stopped = {}
    BY <1>2 DEF GoogleLink!LinkInv, GoogleLink!StopInv
  <1>8. CASE v7' = v7
    BY <1>0, <1>2, <1>6, <1>8, LinkRests DEF LinkFacts
  <1>9. CASE v7' = [v7 EXCEPT ![p] = r]
    BY <1>2, <1>5, <1>6, <1>7, <1>9, BeginKeeps DEF Choosing
  <1> QED BY <1>3, <1>8, <1>9

LEMMA FailedIs ==
    ASSUME LinkFacts PROVE GoogleLink!Failed \in [is : {"none", "ok", "revoked"}, token : 0..MaxLinkCalls]
                           /\ (v1.is # "none" => GoogleLink!Failed.is # "none")
  BY DEF LinkFacts, GoogleLink!Failed

LEMMA HandlePullKeeps ==
    ASSUME GoogleLink!LinkInv, NEW p \in Pair, GoogleLink!HandlePull(p) PROVE GoogleLink!LinkInv'
  <1>0. LinkFacts /\ LinkTables
    BY LinkFactsHold, TablesTyped DEF GoogleLink!LinkInv
  <1>1. UNCHANGED <<v2, v3, v5, v6, v8, v9, v10>> /\ v7' = [v7 EXCEPT ![p] = GoogleLink!Idle] /\ v7[p].pc = "pull"
    BY DEF GoogleLink!HandlePull, GoogleLink!With
  <1>2. PICK a \in BindIds : a = v7[p].at
    BY <1>1 DEF GoogleLink!LinkInv, GoogleLink!StopInv
  <1>3. v1' \in {v1, GoogleLink!Failed} /\ \E slow \in BOOLEAN : v4' = GoogleLink!SaveBindingState(a, v7[p].rows[a], slow)
    BY <1>2 DEF GoogleLink!HandlePull, GoogleLink!PollAfter, GoogleLink!Watching
  <1>4. /\ v4' \in [BindIds -> GoogleLink!Row]
        /\ \A b \in BindIds : v4'[b].live = v4[b].live /\ v4'[b].remote = v4[b].remote /\ v4'[b].local = v4[b].local
                              /\ v4'[b].chan = v4[b].chan
    <2>1. PICK slow \in BOOLEAN : v4' = GoogleLink!SaveBindingState(a, v7[p].rows[a], slow)
      BY <1>3
    <2>2. v4' = v4 \/ v4' = [v4 EXCEPT ![a].slow = slow]
      BY <2>1 DEF GoogleLink!SaveBindingState
    <2>3. \A w \in GoogleLink!Row : LET x == [w EXCEPT !.slow = slow]
                                    IN  x \in GoogleLink!Row /\ x.chan = w.chan /\ x.live = w.live /\ x.remote = w.remote
                                        /\ x.local = w.local
      BY DEF GoogleLink!Row
    <2>4. v4 \in [BindIds -> GoogleLink!Row]
      BY <1>0 DEF LinkFacts
    <2>5. PICK w \in GoogleLink!Row : w = v4[a]
      BY <2>4
    <2>6. CASE v4' = v4
      BY <2>4, <2>6
    <2>7. CASE v4' = [v4 EXCEPT ![a] = [w EXCEPT !.slow = slow]]
      BY <2>3, <2>4, <2>5, <2>7
    <2> QED BY <2>2, <2>4, <2>5, <2>6, <2>7
  <1>5. LinkTables'
    <2>1. v1' \in [is : {"none", "ok", "revoked"}, token : 0..MaxLinkCalls] /\ (v1.is # "none" => v1'.is # "none")
      BY <1>0, <1>3, FailedIs DEF LinkFacts
    <2> QED BY <1>0, <1>1, <1>4, <2>1 DEF LinkTables
  <1>6. v7[p].stopped = {}
    BY <1>1 DEF GoogleLink!LinkInv, GoogleLink!StopInv
  <1> QED BY <1>1, <1>4, <1>5, <1>6, BeginKeeps, IdleIs DEF Choosing

LEMMA ApplyKeeps ==
    ASSUME GoogleLink!LinkInv, NEW p \in Pair, NEW k \in GoogleLink!Choices, GoogleLink!Apply(p, k)
    PROVE  GoogleLink!LinkInv'
  <1> DEFINE i == GoogleLink!Idle
             t == v1.token
             r == [i EXCEPT !.pc = "apply", !.token = t, !.rows = v4, !.pick = k]
  <1>0. LinkFacts /\ LinkTables
    BY LinkFactsHold, TablesTyped DEF GoogleLink!LinkInv
  <1>1. t \in 0..MaxLinkCalls
    BY <1>0 DEF LinkFacts
  <1>2. UNCHANGED <<v2, v3, v4, v5, v6, v8, v9>> /\ v7[p].pc = "idle" /\ GoogleLink!Call
    BY DEF GoogleLink!Apply
  <1>3. \/ v7' = [v7 EXCEPT ![p] = r] /\ v1' = v1
        \/ v7' = v7 /\ v1' = GoogleLink!Failed
    BY DEF GoogleLink!Apply, GoogleLink!With
  <1>4. i \in GoogleLink!Proc /\ i.pc = "idle" /\ i.stopped = {}
    BY IdleIs
  <1>5. k \in Picks /\ k.remote \in Remotes
    BY <1>0 DEF Picks, GoogleLink!Choices, GoogleLink!Targets, LinkFacts
  <1> HIDE DEF i, t
  <1>6. r \in GoogleLink!Proc /\ r.pc = "apply" /\ r.rows = v4 /\ r.stopped = {} /\ r.pick = k
    BY <1>0, <1>1, <1>4, <1>5 DEF GoogleLink!Proc, LinkFacts, Picks
  <1> HIDE DEF r
  <1>7. LinkTables'
    <2>1. v1' \in [is : {"none", "ok", "revoked"}, token : 0..MaxLinkCalls] /\ (v1.is # "none" => v1'.is # "none")
      BY <1>0, <1>3, FailedIs DEF LinkFacts
    <2>2. v10' \in 0..MaxLinkCalls
      BY <1>0, <1>2 DEF LinkFacts, GoogleLink!Call
    <2> QED BY <1>0, <1>2, <2>1, <2>2 DEF LinkTables
  <1>8. v7[p].stopped = {}
    BY <1>2 DEF GoogleLink!LinkInv, GoogleLink!StopInv
  <1>9. CASE v7' = v7
    BY <1>0, <1>2, <1>7, <1>9, LinkRests DEF LinkFacts
  <1>10. CASE v7' = [v7 EXCEPT ![p] = r]
    BY <1>2, <1>5, <1>6, <1>7, <1>8, <1>10, BeginKeeps DEF Choosing
  <1> QED BY <1>3, <1>9, <1>10

LEMMA ChooseKeeps ==
    ASSUME GoogleLink!LinkInv, NEW p \in Pair, GoogleLink!Choose(p) PROVE GoogleLink!LinkInv'
  <1> DEFINE me == v7[p]
  <1>0. LinkFacts /\ LinkTables
    BY LinkFactsHold, TablesTyped DEF GoogleLink!LinkInv
  <1>1. me \in GoogleLink!Proc /\ me.stopped = {} /\ me.pc = "apply" /\ me.pick.remote \in Remotes
    BY <1>0 DEF LinkFacts, GoogleLink!Choose, GoogleLink!LinkInv, GoogleLink!StopInv, GoogleLink!LinkTypeOK
  <1>2. UNCHANGED <<v1, v2, v3, v4, v5, v8, v9, v10>>
    BY DEF GoogleLink!Choose
  <1>3. \/ v7' = [v7 EXCEPT ![p] = GoogleLink!Idle] /\ v6' = v6
        \/ v7' = [v7 EXCEPT ![p] = [me EXCEPT !.pc = "bind"]] /\ v6' = v6
        \/ \E b \in BindIds : v7' = [v7 EXCEPT ![p] = [me EXCEPT !.pc = "redirect", !.at = b]] /\ v6' = v6
        \/ \E b \in BindIds :
             /\ v7' = [v7 EXCEPT ![p] = [me EXCEPT !.pc = "unbind", !.at = b, !.stopped = GoogleLink!Named(me.rows[b])]]
             /\ v6' \in {v6, v6 \cup GoogleLink!Named(me.rows[b])}
    BY DEF GoogleLink!Choose, GoogleLink!With, GoogleLink!Current, GoogleLink!StopWatch
  <1>4. ASSUME v6' = v6 PROVE LinkTables'
    BY <1>0, <1>2, <1>4 DEF LinkTables
  <1>5. ASSUME NEW r \in GoogleLink!Proc, v6' = v6, v7' = [v7 EXCEPT ![p] = r], r.stopped = {},
               r.pc \in {"idle", "bind", "redirect"}, r.pc = "redirect" => r.at \in BindIds,
               r.pc # "idle" => r.pick.remote \in Remotes, \A b \in BindIds : r.rows[b] \in {GoogleLink!NoBind, me.rows[b]}
        PROVE  GoogleLink!LinkInv'
    <2>1. /\ r.pc \notin {"open", "save", "refused", "unbind", "delete", "watch", "pull"}
          /\ r.pc \in Choosing => r.pick.remote \in Remotes
      BY <1>5 DEF Choosing
    <2>2. r.pc \in {"watch", "redirect", "pull"} => r.at \in BindIds
      BY <1>5
    <2>3. \A b \in BindIds : r.rows[b] \in {GoogleLink!NoBind, v4[b], v7[p].rows[b]}
      BY <1>5
    <2>4. \A b \in BindIds : v4'[b].chan \in {v4[b].chan, 0} /\ ((v4'[b].live <=> v4[b].live) \/ v4'[b].chan = 0)
      BY <1>2
    <2>5. LinkTables' /\ v7[p].stopped = {} /\ UNCHANGED <<v5, v6, v9>>
      BY <1>1, <1>2, <1>4, <1>5
    <2> QED BY <1>5, <2>1, <2>2, <2>3, <2>4, <2>5, BeginKeeps
  <1>6. CASE v7' = [v7 EXCEPT ![p] = GoogleLink!Idle] /\ v6' = v6
    BY <1>5, <1>6, IdleIs
  <1>7. CASE v7' = [v7 EXCEPT ![p] = [me EXCEPT !.pc = "bind"]] /\ v6' = v6
    <2> DEFINE r == [me EXCEPT !.pc = "bind"]
    <2>1. r \in GoogleLink!Proc /\ r.pc = "bind" /\ r.rows = me.rows /\ r.stopped = {} /\ r.pick = me.pick
      BY <1>1 DEF GoogleLink!Proc
    <2>2. v7' = [v7 EXCEPT ![p] = r]
      BY <1>7
    <2> HIDE DEF r
    <2> QED BY <1>1, <1>5, <1>7, <2>1, <2>2
  <1>8. ASSUME NEW a \in BindIds, v7' = [v7 EXCEPT ![p] = [me EXCEPT !.pc = "redirect", !.at = a]], v6' = v6
        PROVE  GoogleLink!LinkInv'
    <2> DEFINE r == [me EXCEPT !.pc = "redirect", !.at = a]
    <2>1. r \in GoogleLink!Proc /\ r.pc = "redirect" /\ r.rows = me.rows /\ r.stopped = {} /\ r.pick = me.pick /\ r.at = a
      BY <1>1 DEF GoogleLink!Proc
    <2>2. v7' = [v7 EXCEPT ![p] = r]
      BY <1>8
    <2> HIDE DEF r
    <2> QED BY <1>1, <1>5, <1>8, <2>1, <2>2
  <1>9. ASSUME NEW a \in BindIds, v6' \in {v6, v6 \cup GoogleLink!Named(me.rows[a])},
               v7' = [v7 EXCEPT ![p] = [me EXCEPT !.pc = "unbind", !.at = a, !.stopped = GoogleLink!Named(me.rows[a])]]
        PROVE  GoogleLink!LinkInv'
    <2> DEFINE cs == GoogleLink!Named(me.rows[a])
               r == [me EXCEPT !.pc = "unbind", !.at = a, !.stopped = cs]
    <2>1. cs \subseteq Channels /\ cs \subseteq GoogleLink!Owns(a)
      BY <1>0, RowsKnown DEF GoogleLink!Named, GoogleLink!Row
    <2>2. v7' = [v7 EXCEPT ![p] = r] /\ v6' \in {v6, v6 \cup cs} /\ cs = GoogleLink!Named(me.rows[a])
      BY <1>9
    <2> HIDE DEF cs
    <2>3. r \in GoogleLink!Proc /\ r.pc = "unbind" /\ r.rows = me.rows /\ r.stopped = cs /\ r.pick = me.pick /\ r.at = a
      BY <1>1, <2>1 DEF GoogleLink!Proc
    <2> HIDE DEF r
    <2>4. v6 \subseteq v6' /\ v6' \ v6 \subseteq r.stopped /\ \A c \in v6' \ v6 : \E b \in BindIds : c \in GoogleLink!Owns(b)
      BY <2>1, <2>2, <2>3
    <2>5. LinkStep(p, r)
      BY <1>0, <1>1, <1>2, <2>2, <2>3, <2>4, RowsKnown DEF LinkStep, GoogleLink!LinkInv, GoogleLink!OwnInv
    <2>6. LinkTables'
      BY <1>0, <1>2, <2>1, <2>2 DEF LinkTables
    <2> QED BY <1>1, <2>3, <2>5, <2>6, ProcMoves
  <1> QED BY <1>3, <1>6, <1>7, <1>8, <1>9

\* A row goes: whatever was stopped of it may be forgotten.
LEMMA UnbindKeeps ==
    ASSUME GoogleLink!LinkInv, NEW p \in Pair, GoogleLink!Unbind(p) PROVE GoogleLink!LinkInv'
  <1> DEFINE me == v7[p]
             r  == [me EXCEPT !.pc = "bind", !.stopped = {}]
  <1>0. LinkFacts /\ LinkTables
    BY LinkFactsHold, TablesTyped DEF GoogleLink!LinkInv
  <1>1. PICK a \in BindIds : a = me.at
    BY DEF GoogleLink!Unbind, GoogleLink!LinkInv, GoogleLink!StopInv
  <1>2. /\ me \in GoogleLink!Proc /\ me.stopped \subseteq GoogleLink!Named(me.rows[a])
        /\ me.pc = "unbind" /\ me.pick.remote \in Remotes
    BY <1>0, <1>1 DEF LinkFacts, GoogleLink!Unbind, GoogleLink!LinkInv, GoogleLink!StopInv, GoogleLink!LinkTypeOK
  <1>3. UNCHANGED <<v1, v2, v3, v5, v6, v8, v9, v10>> /\ v4' = [v4 EXCEPT ![a] = GoogleLink!Gone]
    BY <1>1 DEF GoogleLink!Unbind
  <1>4. v7' = [v7 EXCEPT ![p] = GoogleLink!Idle] \/ v7' = [v7 EXCEPT ![p] = r]
    BY DEF GoogleLink!Unbind, GoogleLink!With
  <1>5. r \in GoogleLink!Proc /\ r.pc = "bind" /\ r.rows = me.rows /\ r.stopped = {} /\ r.pick = me.pick
    BY <1>2 DEF GoogleLink!Proc
  <1> HIDE DEF r
  <1>6. v4'[a] = GoogleLink!Gone /\ \A b \in BindIds \ {a} : v4'[b] = v4[b]
    BY <1>0, <1>3 DEF LinkFacts
  <1>7. v4' \in [BindIds -> GoogleLink!Row]
    BY <1>0, <1>3, GoneIs DEF LinkFacts
  <1>8. LinkTables'
    BY <1>0, <1>3, <1>6, <1>7, GoneIs DEF LinkTables
  <1>9. ASSUME NEW d \in me.stopped, NEW b \in BindIds, v4'[b].live PROVE v4'[b].chan # d
    <2>1. d \in GoogleLink!Owns(a) /\ d # 0
      BY <1>0, <1>2, RowsKnown DEF GoogleLink!Named
    <2>2. b # a
      BY <1>6, <1>9, GoneIs
    <2>3. v4[b].chan \in GoogleLink!Owns(b) \cup {0} /\ d \notin GoogleLink!Owns(b)
      BY <1>0, <2>1, <2>2, RowsKnown DEF GoogleLink!LinkInv, GoogleLink!OwnInv
    <2> QED BY <1>6, <2>1, <2>2, <2>3
  <1>10. \A b \in BindIds : /\ v4'[b].chan \in {v4[b].chan, 0} /\ (v4'[b].live => v4[b].live)
                            /\ (~v4'[b].live => v4'[b].chan = 0)
    BY <1>6, GoneIs DEF GoogleLink!LinkInv, GoogleLink!OwnInv
  <1>11. CASE v7' = [v7 EXCEPT ![p] = r]
    <2>1. LinkStep(p, r)
      BY <1>0, <1>3, <1>5, <1>9, <1>10, <1>11, RowsKnown DEF LinkStep
    <2> QED BY <1>2, <1>5, <1>8, <2>1, ProcMoves
  <1>12. CASE v7' = [v7 EXCEPT ![p] = GoogleLink!Idle]
    <2>1. LinkStep(p, GoogleLink!Idle)
      BY <1>3, <1>9, <1>10, <1>12, IdleIs, NoBindIs DEF LinkStep
    <2> QED BY <1>8, <2>1, ProcMoves, IdleIs DEF Choosing
  <1> QED BY <1>4, <1>11, <1>12

LEMMA RedirectKeeps ==
    ASSUME GoogleLink!LinkInv, NEW p \in Pair, GoogleLink!Redirect(p) PROVE GoogleLink!LinkInv'
  <1>0. LinkFacts /\ LinkTables
    BY LinkFactsHold, TablesTyped DEF GoogleLink!LinkInv
  <1>1. PICK a \in BindIds : a = v7[p].at
    BY DEF GoogleLink!Redirect, GoogleLink!LinkInv, GoogleLink!StopInv
  <1>2. v7[p] \in GoogleLink!Proc /\ v7[p].stopped = {}
    BY <1>0 DEF LinkFacts, GoogleLink!Redirect, GoogleLink!LinkInv, GoogleLink!StopInv
  <1>3. UNCHANGED <<v1, v2, v3, v5, v6, v9, v10>> /\ v7' = [v7 EXCEPT ![p] = GoogleLink!Idle]
    BY DEF GoogleLink!Redirect, GoogleLink!With
  <1> DEFINE d == GoogleLink!Wanted(p)
  <1>4. d \in {"both", "pull", "push"}
    BY <1>2 DEF GoogleLink!Wanted, GoogleLink!Proc
  <1>5. (v4' = v4 /\ v8' = v8) \/ (v4' = [v4 EXCEPT ![a].dir = d] /\ v8' = v8 \cup {a})
    BY <1>1 DEF GoogleLink!Redirect
  <1> HIDE DEF d
  <1>6. /\ v4' \in [BindIds -> GoogleLink!Row]
        /\ \A b \in BindIds : v4'[b].live = v4[b].live /\ v4'[b].remote = v4[b].remote /\ v4'[b].local = v4[b].local
                              /\ v4'[b].chan = v4[b].chan
    <2>1. \A w \in GoogleLink!Row : LET x == [w EXCEPT !.dir = d]
                                    IN  x \in GoogleLink!Row /\ x.chan = w.chan /\ x.live = w.live /\ x.remote = w.remote
                                        /\ x.local = w.local
      BY <1>4 DEF GoogleLink!Row
    <2>2. v4 \in [BindIds -> GoogleLink!Row]
      BY <1>0 DEF LinkFacts
    <2>3. PICK w \in GoogleLink!Row : w = v4[a]
      BY <2>2
    <2>4. CASE v4' = v4
      BY <2>2, <2>4
    <2>5. CASE v4' = [v4 EXCEPT ![a] = [w EXCEPT !.dir = d]]
      BY <2>1, <2>2, <2>3, <2>5
    <2> QED BY <1>5, <2>2, <2>3, <2>4, <2>5
  <1>7. LinkTables'
    BY <1>0, <1>3, <1>5, <1>6 DEF LinkTables
  <1> QED BY <1>2, <1>3, <1>6, <1>7, BeginKeeps, IdleIs DEF Choosing

LEMMA CreateLocalKeeps ==
    ASSUME GoogleLink!LinkInv, NEW p \in Pair, GoogleLink!CreateLocal(p) PROVE GoogleLink!LinkInv'
  <1> DEFINE me == v7[p]
  <1>0. LinkFacts /\ LinkTables
    BY LinkFactsHold, TablesTyped DEF GoogleLink!LinkInv
  <1>1. me \in GoogleLink!Proc /\ me.stopped = {} /\ me.pc = "bind" /\ me.pick.remote \in Remotes
    BY <1>0 DEF LinkFacts, GoogleLink!CreateLocal, GoogleLink!LinkInv, GoogleLink!StopInv, GoogleLink!LinkTypeOK
  <1>2. UNCHANGED <<v1, v2, v4, v5, v6, v8, v9, v10>>
    BY DEF GoogleLink!CreateLocal
  <1>3. \/ v7' = [v7 EXCEPT ![p] = GoogleLink!Idle] /\ v3' = v3
        \/ \E l \in Locals : v3' = v3 \cup {l} /\ v7' = [v7 EXCEPT ![p] = [me EXCEPT !.pick.target = l]]
    BY DEF GoogleLink!CreateLocal, GoogleLink!With
  <1>4. LinkTables'
    <2>1. v3' \subseteq Locals /\ v3 \subseteq v3'
      BY <1>0, <1>3 DEF LinkTables
    <2> QED BY <1>0, <1>2, <2>1 DEF LinkTables
  <1>5. CASE v7' = [v7 EXCEPT ![p] = GoogleLink!Idle]
    BY <1>1, <1>2, <1>4, <1>5, BeginKeeps, IdleIs DEF Choosing
  <1>6. ASSUME NEW l \in Locals, v7' = [v7 EXCEPT ![p] = [me EXCEPT !.pick.target = l]] PROVE GoogleLink!LinkInv'
    <2> DEFINE k == [me.pick EXCEPT !.target = l]
               r == [me EXCEPT !.pick = k]
    <2>1. me.pick \in Picks
      BY <1>1 DEF GoogleLink!Proc, Picks
    <2>2. k \in Picks /\ k.remote = me.pick.remote
      BY <2>1 DEF Picks
    <2>3. v7' = [v7 EXCEPT ![p] = r]
      BY <1>6
    <2> HIDE DEF k
    <2>4. r \in GoogleLink!Proc /\ r.pc = "bind" /\ r.rows = me.rows /\ r.stopped = {} /\ r.pick = k
      BY <1>1, <2>2 DEF GoogleLink!Proc, Picks
    <2> HIDE DEF r
    <2> QED BY <1>1, <1>2, <1>4, <2>2, <2>3, <2>4, BeginKeeps DEF Choosing
  <1> QED BY <1>3, <1>5, <1>6

\* A row is made: it has no channel yet.
LEMMA BindKeeps ==
    ASSUME GoogleLink!LinkInv, NEW p \in Pair, GoogleLink!Bind(p) PROVE GoogleLink!LinkInv'
  <1> DEFINE me  == v7[p]
             new == [GoogleLink!NoBind EXCEPT !.live = TRUE, !.remote = me.pick.remote, !.local = me.pick.target,
                                             !.dir = GoogleLink!Wanted(p)]
  <1>0. LinkFacts /\ LinkTables
    BY LinkFactsHold, TablesTyped DEF GoogleLink!LinkInv
  <1>1. me \in GoogleLink!Proc /\ me.stopped = {} /\ me.pc = "bind" /\ me.pick.remote \in Remotes
    BY <1>0 DEF LinkFacts, GoogleLink!Bind, GoogleLink!LinkInv, GoogleLink!StopInv, GoogleLink!LinkTypeOK
  <1>2. UNCHANGED <<v1, v2, v3, v5, v6, v9, v10>>
    BY DEF GoogleLink!Bind
  <1>3. \/ v7' = [v7 EXCEPT ![p] = GoogleLink!Idle] /\ v4' = v4 /\ v8' = v8
        \/ /\ me.pick.target \in v3 /\ v1.is # "none"
           /\ \E b \in BindIds : /\ v4' = [v4 EXCEPT ![b] = new] /\ v8' = v8 \cup {b}
                                 /\ v7' = [v7 EXCEPT ![p] = [me EXCEPT !.pc = "watch", !.at = b, !.rows[b] = new]]
    BY DEF GoogleLink!Bind, GoogleLink!With
  <1>4. CASE v7' = [v7 EXCEPT ![p] = GoogleLink!Idle] /\ v4' = v4 /\ v8' = v8
    <2>1. LinkTables'
      BY <1>0, <1>2, <1>4 DEF LinkTables
    <2> QED BY <1>1, <1>2, <1>4, <2>1, BeginKeeps, IdleIs DEF Choosing
  <1>5. ASSUME me.pick.target \in v3, v1.is # "none", NEW a \in BindIds,
               v4' = [v4 EXCEPT ![a] = new], v8' = v8 \cup {a},
               v7' = [v7 EXCEPT ![p] = [me EXCEPT !.pc = "watch", !.at = a, !.rows[a] = new]]
        PROVE  GoogleLink!LinkInv'
    <2> DEFINE rem == me.pick.remote
               loc == me.pick.target
               d   == GoogleLink!Wanted(p)
               n   == GoogleLink!NoBind
    <2>1. d \in {"both", "pull", "push"}
      BY <1>1 DEF GoogleLink!Wanted, GoogleLink!Proc
    <2>2. rem \in Remotes /\ loc \in Locals /\ n \in GoogleLink!Row /\ n.chan = 0
      BY <1>0, <1>1, <1>5, NoBindIs DEF LinkFacts
    <2>3. new \in GoogleLink!Row /\ new.chan = 0 /\ new.live = TRUE /\ new.remote = rem /\ new.local = loc
      <3> HIDE DEF rem, loc, d, n
      <3>1. new = [n EXCEPT !.live = TRUE, !.remote = rem, !.local = loc, !.dir = d]
        BY DEF rem, loc, d, n
      <3> HIDE DEF new
      <3> QED BY <2>1, <2>2, <3>1 DEF GoogleLink!Row
    <2> HIDE DEF new
    <2> DEFINE rs == [me.rows EXCEPT ![a] = new]
               r  == [me EXCEPT !.pc = "watch", !.at = a, !.rows = rs]
    <2>4. v7' = [v7 EXCEPT ![p] = r]
      BY <1>5
    <2>5. rs \in [BindIds -> GoogleLink!Row] /\ rs[a] = new /\ \A b \in BindIds \ {a} : rs[b] = me.rows[b]
      BY <1>1, <2>3 DEF GoogleLink!Proc
    <2> HIDE DEF rs
    <2>6. r \in GoogleLink!Proc /\ r.pc = "watch" /\ r.at = a /\ r.rows = rs /\ r.stopped = {}
      BY <1>1, <2>5 DEF GoogleLink!Proc
    <2> HIDE DEF r
    <2>7. v4' \in [BindIds -> GoogleLink!Row] /\ v4'[a] = new /\ \A b \in BindIds \ {a} : v4'[b] = v4[b]
      BY <1>0, <1>5, <2>3 DEF LinkFacts
    <2>8. \A b \in BindIds : /\ v4'[b].chan \in {v4[b].chan, 0} /\ (v4'[b].live => v4[b].live \/ v4'[b].chan = 0)
                             /\ (~v4'[b].live => v4'[b].chan = 0)
      BY <2>3, <2>7 DEF GoogleLink!LinkInv, GoogleLink!OwnInv
    <2>9. \A b \in BindIds : r.rows[b].chan \in GoogleLink!Owns(b) \cup {0}
      BY <1>0, <2>3, <2>5, <2>6, RowsKnown
    <2>10. LinkStep(p, r)
      BY <1>1, <1>2, <2>4, <2>6, <2>8, <2>9 DEF LinkStep
    <2>11. LinkTables'
      BY <1>0, <1>2, <1>5, <2>2, <2>3, <2>7 DEF LinkTables
    <2> QED BY <2>6, <2>10, <2>11, ProcMoves DEF Choosing
  <1> QED BY <1>3, <1>4, <1>5

LEMMA NextOneKeeps ==
    ASSUME GoogleLink!LinkInv, NEW p \in Pair, GoogleLink!NextOne(p) PROVE GoogleLink!LinkInv'
  <1> DEFINE me == v7[p]
  <1>0. LinkFacts /\ LinkTables
    BY LinkFactsHold, TablesTyped DEF GoogleLink!LinkInv
  <1>1. me \in GoogleLink!Proc /\ me.stopped = {} /\ me.pc = "next"
    BY <1>0 DEF LinkFacts, GoogleLink!NextOne, GoogleLink!LinkInv, GoogleLink!StopInv
  <1>2. UNCHANGED <<v1, v2, v3, v4, v5, v6, v8, v9, v10>>
    BY DEF GoogleLink!NextOne
  <1>3. LinkTables'
    BY <1>0, <1>2 DEF LinkTables
  <1>4. \/ v7' = [v7 EXCEPT ![p] = GoogleLink!Idle]
        \/ \E b \in me.left : v7' = [v7 EXCEPT ![p] = [me EXCEPT !.pc = "watch", !.at = b, !.left = @ \ {b},
                                                                 !.token = IF @ = 0 THEN v1.token ELSE @]]
    BY DEF GoogleLink!NextOne, GoogleLink!With
  <1>5. CASE v7' = [v7 EXCEPT ![p] = GoogleLink!Idle]
    BY <1>1, <1>2, <1>3, <1>5, BeginKeeps, IdleIs DEF Choosing
  <1>6. ASSUME NEW a \in me.left,
               v7' = [v7 EXCEPT ![p] = [me EXCEPT !.pc = "watch", !.at = a, !.left = @ \ {a},
                                                  !.token = IF @ = 0 THEN v1.token ELSE @]]
        PROVE  GoogleLink!LinkInv'
    <2> DEFINE ls == me.left \ {a}
               t  == IF me.token = 0 THEN v1.token ELSE me.token
               r  == [me EXCEPT !.pc = "watch", !.at = a, !.left = ls, !.token = t]
    <2>1. ls \subseteq BindIds /\ t \in 0..MaxLinkCalls /\ a \in BindIds
      BY <1>0, <1>1 DEF GoogleLink!Proc, LinkFacts
    <2>2. v7' = [v7 EXCEPT ![p] = r]
      BY <1>6
    <2> HIDE DEF ls, t
    <2>3. r \in GoogleLink!Proc /\ r.pc = "watch" /\ r.at = a /\ r.rows = me.rows /\ r.stopped = {}
      BY <1>1, <2>1 DEF GoogleLink!Proc
    <2> HIDE DEF r
    <2> QED BY <1>1, <1>2, <1>3, <2>1, <2>2, <2>3, BeginKeeps DEF Choosing
  <1> QED BY <1>4, <1>5, <1>6

LEMMA StopAllKeeps ==
    ASSUME GoogleLink!LinkInv, NEW p \in Pair, NEW keep \in BOOLEAN, GoogleLink!StopAll(p, keep) PROVE GoogleLink!LinkInv'
  <1> DEFINE i   == GoogleLink!Idle
             had == {v4[b].chan : b \in GoogleLink!Bindings} \ {0}
             k   == [i.pick EXCEPT !.target = IF keep THEN 0 ELSE 1]
             r   == [i EXCEPT !.pc = "delete", !.rows = v4, !.stopped = had, !.pick = k]
  <1>0. LinkFacts /\ LinkTables
    BY LinkFactsHold, TablesTyped DEF GoogleLink!LinkInv
  <1>1. had \subseteq Channels /\ \A c \in had : \E b \in BindIds : c \in GoogleLink!Owns(b)
    <2> SUFFICES ASSUME NEW b \in BindIds, v4[b].chan # 0 PROVE v4[b].chan \in Channels /\ v4[b].chan \in GoogleLink!Owns(b)
      BY DEF GoogleLink!Bindings
    <2> QED BY <1>0, RowsKnown DEF GoogleLink!Row
  <1>2. UNCHANGED <<v1, v3, v4, v5, v8, v9>> /\ v7[p].pc = "idle" /\ GoogleLink!Call /\ v2' \subseteq v2
    BY DEF GoogleLink!StopAll
  <1>3. v7' = [v7 EXCEPT ![p] = r] /\ v6' \in {v6, v6 \cup had}
    BY DEF GoogleLink!StopAll, GoogleLink!With, GoogleLink!StopWatch
  <1>4. i \in GoogleLink!Proc /\ i.pc = "idle"
    BY IdleIs
  <1> HIDE DEF i, had
  <1>5. i.pick \in Picks
    BY <1>4 DEF GoogleLink!Proc, Picks
  <1>6. k \in Picks
    <2>1. (IF keep THEN 0 ELSE 1) \in {0, -1} \cup Locals \cup Channels
      BY AccessAssumption DEF GoogleLink!LinkAssumption
    <2> QED BY <1>5, <2>1 DEF Picks
  <1> HIDE DEF k
  <1>7. r \in GoogleLink!Proc /\ r.pc = "delete" /\ r.rows = v4 /\ r.stopped = had
    BY <1>0, <1>1, <1>4, <1>6 DEF GoogleLink!Proc, LinkFacts, Picks
  <1> HIDE DEF r
  <1>8. LinkTables'
    <2>1. v10' \in 0..MaxLinkCalls
      BY <1>0, <1>2 DEF LinkFacts, GoogleLink!Call
    <2> QED BY <1>0, <1>1, <1>2, <1>3, <2>1 DEF LinkTables
  <1>9. v7[p].stopped = {}
    BY <1>2 DEF GoogleLink!LinkInv, GoogleLink!StopInv
  <1>10. v6 \subseteq v6' /\ v6' \ v6 \subseteq r.stopped /\ \A c \in v6' \ v6 : \E b \in BindIds : c \in GoogleLink!Owns(b)
    BY <1>1, <1>3, <1>7
  <1>11. \A b \in BindIds : v4[b].chan \in GoogleLink!Owns(b) \cup {0} /\ (~v4[b].live => v4[b].chan = 0)
    BY <1>0, RowsKnown DEF GoogleLink!LinkInv, GoogleLink!OwnInv
  <1>12. LinkStep(p, r)
    BY <1>2, <1>3, <1>7, <1>9, <1>10, <1>11 DEF LinkStep
  <1> QED BY <1>7, <1>8, <1>12, ProcMoves DEF Choosing

LEMMA DeleteAccountKeeps ==
    ASSUME GoogleLink!LinkInv, NEW p \in Pair, GoogleLink!DeleteAccount(p) PROVE GoogleLink!LinkInv'
  <1> DEFINE me == v7[p]
             r  == [me EXCEPT !.pc = "clean", !.stopped = {}]
  <1>0. LinkFacts /\ LinkTables
    BY LinkFactsHold, TablesTyped DEF GoogleLink!LinkInv
  <1>1. me \in GoogleLink!Proc
    BY <1>0 DEF LinkFacts
  <1>2. UNCHANGED <<v2, v3, v5, v6, v8, v9, v10>> /\ v1' = [is |-> "none", token |-> 0]
    BY DEF GoogleLink!DeleteAccount
  <1>3. v4' = [b \in BindIds |-> IF v4[b].live THEN GoogleLink!Gone ELSE v4[b]]
    BY DEF GoogleLink!DeleteAccount
  <1>4. v7' = [v7 EXCEPT ![p] = GoogleLink!Idle] \/ v7' = [v7 EXCEPT ![p] = r]
    BY DEF GoogleLink!DeleteAccount, GoogleLink!With
  <1>5. r \in GoogleLink!Proc /\ r.pc = "clean" /\ r.rows = me.rows /\ r.stopped = {}
    BY <1>1 DEF GoogleLink!Proc
  <1> HIDE DEF r
  <1>6. v4' \in [BindIds -> GoogleLink!Row] /\ \A b \in BindIds : ~v4'[b].live /\ v4'[b].chan \in {v4[b].chan, 0}
                                                                /\ v4'[b].chan = 0
    BY <1>0, <1>3, GoneIs DEF LinkFacts, GoogleLink!LinkInv, GoogleLink!OwnInv
  <1>7. LinkTables'
    <2>1. v1' \in [is : {"none", "ok", "revoked"}, token : 0..MaxLinkCalls]
      BY <1>0, <1>2 DEF LinkFacts
    <2> QED BY <1>0, <1>2, <1>6, <2>1 DEF LinkTables
  <1>8. CASE v7' = [v7 EXCEPT ![p] = r]
    <2>1. LinkStep(p, r)
      BY <1>0, <1>2, <1>5, <1>6, <1>8, RowsKnown DEF LinkStep
    <2> QED BY <1>5, <1>7, <2>1, ProcMoves DEF Choosing
  <1>9. CASE v7' = [v7 EXCEPT ![p] = GoogleLink!Idle]
    <2>1. LinkStep(p, GoogleLink!Idle)
      BY <1>2, <1>6, <1>9, IdleIs, NoBindIs DEF LinkStep
    <2> QED BY <1>7, <2>1, ProcMoves, IdleIs DEF Choosing
  <1> QED BY <1>4, <1>8, <1>9

LEMMA DisconnectKeeps ==
    ASSUME GoogleLink!LinkInv, NEW p \in Pair, GoogleLink!Disconnect(p) PROVE GoogleLink!LinkInv'
  <1> DEFINE go == {v7[p].rows[b].local : b \in {b \in BindIds : v7[p].rows[b].live}} \ {1}
  <1>0. LinkFacts /\ LinkTables
    BY LinkFactsHold, TablesTyped DEF GoogleLink!LinkInv
  <1>1. v7[p].stopped = {}
    BY DEF GoogleLink!Disconnect, GoogleLink!LinkInv, GoogleLink!StopInv
  <1>2. UNCHANGED <<v1, v2, v5, v6, v8, v9, v10>> /\ v7' = [v7 EXCEPT ![p] = GoogleLink!Idle] /\ v3' = v3 \ go
    BY DEF GoogleLink!Disconnect, GoogleLink!With
  <1>3. v4' = [b \in BindIds |-> IF v4[b].live /\ v4[b].local \in go THEN GoogleLink!Gone ELSE v4[b]]
    BY DEF GoogleLink!Disconnect
  <1>4. 1 \notin go
    OBVIOUS
  <1> HIDE DEF go
  <1>5. v4' \in [BindIds -> GoogleLink!Row]
    BY <1>0, <1>3, GoneIs DEF LinkFacts
  <1>6. \A b \in BindIds : \/ v4'[b] = v4[b] /\ (v4[b].live => v4[b].local \notin go)
                           \/ ~v4'[b].live /\ v4'[b].chan = 0
    BY <1>3, GoneIs
  <1>7. LinkTables'
    BY <1>0, <1>2, <1>4, <1>5, <1>6 DEF LinkTables
  <1>8. \A b \in BindIds : v4'[b].chan \in {v4[b].chan, 0} /\ ((v4'[b].live <=> v4[b].live) \/ v4'[b].chan = 0)
    BY <1>6
  <1> QED BY <1>1, <1>2, <1>7, <1>8, BeginKeeps, IdleIs DEF Choosing

LEMMA LinkDiesKeeps ==
    ASSUME GoogleLink!LinkInv, NEW p \in Pair, GoogleLink!Dies(p) PROVE GoogleLink!LinkInv'
  <1>0. LinkFacts /\ LinkTables
    BY LinkFactsHold, TablesTyped DEF GoogleLink!LinkInv
  <1>1. /\ UNCHANGED <<v1, v2, v3, v4, v5, v6, v8>> /\ v7' = [v7 EXCEPT ![p] = GoogleLink!Idle]
        /\ v9' = v9 \cup v7[p].stopped /\ GoogleLink!Call
    BY DEF GoogleLink!Dies, GoogleLink!With
  <1>2. v7[p].stopped \subseteq Channels
    BY <1>0 DEF LinkFacts, GoogleLink!Proc
  <1>3. LinkTables'
    <2>1. v10' \in 0..MaxLinkCalls
      BY <1>0, <1>1 DEF LinkFacts, GoogleLink!Call
    <2> QED BY <1>0, <1>1, <1>2, <2>1 DEF LinkTables
  <1>4. \A b \in BindIds : ~v4[b].live => v4[b].chan = 0
    BY DEF GoogleLink!LinkInv, GoogleLink!OwnInv
  <1>5. LinkStep(p, GoogleLink!Idle)
    BY <1>1, <1>4, IdleIs, NoBindIs DEF LinkStep
  <1> QED BY <1>3, <1>5, ProcMoves, IdleIs DEF Choosing

LEMMA LinkStart == ASSUME GoogleLink!LinkInit PROVE GoogleLink!LinkInv
  <1>1. \A p \in Pair : v7[p] = GoogleLink!Idle
    BY DEF GoogleLink!LinkInit
  <1>2. \A b \in BindIds : v4[b] = GoogleLink!NoBind
    BY DEF GoogleLink!LinkInit
  <1>3. GoogleLink!LinkTypeOK
    <2>1. 0 \in 0..MaxLinkCalls /\ 1 \in Locals
      BY AccessAssumption DEF GoogleLink!LinkAssumption
    <2>2. v7 \in [Pair -> GoogleLink!Proc] /\ v4 \in [BindIds -> GoogleLink!Row]
      BY IdleIs, NoBindIs DEF GoogleLink!LinkInit
    <2>3. v5 \in [Channels -> -1..2]
      BY DEF GoogleLink!LinkInit
    <2> QED BY <1>1, <1>2, <2>1, <2>2, <2>3, IdleIs, NoBindIs DEF GoogleLink!LinkInit, GoogleLink!LinkTypeOK
  <1>4. \A b \in BindIds : GoogleLink!Owns(b) = {}
    BY <1>1, <1>2, IdleIs, NoBindIs DEF GoogleLink!Owns
  <1>5. GoogleLink!OwnInv
    BY <1>2, <1>4, NoBindIs DEF GoogleLink!OwnInv
  <1>6. GoogleLink!FreshInv /\ GoogleLink!StopInv
    BY <1>1, IdleIs DEF GoogleLink!FreshInv, GoogleLink!StopInv, GoogleLink!LinkInit
  <1>7. GoogleLink!AliveInv
    BY DEF GoogleLink!AliveInv, GoogleLink!LinkInit
  <1> QED BY <1>3, <1>5, <1>6, <1>7 DEF GoogleLink!LinkInv

LEMMA LinkKeeps ==
    ASSUME GoogleLink!LinkInv, [GoogleLink!LinkNext]_(GoogleLink!linkVars) PROVE GoogleLink!LinkInv'
  <1>1. ASSUME UNCHANGED GoogleLink!linkVars PROVE GoogleLink!LinkInv'
    <2>1. LinkFacts /\ LinkTables
      BY LinkFactsHold, TablesTyped DEF GoogleLink!LinkInv
    <2>2. UNCHANGED <<v1, v2, v3, v4, v5, v6, v7, v8, v9, v10>>
      BY <1>1 DEF GoogleLink!linkVars
    <2>3. LinkTables'
      BY <2>1, <2>2 DEF LinkTables
    <2> QED BY <2>1, <2>2, <2>3, LinkRests DEF LinkFacts
  <1>2. ASSUME GoogleLink!Connect \/ GoogleLink!WebRun \/ GoogleLink!runSync \/ GoogleLink!RevokeAtGoogle
        PROVE  GoogleLink!LinkInv'
    BY <1>2, ConnectKeeps DEF GoogleLink!WebRun, GoogleLink!runSync
  <1>3. ASSUME \/ \E c \in Channels : GoogleLink!Webhook(c) \/ GoogleLink!Age(c)
               \/ \E b \in BindIds : GoogleLink!HandlePoll(b)
        PROVE  GoogleLink!LinkInv'
    BY <1>3, JobsKeep
  <1>4. ASSUME NEW p \in Pair,
               \/ \E b \in BindIds : GoogleLink!Load(p, b)
               \/ \E pick \in GoogleLink!Choices : GoogleLink!WebSave(p, pick)
               \/ \E keep \in BOOLEAN : GoogleLink!WebDisconnect(p, keep)
               \/ GoogleLink!Watch(p) \/ GoogleLink!OpenChannel(p) \/ GoogleLink!SaveWatch(p)
               \/ GoogleLink!HandleWatch(p) \/ GoogleLink!HandlePull(p)
        PROVE  GoogleLink!LinkInv'
    BY <1>4, LoadKeeps, ApplyKeeps, StopAllKeeps, WatchKeeps, OpenChannelKeeps, SaveWatchKeeps, HandleWatchKeeps,
       HandlePullKeeps DEF GoogleLink!WebSave, GoogleLink!WebDisconnect
  <1>5. ASSUME NEW p \in Pair,
               \/ GoogleLink!Choose(p) \/ GoogleLink!Unbind(p) \/ GoogleLink!Redirect(p) \/ GoogleLink!CreateLocal(p)
               \/ GoogleLink!Bind(p) \/ GoogleLink!NextOne(p) \/ GoogleLink!DeleteAccount(p)
               \/ GoogleLink!Disconnect(p) \/ GoogleLink!Dies(p)
        PROVE  GoogleLink!LinkInv'
    BY <1>5, ChooseKeeps, UnbindKeeps, RedirectKeeps, CreateLocalKeeps, BindKeeps, NextOneKeeps, DeleteAccountKeeps,
       DisconnectKeeps, LinkDiesKeeps
  <1> QED BY <1>1, <1>2, <1>3, <1>4, <1>5 DEF GoogleLink!LinkNext

\* For any calendars, bindings, channels, requests, jobs and deaths: a binding that says it is watched has a
\* channel that Google serves, or somebody is between stopping it and writing that down, or died there.
THEOREM WatchStaysAlive == Spec => []WatchIsAlive
  <1> DEFINE Inv == part = "link" => GoogleLink!LinkInv
  <1>1. Init => Inv
    BY LinkStart DEF Init
  <1>2. Inv /\ [Next]_vars => Inv'
    <2>1. ASSUME Inv, [Next]_vars, part' = "link" PROVE GoogleLink!LinkInv'
      <3>1. part = "link" /\ [GoogleLink!LinkNext]_(GoogleLink!linkVars)
        BY <2>1 DEF Next, vars, GoogleLink!linkVars
      <3> QED BY <2>1, <3>1, LinkKeeps
    <2> QED BY <2>1
  <1>3. Inv => WatchIsAlive
    BY DEF GoogleLink!LinkInv, GoogleLink!AliveInv, GoogleLink!WatchIsAlive, WatchIsAlive
  <1> QED BY <1>1, <1>2, <1>3, PTL DEF Spec

=============================================================================

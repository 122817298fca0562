-------------------------- MODULE SearchAnalyticsProofs --------------------------
(***************************************************************************)
(* The statistics of searches, proved for any users, queries and times and *)
(* any lengths of the lists.                                               *)
(***************************************************************************)
EXTENDS SearchAnalytics, TLAPS, SequenceTheorems, FiniteSetTheorems,
  WellFoundedInduction

-----------------------------------------------------------------------------
(* Arithmetic.                                                             *)

LEMMA Division ==
  ASSUME NEW a \in Nat, NEW n \in Nat \ {0}
  PROVE  /\ a \div n \in Nat
         /\ n * (a \div n) <= a
         /\ a < n * (a \div n) + n
  OBVIOUS

(* The running average: a whole number, at most the quotient, and off by   *)
(* less than one.                                                          *)
LEMMA AveragedFacts ==
  ASSUME NEW avg \in Nat, NEW n \in Nat \ {0}, NEW time \in Nat
  PROVE  /\ Averaged(avg, n, time) \in Nat
         /\ n * Averaged(avg, n, time) <= avg * (n - 1) + time
         /\ avg * (n - 1) + time <= n * Averaged(avg, n, time) + n - 1
<1> DEFINE a == avg * (n - 1) + time
<1>1. n - 1 \in Nat
  OBVIOUS
<1>2. avg * (n - 1) \in Nat
  BY <1>1
<1>3. a \in Nat
  BY <1>2
<1> HIDE DEF a
<1>4. /\ a \div n \in Nat
      /\ n * (a \div n) <= a
      /\ a < n * (a \div n) + n
  BY <1>3, Division
<1>5. Averaged(avg, n, time) = a \div n
  BY DEF Averaged, a
<1>6. n * (a \div n) \in Nat
  BY <1>4
<1>7. a <= n * (a \div n) + n - 1
  BY <1>3, <1>4, <1>6
<1>8. QED
  BY <1>4, <1>5, <1>7 DEF a

(* What the average has lost grows by at most the new count less one.      *)
LEMMA DriftStep ==
  ASSUME NEW avg \in Nat, NEW n \in Nat, NEW sum \in Nat, NEW time \in Nat,
         avg * n <= sum, 2 * (sum - avg * n) <= n * (n - 1)
  PROVE  LET new == Averaged(avg, n + 1, time) IN
         /\ new * (n + 1) <= sum + time
         /\ 2 * (sum + time - new * (n + 1)) <= (n + 1) * n
<1> DEFINE new == Averaged(avg, n + 1, time)
           was == avg * n
           is == new * (n + 1)
<1>1. /\ new \in Nat
      /\ (n + 1) * new <= avg * ((n + 1) - 1) + time
      /\ avg * ((n + 1) - 1) + time <= (n + 1) * new + (n + 1) - 1
  BY AveragedFacts
<1>2. /\ (n + 1) - 1 = n
      /\ (n + 1) * new = is
      /\ is \in Nat /\ was \in Nat
  BY <1>1
<1>3. is <= was + time /\ was + time <= is + n
  BY <1>1, <1>2
<1>4. (n + 1) * n = n * (n - 1) + 2 * n
  OBVIOUS
<1>5. n * (n - 1) \in Int
  OBVIOUS
<1> HIDE DEF new, is, was
<1>6. was <= sum /\ 2 * (sum - was) <= n * (n - 1)
  BY DEF was
<1>7. is <= sum + time /\ 2 * (sum + time - is) <= (n + 1) * n
  BY <1>2, <1>3, <1>4, <1>5, <1>6
<1>8. QED
  BY <1>7 DEF is, new

-----------------------------------------------------------------------------
(* Sequences.                                                              *)

LEMMA InsertAtFacts ==
  ASSUME NEW S, NEW s \in Seq(S), NEW i \in 1..Len(s), NEW e \in S
  PROVE  /\ InsertAt(s, i, e) \in Seq(S)
         /\ Len(InsertAt(s, i, e)) = Len(s) + 1
         /\ \A j \in 1..(i - 1) : InsertAt(s, i, e)[j] = s[j]
         /\ InsertAt(s, i, e)[i] = e
         /\ \A j \in (i + 1)..(Len(s) + 1) : InsertAt(s, i, e)[j] = s[j - 1]
<1> DEFINE left == SubSeq(s, 1, i - 1)
           right == SubSeq(s, i, Len(s))
           first == left \o <<e>>
<1>1. /\ left \in Seq(S) /\ Len(left) = i - 1
      /\ \A j \in 1..(i - 1) : left[j] = s[j]
  BY SubSeqProperties
<1>2. /\ right \in Seq(S) /\ Len(right) = Len(s) - i + 1
      /\ \A j \in 1..(Len(s) - i + 1) : right[j] = s[i + j - 1]
  BY SubSeqProperties
<1>3. <<e>> \in Seq(S) /\ Len(<<e>>) = 1 /\ <<e>>[1] = e
  OBVIOUS
<1> HIDE DEF left, right
<1>4. /\ first \in Seq(S) /\ Len(first) = i
      /\ \A j \in 1..(i - 1) : first[j] = s[j]
      /\ first[i] = e
  BY <1>1, <1>3, ConcatProperties
<1> HIDE DEF first
<1>5. InsertAt(s, i, e) = first \o right
  BY DEF InsertAt, first, left, right
<1>6. /\ first \o right \in Seq(S)
      /\ Len(first \o right) = i + (Len(s) - i + 1)
      /\ \A j \in 1..(i + (Len(s) - i + 1)) :
           (first \o right)[j] = IF j <= i THEN first[j] ELSE right[j - i]
  <2>1. first \in Seq(S) /\ right \in Seq(S)
    BY <1>2, <1>4
  <2>2. /\ first \o right \in Seq(S)
        /\ Len(first \o right) = Len(first) + Len(right)
        /\ \A j \in 1..(Len(first) + Len(right)) :
             (first \o right)[j] = IF j <= Len(first) THEN first[j] ELSE right[j - Len(first)]
    BY <2>1, ConcatProperties
  <2>3. Len(first) = i /\ Len(right) = Len(s) - i + 1
    BY <1>2, <1>4
  <2>4. QED
    BY <2>2, <2>3
<1>7. i + (Len(s) - i + 1) = Len(s) + 1
  OBVIOUS
<1>8. \A j \in 1..i : (first \o right)[j] = first[j]
  BY <1>6
<1>9. \A j \in (i + 1)..(Len(s) + 1) : (first \o right)[j] = right[j - i]
  BY <1>6, <1>7
<1>10. \A j \in (i + 1)..(Len(s) + 1) : right[j - i] = s[j - 1]
  BY <1>2
<1>11. \A j \in 1..(i - 1) : (first \o right)[j] = s[j]
  BY <1>4, <1>8
<1>12. (first \o right)[i] = e
  BY <1>4, <1>8
<1>13. \A j \in (i + 1)..(Len(s) + 1) : (first \o right)[j] = s[j - 1]
  BY <1>9, <1>10
<1>14. QED
  BY <1>5, <1>6, <1>7, <1>11, <1>12, <1>13

LEMMA FlopsType ==
  ASSUME NEW S, NEW list \in Seq(S)
  PROVE  Flops(list) \in Nat
<1>1. Len(list) \in Nat
  OBVIOUS
<1>2. IsFiniteSet(1..Len(list))
  BY <1>1, FS_Interval
<1>3. IsFiniteSet({i \in 1..Len(list) : list[i].time = 0})
  BY <1>2, FS_Subset
<1>4. QED
  BY <1>3, FS_CardinalityType DEF Flops

-----------------------------------------------------------------------------
(* The ranking of one user's queries.                                      *)

Ranked(list, f) ==
  \A i \in 1..Len(list), q \in Queries :
    (\A j \in 1..i : list[j] # q) => f[q] <= f[list[i]]

Complete(list, f) ==
  Len(list) < TopMax =>
    \A q \in Queries : f[q] > 0 => \E j \in 1..Len(list) : list[j] = q

(* Whether the query is found, inserted, appended or left out: the list is *)
(* ranked by the counts after the search, and left out is only who has no  *)
(* place.                                                                  *)
LEMMA UpdateTopRanks ==
  ASSUME NEW list \in Seq(Queries), NEW f \in [Queries -> Nat], NEW q \in Queries,
         Ranked(list, f), Complete(list, f)
  PROVE  LET new == UpdateTop(list, f, q, f[q] + 1)
             f1 == [f EXCEPT ![q] = f[q] + 1]
         IN  new \in Seq(Queries) /\ Ranked(new, f1) /\ Complete(new, f1)
<1> DEFINE n == f[q] + 1
           new == UpdateTop(list, f, q, n)
           f1 == [f EXCEPT ![q] = n]
           stops == Stops(list, f, q, n)
<1>1. /\ n \in Nat /\ n > 0 /\ n > f[q]
      /\ f1 \in [Queries -> Nat] /\ f1[q] = n
      /\ \A x \in Queries \ {q} : f1[x] = f[x]
      /\ \A x \in Queries : f[x] <= f1[x]
  OBVIOUS
<1>2. TopMax \in Nat
  BY BoundsAssumption
<1>3. \A i \in 1..Len(list) : list[i] \in Queries
  OBVIOUS
<1>4. \A i \in 1..Len(list) : i \notin stops => list[i] # q /\ n <= f[list[i]]
  BY <1>1, <1>3 DEF Stops
<1>5. stops \subseteq 1..Len(list)
  BY DEF Stops
<1> SUFFICES new \in Seq(Queries) /\ Ranked(new, f1) /\ Complete(new, f1)
  OBVIOUS
<1> HIDE DEF n, f1
<1>6. CASE stops = {} /\ Len(list) < TopMax
  <2>1. new = Append(list, q)
    BY <1>6 DEF UpdateTop
  <2>2. /\ new \in Seq(Queries) /\ Len(new) = Len(list) + 1
        /\ \A i \in 1..Len(list) : new[i] = list[i]
        /\ new[Len(list) + 1] = q
    BY <2>1, AppendProperties
  <2> HIDE DEF new
  <2>3. ASSUME NEW i \in 1..Len(new), NEW x \in Queries, \A j \in 1..i : new[j] # x
        PROVE  f1[x] <= f1[new[i]]
    <3>1. CASE i \in 1..Len(list)
      <4>1. new[i] = list[i] /\ list[i] \in Queries \ {q} /\ n <= f[list[i]]
        BY <1>3, <1>4, <1>6, <2>2, <3>1
      <4>2. ASSUME NEW j \in 1..i PROVE list[j] # x
        <5>1. j \in 1..Len(list) /\ new[j] # x
          BY <2>3, <3>1
        <5>2. QED
          BY <2>2, <5>1
      <4>3. f[x] <= f[list[i]]
        BY <3>1, <4>2 DEF Ranked
      <4>4. QED
        BY <1>1, <4>1, <4>3
    <3>2. CASE i = Len(list) + 1
      <4>1. x # q /\ \A j \in 1..Len(list) : list[j] # x
        BY <2>2, <2>3, <3>2
      <4>2. f[x] = 0
        BY <1>6, <4>1 DEF Complete
      <4>3. QED
        BY <1>1, <2>2, <3>2, <4>1, <4>2
    <3>3. QED
      BY <2>2, <3>1, <3>2
  <2>4. ASSUME NEW x \in Queries, f1[x] > 0
        PROVE  \E j \in 1..Len(new) : new[j] = x
    <3>1. CASE x = q
      BY <2>2, <3>1
    <3>2. CASE x # q
      <4>1. f[x] > 0
        BY <1>1, <2>4, <3>2
      <4>2. PICK j \in 1..Len(list) : list[j] = x
        BY <1>6, <4>1 DEF Complete
      <4>3. QED
        BY <2>2, <4>2
    <3>3. QED
      BY <3>1, <3>2
  <2>5. QED
    BY <2>2, <2>3, <2>4 DEF Ranked, Complete
<1>7. CASE stops = {} /\ ~ Len(list) < TopMax
  <2>1. new = list
    BY <1>7 DEF UpdateTop
  <2>2. ASSUME NEW i \in 1..Len(list), NEW x \in Queries, \A j \in 1..i : list[j] # x
        PROVE  f1[x] <= f1[list[i]]
    <3>1. list[i] \in Queries \ {q} /\ n <= f[list[i]]
      BY <1>3, <1>4, <1>7
    <3>2. f[x] <= f[list[i]]
      BY <2>2 DEF Ranked
    <3>3. QED
      BY <1>1, <3>1, <3>2
  <2>3. QED
    BY <1>7, <2>1, <2>2 DEF Ranked, Complete
<1>8. CASE stops # {}
  <2> DEFINE p == CHOOSE i \in stops : \A j \in stops : i <= j
  <2>1. \E i \in stops : \A j \in stops : i <= j
    <3>1. stops \subseteq Nat
      BY <1>5
    <3> DEFINE R == OpToRel(<, Nat)
    <3>2. \A i, j \in Nat : i < j => <<i, j>> \in R
      BY DEF OpToRel
    <3>3. IsWellFoundedOn(R, Nat)
      BY NatLessThanWellFounded
    <3> HIDE DEF R
    <3>4. PICK i \in stops : \A j \in stops : ~ (<<j, i>> \in R)
      BY <1>8, <3>1, <3>3, WFMin
    <3>5. QED
      <4>1. i \in Nat /\ \A j \in stops : j \in Nat /\ ~ (j < i)
        BY <3>1, <3>2, <3>4
      <4>2. \A j \in stops : i <= j
        BY <4>1
      <4>3. QED
        BY <3>4, <4>2
  <2>2. p \in stops /\ \A j \in stops : p <= j
    BY <2>1
  <2>3. new = IF list[p] = q THEN list ELSE InsertAt(list, p, q)
    BY <1>8 DEF UpdateTop
  <2> HIDE DEF p
  <2>4. p \in 1..Len(list) /\ (list[p] = q \/ n > f[list[p]])
    BY <2>2 DEF Stops
  <2>5. \A i \in 1..Len(list) : i < p => list[i] # q /\ n <= f[list[i]]
    BY <1>4, <1>5, <2>2, <2>4
  <2>6. CASE list[p] = q
    <3>1. new = list
      BY <2>3, <2>6
    <3>2. ASSUME NEW i \in 1..Len(list), NEW x \in Queries, \A j \in 1..i : list[j] # x
          PROVE  f1[x] <= f1[list[i]]
      <4>1. CASE x = q
        <5>1. i < p
          BY <2>4, <2>6, <3>2, <4>1
        <5>2. list[i] \in Queries \ {q} /\ n <= f[list[i]]
          BY <1>3, <2>5, <5>1
        <5>3. QED
          BY <1>1, <4>1, <5>2
      <4>2. CASE x # q
        <5>1. f[x] <= f[list[i]]
          BY <3>2 DEF Ranked
        <5>2. list[i] \in Queries
          BY <1>3
        <5>3. f1[x] = f[x] /\ f[list[i]] <= f1[list[i]] /\ f1[list[i]] \in Nat
          BY <1>1, <4>2, <5>2
        <5>4. QED
          BY <5>1, <5>2, <5>3
      <4>3. QED
        BY <4>1, <4>2
    <3>3. ASSUME Len(list) < TopMax, NEW x \in Queries, f1[x] > 0
          PROVE  \E j \in 1..Len(list) : list[j] = x
      <4>1. CASE x = q
        BY <2>4, <2>6, <4>1
      <4>2. CASE x # q
        BY <1>1, <3>3, <4>2 DEF Complete
      <4>3. QED
        BY <4>1, <4>2
    <3>4. QED
      BY <3>1, <3>2, <3>3 DEF Ranked, Complete
  <2>7. CASE list[p] # q
    <3>1. new = InsertAt(list, p, q)
      BY <2>3, <2>7
    <3>2. /\ new \in Seq(Queries) /\ Len(new) = Len(list) + 1
          /\ \A j \in 1..(p - 1) : new[j] = list[j]
          /\ new[p] = q
          /\ \A j \in (p + 1)..(Len(list) + 1) : new[j] = list[j - 1]
      <4>1. list \in Seq(Queries) /\ p \in 1..Len(list) /\ q \in Queries
        BY <2>4
      <4>2. /\ InsertAt(list, p, q) \in Seq(Queries)
            /\ Len(InsertAt(list, p, q)) = Len(list) + 1
            /\ \A j \in 1..(p - 1) : InsertAt(list, p, q)[j] = list[j]
            /\ InsertAt(list, p, q)[p] = q
            /\ \A j \in (p + 1)..(Len(list) + 1) : InsertAt(list, p, q)[j] = list[j - 1]
        BY <4>1, InsertAtFacts
      <4>3. QED
        BY <3>1, <4>2
    <3>3. n > f[list[p]] /\ list[p] \in Queries \ {q}
      BY <1>3, <2>4, <2>7
    <3> HIDE DEF new
    <3>4. ASSUME NEW i \in 1..Len(new), NEW x \in Queries, \A j \in 1..i : new[j] # x
          PROVE  f1[x] <= f1[new[i]]
      <4>1. CASE i < p
        <5>1. new[i] = list[i] /\ list[i] \in Queries \ {q} /\ n <= f[list[i]]
          BY <1>3, <2>4, <2>5, <3>2, <4>1
        <5>2. \A j \in 1..i : list[j] # x
          BY <2>4, <3>2, <3>4, <4>1
        <5>3. f[x] <= f[list[i]]
          BY <2>4, <4>1, <5>2 DEF Ranked
        <5>4. QED
          BY <1>1, <5>1, <5>3
      <4>2. CASE i = p
        <5>1. x # q /\ \A j \in 1..(p - 1) : list[j] # x
          BY <2>4, <3>2, <3>4, <4>2
        <5>2. CASE x = list[p]
          BY <1>1, <3>2, <3>3, <4>2, <5>2
        <5>3. CASE x # list[p]
          <6>1. \A j \in 1..p : list[j] # x
            BY <2>4, <5>1, <5>3
          <6>2. f[x] <= f[list[p]]
            BY <2>4, <6>1 DEF Ranked
          <6>3. QED
            BY <1>1, <3>2, <3>3, <4>2, <5>1, <6>2
        <5>4. QED
          BY <5>2, <5>3
      <4>3. CASE i > p
        <5>1. /\ i - 1 \in 1..Len(list) /\ new[i] = list[i - 1]
              /\ list[i - 1] \in Queries
          BY <1>3, <2>4, <3>2, <4>3
        <5>2. x # q
          BY <2>4, <3>2, <3>4, <4>3
        <5>3. ASSUME NEW j \in 1..(i - 1) PROVE list[j] # x
          <6>1. CASE j < p
            BY <2>4, <3>2, <3>4, <6>1
          <6>2. CASE ~ j < p
            <7>1. j + 1 \in (p + 1)..(Len(list) + 1) /\ j + 1 \in 1..i
              BY <2>4, <3>2, <5>1, <6>2
            <7>2. new[j + 1] = list[j]
              <8>1. \A k \in (p + 1)..(Len(list) + 1) : new[k] = list[k - 1]
                BY <3>2
              <8>2. new[j + 1] = list[(j + 1) - 1]
                BY <7>1, <8>1
              <8>3. (j + 1) - 1 = j
                OBVIOUS
              <8>4. QED
                BY <8>2, <8>3
            <7>3. QED
              BY <3>4, <7>1, <7>2
          <6>3. QED
            BY <6>1, <6>2
        <5>4. f[x] <= f[list[i - 1]]
          BY <5>1, <5>3 DEF Ranked
        <5>5. f1[x] = f[x] /\ f[list[i - 1]] <= f1[list[i - 1]] /\ f1[list[i - 1]] \in Nat
          BY <1>1, <5>1, <5>2
        <5>6. QED
          BY <5>1, <5>4, <5>5
      <4>4. QED
        BY <2>4, <3>2, <4>1, <4>2, <4>3
    <3>5. ASSUME Len(new) < TopMax, NEW x \in Queries, f1[x] > 0
          PROVE  \E j \in 1..Len(new) : new[j] = x
      <4>1. CASE x = q
        BY <2>4, <3>2, <4>1
      <4>2. CASE x # q
        <5>1. f[x] > 0 /\ Len(list) < TopMax
          BY <1>1, <1>2, <3>2, <3>5, <4>2
        <5>2. PICK j \in 1..Len(list) : list[j] = x
          BY <5>1 DEF Complete
        <5>3. CASE j < p
          BY <2>4, <3>2, <5>2, <5>3
        <5>4. CASE ~ j < p
          <6>1. j + 1 \in (p + 1)..(Len(list) + 1) /\ j + 1 \in 1..Len(new)
            BY <2>4, <3>2, <5>4
          <6>2. ASSUME NEW k, k = j + 1 PROVE new[k] = list[j]
            <7>1. k \in (p + 1)..(Len(list) + 1)
              BY <6>1, <6>2
            <7>2. new[k] = list[k - 1]
              BY <3>2, <7>1
            <7>3. k - 1 = j
              BY <6>2
            <7>4. QED
              BY <7>2, <7>3
          <6>3. new[j + 1] = x
            BY <5>2, <6>2
          <6>4. QED
            BY <6>1, <6>3
        <5>5. QED
          BY <5>3, <5>4
      <4>3. QED
        BY <4>1, <4>2
    <3>6. QED
      BY <3>2, <3>4, <3>5 DEF Ranked, Complete
  <2>8. QED
    BY <2>6, <2>7
<1>9. QED
  BY <1>6, <1>7, <1>8 DEF n, f1

-----------------------------------------------------------------------------
(* The slow queries.                                                       *)

Latest(h) ==
  SubSeq(h, (IF Len(h) > SlowMax THEN Len(h) - SlowMax ELSE 0) + 1, Len(h))

LEMMA LatestFacts ==
  ASSUME NEW S, NEW h \in Seq(S)
  PROVE  /\ Latest(h) \in Seq(S)
         /\ Len(h) <= SlowMax => Latest(h) = h
         /\ Len(h) > SlowMax =>
              /\ Len(Latest(h)) = SlowMax
              /\ \A j \in 1..SlowMax : Latest(h)[j] = h[Len(h) - SlowMax + j]
<1> USE BoundsAssumption
<1>1. Len(h) \in Nat /\ SlowMax \in Nat \ {0}
  OBVIOUS
<1>2. CASE Len(h) > SlowMax
  <2> DEFINE m == Len(h) - SlowMax + 1
  <2>1. Latest(h) = SubSeq(h, m, Len(h))
    BY <1>2 DEF Latest
  <2>2. m \in 1..(Len(h) + 1) /\ Len(h) \in 0..Len(h)
    BY <1>1, <1>2
  <2>3. /\ SubSeq(h, m, Len(h)) \in Seq(S)
        /\ Len(SubSeq(h, m, Len(h))) = Len(h) - m + 1
        /\ \A j \in 1..(Len(h) - m + 1) : SubSeq(h, m, Len(h))[j] = h[m + j - 1]
    BY <1>1, <2>2, SubSeqProperties
  <2>4. Len(h) - m + 1 = SlowMax /\ \A j \in Nat : m + j - 1 = Len(h) - SlowMax + j
    BY <1>1
  <2>5. QED
    BY <1>1, <1>2, <2>1, <2>3, <2>4
<1>3. CASE ~ Len(h) > SlowMax
  <2>1. Latest(h) = SubSeq(h, 1, Len(h))
    BY <1>3 DEF Latest
  <2>2. SubSeq(h, 1, Len(h)) = h
    OBVIOUS
  <2>3. QED
    BY <1>1, <1>3, <2>1, <2>2
<1>4. QED
  BY <1>2, <1>3

(* Appending to the kept ones and dropping the oldest when there are too   *)
(* many keeps the latest of all.                                           *)
LEMMA KeptIsLatest ==
  ASSUME NEW S, NEW h \in Seq(S), NEW e \in S
  PROVE  Kept(Append(Latest(h), e)) = Latest(Append(h, e))
<1> DEFINE s == Latest(h)
           h1 == Append(h, e)
           s1 == Append(s, e)
<1>1. Len(h) \in Nat /\ SlowMax \in Nat \ {0}
  BY BoundsAssumption
<1>2. /\ h1 \in Seq(S) /\ Len(h1) = Len(h) + 1
      /\ \A j \in 1..Len(h) : h1[j] = h[j]
      /\ h1[Len(h) + 1] = e
  BY AppendProperties
<1>3. s \in Seq(S)
  BY LatestFacts
<1>4. /\ s1 \in Seq(S) /\ Len(s1) = Len(s) + 1
      /\ \A j \in 1..Len(s) : s1[j] = s[j]
      /\ s1[Len(s) + 1] = e
  BY <1>3, AppendProperties
<1>5. /\ Latest(h1) \in Seq(S)
      /\ Len(h1) <= SlowMax => Latest(h1) = h1
      /\ Len(h1) > SlowMax =>
           /\ Len(Latest(h1)) = SlowMax
           /\ \A j \in 1..SlowMax : Latest(h1)[j] = h1[Len(h1) - SlowMax + j]
  BY <1>2, LatestFacts
<1>6. CASE Len(h) < SlowMax
  <2>1. s = h
    BY <1>1, <1>6, LatestFacts
  <2>2. s1 = h1 /\ Latest(h1) = h1
    BY <1>1, <1>2, <1>5, <1>6, <2>1
  <2>3. ~ Len(s1) > SlowMax
    BY <1>1, <1>2, <1>6, <2>2
  <2>4. QED
    BY <2>2, <2>3 DEF Kept
<1>7. CASE ~ Len(h) < SlowMax
  <2>1. /\ Len(s) = SlowMax
        /\ \A j \in 1..SlowMax : s[j] = h[Len(h) - SlowMax + j]
    <3>1. CASE Len(h) = SlowMax
      <4>1. s = h
        BY <1>1, <3>1, LatestFacts
      <4>2. \A j \in 1..SlowMax : Len(h) - SlowMax + j = j
        BY <1>1, <3>1
      <4>3. QED
        BY <3>1, <4>1, <4>2
    <3>2. CASE Len(h) > SlowMax
      BY <3>2, LatestFacts
    <3>3. QED
      BY <1>1, <1>7, <3>1, <3>2
  <2> HIDE DEF s, h1, s1
  <2>2. Kept(s1) = Tail(s1)
    BY <1>1, <1>4, <2>1 DEF Kept
  <2>3. s1 # <<>>
    BY <1>1, <1>4, <2>1
  <2>4. /\ Tail(s1) \in Seq(S) /\ Len(Tail(s1)) = Len(s1) - 1
        /\ \A j \in 1..(Len(s1) - 1) : Tail(s1)[j] = s1[j + 1]
    BY <1>4, <2>3, HeadTailProperties
  <2>5. /\ Len(Latest(h1)) = SlowMax
        /\ \A j \in 1..SlowMax : Latest(h1)[j] = h1[Len(h1) - SlowMax + j]
    BY <1>1, <1>2, <1>5, <1>7
  <2>6. Len(Tail(s1)) = SlowMax
    BY <1>1, <1>4, <2>1, <2>4
  <2>7. ASSUME NEW j \in 1..SlowMax PROVE Tail(s1)[j] = Latest(h1)[j]
    <3>1. Tail(s1)[j] = s1[j + 1]
      BY <1>1, <1>4, <2>1, <2>4
    <3>2. Latest(h1)[j] = h1[Len(h) + 1 - SlowMax + j]
      BY <1>2, <2>5
    <3>3. CASE j = SlowMax
      <4>1. s1[j + 1] = e
        BY <1>4, <2>1, <3>3
      <4>2. Len(h) + 1 - SlowMax + j = Len(h) + 1
        BY <1>1, <3>3
      <4>3. QED
        BY <1>2, <3>1, <3>2, <4>1, <4>2
    <3>4. CASE j < SlowMax
      <4>1. j + 1 \in 1..SlowMax
        BY <1>1, <3>4
      <4>2. s1[j + 1] = h[Len(h) - SlowMax + (j + 1)]
        BY <1>4, <2>1, <4>1
      <4>3. /\ Len(h) - SlowMax + (j + 1) = Len(h) + 1 - SlowMax + j
            /\ Len(h) + 1 - SlowMax + j \in 1..Len(h)
        BY <1>1, <1>7, <3>4
      <4>4. QED
        BY <1>2, <3>1, <3>2, <4>2, <4>3
    <3>5. j = SlowMax \/ j < SlowMax
      BY <1>1
    <3>6. QED
      BY <3>3, <3>4, <3>5
  <2>8. Tail(s1) = Latest(h1)
    BY <1>1, <1>5, <2>4, <2>5, <2>6, <2>7, SeqEqual
  <2>9. QED
    BY <2>2, <2>8 DEF s, h1, s1
<1>8. QED
  BY <1>6, <1>7

-----------------------------------------------------------------------------
(* The inductive invariant.  The ranking needs to know that a user without *)
(* searches has searched nothing, and the rate of success that a query     *)
(* without searches has had none.                                          *)

Ranks(u) ==
  /\ searches[u] = 0 => \A q \in Queries : freq[u][q] = 0
  /\ Ranked(top[u], freq[u])
  /\ Complete(top[u], freq[u])

Drifts(q) ==
  /\ average[q] * count[q] <= history.time[q]
  /\ 2 * (history.time[q] - average[q] * count[q]) <= count[q] * (count[q] - 1)

Succeeds(q) ==
  /\ good[q] - history.success[q] \in {0, 1}
  /\ count[q] = 0 => good[q] = 0 /\ history.success[q] = 0

IInv ==
  /\ TypeOK
  /\ \A u \in Users : Ranks(u)
  /\ \A q \in Queries : Drifts(q) /\ Succeeds(q)
  /\ slow = Latest(history.slow)

LEMMA InitHolds == Init => IInv
<1> SUFFICES ASSUME Init PROVE IInv
  OBVIOUS
<1>1. TypeOK
  BY DEF Init, TypeOK
<1>2. ASSUME NEW u \in Users PROVE Ranks(u)
  BY DEF Init, Ranks, Ranked, Complete
<1>3. ASSUME NEW q \in Queries PROVE Drifts(q) /\ Succeeds(q)
  BY DEF Init, Drifts, Succeeds
<1>4. slow = Latest(history.slow)
  <2>1. slow = <<>> /\ history.slow = <<>> /\ Len(history.slow) = 0
    BY DEF Init
  <2>2. history.slow \in Seq(Pattern)
    BY <2>1
  <2>3. Len(history.slow) <= SlowMax => Latest(history.slow) = history.slow
    BY <2>2, LatestFacts
  <2>4. QED
    BY <2>1, <2>3, BoundsAssumption
<1>5. QED
  BY <1>1, <1>2, <1>3, <1>4 DEF IInv

(* A recorded search keeps the types.                                      *)
LEMMA RecordTypes ==
  ASSUME TypeOK, NEW u \in Users, NEW q \in Queries, NEW time \in Times,
         NEW ok \in BOOLEAN, RecordSearchEvent(u, q, time, ok),
         Ranked(top[u], freq[u]), Complete(top[u], freq[u])
  PROVE  TypeOK'
<1>1. time \in Nat
  BY TimesAssumption
<1>2. /\ count' \in [Queries -> Nat] /\ good' \in [Queries -> Nat]
      /\ hours' \in [Queries -> Nat]
      /\ count'[q] = count[q] + 1 /\ count'[q] \in Nat \ {0}
  <2>1. /\ count \in [Queries -> Nat] /\ good \in [Queries -> Nat]
        /\ hours \in [Queries -> Nat]
    BY DEF TypeOK
  <2>2. /\ count' = [count EXCEPT ![q] = count[q] + 1]
        /\ good' = [good EXCEPT ![q] = IF ok \/ count[q] = 0 THEN good[q] + 1 ELSE good[q]]
        /\ hours' = [hours EXCEPT ![q] = hours[q] + 1]
    BY DEF RecordSearchEvent, RecordPattern
  <2>3. count[q] \in Nat /\ good[q] \in Nat /\ hours[q] \in Nat
    BY <2>1
  <2>4. (IF ok \/ count[q] = 0 THEN good[q] + 1 ELSE good[q]) \in Nat
    BY <2>3
  <2>5. good' \in [Queries -> Nat]
    BY <2>1, <2>2, <2>4
  <2>6. count' \in [Queries -> Nat] /\ hours' \in [Queries -> Nat] /\ count'[q] = count[q] + 1
    BY <2>1, <2>2, <2>3
  <2>7. QED
    BY <2>3, <2>5, <2>6
<1>3. average' \in [Queries -> Nat]
  <2>1. average[q] \in Nat
    BY DEF TypeOK
  <2>2. Averaged(average[q], count'[q], time) \in Nat
    BY <1>1, <1>2, <2>1, AveragedFacts
  <2>3. average' = [average EXCEPT ![q] = Averaged(average[q], count'[q], time)]
    BY DEF RecordSearchEvent, RecordPattern
  <2>4. QED
    BY <2>2, <2>3 DEF TypeOK
<1>4. searches' \in [Users -> Nat] /\ freq' \in [Users -> [Queries -> Nat]]
  <2>1. searches \in [Users -> Nat] /\ freq \in [Users -> [Queries -> Nat]]
    BY DEF TypeOK
  <2>2. /\ searches' = [searches EXCEPT ![u] = searches[u] + 1]
        /\ freq' = [freq EXCEPT ![u] = [freq[u] EXCEPT ![q] = freq[u][q] + 1]]
    BY DEF RecordSearchEvent, RecordBehavior
  <2>3. [freq[u] EXCEPT ![q] = freq[u][q] + 1] \in [Queries -> Nat]
    BY <2>1
  <2>4. QED
    BY <2>1, <2>2, <2>3
<1>5. top' \in [Users -> Seq(Queries)]
  <2>1. top[u] \in Seq(Queries) /\ freq[u] \in [Queries -> Nat]
    BY DEF TypeOK
  <2>2. UpdateTop(top[u], freq[u], q, freq[u][q] + 1) \in Seq(Queries)
    BY <2>1, UpdateTopRanks
  <2>3. <<q>> \in Seq(Queries)
    OBVIOUS
  <2>4. top' = [top EXCEPT ![u] = IF searches[u] = 0 THEN <<q>>
                  ELSE UpdateTop(top[u], freq[u], q, freq[u][q] + 1)]
    BY DEF RecordSearchEvent, RecordBehavior
  <2>5. QED
    BY <2>2, <2>3, <2>4 DEF TypeOK
<1>6. trends' \in Nat /\ total' \in Nat /\ mean' \in Nat /\ failures' \in Nat
  <2>1. trends \in Nat /\ total \in Nat /\ mean \in Nat /\ failures \in Nat
    BY DEF TypeOK
  <2>2. /\ trends' = trends + 1 /\ total' = total + 1
        /\ mean' = IF total' = 1 THEN time ELSE Averaged(mean, total', time)
        /\ failures' = failures + (IF ok THEN 0 ELSE 1)
    BY DEF RecordSearchEvent, RecordStats
  <2>3. total' \in Nat \ {0}
    BY <2>1, <2>2
  <2>4. Averaged(mean, total', time) \in Nat
    BY <1>1, <2>1, <2>3, AveragedFacts
  <2>5. mean' \in Nat
    BY <1>1, <2>2, <2>4
  <2>6. trends' \in Nat /\ failures' \in Nat
    BY <2>1, <2>2
  <2>7. QED
    BY <2>3, <2>5, <2>6
<1>7. /\ history' \in [time : [Queries -> Nat], success : [Queries -> Nat], slow : Seq(Pattern)]
      /\ UNCHANGED <<asked, spent, popular, slow, flops>>
  <2> DEFINE H == [time : [Queries -> Nat], success : [Queries -> Nat], slow : Seq(Pattern)]
             times == [history.time EXCEPT ![q] = history.time[q] + time]
             successes == [history.success EXCEPT
                             ![q] = history.success[q] + (IF ok THEN 1 ELSE 0)]
  <2>1. history \in H
    BY DEF TypeOK
  <2>2. history' = [history EXCEPT !.time = times, !.success = successes]
    BY <2>1 DEF RecordSearchEvent
  <2>3. times \in [Queries -> Nat] /\ successes \in [Queries -> Nat]
    BY <1>1, <2>1
  <2> HIDE DEF times, successes
  <2>4. history' \in H
    BY <2>1, <2>2, <2>3
  <2>5. QED
    BY <2>4 DEF RecordSearchEvent, metrics
<1>8. QED
  BY <1>2, <1>3, <1>4, <1>5, <1>6, <1>7 DEF TypeOK

LEMMA RecordSearchKeeps ==
  ASSUME IInv, NEW u \in Users, NEW q \in Queries, NEW time \in Times,
         NEW ok \in BOOLEAN, RecordSearchEvent(u, q, time, ok)
  PROVE  IInv'
<1>1. time \in Nat
  BY TimesAssumption
<1>2. TypeOK /\ Ranks(u)
  BY DEF IInv
<1>3. TypeOK'
  BY <1>2, RecordTypes DEF Ranks
<1>4. ASSUME NEW v \in Users PROVE Ranks(v)'
  <2>1. CASE v # u
    <3>1. searches'[v] = searches[v] /\ freq'[v] = freq[v] /\ top'[v] = top[v]
      BY <1>2, <2>1 DEF RecordSearchEvent, RecordBehavior, TypeOK
    <3>2. Ranks(v)
      BY DEF IInv
    <3>3. QED
      BY <3>1, <3>2 DEF Ranks, Ranked, Complete
  <2>2. CASE v = u
    <3>1. /\ top[u] \in Seq(Queries) /\ freq[u] \in [Queries -> Nat]
          /\ searches[u] \in Nat
          /\ searches'[u] = searches[u] + 1
          /\ freq'[u] = [freq[u] EXCEPT ![q] = freq[u][q] + 1]
      BY <1>2 DEF RecordSearchEvent, RecordBehavior, TypeOK
    <3>2. Ranked(top'[u], freq'[u]) /\ Complete(top'[u], freq'[u])
      <4>1. CASE searches[u] = 0
        <5>1. /\ top'[u] = <<q>> /\ Len(top'[u]) = 1 /\ top'[u][1] = q
              /\ \A x \in Queries : freq[u][x] = 0
          BY <1>2, <4>1 DEF RecordSearchEvent, RecordBehavior, TypeOK, Ranks
        <5>2. freq'[u][q] = 1 /\ \A x \in Queries \ {q} : freq'[u][x] = 0
          BY <3>1, <5>1
        <5>3. Ranked(top'[u], freq'[u])
          BY <5>1, <5>2 DEF Ranked
        <5>4. Complete(top'[u], freq'[u])
          BY <5>1, <5>2 DEF Complete
        <5>5. QED
          BY <5>3, <5>4
      <4>2. CASE searches[u] # 0
        <5>1. top'[u] = UpdateTop(top[u], freq[u], q, freq[u][q] + 1)
          BY <1>2, <4>2 DEF RecordSearchEvent, RecordBehavior, TypeOK
        <5>2. Ranked(top[u], freq[u]) /\ Complete(top[u], freq[u])
          BY <1>2 DEF Ranks
        <5>3. LET new == UpdateTop(top[u], freq[u], q, freq[u][q] + 1)
                  f1 == [freq[u] EXCEPT ![q] = freq[u][q] + 1]
              IN  new \in Seq(Queries) /\ Ranked(new, f1) /\ Complete(new, f1)
          BY <3>1, <5>2, UpdateTopRanks
        <5>4. QED
          BY <3>1, <5>1, <5>3
      <4>3. QED
        BY <4>1, <4>2
    <3>3. searches'[u] # 0
      BY <3>1
    <3>4. Ranks(u)'
      BY <3>2, <3>3 DEF Ranks, Ranked, Complete
    <3>5. QED
      BY <2>2, <3>4
  <2>3. QED
    BY <2>1, <2>2
<1>5. ASSUME NEW x \in Queries PROVE (Drifts(x) /\ Succeeds(x))'
  <2>0. Drifts(x) /\ Succeeds(x)
    BY DEF IInv
  <2>1. CASE x # q
    <3>1. /\ count'[x] = count[x] /\ average'[x] = average[x] /\ good'[x] = good[x]
          /\ history.time[x] = history'.time[x]
          /\ history.success[x] = history'.success[x]
      BY <1>2, <2>1 DEF RecordSearchEvent, RecordPattern, TypeOK
    <3>2. QED
      BY <2>0, <3>1 DEF Drifts, Succeeds
  <2>2. CASE x = q
    <3>1. /\ average[q] \in Nat /\ count[q] \in Nat /\ history.time[q] \in Nat
          /\ good[q] \in Nat /\ history.success[q] \in Nat
          /\ count'[q] = count[q] + 1
          /\ average'[q] = Averaged(average[q], count[q] + 1, time)
          /\ good'[q] = IF ok \/ count[q] = 0 THEN good[q] + 1 ELSE good[q]
          /\ history'.time[q] = history.time[q] + time
          /\ history'.success[q] = history.success[q] + (IF ok THEN 1 ELSE 0)
      BY <1>2 DEF RecordSearchEvent, RecordPattern, TypeOK
    <3>2. Drifts(q)'
      <4>1. /\ average[q] * count[q] <= history.time[q]
            /\ 2 * (history.time[q] - average[q] * count[q]) <= count[q] * (count[q] - 1)
        BY <2>0, <2>2 DEF Drifts
      <4>2. /\ average'[q] * (count[q] + 1) <= history.time[q] + time
            /\ 2 * (history.time[q] + time - average'[q] * (count[q] + 1))
                 <= (count[q] + 1) * count[q]
        BY <1>1, <3>1, <4>1, DriftStep
      <4>3. count'[q] - 1 = count[q]
        BY <3>1
      <4>4. /\ average'[q] * count'[q] = average'[q] * (count[q] + 1)
            /\ count'[q] * (count'[q] - 1) = (count[q] + 1) * count[q]
        BY <3>1, <4>3
      <4> DEFINE kept == average'[q] * (count[q] + 1)
                 slack == (count[q] + 1) * count[q]
      <4>5. /\ kept <= history'.time[q]
            /\ 2 * (history'.time[q] - kept) <= slack
        <5> HIDE DEF kept, slack
        <5>1. history'.time[q] = history.time[q] + time
          BY <3>1
        <5>2. /\ kept <= history.time[q] + time
              /\ 2 * (history.time[q] + time - kept) <= slack
          BY <4>2 DEF kept, slack
        <5>3. kept \in Int /\ slack \in Int
          <6>1. average'[q] \in Nat
            BY <1>3 DEF TypeOK
          <6>2. QED
            BY <3>1, <6>1 DEF kept, slack
        <5>4. history.time[q] \in Nat /\ time \in Nat
          BY <1>1, <3>1
        <5>5. QED
          BY <5>1, <5>2, <5>3, <5>4
      <4> HIDE DEF kept, slack
      <4>6. /\ average'[q] * count'[q] = kept
            /\ count'[q] * (count'[q] - 1) = slack
        BY <4>4 DEF kept, slack
      <4>7. QED
        BY <4>5, <4>6 DEF Drifts
    <3>3. Succeeds(q)'
      BY <2>0, <2>2, <3>1 DEF Succeeds
    <3>4. QED
      BY <2>2, <3>2, <3>3
  <2>3. QED
    BY <2>1, <2>2
<1>6. slow' = Latest(history'.slow)
  BY <1>2 DEF IInv, RecordSearchEvent, metrics, TypeOK
<1>7. QED
  BY <1>3, <1>4, <1>5, <1>6 DEF IInv, Latest

LEMMA RecordMetricsKeeps ==
  ASSUME IInv, NEW q \in Queries, NEW time \in Times, NEW failed \in BOOLEAN,
         RecordQueryMetrics(q, time, failed)
  PROVE  IInv'
<1> DEFINE e == [query |-> q, time |-> time]
<1>1. time \in Nat /\ e \in Pattern
  BY TimesAssumption DEF Pattern
<1>2. TypeOK
  BY DEF IInv
<1>3. /\ UNCHANGED <<count, average, good, hours, searches, freq, top, trends,
                      total, mean, failures>>
      /\ history'.time = history.time /\ history'.success = history.success
  BY <1>2 DEF RecordQueryMetrics, patterns, behavior, stats, TypeOK
<1>4. /\ history'.slow \in Seq(Pattern)
      /\ slow' = Latest(history'.slow)
  <2>1. history.slow \in Seq(Pattern) /\ slow = Latest(history.slow)
    BY <1>2 DEF IInv, TypeOK
  <2>2. CASE time > Slow
    <3>1. /\ slow' = Kept(Append(slow, e))
          /\ history'.slow = Append(history.slow, e)
      BY <1>2, <2>2 DEF RecordQueryMetrics, TypeOK
    <3> HIDE DEF e
    <3>2. Kept(Append(Latest(history.slow), e)) = Latest(Append(history.slow, e))
      BY <1>1, <2>1, KeptIsLatest
    <3>3. Append(history.slow, e) \in Seq(Pattern)
      BY <1>1, <2>1
    <3>4. QED
      BY <2>1, <3>1, <3>2, <3>3
  <2>3. CASE ~ (time > Slow)
    BY <2>1, <2>3 DEF RecordQueryMetrics
  <2>4. QED
    BY <2>2, <2>3
<1>5. slow' \in Seq(Pattern)
  BY <1>4, LatestFacts
<1>6. TypeOK'
  <2>1. Flops(slow') \in Nat
    BY <1>5, FlopsType
  <2>2. asked' \in Nat /\ spent' \in Nat /\ popular' \in [Queries -> Nat] /\ flops' \in Nat
    <3>1. asked \in Nat /\ spent \in Nat /\ popular \in [Queries -> Nat] /\ flops \in Nat
      BY <1>2 DEF TypeOK
    <3>2. /\ asked' = asked + 1 /\ spent' = spent + time
          /\ popular' = [popular EXCEPT ![q] = popular[q] + 1]
          /\ flops' = IF failed THEN Flops(slow') ELSE flops
      BY DEF RecordQueryMetrics
    <3>3. popular' \in [Queries -> Nat]
      BY <3>1, <3>2
    <3>4. QED
      BY <1>1, <2>1, <3>1, <3>2, <3>3
  <2>3. history' \in [time : [Queries -> Nat], success : [Queries -> Nat], slow : Seq(Pattern)]
    <3>1. history' = [history EXCEPT !.slow = history'.slow]
      BY <1>2 DEF RecordQueryMetrics, TypeOK
    <3>2. QED
      BY <1>2, <1>4, <3>1 DEF TypeOK
  <2>4. QED
    BY <1>2, <1>3, <1>5, <2>2, <2>3 DEF TypeOK
<1>7. \A u \in Users : Ranks(u)'
  BY <1>3 DEF IInv, Ranks, Ranked, Complete
<1>8. \A x \in Queries : (Drifts(x) /\ Succeeds(x))'
  BY <1>3 DEF IInv, Drifts, Succeeds
<1>9. QED
  BY <1>4, <1>6, <1>7, <1>8 DEF IInv, Latest

LEMMA NextKeeps == IInv /\ [Next]_vars => IInv'
<1> SUFFICES ASSUME IInv, [Next]_vars PROVE IInv'
  OBVIOUS
<1>1. ASSUME NEW u \in Users, NEW q \in Queries, NEW time \in Times, NEW ok \in BOOLEAN,
             RecordSearchEvent(u, q, time, ok)
      PROVE  IInv'
  BY <1>1, RecordSearchKeeps
<1>2. ASSUME NEW q \in Queries, NEW time \in Times, NEW failed \in BOOLEAN,
             RecordQueryMetrics(q, time, failed)
      PROVE  IInv'
  BY <1>2, RecordMetricsKeeps
<1>3. CASE UNCHANGED vars
  BY <1>3 DEF IInv, TypeOK, Ranks, Ranked, Complete, Drifts, Succeeds, Latest,
              vars, patterns, behavior, stats, metrics
<1>4. QED
  BY <1>1, <1>2, <1>3 DEF Next

THEOREM InductiveInvariant == Spec => []IInv
BY InitHolds, NextKeeps, PTL DEF Spec

-----------------------------------------------------------------------------
(* What follows.                                                           *)

(* The records keep their types (search_analytics.go:15-61,                *)
(* search_optimizer.go:13-44).                                             *)
THEOREM TypeCorrect == Spec => []TypeOK
<1>1. IInv => TypeOK
  BY DEF IInv
<1>2. QED
  BY <1>1, InductiveInvariant, PTL

(* However a user searches, the first of the top queries is a most frequent*)
(* one, and the rest rank below it (search_analytics.go:317-339).          *)
THEOREM TopStaysRanked == Spec => []TopIsRanked
<1>1. IInv => TopIsRanked
  BY DEF IInv, Ranks, Ranked, Complete, TopIsRanked, Listed, TypeOK
<1>2. QED
  BY <1>1, InductiveInvariant, PTL

(* A rounded average falls behind the true one by less than half a tick a  *)
(* search, and never exceeds it (search_analytics.go:137).                 *)
THEOREM AveragesDrift == Spec => []AverageDriftsDown
<1>1. IInv => AverageDriftsDown
  BY DEF IInv, Drifts, AverageDriftsDown
<1>2. QED
  BY <1>1, InductiveInvariant, PTL

(* However the rates were rounded, a query is listed as failing only if it *)
(* has succeeded in at most 4 of 5 searches, and one that is not listed is *)
(* at most one success short of that (search_analytics.go:139-143, 153,    *)
(* 532).                                                                   *)
THEOREM FailingCorrect == Spec => []FailingIsTrue
<1>1. ASSUME IInv PROVE FailingIsTrue
  <2>1. ASSUME NEW q \in Queries
        PROVE  /\ good[q] - history.success[q] \in {0, 1}
               /\ good[q] \in Nat /\ history.success[q] \in Nat /\ count[q] \in Nat
    BY <1>1 DEF IInv, Succeeds, TypeOK
  <2>2. ASSUME NEW list \in FailingQueries, NEW q \in Queries
        PROVE  /\ q \in list => 5 * history.success[q] <= 4 * count[q]
               /\ q \notin list => 5 * (history.success[q] + 1) >= 4 * count[q]
    <3>1. /\ q \in list => 5 * good[q] <= 4 * count[q]
          /\ q \notin list => count[q] = 0 \/ 5 * good[q] >= 4 * count[q]
      BY <2>1, <2>2 DEF FailingQueries
    <3>2. /\ good[q] \in Nat /\ history.success[q] \in Nat /\ count[q] \in Nat
          /\ good[q] = history.success[q] \/ good[q] = history.success[q] + 1
      BY <2>1
    <3>3. QED
      BY <3>1, <3>2
  <2>3. QED
    BY <2>1, <2>2 DEF FailingIsTrue
<1>2. QED
  BY <1>1, InductiveInvariant, PTL

(* What is known of a query is nearly true (search_analytics.go:135-158).  *)
THEOREM PatternsCorrect == Spec => []PatternsAreNearlyTrue
BY AveragesDrift, FailingCorrect, PTL DEF PatternsAreNearlyTrue

(* The slow queries that are kept are the latest                           *)
(* (search_optimizer.go:275-288).                                          *)
THEOREM SlowCorrect == Spec => []SlowAreTheLatest
<1>1. IInv => SlowAreTheLatest
  BY DEF IInv, Latest, SlowAreTheLatest
<1>2. QED
  BY <1>1, InductiveInvariant, PTL

LEMMA TimesGrow ==
  ASSUME NEW a \in Nat, NEW b \in Nat, NEW n \in Nat, a <= b
  PROVE  n * a <= n * b
<1>1. b - a \in Nat
  OBVIOUS
<1>2. n * b = n * a + n * (b - a)
  OBVIOUS
<1>3. n * (b - a) \in Nat /\ n * a \in Nat
  BY <1>1
<1>4. QED
  BY <1>2, <1>3

(* The warning of slow queries is right as long as none was dropped, and   *)
(* never wrong (search_optimizer.go:181).                                  *)
THEOREM WarningCorrect == Spec => []WarningIsRight
<1>1. ASSUME IInv PROVE WarningIsRight
  <2> DEFINE k == asked \div Share
             all == Len(history.slow)
  <2>1. /\ history.slow \in Seq(Pattern) /\ slow = Latest(history.slow)
        /\ asked \in Nat
    BY <1>1 DEF IInv, TypeOK
  <2>2. Share \in Nat \ {0} /\ SlowMax \in Nat \ {0}
    BY BoundsAssumption
  <2>3. k \in Nat /\ Share * k <= asked /\ asked < Share * k + Share
    BY <2>1, <2>2, Division
  <2>4. all \in Nat
    BY <2>1
  <2>5. Len(slow) \in Nat /\ Len(slow) <= all /\ (all <= SlowMax => Len(slow) = all)
    <3>1. CASE all <= SlowMax
      BY <2>1, <2>4, <3>1, LatestFacts
    <3>2. CASE all > SlowMax
      BY <2>1, <2>2, <2>4, <3>2, LatestFacts
    <3>3. QED
      BY <2>2, <2>4, <3>1, <3>2
  <2> HIDE DEF k, all
  <2>6. ASSUME Len(slow) > k PROVE Share * all > asked
    <3>1. k + 1 <= all /\ k + 1 \in Nat
      BY <2>3, <2>4, <2>5, <2>6
    <3>2. Share * (k + 1) <= Share * all
      BY <2>2, <2>4, <3>1, TimesGrow
    <3>3. Share * (k + 1) = Share * k + Share
      BY <2>2, <2>3
    <3>4. QED
      BY <2>1, <2>2, <2>3, <2>4, <3>2, <3>3
  <2>7. ASSUME all <= SlowMax, Share * all > asked PROVE Len(slow) > k
    <3>1. ASSUME all <= k PROVE FALSE
      <4>1. Share * all <= Share * k
        BY <2>2, <2>3, <2>4, <3>1, TimesGrow
      <4>2. QED
        BY <2>1, <2>2, <2>3, <2>4, <2>7, <4>1
    <3>2. QED
      BY <2>3, <2>4, <2>5, <2>7, <3>1
  <2>8. QED
    BY <2>6, <2>7 DEF WarningIsRight, WarnsOfSlowness, k, all
<1>2. QED
  BY <1>1, InductiveInvariant, PTL

-----------------------------------------------------------------------------
(* The percentiles.  There is an entry for each search.                    *)

AllListed == IsFiniteSet(ResponseTimes) /\ Cardinality(ResponseTimes) = total

LEMMA InitListed == Init => AllListed
<1> SUFFICES ASSUME Init PROVE AllListed
  OBVIOUS
<1>1. \A q \in Queries : count[q] = 0
  BY DEF Init
<1>2. ResponseTimes = {}
  BY <1>1 DEF ResponseTimes
<1>3. QED
  BY <1>2, FS_EmptySet DEF Init, AllListed

LEMMA NextListed == IInv /\ AllListed /\ [Next]_vars => AllListed'
<1> SUFFICES ASSUME IInv, AllListed, [Next]_vars PROVE AllListed'
  OBVIOUS
<1>1. ASSUME NEW u \in Users, NEW q \in Queries, NEW time \in Times, NEW ok \in BOOLEAN,
             RecordSearchEvent(u, q, time, ok)
      PROVE  AllListed'
  <2> DEFINE e == <<q, count[q] + 1>>
  <2>1. /\ count \in [Queries -> Nat] /\ total \in Nat
        /\ count' = [count EXCEPT ![q] = count[q] + 1] /\ total' = total + 1
    BY <1>1 DEF IInv, TypeOK, RecordSearchEvent, RecordPattern, RecordStats
  <2>2. \A x, i : <<x, i>> \in ResponseTimes <=> x \in Queries /\ i \in 1..count[x]
    BY DEF ResponseTimes
  <2>3. \A x, i : <<x, i>> \in ResponseTimes' <=> x \in Queries /\ i \in 1..count'[x]
    BY DEF ResponseTimes
  <2>4. /\ \A y \in ResponseTimes : y = <<y[1], y[2]>>
        /\ \A y \in ResponseTimes' : y = <<y[1], y[2]>>
    BY DEF ResponseTimes
  <2>5. \A x \in Queries : \A i : i \in 1..count'[x] <=> i \in 1..count[x] \/ <<x, i>> = e
    BY <2>1
  <2>6. e \notin ResponseTimes
    BY <2>1, <2>2
  <2>7. e \in ResponseTimes'
    BY <2>1, <2>3
  <2>8. ResponseTimes' = ResponseTimes \cup {e}
    <3>1. ASSUME NEW y \in ResponseTimes PROVE y \in ResponseTimes'
      BY <2>2, <2>3, <2>4, <2>5
    <3>2. ASSUME NEW y \in ResponseTimes', y # e PROVE y \in ResponseTimes
      BY <2>2, <2>3, <2>4, <2>5, <3>2
    <3>3. QED
      BY <2>7, <3>1, <3>2
  <2> HIDE DEF e
  <2>9. QED
    BY <2>1, <2>6, <2>8, FS_AddElement DEF AllListed
<1>2. ASSUME UNCHANGED <<count, total>> PROVE AllListed'
  BY <1>2 DEF AllListed, ResponseTimes
<1>3. ASSUME NEW q \in Queries, NEW time \in Times, NEW failed \in BOOLEAN,
             RecordQueryMetrics(q, time, failed)
      PROVE  AllListed'
  BY <1>2, <1>3 DEF RecordQueryMetrics, patterns, stats
<1>4. CASE UNCHANGED vars
  BY <1>2, <1>4 DEF vars, patterns, stats
<1>5. QED
  BY <1>1, <1>3, <1>4 DEF Next

(* Sizes of what is below a time, and up to it.                            *)
LEMMA BelowAndUpTo ==
  ASSUME IInv, AllListed
  PROVE  /\ \A t : Below(t) \in Nat /\ UpTo(t) \in Nat /\ UpTo(t) <= total
         /\ \A e \in ResponseTimes : TimeOf(e) \in Nat
         /\ \A s, t \in Nat : s < t => UpTo(s) <= Below(t)
         /\ \A t \in Nat : t > 0 => Below(t) = UpTo(t - 1)
         /\ Below(0) = 0
         /\ \A t : (\A e \in ResponseTimes : TimeOf(e) <= t) => UpTo(t) = total
         /\ \A t \in Nat : Below(t) < UpTo(t) => \E e \in ResponseTimes : TimeOf(e) = t
<1> DEFINE B(t) == {e \in ResponseTimes : TimeOf(e) < t}
           U(t) == {e \in ResponseTimes : TimeOf(e) <= t}
<1>1. \A e \in ResponseTimes : TimeOf(e) \in Nat
  <2>1. \A e \in ResponseTimes : e[1] \in Queries
    BY DEF ResponseTimes
  <2>2. QED
    BY <2>1 DEF TimeOf, IInv, TypeOK
<1>2. \A t : Below(t) = Cardinality(B(t)) /\ UpTo(t) = Cardinality(U(t))
  BY DEF Below, UpTo
<1>3. \A S \in SUBSET ResponseTimes :
        IsFiniteSet(S) /\ Cardinality(S) \in Nat /\ Cardinality(S) <= total
  BY FS_Subset, FS_CardinalityType DEF AllListed
<1>4. \A t : B(t) \in SUBSET ResponseTimes /\ U(t) \in SUBSET ResponseTimes
  OBVIOUS
<1>5. \A S, T \in SUBSET ResponseTimes : S \subseteq T => Cardinality(S) <= Cardinality(T)
  BY <1>3, FS_Subset
<1>6. ASSUME NEW s \in Nat, NEW t \in Nat, s < t PROVE UpTo(s) <= Below(t)
  <2>1. U(s) \subseteq B(t)
    BY <1>1, <1>6
  <2>2. QED
    BY <1>2, <1>4, <1>5, <2>1
<1>7. ASSUME NEW t \in Nat, t > 0 PROVE Below(t) = UpTo(t - 1)
  <2>1. B(t) = U(t - 1)
    BY <1>1, <1>7
  <2>2. QED
    BY <1>2, <2>1
<1>8. Below(0) = 0
  <2>1. B(0) = {}
    BY <1>1
  <2>2. QED
    BY <1>2, <2>1, FS_EmptySet
<1>9. ASSUME NEW t, \A e \in ResponseTimes : TimeOf(e) <= t PROVE UpTo(t) = total
  <2>1. U(t) = ResponseTimes
    BY <1>9
  <2>2. QED
    BY <1>2, <2>1 DEF AllListed
<1>10. ASSUME NEW t \in Nat, Below(t) < UpTo(t)
       PROVE  \E e \in ResponseTimes : TimeOf(e) = t
  <2>1. B(t) # U(t)
    <3>1. Below(t) \in Nat /\ UpTo(t) \in Nat
      BY <1>2, <1>3, <1>4
    <3>2. Below(t) # UpTo(t)
      BY <1>10, <3>1
    <3>3. Below(t) = Cardinality(B(t)) /\ UpTo(t) = Cardinality(U(t))
      BY <1>2
    <3> HIDE DEF B, U
    <3>4. QED
      BY <3>2, <3>3
  <2>2. B(t) \subseteq U(t)
    BY <1>1
  <2>3. PICK e \in U(t) : e \notin B(t)
    BY <2>1, <2>2
  <2>4. QED
    BY <1>1, <2>3
<1>11. QED
  BY <1>1, <1>2, <1>3, <1>4, <1>6, <1>7, <1>8, <1>9, <1>10

(* A set of numbers has a least one.                                       *)
LEMMA Least ==
  ASSUME NEW T \in SUBSET Nat, T # {}
  PROVE  \E x \in T : \A y \in T : x <= y
<1>1. PICK x \in T : \A y \in T : ~ (<<y, x>> \in OpToRel(<, Nat))
  BY NatLessThanWellFounded, WFMin
<1>2. \A y \in T : ~ (y < x)
  BY <1>1 DEF OpToRel
<1>3. QED
  BY <1>2

(* No entry is slower than the slowest.                                    *)
LEMMA Slowest ==
  ASSUME IInv, AllListed, total > 0
  PROVE  \E t \in Nat : UpTo(t) = total
<1> DEFINE Above(t) == total - UpTo(t)
           T == {Above(TimeOf(e)) : e \in ResponseTimes}
<1>1. total \in Nat
  BY DEF IInv, TypeOK
<1>2. /\ \A t : UpTo(t) \in Nat /\ UpTo(t) <= total
      /\ \A e \in ResponseTimes : TimeOf(e) \in Nat
      /\ \A s, t \in Nat : s < t => UpTo(s) <= Below(t)
      /\ \A t : Below(t) \in Nat
  BY BelowAndUpTo
<1>3. ResponseTimes # {}
  BY <1>1, FS_EmptySet DEF AllListed
<1>4. T \in SUBSET Nat /\ T # {}
  BY <1>1, <1>2, <1>3
<1> HIDE DEF T
<1>5. PICK x \in T : \A y \in T : x <= y
  BY <1>4, Least
<1>6. PICK e \in ResponseTimes : x = Above(TimeOf(e))
  BY <1>5 DEF T
<1>7. ASSUME NEW f \in ResponseTimes PROVE TimeOf(f) <= TimeOf(e)
  <2>1. SUFFICES ASSUME TimeOf(e) < TimeOf(f) PROVE FALSE
    BY <1>2
  <2>2. UpTo(TimeOf(e)) <= Below(TimeOf(f))
    BY <1>2, <2>1
  <2>3. Below(TimeOf(f)) < UpTo(TimeOf(f))
    <3> DEFINE t == TimeOf(f)
               B == {g \in ResponseTimes : TimeOf(g) < t}
               U == {g \in ResponseTimes : TimeOf(g) <= t}
    <3>1. t \in Nat /\ \A g \in ResponseTimes : TimeOf(g) \in Nat
      BY <1>2
    <3>2. B \subseteq U /\ f \in U /\ f \notin B
      BY <3>1
    <3>3. IsFiniteSet(U)
      BY FS_Subset DEF AllListed
    <3>4. Cardinality(B) <= Cardinality(U) /\ Cardinality(B) # Cardinality(U)
      BY <3>2, <3>3, FS_Subset
    <3>5. Below(t) = Cardinality(B) /\ UpTo(t) = Cardinality(U)
      BY DEF Below, UpTo
    <3>6. Below(t) \in Nat /\ UpTo(t) \in Nat
      BY <1>2
    <3>7. QED
      BY <3>4, <3>5, <3>6
  <2>4. Above(TimeOf(f)) \in T
    BY DEF T
  <2>5. x <= Above(TimeOf(f))
    BY <1>5, <2>4
  <2>6. /\ UpTo(TimeOf(e)) \in Nat /\ UpTo(TimeOf(f)) \in Nat /\ Below(TimeOf(f)) \in Nat
    BY <1>2
  <2>7. QED
    BY <1>1, <1>6, <2>2, <2>3, <2>5, <2>6
<1>8. TimeOf(e) \in Nat
  BY <1>2, <1>6
<1>9. UpTo(TimeOf(e)) = total
  BY <1>7, BelowAndUpTo
<1>10. QED
  BY <1>8, <1>9

(* The index of a percentile is within the list.                           *)
LEMMA IndexFits ==
  ASSUME IInv, AllListed, total > 0, NEW percent \in 0..99
  PROVE  /\ PercentileIndex(percent) \in Nat /\ PercentileIndex(percent) < total
         /\ 100 * PercentileIndex(percent) <= total * percent
         /\ total * percent < 100 * PercentileIndex(percent) + 100
<1> DEFINE a == total * percent
           i == PercentileIndex(percent)
<1>1. total \in Nat /\ total > 0
  BY DEF IInv, TypeOK
<1>2. a \in Nat
  BY <1>1
<1>3. a < 100 * total
  <2>1. total * percent <= total * 99
    BY <1>1
  <2>2. QED
    BY <1>1, <2>1
<1>4. i = a \div 100
  BY DEF PercentileIndex, AllListed
<1> HIDE DEF a, i
<1>5. i \in Nat /\ 100 * i <= a /\ a < 100 * i + 100
  BY <1>2, <1>4, Division
<1>6. i < total
  BY <1>1, <1>2, <1>3, <1>5
<1>7. QED
  BY <1>5, <1>6 DEF a, i

(* What is there after sorting: exactly one time.                          *)
LEMMA PercentileIs ==
  ASSUME IInv, AllListed, total > 0, NEW percent \in 0..99
  PROVE  /\ \E t \in Nat : Percentile(percent) = {t}
         /\ \A t \in Percentile(percent) :
              /\ t \in Nat
              /\ Below(t) <= PercentileIndex(percent)
              /\ PercentileIndex(percent) < UpTo(t)
<1> DEFINE i == PercentileIndex(percent)
           T == {t \in Nat : UpTo(t) > i}
<1>1. total \in Nat /\ i \in Nat /\ i < total
  BY IndexFits DEF IInv, TypeOK
<1>2. /\ \A t : Below(t) \in Nat /\ UpTo(t) \in Nat
      /\ \A e \in ResponseTimes : TimeOf(e) \in Nat
      /\ \A s, t \in Nat : s < t => UpTo(s) <= Below(t)
      /\ \A t \in Nat : t > 0 => Below(t) = UpTo(t - 1)
      /\ Below(0) = 0
      /\ \A t \in Nat : Below(t) < UpTo(t) => \E e \in ResponseTimes : TimeOf(e) = t
  BY BelowAndUpTo
<1> HIDE DEF i
<1>3. T # {}
  BY <1>1, Slowest
<1>4. PICK t \in T : \A s \in T : t <= s
  BY <1>3, Least
<1>5. t \in Nat /\ i < UpTo(t)
  BY <1>1, <1>2
<1>6. Below(t) <= i
  <2>1. CASE t = 0
    BY <1>1, <1>2, <2>1
  <2>2. CASE t > 0
    <3>1. t - 1 \in Nat /\ t - 1 < t
      BY <1>5, <2>2
    <3>2. t - 1 \notin T
      BY <1>4, <1>5, <3>1
    <3>3. ~ (UpTo(t - 1) > i)
      BY <3>1, <3>2
    <3>4. Below(t) = UpTo(t - 1) /\ UpTo(t - 1) \in Nat
      BY <1>2, <1>5, <2>2
    <3>5. QED
      BY <1>1, <3>3, <3>4
  <2>3. QED
    BY <1>5, <2>1, <2>2
<1>7. t \in Percentile(percent)
  <2>1. Below(t) < UpTo(t)
    BY <1>1, <1>2, <1>5, <1>6
  <2>2. \E e \in ResponseTimes : TimeOf(e) = t
    BY <1>2, <1>5, <2>1
  <2>3. QED
    BY <1>5, <1>6, <2>2 DEF Percentile, i
<1>8. ASSUME NEW s \in Percentile(percent)
      PROVE  s \in Nat /\ Below(s) <= i /\ i < UpTo(s)
  BY <1>2 DEF Percentile, i
<1>9. ASSUME NEW s \in Percentile(percent) PROVE s = t
  <2>1. s \in Nat /\ Below(s) <= i /\ i < UpTo(s)
    BY <1>8
  <2>2. /\ Below(s) \in Nat /\ UpTo(s) \in Nat /\ Below(t) \in Nat /\ UpTo(t) \in Nat
        /\ s < t => UpTo(s) <= Below(t)
        /\ t < s => UpTo(t) <= Below(s)
    BY <1>2, <1>5, <2>1
  <2>3. ~ (s < t)
    BY <1>1, <1>6, <2>1, <2>2
  <2>4. ~ (t < s)
    BY <1>1, <1>5, <2>1, <2>2
  <2>5. QED
    BY <1>5, <2>1, <2>3, <2>4
<1>10. Percentile(percent) = {t}
  BY <1>7, <1>9
<1>11. QED
  BY <1>5, <1>8, <1>10 DEF i

(* As long as there is a search, each percentile is one time that covers   *)
(* its share of the searches (search_analytics.go:227-243).                *)
THEOREM PercentilesCorrect == Spec => []PercentilesCover
<1>1. Spec => []AllListed
  BY InductiveInvariant, InitListed, NextListed, PTL DEF Spec
<1>2. ASSUME IInv, AllListed PROVE PercentilesCover
  <2>1. SUFFICES ASSUME total > 0
                 PROVE  /\ \A percent \in {95, 99} :
                             /\ Cardinality(Percentile(percent)) = 1
                             /\ \A t \in Percentile(percent) : 100 * UpTo(t) >= percent * total
                        /\ \A s \in Percentile(95), t \in Percentile(99) : s <= t
    BY DEF PercentilesCover
  <2>2. total \in Nat /\ \A t : Below(t) \in Nat /\ UpTo(t) \in Nat
    BY <1>2, BelowAndUpTo DEF IInv, TypeOK
  <2>3. ASSUME NEW percent \in {95, 99}
        PROVE  /\ Cardinality(Percentile(percent)) = 1
               /\ \A t \in Percentile(percent) : 100 * UpTo(t) >= percent * total
    <3>1. percent \in 0..99
      OBVIOUS
    <3>2. PICK t \in Nat : Percentile(percent) = {t}
      BY <1>2, <2>1, <3>1, PercentileIs
    <3>3. Cardinality(Percentile(percent)) = 1
      <4>1. Cardinality({t}) = 1
        BY FS_Singleton
      <4>2. QED
        BY <3>2, <4>1
    <3>4. ASSUME NEW s \in Percentile(percent) PROVE 100 * UpTo(s) >= percent * total
      <4> DEFINE i == PercentileIndex(percent)
                 a == total * percent
      <4>1. i \in Nat /\ a < 100 * i + 100 /\ i < UpTo(s)
        BY <1>2, <2>1, <3>1, IndexFits, PercentileIs
      <4>2. a \in Nat /\ a = percent * total
        BY <2>2
      <4> HIDE DEF i, a
      <4>3. UpTo(s) \in Nat
        BY <2>2
      <4>4. 100 * UpTo(s) >= a
        BY <4>1, <4>2, <4>3
      <4>5. QED
        BY <4>2, <4>4
    <3>5. QED
      BY <3>3, <3>4
  <2>4. ASSUME NEW s \in Percentile(95), NEW t \in Percentile(99) PROVE s <= t
    <3> DEFINE i == PercentileIndex(95)
               j == PercentileIndex(99)
    <3>1. /\ i \in Nat /\ 100 * i <= total * 95
          /\ j \in Nat /\ total * 99 < 100 * j + 100
      BY <1>2, <2>1, IndexFits
    <3>2. /\ s \in Nat /\ Below(s) <= i /\ i < UpTo(s)
          /\ t \in Nat /\ Below(t) <= j /\ j < UpTo(t)
      BY <1>2, <2>1, PercentileIs
    <3> HIDE DEF i, j
    <3>3. i <= j
      BY <2>2, <3>1
    <3>4. t < s => UpTo(t) <= Below(s)
      BY <1>2, <3>2, BelowAndUpTo
    <3>5. Below(s) \in Nat /\ UpTo(t) \in Nat
      BY <2>2
    <3>6. ~ (t < s)
      BY <3>1, <3>2, <3>3, <3>4, <3>5
    <3>7. QED
      BY <3>2, <3>6
  <2>5. QED
    BY <2>3, <2>4
<1>3. QED
  BY <1>1, <1>2, InductiveInvariant, PTL
=============================================================================

--------------------------- MODULE RedactionProofs ---------------------------
(***************************************************************************)
(* What the loops of the code over the ranges of a segment compute, for    *)
(* texts, fixes and batches of any size: the scan over sorted neighbours   *)
(* finds an overlap exactly when there is one, and the splices of          *)
(* CandidateText spell the masked text position by position.               *)
(*                                                                         *)
(* The inductions are made with least counterexamples: a set of numbers    *)
(* that is not empty has a least element (LeastElement).                   *)
(***************************************************************************)
EXTENDS Redaction, SequenceTheorems, FunctionTheorems, FiniteSetTheorems,
        TLAPS

LEMMA LeastElement ==
  ASSUME NEW T \in SUBSET Nat, T # {}
  PROVE  \E x \in T : \A y \in T : x <= y
<1> DEFINE R == OpToRel(<, Nat)
<1>1. ASSUME NEW x \in Nat, NEW y \in Nat, y < x PROVE <<y, x>> \in R
  BY <1>1 DEF OpToRel
<1>2. IsWellFoundedOn(R, Nat)
  BY NatLessThanWellFounded
<1> HIDE DEF R
<1>3. PICK x \in T : \A y \in T : ~(<<y, x>> \in R)
  BY <1>2, WFMin
<1>4. \A y \in T : ~(y < x) /\ y \in Nat /\ x \in Nat
  BY <1>1, <1>3
<1>5. QED
  BY <1>4

\* Induction on numbers, for the members of a set of good ones.
LEMMA AllGood ==
  ASSUME NEW n \in Nat, NEW Good, 0 \in Good,
         \A i \in 1..n : i - 1 \in Good => i \in Good
  PROVE  \A i \in 0..n : i \in Good
<1> DEFINE Bad == {i \in 0..n : i \notin Good}
<1>1. ASSUME Bad # {} PROVE FALSE
  <2>1. Bad \in SUBSET Nat
    OBVIOUS
  <2>2. PICK i \in Bad : \A j \in Bad : i <= j
    <3> HIDE DEF Bad
    <3>1. QED
      BY <1>1, <2>1, LeastElement
  <2>3. i \in 1..n /\ i - 1 \in 0..n /\ ~(i <= i - 1)
    BY <2>2
  <2>4. i - 1 \in Good
    BY <2>2, <2>3
  <2>5. QED
    BY <2>2, <2>3, <2>4
<1>2. QED
  BY <1>1

-----------------------------------------------------------------------------
(***************************************************************************)
(* The scan.                                                               *)
(***************************************************************************)
\* A sequence whose neighbours are in order is in order.
LEMMA NeighboursOrder ==
  ASSUME NEW n \in Nat, NEW a \in [1..n -> Int],
         \A i \in 2..n : a[i-1] <= a[i],
         NEW i \in 1..n, NEW j \in i..n
  PROVE  a[i] <= a[j]
<1> DEFINE Good == {d \in Nat : i + d \in 1..n => a[i] <= a[i + d]}
<1>1. 0 \in Good
  OBVIOUS
<1>2. ASSUME NEW d \in 1..n, d - 1 \in Good PROVE d \in Good
  <2>1. SUFFICES ASSUME i + d \in 1..n PROVE a[i] <= a[i + d]
    OBVIOUS
  <2>2. i + (d - 1) \in 1..n /\ i + (d - 1) = (i + d) - 1 /\ i + d \in 2..n
    BY <2>1
  <2>3. a[i] <= a[(i + d) - 1]
    BY <1>2, <2>2
  <2>4. a[(i + d) - 1] <= a[i + d]
    BY <2>2
  <2>5. a[i] \in Int /\ a[(i + d) - 1] \in Int /\ a[i + d] \in Int
    BY <2>1, <2>2
  <2>6. QED
    BY <2>3, <2>4, <2>5
<1> HIDE DEF Good
<1>3. \A d \in 0..n : d \in Good
  BY <1>1, <1>2, AllGood
<1>4. j - i \in 0..n /\ i + (j - i) = j /\ j \in 1..n
  OBVIOUS
<1>5. j - i \in Good
  BY <1>3, <1>4
<1>6. QED
  BY <1>4, <1>5 DEF Good

\* A family of nonempty ranges.
IsRanges(is) ==
  \A k \in DOMAIN is : /\ is[k].start \in Int /\ is[k].end \in Int
                       /\ is[k].start < is[k].end

\* In ascending order two of the ranges overlap exactly when two neighbours do.
LEMMA ScanOfSorted ==
  ASSUME NEW S, NEW s \in Seq(S), IsRanges(s),
         \A i \in 2..Len(s) : s[i-1].start <= s[i].start
  PROVE  NeighboursOverlap(s) <=>
           \E i, j \in DOMAIN s : i # j /\ Overlap(s[i], s[j])
<1> DEFINE n == Len(s)
           a == [i \in 1..n |-> s[i].start]
<1>1. n \in Nat /\ DOMAIN s = 1..n
  OBVIOUS
<1>2. \A i \in 1..n : /\ s[i].start \in Int /\ s[i].end \in Int
                      /\ s[i].start < s[i].end
  BY <1>1 DEF IsRanges
<1>3. ASSUME NEW i \in 2..n, s[i-1].end > s[i].start
      PROVE  i - 1 # i /\ Overlap(s[i-1], s[i])
  <2>1. i \in 1..n /\ i - 1 \in 1..n
    BY <1>1
  <2>2. QED
    BY <1>2, <1>3, <2>1 DEF Overlap
<1>4. ASSUME ~NeighboursOverlap(s), NEW i \in 1..n, NEW j \in 1..n, i < j
      PROVE  ~Overlap(s[i], s[j])
  <2>1. i + 1 \in 2..n /\ i + 1 \in 1..n /\ (i + 1) - 1 = i /\ j \in (i + 1)..n
    BY <1>1, <1>4
  <2>2. ~(s[i].end > s[i + 1].start)
    BY <1>4, <2>1 DEF NeighboursOverlap
  <2>3. a \in [1..n -> Int] /\ \A k \in 2..n : a[k-1] <= a[k]
    BY <1>1, <1>2
  <2> HIDE DEF n
  <2>4. a[i + 1] <= a[j]
    <3> HIDE DEF a
    <3>1. QED
      BY <1>1, <2>1, <2>3, NeighboursOrder
  <2>5. s[i + 1].start <= s[j].start
    BY <2>1, <2>4
  <2>6. QED
    BY <1>2, <2>1, <2>2, <2>5 DEF Overlap
<1>5. ASSUME ~NeighboursOverlap(s), NEW i \in 1..n, NEW j \in 1..n, i # j
      PROVE  ~Overlap(s[i], s[j])
  <2>1. CASE i < j
    BY <1>4, <1>5, <2>1
  <2>2. CASE j < i
    <3>1. ~Overlap(s[j], s[i])
      BY <1>4, <1>5, <2>2
    <3>2. QED
      BY <3>1 DEF Overlap
  <2>3. QED
    BY <1>1, <1>5, <2>1, <2>2
<1>6. ASSUME NeighboursOverlap(s)
      PROVE  \E i, j \in DOMAIN s : i # j /\ Overlap(s[i], s[j])
  <2>1. PICK i \in 2..n : s[i-1].end > s[i].start
    BY <1>6 DEF NeighboursOverlap
  <2>2. i - 1 \in DOMAIN s /\ i \in DOMAIN s
    BY <1>1
  <2>3. QED
    BY <1>3, <2>1, <2>2
<1>7. QED
  BY <1>1, <1>5, <1>6

\* The family in the order p, every member in one place.
Lists(s, is, p) ==
  /\ p \in [DOMAIN s -> DOMAIN is]
  /\ \A i \in DOMAIN s : s[i] = is[p[i]]
  /\ \A i, j \in DOMAIN s : i # j => p[i] # p[j]
  /\ \A k \in DOMAIN is : \E i \in DOMAIN s : p[i] = k

LEMMA ArrangementProperties ==
  ASSUME NEW K, IsFiniteSet(K), NEW S, NEW is \in [K -> S],
         NEW s \in Arrangements(is)
  PROVE  s \in Seq(S) /\ \E p : Lists(s, is, p)
<1> DEFINE n == Cardinality(K)
<1>1. n \in Nat /\ DOMAIN is = K
  BY FS_CardinalityType
<1>2. PICK p \in SetToSeqs(DOMAIN is) : s = [i \in DOMAIN p |-> is[p[i]]]
  BY DEF Arrangements
<1>3. p \in [1..n -> K] /\ \A i, j \in 1..n : i # j => p[i] # p[j]
  BY <1>1, <1>2 DEF SetToSeqs
<1>4. p \in Surjection(1..n, K)
  <2>1. p \in Injection(1..n, K)
    BY <1>3, Fun_IsInj
  <2>2. IsFiniteSet(1..n) /\ Cardinality(1..n) = n
    BY <1>1, FS_Interval
  <2>3. QED
    BY <2>1, <2>2, FS_Injection
<1>5. \A k \in K : \E i \in 1..n : p[i] = k
  BY <1>4 DEF Surjection
<1>6. DOMAIN s = 1..n /\ \A i \in 1..n : s[i] = is[p[i]] /\ s[i] \in S
  BY <1>2, <1>3
<1>7. s \in [1..n -> S]
  BY <1>2, <1>3
<1>8. s \in Seq(S)
  BY <1>1, <1>7
<1>9. Lists(s, is, p)
  BY <1>1, <1>3, <1>5, <1>6 DEF Lists
<1>10. QED
  BY <1>8, <1>9

\* The scan of ResolveIssues, of validateConfirmationExceptions and of
\* validateTimeline is exact: in whichever order the sort leaves a finite
\* number of ranges, it reports an overlap exactly when two of them overlap.
THEOREM ScanFindsOverlaps ==
  ASSUME NEW K, IsFiniteSet(K), NEW S, NEW is \in [K -> S], IsRanges(is),
         NEW s \in Ascending(is)
  PROVE  NeighboursOverlap(s) <=> \E k, l \in K : k # l /\ Overlap(is[k], is[l])
<1>1. s \in Arrangements(is) /\ \A i \in 2..Len(s) : s[i-1].start <= s[i].start
  BY DEF Ascending
<1>2. s \in Seq(S) /\ \E p : Lists(s, is, p)
  BY <1>1, ArrangementProperties
<1>3. PICK p : /\ p \in [DOMAIN s -> K]
               /\ \A i \in DOMAIN s : s[i] = is[p[i]]
               /\ \A i, j \in DOMAIN s : i # j => p[i] # p[j]
               /\ \A k \in K : \E i \in DOMAIN s : p[i] = k
  BY <1>2 DEF Lists
<1>4. IsRanges(s)
  BY <1>3 DEF IsRanges
<1>5. NeighboursOverlap(s) <=>
        \E i, j \in DOMAIN s : i # j /\ Overlap(s[i], s[j])
  BY <1>1, <1>2, <1>4, ScanOfSorted
<1>6. ASSUME NEW i \in DOMAIN s, NEW j \in DOMAIN s, i # j, Overlap(s[i], s[j])
      PROVE  \E k, l \in K : k # l /\ Overlap(is[k], is[l])
  <2>1. p[i] \in K /\ p[j] \in K /\ p[i] # p[j] /\ Overlap(is[p[i]], is[p[j]])
    BY <1>3, <1>6
  <2>2. QED
    BY <2>1
<1>7. ASSUME NEW k \in K, NEW l \in K, k # l, Overlap(is[k], is[l])
      PROVE  \E i, j \in DOMAIN s : i # j /\ Overlap(s[i], s[j])
  <2>1. PICK i \in DOMAIN s, j \in DOMAIN s : p[i] = k /\ p[j] = l
    BY <1>3
  <2>2. i # j /\ Overlap(s[i], s[j])
    BY <1>3, <1>7, <2>1
  <2>3. QED
    BY <2>2
<1>8. QED
  BY <1>5, <1>6, <1>7

\* Any finite family can be put in the order of a key: by insertion.
LEMMA SortedOrder ==
  ASSUME NEW K, IsFiniteSet(K), NEW key \in [K -> Int]
  PROVE  \E p \in SetToSeqs(K) :
           \A i \in 2..Cardinality(K) : key[p[i-1]] <= key[p[i]]
<1> DEFINE n == Cardinality(K)
           Sorts(p, m, D) == /\ p \in [1..m -> D]
                             /\ \A i, j \in 1..m : i # j => p[i] # p[j]
                             /\ \A i \in 2..m : key[p[i-1]] <= key[p[i]]
           Good == {m \in Nat : \A D \in SUBSET K :
                                  Cardinality(D) = m => \E p : Sorts(p, m, D)}
<1>1. n \in Nat
  BY FS_CardinalityType
<1>2. 0 \in Good
  <2>1. ASSUME NEW D \in SUBSET K PROVE \E p : Sorts(p, 0, D)
    <3> DEFINE p == [i \in 1..0 |-> i]
    <3>1. Sorts(p, 0, D)
      OBVIOUS
    <3> HIDE DEF p, Sorts
    <3>2. QED
      BY <3>1
  <2> HIDE DEF Sorts
  <2>2. QED
    BY <2>1
<1>3. ASSUME NEW m \in 1..n, m - 1 \in Good PROVE m \in Good
  <2>1. m \in Nat /\ m # 0 /\ m - 1 \in Nat
    BY <1>1
  <2>2. ASSUME NEW D \in SUBSET K, Cardinality(D) = m PROVE \E p : Sorts(p, m, D)
    <3>1. IsFiniteSet(D)
      BY FS_Subset
    <3>2. PICK x : x \in D
      <4>1. D # {}
        BY <2>1, <2>2, FS_EmptySet
      <4>2. QED
        BY <4>1
    <3> DEFINE E == D \ {x}
    <3>3. Cardinality(E) = m - 1 /\ E \in SUBSET K
      BY <2>2, <3>1, <3>2, FS_RemoveElement
    <3>4. PICK p : Sorts(p, m - 1, E)
      <4> HIDE DEF E, Sorts
      <4>1. QED
        BY <1>3, <3>3
    <3>5. /\ \A i \in 1..(m-1) : p[i] \in D /\ p[i] # x /\ key[p[i]] \in Int
          /\ \A i, j \in 1..(m-1) : i # j => p[i] # p[j]
          /\ \A i \in 2..(m-1) : key[p[i-1]] <= key[p[i]]
          /\ key[x] \in Int
      BY <3>2, <3>4
    <3> DEFINE Places == {i \in 1..m : i = m \/ key[x] <= key[p[i]]}
    <3>6. PICK j \in Places : \A i \in Places : j <= i
      <4>1. m \in Places /\ Places \in SUBSET Nat
        BY <2>1
      <4> HIDE DEF Places
      <4>2. QED
        BY <4>1, LeastElement
    <3> DEFINE q == [i \in 1..m |-> IF i < j THEN p[i]
                                    ELSE IF i = j THEN x ELSE p[i-1]]
    <3>7. j \in 1..m /\ (j # m => key[x] <= key[p[j]])
      BY <3>6
    <3>8. \A i \in 1..m : i < j => ~(key[x] <= key[p[i]])
      BY <2>1, <3>6, <3>7
    <3> HIDE DEF Places, E, Sorts
    <3>9. \A i \in 1..m : /\ i < j => i \in 1..(m-1) /\ q[i] = p[i]
                          /\ i = j => q[i] = x
                          /\ i > j => i - 1 \in 1..(m-1) /\ q[i] = p[i-1]
      BY <2>1, <3>7
    <3>10. q \in [1..m -> D]
      <4>1. \A i \in 1..m : q[i] \in D
        BY <2>1, <3>2, <3>5, <3>7, <3>9
      <4>2. q = [i \in 1..m |-> q[i]]
        OBVIOUS
      <4> HIDE DEF q
      <4>3. QED
        BY <4>1, <4>2
    <3> HIDE DEF q
    <3>11. ASSUME NEW i \in 1..m, NEW k \in 1..m, i < k PROVE q[i] # q[k]
      <4>1. CASE k < j
        BY <2>1, <3>5, <3>7, <3>9, <3>11, <4>1
      <4>2. CASE k = j
        BY <2>1, <3>5, <3>7, <3>9, <3>11, <4>2
      <4>3. CASE k > j
        <5>1. k - 1 \in 1..(m-1) /\ q[k] = p[k-1]
          BY <3>9, <4>3
        <5>2. CASE i < j
          <6>1. i # k - 1 /\ q[i] = p[i] /\ i \in 1..(m-1)
            BY <2>1, <3>7, <3>9, <4>3, <5>2
          <6>2. QED
            BY <3>5, <5>1, <6>1
        <5>3. CASE i = j
          BY <3>5, <3>9, <5>1, <5>3
        <5>4. CASE i > j
          <6>1. i - 1 # k - 1 /\ q[i] = p[i-1] /\ i - 1 \in 1..(m-1)
            BY <2>1, <3>7, <3>9, <3>11, <5>4
          <6>2. QED
            BY <3>5, <5>1, <6>1
        <5>5. QED
          BY <2>1, <3>7, <5>2, <5>3, <5>4
      <4>4. QED
        BY <2>1, <3>7, <4>1, <4>2, <4>3
    <3>12. \A i, k \in 1..m : i # k => q[i] # q[k]
      <4>1. \A i, k \in 1..m : i # k => i < k \/ k < i
        BY <2>1
      <4>2. QED
        BY <3>11, <4>1
    <3>13. ASSUME NEW i \in 2..m PROVE key[q[i-1]] <= key[q[i]]
      <4>1. i \in 1..m /\ i - 1 \in 1..m
        BY <2>1
      <4>2. CASE i < j
        <5>1. i - 1 < j /\ i \in 2..(m-1)
          BY <2>1, <3>7, <4>2
        <5>2. q[i-1] = p[i-1] /\ q[i] = p[i]
          BY <3>9, <4>1, <4>2, <5>1
        <5>3. QED
          BY <3>5, <5>1, <5>2
      <4>3. CASE i = j
        <5>1. i - 1 < j
          BY <2>1, <3>7, <4>3
        <5>2. q[i-1] = p[i-1] /\ i - 1 \in 1..(m-1) /\ q[i] = x
          BY <3>9, <4>1, <4>3, <5>1
        <5>3. ~(key[x] <= key[p[i-1]])
          BY <3>8, <4>1, <5>1
        <5>4. QED
          BY <3>5, <5>2, <5>3
      <4>4. CASE i = j + 1
        <5>1. i - 1 = j /\ i > j /\ j # m
          BY <2>1, <3>7, <4>4
        <5>2. q[i-1] = x /\ q[i] = p[j]
          BY <3>9, <4>1, <5>1
        <5>3. QED
          BY <3>7, <5>1, <5>2
      <4>5. CASE i > j + 1
        <5> DEFINE h == i - 1
        <5>1. h > j /\ i > j /\ h \in 2..(m-1) /\ h \in 1..m
          BY <2>1, <3>7, <4>5
        <5>2. q[i] = p[h]
          BY <3>9, <4>1, <5>1
        <5> HIDE DEF h
        <5>3. q[h] = p[h-1]
          BY <3>9, <5>1
        <5>4. key[p[h-1]] <= key[p[h]]
          BY <3>5, <5>1
        <5>5. QED
          BY <5>2, <5>3, <5>4 DEF h
      <4>6. QED
        BY <2>1, <3>7, <4>2, <4>3, <4>4, <4>5
    <3>14. Sorts(q, m, D)
      BY <3>10, <3>12, <3>13 DEF Sorts
    <3>15. QED
      BY <3>14
  <2> HIDE DEF Sorts
  <2>3. QED
    BY <2>1, <2>2
<1>4. n \in Good
  <2> HIDE DEF Good
  <2>1. \A m \in 0..n : m \in Good
    BY <1>1, <1>2, <1>3, AllGood
  <2>2. QED
    BY <1>1, <2>1
<1>5. PICK p : Sorts(p, n, K)
  <2> HIDE DEF Sorts
  <2>1. QED
    BY <1>4
<1>6. p \in SetToSeqs(K)
  BY <1>5 DEF SetToSeqs
<1>7. QED
  BY <1>5, <1>6

\* There is such an order for every finite number of ranges, so that what is
\* said of every outcome of a sort is said of one.
THEOREM SortsEnd ==
  ASSUME NEW K, IsFiniteSet(K), NEW S, NEW is \in [K -> S],
         \A k \in K : is[k].start \in Int
  PROVE  Ascending(is) # {} /\ Descending(is) # {}
<1> DEFINE n == Cardinality(K)
           up == [k \in K |-> is[k].start]
           down == [k \in K |-> -is[k].start]
<1>1. n \in Nat /\ DOMAIN is = K
  BY FS_CardinalityType
<1>2. up \in [K -> Int] /\ down \in [K -> Int]
  OBVIOUS
<1>3. ASSUME NEW p \in SetToSeqs(K)
      PROVE  LET s == [i \in DOMAIN p |-> is[p[i]]]
             IN  /\ s \in Arrangements(is) /\ Len(s) = n
                 /\ \A i \in 1..n : s[i] = is[p[i]] /\ p[i] \in K
  <2>1. p \in [1..n -> K]
    BY DEF SetToSeqs
  <2>2. [i \in DOMAIN p |-> is[p[i]]] \in Arrangements(is)
    BY <1>1 DEF Arrangements
  <2> HIDE DEF n
  <2>3. Len([i \in DOMAIN p |-> is[p[i]]]) = n
    BY <1>1, <2>1
  <2>4. \A i \in 1..n : p[i] \in K /\ [j \in DOMAIN p |-> is[p[j]]][i] = is[p[i]]
    BY <2>1
  <2>5. QED
    BY <2>2, <2>3, <2>4
<1>4. Ascending(is) # {}
  <2>1. PICK p \in SetToSeqs(K) : \A i \in 2..n : up[p[i-1]] <= up[p[i]]
    BY <1>2, SortedOrder
  <2> DEFINE s == [i \in DOMAIN p |-> is[p[i]]]
  <2>2. /\ s \in Arrangements(is) /\ Len(s) = n
        /\ \A i \in 1..n : s[i] = is[p[i]] /\ p[i] \in K
    BY <1>3
  <2> HIDE DEF s, n
  <2>3. \A i \in 2..n : i \in 1..n /\ i - 1 \in 1..n
    BY <1>1
  <2>4. \A i \in 2..Len(s) : s[i-1].start <= s[i].start
    BY <2>1, <2>2, <2>3
  <2>5. QED
    BY <2>2, <2>4 DEF Ascending
<1>5. Descending(is) # {}
  <2>1. PICK p \in SetToSeqs(K) : \A i \in 2..n : down[p[i-1]] <= down[p[i]]
    BY <1>2, SortedOrder
  <2> DEFINE s == [i \in DOMAIN p |-> is[p[i]]]
  <2>2. /\ s \in Arrangements(is) /\ Len(s) = n
        /\ \A i \in 1..n : s[i] = is[p[i]] /\ p[i] \in K
    BY <1>3
  <2> HIDE DEF s, n
  <2>3. \A i \in 2..n : i \in 1..n /\ i - 1 \in 1..n
    BY <1>1
  <2>4. ASSUME NEW i \in 2..n PROVE s[i-1].start >= s[i].start
    <3>1. /\ p[i-1] \in K /\ p[i] \in K
          /\ s[i-1] = is[p[i-1]] /\ s[i] = is[p[i]]
      BY <2>2, <2>3
    <3>2. down[p[i-1]] = -is[p[i-1]].start /\ down[p[i]] = -is[p[i]].start
      BY <3>1
    <3>3. down[p[i-1]] <= down[p[i]]
      BY <2>1
    <3> HIDE DEF down
    <3>4. is[p[i-1]].start \in Int /\ is[p[i]].start \in Int
      BY <3>1
    <3>5. is[p[i-1]].start >= is[p[i]].start
      BY <3>2, <3>3, <3>4
    <3>6. QED
      BY <3>1, <3>5
  <2>5. QED
    BY <2>2, <2>4, <1>1 DEF Descending
<1>6. QED
  BY <1>4, <1>5

-----------------------------------------------------------------------------
(***************************************************************************)
(* The texts.  A loop over a sequence is a recursive function; that there  *)
(* is one is shown by extending it number by number.                       *)
(***************************************************************************)
\* The loop of CandidateText starts with the text and splices fix by fix.
LEMMA SplicingSteps ==
  ASSUME NEW text, NEW s, Len(s) \in Nat
  PROVE  /\ Splicing(text, s)[0] = text
         /\ \A i \in 1..Len(s) :
              Splicing(text, s)[i] = Splice(Splicing(text, s)[i-1], s[i])
<1> DEFINE n == Len(s)
           IsLoop(f, m) ==
             f = [i \in 0..m |-> IF i = 0 THEN text ELSE Splice(f[i-1], s[i])]
           Good == {m \in 0..n : \E f : IsLoop(f, m)}
<1>1. 0 \in Good
  <2> DEFINE f == [i \in 0..0 |-> text]
  <2>1. IsLoop(f, 0)
    <3>1. \A i \in 0..0 : i = 0
      OBVIOUS
    <3>2. QED
      BY <3>1
  <2> HIDE DEF IsLoop, f
  <2>2. QED
    BY <2>1
<1>2. ASSUME NEW m \in 1..n, m - 1 \in Good PROVE m \in Good
  <2>1. PICK f : IsLoop(f, m - 1)
    BY <1>2
  <2> DEFINE g == [i \in 0..m |-> IF i = m THEN Splice(f[m-1], s[m]) ELSE f[i]]
             h == [i \in 0..m |-> IF i = 0 THEN text ELSE Splice(g[i-1], s[i])]
  <2>2. m \in Nat /\ m # 0
    OBVIOUS
  <2>3. ASSUME NEW i \in 0..m PROVE g[i] = h[i]
    <3>1. CASE i = m
      BY <2>2, <3>1
    <3>2. CASE i # m
      <4>1. i \in 0..(m - 1) /\ (i # 0 => i - 1 \in 0..m /\ i - 1 # m)
        BY <2>2, <3>2
      <4>2. f[i] = IF i = 0 THEN text ELSE Splice(f[i-1], s[i])
        BY <2>1, <4>1
      <4>3. QED
        BY <3>2, <4>1, <4>2
    <3>3. QED
      BY <3>1, <3>2
  <2>4. g = h
    BY <2>3
  <2>5. IsLoop(g, m)
    BY <2>4
  <2> HIDE DEF IsLoop, g
  <2>6. QED
    BY <2>5
<1> HIDE DEF IsLoop
<1>3. \A m \in 0..n : m \in Good
  <2> HIDE DEF Good
  <2>1. QED
    BY <1>1, <1>2, AllGood
<1>4. \E f : IsLoop(f, n)
  BY <1>3
<1>5. IsLoop(Splicing(text, s), n)
  <2>1. Splicing(text, s) = CHOOSE f : IsLoop(f, n)
    BY DEF Splicing, IsLoop
  <2>2. QED
    BY <1>4, <2>1
<1>6. QED
  BY <1>5 DEF IsLoop

\* What pieces spell is put together piece by piece.
LEMMA SpelledSteps ==
  ASSUME NEW T, NEW pieces \in Seq(Seq(T))
  PROVE  \E F \in [0..Len(pieces) -> Seq(T)] :
           /\ F[0] = <<>>
           /\ \A i \in 1..Len(pieces) : F[i] = F[i-1] \o pieces[i]
           /\ Spelled(pieces) = F[Len(pieces)]
<1> DEFINE n == Len(pieces)
           IsFlat(f, m) ==
             f = [i \in 1..m |-> IF i = 1 THEN pieces[i] ELSE f[i-1] \o pieces[i]]
           Good == {m \in 0..n : \E f : IsFlat(f, m)}
<1>1. n \in Nat /\ \A i \in 1..n : pieces[i] \in Seq(T)
  OBVIOUS
<1>2. 0 \in Good
  <2> DEFINE f == [i \in 1..0 |-> pieces[i]]
  <2>1. IsFlat(f, 0)
    <3>1. 1..0 = {}
      OBVIOUS
    <3>2. QED
      BY <3>1
  <2> HIDE DEF IsFlat, f
  <2>2. QED
    BY <1>1, <2>1
<1>3. ASSUME NEW m \in 1..n, m - 1 \in Good PROVE m \in Good
  <2>1. PICK f : IsFlat(f, m - 1)
    BY <1>3
  <2> DEFINE g == [i \in 1..m |-> IF i = m
                                    THEN IF m = 1 THEN pieces[m]
                                                  ELSE f[m-1] \o pieces[m]
                                    ELSE f[i]]
             h == [i \in 1..m |-> IF i = 1 THEN pieces[i] ELSE g[i-1] \o pieces[i]]
  <2>2. m \in Nat /\ m # 0
    BY <1>1
  <2>3. ASSUME NEW i \in 1..m PROVE g[i] = h[i]
    <3>1. CASE i = m
      <4>1. m # 1 => m - 1 \in 1..m /\ m - 1 # m
        BY <2>2
      <4>2. QED
        BY <2>2, <3>1, <4>1
    <3>2. CASE i # m
      <4>1. i \in 1..(m - 1) /\ (i # 1 => i - 1 \in 1..m /\ i - 1 # m)
        BY <2>2, <3>2
      <4>2. f[i] = IF i = 1 THEN pieces[i] ELSE f[i-1] \o pieces[i]
        BY <2>1, <4>1
      <4>3. QED
        BY <3>2, <4>1, <4>2
    <3>3. QED
      BY <3>1, <3>2
  <2>4. g = h
    BY <2>3
  <2>5. IsFlat(g, m)
    BY <2>4
  <2> HIDE DEF IsFlat, g
  <2>6. QED
    BY <2>5
<1> HIDE DEF IsFlat
<1>4. \A m \in 0..n : m \in Good
  <2> HIDE DEF Good
  <2>1. QED
    BY <1>1, <1>2, <1>3, AllGood
<1>5. \E f : IsFlat(f, n)
  BY <1>1, <1>4
<1> DEFINE flat == CHOOSE f : IsFlat(f, n)
           F == [i \in 0..n |-> IF i = 0 THEN <<>> ELSE flat[i]]
<1>6. flat = [i \in 1..n |-> IF i = 1 THEN pieces[i] ELSE flat[i-1] \o pieces[i]]
  <2>1. IsFlat(flat, n)
    BY <1>5
  <2>2. QED
    BY <2>1 DEF IsFlat
<1>7. Spelled(pieces) = F[n]
  <2>1. CASE n = 0
    <3>1. pieces = <<>>
      BY <2>1
    <3>2. QED
      BY <2>1, <3>1 DEF Spelled, FlattenSeq
  <2>2. CASE n # 0
    <3>1. Spelled(pieces) = flat[n]
      BY <2>2 DEF Spelled, FlattenSeq, IsFlat
    <3>2. QED
      BY <1>1, <2>2, <3>1
  <2>3. QED
    BY <2>1, <2>2
<1> HIDE DEF flat
<1>8. ASSUME NEW i \in 1..n, F[i-1] \in Seq(T)
      PROVE  F[i] = F[i-1] \o pieces[i] /\ F[i] \in Seq(T)
  <2>1. F[i] = flat[i] /\ i - 1 \in 0..n
    BY <1>1
  <2>2. F[i] = F[i-1] \o pieces[i]
    <3>1. CASE i = 1
      <4>1. flat[1] = pieces[1] /\ F[1-1] = <<>>
        BY <1>1, <1>6, <3>1
      <4>2. pieces[1] \in Seq(T)
        BY <1>1, <3>1
      <4>3. QED
        BY <2>1, <3>1, <4>1, <4>2, ConcatEmptySeq
    <3>2. CASE i # 1
      <4>1. F[i-1] = flat[i-1]
        BY <1>1, <3>2
      <4>2. QED
        BY <1>6, <2>1, <3>2, <4>1
    <3>3. QED
      BY <3>1, <3>2
  <2>3. pieces[i] \in Seq(T)
    BY <1>1
  <2> HIDE DEF F
  <2>4. F[i-1] \o pieces[i] \in Seq(T)
    BY <1>8, <2>3, ConcatProperties
  <2>5. QED
    BY <2>2, <2>4
<1>9. \A i \in 0..n : F[i] \in Seq(T)
  <2> DEFINE Typed == {i \in 0..n : F[i] \in Seq(T)}
  <2>1. 0 \in Typed
    BY <1>1
  <2> HIDE DEF F
  <2>2. ASSUME NEW i \in 1..n, i - 1 \in Typed PROVE i \in Typed
    <3>1. F[i-1] \in Seq(T)
      BY <2>2
    <3>2. F[i] \in Seq(T)
      BY <1>8, <3>1
    <3>3. i \in 0..n
      BY <1>1
    <3>4. QED
      BY <3>2, <3>3
  <2> HIDE DEF Typed
  <2>3. \A i \in 0..n : i \in Typed
    BY <1>1, <2>1, <2>2, AllGood
  <2>4. QED
    BY <2>3 DEF Typed
<1>10. F[0] = <<>>
  BY <1>1
<1>11. \A i \in 1..n : F[i] = F[i-1] \o pieces[i]
  <2>1. \A i \in 1..n : i - 1 \in 0..n
    BY <1>1
  <2> HIDE DEF F
  <2>2. QED
    BY <1>8, <1>9, <2>1
<1>12. F \in [0..n -> Seq(T)]
  BY <1>9
<1> HIDE DEF F
<1>13. QED
  BY <1>7, <1>10, <1>11, <1>12

LEMMA SubSeqFacts ==
  ASSUME NEW T, NEW s \in Seq(T), NEW a \in Nat, NEW b \in Nat, a <= b, b <= Len(s)
  PROVE  /\ SubSeq(s, a + 1, b) \in Seq(T)
         /\ Len(SubSeq(s, a + 1, b)) = b - a
         /\ \A i \in 1..(b - a) : SubSeq(s, a + 1, b)[i] = s[a + i]
  OBVIOUS

LEMMA ConcatFacts ==
  ASSUME NEW T, NEW s \in Seq(T), NEW t \in Seq(T)
  PROVE  /\ s \o t \in Seq(T)
         /\ Len(s \o t) = Len(s) + Len(t)
         /\ \A i \in 1..Len(s) : (s \o t)[i] = s[i]
         /\ \A i \in 1..Len(t) : (s \o t)[Len(s) + i] = t[i]
OBVIOUS

\* F[i] is what the first i of the n pieces spell.
Accumulates(F, pieces, n, T) ==
  /\ F \in [0..n -> Seq(T)]
  /\ \A i \in 1..n : F[i] = F[i-1] \o pieces[i]

\* A run of pieces that are gone spells nothing, and a run of pieces that are
\* left alone spells the text they were.
RunSpells(F, P, text, a, b) ==
  /\ (\A i \in (a+1)..b : P[i] = <<>>) => F[b] = F[a]
  /\ (\A i \in (a+1)..b : P[i] = <<text[i]>>) =>
       F[b] = F[a] \o SubSeq(text, a + 1, b)

LEMMA RunsSpell ==
  ASSUME NEW T, NEW text \in Seq(T), NEW n \in Nat, n = Len(text),
         NEW P, NEW F, Accumulates(F, P, n, T),
         NEW a \in 0..n, NEW b \in a..n
  PROVE  RunSpells(F, P, text, a, b)
<1>0. F \in [0..n -> Seq(T)] /\ \A i \in 1..n : F[i] = F[i-1] \o P[i]
  BY DEF Accumulates
<1> USE <1>0
<1>1. ASSUME \A i \in (a+1)..b : P[i] = <<>> PROVE F[b] = F[a]
  <2> DEFINE Good == {d \in Nat : a + d <= b => F[a + d] = F[a]}
  <2>1. 0 \in Good
    OBVIOUS
  <2>2. ASSUME NEW d \in 1..n, d - 1 \in Good PROVE d \in Good
    <3>1. SUFFICES ASSUME a + d <= b PROVE F[a + d] = F[a]
      OBVIOUS
    <3>2. /\ a + (d - 1) <= b /\ a + (d - 1) = (a + d) - 1
          /\ a + d \in (a+1)..b /\ a + d \in 1..n /\ (a + d) - 1 \in 0..n
      BY <3>1
    <3>3. F[(a + d) - 1] = F[a]
      BY <2>2, <3>2
    <3>4. F[a + d] = F[(a + d) - 1] \o <<>>
      BY <1>1, <3>2
    <3>5. F[a] \in Seq(T)
      OBVIOUS
    <3>6. QED
      BY <3>3, <3>4, <3>5, ConcatEmptySeq
  <2> HIDE DEF Good
  <2>3. \A d \in 0..n : d \in Good
    BY <2>1, <2>2, AllGood
  <2>4. b - a \in 0..n /\ a + (b - a) = b /\ b <= b
    OBVIOUS
  <2>5. b - a \in Good
    BY <2>3, <2>4
  <2>6. QED
    BY <2>4, <2>5 DEF Good
<1>2. ASSUME \A i \in (a+1)..b : P[i] = <<text[i]>>
      PROVE  F[b] = F[a] \o SubSeq(text, a + 1, b)
  <2> DEFINE Spells(d) == F[a + d] = F[a] \o SubSeq(text, a + 1, a + d)
             Good == {d \in Nat : a + d <= b => Spells(d)}
  <2>1. 0 \in Good
    <3>1. SubSeq(text, a + 1, a + 0) = <<>>
      BY SubSeqEmpty
    <3>2. F[a] \in Seq(T) /\ a + 0 = a
      OBVIOUS
    <3>3. F[a] \o <<>> = F[a]
      BY <3>2, ConcatEmptySeq
    <3>4. QED
      BY <3>1, <3>2, <3>3
  <2>2. ASSUME NEW d \in 1..n, d - 1 \in Good, a + d <= b PROVE Spells(d)
    <3> DEFINE e == a + d
               before == SubSeq(text, a + 1, e - 1)
               last == <<text[e]>>
               start == F[a]
    <3>1. /\ a + (d - 1) <= b /\ a + (d - 1) = e - 1
          /\ e \in (a+1)..b /\ e \in 1..n /\ e - 1 \in 0..n
          /\ a + 1 \in 1..n /\ e \in (a + 1)..n
      BY <2>2
    <3>2. F[e - 1] = start \o before
      BY <2>2, <3>1
    <3>3. F[e] = F[e - 1] \o last
      BY <1>2, <3>1
    <3>4. before \o last = SubSeq(text, a + 1, e)
      <4>1. a + 1 \in 1..Len(text) /\ e \in (a + 1)..Len(text)
        BY <3>1
      <4> HIDE DEF e
      <4>2. QED
        BY <4>1, SubSeqRecursiveSecond
    <3>5. start \in Seq(T) /\ before \in Seq(T) /\ last \in Seq(T)
      <4>1. a <= e - 1 /\ e - 1 <= Len(text) /\ e - 1 \in Nat
        BY <3>1
      <4>2. text[e] \in T
        BY <3>1
      <4> HIDE DEF e
      <4>3. before \in Seq(T)
        BY <4>1, SubSeqFacts
      <4>4. last \in Seq(T)
        BY <4>2
      <4>5. start \in Seq(T)
        OBVIOUS
      <4>6. QED
        BY <4>3, <4>4, <4>5
    <3> HIDE DEF before, last, start
    <3>6. (start \o before) \o last = start \o (before \o last)
      BY ONLY <3>5, ConcatAssociative
    <3>7. F[e] = start \o SubSeq(text, a + 1, e)
      BY <3>2, <3>3, <3>4, <3>6
    <3>8. QED
      BY <3>7 DEF start
  <2> HIDE DEF Spells
  <2>3. \A d \in 1..n : d - 1 \in Good => d \in Good
    BY <2>2
  <2> HIDE DEF Good
  <2>4. \A d \in 0..n : d \in Good
    BY <2>1, <2>3, AllGood
  <2>5. b - a \in 0..n /\ a + (b - a) = b /\ b <= b
    OBVIOUS
  <2>6. Spells(b - a)
    BY <2>4, <2>5 DEF Good
  <2>7. QED
    BY <2>5, <2>6 DEF Spells
<1>3. QED
  BY <1>1, <1>2 DEF RunSpells

\* One splice, into a text whose first q tokens are still the original ones.
StillFrom(text, q, rest) == SubSeq(text, 1, q) \o rest
SplicedRest(text, f, q, rest) == f.repl \o (SubSeq(text, f.end + 1, q) \o rest)

LEMMA SpliceStep ==
  ASSUME NEW T, NEW text \in Seq(T), NEW q \in 0..Len(text), NEW rest \in Seq(T),
         NEW f, f.start \in Nat, f.end \in Nat, f.start < f.end, f.end <= q,
         f.repl \in Seq(T)
  PROVE  /\ RangeIn(f, Len(StillFrom(text, q, rest)))
         /\ SplicedRest(text, f, q, rest) \in Seq(T)
         /\ Splice(StillFrom(text, q, rest), f) =
              StillFrom(text, f.start, SplicedRest(text, f, q, rest))
<1> DEFINE front == SubSeq(text, 1, q)
           mid == SubSeq(text, f.end + 1, q)
           now == front \o rest
           back == SubSeq(now, f.end + 1, Len(now))
           done == f.repl \o (mid \o rest)
           a == f.start
           e == f.end
           m == Len(rest)
<1>1. Len(text) \in Nat /\ q \in Nat /\ m \in Nat /\ a \in Nat /\ e \in Nat
      /\ q <= Len(text) /\ e <= q /\ a < e
  OBVIOUS
<1>2. front \in Seq(T) /\ Len(front) = q /\ \A i \in 1..q : front[i] = text[i]
  <2>1. SubSeq(text, 0 + 1, q) = front
    OBVIOUS
  <2>2. /\ SubSeq(text, 0 + 1, q) \in Seq(T)
        /\ Len(SubSeq(text, 0 + 1, q)) = q - 0
        /\ \A i \in 1..(q - 0) : SubSeq(text, 0 + 1, q)[i] = text[0 + i]
    BY <1>1, SubSeqFacts
  <2>3. QED
    BY <1>1, <2>1, <2>2
<1>3. mid \in Seq(T) /\ Len(mid) = q - e /\ \A i \in 1..(q - e) : mid[i] = text[e + i]
  BY <1>1, SubSeqFacts
<1> HIDE DEF front, mid, m, a, e
<1>4. /\ now \in Seq(T) /\ Len(now) = q + m
      /\ \A i \in 1..q : now[i] = text[i]
      /\ \A i \in 1..m : now[q + i] = rest[i]
  <2>1. front \in Seq(T) /\ rest \in Seq(T)
    BY <1>2
  <2>2. /\ now \in Seq(T) /\ Len(now) = Len(front) + Len(rest)
        /\ \A i \in 1..Len(front) : now[i] = front[i]
        /\ \A i \in 1..Len(rest) : now[Len(front) + i] = rest[i]
    BY ONLY <2>1, ConcatFacts
  <2>3. Len(front) = q /\ Len(rest) = m
    BY <1>2 DEF m
  <2> HIDE DEF now
  <2>4. QED
    BY <1>2, <2>2, <2>3
<1>5. /\ mid \o rest \in Seq(T) /\ Len(mid \o rest) = (q - e) + m
      /\ \A i \in 1..(q - e) : (mid \o rest)[i] = text[e + i]
      /\ \A i \in 1..m : (mid \o rest)[(q - e) + i] = rest[i]
  <2> DEFINE tail == mid \o rest
  <2>1. mid \in Seq(T) /\ rest \in Seq(T)
    BY <1>3
  <2>2. /\ tail \in Seq(T) /\ Len(tail) = Len(mid) + Len(rest)
        /\ \A i \in 1..Len(mid) : tail[i] = mid[i]
        /\ \A i \in 1..Len(rest) : tail[Len(mid) + i] = rest[i]
    BY ONLY <2>1, ConcatFacts
  <2>3. Len(mid) = q - e /\ Len(rest) = m
    BY <1>3 DEF m
  <2> HIDE DEF tail
  <2>4. /\ tail \in Seq(T) /\ Len(tail) = (q - e) + m
        /\ \A i \in 1..(q - e) : tail[i] = text[e + i]
        /\ \A i \in 1..m : tail[(q - e) + i] = rest[i]
    BY <1>3, <2>2, <2>3
  <2>5. QED
    BY <2>4 DEF tail
<1> HIDE DEF now
<1>6. SubSeq(now, 1, a) = SubSeq(text, 1, a) /\ SubSeq(text, 1, a) \in Seq(T)
  <2>1. ASSUME NEW s \in Seq(T), a <= Len(s)
        PROVE  /\ SubSeq(s, 1, a) \in Seq(T) /\ Len(SubSeq(s, 1, a)) = a
               /\ \A i \in 1..a : SubSeq(s, 1, a)[i] = s[i]
    <3>1. /\ SubSeq(s, 0 + 1, a) \in Seq(T)
          /\ Len(SubSeq(s, 0 + 1, a)) = a - 0
          /\ \A i \in 1..(a - 0) : SubSeq(s, 0 + 1, a)[i] = s[0 + i]
      BY <1>1, <2>1, SubSeqFacts
    <3>2. QED
      BY <1>1, <3>1
  <2>2. a <= Len(now) /\ a <= Len(text) /\ \A i \in 1..a : i \in 1..q
    BY <1>1, <1>4
  <2>3. \A i \in 1..a : now[i] = text[i]
    BY <1>4, <2>2
  <2>4. /\ SubSeq(now, 1, a) \in Seq(T) /\ Len(SubSeq(now, 1, a)) = a
        /\ \A i \in 1..a : SubSeq(now, 1, a)[i] = text[i]
    BY <1>4, <2>1, <2>2, <2>3
  <2>5. /\ SubSeq(text, 1, a) \in Seq(T) /\ Len(SubSeq(text, 1, a)) = a
        /\ \A i \in 1..a : SubSeq(text, 1, a)[i] = text[i]
    BY <2>1, <2>2
  <2>6. QED
    BY <2>4, <2>5, SeqEqual
<1>7. back = mid \o rest
  <2>1. e <= Len(now) /\ Len(now) \in Nat /\ Len(now) - e = (q - e) + m
    BY <1>1, <1>4
  <2>2. /\ SubSeq(now, e + 1, Len(now)) \in Seq(T)
        /\ Len(SubSeq(now, e + 1, Len(now))) = Len(now) - e
        /\ \A i \in 1..(Len(now) - e) :
             SubSeq(now, e + 1, Len(now))[i] = now[e + i]
    BY <1>1, <1>4, <2>1, SubSeqFacts
  <2>3. /\ back \in Seq(T) /\ Len(back) = (q - e) + m
        /\ \A i \in 1..((q - e) + m) : back[i] = now[e + i]
    BY <2>1, <2>2 DEF e
  <2> HIDE DEF back
  <2>4. ASSUME NEW i \in 1..((q - e) + m) PROVE back[i] = (mid \o rest)[i]
    <3>1. CASE i <= q - e
      <4>1. e + i \in 1..q /\ i \in 1..(q - e)
        BY <1>1, <3>1
      <4>2. QED
        BY <1>4, <1>5, <2>3, <4>1
    <3>2. CASE ~(i <= q - e)
      <4> DEFINE k == i - (q - e)
      <4>1. k \in 1..m /\ e + i = q + k /\ i = (q - e) + k
        BY <1>1, <3>2
      <4> HIDE DEF k
      <4>2. now[e + i] = rest[k]
        BY <1>4, <4>1
      <4>3. (mid \o rest)[i] = rest[k]
        BY <1>5, <4>1
      <4>4. QED
        BY <2>3, <4>2, <4>3
    <3>3. QED
      BY <3>1, <3>2
  <2>5. QED
    BY <1>5, <2>3, <2>4, SeqEqual
<1>8. RangeIn(f, Len(now))
  BY <1>1, <1>4 DEF RangeIn, a, e
<1>9. done \in Seq(T)
  <2> DEFINE tail == mid \o rest
  <2>1. tail \in Seq(T)
    BY <1>5
  <2> HIDE DEF tail
  <2>2. f.repl \o tail \in Seq(T)
    BY <2>1, ConcatProperties
  <2>3. QED
    BY <2>2 DEF tail
<1>10. Splice(now, f) = (SubSeq(text, 1, a) \o f.repl) \o (mid \o rest)
  BY <1>6, <1>7 DEF Splice, a
<1>11. Splice(now, f) = SubSeq(text, 1, a) \o done
  <2> DEFINE head == SubSeq(text, 1, a)
             tail == mid \o rest
             repl == f.repl
  <2>1. head \in Seq(T) /\ repl \in Seq(T) /\ tail \in Seq(T)
    BY <1>5, <1>6
  <2>2. Splice(now, f) = (head \o repl) \o tail
    BY <1>10
  <2>3. done = repl \o tail
    OBVIOUS
  <2> HIDE DEF head, tail, repl, done
  <2>4. (head \o repl) \o tail = head \o (repl \o tail)
    BY ONLY <2>1, ConcatAssociative
  <2>5. QED
    BY <2>2, <2>3, <2>4 DEF head
<1> HIDE DEF done
<1>12. QED
  BY <1>8, <1>9, <1>11
     DEF done, mid, now, front, a, StillFrom, SplicedRest

\* What becomes of a token whose place is in a fix, or in none.
LEMMA PieceAt ==
  ASSUME NEW T, NEW text \in Seq(T), NEW fixes,
         \A f \in fixes : /\ f.start \in Int /\ f.end \in Int /\ f.repl \in Seq(T)
                          /\ RangeIn(f, Len(text)),
         \A f, g \in fixes : f # g => ~Overlap(f, g)
  PROVE  LET pieces == Pieces(text, fixes)
         IN  /\ pieces \in Seq(Seq(T)) /\ Len(pieces) = Len(text)
             /\ \A f \in fixes : /\ pieces[f.start + 1] = f.repl
                                 /\ \A i \in (f.start + 2)..f.end : pieces[i] = <<>>
             /\ \A i \in 1..Len(text) :
                  (\A f \in fixes : ~(f.start < i /\ i <= f.end)) =>
                     pieces[i] = <<text[i]>>
<1> DEFINE n == Len(text)
           pieces == Pieces(text, fixes)
           At(i) == CHOOSE f \in fixes : f.start = i - 1
<1>1. n \in Nat
  OBVIOUS
<1>2. \A f \in fixes : /\ f.start \in Nat /\ f.end \in Nat /\ f.start < f.end
                       /\ f.end <= n /\ f.repl \in Seq(T)
  BY <1>1 DEF RangeIn
<1>3. \A f, g \in fixes : f # g => ~(f.start < g.end /\ g.start < f.end)
  BY DEF Overlap
<1>4. ASSUME NEW i \in 1..n, NEW f \in fixes, f.start = i - 1
      PROVE  At(i) \in fixes /\ At(i).start = i - 1
  BY <1>4
<1> HIDE DEF At
<1>5. /\ DOMAIN pieces = 1..n
      /\ \A i \in 1..n :
           pieces[i] = IF \E f \in fixes : f.start = i - 1 THEN At(i).repl
                       ELSE IF \E f \in fixes : f.start < i - 1 /\ i - 1 < f.end
                              THEN <<>>
                       ELSE <<text[i]>>
  BY DEF Pieces, At
<1>6. pieces = [i \in 1..n |-> pieces[i]]
  BY DEF Pieces
<1> HIDE DEF pieces
<1>7. ASSUME NEW i \in 1..n PROVE pieces[i] \in Seq(T)
  <2>1. CASE \E f \in fixes : f.start = i - 1
    BY <1>2, <1>4, <1>5, <2>1
  <2>2. CASE ~(\E f \in fixes : f.start = i - 1)
    <3>1. <<>> \in Seq(T) /\ <<text[i]>> \in Seq(T)
      OBVIOUS
    <3>2. QED
      BY <1>5, <2>2, <3>1
  <2>3. QED
    BY <2>1, <2>2
<1>8. pieces \in Seq(Seq(T)) /\ Len(pieces) = n
  <2>1. pieces \in [1..n -> Seq(T)]
    BY <1>6, <1>7
  <2>2. QED
    BY <1>1, <2>1
<1>9. ASSUME NEW f \in fixes PROVE pieces[f.start + 1] = f.repl
  <2> DEFINE i == f.start + 1
  <2>1. i \in 1..n /\ f.start = i - 1
    BY <1>1, <1>2
  <2>2. At(i) \in fixes /\ At(i).start = i - 1
    BY <1>4, <2>1
  <2>3. At(i) = f
    BY <1>2, <1>3, <2>1, <2>2
  <2> HIDE DEF i
  <2>4. pieces[i] = At(i).repl
    BY <1>5, <2>1
  <2>5. QED
    BY <2>3, <2>4 DEF i
<1>10. ASSUME NEW f \in fixes, NEW i \in (f.start + 2)..f.end
       PROVE  pieces[i] = <<>>
  <2>1. i \in 1..n /\ f.start < i - 1 /\ i - 1 < f.end
    BY <1>1, <1>2
  <2>2. \A g \in fixes : g.start # i - 1
    BY <1>2, <1>3, <2>1
  <2>3. QED
    BY <1>5, <2>1, <2>2
<1>11. ASSUME NEW i \in 1..n, \A f \in fixes : ~(f.start < i /\ i <= f.end)
       PROVE  pieces[i] = <<text[i]>>
  <2>1. \A f \in fixes : f.start # i - 1
    BY <1>2, <1>11
  <2>2. \A f \in fixes : ~(f.start < i - 1 /\ i - 1 < f.end)
    BY <1>2, <1>11
  <2>3. QED
    BY <1>5, <2>1, <2>2
<1>12. QED
  BY <1>8, <1>9, <1>10, <1>11 DEF pieces

\* A family of fixes of a text, and that no two of them mask a common token.
AreFixes(is, text, T) ==
  \A k \in DOMAIN is : /\ is[k].start \in Int /\ is[k].end \in Int
                       /\ is[k].repl \in Seq(T) /\ RangeIn(is[k], Len(text))
Apart(is) == \A k, l \in DOMAIN is : k # l => ~Overlap(is[k], is[l])

\* The fixes in descending order: each lies before those spliced in earlier.
LEMMA DescendingFixes ==
  ASSUME NEW K, IsFiniteSet(K), NEW S, NEW is \in [K -> S], IsRanges(is),
         \A k, l \in K : k # l => ~Overlap(is[k], is[l]),
         NEW s \in Descending(is)
  PROVE  /\ Len(s) \in Nat /\ DOMAIN s = 1..Len(s)
         /\ \A i \in 1..Len(s) : \E k \in K : s[i] = is[k]
         /\ \A k \in K : \E i \in 1..Len(s) : s[i] = is[k]
         /\ \A i \in 1..Len(s) : \A j \in i..Len(s) : s[j].start <= s[i].start
         /\ \A i \in 1..Len(s) : \A j \in (i+1)..Len(s) : s[j].end <= s[i].start
<1>1. s \in Arrangements(is) /\ \A i \in 2..Len(s) : s[i-1].start >= s[i].start
  BY DEF Descending
<1>2. s \in Seq(S) /\ \E p : Lists(s, is, p)
  BY <1>1, ArrangementProperties
<1> DEFINE m == Len(s)
<1>3. m \in Nat /\ DOMAIN s = 1..m
  BY <1>2
<1>4. PICK p : /\ p \in [1..m -> K]
               /\ \A i \in 1..m : s[i] = is[p[i]]
               /\ \A i, j \in 1..m : i # j => p[i] # p[j]
               /\ \A k \in K : \E i \in 1..m : p[i] = k
  <2>1. PICK p : Lists(s, is, p)
    BY <1>2
  <2>2. DOMAIN is = K
    OBVIOUS
  <2>3. /\ p \in [DOMAIN s -> DOMAIN is]
        /\ \A i \in DOMAIN s : s[i] = is[p[i]]
        /\ \A i, j \in DOMAIN s : i # j => p[i] # p[j]
        /\ \A k \in DOMAIN is : \E i \in DOMAIN s : p[i] = k
    BY <2>1 DEF Lists
  <2> HIDE DEF m
  <2>4. QED
    BY <1>3, <2>2, <2>3
<1>5. \A i \in 1..m : /\ s[i].start \in Int /\ s[i].end \in Int
                      /\ s[i].start < s[i].end
  BY <1>4 DEF IsRanges
<1>6. \A i, j \in 1..m : i # j => ~Overlap(s[i], s[j])
  BY <1>4
<1>7. \A i \in 2..m : s[i-1].start >= s[i].start
  BY <1>1
<1> HIDE DEF m
<1>8. ASSUME NEW i \in 1..m, NEW j \in i..m PROVE s[j].start <= s[i].start
  <2> DEFINE a == [k \in 1..m |-> -s[k].start]
  <2>1. a \in [1..m -> Int]
    BY <1>5
  <2>2. ASSUME NEW k \in 2..m PROVE a[k-1] <= a[k]
    <3>1. k \in 1..m /\ k - 1 \in 1..m
      BY <1>3
    <3>2. QED
      BY <1>5, <1>7, <3>1
  <2>3. i \in 1..m /\ j \in 1..m
    BY <1>3
  <2> HIDE DEF a
  <2>4. a[i] <= a[j]
    BY <1>3, <2>1, <2>2, NeighboursOrder
  <2>5. QED
    BY <1>5, <2>3, <2>4 DEF a
<1>9. ASSUME NEW i \in 1..m, NEW j \in (i+1)..m PROVE s[j].end <= s[i].start
  <2>1. j \in 1..m /\ j \in i..m /\ i # j
    BY <1>3
  <2>2. s[j].start <= s[i].start
    BY <1>8, <2>1
  <2>3. ~(s[j].start < s[i].end /\ s[i].start < s[j].end)
    BY <1>6, <2>1 DEF Overlap
  <2>4. QED
    BY <1>5, <2>1, <2>2, <2>3
<1>10. \A i \in 1..m : \E k \in K : s[i] = is[k]
  BY <1>4
<1>11. \A k \in K : \E i \in 1..m : s[i] = is[k]
  BY <1>4
<1>12. QED
  BY <1>3, <1>8, <1>9, <1>10, <1>11 DEF m

\* The loop of CandidateText is right: for any text, and any fixes inside it
\* of which no two overlap, spliced in from the last to the first, the code
\* refuses none of them (each still lies inside the text as it then stands) and
\* ends in the text in which every masked range is replaced where it lies in
\* the original.  The invariant of the loop: up to the start q of the last fix
\* spliced in the text is still the original one, and what follows q is what
\* the pieces after q spell.
THEOREM LoopSpellsPieces ==
  ASSUME NEW T, NEW text \in Seq(T),
         NEW K, IsFiniteSet(K), NEW S, NEW is \in [K -> S],
         AreFixes(is, text, T), Apart(is),
         NEW s \in Descending(is)
  PROVE  /\ \A i \in DOMAIN s : RangeIn(s[i], Len(Splicing(text, s)[i-1]))
         /\ Splicing(text, s)[Len(s)] = Spelled(Pieces(text, Range(is)))
<1> DEFINE n == Len(text)
           m == Len(s)
           fixes == Range(is)
           P == Pieces(text, fixes)
           after == Splicing(text, s)
           q(i) == IF i = 0 THEN n ELSE s[i].start
<1>1. n \in Nat
  OBVIOUS
<1>2. \A k \in K : /\ is[k].start \in Nat /\ is[k].end \in Nat
                   /\ is[k].start < is[k].end /\ is[k].end <= n
                   /\ is[k].repl \in Seq(T) /\ is[k] \in fixes
  BY <1>1 DEF AreFixes, RangeIn, Range
<1>3. /\ IsRanges(is)
      /\ \A k, l \in K : k # l => ~Overlap(is[k], is[l])
  BY <1>2 DEF IsRanges, Apart
<1>4. /\ m \in Nat /\ DOMAIN s = 1..m
      /\ \A i \in 1..m : \E k \in K : s[i] = is[k]
      /\ \A k \in K : \E i \in 1..m : s[i] = is[k]
      /\ \A i \in 1..m : \A j \in i..m : s[j].start <= s[i].start
      /\ \A i \in 1..m : \A j \in (i+1)..m : s[j].end <= s[i].start
  BY <1>3, DescendingFixes
<1>5. \A i \in 1..m : /\ s[i].start \in Nat /\ s[i].end \in Nat
                      /\ s[i].start < s[i].end /\ s[i].end <= n
                      /\ s[i].repl \in Seq(T) /\ s[i] \in fixes
  BY <1>2, <1>4
<1>6. \A f \in fixes : \E i \in 1..m : f = s[i]
  BY <1>4 DEF Range
<1>7. /\ P \in Seq(Seq(T)) /\ Len(P) = n
      /\ \A f \in fixes : /\ P[f.start + 1] = f.repl
                          /\ \A i \in (f.start + 2)..f.end : P[i] = <<>>
      /\ \A i \in 1..n :
           (\A f \in fixes : ~(f.start < i /\ i <= f.end)) => P[i] = <<text[i]>>
  <2>1. \A f \in fixes : /\ f.start \in Int /\ f.end \in Int /\ f.repl \in Seq(T)
                         /\ RangeIn(f, Len(text))
    BY DEF AreFixes, Range
  <2>2. \A f, g \in fixes : f # g => ~Overlap(f, g)
    BY DEF Apart, Range
  <2> HIDE DEF fixes
  <2>3. QED
    BY <2>1, <2>2, PieceAt
<1>8. /\ after[0] = text
      /\ \A i \in 1..m : after[i] = Splice(after[i-1], s[i])
  <2>1. Len(s) \in Nat
    BY <1>4
  <2>2. /\ Splicing(text, s)[0] = text
        /\ \A i \in 1..Len(s) :
             Splicing(text, s)[i] = Splice(Splicing(text, s)[i-1], s[i])
    BY ONLY <2>1, SplicingSteps
  <2>3. QED
    BY <2>2
<1> HIDE DEF m, fixes, P, after
<1>9. PICK F \in [0..n -> Seq(T)] :
        /\ F[0] = <<>>
        /\ \A i \in 1..n : F[i] = F[i-1] \o P[i]
        /\ Spelled(P) = F[n]
  <2>1. P \in Seq(Seq(T))
    BY <1>7
  <2>2. \E F \in [0..Len(P) -> Seq(T)] :
          /\ F[0] = <<>>
          /\ \A i \in 1..Len(P) : F[i] = F[i-1] \o P[i]
          /\ Spelled(P) = F[Len(P)]
    BY ONLY <2>1, SpelledSteps
  <2> HIDE DEF n
  <2>3. QED
    BY <1>7, <2>2
<1>10. ASSUME NEW a \in 0..n, NEW b \in a..n PROVE RunSpells(F, P, text, a, b)
  <2>1. Accumulates(F, P, n, T)
    BY <1>9 DEF Accumulates
  <2>2. n \in Nat /\ n = Len(text)
    BY <1>1
  <2> HIDE DEF n
  <2>3. QED
    BY <2>1, <2>2, RunsSpell
<1>11. \A i \in 0..m : q(i) \in 0..n
  BY <1>1, <1>4, <1>5
<1>12. ASSUME NEW i \in 1..m
       PROVE  /\ s[i].end <= q(i-1) /\ q(i-1) \in 0..n /\ q(i) = s[i].start
              /\ \A x \in (s[i].end + 1)..q(i-1) : P[x] = <<text[x]>>
  <2>1. i - 1 \in 0..m /\ i # 0 /\ (i - 1 # 0 => i - 1 \in 1..m /\ i \in ((i - 1) + 1)..m)
    BY <1>4
  <2>2. s[i].end <= q(i-1)
    BY <1>4, <1>5, <2>1
  <2>3. q(i-1) \in 0..n
    BY <1>11, <2>1
  <2>4. ASSUME NEW x \in (s[i].end + 1)..q(i-1) PROVE P[x] = <<text[x]>>
    <3>1. x \in 1..n /\ s[i].end < x /\ x <= q(i-1)
      BY <1>5, <2>3
    <3>2. ASSUME NEW j \in 1..m PROVE ~(s[j].start < x /\ x <= s[j].end)
      <4>1. CASE j < i
        <5> DEFINE h == i - 1
        <5>1. h \in 1..m /\ h \in j..m /\ h # 0
          BY <1>4, <2>1, <4>1
        <5>2. x <= q(h)
          BY <3>1
        <5> HIDE DEF h
        <5>3. s[h].start <= s[j].start
          BY <1>4, <5>1
        <5>4. q(h) = s[h].start
          BY <5>1
        <5> HIDE DEF q
        <5>5. QED
          BY <1>5, <3>1, <5>1, <5>2, <5>3, <5>4
      <4>2. CASE j = i
        BY <1>5, <3>1, <4>2
      <4>3. CASE j > i
        <5>1. j \in (i+1)..m
          BY <1>4, <4>3
        <5>2. s[j].end <= s[i].start
          BY <1>4, <5>1
        <5>3. QED
          BY <1>5, <3>1, <5>2
      <4>4. QED
        BY <1>4, <4>1, <4>2, <4>3
    <3>3. \A f \in fixes : ~(f.start < x /\ x <= f.end)
      BY <1>6, <3>2
    <3>4. QED
      BY <1>7, <3>1, <3>3
  <2>5. QED
    BY <2>1, <2>2, <2>3, <2>4
<1>13. ASSUME NEW x \in 1..q(m) PROVE P[x] = <<text[x]>>
  <2>1. x \in 1..n /\ x <= q(m)
    BY <1>1, <1>4, <1>11
  <2>2. ASSUME NEW j \in 1..m PROVE ~(s[j].start < x /\ x <= s[j].end)
    <3>1. m # 0 /\ m \in 1..m /\ m \in j..m
      BY <1>4
    <3>2. s[m].start <= s[j].start /\ q(m) = s[m].start
      BY <1>4, <3>1
    <3>3. QED
      BY <1>5, <2>1, <3>1, <3>2
  <2>3. \A f \in fixes : ~(f.start < x /\ x <= f.end)
    BY <1>6, <2>2
  <2>4. QED
    BY <1>7, <2>1, <2>3
<1>14. ASSUME NEW i \in 1..m
       PROVE  F[q(i-1)] = (F[s[i].start] \o s[i].repl)
                             \o SubSeq(text, s[i].end + 1, q(i-1))
  <2> DEFINE a == s[i].start
             e == s[i].end
             b == q(i-1)
  <2>1. /\ a \in Nat /\ e \in Nat /\ b \in Nat /\ a < e /\ e <= b /\ b <= n
        /\ s[i] \in fixes
    BY <1>1, <1>5, <1>12
  <2>2. P[a + 1] = s[i].repl /\ \A x \in (a + 2)..e : P[x] = <<>>
    BY <1>7, <2>1
  <2>3. \A x \in (e + 1)..b : P[x] = <<text[x]>>
    BY <1>12
  <2> HIDE DEF a, e, b
  <2>4. a + 1 \in 0..n /\ a + 1 \in 1..n /\ e \in (a + 1)..n /\ (a + 1) - 1 = a
        /\ (a + 1) + 1 = a + 2 /\ e \in 0..n /\ b \in e..n
    BY <1>1, <2>1
  <2>5. F[a + 1] = F[a] \o P[a + 1]
    BY <1>9, <2>4
  <2>6. F[e] = F[a + 1]
    <3>1. \A x \in ((a + 1) + 1)..e : P[x] = <<>>
      BY <2>2, <2>4
    <3>2. QED
      BY <1>10, <2>4, <3>1 DEF RunSpells
  <2>7. F[b] = F[e] \o SubSeq(text, e + 1, b)
    BY <1>10, <2>3, <2>4 DEF RunSpells
  <2>8. F[b] = (F[a] \o s[i].repl) \o SubSeq(text, e + 1, b)
    BY <2>2, <2>5, <2>6, <2>7
  <2>9. QED
    BY <2>8 DEF a, e, b
<1>15. F[q(m)] = SubSeq(text, 1, q(m))
  <2> DEFINE b == q(m)
             head == SubSeq(text, 1, b)
  <2>1. b \in 0..n /\ 0 \in 0..n
    BY <1>1, <1>4, <1>11
  <2>2. \A x \in 1..b : P[x] = <<text[x]>>
    BY <1>13
  <2> HIDE DEF b
  <2>3. F[b] = F[0] \o SubSeq(text, 0 + 1, b)
    <3>1. \A x \in (0 + 1)..b : P[x] = <<text[x]>>
      BY <2>2
    <3>2. QED
      BY <1>10, <2>1, <3>1 DEF RunSpells
  <2>4. SubSeq(text, 0 + 1, b) = head
    OBVIOUS
  <2>5. head \in Seq(T)
    <3>1. b \in Nat /\ 0 <= b /\ b <= Len(text)
      BY <2>1
    <3>2. SubSeq(text, 0 + 1, b) \in Seq(T)
      BY <3>1, SubSeqFacts
    <3>3. QED
      BY <2>4, <3>2
  <2> HIDE DEF head
  <2>6. <<>> \o head = head
    BY <2>5, ConcatEmptySeq
  <2>7. QED
    BY <1>9, <2>3, <2>4, <2>6 DEF b, head
<1> DEFINE Inv(i) == \E R \in Seq(T) : /\ after[i] = StillFrom(text, q(i), R)
                                       /\ F[n] = F[q(i)] \o R
           Good == {i \in 0..m : Inv(i)}
<1>16. Inv(0)
  <2>1. q(0) = n /\ n \in 0..n
    BY <1>1
  <2>2. SubSeq(text, 1, n) = text
    BY SubSeqFull
  <2>3. text \o <<>> = text
    BY ConcatEmptySeq
  <2>4. F[n] \in Seq(T)
    BY <1>9, <2>1
  <2>5. F[n] \o <<>> = F[n]
    BY <2>4, ConcatEmptySeq
  <2>6. <<>> \in Seq(T)
    OBVIOUS
  <2>7. QED
    BY <1>8, <2>1, <2>2, <2>3, <2>5, <2>6 DEF StillFrom
<1>17. ASSUME NEW i \in 1..m, Inv(i-1)
       PROVE  Inv(i) /\ RangeIn(s[i], Len(after[i-1]))
  <2> DEFINE b == q(i-1)
             f == s[i]
             mid == SubSeq(text, f.end + 1, b)
  <2>1. /\ b \in 0..n /\ f.start \in Nat /\ f.end \in Nat /\ f.start < f.end
        /\ f.end <= b /\ f.repl \in Seq(T) /\ q(i) = f.start
    BY <1>5, <1>12
  <2>2. PICK R \in Seq(T) : after[i-1] = StillFrom(text, b, R) /\ F[n] = F[b] \o R
    BY <1>17
  <2> DEFINE done == SplicedRest(text, f, b, R)
  <2>3. after[i] = Splice(after[i-1], f)
    BY <1>8
  <2>4. F[b] = (F[f.start] \o f.repl) \o mid
    BY <1>14
  <2> HIDE DEF b, f
  <2>5. /\ RangeIn(f, Len(StillFrom(text, b, R)))
        /\ done \in Seq(T)
        /\ Splice(StillFrom(text, b, R), f) = StillFrom(text, f.start, done)
    <3>1. /\ text \in Seq(T) /\ b \in 0..Len(text) /\ R \in Seq(T)
          /\ f.start \in Nat /\ f.end \in Nat /\ f.start < f.end /\ f.end <= b
          /\ f.repl \in Seq(T)
      BY <2>1
    <3>2. QED
      BY ONLY <3>1, SpliceStep
  <2>6. F[n] = F[f.start] \o done
    <3> DEFINE start == F[f.start]
               repl == f.repl
               spelled == start \o repl
               tail == mid \o R
    <3>1. f.start \in 0..n
      BY <1>1, <2>1
    <3>2. start \in Seq(T)
      BY <1>9, <3>1
    <3>3. mid \in Seq(T)
      <4>1. b \in Nat /\ f.end <= b /\ b <= Len(text)
        BY <1>1, <2>1
      <4>2. QED
        BY <2>1, <4>1, SubSeqFacts
    <3>4. repl \in Seq(T) /\ R \in Seq(T)
      BY <2>1
    <3>5. F[n] = (spelled \o mid) \o R
      BY <2>2, <2>4
    <3>6. done = repl \o tail
      BY DEF SplicedRest
    <3> HIDE DEF start, repl, mid, done
    <3>7. start \in Seq(T) /\ repl \in Seq(T)
      BY <3>2, <3>4
    <3>8. spelled \in Seq(T)
      BY ONLY <3>7, ConcatFacts
    <3>9. mid \in Seq(T) /\ R \in Seq(T)
      BY <3>3
    <3>10. tail \in Seq(T)
      BY ONLY <3>9, ConcatFacts
    <3> HIDE DEF spelled
    <3>11. spelled \in Seq(T) /\ mid \in Seq(T) /\ R \in Seq(T)
      BY <3>8, <3>9
    <3>12. (spelled \o mid) \o R = spelled \o (mid \o R)
      BY ONLY <3>11, ConcatAssociative
    <3>13. F[n] = spelled \o tail
      BY <3>5, <3>12
    <3> HIDE DEF tail
    <3>14. start \in Seq(T) /\ repl \in Seq(T) /\ tail \in Seq(T)
      BY <3>7, <3>10
    <3>15. (start \o repl) \o tail = start \o (repl \o tail)
      BY ONLY <3>14, ConcatAssociative
    <3>16. F[n] = start \o done
      BY <3>6, <3>13, <3>15 DEF spelled
    <3>17. QED
      BY <3>16 DEF start
  <2> HIDE DEF done
  <2>7. after[i] = StillFrom(text, q(i), done) /\ F[n] = F[q(i)] \o done
    BY <2>1, <2>2, <2>3, <2>5, <2>6
  <2>8. Inv(i)
    <3>1. done \in Seq(T)
      BY <2>5
    <3> HIDE DEF q
    <3>2. QED
      BY <2>7, <3>1
  <2>9. RangeIn(s[i], Len(after[i-1]))
    BY <2>2, <2>5 DEF f
  <2>10. QED
    BY <2>8, <2>9
<1> HIDE DEF Inv
<1>18. \A i \in 0..m : Inv(i)
  <2>1. 0 \in Good
    BY <1>4, <1>16
  <2>2. \A i \in 1..m : i - 1 \in Good => i \in Good
    BY <1>4, <1>17
  <2>3. \A i \in 0..m : i \in Good
    <3> HIDE DEF Good
    <3>1. QED
      BY <1>4, <2>1, <2>2, AllGood
  <2>4. QED
    BY <2>3
<1>19. \A i \in 1..m : RangeIn(s[i], Len(after[i-1]))
  <2>1. \A i \in 1..m : i - 1 \in 0..m
    BY <1>4
  <2>2. QED
    BY <1>17, <1>18, <2>1
<1>20. after[m] = Spelled(P)
  <2>1. m \in 0..m
    BY <1>4
  <2>2. PICK R \in Seq(T) : /\ after[m] = StillFrom(text, q(m), R)
                            /\ F[n] = F[q(m)] \o R
    BY <1>18, <2>1 DEF Inv
  <2> HIDE DEF q
  <2>3. QED
    BY <1>9, <1>15, <2>2 DEF StillFrom
<1>21. QED
  BY <1>4, <1>19, <1>20 DEF m, fixes, P, after

=============================================================================

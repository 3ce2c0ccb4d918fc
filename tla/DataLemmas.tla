----------------------------- MODULE DataLemmas -----------------------------
(***************************************************************************)
(* Facts about numbers, finite sets and sequences that the proofs about     *)
(* the components have in common: counters that wrap around, the search     *)
(* for an id that is free, queues in which nothing stands twice, sums over  *)
(* finite sets.                                                             *)
(***************************************************************************)

EXTENDS Integers, FiniteSets, Functions, SequencesExt, SequenceTheorems,
        FiniteSetTheorems, WellFoundedInduction, TLAPS

(* A set of natural numbers that is not empty has a least one: a statement  *)
(* about all numbers is proved by looking at the least counterexample.      *)
LEMMA LeastNatural ==
  ASSUME NEW S \in SUBSET Nat, S # {}
  PROVE  \E n \in S : \A m \in S : n <= m
<1>1. IsWellFoundedOn(OpToRel(<, Nat), Nat)
  BY NatLessThanWellFounded, Zenon
<1>2. PICK n \in S : \A m \in S : ~(<<m, n>> \in OpToRel(<, Nat))
  BY <1>1, WFMin, Zenon
<1>3. \A m \in S : ~(m < n)
  BY <1>2 DEF OpToRel
<1> QED
  BY <1>3

(* ... and one that has an upper bound a greatest.                          *)
LEMMA GreatestNatural ==
  ASSUME NEW n \in Nat, NEW S \in SUBSET (0 .. n), S # {}
  PROVE  \E m \in S : \A x \in S : x <= m
<1>1. PICK T : T = {d \in Nat : \E x \in S : x + d = n}
  OBVIOUS
<1>2. \A x \in S : n - x \in T /\ x \in Int
  BY <1>1
<1>3. PICK d \in T : \A e \in T : d <= e
  BY <1>1, <1>2, LeastNatural
<1>4. PICK m \in S : m + d = n
  BY <1>1
<1>5. \A x \in S : d <= n - x
  BY <1>2, <1>3
<1> QED
  BY <1>1, <1>2, <1>4, <1>5

(* A number reduced modulo m is below m.                                    *)
LEMMA ModuloBelow ==
  ASSUME NEW m \in Nat \ {0}, NEW n \in Nat
  PROVE  n % m \in 0 .. m - 1
OBVIOUS

(* Reduction leaves a number below m alone, also after one turn.            *)
LEMMA ModuloWraps ==
  ASSUME NEW m \in Nat \ {0}, NEW n \in 0 .. m - 1
  PROVE  n % m = n /\ (n + m) % m = n
OBVIOUS

(* The larger of two numbers.                                               *)
LEMMA MaxOfTwo ==
  ASSUME NEW a \in Nat, NEW b \in Nat
  PROVE  Max({a, b}) \in Nat /\ Max({a, b}) >= a /\ Max({a, b}) >= b /\ Max({a, b}) \in {a, b}
<1>1. \E x \in {a, b} : \A y \in {a, b} : x >= y
  OBVIOUS
<1>2. Max({a, b}) \in {a, b} /\ \A y \in {a, b} : Max({a, b}) >= y
  BY <1>1 DEF Max
<1> QED
  BY <1>2

(* The smaller of two numbers.                                              *)
LEMMA MinOfTwo ==
  ASSUME NEW a \in Nat, NEW b \in Nat
  PROVE  Min({a, b}) \in Nat /\ Min({a, b}) <= a /\ Min({a, b}) <= b /\ Min({a, b}) \in {a, b}
<1>1. \E x \in {a, b} : \A y \in {a, b} : x <= y
  OBVIOUS
<1>2. Min({a, b}) \in {a, b} /\ \A y \in {a, b} : Min({a, b}) <= y
  BY <1>1 DEF Min
<1> QED
  BY <1>2

(* There are n numbers from 1 to n.                                         *)
LEMMA IntervalCount ==
  ASSUME NEW n \in Nat
  PROVE  IsFiniteSet(1 .. n) /\ Cardinality(1 .. n) = n
<1>1. 1 \in Int /\ n \in Int
  OBVIOUS
<1>2. IsFiniteSet(1 .. n) /\ Cardinality(1 .. n) = IF 1 > n THEN 0 ELSE n - 1 + 1
  BY <1>1, FS_Interval
<1> QED
  BY <1>2

(* A search that starts anywhere among m numbers and wraps around finds one *)
(* that is not in a set of fewer than m.                                    *)
LEMMA SomeIsFree ==
  ASSUME NEW m \in Nat \ {0}, NEW from \in 0 .. m - 1, NEW used,
         IsFiniteSet(used), Cardinality(used) < m
  PROVE  \E k \in 0 .. m - 1 : (from + k) % m \notin used
<1>1. PICK free \in 0 .. m - 1 : free \notin used
  <2>1. SUFFICES ASSUME 0 .. m - 1 \subseteq used PROVE FALSE
    OBVIOUS
  <2>2. 0 \in Int /\ m - 1 \in Int /\ ~(0 > m - 1)
    OBVIOUS
  <2>3. IsFiniteSet(0 .. m - 1)
    BY <2>2, FS_Interval
  <2>4. Cardinality(0 .. m - 1) = (m - 1) - 0 + 1
    BY <2>2, FS_Interval, Zenon
  <2>5. Cardinality(0 .. m - 1) <= Cardinality(used) /\ Cardinality(used) \in Nat
    BY <2>1, FS_Subset, FS_CardinalityType
  <2> QED
    BY <2>4, <2>5
<1>2. CASE free >= from
  <2>1. free - from \in 0 .. m - 1 /\ from + (free - from) = free
    BY <1>2
  <2> QED
    BY <1>1, <2>1, ModuloWraps
<1>3. CASE free < from
  <2>1. free + m - from \in 0 .. m - 1 /\ from + (free + m - from) = free + m
    BY <1>3
  <2> QED
    BY <1>1, <2>1, ModuloWraps
<1> QED
  BY <1>2, <1>3

(* So the first number the search finds is one of the m and free.           *)
LEMMA FirstFree ==
  ASSUME NEW m \in Nat \ {0}, NEW from \in 0 .. m - 1, NEW used,
         IsFiniteSet(used), Cardinality(used) < m
  PROVE  LET skip == CHOOSE k \in 0 .. m - 1 : /\ (from + k) % m \notin used
                                              /\ \A j \in 0 .. k - 1 : (from + j) % m \in used
         IN  (from + skip) % m \in (0 .. m - 1) \ used
<1> DEFINE Free == {k \in 0 .. m - 1 : (from + k) % m \notin used}
           skip == CHOOSE k \in 0 .. m - 1 : /\ (from + k) % m \notin used
                                            /\ \A j \in 0 .. k - 1 : (from + j) % m \in used
<1>1. Free # {}
  BY SomeIsFree
<1>2. 0 .. m - 1 \subseteq Nat
  OBVIOUS
<1>3. PICK k \in Free : \A i \in Free : k <= i
  BY <1>1, <1>2, LeastNatural, Zenon
<1>4. \A j \in 0 .. k - 1 : (from + j) % m \in used
  <2>1. SUFFICES ASSUME NEW j \in 0 .. k - 1, (from + j) % m \notin used
                 PROVE  FALSE
    OBVIOUS
  <2>2. j \in 0 .. m - 1 /\ j < k /\ k \in 0 .. m - 1
    BY <1>3
  <2>3. j \in Free
    BY <2>1, <2>2
  <2> HIDE DEF Free
  <2>4. k <= j
    BY <1>3, <2>3
  <2> QED
    BY <2>2, <2>4
<1>5. \E i \in 0 .. m - 1 : /\ (from + i) % m \notin used
                            /\ \A j \in 0 .. i - 1 : (from + j) % m \in used
  BY <1>3, <1>4
<1>6. skip \in 0 .. m - 1 /\ (from + skip) % m \notin used
  BY <1>5, Zenon
<1>7. (from + skip) % m \in 0 .. m - 1
  <2> HIDE DEF skip
  <2>1. from + skip \in Nat
    BY <1>6
  <2> QED
    BY <2>1, ModuloBelow
<1> QED
  BY <1>6, <1>7, Zenon

-----------------------------------------------------------------------------
(* The elements of a queue, and that none stands in it twice.               *)
Elems(s)    == {s[i] : i \in 1 .. Len(s)}
Distinct(s) == \A i, j \in 1 .. Len(s) : s[i] = s[j] => i = j

(* The three ways the models write the set of the elements of a sequence    *)
(* agree.                                                                   *)
LEMMA ElemsIsSet ==
  ASSUME NEW S, NEW s \in Seq(S)
  PROVE  /\ Elems(s) \subseteq S
         /\ ToSet(s) = Elems(s)
         /\ Range(s) = Elems(s)
         /\ Elems(s) = {} <=> s = <<>>
         /\ DOMAIN s = 1 .. Len(s)
         /\ Len(s) \in Nat
<1>1. DOMAIN s = 1 .. Len(s) /\ Len(s) \in Nat
  BY LenProperties
<1>2. Elems(s) \subseteq S
  BY ElementOfSeq DEF Elems
<1>3. ToSet(s) = Elems(s) /\ Range(s) = Elems(s)
  BY <1>1 DEF ToSet, Range, Elems
<1>4. ASSUME s # <<>> PROVE Elems(s) # {}
  <2>1. 1 \in 1 .. Len(s)
    BY <1>1, <1>4, EmptySeq
  <2> QED
    BY <2>1 DEF Elems
<1>5. Elems(<<>>) = {}
  BY DEF Elems
<1> QED
  BY <1>1, <1>2, <1>3, <1>4, <1>5

(* Appending adds one element, and keeps a queue free of repetitions if     *)
(* the element was not in it; it is then the last.                          *)
LEMMA ElemsOfAppend ==
  ASSUME NEW S, NEW s \in Seq(S), NEW e \in S
  PROVE  /\ Append(s, e) \in Seq(S)
         /\ Elems(Append(s, e)) = Elems(s) \cup {e}
         /\ Distinct(s) /\ e \notin Elems(s) => Distinct(Append(s, e))
         /\ Last(Append(s, e)) = e
<1>1. /\ Append(s, e) \in Seq(S)
      /\ Len(Append(s, e)) = Len(s) + 1
      /\ \A i \in 1 .. Len(s) : Append(s, e)[i] = s[i]
      /\ Append(s, e)[Len(s) + 1] = e
      /\ Len(s) \in Nat
  BY AppendProperties, LenProperties
<1>2. 1 .. Len(s) + 1 = (1 .. Len(s)) \cup {Len(s) + 1}
  BY <1>1
<1>3. Elems(Append(s, e)) = Elems(s) \cup {e}
  BY <1>1, <1>2 DEF Elems
<1>4. ASSUME Distinct(s), e \notin Elems(s) PROVE Distinct(Append(s, e))
  BY <1>1, <1>2, <1>4 DEF Distinct, Elems
<1> QED
  BY <1>1, <1>3, <1>4 DEF Last

(* Taking the last element away removes it and nothing else.                *)
LEMMA ElemsOfFront ==
  ASSUME NEW S, NEW s \in Seq(S), s # <<>>
  PROVE  /\ Front(s) \in Seq(S)
         /\ Last(s) \in S
         /\ Elems(s) = Elems(Front(s)) \cup {Last(s)}
         /\ Distinct(s) => Distinct(Front(s)) /\ Last(s) \notin Elems(Front(s))
<1> DEFINE n == Len(s)
<1>1. n \in Nat \ {0} /\ \A i \in 1 .. n : s[i] \in S
  BY EmptySeq, ElementOfSeq
<1> HIDE DEF n
<1>2. n - 1 \in Nat /\ n - 1 \in Int /\ 1 .. n = (1 .. n - 1) \cup {n}
  BY <1>1
<1>3. \A i \in 1 .. n - 1 : s[i] \in S
  BY <1>1, <1>2
<1>4. /\ SubSeq(s, 1, n - 1) \in Seq(S)
      /\ Len(SubSeq(s, 1, n - 1)) = IF 1 <= n - 1 THEN n - 1 - 1 + 1 ELSE 0
      /\ \A i \in 1 .. n - 1 - 1 + 1 : SubSeq(s, 1, n - 1)[i] = s[1 + i - 1]
  BY <1>2, <1>3, SubSeqProperties
<1>5. Front(s) = SubSeq(s, 1, n - 1) /\ Last(s) = s[n]
  BY DEF Front, Last, n
<1>6. Front(s) \in Seq(S) /\ Len(Front(s)) = n - 1
  BY <1>1, <1>4, <1>5
<1>7. \A i \in 1 .. n - 1 : Front(s)[i] = s[i]
  <2>1. \A i \in 1 .. n - 1 : 1 + i - 1 = i /\ n - 1 - 1 + 1 = n - 1
    BY <1>2
  <2> QED
    BY <1>4, <1>5, <2>1
<1>8. Elems(s) = {s[i] : i \in 1 .. n - 1} \cup {s[n]}
  BY <1>2 DEF Elems, n
<1>9. Elems(Front(s)) = {s[i] : i \in 1 .. n - 1}
  BY <1>6, <1>7 DEF Elems
<1>10. ASSUME Distinct(s)
       PROVE  Distinct(Front(s)) /\ Last(s) \notin Elems(Front(s))
  <2>1. \A i, j \in 1 .. n : s[i] = s[j] => i = j
    BY <1>10 DEF Distinct, n
  <2>2. Distinct(Front(s))
    BY <1>2, <1>6, <1>7, <2>1 DEF Distinct
  <2>3. s[n] \notin {s[i] : i \in 1 .. n - 1}
    BY <1>1, <2>1
  <2> QED
    BY <1>5, <1>9, <2>2, <2>3
<1> QED
  BY <1>1, <1>5, <1>6, <1>8, <1>9, <1>10

(* Erasing the element at one place removes it and nothing else.            *)
LEMMA ElemsOfRemoveAt ==
  ASSUME NEW S, NEW s \in Seq(S), NEW k \in 1 .. Len(s), Distinct(s)
  PROVE  /\ RemoveAt(s, k) \in Seq(S)
         /\ Distinct(RemoveAt(s, k))
         /\ Elems(RemoveAt(s, k)) = Elems(s) \ {s[k]}
<1> DEFINE n    == Len(s)
           low  == SubSeq(s, 1, k - 1)
           high == SubSeq(s, k + 1, n)
           r    == low \o high
<1>1. n \in Nat /\ k \in 1 .. n /\ \A i \in 1 .. n : s[i] \in S
  BY LenProperties, ElementOfSeq
<1>2. \A i, j \in 1 .. n : s[i] = s[j] => i = j
  BY DEF Distinct
<1>3. RemoveAt(s, k) = r
  BY DEF RemoveAt
<1>4. Elems(s) = {s[i] : i \in 1 .. n}
  BY DEF Elems
<1> HIDE DEF n
<1>5. low \in Seq(S) /\ Len(low) = k - 1 /\ \A i \in 1 .. k - 1 : low[i] = s[i]
  <2>1. 1 \in Int /\ k - 1 \in Int /\ \A i \in 1 .. k - 1 : s[i] \in S
    BY <1>1
  <2>2. /\ low \in Seq(S)
        /\ Len(low) = IF 1 <= k - 1 THEN k - 1 - 1 + 1 ELSE 0
        /\ \A i \in 1 .. k - 1 - 1 + 1 : low[i] = s[1 + i - 1]
    BY <2>1, SubSeqProperties
  <2>3. \A i \in 1 .. k - 1 : 1 + i - 1 = i /\ i \in 1 .. k - 1 - 1 + 1
    BY <1>1
  <2> HIDE DEF low
  <2> QED
    BY <1>1, <2>2, <2>3
<1>6. high \in Seq(S) /\ Len(high) = n - k /\ \A i \in 1 .. n - k : high[i] = s[k + i]
  <2>1. k + 1 \in Int /\ n \in Int /\ \A i \in k + 1 .. n : s[i] \in S
    BY <1>1
  <2>2. /\ high \in Seq(S)
        /\ Len(high) = IF k + 1 <= n THEN n - (k + 1) + 1 ELSE 0
        /\ \A i \in 1 .. n - (k + 1) + 1 : high[i] = s[(k + 1) + i - 1]
    BY <2>1, SubSeqProperties
  <2>3. \A i \in 1 .. n - k : (k + 1) + i - 1 = k + i /\ i \in 1 .. n - (k + 1) + 1
    BY <1>1
  <2> HIDE DEF high
  <2> QED
    BY <1>1, <2>2, <2>3
<1> HIDE DEF low, high
<1>7. /\ r \in Seq(S)
      /\ Len(r) = (k - 1) + (n - k)
      /\ \A i \in 1 .. (k - 1) + (n - k) : r[i] = IF i <= k - 1 THEN low[i] ELSE high[i - (k - 1)]
  <2>1. /\ r \in Seq(S)
        /\ Len(r) = Len(low) + Len(high)
        /\ \A i \in 1 .. Len(low) + Len(high) :
             r[i] = IF i <= Len(low) THEN low[i] ELSE high[i - Len(low)]
    BY <1>5, <1>6, ConcatProperties
  <2> HIDE DEF r
  <2> QED
    BY <1>5, <1>6, <2>1
<1> HIDE DEF r
<1>8. Len(r) = n - 1 /\ \A i \in 1 .. n - 1 : r[i] = IF i < k THEN s[i] ELSE s[i + 1]
  <2>1. (k - 1) + (n - k) = n - 1
    BY <1>1
  <2>2. ASSUME NEW i \in 1 .. n - 1, i < k PROVE r[i] = s[i]
    BY <1>1, <1>5, <1>7, <2>1, <2>2
  <2>3. ASSUME NEW i \in 1 .. n - 1, ~(i < k) PROVE r[i] = s[i + 1]
    <3>1. r[i] = high[i - (k - 1)]
      BY <1>1, <1>7, <2>1, <2>3
    <3>2. i - (k - 1) \in 1 .. n - k /\ k + (i - (k - 1)) = i + 1
      BY <1>1, <2>3
    <3> QED
      BY <1>6, <3>1, <3>2
  <2> QED
    BY <1>7, <2>1, <2>2, <2>3
<1>9. Elems(r) = {r[i] : i \in 1 .. n - 1}
  BY <1>8 DEF Elems
<1>10. Distinct(r)
  BY <1>1, <1>2, <1>8 DEF Distinct
<1>11. \A e \in Elems(r) : e \in Elems(s) /\ e # s[k]
  <2>1. ASSUME NEW i \in 1 .. n - 1
        PROVE  \E j \in 1 .. n : r[i] = s[j] /\ j # k
    <3>1. CASE i < k
      <4>1. r[i] = s[i] /\ i \in 1 .. n /\ i # k
        BY <1>1, <1>8, <3>1
      <4> QED
        BY <4>1
    <3>2. CASE ~(i < k)
      <4>1. r[i] = s[i + 1] /\ i + 1 \in 1 .. n /\ i + 1 # k
        BY <1>1, <1>8, <3>2
      <4> QED
        BY <4>1
    <3> QED
      BY <3>1, <3>2
  <2> QED
    BY <1>1, <1>2, <1>4, <1>9, <2>1
<1>12. \A e \in Elems(s) : e # s[k] => e \in Elems(r)
  <2>1. ASSUME NEW j \in 1 .. n, j # k
        PROVE  \E i \in 1 .. n - 1 : r[i] = s[j]
    <3>1. CASE j < k
      BY <1>1, <1>8, <3>1
    <3>2. CASE j > k
      <4>1. j - 1 \in 1 .. n - 1 /\ ~(j - 1 < k) /\ (j - 1) + 1 = j
        BY <1>1, <3>2
      <4> QED
        BY <1>8, <4>1
    <3> QED
      BY <1>1, <2>1, <3>1, <3>2
  <2> QED
    BY <1>4, <1>9, <2>1
<1> QED
  BY <1>3, <1>7, <1>10, <1>11, <1>12

(* Taking the first element away removes it and nothing else.               *)
LEMMA ElemsOfTail ==
  ASSUME NEW S, NEW s \in Seq(S), s # <<>>
  PROVE  /\ Tail(s) \in Seq(S)
         /\ Head(s) \in S
         /\ Head(s) = s[1]
         /\ Elems(s) = Elems(Tail(s)) \cup {Head(s)}
         /\ Distinct(s) => Distinct(Tail(s)) /\ Head(s) \notin Elems(Tail(s))
<1> DEFINE n == Len(s)
           t == Tail(s)
<1>1. /\ t \in Seq(S)
      /\ Head(s) \in S
      /\ Len(t) = n - 1
      /\ \A i \in 1 .. Len(t) : t[i] = s[i + 1]
      /\ n \in Nat \ {0}
      /\ Head(s) = s[1]
  BY HeadTailProperties, EmptySeq
<1>2. Elems(s) = {s[i] : i \in 1 .. n}
  BY DEF Elems
<1>3. Distinct(s) => \A i, j \in 1 .. n : s[i] = s[j] => i = j
  BY DEF Distinct
<1> HIDE DEF n, t
<1>4. Elems(t) = {s[i + 1] : i \in 1 .. n - 1}
  BY <1>1 DEF Elems
<1>5. Elems(s) = Elems(t) \cup {s[1]}
  <2>1. ASSUME NEW i \in 1 .. n PROVE s[i] \in Elems(t) \cup {s[1]}
    <3>1. CASE i = 1
      BY <3>1
    <3>2. CASE i # 1
      <4>1. i - 1 \in 1 .. n - 1 /\ (i - 1) + 1 = i
        BY <1>1, <3>2
      <4> QED
        BY <1>4, <4>1
    <3> QED
      BY <3>1, <3>2
  <2>2. \A i \in 1 .. n - 1 : i + 1 \in 1 .. n
    BY <1>1
  <2>3. 1 \in 1 .. n
    BY <1>1
  <2> QED
    BY <1>2, <1>4, <2>1, <2>2, <2>3
<1>6. ASSUME Distinct(s) PROVE Distinct(t) /\ s[1] \notin Elems(t)
  <2>1. \A i, j \in 1 .. n : s[i] = s[j] => i = j
    BY <1>3, <1>6
  <2>2. Distinct(t)
    BY <1>1, <2>1 DEF Distinct
  <2>3. ASSUME NEW i \in 1 .. n - 1 PROVE s[i + 1] # s[1]
    <3>1. i + 1 \in 1 .. n /\ 1 \in 1 .. n /\ i + 1 # 1
      BY <1>1
    <3> QED
      BY <2>1, <3>1
  <2> QED
    BY <1>4, <2>2, <2>3
<1> QED
  BY <1>1, <1>5, <1>6 DEF t

(* A sequence without repetitions is no longer than there are elements.     *)
LEMMA DistinctIsShort ==
  ASSUME NEW S, IsFiniteSet(S), NEW s \in Seq(S), Distinct(s)
  PROVE  Len(s) <= Cardinality(S)
<1> DEFINE n == Len(s)
<1>1. n \in Nat /\ s \in [1 .. n -> S]
  BY LenProperties
<1>2. s \in Injection(1 .. n, S)
  BY <1>1 DEF Injection, IsInjective, Distinct
<1>3. Cardinality(1 .. n) <= Cardinality(S)
  BY <1>2, FS_Injection
<1> HIDE DEF n
<1>4. Cardinality(1 .. n) = n
  BY <1>1, IntervalCount
<1> QED
  BY <1>3, <1>4 DEF n

(* A finite set has no more images than members.                            *)
LEMMA ImageIsSmall ==
  ASSUME NEW S, IsFiniteSet(S), NEW f
  PROVE  /\ IsFiniteSet({f[x] : x \in S})
         /\ Cardinality({f[x] : x \in S}) <= Cardinality(S)
<1> DEFINE T == {f[x] : x \in S}
           h == [x \in S |-> f[x]]
<1>1. h \in Surjection(S, T)
  BY DEF Surjection
<1> HIDE DEF h, T
<1>2. IsFiniteSet(T) /\ Cardinality(T) <= Cardinality(S)
  BY <1>1, FS_Surjection
<1> QED
  BY <1>2 DEF T

(* A sequence without repetitions has as many elements as places.           *)
LEMMA DistinctCount ==
  ASSUME NEW S, NEW s \in Seq(S), Distinct(s)
  PROVE  IsFiniteSet(Elems(s)) /\ Cardinality(Elems(s)) = Len(s)
<1> DEFINE n == Len(s)
<1>1. n \in Nat /\ s \in [1 .. n -> S] /\ Elems(s) = {s[i] : i \in 1 .. n}
  BY LenProperties DEF Elems
<1>2. \A i, j \in 1 .. n : s[i] = s[j] => i = j
  BY DEF Distinct
<1> HIDE DEF n
<1>3. s \in [1 .. n -> Elems(s)] /\ DOMAIN s = 1 .. n
  BY <1>1
<1>4. s \in Surjection(1 .. n, Elems(s))
  BY <1>1, <1>3 DEF Surjection
<1>5. s \in Injection(1 .. n, Elems(s))
  BY <1>2, <1>3 DEF Injection, IsInjective
<1>6. IsFiniteSet(1 .. n) /\ Cardinality(1 .. n) = n
  BY <1>1, IntervalCount
<1>7. IsFiniteSet(Elems(s)) /\ Cardinality(Elems(s)) = Cardinality(1 .. n)
  BY <1>4, <1>5, <1>6, FS_Surjection
<1> QED
  BY <1>6, <1>7 DEF n

-----------------------------------------------------------------------------
(***************************************************************************)
(* Sums over finite sets.                                                  *)
(***************************************************************************)

(* Among subsets of a finite set there is one that has none of the others   *)
(* in it: a statement about all of them is proved by looking at a smallest  *)
(* counterexample.                                                          *)
LEMMA SmallestSet ==
  ASSUME NEW S, IsFiniteSet(S), NEW B \in SUBSET SUBSET S, B # {}
  PROVE  \E u \in B : \A x \in u : \A v \in SUBSET (u \ {x}) : v \notin B
<1> DEFINE Sizes == {n \in Nat : \E u \in B : Cardinality(u) = n}
<1>1. \A u \in SUBSET S : IsFiniteSet(u) /\ Cardinality(u) \in Nat
  BY FS_Subset, FS_CardinalityType
<1>2. Sizes # {} /\ Sizes \subseteq Nat
  BY <1>1
<1>3. PICK n \in Sizes : \A m \in Sizes : n <= m
  <2> HIDE DEF Sizes
  <2> QED
    BY <1>2, LeastNatural
<1>4. PICK u \in B : Cardinality(u) = n
  BY <1>3
<1>5. SUFFICES ASSUME NEW x \in u, NEW v \in SUBSET (u \ {x}), v \in B
               PROVE  FALSE
  BY <1>4
<1>6. Cardinality(v) \in Sizes
  BY <1>1, <1>5
<1>7. Cardinality(v) <= Cardinality(u \ {x}) /\ Cardinality(u \ {x}) = Cardinality(u) - 1
  BY <1>1, <1>4, <1>5, FS_Subset, FS_RemoveElement
<1> HIDE DEF Sizes
<1>8. n <= Cardinality(v) /\ Cardinality(v) \in Nat /\ n \in Nat
  BY <1>1, <1>2, <1>3, <1>5, <1>6
<1> QED
  BY <1>4, <1>7, <1>8

(* What holds of the empty set, and of a set with one element more when it  *)
(* holds of the set, holds of every subset of a finite set.                 *)
LEMMA SubsetInduction ==
  ASSUME NEW S, IsFiniteSet(S), NEW P, {} \in P,
         \A T \in SUBSET S : T \in P => \A x \in S \ T : T \cup {x} \in P
  PROVE  S \in P
<1> DEFINE B == {T \in SUBSET S : T \notin P}
<1>1. SUFFICES ASSUME B # {} PROVE FALSE
  OBVIOUS
<1>2. PICK u \in B : \A x \in u : \A v \in SUBSET (u \ {x}) : v \notin B
  <2>1. B \in SUBSET SUBSET S
    OBVIOUS
  <2> HIDE DEF B
  <2> QED
    BY <1>1, <2>1, SmallestSet, Zenon
<1>3. PICK x : x \in u
  BY <1>2
<1>4. u \ {x} \in P /\ u \ {x} \in SUBSET S /\ x \in S \ (u \ {x})
  BY <1>2, <1>3
<1>5. (u \ {x}) \cup {x} = u
  BY <1>3
<1> QED
  BY <1>2, <1>4, <1>5

(* The element a sum over a set takes first, and the table of the sums over *)
(* all subsets it is defined by.                                            *)
FirstOf(s) == CHOOSE x \in s : TRUE

SumTable(f, S, g) ==
  g = [s \in SUBSET S |-> IF s = {} THEN 0 ELSE f[FirstOf(s)] + g[s \ {FirstOf(s)}]]

(* There is one for every finite set.                                       *)
LEMMA SumTableExists ==
  ASSUME NEW f, NEW S, IsFiniteSet(S)
  PROVE  \E g : SumTable(f, S, g)
<1> DEFINE Upto(n) == {T \in SUBSET S : Cardinality(T) <= n}
           Value(s, g) == IF s = {} THEN 0 ELSE f[FirstOf(s)] + g[s \ {FirstOf(s)}]
           Partial(n, g) == g = [s \in Upto(n) |-> Value(s, g)]
           Missing == {n \in Nat : ~ \E g : Partial(n, g)}
<1>1. \A T \in SUBSET S : IsFiniteSet(T) /\ Cardinality(T) \in Nat
  BY FS_Subset, FS_CardinalityType
<1>2. \E g : Partial(0, g)
  <2> DEFINE g == [s \in Upto(0) |-> 0]
  <2>1. \A s \in Upto(0) : s = {}
    BY <1>1, FS_EmptySet
  <2>2. g = [s \in Upto(0) |-> Value(s, g)]
    BY <2>1
  <2> QED
    BY <2>2
<1>3. ASSUME NEW n \in Nat, NEW g, Partial(n, g)
      PROVE  \E h : Partial(n + 1, h)
  <2> DEFINE h == [s \in Upto(n + 1) |-> Value(s, g)]
  <2>1. ASSUME NEW s \in Upto(n + 1), s # {}
        PROVE  h[s \ {FirstOf(s)}] = g[s \ {FirstOf(s)}]
    <3>1. FirstOf(s) \in s
      BY <2>1 DEF FirstOf
    <3> DEFINE x == FirstOf(s)
    <3> HIDE DEF x
    <3>2. x \in s
      BY <3>1 DEF x
    <3>3. s \in SUBSET S /\ IsFiniteSet(s) /\ Cardinality(s) <= n + 1 /\ Cardinality(s) \in Nat
      BY <1>1
    <3>4. Cardinality(s \ {x}) = Cardinality(s) - 1
      BY <3>2, <3>3, FS_RemoveElement
    <3>5. s \ {x} \in Upto(n) /\ s \ {x} \in Upto(n + 1)
      BY <1>1, <3>3, <3>4
    <3> HIDE DEF Upto, Value
    <3>6. g[s \ {x}] = Value(s \ {x}, g)
      BY <1>3, <3>5
    <3>7. h[s \ {x}] = Value(s \ {x}, g)
      BY <3>5
    <3> QED
      BY <3>6, <3>7 DEF x
  <2>2. \A s \in Upto(n + 1) : Value(s, h) = Value(s, g)
    <3> HIDE DEF h, Upto
    <3> QED
      BY <2>1
  <2>3. h = [s \in Upto(n + 1) |-> Value(s, h)]
    <3> HIDE DEF Upto, Value
    <3> QED
      BY <2>2
  <2> HIDE DEF h
  <2> QED
    BY <2>3
<1> HIDE DEF Partial
<1>4. Missing = {}
  <2>1. SUFFICES ASSUME Missing # {} PROVE FALSE
    OBVIOUS
  <2>2. Missing \subseteq Nat
    OBVIOUS
  <2>3. PICK n \in Missing : \A m \in Missing : n <= m
    <3> HIDE DEF Missing
    <3> QED
      BY <2>1, <2>2, LeastNatural
  <2>4. n \in Nat /\ n # 0 /\ n - 1 \in Nat /\ n - 1 + 1 = n
    BY <1>2, <2>3
  <2>5. n - 1 \notin Missing
    BY <2>3, <2>4
  <2>6. PICK g : Partial(n - 1, g)
    BY <2>4, <2>5
  <2>7. \E h : Partial(n - 1 + 1, h)
    BY <1>3, <2>4, <2>6
  <2> QED
    BY <2>3, <2>4, <2>7
<1>5. PICK g : Partial(Cardinality(S), g)
  BY <1>1, <1>4
<1>6. Upto(Cardinality(S)) = SUBSET S
  BY <1>1, FS_Subset
<1>7. g = [s \in SUBSET S |-> Value(s, g)]
  <2> HIDE DEF Upto, Value
  <2> QED
    BY <1>5, <1>6 DEF Partial
<1> QED
  BY <1>7 DEF SumTable

(* What a sum is: nothing for the empty set, and otherwise the first        *)
(* element and the sum of the rest.                                         *)
LEMMA SumUnfolds ==
  ASSUME NEW f, NEW S, IsFiniteSet(S)
  PROVE  SumFunctionOnSet(f, S) =
           IF S = {} THEN 0 ELSE f[FirstOf(S)] + SumFunctionOnSet(f, S \ {FirstOf(S)})
<1> DEFINE Table(T) == CHOOSE g : SumTable(f, T, g)
<1>1. \A T : SumFunctionOnSet(f, T) = Table(T)[T]
  BY Zenon DEF SumFunctionOnSet, FoldFunctionOnSet, MapThenFoldSet, SumTable, FirstOf
<1>2. \A T \in SUBSET S : IsFiniteSet(T) /\ SumTable(f, T, Table(T))
  BY FS_Subset, SumTableExists
<1>3. CASE S = {}
  <2> HIDE DEF Table
  <2>1. SumTable(f, S, Table(S)) /\ S \in SUBSET S
    BY <1>2
  <2>2. Table(S)[S] = 0
    BY <1>3, <2>1 DEF SumTable
  <2> QED
    BY <1>1, <1>3, <2>2
<1>4. CASE S # {}
  <2> DEFINE x == FirstOf(S)
             R == S \ {x}
             B == {u \in SUBSET R : Table(S)[u] # Table(R)[u]}
  <2>1. x \in S
    BY <1>4 DEF FirstOf
  <2> HIDE DEF Table
  <2>2. Table(S)[S] = f[x] + Table(S)[R]
    <3>1. SumTable(f, S, Table(S)) /\ S \in SUBSET S
      BY <1>2
    <3> QED
      BY <1>4, <3>1 DEF SumTable
  <2> HIDE DEF x
  <2>3. R \in SUBSET S /\ IsFiniteSet(R)
    BY <1>2
  <2>4. \A u \in SUBSET R : /\ Table(S)[u] = IF u = {} THEN 0
                                 ELSE f[FirstOf(u)] + Table(S)[u \ {FirstOf(u)}]
                            /\ Table(R)[u] = IF u = {} THEN 0
                                 ELSE f[FirstOf(u)] + Table(R)[u \ {FirstOf(u)}]
    BY <1>2, <2>3 DEF SumTable
  <2> HIDE DEF R
  <2>5. B = {}
    <3>1. SUFFICES ASSUME B # {} PROVE FALSE
      OBVIOUS
    <3>2. B \in SUBSET SUBSET R
      OBVIOUS
    <3>3. PICK u \in B : \A y \in u : \A v \in SUBSET (u \ {y}) : v \notin B
      <4> HIDE DEF B
      <4> QED
        BY <2>3, <3>1, <3>2, SmallestSet, Zenon
    <3>4. u \in SUBSET R /\ Table(S)[u] # Table(R)[u] /\ u # {}
      BY <2>4, <3>3
    <3>5. FirstOf(u) \in u
      BY <3>4 DEF FirstOf
    <3>6. Table(S)[u \ {FirstOf(u)}] = Table(R)[u \ {FirstOf(u)}]
      BY <3>3, <3>4, <3>5
    <3> QED
      BY <2>4, <3>4, <3>6
  <2>6. Table(S)[R] = Table(R)[R]
    BY <2>5
  <2>7. SumFunctionOnSet(f, S) = f[x] + SumFunctionOnSet(f, R)
    BY <1>1, <2>2, <2>6
  <2> QED
    BY <1>4, <2>7 DEF R, x
<1> QED
  BY <1>3, <1>4

(* A sum of integers is an integer, of natural numbers a natural number.    *)
LEMMA SumType ==
  ASSUME NEW S, IsFiniteSet(S), NEW f
  PROVE  /\ (\A x \in S : f[x] \in Int) => SumFunctionOnSet(f, S) \in Int
         /\ (\A x \in S : f[x] \in Nat) => SumFunctionOnSet(f, S) \in Nat
<1>1. ASSUME NEW N \in {Nat, Int}, \A x \in S : f[x] \in N
      PROVE  SumFunctionOnSet(f, S) \in N
  <2> DEFINE B == {T \in SUBSET S : SumFunctionOnSet(f, T) \notin N}
  <2>1. SUFFICES ASSUME B # {} PROVE FALSE
    OBVIOUS
  <2>2. PICK T \in B : \A x \in T : \A v \in SUBSET (T \ {x}) : v \notin B
    <3>1. B \in SUBSET SUBSET S
      OBVIOUS
    <3> HIDE DEF B
    <3> QED
      BY <2>1, <3>1, SmallestSet, Zenon
  <2>3. T \in SUBSET S /\ IsFiniteSet(T) /\ SumFunctionOnSet(f, T) \notin N
    BY <2>2, FS_Subset
  <2>4. SumFunctionOnSet(f, T) =
          IF T = {} THEN 0 ELSE f[FirstOf(T)] + SumFunctionOnSet(f, T \ {FirstOf(T)})
    BY <2>3, SumUnfolds
  <2>5. T # {} => FirstOf(T) \in T
    BY DEF FirstOf
  <2>6. T # {} => SumFunctionOnSet(f, T \ {FirstOf(T)}) \in N
    BY <2>2, <2>3, <2>5
  <2>7. T # {} => f[FirstOf(T)] \in N
    BY <1>1, <2>3, <2>5
  <2> HIDE DEF B
  <2> QED
    BY <2>3, <2>4, <2>6, <2>7
<1> QED
  BY <1>1

(* The order does not matter: any element may be taken first.               *)
LEMMA SumElement ==
  ASSUME NEW S, IsFiniteSet(S), NEW f, \A x \in S : f[x] \in Int, NEW x \in S
  PROVE  SumFunctionOnSet(f, S) = f[x] + SumFunctionOnSet(f, S \ {x})
<1> DEFINE Takes(T, z) == SumFunctionOnSet(f, T) = f[z] + SumFunctionOnSet(f, T \ {z})
           B == {T \in SUBSET S : \E z \in T : ~Takes(T, z)}
<1>1. SUFFICES ASSUME B # {} PROVE FALSE
  OBVIOUS
<1>2. PICK T \in B : \A z \in T : \A v \in SUBSET (T \ {z}) : v \notin B
  <2>1. B \in SUBSET SUBSET S
    OBVIOUS
  <2> HIDE DEF B
  <2> QED
    BY <1>1, <2>1, SmallestSet, Zenon
<1>3. PICK z \in T : ~Takes(T, z)
  BY <1>2
<1>4. PICK y : y = FirstOf(T)
  OBVIOUS
<1>5. y \in T /\ T \in SUBSET S
  BY <1>2, <1>3, <1>4 DEF FirstOf
<1>6. SumFunctionOnSet(f, T) = f[y] + SumFunctionOnSet(f, T \ {y})
  BY <1>3, <1>4, <1>5, FS_Subset, SumUnfolds
<1>7. y # z
  BY <1>3, <1>6
<1>8. T \ {y} \notin B /\ T \ {z} \notin B /\ T \ {y} \in SUBSET S /\ T \ {z} \in SUBSET S
  BY <1>2, <1>3, <1>5
<1>9. Takes(T \ {y}, z) /\ Takes(T \ {z}, y)
  BY <1>3, <1>5, <1>7, <1>8
<1>10. (T \ {y}) \ {z} = (T \ {z}) \ {y}
  OBVIOUS
<1>11. PICK R : R = (T \ {y}) \ {z}
  OBVIOUS
<1>12. SumFunctionOnSet(f, R) \in Int /\ f[y] \in Int /\ f[z] \in Int
  <2>1. R \in SUBSET S /\ IsFiniteSet(R) /\ \A u \in R : f[u] \in Int
    BY <1>5, <1>11, FS_Subset
  <2> QED
    BY <1>3, <1>5, <2>1, SumType
<1>13. /\ SumFunctionOnSet(f, T \ {y}) = f[z] + SumFunctionOnSet(f, R)
       /\ SumFunctionOnSet(f, T \ {z}) = f[y] + SumFunctionOnSet(f, R)
  BY <1>9, <1>10, <1>11
<1> QED
  BY <1>3, <1>6, <1>12, <1>13

(* One element more.                                                        *)
LEMMA SumInsert ==
  ASSUME NEW S, IsFiniteSet(S), NEW f, NEW x, x \notin S, \A y \in S \cup {x} : f[y] \in Int
  PROVE  /\ SumFunctionOnSet(f, S \cup {x}) = SumFunctionOnSet(f, S) + f[x]
         /\ IsFiniteSet(S \cup {x})
<1>1. IsFiniteSet(S \cup {x}) /\ (S \cup {x}) \ {x} = S
  BY FS_AddElement
<1>2. SumFunctionOnSet(f, S) \in Int /\ f[x] \in Int
  BY SumType
<1>3. SumFunctionOnSet(f, S \cup {x}) = f[x] + SumFunctionOnSet(f, (S \cup {x}) \ {x})
  BY <1>1, SumElement
<1>4. SumFunctionOnSet(f, S \cup {x}) = f[x] + SumFunctionOnSet(f, S)
  BY <1>1, <1>3, Zenon
<1> QED
  BY <1>1, <1>2, <1>4

(* The same for the parts of a finite set.                                  *)
LEMMA SumGrows ==
  ASSUME NEW S, IsFiniteSet(S), NEW f, \A x \in S : f[x] \in Int,
         NEW T \in SUBSET S, NEW x \in S, x \notin T
  PROVE  SumFunctionOnSet(f, T \cup {x}) = SumFunctionOnSet(f, T) + f[x]
<1>1. IsFiniteSet(T) /\ \A y \in T \cup {x} : f[y] \in Int
  BY FS_Subset
<1> QED
  BY <1>1, SumInsert

(* Nothing, one and two elements.                                           *)
LEMMA SumSmall ==
  ASSUME NEW f
  PROVE  /\ SumFunctionOnSet(f, {}) = 0
         /\ \A x : f[x] \in Int => SumFunctionOnSet(f, {x}) = f[x]
         /\ \A x, y : x # y /\ f[x] \in Int /\ f[y] \in Int =>
              SumFunctionOnSet(f, {x, y}) = f[x] + f[y]
<1>1. SumFunctionOnSet(f, {}) = 0
  BY FS_EmptySet, SumUnfolds
<1>2. ASSUME NEW x, f[x] \in Int
      PROVE  SumFunctionOnSet(f, {x}) = f[x]
  <2>1. SumFunctionOnSet(f, {} \cup {x}) = SumFunctionOnSet(f, {}) + f[x]
    BY <1>2, FS_EmptySet, SumInsert
  <2>2. {} \cup {x} = {x}
    OBVIOUS
  <2> QED
    BY <1>1, <1>2, <2>1, <2>2
<1>3. ASSUME NEW x, NEW y, x # y, f[x] \in Int, f[y] \in Int
      PROVE  SumFunctionOnSet(f, {x, y}) = f[x] + f[y]
  <2>1. IsFiniteSet({x}) /\ {x} \cup {y} = {x, y}
    BY FS_Singleton
  <2>2. SumFunctionOnSet(f, {x} \cup {y}) = SumFunctionOnSet(f, {x}) + f[y]
    BY <1>3, <2>1, SumInsert
  <2> QED
    BY <1>2, <1>3, <2>1, <2>2
<1> QED
  BY <1>1, <1>2, <1>3

(* Sums of two functions: equal where the functions are, the sum of them    *)
(* where a third is their sum, and in their order.                          *)
LEMMA SumPointwise ==
  ASSUME NEW S, IsFiniteSet(S), NEW f, NEW g, \A x \in S : f[x] \in Int /\ g[x] \in Int
  PROVE  /\ (\A x \in S : f[x] = g[x]) => SumFunctionOnSet(f, S) = SumFunctionOnSet(g, S)
         /\ (\A x \in S : f[x] <= g[x]) => SumFunctionOnSet(f, S) <= SumFunctionOnSet(g, S)
         /\ \A h : (\A x \in S : h[x] = f[x] + g[x]) =>
              SumFunctionOnSet(h, S) = SumFunctionOnSet(f, S) + SumFunctionOnSet(g, S)
<1>1. SumFunctionOnSet(f, {}) = 0 /\ SumFunctionOnSet(g, {}) = 0
  BY SumSmall
<1>2. ASSUME NEW T \in SUBSET S, NEW x \in S \ T
      PROVE  /\ SumFunctionOnSet(f, T \cup {x}) = SumFunctionOnSet(f, T) + f[x]
             /\ SumFunctionOnSet(g, T \cup {x}) = SumFunctionOnSet(g, T) + g[x]
             /\ SumFunctionOnSet(f, T) \in Int /\ SumFunctionOnSet(g, T) \in Int
  <2>1. IsFiniteSet(T) /\ \A y \in T \cup {x} : f[y] \in Int /\ g[y] \in Int
    BY FS_Subset
  <2> QED
    BY <2>1, SumInsert, SumType
<1>3. ASSUME \A x \in S : f[x] <= g[x]
      PROVE  SumFunctionOnSet(f, S) <= SumFunctionOnSet(g, S)
  <2> DEFINE P == {T \in SUBSET S : SumFunctionOnSet(f, T) <= SumFunctionOnSet(g, T)}
  <2>1. {} \in P
    BY <1>1
  <2>2. ASSUME NEW T \in SUBSET S, T \in P, NEW x \in S \ T PROVE T \cup {x} \in P
    BY <1>2, <1>3, <2>2
  <2>3. S \in P
    <3> HIDE DEF P
    <3> QED
      BY <2>1, <2>2, SubsetInduction
  <2> QED
    BY <2>3
<1>4. ASSUME NEW h, \A x \in S : h[x] = f[x] + g[x]
      PROVE  SumFunctionOnSet(h, S) = SumFunctionOnSet(f, S) + SumFunctionOnSet(g, S)
  <2> DEFINE P == {T \in SUBSET S : SumFunctionOnSet(h, T) =
                     SumFunctionOnSet(f, T) + SumFunctionOnSet(g, T)}
  <2>1. {} \in P
    BY <1>1, SumSmall
  <2>2. ASSUME NEW T \in SUBSET S, T \in P, NEW x \in S \ T PROVE T \cup {x} \in P
    <3>1. IsFiniteSet(T) /\ \A y \in T \cup {x} : h[y] \in Int
      BY <1>4, FS_Subset
    <3>2. SumFunctionOnSet(h, T \cup {x}) = SumFunctionOnSet(h, T) + h[x]
      BY <3>1, SumInsert
    <3>3. h[x] = f[x] + g[x] /\ f[x] \in Int /\ g[x] \in Int
      BY <1>4
    <3>4. SumFunctionOnSet(h, T) = SumFunctionOnSet(f, T) + SumFunctionOnSet(g, T)
      BY <2>2
    <3>5. T \cup {x} \in SUBSET S
      OBVIOUS
    <3>6. SumFunctionOnSet(h, T \cup {x}) =
            SumFunctionOnSet(f, T \cup {x}) + SumFunctionOnSet(g, T \cup {x})
      BY <1>2, <3>2, <3>3, <3>4
    <3> QED
      BY <3>5, <3>6
  <2>3. S \in P
    <3> HIDE DEF P
    <3> QED
      BY <2>1, <2>2, SubsetInduction
  <2> QED
    BY <2>3
<1>5. ASSUME \A x \in S : f[x] = g[x]
      PROVE  SumFunctionOnSet(f, S) = SumFunctionOnSet(g, S)
  <2> DEFINE P == {T \in SUBSET S : SumFunctionOnSet(f, T) = SumFunctionOnSet(g, T)}
  <2>1. {} \in P
    BY <1>1
  <2>2. ASSUME NEW T \in SUBSET S, T \in P, NEW x \in S \ T PROVE T \cup {x} \in P
    BY <1>2, <1>5, <2>2
  <2>3. S \in P
    <3> HIDE DEF P
    <3> QED
      BY <2>1, <2>2, SubsetInduction
  <2> QED
    BY <2>3
<1> QED
  BY <1>3, <1>4, <1>5

(* Two parts.                                                               *)
LEMMA SumParts ==
  ASSUME NEW S, IsFiniteSet(S), NEW T, IsFiniteSet(T), S \cap T = {},
         NEW f, \A x \in S \cup T : f[x] \in Int
  PROVE  SumFunctionOnSet(f, S \cup T) = SumFunctionOnSet(f, S) + SumFunctionOnSet(f, T)
<1> DEFINE P == {U \in SUBSET T : SumFunctionOnSet(f, S \cup U) =
                   SumFunctionOnSet(f, S) + SumFunctionOnSet(f, U)}
<1>1. SumFunctionOnSet(f, S) \in Int
  BY SumType
<1>2. {} \in P
  <2>1. S \cup {} = S /\ SumFunctionOnSet(f, {}) = 0
    BY SumSmall
  <2> QED
    BY <1>1, <2>1
<1>3. ASSUME NEW U \in SUBSET T, U \in P, NEW x \in T \ U PROVE U \cup {x} \in P
  <2>1. IsFiniteSet(U) /\ IsFiniteSet(S \cup U)
    BY FS_Subset, FS_Union
  <2>2. SumFunctionOnSet(f, U \cup {x}) = SumFunctionOnSet(f, U) + f[x]
    BY <2>1, SumInsert
  <2>3. x \notin S \cup U /\ S \cup (U \cup {x}) = (S \cup U) \cup {x}
    OBVIOUS
  <2>4. SumFunctionOnSet(f, (S \cup U) \cup {x}) = SumFunctionOnSet(f, S \cup U) + f[x]
    <3>1. \A y \in (S \cup U) \cup {x} : f[y] \in Int
      OBVIOUS
    <3> QED
      BY <2>1, <2>3, <3>1, SumInsert
  <2>5. SumFunctionOnSet(f, U) \in Int /\ f[x] \in Int
    BY <2>1, SumType
  <2>6. SumFunctionOnSet(f, S \cup U) = SumFunctionOnSet(f, S) + SumFunctionOnSet(f, U)
    BY <1>3
  <2>7. SumFunctionOnSet(f, S \cup (U \cup {x})) =
          SumFunctionOnSet(f, S) + SumFunctionOnSet(f, U \cup {x})
    <3>1. SumFunctionOnSet(f, S \cup (U \cup {x})) = SumFunctionOnSet(f, S \cup U) + f[x]
      BY <2>3, <2>4, Zenon
    <3> QED
      BY <1>1, <2>2, <2>5, <2>6, <3>1
  <2>8. U \cup {x} \in SUBSET T
    OBVIOUS
  <2> QED
    BY <2>7, <2>8
<1>4. T \in P
  <2> HIDE DEF P
  <2> QED
    BY <1>2, <1>3, SubsetInduction
<1> QED
  BY <1>4

(* What is counted apart by a key adds up to what has one of the keys.      *)
LEMMA CountByKey ==
  ASSUME NEW M, IsFiniteSet(M), NEW key, NEW K, IsFiniteSet(K), NEW f,
         \A k \in K : f[k] = Cardinality({i \in M : key[i] = k})
  PROVE  SumFunctionOnSet(f, K) = Cardinality({i \in M : key[i] \in K})
<1> DEFINE Of(T) == {i \in M : key[i] \in T}
           P == {T \in SUBSET K : SumFunctionOnSet(f, T) = Cardinality(Of(T))}
<1>1. {} \in P
  <2>1. Of({}) = {}
    OBVIOUS
  <2> HIDE DEF Of
  <2> QED
    BY <2>1, SumSmall, FS_EmptySet
<1>2. ASSUME NEW T \in SUBSET K, T \in P, NEW k \in K \ T PROVE T \cup {k} \in P
  <2>1. Of(T \cup {k}) = Of(T) \cup Of({k}) /\ Of(T) \cap Of({k}) = {}
    OBVIOUS
  <2>2. Of({k}) = {i \in M : key[i] = k}
    OBVIOUS
  <2>3. Of(T) \subseteq M /\ Of({k}) \subseteq M
    OBVIOUS
  <2>4. f[k] = Cardinality(Of({k}))
    BY <2>2
  <2>5. \A x \in T \cup {k} : f[x] \in Int
    <3>1. \A x \in K : IsFiniteSet({i \in M : key[i] = x})
      BY FS_Subset
    <3>2. \A x \in K : Cardinality({i \in M : key[i] = x}) \in Nat
      BY <3>1, FS_CardinalityType
    <3>3. \A x \in K : f[x] \in Nat
      BY <3>2, Zenon
    <3>4. T \cup {k} \subseteq K
      OBVIOUS
    <3> QED
      BY <3>3, <3>4
  <2> HIDE DEF Of
  <2>6. IsFiniteSet(Of(T)) /\ IsFiniteSet(Of({k})) /\ IsFiniteSet(T)
    BY <2>3, FS_Subset
  <2>7. Cardinality(Of(T) \cup Of({k})) =
          Cardinality(Of(T)) + Cardinality(Of({k})) - Cardinality(Of(T) \cap Of({k}))
    BY <2>6, FS_Union
  <2>8. Cardinality(Of(T)) \in Nat /\ Cardinality(Of({k})) \in Nat /\ Cardinality({}) = 0
    BY <2>6, FS_CardinalityType, FS_EmptySet
  <2>9. SumFunctionOnSet(f, T \cup {k}) = SumFunctionOnSet(f, T) + f[k]
    BY <2>5, <2>6, SumInsert
  <2>10. SumFunctionOnSet(f, T) = Cardinality(Of(T))
    BY <1>2
  <2>11. Cardinality(Of(T \cup {k})) = Cardinality(Of(T)) + Cardinality(Of({k}))
    <3>1. Cardinality(Of(T \cup {k})) =
            Cardinality(Of(T)) + Cardinality(Of({k})) - Cardinality({})
      BY <2>1, <2>7, Zenon
    <3> QED
      BY <2>8, <3>1
  <2>12. SumFunctionOnSet(f, T \cup {k}) = Cardinality(Of(T \cup {k}))
    BY <2>4, <2>9, <2>10, <2>11
  <2> QED
    BY <2>12
<1>3. K \in P
  <2> HIDE DEF P
  <2> QED
    BY <1>1, <1>2, SubsetInduction
<1> QED
  BY <1>3

(* Over a part of the set the sum of natural numbers is no larger, and is   *)
(* the same if the rest is 0; it is 0 only if all of them are.              *)
LEMMA SumOfPart ==
  ASSUME NEW S, IsFiniteSet(S), NEW f, \A x \in S : f[x] \in Nat, NEW T \in SUBSET S
  PROVE  /\ SumFunctionOnSet(f, T) <= SumFunctionOnSet(f, S)
         /\ (\A x \in S \ T : f[x] = 0) => SumFunctionOnSet(f, T) = SumFunctionOnSet(f, S)
         /\ \A x \in S : f[x] <= SumFunctionOnSet(f, S)
         /\ SumFunctionOnSet(f, S) = 0 <=> \A x \in S : f[x] = 0
         /\ (\E x \in S \ T : f[x] > 0) => SumFunctionOnSet(f, T) < SumFunctionOnSet(f, S)
<1>1. ASSUME NEW U \in SUBSET S
      PROVE  /\ SumFunctionOnSet(f, U) \in Nat
             /\ SumFunctionOnSet(f, S \ U) \in Nat
             /\ SumFunctionOnSet(f, S) = SumFunctionOnSet(f, U) + SumFunctionOnSet(f, S \ U)
  <2>1. /\ U \cup (S \ U) = S /\ U \cap (S \ U) = {}
        /\ (\A x \in U \cup (S \ U) : f[x] \in Int) /\ (\A x \in U : f[x] \in Nat)
        /\ \A x \in S \ U : f[x] \in Nat
    OBVIOUS
  <2>2. IsFiniteSet(U) /\ IsFiniteSet(S \ U)
    BY FS_Subset
  <2>3. SumFunctionOnSet(f, U \cup (S \ U)) = SumFunctionOnSet(f, U) + SumFunctionOnSet(f, S \ U)
    BY <2>1, <2>2, SumParts, Zenon
  <2>4. SumFunctionOnSet(f, U) \in Nat /\ SumFunctionOnSet(f, S \ U) \in Nat
    BY <2>1, <2>2, SumType
  <2>5. SumFunctionOnSet(f, S) = SumFunctionOnSet(f, U) + SumFunctionOnSet(f, S \ U)
    BY <2>1, <2>3, Zenon
  <2> QED
    BY <2>4, <2>5
<1>2. ASSUME NEW U \in SUBSET S, \A x \in U : f[x] = 0
      PROVE  SumFunctionOnSet(f, U) = 0
  <2> DEFINE P == {R \in SUBSET U : SumFunctionOnSet(f, R) = 0}
  <2>1. {} \in P
    BY SumSmall
  <2>2. ASSUME NEW R \in SUBSET U, R \in P, NEW x \in U \ R PROVE R \cup {x} \in P
    <3>1. IsFiniteSet(R) /\ f[x] = 0 /\ \A y \in R \cup {x} : f[y] \in Int
      BY <1>2, FS_Subset
    <3>2. SumFunctionOnSet(f, R \cup {x}) = SumFunctionOnSet(f, R) + f[x]
      BY <3>1, SumInsert
    <3>3. SumFunctionOnSet(f, R) = 0
      BY <2>2
    <3>4. SumFunctionOnSet(f, R \cup {x}) = 0
      BY <3>1, <3>2, <3>3
    <3> QED
      BY <3>4
  <2>3. U \in P
    <3>1. IsFiniteSet(U)
      BY FS_Subset
    <3> HIDE DEF P
    <3> QED
      BY <2>1, <2>2, <3>1, SubsetInduction
  <2> QED
    BY <2>3
<1>3. ASSUME NEW x \in S
      PROVE  f[x] <= SumFunctionOnSet(f, S)
  <2>1. f[x] \in Nat /\ SumFunctionOnSet(f, S \ {x}) \in Nat
    BY <1>1
  <2>2. SumFunctionOnSet(f, S) = f[x] + SumFunctionOnSet(f, S \ {x})
    <3>1. \A y \in S : f[y] \in Int
      OBVIOUS
    <3> QED
      BY <3>1, SumElement
  <2> QED
    BY <2>1, <2>2
<1>4. PICK a \in Nat, b \in Nat :
        /\ a = SumFunctionOnSet(f, T) /\ b = SumFunctionOnSet(f, S \ T)
        /\ SumFunctionOnSet(f, S) = a + b
  BY <1>1, Zenon
<1>5. ASSUME \A x \in S \ T : f[x] = 0
      PROVE  SumFunctionOnSet(f, T) = SumFunctionOnSet(f, S)
  <2>1. b = 0
    BY <1>2, <1>4, <1>5
  <2> QED
    BY <1>4, <2>1
<1>6. SumFunctionOnSet(f, S) = 0 <=> \A x \in S : f[x] = 0
  <2>1. ASSUME SumFunctionOnSet(f, S) = 0, NEW x \in S PROVE f[x] = 0
    <3>1. f[x] <= SumFunctionOnSet(f, S) /\ f[x] \in Nat
      BY <1>3
    <3> QED
      BY <2>1, <3>1
  <2> QED
    BY <1>2, <2>1
<1>7. ASSUME NEW x \in S \ T, f[x] > 0
      PROVE  SumFunctionOnSet(f, T) < SumFunctionOnSet(f, S)
  <2>1. f[x] <= SumFunctionOnSet(f, S \ T)
    <3>1. IsFiniteSet(S \ T) /\ (\A y \in S \ T : f[y] \in Int) /\ (\A y \in S \ T : f[y] \in Nat)
      BY FS_Subset
    <3>2. SumFunctionOnSet(f, S \ T) = f[x] + SumFunctionOnSet(f, (S \ T) \ {x})
      BY <3>1, SumElement
    <3>3. SumFunctionOnSet(f, (S \ T) \ {x}) \in Nat
      <4>1. (S \ T) \ {x} \in SUBSET S
        OBVIOUS
      <4> QED
        BY <1>1, <4>1
    <3>4. f[x] \in Nat
      BY <3>1
    <3> QED
      BY <3>2, <3>3, <3>4
  <2>2. f[x] \in Nat
    OBVIOUS
  <2> QED
    BY <1>1, <1>7, <2>1, <2>2
<1> QED
  BY <1>3, <1>4, <1>5, <1>6, <1>7

(* All elements multiplied by the same number.                              *)
LEMMA SumScaled ==
  ASSUME NEW S, IsFiniteSet(S), NEW f, \A x \in S : f[x] \in Int, NEW c \in Int,
         NEW h, \A x \in S : h[x] = f[x] * c
  PROVE  SumFunctionOnSet(h, S) = SumFunctionOnSet(f, S) * c
<1> DEFINE P == {T \in SUBSET S : SumFunctionOnSet(h, T) = SumFunctionOnSet(f, T) * c}
<1>1. {} \in P
  BY SumSmall
<1>2. ASSUME NEW T \in SUBSET S, T \in P, NEW x \in S \ T PROVE T \cup {x} \in P
  <2>1. IsFiniteSet(T) /\ (\A y \in T \cup {x} : f[y] \in Int) /\ (\A y \in T : f[y] \in Int)
    BY FS_Subset
  <2>2. \A y \in T \cup {x} : h[y] \in Int
    <3> TAKE y \in T \cup {x}
    <3>1. PICK a \in Int : a = f[y] /\ h[y] = a * c
      BY <2>1
    <3> QED
      BY <3>1
  <2>3. /\ SumFunctionOnSet(f, T \cup {x}) = SumFunctionOnSet(f, T) + f[x]
        /\ SumFunctionOnSet(h, T \cup {x}) = SumFunctionOnSet(h, T) + h[x]
    BY <2>1, <2>2, SumInsert
  <2>4. PICK s \in Int, a \in Int : s = SumFunctionOnSet(f, T) /\ a = f[x]
    BY <2>1, SumType
  <2>5. SumFunctionOnSet(h, T) = s * c /\ h[x] = a * c
    BY <1>2, <2>4
  <2>6. s * c + a * c = (s + a) * c
    OBVIOUS
  <2>7. SumFunctionOnSet(h, T \cup {x}) = SumFunctionOnSet(f, T \cup {x}) * c
    BY <2>3, <2>4, <2>5, <2>6
  <2> QED
    BY <2>7
<1>3. S \in P
  <2> HIDE DEF P
  <2> QED
    BY <1>1, <1>2, SubsetInduction
<1> QED
  BY <1>3

(* Two sums in a row: by rows (F, each of which adds up to a part of h), or *)
(* by columns (G, each to a part of g).                                     *)
IsGrid(P, V, F, G, g, h) ==
  /\ IsFiniteSet(P) /\ IsFiniteSet(V)
  /\ \A x \in P : \A v \in V : F[x][v] \in Int /\ G[v][x] = F[x][v]
  /\ \A v \in V : g[v] = SumFunctionOnSet(G[v], P)
  /\ \A x \in P : h[x] = SumFunctionOnSet(F[x], V)

(* The sum of the rows is the sum of the columns.                           *)
LEMMA SumSwaps ==
  ASSUME NEW P, NEW V, NEW F, NEW G, NEW g, NEW h, IsGrid(P, V, F, G, g, h)
  PROVE  SumFunctionOnSet(g, V) = SumFunctionOnSet(h, P)
<1> USE DEF IsGrid
<1> DEFINE part(T) == [v \in V |-> SumFunctionOnSet(G[v], T)]
           Good == {T \in SUBSET P : SumFunctionOnSet(part(T), V) = SumFunctionOnSet(h, T)}
<1>1. \A T \in SUBSET P : IsFiniteSet(T) /\ \A v \in V : part(T)[v] \in Int
  <2> TAKE T \in SUBSET P
  <2>1. IsFiniteSet(T)
    BY FS_Subset
  <2>2. ASSUME NEW v \in V PROVE SumFunctionOnSet(G[v], T) \in Int
    <3>1. \A x \in T : G[v][x] \in Int
      OBVIOUS
    <3> QED
      BY <2>1, <3>1, SumType
  <2> QED
    BY <2>1, <2>2
<1>2. \A x \in P : h[x] \in Int
  BY SumType
<1>3. {} \in Good
  <2>1. \A v \in V : part({})[v] = 0
    BY SumSmall
  <2>2. SumFunctionOnSet(part({}), V) = 0
    <3>1. PICK z : z = part({})
      OBVIOUS
    <3>2. \A v \in V : z[v] \in Nat /\ z[v] = 0
      BY <2>1, <3>1
    <3>3. SumFunctionOnSet(z, V) = 0
      BY <3>2, SumOfPart
    <3> QED
      BY <3>1, <3>3
  <2>3. SumFunctionOnSet(h, {}) = 0
    BY SumSmall
  <2> QED
    BY <2>2, <2>3
<1>4. ASSUME NEW T \in SUBSET P, T \in Good, NEW x \in P \ T PROVE T \cup {x} \in Good
  <2>1. SumFunctionOnSet(h, T \cup {x}) = SumFunctionOnSet(h, T) + h[x]
    <3>1. x \in P /\ x \notin T
      OBVIOUS
    <3> QED
      BY <1>2, <3>1, SumGrows
  <2>2. \A v \in V : part(T \cup {x})[v] = part(T)[v] + F[x][v]
    <3> TAKE v \in V
    <3>1. PICK f : f = G[v]
      OBVIOUS
    <3>2. x \in P /\ x \notin T /\ f[x] = F[x][v] /\ \A y \in P : f[y] \in Int
      BY <3>1
    <3>3. SumFunctionOnSet(f, T \cup {x}) = SumFunctionOnSet(f, T) + f[x]
      BY <3>2, SumGrows
    <3> QED
      BY <3>1, <3>2, <3>3
  <2>3. PICK a, b, c : a = part(T \cup {x}) /\ b = part(T) /\ c = F[x]
    OBVIOUS
  <2>4. \A v \in V : b[v] \in Int /\ c[v] \in Int /\ a[v] = b[v] + c[v]
    BY <1>1, <2>2, <2>3
  <2>5. SumFunctionOnSet(a, V) = SumFunctionOnSet(b, V) + SumFunctionOnSet(c, V)
    BY <2>4, SumPointwise
  <2>6. SumFunctionOnSet(b, V) = SumFunctionOnSet(h, T) /\ h[x] = SumFunctionOnSet(c, V)
    BY <1>4, <2>3
  <2>7. SumFunctionOnSet(a, V) = SumFunctionOnSet(h, T \cup {x})
    BY <2>1, <2>5, <2>6
  <2> QED
    BY <2>3, <2>7
<1>5. P \in Good
  <2> HIDE DEF Good
  <2> QED
    BY <1>3, <1>4, SubsetInduction
<1>6. SumFunctionOnSet(part(P), V) = SumFunctionOnSet(h, P)
  BY <1>5
<1>7. PICK z : z = part(P)
  OBVIOUS
<1>8. \A v \in V : z[v] \in Int /\ g[v] \in Int /\ g[v] = z[v]
  BY <1>1, <1>7
<1>9. SumFunctionOnSet(g, V) = SumFunctionOnSet(z, V)
  BY <1>8, SumPointwise
<1> QED
  BY <1>6, <1>7, <1>9

-----------------------------------------------------------------------------
(* A quotient and what remains.                                             *)
LEMMA Remainder ==
  ASSUME NEW m \in Nat \ {0}, NEW q \in Nat, NEW r \in 0 .. m - 1
  PROVE  (m * q + r) % m = r
OBVIOUS

(* To reduce before adding changes nothing.                                 *)
LEMMA ModuloAdds ==
  ASSUME NEW m \in Nat \ {0}, NEW a \in Nat, NEW b \in Nat
  PROVE  ((a % m) + (b % m)) % m = (a + b) % m
<1>1. \A n \in Nat : \E q \in Nat, r \in 0 .. m - 1 : n = m * q + r /\ n % m = r
  <2> TAKE n \in Nat
  <2>1. n \div m \in Nat /\ n % m \in 0 .. m - 1 /\ n = (m * (n \div m)) + (n % m)
    OBVIOUS
  <2> QED
    BY <2>1
<1>2. PICK p \in Nat, r \in 0 .. m - 1 : a = m * p + r /\ a % m = r
  BY <1>1
<1>3. PICK q \in Nat, s \in 0 .. m - 1 : b = m * q + s /\ b % m = s
  BY <1>1
<1>4. PICK k \in Nat : k = p + q /\ a + b = m * k + (r + s)
  <2>1. p + q \in Nat /\ m * p + r + (m * q + s) = m * (p + q) + (r + s)
    OBVIOUS
  <2> QED
    BY <1>2, <1>3, <2>1
<1>5. CASE r + s < m
  <2>1. r + s \in 0 .. m - 1
    BY <1>5
  <2>2. (m * k + (r + s)) % m = r + s /\ (r + s) % m = r + s
    BY <2>1, Remainder, ModuloWraps
  <2> QED
    BY <1>2, <1>3, <1>4, <2>2
<1>6. CASE ~(r + s < m)
  <2>1. PICK u \in 0 .. m - 1 : r + s = m + u
    <3>1. r + s - m \in 0 .. m - 1 /\ r + s = m + (r + s - m)
      BY <1>6
    <3> QED
      BY <3>1
  <2>2. m * k + (m + u) = m * (k + 1) + u /\ m + u = m * 1 + u /\ k + 1 \in Nat
    OBVIOUS
  <2>3. (m * (k + 1) + u) % m = u /\ (m * 1 + u) % m = u
    BY <2>2, Remainder
  <2>4. (a + b) % m = u
    BY <1>4, <2>1, <2>2, <2>3
  <2>5. (r + s) % m = u
    BY <2>1, <2>2, <2>3
  <2> QED
    BY <1>2, <1>3, <2>4, <2>5
<1> QED
  BY <1>5, <1>6

=============================================================================

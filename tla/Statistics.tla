----------------------------- MODULE Statistics -----------------------------
(***************************************************************************)
(* The two containers results are kept in: Histogram<uint64_t> (latencies, *)
(* Histogram.h) and IoBucketizer (I/Os per interval, IoBucketizer.cc).     *)
(* Both count in unsigned.  An empty std::unordered_map or std::vector is  *)
(* <<>>; bucket number n of the code is position n + 1 of the sequence.    *)
(***************************************************************************)

EXTENDS Integers, Sequences, FiniteSetsExt, Functions

CONSTANTS
  CountMod,     \* unsigned counts modulo CountMod (2^32)
  ValueMax      \* the highest value of a histogram (2^64 - 1)

ASSUME StatisticsAssumption == CountMod \in Nat \ {0} /\ ValueMax \in Nat

-----------------------------------------------------------------------------
(* Histogram: how often each value was added, and how many were.            *)
EmptyHistogram == [samples |-> 0, data |-> <<>>]

(* operator[] of the map: a value not there yet is there with count 0.      *)
CountOf(h, v) == IF v \in DOMAIN h.data THEN h.data[v] ELSE 0

HistogramAdd(h, v) ==
  [samples |-> (h.samples + 1) % CountMod,
   data    |-> [x \in DOMAIN h.data \cup {v} |->
                  IF x = v THEN (CountOf(h, v) + 1) % CountMod ELSE h.data[x]]]

(* Mutant: the samples of the other are counted for each of its values.     *)
HistogramMerge_SamplesPerValue(h, other) ==
  [samples |-> (h.samples + other.samples * Cardinality(DOMAIN other.data)) % CountMod,
   data    |-> [x \in DOMAIN h.data \cup DOMAIN other.data |->
                  (CountOf(h, x) + CountOf(other, x)) % CountMod]]

HistogramMerge(h, other) ==
  [samples |-> (h.samples + other.samples) % CountMod,
   data    |-> [x \in DOMAIN h.data \cup DOMAIN other.data |->
                  (CountOf(h, x) + CountOf(other, x)) % CountMod]]

(* How many values up to v the loop of GetPercentile has counted.           *)
CountUpTo(h, v) == SumFunctionOnSet(h.data, {x \in DOMAIN h.data : x <= v}) % CountMod

(* Mutant: one sample too many is asked for.                                *)
Reaches_Strictly(h, v, p) == CountUpTo(h, v) * p.den > h.samples * p.num

(* cur >= target, for the percentile p.num / p.den.                         *)
Reaches(h, v, p) == CountUpTo(h, v) * p.den >= h.samples * p.num

(* GetPercentile throws where no value reaches the target.                  *)
HasPercentile(h, p) == \E v \in DOMAIN h.data : Reaches(h, v, p)

(* ... and otherwise returns the first that does, in ascending order.       *)
GetPercentile(h, p) == Min({v \in DOMAIN h.data : Reaches(h, v, p)})

GetMin(h) == Min(DOMAIN h.data \cup {ValueMax})

GetMax(h) == Max(DOMAIN h.data \cup {0})

(* The sum of the values added, and of their squares.                       *)
Values(h)  == SumFunction([v \in DOMAIN h.data |-> h.data[v] * v])
Squares(h) == SumFunction([v \in DOMAIN h.data |-> h.data[v] * v * v])

(* GetMean, as a fraction: 0 when nothing was added.                        *)
GetMean(h) == IF DOMAIN h.data = {} THEN [num |-> 0, den |-> 1]
              ELSE [num |-> Values(h), den |-> h.samples]

(* GetStandardDeviation of the values, squared and multiplied by the square *)
(* of the number of samples.                                                *)
ScaledDeviation(h) == h.samples * Squares(h) - Values(h) * Values(h)

-----------------------------------------------------------------------------
(* IoBucketizer: duration 0 is INVALID_BUCKET_DURATION.                     *)
NewBucketizer == [duration |-> 0, valid |-> 0, buckets |-> <<>>]

Initialize(duration, valid) == [duration |-> duration, valid |-> valid, buckets |-> <<>>]

(* The bucket a time falls in, as a position.                               *)
BucketNumber(b, time) == time \div b.duration + 1

GetIoBucket(b, i) == IF i \in DOMAIN b.buckets THEN b.buckets[i] ELSE 0

(* Mutant: the whole vector is zeroed when it grows.                        *)
BucketAdd_ZeroesAll(b, time) ==
  LET n == BucketNumber(b, time)
  IN  [b EXCEPT !.buckets = [i \in 1 .. Max({Len(b.buckets), n}) |->
         IF Len(b.buckets) < n THEN (IF i = n THEN 1 ELSE 0)
         ELSE (GetIoBucket(b, i) + (IF i = n THEN 1 ELSE 0)) % CountMod]]

(* Add: the vector grows to the bucket of the time, filled up with 0.       *)
BucketAdd(b, time) ==
  LET n == BucketNumber(b, time)
  IN  [b EXCEPT !.buckets = [i \in 1 .. Max({Len(b.buckets), n}) |->
         (GetIoBucket(b, i) + (IF i = n THEN 1 ELSE 0)) % CountMod]]

(* Mutant: all buckets are valid.                                           *)
GetNumberOfValidBuckets_All(b) == Len(b.buckets)

(* Buckets beyond the expected number are not counted.                      *)
GetNumberOfValidBuckets(b) == Min({Len(b.buckets), b.valid})

(* Mutant: only the buckets both have are merged.                           *)
BucketMerge_NoGrowth(b, other) ==
  [b EXCEPT !.valid = Max({b.valid, other.valid}),
            !.buckets = [i \in 1 .. Max({Len(b.buckets), Min({1, Len(other.buckets)})}) |->
                           (GetIoBucket(b, i) + GetIoBucket(other, i)) % CountMod]]

(* Merge.                                                                   *)
BucketMerge(b, other) ==
  [b EXCEPT !.valid = Max({b.valid, other.valid}),
            !.buckets = [i \in 1 .. Max({Len(b.buckets), Len(other.buckets)}) |->
                           (GetIoBucket(b, i) + GetIoBucket(other, i)) % CountMod]]

(* GetStandardDeviation squared and multiplied by the square of the number  *)
(* of valid buckets, which keeps it an integer: n * sum(x^2) - sum(x)^2.    *)
ScaledVariance(b) ==
  LET n    == GetNumberOfValidBuckets(b)
      sum  == SumFunctionOnSet(b.buckets, 1 .. n)
      sqrs == SumFunctionOnSet([i \in DOMAIN b.buckets |-> b.buckets[i] * b.buckets[i]], 1 .. n)
  IN  n * sqrs - sum * sum
=============================================================================

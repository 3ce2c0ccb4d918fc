------------------------------ MODULE MCReport ------------------------------
(* Instances of Report for TLC: two rows, each direction with up to three   *)
(* operations of some latencies (us) in some intervals (ms), and two CPUs.  *)
EXTENDS Report

(* The results of a direction after operations <<latency, time>>.           *)
ResultsOf(ops) ==
  LET n == Len(ops)
      r[i \in 0 .. n] ==
        IF i = 0 THEN [Nothing EXCEPT !.bucketizer = Initialize(2, 2)]
        ELSE [bytes |-> r[i - 1].bytes + 4, iops |-> r[i - 1].iops + 1,
              histogram |-> HistogramAdd(r[i - 1].histogram, ops[i][1]),
              bucketizer |-> BucketAdd(r[i - 1].bucketizer, ops[i][2])]
  IN  r[n]

MCDirections ==
  {ResultsOf(ops) : ops \in {<<>>, <<<<1, 0>>>>, <<<<3, 3>>>>, <<<<0, 0>>, <<3, 1>>>>,
                             <<<<1, 1>>, <<1, 2>>, <<4, 5>>>>}}

TimesOf(user, nice, kernel, idle, iowait) ==
  [user |-> user, nice |-> nice, kernel |-> kernel, idle |-> idle, iowait |-> iowait]

(* Both CPUs busy in different ways; one of them idle all the time.         *)
MCCpuTimes ==
  LET start == TimesOf(5, 0, 3, 7, 1)
      busy  == [init |-> start, end |-> TimesOf(6, 1, 4, 7, 2)]
      mixed == [init |-> start, end |-> TimesOf(5, 0, 4, 9, 2)]
      idle  == [init |-> start, end |-> TimesOf(5, 0, 3, 8, 1)]
  IN  {<<busy, mixed>>, <<mixed, idle>>}

MCPercentiles == <<[num |-> 1, den |-> 4], [num |-> 1, den |-> 2], [num |-> 9, den |-> 10]>>
=============================================================================

------------------------------- MODULE Report -------------------------------
(***************************************************************************)
(* The results of a job as ResultFormatterText prints them                 *)
(* (result_formatter.cc): the CPU usage, three tables of I/Os with a row   *)
(* per thread and target and a total, and the latency percentiles.  main   *)
(* prints them when run_job has returned TRUE, so nothing else runs.       *)
(***************************************************************************)

EXTENDS Statistics, CpuUsage

CONSTANTS
  NumRows,       \* pairs of a thread and a target
  Directions,    \* the results of one direction a worker may have recorded
  CpuTimes,      \* for each online CPU in order, its times [init, end]: the cases
  Percentiles    \* the percentiles printed, as records [num, den], ascending

(* The histogram of a direction has a count for each latency that occurred, *)
(* and its samples are all of them, not enough to wrap around.  All         *)
(* bucketizers of a job expect the same number of buckets (thread.cc:70).   *)
ASSUME ReportAssumption ==
  /\ NumRows \in Nat
  /\ Percentiles \in Seq([num : Nat \ {0}, den : Nat \ {0}])
  /\ \A cpus \in CpuTimes : cpus \in Seq([init : [Times -> Nat], end : [Times -> Nat]])
  /\ \A d \in Directions :
       /\ DOMAIN d = {"bytes", "iops", "histogram", "bucketizer"}
       /\ {d.bytes, d.iops} \subseteq Nat
       /\ DOMAIN d.histogram.data \subseteq 0 .. ValueMax
       /\ \A v \in DOMAIN d.histogram.data : d.histogram.data[v] \in Nat \ {0}
       /\ d.histogram.samples = SumFunction(d.histogram.data)
       /\ d.histogram.samples < CountMod
       /\ d.bucketizer.buckets \in Seq(0 .. CountMod - 1)
       /\ d.bucketizer.valid \in Nat
       /\ \A e \in Directions : e.bucketizer.valid = d.bucketizer.valid

Rows == 1 .. NumRows

VARIABLES
  options,       \* measure_latency (-L) and measure_iops_std_dev (-D)
  times,         \* the CPU times the job has read
  results,       \* the TargetResults of each row
  step,          \* the table printed, or what follows the tables
  row,           \* the row it is at
  total,         \* the accumulators of the table of I/Os
  cpu_totals,    \* the accumulators of the CPU table
  table,         \* what was printed: rows and total of each table
  latencies,     \* the three histograms accumulated for the percentiles
  lines          \* what was printed of them: a line each

given    == <<options, times, results>>
sums     == <<total, cpu_totals, latencies>>
printed  == <<table, lines>>
vars     == <<given, step, row, sums, printed>>

Section   == {"RW", "READ", "WRITE"}
Direction == {"READ", "WRITE"}
Step      == {"CPU"} \cup Section \cup {"merge", "percentiles", "done", "terminated"}

(* Mutant: the reads are printed again after the writes.                    *)
After_ReadsAgain(section) ==
  CASE section = "RW"    -> "READ"
    [] section = "READ"  -> "WRITE"
    [] section = "WRITE" -> "READ"

(* The order of the tables.                                                 *)
After(section) ==
  CASE section = "RW"    -> "READ"
    [] section = "READ"  -> "WRITE"
    [] section = "WRITE" -> IF options.measure_latency THEN "merge" ELSE "done"

Nothing == [bytes |-> 0, iops |-> 0, histogram |-> EmptyHistogram, bucketizer |-> NewBucketizer]

NoShare == [num |-> 0, den |-> 1]

(* What a worker has recorded under the options of the job.                 *)
Recorded(o, d) ==
  [d EXCEPT !.histogram  = IF o.measure_latency THEN @ ELSE EmptyHistogram,
            !.bucketizer = IF o.measure_iops_std_dev THEN @ ELSE NewBucketizer]

(* bytes_count and iops_count, which a worker counts besides those of the   *)
(* two directions.                                                          *)
BothOf(read, write) == [bytes |-> read.bytes + write.bytes, iops |-> read.iops + write.iops]

Init ==
  /\ options \in [measure_latency : BOOLEAN, measure_iops_std_dev : BOOLEAN]
  /\ times \in CpuTimes
  /\ \E recorded \in [Rows -> [Direction -> Directions]] :
       results = [r \in Rows |->
         [READ  |-> Recorded(options, recorded[r]["READ"]),
          WRITE |-> Recorded(options, recorded[r]["WRITE"]),
          RW    |-> BothOf(recorded[r]["READ"], recorded[r]["WRITE"])]]
  /\ step = "CPU"
  /\ row = 1
  /\ total = Nothing
  /\ cpu_totals = [c \in Columns |-> NoShare]
  /\ table = [s \in {"CPU"} \cup Section |-> <<>>]
  /\ latencies = [s \in Section |-> EmptyHistogram]
  /\ lines = <<>>

-----------------------------------------------------------------------------
(* The CPU table: one CPU.                                                  *)
PrintCpu ==
  LET usage == Usage(times[row].init, times[row].end)
  IN
  /\ step = "CPU"
  /\ row <= Len(times)
  /\ table' = [table EXCEPT !["CPU"] = Append(@, usage)]
  /\ cpu_totals' = [c \in Columns |-> AddShares(cpu_totals[c], usage[c])]
  /\ row' = row + 1
  /\ UNCHANGED <<given, step, total, latencies, lines>>

(* ... over the CPUs that are online.                                       *)
Average(sum) == [sum EXCEPT !.den = @ * Len(times)]

(* The CPU table: the averages.                                             *)
PrintAverages ==
  /\ step = "CPU"
  /\ row > Len(times)
  /\ table' = [table EXCEPT !["CPU"] = Append(@, [c \in Columns |-> Average(cpu_totals[c])])]
  /\ step' = "RW"
  /\ row' = 1
  /\ UNCHANGED <<given, sums, lines>>

-----------------------------------------------------------------------------
(* What a row has of a section: IOPS_GET takes the counters of the section, *)
(* curr_bucketizer and curr_histogram merge the directions in it.           *)
Current(r, section) ==
  LET dirs == IF section = "RW" THEN <<"READ", "WRITE">> ELSE <<section>>
      histogram(i)  == results[r][dirs[i]].histogram
      bucketizer(i) == results[r][dirs[i]].bucketizer
      first  == [bytes |-> results[r][section].bytes, iops |-> results[r][section].iops,
                 histogram  |-> HistogramMerge(EmptyHistogram, histogram(1)),
                 bucketizer |-> BucketMerge(NewBucketizer, bucketizer(1))]
  IN  IF section = "RW"
      THEN [first EXCEPT !.histogram  = HistogramMerge(@, histogram(2)),
                         !.bucketizer = BucketMerge(@, bucketizer(2))]
      ELSE first

(* ... is added to the totals.                                              *)
Accumulate(acc, current) ==
  [bytes      |-> acc.bytes + current.bytes,
   iops       |-> acc.iops + current.iops,
   histogram  |-> HistogramMerge(acc.histogram, current.histogram),
   bucketizer |-> BucketMerge(acc.bucketizer, current.bucketizer)]

(* A column that is printed, or not printed or "N/A".                       *)
PrintIf(condition, value) == IF condition THEN {value} ELSE {}

(* The columns of a row: the standard deviations as scaled variances, with  *)
(* the number of buckets or samples they are scaled by.                     *)
Printed(r) ==
  [bytes |-> r.bytes, iops |-> r.iops,
   iops_dev |-> PrintIf(options.measure_iops_std_dev,
                  <<ScaledVariance(r.bucketizer), GetNumberOfValidBuckets(r.bucketizer)>>),
   avg      |-> PrintIf(options.measure_latency, GetMean(r.histogram)),
   lat_dev  |-> PrintIf(options.measure_latency /\ r.histogram.samples > 0,
                  <<ScaledDeviation(r.histogram), r.histogram.samples>>)]

(* print_iops: one row.                                                     *)
PrintRow ==
  /\ step \in Section
  /\ row <= NumRows
  /\ total' = Accumulate(total, Current(row, step))
  /\ table' = [table EXCEPT ![step] = Append(@, Printed(Current(row, step)))]
  /\ row' = row + 1
  /\ UNCHANGED <<given, step, cpu_totals, latencies, lines>>

(* print_iops: the last row, the total.  Without -L that was all.           *)
PrintTotal ==
  /\ step \in Section
  /\ row > NumRows
  /\ table' = [table EXCEPT ![step] = Append(@, Printed(total))]
  /\ total' = Nothing
  /\ step' = After(step)
  /\ row' = 1
  /\ UNCHANGED <<given, cpu_totals, latencies, lines>>

(* The histograms for the percentiles: one row.  The total gets the read    *)
(* and write histograms accumulated so far.                                 *)
MergeRow ==
  LET reads  == HistogramMerge(latencies.READ, results[row].READ.histogram)
      writes == HistogramMerge(latencies.WRITE, results[row].WRITE.histogram)
  IN
  /\ step = "merge"
  /\ row <= NumRows
  /\ latencies' = [READ |-> reads, WRITE |-> writes,
                   RW |-> HistogramMerge(HistogramMerge(latencies.RW, reads), writes)]
  /\ row' = row + 1
  /\ UNCHANGED <<given, step, total, cpu_totals, printed>>

MergeDone ==
  /\ step = "merge"
  /\ row > NumRows
  /\ step' = "percentiles"
  /\ UNCHANGED <<given, row, sums, printed>>

(* The lines: the minimum, the percentiles, the maximum.                    *)
MinLine == 1
MaxLine == Len(Percentiles) + 2

HasValue(i, h) == i \in {MinLine, MaxLine} \/ HasPercentile(h, Percentiles[i - 1])

Value(i, h) ==
  CASE i = MinLine -> GetMin(h)
    [] i = MaxLine -> GetMax(h)
    [] OTHER       -> GetPercentile(h, Percentiles[i - 1])

(* One line.  The total column is asked for unconditionally.  GetPercentile *)
(* throws if there is none, which ends the program.                         *)
PrintLine ==
  LET i == Len(lines) + 1
      columns == {s \in Section : s = "RW" \/ latencies[s].samples > 0}
  IN
  /\ step = "percentiles"
  /\ i <= MaxLine
  /\ IF \A s \in columns : HasValue(i, latencies[s])
     THEN /\ lines' = Append(lines,
                [s \in Section |-> {Value(i, latencies[c]) : c \in columns \cap {s}}])
          /\ UNCHANGED step
     ELSE step' = "terminated" /\ UNCHANGED lines
  /\ UNCHANGED <<given, row, sums, table>>

PrintDone ==
  /\ step = "percentiles"
  /\ Len(lines) = MaxLine
  /\ step' = "done"
  /\ UNCHANGED <<given, row, sums, printed>>

Terminated == step \in {"done", "terminated"} /\ UNCHANGED vars

Next ==
  \/ PrintCpu \/ PrintAverages \/ PrintRow \/ PrintTotal
  \/ MergeRow \/ MergeDone \/ PrintLine \/ PrintDone
  \/ Terminated

Spec == Init /\ [][Next]_vars /\ WF_vars(Next)

-----------------------------------------------------------------------------
(***************************************************************************)
(* Properties.                                                             *)
(***************************************************************************)

TypeOK ==
  /\ options \in [measure_latency : BOOLEAN, measure_iops_std_dev : BOOLEAN]
  /\ times \in CpuTimes
  /\ DOMAIN results = Rows
  /\ step \in Step
  /\ row \in 1 .. NumRows + 1 \/ (step = "CPU" /\ row \in 1 .. Len(times) + 1)
  /\ \A s \in Section : Len(table[s]) <= NumRows + 1
  /\ Len(table["CPU"]) <= Len(times) + 1
  /\ Len(lines) <= MaxLine

DirectionsOf(s) == IF s = "RW" THEN Direction ELSE {s}

(* The pairs of a row and a direction in a row of a table, or in its total. *)
PartsOf(s, i) == (IF i \in Rows THEN {i} ELSE Rows) \X DirectionsOf(s)

(* The bytes and I/Os of every row and total are those of the workers it    *)
(* stands for, counted in both directions; and the usage, wait and idle     *)
(* shares of a CPU, or of the average CPU, make up all of its time, of      *)
(* which its users and the kernel have used what counts as usage.           *)
TablesAddUp ==
  /\ \A s \in Section : \A i \in DOMAIN table[s] :
       LET of(field) == SumFunction([x \in PartsOf(s, i) |-> results[x[1]][x[2]][field]])
       IN  table[s][i].bytes = of("bytes") /\ table[s][i].iops = of("iops")
  /\ \A i \in DOMAIN table["CPU"] :
       LET share(c)  == table["CPU"][i][c]
           sum(a, b) == AddShares(share(a), share(b))
       IN  /\ SameShare(share("Usage"), sum("User", "Kernel"))
           /\ SameShare(AddShares(share("Usage"), sum("IO Wait", "Idle")),
                        [num |-> 1, den |-> 1])

(* The standard deviations in a row are those of all I/Os it stands for     *)
(* together.  For I/Os per interval the buckets are added up interval by    *)
(* interval, over as many intervals as the part with the most has; for      *)
(* latencies, each recorded one counts once.                                *)
StdDevOfAll ==
  \A s \in Section : \A i \in DOMAIN table[s] :
    LET parts == PartsOf(s, i)
        bucketizer(x) == results[x[1]][x[2]].bucketizer
        data(x)       == results[x[1]][x[2]].histogram.data
        n    == Max({0} \cup {GetNumberOfValidBuckets(bucketizer(x)) : x \in parts})
        ios  == [k \in 1 .. n |-> SumFunction([x \in parts |-> GetIoBucket(bucketizer(x), k)])]
        power(v, k) == IF k = 0 THEN 1 ELSE IF k = 1 THEN v ELSE v * v
        moment(k) == SumFunction([x \in parts |->
                       SumFunction([v \in DOMAIN data(x) |-> data(x)[v] * power(v, k)])])
    IN  /\ options.measure_iops_std_dev =>
             table[s][i].iops_dev =
               {<<n * SumFunction([k \in 1 .. n |-> ios[k] * ios[k]])
                    - SumFunction(ios) * SumFunction(ios), n>>}
        /\ table[s][i].lat_dev =
             PrintIf(moment(0) > 0, <<moment(0) * moment(2) - moment(1) * moment(1), moment(0)>>)
        /\ \A mean \in table[s][i].avg :
             mean.num * moment(0) = moment(1) * mean.den

(* How many latencies up to v the rows have in the directions of a column.  *)
LatenciesUpTo(s, v) ==
  SumFunction([x \in PartsOf(s, 0) |->
    LET data == results[x[1]][x[2]].histogram.data
    IN  SumFunctionOnSet(data, {l \in DOMAIN data : l <= v})])

Samples(s) == LatenciesUpTo(s, ValueMax)

(* A percentile printed for the reads or the writes is the smallest latency *)
(* that so many of all of them, over all rows, did not exceed, with the     *)
(* smallest and the largest of them as its extremes; and these are exact in *)
(* the total column, too, when anything was recorded.                       *)
PercentilesExact ==
  \A i \in DOMAIN lines : \A s \in Section :
    LET p     == Percentiles[i - 1]
        below(v) == IF v = 0 THEN 0 ELSE LatenciesUpTo(s, v - 1)
    IN  /\ s # "RW" => (lines[i][s] = {} <=> Samples(s) = 0)
        /\ Samples(s) > 0 => \A v \in lines[i][s] :
             CASE i = MinLine -> below(v) = 0 /\ LatenciesUpTo(s, v) > 0
               [] i = MaxLine -> below(v) < Samples(s) /\ LatenciesUpTo(s, v) = Samples(s)
               [] OTHER -> s # "RW" =>
                    /\ LatenciesUpTo(s, v) * p.den >= Samples(s) * p.num
                    /\ below(v) * p.den < Samples(s) * p.num

(* A report is printed to its end if it has no latencies to print or any    *)
(* operation was recorded.                                                  *)
ReportCompletes ==
  (options.measure_latency => Samples("RW") > 0) => <>(step = "done")

-----------------------------------------------------------------------------
(* result_formatter.cc:145: the histograms accumulate "all reads and        *)
(* write": the total histogram has every recorded operation, once.          *)
TotalHasEachOnce ==
  step = "percentiles" => latencies.RW.samples = Samples("READ") + Samples("WRITE")
=============================================================================

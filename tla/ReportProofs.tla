---------------------------- MODULE ReportProofs ----------------------------
(***************************************************************************)
(* Theorems about Report for any number of rows, CPUs and percentiles, and *)
(* any results: types, that the tables add up, that the standard           *)
(* deviations are those of all I/Os a row stands for, and that the         *)
(* percentiles are exact.                                                  *)
(***************************************************************************)

EXTENDS Report, DataLemmas

-----------------------------------------------------------------------------
(***************************************************************************)
(* The inductive invariant: what has been printed when.                    *)
(***************************************************************************)

(* A sequence, of whatever.                                                 *)
IsSequence(q) == \E S : q \in Seq(S)

(* Appending to it adds a last element and leaves the others.               *)
LEMMA AppendAny ==
  ASSUME NEW q, IsSequence(q), NEW e
  PROVE  /\ IsSequence(Append(q, e))
         /\ Len(q) \in Nat /\ DOMAIN q = 1 .. Len(q)
         /\ Len(Append(q, e)) = Len(q) + 1
         /\ DOMAIN Append(q, e) = 1 .. Len(q) + 1
         /\ \A i \in 1 .. Len(q) : Append(q, e)[i] = q[i]
         /\ Append(q, e)[Len(q) + 1] = e
<1>1. PICK S : q \in Seq(S)
  BY DEF IsSequence
<1>2. q \in Seq(S \cup {e})
  BY <1>1
<1>3. Append(q, e) \in Seq(S \cup {e}) /\ Len(q) \in Nat /\ DOMAIN q = 1 .. Len(q)
  BY <1>2, AppendProperties, LenProperties
<1>4. /\ Len(Append(q, e)) = Len(q) + 1
      /\ \A i \in 1 .. Len(q) : Append(q, e)[i] = q[i]
      /\ Append(q, e)[Len(q) + 1] = e
  BY <1>2, AppendProperties
<1>5. DOMAIN Append(q, e) = 1 .. Len(q) + 1
  BY <1>3, <1>4, LenProperties
<1> QED
  BY <1>3, <1>4, <1>5 DEF IsSequence

(* The tables that are complete at a step.                                  *)
Complete(st) ==
  IF st = "CPU" THEN {} ELSE
  IF st = "RW" THEN {"CPU"} ELSE
  IF st = "READ" THEN {"CPU", "RW"} ELSE
  IF st = "WRITE" THEN {"CPU", "RW", "READ"} ELSE {"CPU"} \cup Section

(* How many rows of a table the results have.                               *)
RowsOf(s) == IF s = "CPU" THEN Len(times) ELSE NumRows

(* Each table in turn is printed row by row, then its total; then the       *)
(* lines of the percentiles.                                                *)
OrderInv ==
  /\ options \in [measure_latency : BOOLEAN, measure_iops_std_dev : BOOLEAN]
  /\ times \in CpuTimes
  /\ DOMAIN results = Rows
  /\ step \in Step
  /\ row \in 1 .. RowsOf(step) + 1
  /\ DOMAIN table = {"CPU"} \cup Section
  /\ \A s \in {"CPU"} \cup Section :
       /\ IsSequence(table[s])
       /\ Len(table[s]) = IF s = step THEN row - 1
                          ELSE IF s \in Complete(step) THEN RowsOf(s) + 1 ELSE 0
  /\ IsSequence(lines)
  /\ Len(lines) <= MaxLine
  /\ step \notin {"percentiles", "done", "terminated"} => lines = <<>>
  /\ step \in {"merge", "percentiles"} \/ lines # <<>> => options.measure_latency

(* The constants a job is reported with.                                    *)
LEMMA Numbers ==
  /\ NumRows \in Nat
  /\ \A cpus \in CpuTimes : Len(cpus) \in Nat
  /\ Len(Percentiles) \in Nat
  /\ MinLine = 1 /\ MaxLine \in Nat /\ MaxLine = Len(Percentiles) + 2
<1>1. NumRows \in Nat /\ Percentiles \in Seq([num : Nat \ {0}, den : Nat \ {0}])
  BY ReportAssumption DEF ReportAssumption
<1>2. \A cpus \in CpuTimes : cpus \in Seq([init : [Times -> Nat], end : [Times -> Nat]])
  BY ReportAssumption DEF ReportAssumption
<1> QED
  BY <1>1, <1>2, LenProperties DEF MinLine, MaxLine

(* Nothing is printed at first.                                             *)
LEMMA InitOrder == Init => OrderInv
<1> SUFFICES ASSUME Init PROVE OrderInv
  OBVIOUS
<1>1. IsSequence(<<>>) /\ Len(<<>>) = 0
  BY DEF IsSequence
<1>2. DOMAIN results = Rows
  <2>1. PICK recorded \in [Rows -> [Direction -> Directions]] :
       results = [r \in Rows |->
         [READ  |-> Recorded(options, recorded[r]["READ"]),
          WRITE |-> Recorded(options, recorded[r]["WRITE"]),
          RW    |-> BothOf(recorded[r]["READ"], recorded[r]["WRITE"])]]
    BY DEF Init
  <2> QED
    BY <2>1
<1>3. Complete("CPU") = {} /\ RowsOf("CPU") \in Nat
  BY Numbers DEF Complete, RowsOf, Init
<1>4. /\ step = "CPU" /\ row = 1 /\ table = [s \in {"CPU"} \cup Section |-> <<>>] /\ lines = <<>>
      /\ options \in [measure_latency : BOOLEAN, measure_iops_std_dev : BOOLEAN]
      /\ times \in CpuTimes
  BY DEF Init
<1>5. step \in Step /\ row \in 1 .. RowsOf(step) + 1
  BY <1>3, <1>4 DEF Step
<1> QED
  BY <1>1, <1>2, <1>3, <1>4, <1>5, Numbers DEF OrderInv

(* What the order means for the tables: one grows, at the row it is at.     *)
LEMMA OneRow ==
  ASSUME OrderInv, step \in {"CPU"} \cup Section, NEW e, UNCHANGED <<given, lines>>,
         table' = [table EXCEPT ![step] = Append(@, e)],
         \/ row <= RowsOf(step) /\ row' = row + 1 /\ step' = step
         \/ /\ row > RowsOf(step) /\ row' = 1
            /\ step' \in Step \ Complete(step) /\ step' # step
            /\ Complete(step') \cap ({"CPU"} \cup Section) = Complete(step) \cup {step}
            /\ step' \notin {"percentiles", "terminated"}
            /\ step' = "merge" => options.measure_latency
  PROVE  /\ OrderInv'
         /\ \A s \in {"CPU"} \cup Section :
              DOMAIN table'[s] = DOMAIN table[s] \cup (IF s = step THEN {row} ELSE {})
         /\ \A s \in {"CPU"} \cup Section : \A i \in DOMAIN table[s] : table'[s][i] = table[s][i]
         /\ table'[step][row] = e
<1> DEFINE Tables == {"CPU"} \cup Section
<1>1. /\ UNCHANGED <<options, times, results, lines>>
      /\ \A s : RowsOf(s)' = RowsOf(s)
  BY DEF given, RowsOf
<1>2. PICK n \in Nat : n = RowsOf(step) /\ row \in 1 .. n + 1
  BY Numbers DEF OrderInv, RowsOf
<1>3. /\ DOMAIN table = Tables
      /\ \A s \in Tables :
           /\ IsSequence(table[s])
           /\ Len(table[s]) = IF s = step THEN row - 1
                              ELSE IF s \in Complete(step) THEN RowsOf(s) + 1 ELSE 0
  BY DEF OrderInv
<1>4. PICK q : q = table[step] /\ IsSequence(q) /\ Len(q) = row - 1
  BY <1>3
<1>5. /\ DOMAIN table' = Tables /\ table'[step] = Append(q, e)
      /\ \A s \in Tables \ {step} : table'[s] = table[s]
  BY <1>3, <1>4
<1>6. /\ IsSequence(Append(q, e)) /\ Len(Append(q, e)) = row
      /\ DOMAIN q = 1 .. row - 1 /\ DOMAIN Append(q, e) = 1 .. row
      /\ \A i \in 1 .. row - 1 : Append(q, e)[i] = q[i]
      /\ Append(q, e)[row] = e
  <2>1. row - 1 + 1 = row
    BY <1>2
  <2> QED
    BY <1>4, <2>1, AppendAny
<1>7. \A s \in Tables : IsSequence(table'[s])
  BY <1>3, <1>5, <1>6
<1>8. ASSUME NEW s \in Tables
      PROVE  Len(table'[s]) = IF s = step' THEN row' - 1
                              ELSE IF s \in Complete(step') THEN RowsOf(s) + 1 ELSE 0
  <2>1. CASE row <= RowsOf(step) /\ row' = row + 1 /\ step' = step
    <3>1. row' - 1 = row
      BY <1>2, <2>1
    <3>2. CASE s = step
      BY <1>5, <1>6, <2>1, <3>1, <3>2
    <3>3. CASE s # step
      BY <1>3, <1>5, <2>1, <3>3
    <3> QED
      BY <3>2, <3>3
  <2>2. CASE ~(row <= RowsOf(step))
    <3>1. /\ row = n + 1 /\ row' = 1 /\ step' \notin Complete(step) /\ step' # step
          /\ s \in Complete(step') <=> s \in Complete(step) \cup {step}
      BY <1>2, <2>2
    <3>2. CASE s = step
      BY <1>2, <1>5, <1>6, <3>1, <3>2
    <3>3. CASE s # step
      BY <1>3, <1>5, <3>1, <3>3
    <3> QED
      BY <3>2, <3>3
  <2> QED
    BY <1>2, <2>1, <2>2
<1>9. row' \in 1 .. RowsOf(step') + 1 /\ step' \in Step
  <2>1. \A s \in Step : RowsOf(s) \in Nat
    BY Numbers DEF OrderInv, RowsOf
  <2>2. step \in Step /\ step' \in Step
    BY DEF OrderInv
  <2>3. RowsOf(step') \in Nat
    BY <2>1, <2>2
  <2> QED
    BY <1>2, <2>2, <2>3
<1>10. OrderInv'
  <2>1. RowsOf(step)' = RowsOf(step')
    BY <1>1 DEF RowsOf
  <2>2. step \notin {"percentiles", "done", "terminated"}
    BY DEF Section
  <2>3. lines' = <<>> /\ (step' = "merge" => options'.measure_latency) /\ step' # "percentiles"
    BY <1>1, <2>2 DEF OrderInv, Section
  <2>4. MaxLine' = MaxLine
    BY DEF MaxLine
  <2>5. (IsSequence(lines) /\ Len(lines) <= MaxLine)'
    BY <1>1, <2>4 DEF OrderInv
  <2>6. Complete(step)' = Complete(step')
    BY DEF Complete
  <2> QED
    BY <1>1, <1>5, <1>7, <1>8, <1>9, <2>1, <2>3, <2>5, <2>6 DEF OrderInv, IsSequence
<1>11. 1 .. row = 1 .. row - 1 \cup {row}
  BY <1>2
<1> QED
  BY <1>3, <1>4, <1>5, <1>6, <1>10, <1>11

(* After each table comes the next.                                         *)
LEMMA NextTable ==
  ASSUME NEW s \in Section, options.measure_latency \in BOOLEAN
  PROVE  /\ After(s) \in Step \ Complete(s) /\ After(s) # s
         /\ Complete(After(s)) \cap ({"CPU"} \cup Section) = Complete(s) \cup {s}
         /\ After(s) \notin {"percentiles", "terminated"}
         /\ After(s) = "merge" => options.measure_latency
         /\ After(s) \in Section \cup {"merge", "done"}
<1>1. After("RW") = "READ" /\ After("READ") = "WRITE"
  BY Zenon DEF After
<1>2. After("WRITE") = IF options.measure_latency THEN "merge" ELSE "done"
  BY Zenon DEF After
<1>3. s \in {"RW", "READ", "WRITE"}
  BY DEF Section
<1> QED
  BY <1>1, <1>2, <1>3 DEF Step, Section, Complete

(* A step of the tables prints one row, in order.                           *)
LEMMA TableStep ==
  ASSUME OrderInv, PrintCpu \/ PrintAverages \/ PrintRow \/ PrintTotal
  PROVE  /\ OrderInv'
         /\ UNCHANGED <<given, lines>>
         /\ \A s \in {"CPU"} \cup Section :
              DOMAIN table'[s] = DOMAIN table[s] \cup (IF s = step THEN {row} ELSE {})
         /\ \A s \in {"CPU"} \cup Section : \A i \in DOMAIN table[s] : table'[s][i] = table[s][i]
<1> DEFINE
      One(e) == /\ step \in {"CPU"} \cup Section /\ UNCHANGED <<given, lines>>
                /\ table' = [table EXCEPT ![step] = Append(@, e)]
                /\ \/ row <= RowsOf(step) /\ row' = row + 1 /\ step' = step
                   \/ /\ row > RowsOf(step) /\ row' = 1
                      /\ step' \in Step \ Complete(step) /\ step' # step
                      /\ Complete(step') \cap ({"CPU"} \cup Section) = Complete(step) \cup {step}
                      /\ step' \notin {"percentiles", "terminated"}
                      /\ step' = "merge" => options.measure_latency
<1>1. CASE PrintCpu
  <2> DEFINE e == Usage(times[row].init, times[row].end)
  <2>1. One(e)
    BY <1>1 DEF PrintCpu, RowsOf, given
  <2> HIDE DEF e
  <2> QED
    BY <2>1, OneRow
<1>2. CASE PrintAverages
  <2> DEFINE e == [c \in Columns |-> Average(cpu_totals[c])]
  <2>1. One(e)
    BY <1>2 DEF PrintAverages, RowsOf, given, Complete, Step, Section
  <2> HIDE DEF e
  <2> QED
    BY <2>1, OneRow
<1>3. CASE PrintRow
  <2> DEFINE e == Printed(Current(row, step))
  <2>1. One(e)
    BY <1>3 DEF PrintRow, RowsOf, given, Section
  <2> HIDE DEF e
  <2> QED
    BY <2>1, OneRow
<1>4. CASE PrintTotal
  <2> DEFINE e == Printed(total)
  <2>1. options.measure_latency \in BOOLEAN
    BY DEF OrderInv
  <2>2. step \in Section
    BY <1>4 DEF PrintTotal
  <2>3. row > RowsOf(step) /\ table' = [table EXCEPT ![step] = Append(@, e)]
        /\ row' = 1 /\ step' = After(step) /\ UNCHANGED <<given, lines>>
    BY <1>4 DEF PrintTotal, RowsOf, Section
  <2>4. One(e)
    BY <2>1, <2>2, <2>3, NextTable
  <2> HIDE DEF e
  <2> QED
    BY <2>4, OneRow
<1> QED
  BY <1>1, <1>2, <1>3, <1>4

(* What comes after the tables leaves them alone.                           *)
LEMMA LineStep ==
  ASSUME OrderInv, MergeRow \/ MergeDone \/ PrintLine \/ PrintDone
  PROVE  /\ OrderInv'
         /\ UNCHANGED <<given, table>>
<1>1. /\ UNCHANGED <<options, times, results, table>>
      /\ \A s : RowsOf(s)' = RowsOf(s)
      /\ MaxLine' = MaxLine
  BY DEF given, printed, RowsOf, MergeRow, MergeDone, PrintLine, PrintDone, MaxLine
<1> DEFINE Late == {"merge", "percentiles", "done", "terminated"}
<1>2. step \in Late /\ step' \in Late
  BY DEF MergeRow, MergeDone, PrintLine, PrintDone
<1>3. \A s : RowsOf(s)' = RowsOf(s) /\ Complete(s)' = Complete(s)
  BY <1>1 DEF Complete
<1>4. \A st \in Late : Complete(st) = {"CPU"} \cup Section /\ st \notin {"CPU"} \cup Section
                         /\ RowsOf(st) = NumRows /\ st \in Step
  BY DEF Complete, Section, RowsOf, Step
<1>5. \A s \in {"CPU"} \cup Section :
        /\ IsSequence(table'[s])
        /\ Len(table'[s]) = IF s = step' THEN row' - 1
                            ELSE IF s \in Complete(step') THEN RowsOf(s) + 1 ELSE 0
  BY <1>1, <1>2, <1>4 DEF OrderInv
<1>6. row' \in 1 .. NumRows + 1
  <2>1. row \in 1 .. NumRows + 1
    BY <1>2, <1>4 DEF OrderInv
  <2> QED
    BY <2>1, Numbers DEF MergeRow, MergeDone, PrintLine, PrintDone, given, sums
<1>7. /\ IsSequence(lines') /\ Len(lines') <= MaxLine
      /\ step' \notin {"percentiles", "done", "terminated"} => lines' = <<>>
      /\ step' \in {"merge", "percentiles"} \/ lines' # <<>> => options'.measure_latency
  <2>1. CASE UNCHANGED lines
    BY <1>1, <2>1 DEF OrderInv, MergeRow, MergeDone, PrintLine, PrintDone
  <2>2. CASE ~UNCHANGED lines
    <3>1. PrintLine
      BY <2>2 DEF MergeRow, MergeDone, PrintDone, printed
    <3>2. PICK e : lines' = Append(lines, e) /\ Len(lines) + 1 <= MaxLine
                   /\ step = "percentiles" /\ step' = step
      BY <2>2, <3>1 DEF PrintLine
    <3>3. IsSequence(lines) /\ options.measure_latency
      BY <3>2 DEF OrderInv
    <3>4. IsSequence(lines') /\ Len(lines') = Len(lines) + 1
      BY <3>2, <3>3, AppendAny
    <3> QED
      BY <1>1, <3>2, <3>3, <3>4
  <2> QED
    BY <2>1, <2>2
<1>8. RowsOf(step)' = NumRows /\ Complete(step)' = Complete(step')
  <2>1. RowsOf(step)' = RowsOf(step')
    BY <1>1 DEF RowsOf
  <2> QED
    BY <1>2, <1>4, <2>1 DEF Complete
<1>9. step' \in Step /\ DOMAIN table' = {"CPU"} \cup Section
  BY <1>1, <1>2, <1>4 DEF OrderInv
<1>10. /\ options' \in [measure_latency : BOOLEAN, measure_iops_std_dev : BOOLEAN]
       /\ times' \in CpuTimes /\ DOMAIN results' = Rows
  BY <1>1 DEF OrderInv
<1>11. OrderInv'
  BY <1>1, <1>3, <1>5, <1>6, <1>7, <1>8, <1>9, <1>10 DEF OrderInv, IsSequence
<1> QED
  BY <1>1, <1>11 DEF given

(* Every step keeps the order, and what was printed stays.                  *)
LEMMA OrderInvariance == OrderInv /\ [Next]_vars => OrderInv'
<1> SUFFICES ASSUME OrderInv, [Next]_vars PROVE OrderInv'
  OBVIOUS
<1>1. CASE UNCHANGED vars
  <2>1. \A s : RowsOf(s)' = RowsOf(s)
    BY <1>1 DEF vars, given, RowsOf
  <2> QED
    BY <1>1, <2>1 DEF vars, given, printed, OrderInv, IsSequence, Complete, MaxLine
<1> QED
  BY <1>1, TableStep, LineStep DEF Next, Terminated

(* The order of the tables and the lines is an invariant.                   *)
LEMMA Order == Spec => []OrderInv
BY InitOrder, OrderInvariance, PTL DEF Spec

(* result_formatter.cc: the tables and the lines grow to the numbers of     *)
(* rows there are, in order.                                                *)
THEOREM TypeCorrect == Spec => []TypeOK
<1>1. OrderInv => TypeOK
  <2> SUFFICES ASSUME OrderInv PROVE TypeOK
    OBVIOUS
  <2>1. step = "CPU" => RowsOf(step) = Len(times)
    BY DEF RowsOf
  <2>2. step # "CPU" => RowsOf(step) = NumRows
    BY DEF RowsOf
  <2>3. row \in 1 .. NumRows + 1 \/ (step = "CPU" /\ row \in 1 .. Len(times) + 1)
    BY <2>1, <2>2 DEF OrderInv
  <2>4. Len(times) \in Nat /\ NumRows \in Nat
    BY Numbers DEF OrderInv
  <2>5. ASSUME NEW s \in {"CPU"} \cup Section PROVE Len(table[s]) <= RowsOf(s) + 1
    <3>1. RowsOf(s) \in Nat /\ (s = step => row \in 1 .. RowsOf(s) + 1)
      BY <2>4 DEF OrderInv, RowsOf
    <3>2. Len(table[s]) = IF s = step THEN row - 1
                          ELSE IF s \in Complete(step) THEN RowsOf(s) + 1 ELSE 0
      BY DEF OrderInv
    <3> QED
      BY <3>1, <3>2
  <2>6. \A s \in Section : RowsOf(s) = NumRows
    BY DEF RowsOf, Section
  <2>7. RowsOf("CPU") = Len(times)
    BY DEF RowsOf
  <2> QED
    BY <2>3, <2>5, <2>6, <2>7 DEF OrderInv, TypeOK
<1> QED
  BY <1>1, Order, PTL

-----------------------------------------------------------------------------
(***************************************************************************)
(* The CPU table.                                                          *)
(***************************************************************************)

(* Shares of the columns with the same denominator: user and kernel make up *)
(* the usage, and with the waiting and the idle times n times the whole.    *)
Is(share, num, den) == share = [num |-> num, den |-> den]

AddsUp(shares, n) ==
  \E whole, user, kernel, iowait, idle \in Int :
    /\ Is(shares["Usage"], user + kernel, whole)
    /\ Is(shares["User"], user, whole)
    /\ Is(shares["Kernel"], kernel, whole)
    /\ Is(shares["IO Wait"], iowait, whole)
    /\ Is(shares["Idle"], idle, whole)
    /\ user + kernel + iowait + idle = n * whole

(* To name the parts.                                                       *)
LEMMA MakeUp ==
  ASSUME NEW x, NEW n, NEW whole \in Int, NEW user \in Int, NEW kernel \in Int,
         NEW iowait \in Int, NEW idle \in Int, NEW usage,
         Is(x["Usage"], usage, whole), Is(x["User"], user, whole), Is(x["Kernel"], kernel, whole),
         Is(x["IO Wait"], iowait, whole), Is(x["Idle"], idle, whole),
         usage = user + kernel, user + kernel + iowait + idle = n * whole
  PROVE  AddsUp(x, n)
BY Zenon DEF AddsUp

(* The usage of one CPU does.                                               *)
LEMMA UsageAddsUp ==
  ASSUME NEW init \in [Times -> Nat], NEW end \in [Times -> Nat]
  PROVE  AddsUp(Usage(init, end), 1)
<1> DEFINE Of(f) == /\ SumFunctionOnSet(f, {"user", "nice", "kernel"}) =
                         f["user"] + f["nice"] + f["kernel"]
                    /\ SumFunctionOnSet(f, {"user", "nice"}) = f["user"] + f["nice"]
                    /\ SumFunctionOnSet(f, {"kernel"}) = f["kernel"]
                    /\ SumFunctionOnSet(f, {"iowait"}) = f["iowait"]
                    /\ SumFunctionOnSet(f, {"idle"}) = f["idle"]
                    /\ SumFunctionOnSet(f, Times) =
                         f["user"] + f["nice"] + f["kernel"] + f["idle"] + f["iowait"]
<1>1. ASSUME NEW f \in [Times -> Nat] PROVE Of(f)
  <2>1. \A x \in Times : f[x] \in Int
    OBVIOUS
  <2>2. {"user", "nice", "kernel", "idle", "iowait"} = Times
    BY DEF Times
  <2>3. IsFiniteSet(Times)
    <3>1. IsFiniteSet({"user"})
      BY FS_Singleton
    <3>2. IsFiniteSet({"user"} \cup {"nice"})
      BY <3>1, FS_AddElement
    <3>3. IsFiniteSet(({"user"} \cup {"nice"}) \cup {"kernel"})
      BY <3>2, FS_AddElement
    <3>4. IsFiniteSet((({"user"} \cup {"nice"}) \cup {"kernel"}) \cup {"idle"})
      BY <3>3, FS_AddElement
    <3>5. IsFiniteSet(((({"user"} \cup {"nice"}) \cup {"kernel"}) \cup {"idle"}) \cup {"iowait"})
      BY <3>4, FS_AddElement
    <3>6. ((({"user"} \cup {"nice"}) \cup {"kernel"}) \cup {"idle"}) \cup {"iowait"} = Times
      BY DEF Times
    <3> QED
      BY <3>5, <3>6
  <2>4. /\ SumFunctionOnSet(f, {"kernel"}) = f["kernel"]
        /\ SumFunctionOnSet(f, {"iowait"}) = f["iowait"]
        /\ SumFunctionOnSet(f, {"idle"}) = f["idle"]
        /\ SumFunctionOnSet(f, {"user", "nice"}) = f["user"] + f["nice"]
    BY <2>1, SumSmall DEF Times
  <2>5. SumFunctionOnSet(f, {"user", "nice", "kernel"}) = f["user"] + f["nice"] + f["kernel"]
    <3>1. /\ {"user", "nice"} \in SUBSET Times
          /\ "kernel" \in Times /\ "kernel" \notin {"user", "nice"}
      BY DEF Times
    <3>2. SumFunctionOnSet(f, {"user", "nice"} \cup {"kernel"}) =
            SumFunctionOnSet(f, {"user", "nice"}) + f["kernel"]
      BY <2>1, <2>3, <3>1, SumGrows
    <3>3. {"user", "nice"} \cup {"kernel"} = {"user", "nice", "kernel"}
      OBVIOUS
    <3> QED
      BY <2>4, <3>2, <3>3
  <2>6. SumFunctionOnSet(f, {"user", "nice", "kernel", "idle"}) =
          f["user"] + f["nice"] + f["kernel"] + f["idle"]
    <3>1. /\ {"user", "nice", "kernel"} \in SUBSET Times /\ "idle" \in Times
          /\ "idle" \notin {"user", "nice", "kernel"}
      BY DEF Times
    <3>2. SumFunctionOnSet(f, {"user", "nice", "kernel"} \cup {"idle"}) =
            SumFunctionOnSet(f, {"user", "nice", "kernel"}) + f["idle"]
      BY <2>1, <2>3, <3>1, SumGrows
    <3>3. {"user", "nice", "kernel"} \cup {"idle"} = {"user", "nice", "kernel", "idle"}
      OBVIOUS
    <3> QED
      BY <2>5, <3>2, <3>3
  <2>7. SumFunctionOnSet(f, Times) =
          f["user"] + f["nice"] + f["kernel"] + f["idle"] + f["iowait"]
    <3>1. /\ {"user", "nice", "kernel", "idle"} \in SUBSET Times /\ "iowait" \in Times
          /\ "iowait" \notin {"user", "nice", "kernel", "idle"}
      BY DEF Times
    <3>2. SumFunctionOnSet(f, {"user", "nice", "kernel", "idle"} \cup {"iowait"}) =
            SumFunctionOnSet(f, {"user", "nice", "kernel", "idle"}) + f["iowait"]
      BY <2>1, <2>3, <3>1, SumGrows
    <3>3. {"user", "nice", "kernel", "idle"} \cup {"iowait"} = Times
      BY DEF Times
    <3> QED
      BY <2>6, <3>2, <3>3
  <2> QED
    BY <2>4, <2>5, <2>7
<1>2. Of(init) /\ Of(end)
  BY <1>1
<1>3. PICK a \in Nat, b \in Nat, c \in Nat, d \in Nat, e \in Nat,
           p \in Nat, q \in Nat, r \in Nat, s \in Nat, t \in Nat :
        /\ a = end["user"] /\ b = end["nice"] /\ c = end["kernel"] /\ d = end["idle"]
        /\ e = end["iowait"]
        /\ p = init["user"] /\ q = init["nice"] /\ r = init["kernel"] /\ s = init["idle"]
        /\ t = init["iowait"]
  BY DEF Times
<1>4. /\ Counted("Usage") = {"user", "nice", "kernel"} /\ Counted("User") = {"user", "nice"}
      /\ Counted("Kernel") = {"kernel"} /\ Counted("IO Wait") = {"iowait"}
      /\ Counted("Idle") = {"idle"}
  BY Zenon DEF Counted
<1>5. PICK whole \in Int, user \in Int, kernel \in Int, iowait \in Int, idle \in Int :
        /\ whole = (a + b + c + d + e) - (p + q + r + s + t)
        /\ user = (a + b) - (p + q) /\ kernel = c - r /\ iowait = e - t /\ idle = d - s
  OBVIOUS
<1>6. user + kernel = (a + b + c) - (p + q + r) /\ user + kernel + iowait + idle = 1 * whole
  BY <1>5
<1>7. /\ Spent(init, end, Counted("Usage")) = user + kernel
      /\ Spent(init, end, Counted("User")) = user
      /\ Spent(init, end, Counted("Kernel")) = kernel
      /\ Spent(init, end, Counted("IO Wait")) = iowait
      /\ Spent(init, end, Counted("Idle")) = idle
      /\ Spent(init, end, Times) = whole
  <2>1. /\ SumFunctionOnSet(init, {"user", "nice", "kernel"}) = p + q + r
        /\ SumFunctionOnSet(init, {"user", "nice"}) = p + q
        /\ SumFunctionOnSet(init, {"kernel"}) = r
        /\ SumFunctionOnSet(init, {"iowait"}) = t
        /\ SumFunctionOnSet(init, {"idle"}) = s
        /\ SumFunctionOnSet(init, Times) = p + q + r + s + t
    BY <1>2, <1>3
  <2>2. /\ SumFunctionOnSet(end, {"user", "nice", "kernel"}) = a + b + c
        /\ SumFunctionOnSet(end, {"user", "nice"}) = a + b
        /\ SumFunctionOnSet(end, {"kernel"}) = c
        /\ SumFunctionOnSet(end, {"iowait"}) = e
        /\ SumFunctionOnSet(end, {"idle"}) = d
        /\ SumFunctionOnSet(end, Times) = a + b + c + d + e
    BY <1>2, <1>3
  <2>3. /\ Spent(init, end, Counted("Usage")) = (a + b + c) - (p + q + r)
        /\ Spent(init, end, Counted("User")) = (a + b) - (p + q)
        /\ Spent(init, end, Counted("Kernel")) = c - r
        /\ Spent(init, end, Counted("IO Wait")) = e - t
        /\ Spent(init, end, Counted("Idle")) = d - s
        /\ Spent(init, end, Times) = (a + b + c + d + e) - (p + q + r + s + t)
    <3>1. \A T : Spent(init, end, T) = SumFunctionOnSet(end, T) - SumFunctionOnSet(init, T)
      BY DEF Spent
    <3>2. Spent(init, end, Counted("Usage")) = (a + b + c) - (p + q + r)
      <4>1. PICK T : T = {"user", "nice", "kernel"}
        OBVIOUS
      <4>2. Counted("Usage") = T
        BY <1>4, <4>1, Zenon
      <4>3. SumFunctionOnSet(end, T) = a + b + c /\ SumFunctionOnSet(init, T) = p + q + r
        BY <2>1, <2>2, <4>1, Zenon
      <4> QED
        BY <3>1, <4>2, <4>3, Zenon
    <3>3. Spent(init, end, Counted("User")) = (a + b) - (p + q)
      <4>1. PICK T : T = {"user", "nice"}
        OBVIOUS
      <4>2. Counted("User") = T
        BY <1>4, <4>1, Zenon
      <4>3. SumFunctionOnSet(end, T) = a + b /\ SumFunctionOnSet(init, T) = p + q
        BY <2>1, <2>2, <4>1, Zenon
      <4> QED
        BY <3>1, <4>2, <4>3, Zenon
    <3>4. Spent(init, end, Counted("Kernel")) = c - r
      BY <1>4, <2>1, <2>2, <3>1
    <3>5. Spent(init, end, Counted("IO Wait")) = e - t
      BY <1>4, <2>1, <2>2, <3>1
    <3>6. Spent(init, end, Counted("Idle")) = d - s
      BY <1>4, <2>1, <2>2, <3>1
    <3>7. Spent(init, end, Times) = (a + b + c + d + e) - (p + q + r + s + t)
      BY <2>1, <2>2, <3>1
    <3> QED
      BY <3>2, <3>3, <3>4, <3>5, <3>6, <3>7
  <2> QED
    BY <1>5, <1>6, <2>3
<1>8. PICK u : u = Usage(init, end)
  OBVIOUS
<1>9. \A col \in Columns :
        u[col] = [num |-> Spent(init, end, Counted(col)), den |-> Spent(init, end, Times)]
  BY <1>8 DEF Usage
<1>10. /\ Is(u["Usage"], user + kernel, whole)
       /\ Is(u["User"], user, whole)
       /\ Is(u["Kernel"], kernel, whole)
       /\ Is(u["IO Wait"], iowait, whole)
       /\ Is(u["Idle"], idle, whole)
  <2>1. {"Usage", "User", "Kernel", "IO Wait", "Idle"} \subseteq Columns
    BY DEF Columns
  <2> QED
    BY <1>7, <1>9, <2>1, Zenon DEF Is
<1> QED
  BY <1>6, <1>8, <1>10, MakeUp

(* Shares are added and compared as fractions.                              *)
LEMMA ShareSum ==
  ASSUME NEW x, NEW y, NEW a, NEW b, NEW d, NEW e, Is(x, a, d), Is(y, b, e)
  PROVE  Is(AddShares(x, y), a * e + b * d, d * e)
BY DEF Is, AddShares

(* Two shares are the same if their cross products are.                     *)
LEMMA ShareSame ==
  ASSUME NEW x, NEW y, NEW a, NEW b, NEW d, NEW e, Is(x, a, d), Is(y, b, e), a * e = b * d
  PROVE  SameShare(x, y)
BY DEF Is, SameShare

(* A share is divided by the number of CPUs.                                *)
LEMMA ShareOf ==
  ASSUME NEW x, NEW a, NEW d, NEW n, Is(x, a, d)
  PROVE  Is([x EXCEPT !.den = @ * n], a, d * n)
BY DEF Is

(* To add the shares of one more CPU.                                       *)
LEMMA SharesAdd ==
  ASSUME NEW x, NEW y, NEW n \in Nat, AddsUp(x, n), AddsUp(y, 1)
  PROVE  AddsUp([c \in Columns |-> AddShares(x[c], y[c])], n + 1)
<1>1. PICK whole, user, kernel, iowait, idle \in Int :
    /\ Is(x["Usage"], user + kernel, whole)
    /\ Is(x["User"], user, whole)
    /\ Is(x["Kernel"], kernel, whole)
    /\ Is(x["IO Wait"], iowait, whole)
    /\ Is(x["Idle"], idle, whole)
    /\ user + kernel + iowait + idle = n * whole
  BY DEF AddsUp
<1>2. PICK d, u, k, w, i \in Int :
    /\ Is(y["Usage"], u + k, d)
    /\ Is(y["User"], u, d)
    /\ Is(y["Kernel"], k, d)
    /\ Is(y["IO Wait"], w, d)
    /\ Is(y["Idle"], i, d)
    /\ u + k + w + i = 1 * d
  BY DEF AddsUp
<1>3. PICK z : z = [c \in Columns |-> AddShares(x[c], y[c])]
  OBVIOUS
<1>4. \A c \in Columns : z[c] = AddShares(x[c], y[c])
  BY <1>3
<1>5. PICK D \in Int, U \in Int, K \in Int, W \in Int, I \in Int :
        /\ D = whole * d
        /\ U = user * d + u * whole /\ K = kernel * d + k * whole
        /\ W = iowait * d + w * whole /\ I = idle * d + i * whole
  OBVIOUS
<1>6. U + K = (user + kernel) * d + (u + k) * whole
  BY <1>5
<1>7. U + K + W + I = (n + 1) * D
  <2>1. U + K + W + I = (user + kernel + iowait + idle) * d + (u + k + w + i) * whole
    BY <1>5
  <2>2. U + K + W + I = (n * whole) * d + (1 * d) * whole
    BY <1>1, <1>2, <2>1
  <2>3. (n * whole) * d + (1 * d) * whole = (n + 1) * (whole * d)
    OBVIOUS
  <2> QED
    BY <1>5, <2>2, <2>3
<1>8. /\ Is(z["Usage"], U + K, D)
      /\ Is(z["User"], U, D)
      /\ Is(z["Kernel"], K, D)
      /\ Is(z["IO Wait"], W, D)
      /\ Is(z["Idle"], I, D)
  <2>1. {"Usage", "User", "Kernel", "IO Wait", "Idle"} \subseteq Columns
    BY DEF Columns
  <2>2. /\ Is(z["Usage"], (user + kernel) * d + (u + k) * whole, whole * d)
        /\ Is(z["User"], user * d + u * whole, whole * d)
        /\ Is(z["Kernel"], kernel * d + k * whole, whole * d)
        /\ Is(z["IO Wait"], iowait * d + w * whole, whole * d)
        /\ Is(z["Idle"], idle * d + i * whole, whole * d)
    BY <1>1, <1>2, <1>4, <2>1, ShareSum
  <2> QED
    BY <1>5, <1>6, <2>2
<1> QED
  BY <1>3, <1>7, <1>8, MakeUp

(* Before the first CPU, and averaged over n.                               *)
LEMMA SharesStartAndEnd ==
  /\ AddsUp([c \in Columns |-> NoShare], 0)
  /\ \A x : \A n \in Nat : AddsUp(x, n) =>
       AddsUp([c \in Columns |-> [x[c] EXCEPT !.den = @ * n]], 1)
<1>1. AddsUp([c \in Columns |-> NoShare], 0)
  <2>1. PICK z : z = [c \in Columns |-> NoShare]
    OBVIOUS
  <2>2. \A c \in Columns : Is(z[c], 0, 1)
    BY <2>1 DEF NoShare, Is
  <2>3. {"Usage", "User", "Kernel", "IO Wait", "Idle"} \subseteq Columns
    BY DEF Columns
  <2>4. 0 \in Int /\ 1 \in Int /\ 0 + 0 = 0 /\ 0 + 0 + 0 + 0 = 0 * 1
    OBVIOUS
  <2> QED
    BY <2>1, <2>2, <2>3, <2>4, MakeUp
<1>2. ASSUME NEW x, NEW n \in Nat, AddsUp(x, n)
      PROVE  AddsUp([c \in Columns |-> [x[c] EXCEPT !.den = @ * n]], 1)
  <2>1. PICK whole, user, kernel, iowait, idle \in Int :
      /\ Is(x["Usage"], user + kernel, whole)
      /\ Is(x["User"], user, whole)
      /\ Is(x["Kernel"], kernel, whole)
      /\ Is(x["IO Wait"], iowait, whole)
      /\ Is(x["Idle"], idle, whole)
      /\ user + kernel + iowait + idle = n * whole
    BY <1>2 DEF AddsUp
  <2>2. PICK z : z = [c \in Columns |-> [x[c] EXCEPT !.den = @ * n]]
    OBVIOUS
  <2>3. \A c \in Columns : z[c] = [x[c] EXCEPT !.den = @ * n]
    BY <2>2
  <2>4. PICK D \in Int : D = whole * n /\ user + kernel + iowait + idle = 1 * D
    <3>1. user + kernel + iowait + idle = n * whole
      BY <2>1, Zenon
    <3>2. whole * n \in Int /\ n * whole = 1 * (whole * n)
      OBVIOUS
    <3> QED
      BY <3>1, <3>2
  <2>5. /\ Is(z["Usage"], user + kernel, D)
        /\ Is(z["User"], user, D)
        /\ Is(z["Kernel"], kernel, D)
        /\ Is(z["IO Wait"], iowait, D)
        /\ Is(z["Idle"], idle, D)
    <3>1. ASSUME NEW c \in Columns, NEW a, Is(x[c], a, whole) PROVE Is(z[c], a, D)
      <4>1. Is([x[c] EXCEPT !.den = @ * n], a, whole * n)
        BY <3>1, ShareOf
      <4> QED
        BY <2>3, <2>4, <4>1
    <3>2. {"Usage", "User", "Kernel", "IO Wait", "Idle"} \subseteq Columns
      BY DEF Columns
    <3> QED
      BY <2>1, <3>1, <3>2
  <2> QED
    BY <2>2, <2>4, <2>5, MakeUp
<1> QED
  BY <1>1, <1>2

(* What TablesAddUp says of a row of the table.                             *)
LEMMA SharesMakeUp ==
  ASSUME NEW x, AddsUp(x, 1)
  PROVE  /\ SameShare(x["Usage"], AddShares(x["User"], x["Kernel"]))
         /\ SameShare(AddShares(x["Usage"], AddShares(x["IO Wait"], x["Idle"])),
                      [num |-> 1, den |-> 1])
<1>1. PICK whole, user, kernel, iowait, idle \in Int :
    /\ Is(x["Usage"], user + kernel, whole)
    /\ Is(x["User"], user, whole)
    /\ Is(x["Kernel"], kernel, whole)
    /\ Is(x["IO Wait"], iowait, whole)
    /\ Is(x["Idle"], idle, whole)
    /\ user + kernel + iowait + idle = 1 * whole
  BY DEF AddsUp
<1>2. (user + kernel) * (whole * whole) = (user * whole + kernel * whole) * whole
  OBVIOUS
<1>3. ((user + kernel) * (whole * whole) + (iowait * whole + idle * whole) * whole) * 1 =
        1 * (whole * (whole * whole))
  <2>1. (user + kernel) * (whole * whole) + (iowait * whole + idle * whole) * whole =
          (user + kernel + iowait + idle) * (whole * whole)
    OBVIOUS
  <2>2. user + kernel + iowait + idle = whole
    <3>1. user + kernel + iowait + idle = 1 * whole
      BY <1>1, Zenon
    <3> QED
      BY <3>1
  <2>3. whole * (whole * whole) \in Int
    OBVIOUS
  <2> QED
    BY <2>1, <2>2, <2>3
<1>4. Is(AddShares(x["User"], x["Kernel"]), user * whole + kernel * whole, whole * whole)
  BY <1>1, ShareSum
<1>5. Is(AddShares(x["IO Wait"], x["Idle"]), iowait * whole + idle * whole, whole * whole)
  BY <1>1, ShareSum
<1>6. Is(AddShares(x["Usage"], AddShares(x["IO Wait"], x["Idle"])),
         (user + kernel) * (whole * whole) + (iowait * whole + idle * whole) * whole,
         whole * (whole * whole))
  BY <1>1, <1>5, ShareSum
<1>7. SameShare(x["Usage"], AddShares(x["User"], x["Kernel"]))
  BY <1>1, <1>2, <1>4, ShareSame
<1>8. Is([num |-> 1, den |-> 1], 1, 1)
  BY DEF Is
<1>9. SameShare(AddShares(x["Usage"], AddShares(x["IO Wait"], x["Idle"])), [num |-> 1, den |-> 1])
  BY <1>3, <1>6, <1>8, ShareSame
<1> QED
  BY <1>7, <1>9

(* The CPUs printed so far make up as many wholes, and each row one.        *)
CpuInv ==
  /\ step = "CPU" => AddsUp(cpu_totals, row - 1)
  /\ \A i \in DOMAIN table["CPU"] : AddsUp(table["CPU"][i], 1)

(* No CPU is printed and none accumulated at first.                         *)
LEMMA InitCpu == Init => CpuInv
<1> SUFFICES ASSUME Init PROVE CpuInv
  OBVIOUS
<1>1. /\ cpu_totals = [c \in Columns |-> NoShare] /\ row = 1
      /\ table = [s \in {"CPU"} \cup Section |-> <<>>]
  BY DEF Init
<1>2. row - 1 = 0 /\ DOMAIN table["CPU"] = {}
  BY <1>1
<1> QED
  BY <1>1, <1>2, SharesStartAndEnd DEF CpuInv

(* The CPUs printed so far make up what is accumulated of them.             *)
LEMMA CpuInvariance == OrderInv /\ CpuInv /\ [Next]_vars => CpuInv'
<1> SUFFICES ASSUME OrderInv, CpuInv, [Next]_vars PROVE CpuInv'
  OBVIOUS
<1>1. ASSUME NEW e, AddsUp(e, 1), step = "CPU", PrintCpu \/ PrintAverages,
             table' = [table EXCEPT !["CPU"] = Append(@, e)]
      PROVE  \A i \in DOMAIN table'["CPU"] : AddsUp(table'["CPU"][i], 1)
  <2>1. /\ DOMAIN table'["CPU"] = DOMAIN table["CPU"] \cup {row}
        /\ \A i \in DOMAIN table["CPU"] : table'["CPU"][i] = table["CPU"][i]
    BY <1>1, TableStep
  <2>2. /\ IsSequence(table["CPU"]) /\ Len(table["CPU"]) = row - 1 /\ row \in Nat
        /\ "CPU" \in DOMAIN table
    <3>1. RowsOf(step) \in Nat /\ row \in 1 .. RowsOf(step) + 1
      BY Numbers DEF OrderInv, RowsOf
    <3> QED
      BY <1>1, <3>1 DEF OrderInv
  <2>3. table'["CPU"] = Append(table["CPU"], e)
    BY <1>1, <2>2
  <2>4. table'["CPU"][row] = e
    <3>1. row - 1 + 1 = row
      BY <2>2
    <3> QED
      BY <2>2, <2>3, <3>1, AppendAny
  <2>5. \A i \in DOMAIN table["CPU"] : AddsUp(table["CPU"][i], 1)
    BY DEF CpuInv
  <2> QED
    BY <1>1, <2>1, <2>4, <2>5
<1>2. CASE PrintCpu
  <2> DEFINE e == Usage(times[row].init, times[row].end)
  <2>1. /\ step = "CPU" /\ table' = [table EXCEPT !["CPU"] = Append(@, e)] /\ row <= Len(times)
        /\ row' = row + 1
        /\ cpu_totals' = [c \in Columns |-> AddShares(cpu_totals[c], e[c])]
    BY <1>2 DEF PrintCpu
  <2>2. row \in 1 .. Len(times) /\ row - 1 \in Nat /\ (row - 1) + 1 = row' - 1
    <3>1. row \in 1 .. Len(times) + 1 /\ Len(times) \in Nat
      BY <2>1, Numbers DEF OrderInv, RowsOf
    <3> QED
      BY <2>1, <3>1
  <2>3. AddsUp(e, 1)
    <3>1. times \in Seq([init : [Times -> Nat], end : [Times -> Nat]])
      BY ReportAssumption DEF ReportAssumption, OrderInv
    <3>2. times[row] \in [init : [Times -> Nat], end : [Times -> Nat]]
      BY <2>2, <3>1, ElementOfSeq
    <3> QED
      BY <3>2, UsageAddsUp
  <2> HIDE DEF e
  <2>4. AddsUp(cpu_totals', (row - 1) + 1)
    BY <2>1, <2>2, <2>3, SharesAdd DEF CpuInv
  <2>5. \A i \in DOMAIN table'["CPU"] : AddsUp(table'["CPU"][i], 1)
    BY <1>1, <1>2, <2>1, <2>3
  <2> QED
    BY <2>2, <2>4, <2>5 DEF CpuInv
<1>3. CASE PrintAverages
  <2> DEFINE e == [c \in Columns |-> Average(cpu_totals[c])]
  <2>1. /\ step = "CPU" /\ table' = [table EXCEPT !["CPU"] = Append(@, e)] /\ row > Len(times)
        /\ step' = "RW"
    BY <1>3 DEF PrintAverages
  <2>2. row - 1 = Len(times) /\ Len(times) \in Nat
    <3>1. row \in 1 .. Len(times) + 1 /\ Len(times) \in Nat
      BY <2>1, Numbers DEF OrderInv, RowsOf
    <3> QED
      BY <2>1, <3>1
  <2>3. AddsUp(cpu_totals, Len(times))
    BY <2>1, <2>2 DEF CpuInv
  <2>4. PICK n \in Nat : n = Len(times)
    BY <2>2
  <2>5. AddsUp([c \in Columns |-> [cpu_totals[c] EXCEPT !.den = @ * n]], 1)
    BY <2>3, <2>4, SharesStartAndEnd
  <2>6. AddsUp(e, 1)
    BY <2>4, <2>5 DEF Average
  <2> HIDE DEF e
  <2>7. \A i \in DOMAIN table'["CPU"] : AddsUp(table'["CPU"][i], 1)
    BY <1>1, <1>3, <2>1, <2>6
  <2> QED
    BY <2>1, <2>7 DEF CpuInv
<1>4. CASE PrintRow \/ PrintTotal
  <2>1. step # "CPU" /\ step \in Section /\ step' # "CPU"
    <3>1. options.measure_latency \in BOOLEAN
      BY DEF OrderInv
    <3> QED
      BY <1>4, <3>1, NextTable DEF PrintRow, PrintTotal, Section
  <2>2. table'["CPU"] = table["CPU"]
    BY <1>4, <2>1 DEF PrintRow, PrintTotal, OrderInv
  <2> QED
    BY <2>1, <2>2 DEF CpuInv
<1>5. CASE MergeRow \/ MergeDone \/ PrintLine \/ PrintDone
  <2>1. table' = table
    BY <1>5, LineStep
  <2>2. step' # "CPU"
    BY <1>5 DEF MergeRow, MergeDone, PrintLine, PrintDone
  <2> QED
    BY <2>1, <2>2 DEF CpuInv
<1>6. CASE UNCHANGED vars
  BY <1>6 DEF vars, sums, printed, CpuInv
<1> QED
  BY <1>2, <1>3, <1>4, <1>5, <1>6 DEF Next, Terminated

-----------------------------------------------------------------------------
(***************************************************************************)
(* Merging: a histogram or a bucketizer made of several has the counts of  *)
(* all of them, modulo CountMod.  H and B give one to each part.           *)
(***************************************************************************)

Latency == 0 .. ValueMax

(* Histograms as ReportAssumption has them, and empty ones.                 *)
IsHistogram(h) ==
  /\ DOMAIN h.data \subseteq Latency
  /\ \A v \in DOMAIN h.data : h.data[v] \in Nat \ {0}
  /\ h.samples = SumFunctionOnSet(h.data, DOMAIN h.data)
  /\ h.samples \in 0 .. CountMod - 1

Histograms(H) == IsFiniteSet(DOMAIN H) /\ \A x \in DOMAIN H : IsHistogram(H[x])

(* The counts of a latency, and of all, over some parts.                    *)
Count(H, P, v) == SumFunctionOnSet([x \in DOMAIN H |-> CountOf(H[x], v)], P)

CountAll(H, P) == SumFunctionOnSet([x \in DOMAIN H |-> H[x].samples], P)

HistogramOf(h, H, P) ==
  /\ DOMAIN h.data = UNION {DOMAIN H[x].data : x \in P}
  /\ h.samples = CountAll(H, P) % CountMod
  /\ \A v \in Latency : CountOf(h, v) = Count(H, P, v) % CountMod

(* The counts of a histogram are natural numbers, and none has wrapped.     *)
LEMMA CountsOfOne ==
  ASSUME NEW h, IsHistogram(h)
  PROVE  \A v : /\ CountOf(h, v) \in 0 .. CountMod - 1 /\ CountOf(h, v) <= h.samples
                /\ v \in DOMAIN h.data <=> CountOf(h, v) # 0
<1>1. CountMod \in Nat \ {0} /\ h.samples \in 0 .. CountMod - 1
  BY StatisticsAssumption DEF StatisticsAssumption, IsHistogram
<1>2. IsFiniteSet(DOMAIN h.data)
  <2>1. IsFiniteSet(Latency)
    BY StatisticsAssumption, FS_Interval DEF StatisticsAssumption, Latency
  <2> QED
    BY <2>1, FS_Subset DEF IsHistogram
<1>3. \A v \in DOMAIN h.data : h.data[v] \in Nat \ {0}
  BY DEF IsHistogram
<1>4. \A v \in DOMAIN h.data : h.data[v] <= SumFunctionOnSet(h.data, DOMAIN h.data)
  BY <1>2, <1>3, SumOfPart
<1>5. \A v \in DOMAIN h.data : h.data[v] <= h.samples
  BY <1>4 DEF IsHistogram
<1> QED
  BY <1>1, <1>3, <1>5 DEF CountOf

(* The counts of parts add up to natural numbers.                           *)
LEMMA CountTypes ==
  ASSUME NEW H, Histograms(H), NEW P \in SUBSET DOMAIN H
  PROVE  /\ IsFiniteSet(P)
         /\ \A v : Count(H, P, v) \in Nat
         /\ CountAll(H, P) \in Nat
         /\ \A v : \A x \in DOMAIN H : [y \in DOMAIN H |-> CountOf(H[y], v)][x] \in Nat
         /\ \A x \in DOMAIN H : [y \in DOMAIN H |-> H[y].samples][x] \in Nat
<1>1. IsFiniteSet(P)
  BY FS_Subset DEF Histograms
<1>2. \A x \in DOMAIN H : H[x].samples \in Nat
  BY StatisticsAssumption DEF StatisticsAssumption, Histograms, IsHistogram
<1>3. \A x \in DOMAIN H : \A v : CountOf(H[x], v) \in Nat
  BY CountsOfOne, StatisticsAssumption DEF StatisticsAssumption, Histograms
<1>4. CountAll(H, P) \in Nat
  <2>1. PICK f : f = [x \in DOMAIN H |-> H[x].samples]
    OBVIOUS
  <2>2. \A x \in P : f[x] \in Nat
    BY <1>2, <2>1
  <2> QED
    BY <1>1, <2>1, <2>2, SumType DEF CountAll
<1>5. ASSUME NEW v PROVE Count(H, P, v) \in Nat
  <2>1. PICK f : f = [x \in DOMAIN H |-> CountOf(H[x], v)]
    OBVIOUS
  <2>2. \A x \in P : f[x] \in Nat
    BY <1>3, <2>1
  <2> QED
    BY <1>1, <2>1, <2>2, SumType DEF Count
<1> QED
  BY <1>1, <1>2, <1>3, <1>4, <1>5

(* None, one, and the parts of two.                                         *)
LEMMA HistogramOfNone ==
  ASSUME NEW H
  PROVE  HistogramOf(EmptyHistogram, H, {})
<1>1. \A f : SumFunctionOnSet(f, {}) = 0
  BY SumSmall
<1>2. 0 % CountMod = 0
  BY StatisticsAssumption DEF StatisticsAssumption
<1>3. DOMAIN EmptyHistogram.data = {} /\ EmptyHistogram.samples = 0
  BY DEF EmptyHistogram
<1> QED
  BY <1>1, <1>2, <1>3 DEF HistogramOf, CountAll, Count, CountOf

(* A histogram is the merge of itself alone.                                *)
LEMMA HistogramOfOne ==
  ASSUME NEW H, Histograms(H), NEW x \in DOMAIN H
  PROVE  HistogramOf(H[x], H, {x})
<1>1. DOMAIN H[x].data = UNION {DOMAIN H[y].data : y \in {x}}
  OBVIOUS
<1>2. H[x].samples \in 0 .. CountMod - 1 /\ \A v : CountOf(H[x], v) \in 0 .. CountMod - 1
  BY CountsOfOne DEF Histograms, IsHistogram
<1>3. \A n \in 0 .. CountMod - 1 : n % CountMod = n /\ n \in Int
  BY StatisticsAssumption DEF StatisticsAssumption
<1>4. CountAll(H, {x}) = H[x].samples
  <2>1. PICK f : f = [y \in DOMAIN H |-> H[y].samples]
    OBVIOUS
  <2>2. f[x] = H[x].samples /\ f[x] \in Int
    BY <1>2, <1>3, <2>1
  <2> QED
    BY <2>1, <2>2, SumSmall DEF CountAll
<1>5. ASSUME NEW v PROVE Count(H, {x}, v) = CountOf(H[x], v)
  <2>1. PICK f : f = [y \in DOMAIN H |-> CountOf(H[y], v)]
    OBVIOUS
  <2>2. f[x] = CountOf(H[x], v) /\ f[x] \in Int
    BY <1>2, <1>3, <2>1
  <2> QED
    BY <2>1, <2>2, SumSmall DEF Count
<1> QED
  BY <1>1, <1>2, <1>3, <1>4, <1>5 DEF HistogramOf

(* Merging the histograms of two disjoint sets of parts gives that of both: *)
(* no count is lost and none added twice.                                   *)
LEMMA HistogramOfParts ==
  ASSUME NEW H, Histograms(H), NEW P \in SUBSET DOMAIN H, NEW Q \in SUBSET DOMAIN H,
         P \cap Q = {}, NEW g, HistogramOf(g, H, P), NEW h, HistogramOf(h, H, Q)
  PROVE  HistogramOf(HistogramMerge(g, h), H, P \cup Q)
<1>1. CountMod \in Nat \ {0}
  BY StatisticsAssumption DEF StatisticsAssumption
<1>2. PICK m : m = HistogramMerge(g, h)
  OBVIOUS
<1>3. /\ m.samples = (g.samples + h.samples) % CountMod
      /\ DOMAIN m.data = DOMAIN g.data \cup DOMAIN h.data
      /\ \A v \in DOMAIN m.data : m.data[v] = (CountOf(g, v) + CountOf(h, v)) % CountMod
  BY <1>2 DEF HistogramMerge
<1>4. DOMAIN m.data = UNION {DOMAIN H[x].data : x \in P \cup Q}
  BY <1>3 DEF HistogramOf
<1>5. /\ IsFiniteSet(P) /\ IsFiniteSet(Q)
      /\ CountAll(H, P) \in Nat /\ CountAll(H, Q) \in Nat
      /\ \A v : Count(H, P, v) \in Nat /\ Count(H, Q, v) \in Nat
  BY CountTypes
<1>6. CountAll(H, P \cup Q) = CountAll(H, P) + CountAll(H, Q)
  <2>1. PICK f : f = [y \in DOMAIN H |-> H[y].samples]
    OBVIOUS
  <2>2. \A x \in P \cup Q : f[x] \in Int
    BY <2>1, CountTypes
  <2> QED
    BY <1>5, <2>1, <2>2, SumParts DEF CountAll
<1>7. ASSUME NEW v PROVE Count(H, P \cup Q, v) = Count(H, P, v) + Count(H, Q, v)
  <2>1. PICK f : f = [y \in DOMAIN H |-> CountOf(H[y], v)]
    OBVIOUS
  <2>2. \A x \in P \cup Q : f[x] \in Int
    BY <2>1, CountTypes
  <2> QED
    BY <1>5, <2>1, <2>2, SumParts DEF Count
<1>8. m.samples = CountAll(H, P \cup Q) % CountMod
  BY <1>1, <1>3, <1>5, <1>6, ModuloAdds DEF HistogramOf
<1>9. ASSUME NEW v \in Latency PROVE CountOf(m, v) = Count(H, P \cup Q, v) % CountMod
  <2>1. CountOf(m, v) = (CountOf(g, v) + CountOf(h, v)) % CountMod
    <3>1. 0 = (0 + 0) % CountMod
      BY <1>1
    <3> QED
      BY <1>3, <3>1 DEF CountOf
  <2>2. CountOf(g, v) = Count(H, P, v) % CountMod /\ CountOf(h, v) = Count(H, Q, v) % CountMod
    BY DEF HistogramOf
  <2>3. PICK a \in Nat, b \in Nat : a = Count(H, P, v) /\ b = Count(H, Q, v)
    BY <1>5
  <2>4. ((a % CountMod) + (b % CountMod)) % CountMod = (a + b) % CountMod
    BY <1>1, ModuloAdds
  <2>5. CountOf(m, v) = (a + b) % CountMod
    BY <2>1, <2>2, <2>3, <2>4, Zenon
  <2>6. Count(H, P \cup Q, v) = a + b
    BY <1>7, <2>3
  <2> QED
    BY <2>5, <2>6, Zenon
<1> QED
  BY <1>2, <1>4, <1>8, <1>9 DEF HistogramOf

(* The same for bucketizers, which all expect as many buckets.              *)
Bucketizers(B) ==
  /\ IsFiniteSet(DOMAIN B)
  /\ \E valid \in Nat : \A x \in DOMAIN B :
       B[x].valid = valid /\ B[x].buckets \in Seq(0 .. CountMod - 1)

(* The I/Os of an interval over some parts.                                 *)
Ios(B, P, k) == SumFunctionOnSet([x \in DOMAIN B |-> GetIoBucket(B[x], k)], P)

(* There are as many buckets as the part with the most has.                 *)
BucketsOf(b, B, P) ==
  /\ b.buckets \in Seq(Nat)
  /\ P = {} => b.valid = 0
  /\ \A x \in P : b.valid = B[x].valid /\ Len(B[x].buckets) <= Len(b.buckets)
  /\ Len(b.buckets) = 0 \/ \E x \in P : Len(b.buckets) = Len(B[x].buckets)
  /\ \A k \in Nat \ {0} : GetIoBucket(b, k) = Ios(B, P, k) % CountMod

(* The I/Os of parts add up to natural numbers.                             *)
LEMMA IosTypes ==
  ASSUME NEW B, Bucketizers(B), NEW P \in SUBSET DOMAIN B
  PROVE  /\ IsFiniteSet(P)
         /\ \A k : Ios(B, P, k) \in Nat
         /\ \A k : \A x \in DOMAIN B :
              /\ [y \in DOMAIN B |-> GetIoBucket(B[y], k)][x] \in Nat
              /\ GetIoBucket(B[x], k) \in 0 .. CountMod - 1
<1>1. IsFiniteSet(P)
  BY FS_Subset DEF Bucketizers
<1>2. ASSUME NEW x \in DOMAIN B, NEW k PROVE GetIoBucket(B[x], k) \in 0 .. CountMod - 1
  <2>1. PICK q : q = B[x].buckets /\ q \in Seq(0 .. CountMod - 1)
    BY DEF Bucketizers
  <2>2. \A i \in DOMAIN q : q[i] \in 0 .. CountMod - 1
    <3>1. DOMAIN q = 1 .. Len(q)
      BY <2>1, LenProperties
    <3> QED
      BY <2>1, <3>1, ElementOfSeq
  <2>3. 0 \in 0 .. CountMod - 1
    BY StatisticsAssumption DEF StatisticsAssumption
  <2> QED
    BY <2>1, <2>2, <2>3 DEF GetIoBucket
<1>3. 0 .. CountMod - 1 \subseteq Nat
  BY StatisticsAssumption DEF StatisticsAssumption
<1>4. ASSUME NEW k PROVE Ios(B, P, k) \in Nat
  <2>1. PICK f : f = [x \in DOMAIN B |-> GetIoBucket(B[x], k)]
    OBVIOUS
  <2>2. \A x \in P : f[x] \in Nat
    BY <1>2, <1>3, <2>1
  <2> QED
    BY <1>1, <2>1, <2>2, SumType DEF Ios
<1> QED
  BY <1>1, <1>2, <1>3, <1>4

(* None, one, and the parts of two.                                         *)
LEMMA BucketsOfNone ==
  ASSUME NEW B
  PROVE  BucketsOf(NewBucketizer, B, {})
<1>1. \A f : SumFunctionOnSet(f, {}) = 0
  BY SumSmall
<1>2. 0 % CountMod = 0
  BY StatisticsAssumption DEF StatisticsAssumption
<1>3. NewBucketizer.buckets = <<>> /\ NewBucketizer.valid = 0
  BY DEF NewBucketizer
<1>4. <<>> \in Seq(Nat) /\ Len(<<>>) = 0 /\ DOMAIN <<>> = {}
  OBVIOUS
<1> QED
  BY <1>1, <1>2, <1>3, <1>4 DEF BucketsOf, Ios, GetIoBucket

(* A bucketizer is the merge of itself alone.                               *)
LEMMA BucketsOfOne ==
  ASSUME NEW B, Bucketizers(B), NEW x \in DOMAIN B
  PROVE  BucketsOf(B[x], B, {x})
<1>1. CountMod \in Nat \ {0}
  BY StatisticsAssumption DEF StatisticsAssumption
<1>2. PICK q : q = B[x].buckets /\ q \in Seq(0 .. CountMod - 1)
  BY DEF Bucketizers
<1>3. q \in Seq(Nat) /\ Len(q) \in Nat
  <2>1. \A i \in 1 .. Len(q) : q[i] \in Nat
    BY <1>1, <1>2
  <2> QED
    BY <1>2, <2>1
<1>4. ASSUME NEW k PROVE GetIoBucket(B[x], k) = Ios(B, {x}, k) % CountMod
  <2>1. PICK f : f = [y \in DOMAIN B |-> GetIoBucket(B[y], k)]
    OBVIOUS
  <2>2. PICK n \in 0 .. CountMod - 1 : n = GetIoBucket(B[x], k)
    BY IosTypes
  <2>3. f[x] = n /\ n \in Int /\ n % CountMod = n
    BY <1>1, <2>1, <2>2
  <2>4. SumFunctionOnSet(f, {x}) = n
    BY <2>3, SumSmall
  <2> QED
    BY <2>1, <2>2, <2>3, <2>4 DEF Ios
<1>5. B[x].buckets \in Seq(Nat) /\ Len(B[x].buckets) <= Len(B[x].buckets)
  BY <1>2, <1>3
<1> QED
  BY <1>4, <1>5, Zenon DEF BucketsOf

(* Merging the bucketizers of two disjoint sets of parts adds them up       *)
(* interval by interval.                                                    *)
LEMMA BucketsOfParts ==
  ASSUME NEW B, Bucketizers(B), NEW P \in SUBSET DOMAIN B, NEW Q \in SUBSET DOMAIN B,
         P \cap Q = {}, NEW b, BucketsOf(b, B, P), {"valid", "buckets"} \subseteq DOMAIN b,
         NEW c, BucketsOf(c, B, Q)
  PROVE  /\ BucketsOf(BucketMerge(b, c), B, P \cup Q)
         /\ {"valid", "buckets"} \subseteq DOMAIN BucketMerge(b, c)
<1>1. CountMod \in Nat \ {0}
  BY StatisticsAssumption DEF StatisticsAssumption
<1>2. PICK m, n : m = BucketMerge(b, c) /\ n = Max({Len(b.buckets), Len(c.buckets)})
  OBVIOUS
<1>3. /\ b.buckets \in Seq(Nat) /\ c.buckets \in Seq(Nat)
      /\ Len(b.buckets) \in Nat /\ Len(c.buckets) \in Nat
  BY LenProperties DEF BucketsOf
<1>4. /\ n \in Nat /\ n >= Len(b.buckets) /\ n >= Len(c.buckets)
      /\ n \in {Len(b.buckets), Len(c.buckets)}
  BY <1>2, <1>3, MaxOfTwo
<1>5. /\ m.valid = Max({b.valid, c.valid})
      /\ m.buckets = [i \in 1 .. n |-> (GetIoBucket(b, i) + GetIoBucket(c, i)) % CountMod]
      /\ {"valid", "buckets"} \subseteq DOMAIN m
  BY <1>2 DEF BucketMerge
<1>6. /\ IsFiniteSet(P) /\ IsFiniteSet(Q)
      /\ \A k : Ios(B, P, k) \in Nat /\ Ios(B, Q, k) \in Nat
  BY IosTypes
<1>7. ASSUME NEW k \in Nat \ {0}
      PROVE  (GetIoBucket(b, k) + GetIoBucket(c, k)) % CountMod = Ios(B, P \cup Q, k) % CountMod
  <2>1. PICK f : f = [y \in DOMAIN B |-> GetIoBucket(B[y], k)]
    OBVIOUS
  <2>2. \A x \in P \cup Q : f[x] \in Int
    <3>1. \A x \in DOMAIN B : [y \in DOMAIN B |-> GetIoBucket(B[y], k)][x] \in Nat
      BY IosTypes, Zenon
    <3> QED
      BY <2>1, <3>1
  <2>3. Ios(B, P \cup Q, k) = Ios(B, P, k) + Ios(B, Q, k)
    BY <1>6, <2>1, <2>2, SumParts DEF Ios
  <2>4. PICK p \in Nat, q \in Nat : p = Ios(B, P, k) /\ q = Ios(B, Q, k)
    BY <1>6
  <2>5. ((p % CountMod) + (q % CountMod)) % CountMod = (p + q) % CountMod
    BY <1>1, ModuloAdds
  <2>6. GetIoBucket(b, k) = p % CountMod /\ GetIoBucket(c, k) = q % CountMod
    BY <2>4 DEF BucketsOf
  <2> QED
    BY <2>3, <2>4, <2>5, <2>6, Zenon
<1>8. \A k \in Nat \ {0} : GetIoBucket(b, k) \in Nat /\ GetIoBucket(c, k) \in Nat
  BY <1>3 DEF GetIoBucket
<1>9. m.buckets \in Seq(Nat) /\ Len(m.buckets) = n /\ DOMAIN m.buckets = 1 .. n
  <2>1. \A i \in 1 .. n : (GetIoBucket(b, i) + GetIoBucket(c, i)) % CountMod \in Nat
    BY <1>1, <1>4, <1>8
  <2> QED
    BY <1>4, <1>5, <2>1
<1>10. ASSUME NEW k \in Nat \ {0} PROVE GetIoBucket(m, k) = Ios(B, P \cup Q, k) % CountMod
  <2>1. CASE k \in 1 .. n
    BY <1>5, <1>7, <1>9, <2>1 DEF GetIoBucket
  <2>2. CASE k \notin 1 .. n
    <3>1. k \notin 1 .. Len(b.buckets) /\ k \notin 1 .. Len(c.buckets)
      BY <1>3, <1>4, <2>2
    <3>2. GetIoBucket(b, k) = 0 /\ GetIoBucket(c, k) = 0 /\ GetIoBucket(m, k) = 0
      BY <1>3, <1>9, <2>2, <3>1 DEF GetIoBucket
    <3>3. (0 + 0) % CountMod = 0
      BY <1>1
    <3> QED
      BY <1>7, <3>2, <3>3
  <2> QED
    BY <2>1, <2>2
<1>11. PICK valid \in Nat : \A x \in DOMAIN B : B[x].valid = valid
  BY DEF Bucketizers
<1>12. /\ P = {} => b.valid = 0
       /\ P # {} => b.valid = valid
       /\ Q = {} => c.valid = 0
       /\ Q # {} => c.valid = valid
  BY <1>11 DEF BucketsOf
<1>13. /\ P \cup Q = {} => m.valid = 0
       /\ P \cup Q # {} => m.valid = valid
  <2>1. b.valid \in {0, valid} /\ c.valid \in {0, valid}
    BY <1>12
  <2>2. Max({b.valid, c.valid}) \in {b.valid, c.valid}
        /\ Max({b.valid, c.valid}) >= b.valid /\ Max({b.valid, c.valid}) >= c.valid
    BY <2>1, MaxOfTwo
  <2> QED
    BY <1>5, <1>12, <2>1, <2>2
<1>14. \A x \in P \cup Q : m.valid = B[x].valid /\ Len(B[x].buckets) <= Len(m.buckets)
  <2>1. \A x \in DOMAIN B : Len(B[x].buckets) \in Nat
    <3>1. \A x \in DOMAIN B : B[x].buckets \in Seq(0 .. CountMod - 1)
      BY DEF Bucketizers
    <3> QED
      BY <3>1, LenProperties
  <2>2. /\ \A x \in P : Len(B[x].buckets) <= Len(b.buckets)
        /\ \A x \in Q : Len(B[x].buckets) <= Len(c.buckets)
    BY DEF BucketsOf
  <2>3. \A x \in P \cup Q : Len(B[x].buckets) <= n
    BY <1>3, <1>4, <2>1, <2>2
  <2> QED
    BY <1>9, <1>11, <1>13, <2>3
<1>15. Len(m.buckets) = 0 \/ \E x \in P \cup Q : Len(m.buckets) = Len(B[x].buckets)
  BY <1>4, <1>9 DEF BucketsOf
<1>16. BucketsOf(m, B, P \cup Q)
  BY <1>9, <1>10, <1>13, <1>14, <1>15 DEF BucketsOf
<1> QED
  BY <1>2, <1>5, <1>16

-----------------------------------------------------------------------------
(***************************************************************************)
(* The tables of I/Os.                                                     *)
(***************************************************************************)

All == Rows \X Direction

HistogramsIn(res)  == [x \in All |-> res[x[1]][x[2]].histogram]
BucketizersIn(res) == [x \in All |-> res[x[1]][x[2]].bucketizer]
CountersIn(res, f) == [x \in All |-> res[x[1]][x[2]][f]]

(* What the results of a job are, under its options.                        *)
IsResults(o, res) ==
  /\ Histograms(HistogramsIn(res))
  /\ Bucketizers(BucketizersIn(res))
  /\ \A x \in All : res[x[1]][x[2]].bytes \in Nat /\ res[x[1]][x[2]].iops \in Nat
  /\ \A r \in Rows : /\ res[r]["RW"].bytes = res[r]["READ"].bytes + res[r]["WRITE"].bytes
                     /\ res[r]["RW"].iops = res[r]["READ"].iops + res[r]["WRITE"].iops
  /\ ~o.measure_latency => \A x \in All : res[x[1]][x[2]].histogram = EmptyHistogram

(* The sums are over finite sets.                                           *)
LEMMA AllIsFinite == IsFiniteSet(All) /\ IsFiniteSet(Latency)
<1>1. IsFiniteSet(Rows) /\ IsFiniteSet(Latency)
  BY ReportAssumption, StatisticsAssumption, FS_Interval
     DEF ReportAssumption, StatisticsAssumption, Rows, Latency
<1>2. IsFiniteSet(Direction)
  <2>1. IsFiniteSet({"READ"})
    BY FS_Singleton
  <2>2. IsFiniteSet({"READ"} \cup {"WRITE"})
    BY <2>1, FS_AddElement
  <2>3. {"READ"} \cup {"WRITE"} = Direction
    BY DEF Direction
  <2> QED
    BY <2>2, <2>3
<1> QED
  BY <1>1, <1>2, FS_Product DEF All

(* What one direction recorded is as the constants have it, or nothing.     *)
LEMMA RecordedIs ==
  ASSUME NEW o, NEW d \in Directions, NEW z, z = Recorded(o, d)
  PROVE  /\ z.bytes \in Nat /\ z.iops \in Nat
         /\ IsHistogram(z.histogram)
         /\ ~o.measure_latency => z.histogram = EmptyHistogram
         /\ z.bucketizer = IF o.measure_iops_std_dev THEN d.bucketizer ELSE NewBucketizer
         /\ z.bucketizer.buckets \in Seq(0 .. CountMod - 1)
<1>1. /\ DOMAIN d = {"bytes", "iops", "histogram", "bucketizer"}
      /\ {d.bytes, d.iops} \subseteq Nat
      /\ DOMAIN d.histogram.data \subseteq 0 .. ValueMax
      /\ \A v \in DOMAIN d.histogram.data : d.histogram.data[v] \in Nat \ {0}
      /\ d.histogram.samples = SumFunction(d.histogram.data)
      /\ d.histogram.samples < CountMod
      /\ d.bucketizer.buckets \in Seq(0 .. CountMod - 1)
  BY ReportAssumption, Zenon DEF ReportAssumption
<1>2. /\ z.bytes = d.bytes /\ z.iops = d.iops
      /\ z.histogram = IF o.measure_latency THEN d.histogram ELSE EmptyHistogram
      /\ z.bucketizer = IF o.measure_iops_std_dev THEN d.bucketizer ELSE NewBucketizer
  BY <1>1 DEF Recorded
<1>3. IsHistogram(d.histogram)
  <2>1. PICK f : f = d.histogram.data
    OBVIOUS
  <2>2. IsFiniteSet(DOMAIN f)
    BY <1>1, <2>1, AllIsFinite, FS_Subset DEF Latency
  <2>3. \A v \in DOMAIN f : f[v] \in Nat
    BY <1>1, <2>1
  <2>4. SumFunctionOnSet(f, DOMAIN f) \in Nat
    BY <2>2, <2>3, SumType
  <2>5. d.histogram.samples = SumFunctionOnSet(f, DOMAIN f)
    BY <1>1, <2>1 DEF SumFunction
  <2>6. d.histogram.samples \in 0 .. CountMod - 1
    BY <1>1, <2>4, <2>5, StatisticsAssumption DEF StatisticsAssumption
  <2> QED
    BY <1>1, <2>1, <2>5, <2>6 DEF IsHistogram, Latency
<1>4. IsHistogram(EmptyHistogram)
  <2>1. DOMAIN EmptyHistogram.data = {} /\ EmptyHistogram.samples = 0
    BY DEF EmptyHistogram
  <2>2. 0 \in 0 .. CountMod - 1
    BY StatisticsAssumption DEF StatisticsAssumption
  <2>3. SumFunctionOnSet(EmptyHistogram.data, {}) = 0
    BY SumSmall
  <2> QED
    BY <2>1, <2>2, <2>3 DEF IsHistogram
<1>5. NewBucketizer.buckets \in Seq(0 .. CountMod - 1)
  BY DEF NewBucketizer
<1> QED
  BY <1>1, <1>2, <1>3, <1>4, <1>5

(* The results the workers have left are well formed.                       *)
LEMMA InitResults == Init => IsResults(options, results)
<1> SUFFICES ASSUME Init PROVE IsResults(options, results)
  OBVIOUS
<1>1. PICK recorded \in [Rows -> [Direction -> Directions]] :
       results = [r \in Rows |->
         [READ  |-> Recorded(options, recorded[r]["READ"]),
          WRITE |-> Recorded(options, recorded[r]["WRITE"]),
          RW    |-> BothOf(recorded[r]["READ"], recorded[r]["WRITE"])]]
  BY DEF Init
<1>2. ASSUME NEW r \in Rows, NEW d \in Direction
      PROVE  results[r][d] = Recorded(options, recorded[r][d]) /\ recorded[r][d] \in Directions
  BY <1>1 DEF Direction
<1>3. \A x \in All : x[1] \in Rows /\ x[2] \in Direction
  BY DEF All
<1>4. \A x \in All : /\ recorded[x[1]][x[2]] \in Directions
                     /\ results[x[1]][x[2]] = Recorded(options, recorded[x[1]][x[2]])
  BY <1>2, <1>3
<1>5. ASSUME NEW x \in All
      PROVE  LET z == results[x[1]][x[2]] IN
             /\ z.bytes \in Nat /\ z.iops \in Nat
             /\ IsHistogram(z.histogram)
             /\ ~options.measure_latency => z.histogram = EmptyHistogram
             /\ z.bucketizer = IF options.measure_iops_std_dev
                               THEN recorded[x[1]][x[2]].bucketizer ELSE NewBucketizer
             /\ z.bucketizer.buckets \in Seq(0 .. CountMod - 1)
  BY <1>4, RecordedIs
<1>6. Histograms(HistogramsIn(results))
  BY <1>5, AllIsFinite DEF Histograms, HistogramsIn
<1>7. Bucketizers(BucketizersIn(results))
  <2>1. \E valid \in Nat : \A x \in All : results[x[1]][x[2]].bucketizer.valid = valid
    <3>1. CASE options.measure_iops_std_dev /\ All # {}
      <4>1. PICK y \in All : TRUE
        BY <3>1
      <4>2. PICK d \in Directions : d = recorded[y[1]][y[2]]
        BY <1>4
      <4>3. /\ d.bucketizer.valid \in Nat
            /\ \A e \in Directions : e.bucketizer.valid = d.bucketizer.valid
        BY ReportAssumption, Zenon DEF ReportAssumption
      <4>4. ASSUME NEW x \in All
            PROVE  results[x[1]][x[2]].bucketizer.valid = d.bucketizer.valid
        <5>1. results[x[1]][x[2]].bucketizer = recorded[x[1]][x[2]].bucketizer
          BY <1>5, <3>1
        <5>2. recorded[x[1]][x[2]] \in Directions
          BY <1>4
        <5> QED
          BY <4>3, <5>1, <5>2
      <4> QED
        BY <4>3, <4>4
    <3>2. CASE ~options.measure_iops_std_dev
      <4>1. NewBucketizer.valid = 0
        BY DEF NewBucketizer
      <4>2. ASSUME NEW x \in All
            PROVE  results[x[1]][x[2]].bucketizer.valid = 0
        <5>1. results[x[1]][x[2]].bucketizer = NewBucketizer
          BY <1>5, <3>2
        <5> QED
          BY <4>1, <5>1
      <4> QED
        BY <4>2
    <3>3. CASE All = {}
      BY <3>3
    <3> QED
      BY <3>1, <3>2, <3>3
  <2> QED
    BY <1>5, <2>1, AllIsFinite DEF Bucketizers, BucketizersIn
<1>8. ASSUME NEW r \in Rows
      PROVE  /\ results[r]["RW"].bytes = results[r]["READ"].bytes + results[r]["WRITE"].bytes
             /\ results[r]["RW"].iops = results[r]["READ"].iops + results[r]["WRITE"].iops
  <2>1. PICK a, b : a = recorded[r]["READ"] /\ b = recorded[r]["WRITE"]
                    /\ a \in Directions /\ b \in Directions
    BY <1>2 DEF Direction
  <2>2. /\ results[r]["RW"] = BothOf(a, b)
        /\ results[r]["READ"] = Recorded(options, a) /\ results[r]["WRITE"] = Recorded(options, b)
    BY <1>1, <2>1
  <2>3. DOMAIN a = {"bytes", "iops", "histogram", "bucketizer"}
        /\ DOMAIN b = {"bytes", "iops", "histogram", "bucketizer"}
    BY <2>1, ReportAssumption, Zenon DEF ReportAssumption
  <2>4. /\ results[r]["READ"].bytes = a.bytes /\ results[r]["READ"].iops = a.iops
        /\ results[r]["WRITE"].bytes = b.bytes /\ results[r]["WRITE"].iops = b.iops
    BY <2>2, <2>3 DEF Recorded
  <2> QED
    BY <2>2, <2>4 DEF BothOf
<1> QED
  BY <1>5, <1>6, <1>7, <1>8 DEF IsResults

(* A row, or a total, of some parts.                                        *)
Accumulated(res, r, P) ==
  /\ r.bytes = SumFunctionOnSet(CountersIn(res, "bytes"), P)
  /\ r.iops = SumFunctionOnSet(CountersIn(res, "iops"), P)
  /\ HistogramOf(r.histogram, HistogramsIn(res), P)
  /\ BucketsOf(r.bucketizer, BucketizersIn(res), P)
  /\ {"valid", "buckets"} \subseteq DOMAIN r.bucketizer

(* The counters of all parts are natural numbers.                           *)
LEMMA CounterTypes ==
  ASSUME NEW o, NEW res, IsResults(o, res), NEW f \in {"bytes", "iops"}
  PROVE  \A x \in All : CountersIn(res, f)[x] \in Nat
BY DEF IsResults, CountersIn

(* The accumulators start as those of no parts.                             *)
LEMMA AccumulatedNothing ==
  ASSUME NEW res
  PROVE  Accumulated(res, Nothing, {})
<1>1. \A f : SumFunctionOnSet(f, {}) = 0
  BY SumSmall
<1>2. /\ Nothing.bytes = 0 /\ Nothing.iops = 0
      /\ Nothing.histogram = EmptyHistogram /\ Nothing.bucketizer = NewBucketizer
  BY DEF Nothing
<1>3. {"valid", "buckets"} \subseteq DOMAIN NewBucketizer
  BY DEF NewBucketizer
<1> QED
  BY <1>1, <1>2, <1>3, HistogramOfNone, BucketsOfNone DEF Accumulated

(* To accumulate is to add up the parts of both.                            *)
LEMMA AccumulatedParts ==
  ASSUME NEW o, NEW res, IsResults(o, res), NEW P \in SUBSET All, NEW Q \in SUBSET All,
         P \cap Q = {}, NEW a, Accumulated(res, a, P), NEW b, Accumulated(res, b, Q)
  PROVE  Accumulated(res, Accumulate(a, b), P \cup Q)
<1>1. PICK H, B : H = HistogramsIn(res) /\ B = BucketizersIn(res)
  OBVIOUS
<1>2. Histograms(H) /\ DOMAIN H = All /\ Bucketizers(B) /\ DOMAIN B = All
  BY <1>1 DEF IsResults, HistogramsIn, BucketizersIn
<1>3. IsFiniteSet(P) /\ IsFiniteSet(Q)
  BY AllIsFinite, FS_Subset
<1>4. ASSUME NEW f \in {"bytes", "iops"}
      PROVE  SumFunctionOnSet(CountersIn(res, f), P \cup Q) =
               SumFunctionOnSet(CountersIn(res, f), P) + SumFunctionOnSet(CountersIn(res, f), Q)
  <2>1. PICK g : g = CountersIn(res, f)
    OBVIOUS
  <2>2. \A x \in P \cup Q : g[x] \in Int
    BY <2>1, CounterTypes
  <2> QED
    BY <1>3, <2>1, <2>2, SumParts
<1>5. HistogramOf(HistogramMerge(a.histogram, b.histogram), H, P \cup Q)
  BY <1>1, <1>2, HistogramOfParts DEF Accumulated
<1>6. /\ BucketsOf(BucketMerge(a.bucketizer, b.bucketizer), B, P \cup Q)
      /\ {"valid", "buckets"} \subseteq DOMAIN BucketMerge(a.bucketizer, b.bucketizer)
  BY <1>1, <1>2, BucketsOfParts DEF Accumulated
<1>7. PICK c : c = Accumulate(a, b)
  OBVIOUS
<1>8. /\ c.bytes = a.bytes + b.bytes /\ c.iops = a.iops + b.iops
      /\ c.histogram = HistogramMerge(a.histogram, b.histogram)
      /\ c.bucketizer = BucketMerge(a.bucketizer, b.bucketizer)
  BY <1>7 DEF Accumulate
<1>9. /\ c.bytes = SumFunctionOnSet(CountersIn(res, "bytes"), P \cup Q)
      /\ c.iops = SumFunctionOnSet(CountersIn(res, "iops"), P \cup Q)
  BY <1>4, <1>8 DEF Accumulated
<1> QED
  BY <1>1, <1>5, <1>6, <1>7, <1>8, <1>9 DEF Accumulated

(* One direction of a row, after nothing.                                   *)
LEMMA MergedOne ==
  ASSUME NEW o, NEW res, IsResults(o, res), NEW r \in Rows, NEW d \in Direction
  PROVE  /\ HistogramOf(HistogramMerge(EmptyHistogram, res[r][d].histogram),
                        HistogramsIn(res), {<<r, d>>})
         /\ BucketsOf(BucketMerge(NewBucketizer, res[r][d].bucketizer),
                      BucketizersIn(res), {<<r, d>>})
         /\ {"valid", "buckets"} \subseteq
              DOMAIN BucketMerge(NewBucketizer, res[r][d].bucketizer)
<1>1. PICK H, B : H = HistogramsIn(res) /\ B = BucketizersIn(res)
  OBVIOUS
<1>2. Histograms(H) /\ DOMAIN H = All /\ Bucketizers(B) /\ DOMAIN B = All
  BY <1>1 DEF IsResults, HistogramsIn, BucketizersIn
<1>3. PICK x : x = <<r, d>> /\ x \in All
  <2>1. <<r, d>> \in All
    BY DEF All
  <2> QED
    BY <2>1, Zenon
<1>4. H[x] = res[r][d].histogram /\ B[x] = res[r][d].bucketizer
  BY <1>1, <1>3 DEF HistogramsIn, BucketizersIn
<1>5. /\ {} \in SUBSET All /\ {x} \in SUBSET All /\ {} \cap {x} = {} /\ {} \cup {x} = {x}
  BY <1>3
<1>6. HistogramOf(H[x], H, {x}) /\ HistogramOf(EmptyHistogram, H, {})
  BY <1>2, <1>3, HistogramOfOne, HistogramOfNone
<1>7. BucketsOf(B[x], B, {x}) /\ BucketsOf(NewBucketizer, B, {})
  BY <1>2, <1>3, BucketsOfOne, BucketsOfNone
<1>8. HistogramOf(HistogramMerge(EmptyHistogram, H[x]), H, {} \cup {x})
  BY <1>2, <1>5, <1>6, HistogramOfParts
<1>9. {"valid", "buckets"} \subseteq DOMAIN NewBucketizer
  BY DEF NewBucketizer
<1>10. /\ BucketsOf(BucketMerge(NewBucketizer, B[x]), B, {} \cup {x})
       /\ {"valid", "buckets"} \subseteq DOMAIN BucketMerge(NewBucketizer, B[x])
  BY <1>2, <1>5, <1>7, <1>9, BucketsOfParts
<1> QED
  BY <1>1, <1>3, <1>4, <1>5, <1>8, <1>10

(* What a row has of a section is what its directions in it have.           *)
LEMMA CurrentRow ==
  ASSUME NEW o, IsResults(o, results), NEW r \in Rows, NEW s \in Section
  PROVE  Accumulated(results, Current(r, s), {r} \X DirectionsOf(s))
<1>1. PICK H, B : H = HistogramsIn(results) /\ B = BucketizersIn(results)
  OBVIOUS
<1>2. Histograms(H) /\ DOMAIN H = All /\ Bucketizers(B) /\ DOMAIN B = All
  BY <1>1 DEF IsResults, HistogramsIn, BucketizersIn
<1>3. PICK c : c = Current(r, s)
  OBVIOUS
<1>4. c.bytes = results[r][s].bytes /\ c.iops = results[r][s].iops
  BY <1>3 DEF Current
<1>5. CASE s \in Direction
  <2>1. s # "RW"
    BY <1>5 DEF Direction
  <2>2. /\ c.histogram = HistogramMerge(EmptyHistogram, results[r][s].histogram)
        /\ c.bucketizer = BucketMerge(NewBucketizer, results[r][s].bucketizer)
    BY <1>3, <2>1 DEF Current
  <2>3. {r} \X DirectionsOf(s) = {<<r, s>>}
    BY <2>1 DEF DirectionsOf
  <2>4. <<r, s>> \in All
    BY <1>5 DEF All
  <2>5. ASSUME NEW f \in {"bytes", "iops"}
        PROVE  SumFunctionOnSet(CountersIn(results, f), {<<r, s>>}) = results[r][s][f]
    <3>1. PICK g, x : g = CountersIn(results, f) /\ x = <<r, s>>
      OBVIOUS
    <3>2. g[x] = results[r][s][f]
      BY <2>4, <3>1 DEF CountersIn
    <3>3. g[x] \in Int
      BY <2>4, <3>1, CounterTypes
    <3> QED
      BY <3>1, <3>2, <3>3, SumSmall
  <2>6. /\ c.bytes = SumFunctionOnSet(CountersIn(results, "bytes"), {<<r, s>>})
        /\ c.iops = SumFunctionOnSet(CountersIn(results, "iops"), {<<r, s>>})
    BY <1>4, <2>5
  <2>7. /\ HistogramOf(c.histogram, HistogramsIn(results), {<<r, s>>})
        /\ BucketsOf(c.bucketizer, BucketizersIn(results), {<<r, s>>})
        /\ {"valid", "buckets"} \subseteq DOMAIN c.bucketizer
    BY <1>5, <2>2, MergedOne
  <2> QED
    BY <1>3, <2>3, <2>6, <2>7 DEF Accumulated
<1>6. CASE s = "RW"
  <2>1. PICK x, y : x = <<r, "READ">> /\ y = <<r, "WRITE">> /\ x \in All /\ y \in All /\ x # y
    <3>1. <<r, "READ">> \in All /\ <<r, "WRITE">> \in All /\ <<r, "READ">> # <<r, "WRITE">>
      BY DEF All, Direction
    <3> QED
      BY <3>1, Zenon
  <2>2. {r} \X DirectionsOf(s) = {x, y} /\ {x} \cup {y} = {x, y} /\ {x} \cap {y} = {}
    BY <1>6, <2>1 DEF DirectionsOf, Direction
  <2>3. PICK h, b : /\ h = HistogramMerge(EmptyHistogram, results[r]["READ"].histogram)
                    /\ b = BucketMerge(NewBucketizer, results[r]["READ"].bucketizer)
    OBVIOUS
  <2>4. /\ c.histogram = HistogramMerge(h, results[r]["WRITE"].histogram)
        /\ c.bucketizer = BucketMerge(b, results[r]["WRITE"].bucketizer)
    BY <1>3, <1>6, <2>3 DEF Current
  <2>5. HistogramOf(h, H, {x}) /\ BucketsOf(b, B, {x}) /\ {"valid", "buckets"} \subseteq DOMAIN b
    BY <1>1, <2>1, <2>3, MergedOne DEF Direction
  <2>6. H[y] = results[r]["WRITE"].histogram /\ B[y] = results[r]["WRITE"].bucketizer
    BY <1>1, <2>1 DEF HistogramsIn, BucketizersIn
  <2>7. HistogramOf(H[y], H, {y}) /\ BucketsOf(B[y], B, {y})
    BY <1>2, <2>1, HistogramOfOne, BucketsOfOne
  <2>8. HistogramOf(c.histogram, H, {x, y})
    BY <1>2, <2>1, <2>2, <2>4, <2>5, <2>6, <2>7, HistogramOfParts
  <2>9. BucketsOf(c.bucketizer, B, {x, y}) /\ {"valid", "buckets"} \subseteq DOMAIN c.bucketizer
    BY <1>2, <2>1, <2>2, <2>4, <2>5, <2>6, <2>7, BucketsOfParts
  <2>10. ASSUME NEW f \in {"bytes", "iops"}
         PROVE  SumFunctionOnSet(CountersIn(results, f), {x, y}) =
                  results[r]["READ"][f] + results[r]["WRITE"][f]
    <3>1. PICK g : g = CountersIn(results, f)
      OBVIOUS
    <3>2. g[x] = results[r]["READ"][f] /\ g[y] = results[r]["WRITE"][f]
      BY <2>1, <3>1 DEF CountersIn
    <3>3. g[x] \in Int /\ g[y] \in Int
      BY <2>1, <3>1, CounterTypes
    <3>4. SumFunctionOnSet(g, {x, y}) = g[x] + g[y]
      BY <2>1, <3>3, SumSmall, Zenon
    <3> QED
      BY <3>1, <3>2, <3>4, Zenon
  <2>11. /\ c.bytes = SumFunctionOnSet(CountersIn(results, "bytes"), {x, y})
         /\ c.iops = SumFunctionOnSet(CountersIn(results, "iops"), {x, y})
    BY <1>4, <1>6, <2>10 DEF IsResults
  <2> QED
    BY <1>1, <1>3, <2>2, <2>8, <2>9, <2>11 DEF Accumulated
<1> QED
  BY <1>5, <1>6 DEF Section, Direction

(* The row that is printed is the one the table is at.                      *)
LEMMA NewRow ==
  ASSUME OrderInv, step \in {"CPU"} \cup Section, NEW e,
         table' = [table EXCEPT ![step] = Append(@, e)]
  PROVE  table'[step][row] = e
<1>1. /\ IsSequence(table[step]) /\ Len(table[step]) = row - 1 /\ row \in Nat
      /\ step \in DOMAIN table
  <2>1. RowsOf(step) \in Nat /\ row \in 1 .. RowsOf(step) + 1
    BY Numbers DEF OrderInv, RowsOf
  <2> QED
    BY <2>1 DEF OrderInv
<1>2. table'[step] = Append(table[step], e)
  BY <1>1
<1>3. row - 1 + 1 = row
  BY <1>1
<1> QED
  BY <1>1, <1>2, <1>3, AppendAny

(* The total of a section is what its rows so far have, and every row       *)
(* printed is what its parts have.                                          *)
TableInv ==
  /\ IsResults(options, results)
  /\ step = "CPU" => total = Nothing
  /\ step \in Section => Accumulated(results, total, (1 .. row - 1) \X DirectionsOf(step))
  /\ \A s \in Section : \A i \in DOMAIN table[s] :
       \E r : table[s][i] = Printed(r) /\ Accumulated(results, r, PartsOf(s, i))

(* No table has a row at first.                                             *)
LEMMA InitTable == Init => TableInv
<1> SUFFICES ASSUME Init PROVE TableInv
  OBVIOUS
<1>1. \A s \in Section : DOMAIN table[s] = {}
  BY DEF Init
<1> QED
  BY <1>1, InitResults DEF Init, TableInv, Section

(* A row is added to those before it.                                       *)
LEMMA RowsGrow ==
  ASSUME NEW n \in Rows, NEW s \in Section
  PROVE  /\ (1 .. n - 1) \X DirectionsOf(s) \in SUBSET All
         /\ {n} \X DirectionsOf(s) \in SUBSET All
         /\ ((1 .. n - 1) \X DirectionsOf(s)) \cap ({n} \X DirectionsOf(s)) = {}
         /\ ((1 .. n - 1) \X DirectionsOf(s)) \cup ({n} \X DirectionsOf(s)) =
              (1 .. n) \X DirectionsOf(s)
         /\ PartsOf(s, n) = {n} \X DirectionsOf(s)
<1>1. NumRows \in Nat
  BY Numbers
<1>2. PICK D : D = DirectionsOf(s) /\ D \subseteq Direction
  BY DEF DirectionsOf, Section, Direction
<1>3. /\ 1 .. n - 1 \subseteq Rows /\ n \notin 1 .. n - 1
      /\ 1 .. n = (1 .. n - 1) \cup {n}
  BY <1>1 DEF Rows
<1> QED
  BY <1>2, <1>3 DEF All, PartsOf

(* Each row shows the merge of its parts, each total that of all rows       *)
(* before it, which is reset for the next table.                            *)
LEMMA TableInvariance == OrderInv /\ TableInv /\ [Next]_vars => TableInv'
<1> SUFFICES ASSUME OrderInv, TableInv, [Next]_vars PROVE TableInv'
  OBVIOUS
<1>1. UNCHANGED <<options, results>>
  BY DEF Next, vars, given, PrintCpu, PrintAverages, PrintRow, PrintTotal, MergeRow, MergeDone,
         PrintLine, PrintDone, Terminated
<1>2. IsResults(options', results') /\ \A r : Printed(r)' = Printed(r)
  BY <1>1 DEF TableInv, Printed
<1> DEFINE Row(tab, s, i) ==
      \E r : tab[s][i] = Printed(r) /\ Accumulated(results, r, PartsOf(s, i))
<1>3. \A s \in Section : \A i \in DOMAIN table[s] : Row(table, s, i)
  BY DEF TableInv
<1>4. ASSUME \A s \in Section : \A i \in DOMAIN table'[s] : Row(table', s, i)
      PROVE  \A s \in Section : \A i \in DOMAIN table'[s] :
               \E r : table'[s][i] = Printed(r)' /\ Accumulated(results', r, PartsOf(s, i))
  BY <1>1, <1>2, <1>4
<1>5. ASSUME NEW e, Accumulated(results, e, PartsOf(step, row)), PrintRow \/ PrintTotal,
             table' = [table EXCEPT ![step] = Append(@, Printed(e))]
      PROVE  \A s \in Section : \A i \in DOMAIN table'[s] : Row(table', s, i)
  <2>1. step \in Section
    BY <1>5 DEF PrintRow, PrintTotal
  <2>2. table'[step][row] = Printed(e)
    <3>1. PICK p : p = Printed(e)
      OBVIOUS
    <3> QED
      BY <1>5, <2>1, <3>1, NewRow
  <2>3. ASSUME NEW s \in Section
        PROVE  /\ DOMAIN table'[s] = DOMAIN table[s] \cup (IF s = step THEN {row} ELSE {})
               /\ \A i \in DOMAIN table[s] : table'[s][i] = table[s][i]
    BY <1>5, TableStep
  <2>4. ASSUME NEW s \in Section, NEW i \in DOMAIN table'[s]
        PROVE  Row(table', s, i)
    <3>1. CASE i \in DOMAIN table[s]
      BY <1>3, <2>3, <3>1
    <3>2. CASE s = step /\ i = row
      BY <1>5, <2>2, <3>2
    <3> QED
      BY <2>3, <2>4, <3>1, <3>2
  <2> QED
    BY <2>4
<1> HIDE DEF Row
<1>6. row \in 1 .. RowsOf(step) + 1
  BY DEF OrderInv
<1>7. CASE PrintRow
  <2>1. /\ step \in Section /\ row <= NumRows /\ step' = step /\ row' = row + 1
        /\ total' = Accumulate(total, Current(row, step))
        /\ table' = [table EXCEPT ![step] = Append(@, Printed(Current(row, step)))]
    BY <1>7 DEF PrintRow
  <2>2. row \in Rows /\ row' - 1 = row
    BY <1>6, <2>1, Numbers DEF Rows, RowsOf, Section
  <2>3. PICK c : c = Current(row, step)
    OBVIOUS
  <2>4. Accumulated(results, c, {row} \X DirectionsOf(step))
    BY <2>1, <2>2, <2>3, CurrentRow DEF TableInv
  <2>5. \A s \in Section : \A i \in DOMAIN table'[s] : Row(table', s, i)
    <3>1. PartsOf(step, row) = {row} \X DirectionsOf(step)
      BY <2>1, <2>2, RowsGrow
    <3>2. Accumulated(results, c, PartsOf(step, row))
      BY <2>4, <3>1
    <3>3. table' = [table EXCEPT ![step] = Append(@, Printed(c))]
      BY <2>1, <2>3
    <3> QED
      BY <1>5, <1>7, <3>2, <3>3
  <2>6. Accumulated(results, total', (1 .. row' - 1) \X DirectionsOf(step))
    <3>1. PICK P, Q : /\ P = (1 .. row - 1) \X DirectionsOf(step)
                      /\ Q = {row} \X DirectionsOf(step)
      OBVIOUS
    <3>2. /\ P \in SUBSET All /\ Q \in SUBSET All /\ P \cap Q = {}
          /\ P \cup Q = (1 .. row) \X DirectionsOf(step)
      BY <2>1, <2>2, <3>1, RowsGrow
    <3>3. Accumulated(results, Accumulate(total, c), P \cup Q)
      BY <2>1, <2>4, <3>1, <3>2, AccumulatedParts DEF TableInv
    <3> QED
      BY <2>1, <2>2, <2>3, <3>2, <3>3
  <2> QED
    BY <1>1, <1>2, <1>4, <2>1, <2>5, <2>6 DEF TableInv, Section
<1>8. CASE PrintTotal
  <2>1. /\ step \in Section /\ row > NumRows /\ step' = After(step) /\ row' = 1
        /\ total' = Nothing
        /\ table' = [table EXCEPT ![step] = Append(@, Printed(total))]
    BY <1>8 DEF PrintTotal
  <2>2. row \notin Rows /\ 1 .. row - 1 = Rows
    BY <1>6, <2>1, Numbers DEF Rows, RowsOf, Section
  <2>3. PICK c : c = total
    OBVIOUS
  <2>4. Accumulated(results, c, PartsOf(step, row))
    BY <2>1, <2>2, <2>3 DEF TableInv, PartsOf
  <2>5. \A s \in Section : \A i \in DOMAIN table'[s] : Row(table', s, i)
    <3>1. table' = [table EXCEPT ![step] = Append(@, Printed(c))]
      BY <2>1, <2>3
    <3> QED
      BY <1>5, <1>8, <2>4, <3>1
  <2>6. step' # "CPU"
    <3>1. options.measure_latency \in BOOLEAN
      BY DEF OrderInv
    <3> QED
      BY <2>1, <3>1, NextTable DEF Section
  <2>7. Accumulated(results, total', (1 .. row' - 1) \X DirectionsOf(step'))
    <3>1. (1 .. row' - 1) \X DirectionsOf(step') = {}
      BY <2>1
    <3> QED
      BY <2>1, <3>1, AccumulatedNothing
  <2> QED
    BY <1>1, <1>2, <1>4, <2>1, <2>5, <2>6, <2>7 DEF TableInv
<1>9. CASE PrintCpu \/ PrintAverages
  <2>1. /\ step = "CPU" /\ total' = total
        /\ step' = "CPU" \/ (step' = "RW" /\ row' = 1)
        /\ \A s \in Section : table'[s] = table[s]
    BY <1>9 DEF PrintCpu, PrintAverages, sums, Section, OrderInv
  <2>2. total' = Nothing
    BY <2>1 DEF TableInv
  <2>3. step' = "RW" => (1 .. row' - 1) \X DirectionsOf(step') = {}
    BY <2>1
  <2>4. step' \in Section => Accumulated(results, total', (1 .. row' - 1) \X DirectionsOf(step'))
    BY <2>1, <2>2, <2>3, AccumulatedNothing DEF Section
  <2>5. \A s \in Section : \A i \in DOMAIN table'[s] : Row(table', s, i)
    BY <1>3, <2>1 DEF Row
  <2> QED
    BY <1>1, <1>2, <1>4, <2>2, <2>4, <2>5 DEF TableInv
<1>10. CASE MergeRow \/ MergeDone \/ PrintLine \/ PrintDone
  <2>1. table' = table
    BY <1>10, LineStep
  <2>2. step' # "CPU" /\ step' \notin Section
    BY <1>10 DEF MergeRow, MergeDone, PrintLine, PrintDone, Section
  <2>3. \A s \in Section : \A i \in DOMAIN table'[s] : Row(table', s, i)
    BY <1>3, <2>1
  <2> QED
    BY <1>1, <1>2, <1>4, <2>2, <2>3 DEF TableInv
<1>11. CASE UNCHANGED vars
  <2>1. /\ step' = step /\ row' = row /\ total' = total /\ table' = table
    BY <1>11 DEF vars, sums, printed
  <2>2. \A s \in Section : \A i \in DOMAIN table'[s] : Row(table', s, i)
    BY <1>3, <2>1
  <2> QED
    BY <1>1, <1>2, <1>4, <2>1, <2>2 DEF TableInv
<1> QED
  BY <1>7, <1>8, <1>9, <1>10, <1>11 DEF Next, Terminated

-----------------------------------------------------------------------------
(***************************************************************************)
(* The percentiles.                                                        *)
(***************************************************************************)

(* The histograms of the reads and of the writes of the first n rows; the   *)
(* total has the same latencies, not the same counts.                       *)
MergedUpTo(res, h, n) ==
  /\ \A d \in Direction : HistogramOf(h[d], HistogramsIn(res), (1 .. n) \X {d})
  /\ DOMAIN h["RW"].data = DOMAIN h["READ"].data \cup DOMAIN h["WRITE"].data

(* The columns with anything in them; the total is always asked for.        *)
ColumnsOf(h) == {s \in Section : s = "RW" \/ h[s].samples > 0}

(* A line of histograms.                                                    *)
LineOf(line, i, h) ==
  /\ \A s \in ColumnsOf(h) : HasValue(i, h[s])
  /\ \A s \in Section : line[s] = {Value(i, h[c]) : c \in ColumnsOf(h) \cap {s}}

(* What the histograms hold at each step, and every line is one of the      *)
(* histograms of all rows.                                                  *)
LatencyInv ==
  /\ step \in {"CPU"} \cup Section => latencies = [s \in Section |-> EmptyHistogram]
  /\ step = "merge" => MergedUpTo(results, latencies, row - 1)
  /\ step = "percentiles" => MergedUpTo(results, latencies, NumRows)
  /\ \A i \in DOMAIN lines : \E h : MergedUpTo(results, h, NumRows) /\ LineOf(lines[i], i, h)

(* No histogram is merged and no line printed at first.                     *)
LEMMA InitLatency == Init => LatencyInv
BY DEF Init, LatencyInv, Section

(* Nothing is merged yet.                                                   *)
LEMMA MergedNothing ==
  ASSUME NEW res
  PROVE  MergedUpTo(res, [s \in Section |-> EmptyHistogram], 0)
<1>1. \A d \in Direction : (1 .. 0) \X {d} = {}
  OBVIOUS
<1>2. /\ HistogramOf(EmptyHistogram, HistogramsIn(res), {})
      /\ DOMAIN EmptyHistogram.data = DOMAIN EmptyHistogram.data \cup DOMAIN EmptyHistogram.data
  BY HistogramOfNone
<1>3. \A s \in Section : [t \in Section |-> EmptyHistogram][s] = EmptyHistogram
  OBVIOUS
<1>4. Direction \subseteq Section /\ {"RW", "READ", "WRITE"} \subseteq Section
  BY DEF Direction, Section
<1> QED
  BY <1>1, <1>2, <1>3, <1>4 DEF MergedUpTo

(* One row more.                                                            *)
LEMMA MergedRow ==
  ASSUME NEW o, NEW res, IsResults(o, res), NEW n \in Rows, NEW h, MergedUpTo(res, h, n - 1),
         NEW reads, reads = HistogramMerge(h["READ"], res[n]["READ"].histogram),
         NEW writes, writes = HistogramMerge(h["WRITE"], res[n]["WRITE"].histogram)
  PROVE  MergedUpTo(res, [READ |-> reads, WRITE |-> writes,
                          RW |-> HistogramMerge(HistogramMerge(h["RW"], reads), writes)], n)
<1>1. PICK H : H = HistogramsIn(res)
  OBVIOUS
<1>2. Histograms(H) /\ DOMAIN H = All
  BY <1>1 DEF IsResults, HistogramsIn
<1>3. ASSUME NEW d \in Direction
      PROVE  HistogramOf(HistogramMerge(h[d], res[n][d].histogram), H, (1 .. n) \X {d})
  <2>1. PICK P, Q, x : P = (1 .. n - 1) \X {d} /\ Q = {x} /\ x = <<n, d>>
    OBVIOUS
  <2>2. d \in Section /\ DirectionsOf(d) = {d}
    BY DEF Section, Direction, DirectionsOf
  <2>3. {n} \X {d} = Q /\ x \in All
    BY <2>1 DEF All
  <2>4. /\ P \in SUBSET All /\ Q \in SUBSET All /\ P \cap Q = {}
        /\ P \cup Q = (1 .. n) \X {d}
    BY <2>1, <2>2, <2>3, RowsGrow
  <2>5. HistogramOf(h[d], H, P)
    BY <1>1, <2>1 DEF MergedUpTo
  <2>6. HistogramOf(H[x], H, {x}) /\ H[x] = res[n][d].histogram
    BY <1>1, <1>2, <2>1, <2>3, HistogramOfOne DEF HistogramsIn
  <2>7. HistogramOf(HistogramMerge(h[d], H[x]), H, P \cup Q)
    BY <1>2, <2>1, <2>4, <2>5, <2>6, HistogramOfParts
  <2> QED
    BY <2>4, <2>6, <2>7
<1>4. HistogramOf(reads, H, (1 .. n) \X {"READ"}) /\ HistogramOf(writes, H, (1 .. n) \X {"WRITE"})
  BY <1>3 DEF Direction
<1>5. \A a, b : DOMAIN HistogramMerge(a, b).data = DOMAIN a.data \cup DOMAIN b.data
  BY DEF HistogramMerge
<1>6. DOMAIN h["RW"].data = DOMAIN h["READ"].data \cup DOMAIN h["WRITE"].data
  BY DEF MergedUpTo
<1>7. PICK rw : rw = HistogramMerge(HistogramMerge(h["RW"], reads), writes)
  OBVIOUS
<1>8. DOMAIN rw.data = DOMAIN reads.data \cup DOMAIN writes.data
  <2>1. DOMAIN rw.data = (DOMAIN h["RW"].data \cup DOMAIN reads.data) \cup DOMAIN writes.data
    BY <1>5, <1>7
  <2>2. DOMAIN h["READ"].data \subseteq DOMAIN reads.data
        /\ DOMAIN h["WRITE"].data \subseteq DOMAIN writes.data
    BY <1>5
  <2> QED
    BY <1>6, <2>1, <2>2
<1>9. PICK g : g = [READ |-> reads, WRITE |-> writes, RW |-> rw]
  OBVIOUS
<1>10. g["READ"] = reads /\ g["WRITE"] = writes /\ g["RW"] = rw
  BY <1>9
<1>11. MergedUpTo(res, g, n)
  BY <1>1, <1>4, <1>8, <1>10 DEF MergedUpTo, Direction
<1> QED
  BY <1>7, <1>9, <1>11

(* The histograms of reads and writes are those of the rows merged so far;  *)
(* the lines are printed when they are those of all rows.                   *)
LEMMA LatencyInvariance == OrderInv /\ TableInv /\ LatencyInv /\ [Next]_vars => LatencyInv'
<1> SUFFICES ASSUME OrderInv, TableInv, LatencyInv, [Next]_vars PROVE LatencyInv'
  OBVIOUS
<1>1. UNCHANGED results
  BY DEF Next, vars, given, PrintCpu, PrintAverages, PrintRow, PrintTotal, MergeRow, MergeDone,
         PrintLine, PrintDone, Terminated
<1> DEFINE Lines(q) == \A i \in DOMAIN q :
                         \E h : MergedUpTo(results, h, NumRows) /\ LineOf(q[i], i, h)
<1>2. Lines(lines)
  BY DEF LatencyInv
<1>3. ASSUME Lines(lines')
      PROVE  \A i \in DOMAIN lines' :
               \E h : MergedUpTo(results', h, NumRows) /\ LineOf(lines'[i], i, h)
  BY <1>1, <1>3
<1> HIDE DEF Lines
<1>4. CASE PrintCpu \/ PrintAverages \/ PrintRow \/ PrintTotal
  <2>1. /\ step \in {"CPU"} \cup Section /\ latencies' = latencies /\ lines' = lines
        /\ step' \in {"CPU"} \cup Section \/ step' = "done" \/ (step' = "merge" /\ row' = 1)
    <3>1. options.measure_latency \in BOOLEAN
      BY DEF OrderInv
    <3> QED
      BY <1>4, <3>1, NextTable DEF PrintCpu, PrintAverages, PrintRow, PrintTotal, sums, Section
  <2>2. latencies' = [s \in Section |-> EmptyHistogram]
    BY <2>1 DEF LatencyInv
  <2>3. step' = "merge" => MergedUpTo(results', latencies', row' - 1)
    <3>1. step' = "merge" => row' - 1 = 0
      BY <2>1 DEF Section
    <3> QED
      BY <2>2, <3>1, MergedNothing
  <2>4. step' # "percentiles" /\ Lines(lines')
    BY <1>2, <2>1 DEF Section
  <2> QED
    BY <1>3, <2>2, <2>3, <2>4 DEF LatencyInv
<1>5. CASE MergeRow
  <2>1. /\ step = "merge" /\ row <= NumRows /\ row' = row + 1 /\ step' = step /\ lines' = lines
        /\ latencies' = [READ |-> HistogramMerge(latencies.READ, results[row].READ.histogram),
                         WRITE |-> HistogramMerge(latencies.WRITE, results[row].WRITE.histogram),
                         RW |-> HistogramMerge(HistogramMerge(latencies.RW,
                                  HistogramMerge(latencies.READ, results[row].READ.histogram)),
                                  HistogramMerge(latencies.WRITE, results[row].WRITE.histogram))]
    BY <1>5 DEF MergeRow, printed
  <2>2. row \in Rows /\ row' - 1 = row
    <3>1. row \in 1 .. NumRows + 1
      BY <2>1 DEF OrderInv, RowsOf
    <3> QED
      BY <2>1, <3>1, Numbers DEF Rows
  <2>3. MergedUpTo(results, latencies, row - 1) /\ IsResults(options, results)
    BY <2>1 DEF LatencyInv, TableInv
  <2>4. MergedUpTo(results, latencies', row)
    BY <2>1, <2>2, <2>3, MergedRow
  <2> QED
    BY <1>1, <1>2, <1>3, <2>1, <2>2, <2>4 DEF LatencyInv, Section
<1>6. CASE MergeDone
  <2>1. /\ step = "merge" /\ row > NumRows /\ step' = "percentiles" /\ lines' = lines
        /\ latencies' = latencies
    BY <1>6 DEF MergeDone, printed, sums
  <2>2. row - 1 = NumRows
    <3>1. row \in 1 .. NumRows + 1
      BY <2>1 DEF OrderInv, RowsOf
    <3> QED
      BY <2>1, <3>1, Numbers
  <2>3. MergedUpTo(results, latencies, NumRows)
    BY <2>1, <2>2 DEF LatencyInv
  <2> QED
    BY <1>1, <1>2, <1>3, <2>1, <2>3 DEF LatencyInv, Section
<1>7. CASE PrintLine
  <2>1. /\ step = "percentiles" /\ latencies' = latencies
        /\ step' \in {"percentiles", "terminated"}
    BY <1>7 DEF PrintLine, sums
  <2>2. MergedUpTo(results, latencies, NumRows)
    BY <2>1 DEF LatencyInv
  <2>3. Lines(lines')
    <3>1. CASE lines' = lines
      BY <1>2, <3>1
    <3>2. CASE lines' # lines
      <4> DEFINE n == Len(lines) + 1
                 e == [s \in Section |->
                         {Value(n, latencies[c]) : c \in ColumnsOf(latencies) \cap {s}}]
      <4>1. lines' = Append(lines, e) /\ \A s \in ColumnsOf(latencies) : HasValue(n, latencies[s])
        BY <1>7, <3>2 DEF PrintLine, ColumnsOf
      <4>2. LineOf(e, n, latencies)
        BY <4>1 DEF LineOf
      <4> HIDE DEF e
      <4>3. /\ DOMAIN lines = 1 .. Len(lines) /\ DOMAIN lines' = 1 .. n /\ Len(lines) \in Nat
            /\ \A i \in 1 .. Len(lines) : lines'[i] = lines[i]
            /\ lines'[n] = e
        BY <4>1, AppendAny DEF OrderInv
      <4>4. ASSUME NEW i \in DOMAIN lines'
            PROVE  \E h : MergedUpTo(results, h, NumRows) /\ LineOf(lines'[i], i, h)
        <5>1. CASE i \in DOMAIN lines
          BY <1>2, <4>3, <5>1 DEF Lines
        <5>2. CASE i = n
          BY <2>2, <4>2, <4>3, <5>2
        <5> QED
          BY <4>3, <4>4, <5>1, <5>2
      <4> QED
        BY <4>4 DEF Lines
    <3> QED
      BY <3>1, <3>2
  <2> QED
    BY <1>1, <1>3, <2>1, <2>2, <2>3 DEF LatencyInv, Section
<1>8. CASE PrintDone
  <2>1. step' = "done" /\ lines' = lines
    BY <1>8 DEF PrintDone, printed
  <2> QED
    BY <1>2, <1>3, <2>1 DEF LatencyInv, Section
<1>9. CASE UNCHANGED vars
  <2>1. step' = step /\ row' = row /\ latencies' = latencies /\ lines' = lines
    BY <1>9 DEF vars, sums, printed
  <2> QED
    BY <1>1, <1>2, <1>3, <2>1 DEF LatencyInv
<1> QED
  BY <1>4, <1>5, <1>6, <1>7, <1>8, <1>9 DEF Next, Terminated

(* All parts of the inductive invariant together.                           *)
ReportInv == OrderInv /\ CpuInv /\ TableInv /\ LatencyInv

(* The inductive invariant holds throughout.                                *)
LEMMA Report_Inv == Spec => []ReportInv
<1>1. ReportInv /\ [Next]_vars => ReportInv'
  BY OrderInvariance, CpuInvariance, TableInvariance, LatencyInvariance DEF ReportInv
<1>2. Init => ReportInv
  BY InitOrder, InitCpu, InitTable, InitLatency DEF ReportInv
<1> QED
  BY <1>1, <1>2, PTL DEF Spec

(* result_formatter.cc: what a row or a total shows is what the workers it  *)
(* stands for have counted, and the CPU shares make up all of the time.     *)
THEOREM TablesSum == Spec => []TablesAddUp
<1>1. ReportInv => TablesAddUp
  <2> SUFFICES ASSUME CpuInv, TableInv PROVE TablesAddUp
    BY DEF ReportInv
  <2>1. ASSUME NEW s \in Section, NEW i \in DOMAIN table[s]
        PROVE  LET of(field) == SumFunction([x \in PartsOf(s, i) |-> results[x[1]][x[2]][field]])
               IN  table[s][i].bytes = of("bytes") /\ table[s][i].iops = of("iops")
    <3>1. PICK r : table[s][i] = Printed(r) /\ Accumulated(results, r, PartsOf(s, i))
      BY DEF TableInv
    <3>2. table[s][i].bytes = r.bytes /\ table[s][i].iops = r.iops
      BY <3>1 DEF Printed
    <3>3. PICK P : P = PartsOf(s, i) /\ P \subseteq All /\ IsFiniteSet(P)
      <4>1. PartsOf(s, i) \subseteq All
        BY DEF PartsOf, All, DirectionsOf, Section, Direction
      <4> QED
        BY <4>1, AllIsFinite, FS_Subset
    <3>4. ASSUME NEW f \in {"bytes", "iops"}
          PROVE  SumFunctionOnSet(CountersIn(results, f), P) =
                   SumFunction([x \in P |-> results[x[1]][x[2]][f]])
      <4>1. PICK g, h : /\ g = CountersIn(results, f)
                        /\ h = [x \in P |-> results[x[1]][x[2]][f]]
        OBVIOUS
      <4>2. \A x \in P : g[x] \in Int /\ h[x] = g[x]
        <5>1. \A x \in All : g[x] \in Nat
          BY <4>1, CounterTypes DEF TableInv
        <5> QED
          BY <3>3, <4>1, <5>1 DEF CountersIn
      <4>3. SumFunctionOnSet(g, P) = SumFunctionOnSet(h, P)
        BY <3>3, <4>2, SumPointwise
      <4>4. DOMAIN h = P
        BY <4>1
      <4> QED
        BY <4>1, <4>3, <4>4 DEF SumFunction
    <3> QED
      BY <3>1, <3>2, <3>3, <3>4 DEF Accumulated
  <2>2. ASSUME NEW i \in DOMAIN table["CPU"]
        PROVE  LET share(c)  == table["CPU"][i][c]
                   sum(a, b) == AddShares(share(a), share(b))
               IN  /\ SameShare(share("Usage"), sum("User", "Kernel"))
                   /\ SameShare(AddShares(share("Usage"), sum("IO Wait", "Idle")),
                                [num |-> 1, den |-> 1])
    <3>1. PICK x : x = table["CPU"][i]
      OBVIOUS
    <3>2. AddsUp(x, 1)
      BY <3>1 DEF CpuInv
    <3> QED
      BY <3>1, <3>2, SharesMakeUp
  <2> QED
    BY <2>1, <2>2 DEF TablesAddUp
<1> QED
  BY <1>1, Report_Inv, PTL

-----------------------------------------------------------------------------
(***************************************************************************)
(* What several histograms count together, weighted: the counts up to a    *)
(* latency are weighted by 0 and 1, the moments by powers of the latency.  *)
(***************************************************************************)

(* The latencies of some parts, and how often they have each.               *)
LatenciesOf(H, P) == UNION {DOMAIN H[x].data : x \in P}

CountsIn(H, P) == [v \in Latency |-> Count(H, P, v)]

(* A weighted sum of counts: over all latencies, or those of one histogram. *)
Weigh(c, w) == SumFunctionOnSet([v \in Latency |-> c[v] * w[v]], Latency)

WeighData(data, w) == SumFunctionOnSet([v \in DOMAIN data |-> data[v] * w[v]], DOMAIN data)

(* A count of 0 weighs nothing.                                             *)
LEMMA WeighOfData ==
  ASSUME NEW data, DOMAIN data \subseteq Latency, \A v \in DOMAIN data : data[v] \in Nat,
         NEW c, \A v \in Latency : c[v] = IF v \in DOMAIN data THEN data[v] ELSE 0,
         NEW w \in [Latency -> Nat]
  PROVE  Weigh(c, w) = WeighData(data, w) /\ Weigh(c, w) \in Nat
<1>1. PICK D : D = DOMAIN data /\ D \in SUBSET Latency
  OBVIOUS
<1>2. PICK f, g : /\ f = [v \in Latency |-> c[v] * w[v]]
                  /\ g = [v \in DOMAIN data |-> data[v] * w[v]]
  OBVIOUS
<1>3. \A v \in Latency : w[v] \in Nat /\ c[v] \in Nat
  BY <1>1
<1>4. \A v \in Latency : f[v] = c[v] * w[v] /\ c[v] * w[v] \in Nat
  <2>1. \A a, b \in Nat : a * b \in Nat
    OBVIOUS
  <2> QED
    BY <1>2, <1>3, <2>1
<1>5. \A v \in D : g[v] = f[v] /\ f[v] \in Nat
  <2>1. \A v \in D : g[v] = data[v] * w[v] /\ c[v] = data[v]
    BY <1>1, <1>2
  <2> QED
    BY <1>1, <1>4, <2>1
<1>6. \A v \in Latency \ D : f[v] = 0
  <2>1. \A v \in Latency \ D : c[v] = 0 /\ w[v] \in Nat
    BY <1>1
  <2>2. \A a \in Nat : 0 * a = 0
    OBVIOUS
  <2> QED
    BY <1>4, <2>1, <2>2
<1>7. \A v \in Latency : f[v] \in Nat
  BY <1>4
<1>8. SumFunctionOnSet(f, D) = SumFunctionOnSet(f, Latency)
  BY <1>1, <1>6, <1>7, AllIsFinite, SumOfPart
<1>9. SumFunctionOnSet(f, D) = SumFunctionOnSet(g, D)
  <2>1. IsFiniteSet(D)
    BY <1>1, AllIsFinite, FS_Subset
  <2>2. \A v \in D : f[v] \in Int /\ g[v] \in Int /\ f[v] = g[v]
    BY <1>5
  <2> QED
    BY <2>1, <2>2, SumPointwise
<1>10. SumFunctionOnSet(f, Latency) \in Nat
  BY <1>7, AllIsFinite, SumType
<1> QED
  BY <1>1, <1>2, <1>8, <1>9, <1>10 DEF Weigh, WeighData

(* The parts together weigh what each of them does, added up.               *)
LEMMA WeighOfParts ==
  ASSUME NEW H, Histograms(H), NEW P \in SUBSET DOMAIN H, NEW w \in [Latency -> Nat]
  PROVE  /\ Weigh(CountsIn(H, P), w) =
              SumFunctionOnSet([x \in P |-> WeighData(H[x].data, w)], P)
         /\ \A x \in P : WeighData(H[x].data, w) \in Nat
<1>1. IsFiniteSet(P) /\ IsFiniteSet(Latency)
  BY CountTypes, AllIsFinite
<1> DEFINE Of(x) == [v \in Latency |-> CountOf(H[x], v)]
<1>2. ASSUME NEW x \in P
      PROVE  Weigh(Of(x), w) = WeighData(H[x].data, w) /\ WeighData(H[x].data, w) \in Nat
  <2>1. IsHistogram(H[x])
    BY DEF Histograms
  <2>2. PICK data : data = H[x].data
    OBVIOUS
  <2>3. DOMAIN data \subseteq Latency /\ \A v \in DOMAIN data : data[v] \in Nat
    BY <2>1, <2>2 DEF IsHistogram
  <2>4. \A v \in Latency : Of(x)[v] = IF v \in DOMAIN data THEN data[v] ELSE 0
    BY <2>2 DEF CountOf
  <2> HIDE DEF Of
  <2> QED
    BY <2>2, <2>3, <2>4, WeighOfData
<1> DEFINE F == [x \in P |-> [v \in Latency |-> CountOf(H[x], v) * w[v]]]
           G == [v \in Latency |-> [x \in P |-> CountOf(H[x], v) * w[v]]]
           h == [x \in P |-> WeighData(H[x].data, w)]
           g == [v \in Latency |-> CountsIn(H, P)[v] * w[v]]
<1>3. \A x \in P : \A v \in Latency : CountOf(H[x], v) \in Nat /\ w[v] \in Nat
  BY CountsOfOne, StatisticsAssumption DEF StatisticsAssumption, Histograms
<1>4. \A a, b \in Nat : a * b \in Nat
  OBVIOUS
<1>5. \A x \in P : \A v \in Latency : F[x][v] = CountOf(H[x], v) * w[v] /\ F[x][v] \in Int
  BY <1>3, <1>4
<1>6. \A x \in P : h[x] = SumFunctionOnSet(F[x], Latency)
  <2>1. ASSUME NEW x \in P PROVE SumFunctionOnSet(F[x], Latency) = Weigh(Of(x), w)
    <3>1. F[x] = [v \in Latency |-> Of(x)[v] * w[v]]
      OBVIOUS
    <3> QED
      BY <3>1, Zenon DEF Weigh
  <2> HIDE DEF F, Of
  <2> QED
    BY <1>2, <2>1
<1>7. ASSUME NEW v \in Latency
      PROVE  g[v] = SumFunctionOnSet(G[v], P)
  <2>1. PICK f, k : f = [x \in DOMAIN H |-> CountOf(H[x], v)] /\ k = G[v]
    OBVIOUS
  <2>2. w[v] \in Int /\ \A x \in P : f[x] \in Int /\ k[x] = f[x] * w[v]
    BY <1>3, <2>1
  <2>3. SumFunctionOnSet(k, P) = SumFunctionOnSet(f, P) * w[v]
    BY <1>1, <2>2, SumScaled
  <2>4. g[v] = SumFunctionOnSet(f, P) * w[v]
    BY <2>1 DEF CountsIn, Count
  <2> QED
    BY <2>1, <2>3, <2>4
<1>8. SumFunctionOnSet(g, Latency) = SumFunctionOnSet(h, P)
  <2>1. \A x \in P : \A v \in Latency : F[x][v] \in Int
    BY <1>5
  <2>2. \A v \in Latency : \A x \in P : G[v][x] = F[x][v]
    OBVIOUS
  <2> HIDE DEF F, G, g, h, Of
  <2>3. IsGrid(P, Latency, F, G, g, h)
    BY <1>1, <1>6, <1>7, <2>1, <2>2 DEF IsGrid
  <2> QED
    BY <2>3, SumSwaps
<1>9. Weigh(CountsIn(H, P), w) = SumFunctionOnSet(g, Latency)
  BY DEF Weigh
<1> QED
  BY <1>2, <1>8, <1>9

(* The latencies up to v count, the others do not.                          *)
Through(v) == [l \in Latency |-> IF l <= v THEN 1 ELSE 0]

UpTo(H, P, v) == Weigh(CountsIn(H, P), Through(v))

(* Weighing the latencies up to v by 1 and the others by 0 counts those up  *)
(* to v.                                                                    *)
LEMMA WeighThrough ==
  ASSUME NEW data, DOMAIN data \subseteq Latency, \A l \in DOMAIN data : data[l] \in Nat, NEW v
  PROVE  WeighData(data, Through(v)) = SumFunctionOnSet(data, {l \in DOMAIN data : l <= v})
<1>1. PICK f, D, T : /\ f = [l \in DOMAIN data |-> data[l] * Through(v)[l]]
                     /\ D = DOMAIN data /\ T = {l \in DOMAIN data : l <= v}
  OBVIOUS
<1>2. T \in SUBSET D /\ D \subseteq Latency /\ IsFiniteSet(D) /\ IsFiniteSet(T)
  <2>1. IsFiniteSet(D)
    BY <1>1, AllIsFinite, FS_Subset
  <2> QED
    BY <1>1, <2>1, FS_Subset
<1>3. \A l \in T : f[l] = data[l] /\ data[l] \in Nat
  BY <1>1 DEF Through
<1>4. \A l \in D \ T : f[l] = 0
  BY <1>1 DEF Through
<1>5. \A l \in D : f[l] \in Nat
  BY <1>3, <1>4
<1>6. SumFunctionOnSet(f, T) = SumFunctionOnSet(f, D)
  BY <1>2, <1>4, <1>5, SumOfPart
<1>7. SumFunctionOnSet(f, T) = SumFunctionOnSet(data, T)
  <2>1. \A l \in T : f[l] \in Int /\ data[l] \in Int /\ f[l] = data[l]
    BY <1>3
  <2> QED
    BY <1>2, <2>1, SumPointwise
<1> QED
  BY <1>1, <1>6, <1>7 DEF WeighData

(* The latencies up to v, of some.                                          *)
Within(S, v) == {l \in S : l <= v}

(* What each part counts up to v.                                           *)
UpToEach(H, P, v) == [x \in P |-> SumFunctionOnSet(H[x].data, Within(DOMAIN H[x].data, v))]

(* What counts up to a latency are.                                         *)
LEMMA UpToIs ==
  ASSUME NEW H, Histograms(H), NEW P \in SUBSET DOMAIN H
  PROVE  /\ LatenciesOf(H, P) \subseteq Latency
         /\ \A l \in Latency : /\ CountsIn(H, P)[l] \in Nat
                               /\ CountsIn(H, P)[l] > 0 <=> l \in LatenciesOf(H, P)
         /\ \A v : UpTo(H, P, v) = SumFunctionOnSet(CountsIn(H, P), Within(Latency, v))
         /\ \A v : UpTo(H, P, v) = SumFunctionOnSet(UpToEach(H, P, v), P)
         /\ UpTo(H, P, ValueMax) = CountAll(H, P)
         /\ CountAll(H, P) = SumFunctionOnSet(CountsIn(H, P), Latency)
<1>1. PICK c : c = CountsIn(H, P)
  OBVIOUS
<1>2. DOMAIN c = Latency /\ \A l \in Latency : c[l] = Count(H, P, l) /\ c[l] \in Nat
  BY <1>1, CountTypes DEF CountsIn
<1>3. LatenciesOf(H, P) \subseteq Latency
  BY DEF LatenciesOf, Histograms, IsHistogram
<1>4. ASSUME NEW l \in Latency
      PROVE  c[l] > 0 <=> l \in LatenciesOf(H, P)
  <2>1. PICK f : f = [x \in DOMAIN H |-> CountOf(H[x], l)]
    OBVIOUS
  <2>2. \A x \in P : f[x] \in Nat /\ (f[x] = 0 <=> l \notin DOMAIN H[x].data)
    <3>1. \A x \in P : CountOf(H[x], l) \in Nat
                       /\ (l \in DOMAIN H[x].data <=> CountOf(H[x], l) # 0)
      BY CountsOfOne, StatisticsAssumption DEF StatisticsAssumption, Histograms
    <3> QED
      BY <2>1, <3>1
  <2>3. SumFunctionOnSet(f, P) = 0 <=> \A x \in P : f[x] = 0
    BY <2>2, CountTypes, SumOfPart
  <2>4. c[l] = SumFunctionOnSet(f, P)
    BY <1>2, <2>1 DEF Count
  <2>5. c[l] = 0 <=> \A x \in P : l \notin DOMAIN H[x].data
    BY <2>2, <2>3, <2>4
  <2>6. l \in LatenciesOf(H, P) <=> \E x \in P : l \in DOMAIN H[x].data
    BY DEF LatenciesOf
  <2> QED
    BY <1>2, <2>5, <2>6
<1>5. ASSUME NEW v
      PROVE  /\ UpTo(H, P, v) = SumFunctionOnSet(c, Within(Latency, v))
             /\ UpTo(H, P, v) = SumFunctionOnSet(UpToEach(H, P, v), P)
  <2>1. Through(v) \in [Latency -> Nat]
    BY DEF Through
  <2>2. WeighData(c, Through(v)) = SumFunctionOnSet(c, Within(Latency, v))
    <3>1. WeighData(c, Through(v)) = SumFunctionOnSet(c, Within(DOMAIN c, v))
      BY <1>2, WeighThrough DEF Within
    <3> QED
      BY <1>2, <3>1
  <2>3. UpTo(H, P, v) = WeighData(c, Through(v))
    BY <1>1, <1>2, Zenon DEF UpTo, Weigh, WeighData
  <2>4. ASSUME NEW x \in P
        PROVE  WeighData(H[x].data, Through(v)) =
                 SumFunctionOnSet(H[x].data, Within(DOMAIN H[x].data, v))
    <3>1. IsHistogram(H[x])
      BY DEF Histograms
    <3>2. /\ DOMAIN H[x].data \subseteq Latency
          /\ \A l \in DOMAIN H[x].data : H[x].data[l] \in Nat
      BY <3>1 DEF IsHistogram
    <3> QED
      BY <3>2, WeighThrough DEF Within
  <2>5. [x \in P |-> WeighData(H[x].data, Through(v))] = UpToEach(H, P, v)
    BY <2>4, Zenon DEF UpToEach
  <2>6. UpTo(H, P, v) = SumFunctionOnSet([x \in P |-> WeighData(H[x].data, Through(v))], P)
    BY <2>1, WeighOfParts DEF UpTo
  <2> QED
    BY <2>2, <2>3, <2>5, <2>6, Zenon
<1>6. UpTo(H, P, ValueMax) = SumFunctionOnSet(c, Latency)
  <2>1. Within(Latency, ValueMax) = Latency
    BY StatisticsAssumption DEF StatisticsAssumption, Latency, Within
  <2> QED
    BY <1>5, <2>1
<1>7. UpTo(H, P, ValueMax) = CountAll(H, P)
  <2>1. PICK f, g : /\ f = UpToEach(H, P, ValueMax)
                    /\ g = [x \in DOMAIN H |-> H[x].samples]
    OBVIOUS
  <2>2. ASSUME NEW x \in P PROVE f[x] = g[x]
    <3>1. /\ DOMAIN H[x].data \subseteq Latency
          /\ H[x].samples = SumFunctionOnSet(H[x].data, DOMAIN H[x].data)
      BY DEF Histograms, IsHistogram
    <3>2. Within(DOMAIN H[x].data, ValueMax) = DOMAIN H[x].data
      BY <3>1, StatisticsAssumption DEF StatisticsAssumption, Latency, Within
    <3>3. f[x] = SumFunctionOnSet(H[x].data, DOMAIN H[x].data)
      BY <2>1, <3>2 DEF UpToEach
    <3> QED
      BY <2>1, <3>1, <3>3
  <2>3. \A x \in P : f[x] \in Int /\ g[x] \in Int /\ f[x] = g[x]
    <3>1. \A x \in P : H[x].samples \in Int
      BY StatisticsAssumption DEF StatisticsAssumption, Histograms, IsHistogram
    <3> QED
      BY <2>1, <2>2, <3>1
  <2>4. SumFunctionOnSet(f, P) = SumFunctionOnSet(g, P)
    BY <2>3, CountTypes, SumPointwise
  <2> QED
    BY <1>5, <2>1, <2>4 DEF CountAll
<1> QED
  BY <1>1, <1>2, <1>3, <1>4, <1>5, <1>6, <1>7

(* They grow with the latencies.                                            *)
LEMMA UpToGrows ==
  ASSUME NEW H, Histograms(H), NEW P \in SUBSET DOMAIN H, NEW v \in Int
  PROVE  /\ UpTo(H, P, v) \in Nat /\ CountAll(H, P) \in Nat
         /\ UpTo(H, P, v) <= CountAll(H, P)
         /\ UpTo(H, P, v) = 0 <=> \A l \in LatenciesOf(H, P) : l > v
         /\ UpTo(H, P, v) = CountAll(H, P) <=> \A l \in LatenciesOf(H, P) : l <= v
         /\ \A w \in Int : w <= v /\ (\A l \in LatenciesOf(H, P) : l <= w \/ l > v)
              => UpTo(H, P, w) = UpTo(H, P, v)
<1>1. PICK c, D : c = CountsIn(H, P) /\ D = LatenciesOf(H, P)
  OBVIOUS
<1>2. /\ D \subseteq Latency
      /\ \A l \in Latency : c[l] \in Nat /\ (c[l] > 0 <=> l \in D)
      /\ CountAll(H, P) = SumFunctionOnSet(c, Latency)
      /\ \A u : UpTo(H, P, u) = SumFunctionOnSet(c, Within(Latency, u))
  <2>1. D \subseteq Latency /\ CountAll(H, P) = SumFunctionOnSet(c, Latency)
    BY <1>1, UpToIs
  <2>2. \A l \in Latency : c[l] \in Nat /\ (c[l] > 0 <=> l \in D)
    BY <1>1, UpToIs
  <2>3. \A u : UpTo(H, P, u) = SumFunctionOnSet(c, Within(Latency, u))
    <3>1. \A u : UpTo(H, P, u) = SumFunctionOnSet(CountsIn(H, P), Within(Latency, u))
      BY UpToIs
    <3> QED
      BY <1>1, <3>1
  <2> QED
    BY <2>1, <2>2, <2>3
<1>3. Latency \subseteq Int
  BY StatisticsAssumption DEF StatisticsAssumption, Latency
<1>4. PICK S : S = {l \in Latency : l <= v} /\ S \in SUBSET Latency /\ IsFiniteSet(S)
  <2>1. {l \in Latency : l <= v} \in SUBSET Latency
    OBVIOUS
  <2> QED
    BY <2>1, AllIsFinite, FS_Subset
<1>5. UpTo(H, P, v) = SumFunctionOnSet(c, S)
  BY <1>2, <1>4 DEF Within
<1>6. UpTo(H, P, v) \in Nat /\ CountAll(H, P) \in Nat
  BY <1>2, <1>4, <1>5, AllIsFinite, SumType
<1>7. UpTo(H, P, v) <= CountAll(H, P)
  BY <1>2, <1>4, <1>5, AllIsFinite, SumOfPart
<1>8. UpTo(H, P, v) = 0 <=> \A l \in D : l > v
  <2>1. SumFunctionOnSet(c, S) = 0 <=> \A l \in S : c[l] = 0
    BY <1>2, <1>4, SumOfPart
  <2>2. (\A l \in S : c[l] = 0) <=> \A l \in S : l \notin D
    BY <1>2, <1>4
  <2>3. (\A l \in S : l \notin D) <=> \A l \in D : l > v
    BY <1>2, <1>3, <1>4
  <2> QED
    BY <1>5, <2>1, <2>2, <2>3
<1>9. UpTo(H, P, v) = CountAll(H, P) <=> \A l \in D : l <= v
  <2>1. CASE \A l \in D : l <= v
    <3>1. \A l \in Latency \ S : c[l] = 0
      BY <1>2, <1>4, <2>1
    <3> QED
      BY <1>2, <1>4, <1>5, <2>1, <3>1, AllIsFinite, SumOfPart
  <2>2. CASE ~ \A l \in D : l <= v
    <3>1. \E l \in Latency \ S : c[l] > 0
      BY <1>2, <1>4, <2>2
    <3>2. SumFunctionOnSet(c, S) < SumFunctionOnSet(c, Latency)
      BY <1>2, <1>4, <3>1, AllIsFinite, SumOfPart
    <3> QED
      BY <1>2, <1>5, <1>6, <2>2, <3>2
  <2> QED
    BY <2>1, <2>2
<1>10. ASSUME NEW w \in Int, w <= v, \A l \in D : l <= w \/ l > v
       PROVE  UpTo(H, P, w) = UpTo(H, P, v)
  <2>1. PICK T : T = {l \in Latency : l <= w} /\ T \in SUBSET S
    <3>1. {l \in Latency : l <= w} \in SUBSET S
      <4>1. \A l \in Latency : l <= w => l <= v
        BY <1>3, <1>10
      <4> QED
        BY <1>4, <4>1
    <3> QED
      BY <3>1
  <2>2. \A l \in S \ T : c[l] = 0
    BY <1>2, <1>3, <1>4, <1>10, <2>1
  <2>3. SumFunctionOnSet(c, T) = SumFunctionOnSet(c, S)
    BY <1>2, <1>4, <2>1, <2>2, SumOfPart
  <2>4. UpTo(H, P, w) = SumFunctionOnSet(c, T)
    BY <1>2, <2>1 DEF Within
  <2> QED
    BY <1>5, <2>3, <2>4
<1> QED
  BY <1>1, <1>6, <1>7, <1>8, <1>9, <1>10

(* A merged histogram has the counts of its parts if none can wrap around.  *)
LEMMA MergedCounts ==
  ASSUME NEW H, Histograms(H), NEW P \in SUBSET DOMAIN H, NEW h, HistogramOf(h, H, P),
         CountAll(H, P) < CountMod
  PROVE  /\ h.samples = CountAll(H, P)
         /\ DOMAIN h.data = LatenciesOf(H, P)
         /\ \A v \in Int : CountUpTo(h, v) = UpTo(H, P, v)
         /\ \A w \in [Latency -> Nat] : WeighData(h.data, w) = Weigh(CountsIn(H, P), w)
<1>1. PICK c, data : c = CountsIn(H, P) /\ data = h.data
  OBVIOUS
<1>2. CountMod \in Nat \ {0}
  BY StatisticsAssumption DEF StatisticsAssumption
<1>3. CountAll(H, P) \in Nat /\ CountAll(H, P) % CountMod = CountAll(H, P)
  BY <1>2, CountTypes
<1>4. h.samples = CountAll(H, P)
  BY <1>3 DEF HistogramOf
<1>5. DOMAIN data = LatenciesOf(H, P) /\ DOMAIN data \subseteq Latency
  BY <1>1, UpToIs DEF HistogramOf, LatenciesOf
<1>6. \A l \in Latency : /\ c[l] \in Nat /\ (c[l] > 0 <=> l \in DOMAIN data)
                         /\ c[l] = Count(H, P, l)
  BY <1>1, <1>5, UpToIs DEF CountsIn
<1>7. \A l \in Latency : c[l] <= CountAll(H, P)
  <2>1. CountAll(H, P) = SumFunctionOnSet(c, Latency)
    BY <1>1, UpToIs
  <2>2. \A l \in Latency : c[l] <= SumFunctionOnSet(c, Latency)
    BY <1>6, AllIsFinite, SumOfPart
  <2> QED
    BY <2>1, <2>2
<1>8. ASSUME NEW l \in DOMAIN data PROVE data[l] = c[l] /\ data[l] \in Nat
  <2>1. PICK n \in Nat : n = c[l] /\ n < CountMod
    BY <1>2, <1>3, <1>5, <1>6, <1>7
  <2>2. n % CountMod = n
    BY <1>2, <2>1
  <2>3. CountOf(h, l) = n % CountMod
    BY <1>5, <1>6, <2>1 DEF HistogramOf
  <2> QED
    BY <1>1, <2>1, <2>2, <2>3 DEF CountOf
<1>9. ASSUME NEW w \in [Latency -> Nat] PROVE WeighData(data, w) = Weigh(c, w)
  <2>1. \A l \in Latency : c[l] = IF l \in DOMAIN data THEN data[l] ELSE 0
    BY <1>6, <1>8
  <2> QED
    BY <1>5, <1>8, <2>1, WeighOfData
<1>10. ASSUME NEW v \in Int PROVE CountUpTo(h, v) = UpTo(H, P, v)
  <2>1. Through(v) \in [Latency -> Nat]
    BY DEF Through
  <2>2. PICK n \in Nat : n = UpTo(H, P, v) /\ n < CountMod
    BY <1>2, <1>3, UpToGrows
  <2>3. WeighData(data, Through(v)) = n
    BY <1>1, <1>9, <2>1, <2>2 DEF UpTo
  <2>4. SumFunctionOnSet(data, {l \in DOMAIN data : l <= v}) = n
    BY <1>5, <1>8, <2>3, WeighThrough
  <2>5. n % CountMod = n
    BY <1>2, <2>2
  <2> QED
    BY <1>1, <2>2, <2>4, <2>5 DEF CountUpTo
<1> QED
  BY <1>1, <1>4, <1>5, <1>9, <1>10

(* The smallest and the largest latency that was recorded.                  *)
LEMMA ExtremesAre ==
  ASSUME NEW H, Histograms(H), NEW P \in SUBSET DOMAIN H, CountAll(H, P) > 0,
         NEW h, DOMAIN h.data = LatenciesOf(H, P)
  PROVE  /\ GetMin(h) \in Latency /\ UpTo(H, P, GetMin(h)) > 0
         /\ GetMin(h) # 0 => UpTo(H, P, GetMin(h) - 1) = 0
         /\ GetMax(h) \in Latency /\ UpTo(H, P, GetMax(h)) = CountAll(H, P)
         /\ GetMax(h) # 0 => UpTo(H, P, GetMax(h) - 1) < CountAll(H, P)
<1>1. PICK D, N : D = LatenciesOf(H, P) /\ N = CountAll(H, P)
  OBVIOUS
<1>2. ValueMax \in Nat /\ Latency = 0 .. ValueMax
  BY StatisticsAssumption DEF StatisticsAssumption, Latency
<1>3. D \subseteq Latency /\ D \subseteq Nat /\ N \in Nat /\ N > 0
  BY <1>1, <1>2, UpToIs, CountTypes
<1>4. ASSUME NEW v \in Int
      PROVE  /\ UpTo(H, P, v) \in Nat /\ UpTo(H, P, v) <= N
             /\ UpTo(H, P, v) = 0 <=> \A l \in D : l > v
             /\ UpTo(H, P, v) = N <=> \A l \in D : l <= v
  BY <1>1, UpToGrows
<1>5. D # {}
  <2>1. UpTo(H, P, ValueMax) = N
    BY <1>1, UpToIs
  <2> QED
    BY <1>2, <1>3, <1>4, <2>1
<1>6. PICK low \in D : \A l \in D : low <= l
  BY <1>3, <1>5, LeastNatural
<1>7. PICK high \in D : \A l \in D : l <= high
  BY <1>2, <1>3, <1>5, GreatestNatural
<1>8. GetMin(h) = low
  <2>1. PICK S : S = D \cup {ValueMax}
    OBVIOUS
  <2>2. low \in S /\ (\A l \in S : low <= l) /\ S \subseteq Nat
    BY <1>2, <1>3, <1>6, <2>1
  <2>3. Min(S) \in S /\ \A l \in S : Min(S) <= l
    BY <2>2 DEF Min
  <2>4. PICK m : m = Min(S)
    OBVIOUS
  <2>5. m \in Nat /\ low \in Nat
    BY <2>2, <2>3, <2>4
  <2>6. m = low
    BY <2>2, <2>3, <2>4, <2>5
  <2> QED
    BY <1>1, <2>1, <2>4, <2>6 DEF GetMin
<1>9. GetMax(h) = high
  <2>1. PICK S : S = D \cup {0}
    OBVIOUS
  <2>2. high \in S /\ (\A l \in S : high >= l) /\ S \subseteq Nat
    BY <1>2, <1>3, <1>7, <2>1
  <2>3. Max(S) \in S /\ \A l \in S : Max(S) >= l
    BY <2>2 DEF Max
  <2>4. PICK m : m = Max(S)
    OBVIOUS
  <2>5. m \in Nat /\ high \in Nat
    BY <2>2, <2>3, <2>4
  <2>6. m = high
    BY <2>2, <2>3, <2>4, <2>5
  <2> QED
    BY <1>1, <2>1, <2>4, <2>6 DEF GetMax
<1>10. low \in Nat /\ high \in Nat /\ low \in Latency /\ high \in Latency
  BY <1>3
<1>11. UpTo(H, P, low) > 0
  BY <1>4, <1>6, <1>10
<1>12. UpTo(H, P, low - 1) = 0
  <2>1. low - 1 \in Int /\ \A l \in D : l > low - 1
    BY <1>3, <1>6, <1>10
  <2> QED
    BY <1>4, <2>1
<1>13. UpTo(H, P, high) = N
  BY <1>4, <1>7, <1>10
<1>14. UpTo(H, P, high - 1) < N
  <2>1. high - 1 \in Int /\ ~ (high <= high - 1)
    BY <1>10
  <2>2. UpTo(H, P, high - 1) \in Nat /\ UpTo(H, P, high - 1) <= N /\ UpTo(H, P, high - 1) # N
    BY <1>4, <2>1
  <2> QED
    BY <1>3, <2>2
<1> QED
  BY <1>1, <1>8, <1>9, <1>10, <1>11, <1>12, <1>13, <1>14

(* A percentile is the smallest latency that enough did not exceed.         *)
LEMMA PercentileIs ==
  ASSUME NEW H, Histograms(H), NEW P \in SUBSET DOMAIN H, NEW h, HistogramOf(h, H, P),
         CountAll(H, P) > 0, CountAll(H, P) < CountMod,
         NEW p \in [num : Nat \ {0}, den : Nat \ {0}], HasPercentile(h, p)
  PROVE  LET v == GetPercentile(h, p)
             below == IF v = 0 THEN 0 ELSE UpTo(H, P, v - 1)
         IN  /\ v \in Latency
             /\ UpTo(H, P, v) * p.den >= CountAll(H, P) * p.num
             /\ below * p.den < CountAll(H, P) * p.num
<1>1. PICK D, N, num, den : /\ D = LatenciesOf(H, P) /\ N = CountAll(H, P)
                            /\ num = p.num /\ den = p.den
  OBVIOUS
<1>2. ValueMax \in Nat /\ Latency = 0 .. ValueMax
  BY StatisticsAssumption DEF StatisticsAssumption, Latency
<1>3. D \subseteq Latency /\ D \subseteq Nat /\ N \in Nat \ {0} /\ num \in Nat \ {0} /\ den \in Nat
  <2>1. N \in Nat /\ D \subseteq Latency
    BY <1>1, UpToIs, CountTypes
  <2> QED
    BY <1>1, <1>2, <2>1
<1>4. h.samples = N /\ DOMAIN h.data = D /\ \A v \in Int : CountUpTo(h, v) = UpTo(H, P, v)
  BY <1>1, MergedCounts
<1>5. \A l \in D : Reaches(h, l, p) <=> UpTo(H, P, l) * den >= N * num
  BY <1>1, <1>3, <1>4 DEF Reaches
<1>6. PICK S : S = {l \in D : Reaches(h, l, p)} /\ S # {} /\ S \in SUBSET Nat
  <2>1. {l \in D : Reaches(h, l, p)} # {} /\ {l \in D : Reaches(h, l, p)} \in SUBSET Nat
    BY <1>3, <1>4 DEF HasPercentile
  <2> QED
    BY <2>1
<1>7. PICK v \in S : \A l \in S : v <= l
  BY <1>6, LeastNatural
<1>8. GetPercentile(h, p) = v
  <2>1. Min(S) \in S /\ \A l \in S : Min(S) <= l
    BY <1>7 DEF Min
  <2>2. Min(S) = v
    BY <1>6, <1>7, <2>1
  <2> QED
    BY <1>4, <1>6, <2>2 DEF GetPercentile
<1>9. v \in D /\ v \in Nat /\ v \in Latency /\ UpTo(H, P, v) * den >= N * num
  BY <1>3, <1>5, <1>6, <1>7
<1>10. 0 * den < N * num
  <2>1. 0 * den = 0
    BY <1>3
  <2>2. \A a, b \in Nat \ {0} : a * b > 0
    OBVIOUS
  <2> QED
    BY <1>3, <2>1, <2>2
<1>11. UpTo(H, P, v - 1) * den < N * num
  <2>1. PICK L : L = {l \in D : l < v}
    OBVIOUS
  <2>2. CASE L = {}
    <3>1. v - 1 \in Int /\ \A l \in D : l > v - 1
      BY <1>3, <1>9, <2>1, <2>2
    <3>2. UpTo(H, P, v - 1) = 0
      BY <1>1, <3>1, UpToGrows
    <3> QED
      BY <1>10, <3>2
  <2>3. CASE L # {}
    <3>1. L \in SUBSET (0 .. v)
      <4>1. \A l \in L : l \in Nat /\ l < v
        BY <1>3, <2>1
      <4> QED
        BY <1>9, <4>1
    <3>2. PICK w \in L : \A l \in L : l <= w
      BY <1>9, <2>3, <3>1, GreatestNatural
    <3>3. w \in D /\ w \in Nat /\ w < v /\ w \notin S
      BY <1>3, <1>6, <1>7, <1>9, <2>1, <3>2
    <3>4. ~ (UpTo(H, P, w) * den >= N * num)
      BY <1>5, <1>6, <3>3
    <3>5. w \in Int /\ v - 1 \in Int /\ w <= v - 1 /\ \A l \in D : l <= w \/ l > v - 1
      BY <1>3, <1>9, <2>1, <3>2, <3>3
    <3>6. UpTo(H, P, w) = UpTo(H, P, v - 1) /\ UpTo(H, P, w) \in Nat
      BY <1>1, <3>5, UpToGrows
    <3>7. PICK n \in Nat, a \in Int, b \in Int :
            n = UpTo(H, P, w) /\ a = n * den /\ b = N * num
      BY <1>3, <3>6
    <3> QED
      BY <3>4, <3>6, <3>7
  <2> QED
    BY <2>2, <2>3
<1> QED
  BY <1>1, <1>8, <1>9, <1>10, <1>11

(* What the properties count is what the histograms of the parts do.        *)
LEMMA LatenciesAre ==
  ASSUME NEW o, IsResults(o, results), NEW s \in Section
  PROVE  /\ PartsOf(s, 0) \in SUBSET All
         /\ PartsOf(s, 0) = Rows \X DirectionsOf(s)
         /\ \A v : LatenciesUpTo(s, v) = UpTo(HistogramsIn(results), PartsOf(s, 0), v)
         /\ Samples(s) = CountAll(HistogramsIn(results), PartsOf(s, 0))
<1>1. PICK H, P : H = HistogramsIn(results) /\ P = PartsOf(s, 0)
  OBVIOUS
<1>2. P = Rows \X DirectionsOf(s) /\ P \in SUBSET All
  BY <1>1 DEF PartsOf, Rows, DirectionsOf, All, Section, Direction
<1>3. Histograms(H) /\ DOMAIN H = All /\ \A x \in P : H[x] = results[x[1]][x[2]].histogram
  BY <1>1, <1>2 DEF IsResults, HistogramsIn
<1>4. ASSUME NEW v PROVE LatenciesUpTo(s, v) = UpTo(H, P, v)
  <2>1. PICK f : f = UpToEach(H, P, v)
    OBVIOUS
  <2>2. UpTo(H, P, v) = SumFunctionOnSet(f, P)
    <3>1. P \in SUBSET DOMAIN H /\ Histograms(H)
      BY <1>2, <1>3
    <3>2. \A u : UpTo(H, P, u) = SumFunctionOnSet(UpToEach(H, P, u), P)
      BY <3>1, UpToIs
    <3> QED
      BY <2>1, <3>2
  <2>3. f = [x \in P |->
          LET data == results[x[1]][x[2]].histogram.data
          IN  SumFunctionOnSet(data, {l \in DOMAIN data : l <= v})]
    BY <1>3, <2>1 DEF UpToEach, Within
  <2>4. LatenciesUpTo(s, v) = SumFunction(f)
    BY <1>1, <2>3 DEF LatenciesUpTo
  <2>5. DOMAIN f = P
    BY <2>1 DEF UpToEach
  <2> QED
    BY <2>2, <2>4, <2>5 DEF SumFunction
<1>5. Samples(s) = CountAll(H, P)
  BY <1>2, <1>3, <1>4, UpToIs DEF Samples
<1> QED
  BY <1>1, <1>2, <1>4, <1>5

(* The kinds of lines.                                                      *)
LEMMA ValueIs ==
  ASSUME NEW i, NEW h
  PROVE  /\ i = MinLine => Value(i, h) = GetMin(h)
         /\ i = MaxLine /\ i # MinLine => Value(i, h) = GetMax(h)
         /\ i # MinLine /\ i # MaxLine => Value(i, h) = GetPercentile(h, Percentiles[i - 1])
<1>1. i = MinLine => Value(i, h) = GetMin(h)
  <2>1. MinLine # MaxLine
    BY Numbers
  <2> QED
    BY <2>1, Zenon DEF Value
<1>2. i = MaxLine /\ i # MinLine => Value(i, h) = GetMax(h)
  BY Zenon DEF Value
<1>3. i # MinLine /\ i # MaxLine => Value(i, h) = GetPercentile(h, Percentiles[i - 1])
  BY Zenon DEF Value
<1> QED
  BY <1>1, <1>2, <1>3

(* A line of the percentiles, for a column with something recorded.         *)
LEMMA LineIs ==
  ASSUME OrderInv, TableInv, LatencyInv, \A s \in Direction : Samples(s) < CountMod,
         NEW i \in DOMAIN lines, NEW s \in Section
  PROVE  LET p == Percentiles[i - 1]
             below(v) == IF v = 0 THEN 0 ELSE LatenciesUpTo(s, v - 1)
         IN
         /\ s # "RW" => (lines[i][s] = {} <=> Samples(s) = 0)
         /\ Samples(s) > 0 => \A v \in lines[i][s] :
              /\ i = MinLine => below(v) = 0 /\ LatenciesUpTo(s, v) > 0
              /\ i = MaxLine => below(v) < Samples(s) /\ LatenciesUpTo(s, v) = Samples(s)
              /\ i # MinLine /\ i # MaxLine /\ s # "RW" =>
                   /\ LatenciesUpTo(s, v) * p.den >= Samples(s) * p.num
                   /\ below(v) * p.den < Samples(s) * p.num
<1> DEFINE p == Percentiles[i - 1]
           below(v) == IF v = 0 THEN 0 ELSE LatenciesUpTo(s, v - 1)
<1>1. PICK h : MergedUpTo(results, h, NumRows) /\ LineOf(lines[i], i, h)
  BY DEF LatencyInv
<1>2. PICK H, P, N : H = HistogramsIn(results) /\ P = PartsOf(s, 0) /\ N = CountAll(H, P)
  OBVIOUS
<1>3. /\ Histograms(H) /\ DOMAIN H = All /\ P \in SUBSET All /\ P = Rows \X DirectionsOf(s)
      /\ \A v : LatenciesUpTo(s, v) = UpTo(H, P, v)
      /\ Samples(s) = N /\ N \in Nat
  <2>1. IsResults(options, results)
    BY DEF TableInv
  <2>2. Histograms(H) /\ DOMAIN H = All
    BY <1>2, <2>1 DEF IsResults, HistogramsIn
  <2>3. /\ P \in SUBSET All /\ P = Rows \X DirectionsOf(s)
        /\ \A v : LatenciesUpTo(s, v) = UpTo(H, P, v)
        /\ Samples(s) = N
    BY <1>2, <2>1, LatenciesAre
  <2> QED
    BY <1>2, <2>2, <2>3, CountTypes
<1>4. \A d \in Direction : HistogramOf(h[d], H, Rows \X {d})
  BY <1>1, <1>2 DEF MergedUpTo, Rows
<1>5. s # "RW" => s \in Direction /\ HistogramOf(h[s], H, P) /\ N < CountMod
  BY <1>3, <1>4 DEF Section, Direction, DirectionsOf
<1>6. s # "RW" => h[s].samples = N
  BY <1>2, <1>3, <1>5, MergedCounts
<1>7. s \in ColumnsOf(h) <=> s = "RW" \/ N > 0
  BY <1>6 DEF ColumnsOf
<1>8. lines[i][s] = IF s \in ColumnsOf(h) THEN {Value(i, h[s])} ELSE {}
  <2>1. lines[i][s] = {Value(i, h[c]) : c \in ColumnsOf(h) \cap {s}}
    BY <1>1 DEF LineOf
  <2>2. CASE s \in ColumnsOf(h)
    <3>1. ColumnsOf(h) \cap {s} = {s}
      BY <2>2
    <3> QED
      BY <2>1, <2>2, <3>1
  <2>3. CASE s \notin ColumnsOf(h)
    <3>1. ColumnsOf(h) \cap {s} = {}
      BY <2>3
    <3> QED
      BY <2>1, <2>3, <3>1
  <2> QED
    BY <2>2, <2>3
<1>9. s # "RW" => (lines[i][s] = {} <=> Samples(s) = 0)
  BY <1>3, <1>7, <1>8
<1>10. DOMAIN h[s].data = LatenciesOf(H, P)
  <2>1. \A d \in Direction : DOMAIN h[d].data = LatenciesOf(H, Rows \X {d})
    BY <1>4 DEF HistogramOf, LatenciesOf
  <2>2. CASE s # "RW"
    BY <1>5, <2>2 DEF HistogramOf, LatenciesOf
  <2>3. CASE s = "RW"
    <3>1. DOMAIN h["RW"].data =
            LatenciesOf(H, Rows \X {"READ"}) \cup LatenciesOf(H, Rows \X {"WRITE"})
      BY <1>1, <2>1 DEF MergedUpTo, Direction
    <3>2. P = (Rows \X {"READ"}) \cup (Rows \X {"WRITE"})
      BY <1>3, <2>3 DEF DirectionsOf, Direction
    <3> QED
      BY <2>3, <3>1, <3>2 DEF LatenciesOf
  <2> QED
    BY <2>2, <2>3
<1>11. ASSUME N > 0, NEW v \in lines[i][s]
       PROVE  /\ i = MinLine => below(v) = 0 /\ LatenciesUpTo(s, v) > 0
              /\ i = MaxLine => below(v) < N /\ LatenciesUpTo(s, v) = N
              /\ i # MinLine /\ i # MaxLine /\ s # "RW" =>
                   /\ LatenciesUpTo(s, v) * p.den >= N * p.num
                   /\ below(v) * p.den < N * p.num
  <2>1. v = Value(i, h[s]) /\ s \in ColumnsOf(h) /\ HasValue(i, h[s])
    BY <1>1, <1>7, <1>8, <1>11 DEF LineOf
  <2>2. /\ i = MinLine => Value(i, h[s]) = GetMin(h[s])
        /\ i = MaxLine /\ i # MinLine => Value(i, h[s]) = GetMax(h[s])
        /\ i # MinLine /\ i # MaxLine => Value(i, h[s]) = GetPercentile(h[s], p)
    BY ValueIs
  <2>3. MinLine # MaxLine
    BY Numbers
  <2>4. PICK g : g = h[s]
    OBVIOUS
  <2>5. /\ GetMin(g) \in Latency /\ UpTo(H, P, GetMin(g)) > 0
        /\ GetMin(g) # 0 => UpTo(H, P, GetMin(g) - 1) = 0
        /\ GetMax(g) \in Latency /\ UpTo(H, P, GetMax(g)) = N
        /\ GetMax(g) # 0 => UpTo(H, P, GetMax(g) - 1) < N
    BY <1>2, <1>3, <1>10, <1>11, <2>4, ExtremesAre
  <2>6. i = MinLine => below(v) = 0 /\ LatenciesUpTo(s, v) > 0
    BY <1>3, <2>1, <2>2, <2>4, <2>5
  <2>7. i = MaxLine => below(v) < N /\ LatenciesUpTo(s, v) = N
    BY <1>3, <1>11, <2>1, <2>2, <2>3, <2>4, <2>5
  <2>8. ASSUME i # MinLine, i # MaxLine, s # "RW"
        PROVE  /\ LatenciesUpTo(s, v) * p.den >= N * p.num
               /\ below(v) * p.den < N * p.num
    <3>1. p \in [num : Nat \ {0}, den : Nat \ {0}]
      <4>1. IsSequence(lines) /\ Len(lines) <= MaxLine
        BY DEF OrderInv
      <4>2. i \in 1 .. Len(lines) /\ Len(lines) \in Nat
        BY <4>1, AppendAny
      <4>3. i - 1 \in 1 .. Len(Percentiles)
        BY <2>8, <4>1, <4>2, Numbers
      <4>4. Percentiles \in Seq([num : Nat \ {0}, den : Nat \ {0}])
        BY ReportAssumption DEF ReportAssumption
      <4> QED
        BY <4>3, <4>4, ElementOfSeq
    <3>2. HasPercentile(g, p) /\ v = GetPercentile(g, p)
      BY <2>1, <2>2, <2>4, <2>8 DEF HasValue
    <3>3. PICK q : q = p
      OBVIOUS
    <3>4. /\ UpTo(H, P, v) * q.den >= N * q.num
          /\ (IF v = 0 THEN 0 ELSE UpTo(H, P, v - 1)) * q.den < N * q.num
      BY <1>2, <1>3, <1>5, <1>11, <2>4, <2>8, <3>1, <3>2, <3>3, PercentileIs
    <3>5. below(v) = IF v = 0 THEN 0 ELSE UpTo(H, P, v - 1)
      BY <1>3
    <3> HIDE DEF below, p
    <3> QED
      BY <1>3, <3>3, <3>4, <3>5
  <2> QED
    BY <2>6, <2>7, <2>8
<1> QED
  BY <1>3, <1>9, <1>11

(* result_formatter.cc: the percentiles are those of all recorded           *)
(* latencies of the reads or of the writes, and the extremes those of all,  *)
(* as long as neither direction has so many that their count wraps around.  *)
THEOREM PercentilesAreExact ==
  Spec => []((\A s \in Direction : Samples(s) < CountMod) => PercentilesExact)
<1>1. ReportInv => ((\A s \in Direction : Samples(s) < CountMod) => PercentilesExact)
  <2> SUFFICES ASSUME ReportInv, \A s \in Direction : Samples(s) < CountMod,
                      NEW i \in DOMAIN lines, NEW s \in Section
               PROVE  LET p     == Percentiles[i - 1]
                          below(v) == IF v = 0 THEN 0 ELSE LatenciesUpTo(s, v - 1)
                      IN  /\ s # "RW" => (lines[i][s] = {} <=> Samples(s) = 0)
                          /\ Samples(s) > 0 => \A v \in lines[i][s] :
                               CASE i = MinLine -> below(v) = 0 /\ LatenciesUpTo(s, v) > 0
                                 [] i = MaxLine -> /\ below(v) < Samples(s)
                                                   /\ LatenciesUpTo(s, v) = Samples(s)
                                 [] OTHER -> s # "RW" =>
                                      /\ LatenciesUpTo(s, v) * p.den >= Samples(s) * p.num
                                      /\ below(v) * p.den < Samples(s) * p.num
    BY Zenon DEF PercentilesExact
  <2>1. OrderInv /\ TableInv /\ LatencyInv
    BY DEF ReportInv
  <2>2. MinLine # MaxLine
    BY Numbers
  <2> QED
    BY <2>1, <2>2, LineIs, Zenon
<1> QED
  BY <1>1, Report_Inv, PTL

-----------------------------------------------------------------------------
(***************************************************************************)
(* The standard deviations.                                                *)
(***************************************************************************)

(* The 0th, 1st and 2nd power of the latencies, as weights.                 *)
Power(k) == [v \in Latency |-> IF k = 0 THEN 1 ELSE IF k = 1 THEN v ELSE v * v]

(* The moments of the latencies of some parts.                              *)
MomentEach(H, P, k) == [x \in P |-> WeighData(H[x].data, Power(k))]

Moment(H, P, k) == SumFunctionOnSet(MomentEach(H, P, k), P)

(* The powers of a latency are natural numbers.                             *)
LEMMA PowerTypes == \A k : Power(k) \in [Latency -> Nat]
<1>1. \A v \in Latency : v \in Nat /\ v * v \in Nat
  BY StatisticsAssumption DEF StatisticsAssumption, Latency
<1> QED
  BY <1>1 DEF Power

(* The moments of a merged histogram are those of its parts.                *)
LEMMA MomentsAre ==
  ASSUME NEW H, Histograms(H), NEW P \in SUBSET DOMAIN H, NEW h, HistogramOf(h, H, P),
         CountAll(H, P) < CountMod
  PROVE  /\ h.samples = Moment(H, P, 0)
         /\ Values(h) = Moment(H, P, 1)
         /\ Squares(h) = Moment(H, P, 2)
         /\ Moment(H, P, 0) \in Nat /\ Moment(H, P, 1) \in Nat
         /\ DOMAIN h.data = {} => Moment(H, P, 0) = 0 /\ Moment(H, P, 1) = 0
         /\ Moment(H, P, 0) > 0 => DOMAIN h.data # {}
<1>1. PICK data : data = h.data
  OBVIOUS
<1>2. /\ DOMAIN data = LatenciesOf(H, P) /\ LatenciesOf(H, P) \subseteq Latency
      /\ h.samples = CountAll(H, P) /\ CountAll(H, P) \in Nat
  <2>1. DOMAIN data = LatenciesOf(H, P) /\ h.samples = CountAll(H, P)
    BY <1>1, MergedCounts
  <2>2. LatenciesOf(H, P) \subseteq Latency
    BY UpToIs
  <2> QED
    BY <2>1, <2>2, CountTypes
<1>3. ASSUME NEW k PROVE Moment(H, P, k) = WeighData(data, Power(k)) /\ Moment(H, P, k) \in Nat
  <2>1. Power(k) \in [Latency -> Nat]
    BY PowerTypes
  <2>2. Weigh(CountsIn(H, P), Power(k)) = Moment(H, P, k)
    BY <2>1, WeighOfParts DEF Moment, MomentEach
  <2>3. WeighData(data, Power(k)) = Weigh(CountsIn(H, P), Power(k))
    BY <1>1, <2>1, MergedCounts
  <2>4. PICK f : f = MomentEach(H, P, k)
    OBVIOUS
  <2>5. \A x \in P : f[x] \in Nat
    BY <2>1, <2>4, WeighOfParts DEF MomentEach
  <2>6. SumFunctionOnSet(f, P) \in Nat
    BY <2>5, CountTypes, SumType
  <2> QED
    BY <2>2, <2>3, <2>4, <2>6 DEF Moment
<1>4. CountAll(H, P) = Moment(H, P, 0)
  <2>1. UpTo(H, P, ValueMax) = Weigh(CountsIn(H, P), Through(ValueMax))
    BY DEF UpTo
  <2>2. Through(ValueMax) = Power(0)
    BY StatisticsAssumption DEF StatisticsAssumption, Latency, Through, Power
  <2>3. Weigh(CountsIn(H, P), Power(0)) = Moment(H, P, 0)
    BY PowerTypes, WeighOfParts DEF Moment, MomentEach
  <2> QED
    BY <2>1, <2>2, <2>3, UpToIs
<1>5. Values(h) = WeighData(data, Power(1))
  <2>1. \A v \in DOMAIN data : Power(1)[v] = v
    BY <1>2 DEF Power
  <2>2. [v \in DOMAIN data |-> data[v] * v] = [v \in DOMAIN data |-> data[v] * Power(1)[v]]
    BY <2>1
  <2> QED
    BY <1>1, <2>2 DEF Values, WeighData, SumFunction
<1>6. Squares(h) = WeighData(data, Power(2))
  <2>1. ASSUME NEW v \in DOMAIN data
        PROVE  (data[v] * v) * v = data[v] * Power(2)[v]
    <3>1. v \in Latency /\ v \in Nat /\ Power(2)[v] = v * v
      BY <1>2, StatisticsAssumption DEF StatisticsAssumption, Latency, Power
    <3>2. CountOf(h, v) = Count(H, P, v) % CountMod /\ Count(H, P, v) \in Nat
      BY <3>1, CountTypes DEF HistogramOf
    <3>3. data[v] \in Int
      BY <1>1, <3>2, StatisticsAssumption DEF StatisticsAssumption, CountOf
    <3>4. \A a, b \in Int : (a * b) * b = a * (b * b)
      OBVIOUS
    <3> QED
      BY <3>1, <3>3, <3>4
  <2>2. [v \in DOMAIN data |-> data[v] * v * v] = [v \in DOMAIN data |-> data[v] * Power(2)[v]]
    BY <2>1
  <2> QED
    BY <1>1, <2>2 DEF Squares, WeighData, SumFunction
<1>7. \A w : DOMAIN data = {} => WeighData(data, w) = 0
  BY SumSmall DEF WeighData
<1>8. Moment(H, P, 0) > 0 => DOMAIN data # {}
  BY <1>3, <1>7
<1> QED
  BY <1>1, <1>2, <1>3, <1>4, <1>5, <1>6, <1>7, <1>8

(* Of a part of the parts none counts more.                                 *)
LEMMA PartsCountLess ==
  ASSUME NEW P \in SUBSET All
  PROVE  /\ \A H : Histograms(H) /\ DOMAIN H = All => CountAll(H, P) <= CountAll(H, All)
         /\ \A B : Bucketizers(B) /\ DOMAIN B = All => \A k : Ios(B, P, k) <= Ios(B, All, k)
<1>1. ASSUME NEW H, Histograms(H), DOMAIN H = All PROVE CountAll(H, P) <= CountAll(H, All)
  <2>1. PICK f : f = [x \in DOMAIN H |-> H[x].samples]
    OBVIOUS
  <2>2. \A x \in All : f[x] \in Nat
    BY <1>1, <2>1, StatisticsAssumption DEF StatisticsAssumption, Histograms, IsHistogram
  <2>3. SumFunctionOnSet(f, P) <= SumFunctionOnSet(f, All)
    BY <2>2, AllIsFinite, SumOfPart
  <2> QED
    BY <2>1, <2>3 DEF CountAll
<1>2. ASSUME NEW B, Bucketizers(B), DOMAIN B = All, NEW k PROVE Ios(B, P, k) <= Ios(B, All, k)
  <2>1. PICK f : f = [x \in DOMAIN B |-> GetIoBucket(B[x], k)]
    OBVIOUS
  <2>2. \A x \in All : GetIoBucket(B[x], k) \in 0 .. CountMod - 1
    BY <1>2, IosTypes
  <2>3. \A x \in All : f[x] \in Nat
    BY <1>2, <2>1, <2>2, StatisticsAssumption DEF StatisticsAssumption
  <2>4. SumFunctionOnSet(f, P) <= SumFunctionOnSet(f, All)
    BY <2>3, AllIsFinite, SumOfPart
  <2> QED
    BY <2>1, <2>4 DEF Ios
<1> QED
  BY <1>1, <1>2

(* Over how many intervals the parts have I/Os, how many each, and their    *)
(* variance.                                                                *)
ValidIn(B, P) == Max({0} \cup {GetNumberOfValidBuckets(B[x]) : x \in P})

IosIn(B, P) == [k \in 1 .. ValidIn(B, P) |-> Ios(B, P, k)]

VarianceOf(n, ios) ==
  n * SumFunction([k \in 1 .. n |-> ios[k] * ios[k]]) - SumFunction(ios) * SumFunction(ios)

(* The variance of merged buckets is that of the sums, interval by interval *)
(* over as many as the part with the most valid ones has.                   *)
LEMMA VarianceIs ==
  ASSUME NEW B, Bucketizers(B), NEW P \in SUBSET DOMAIN B, NEW b, BucketsOf(b, B, P),
         \A k \in Nat \ {0} : Ios(B, P, k) < CountMod,
         NEW n, n = ValidIn(B, P), NEW ios, ios = IosIn(B, P)
  PROVE  GetNumberOfValidBuckets(b) = n /\ ScaledVariance(b) = VarianceOf(n, ios)
<1>0. /\ n = Max({0} \cup {GetNumberOfValidBuckets(B[x]) : x \in P})
      /\ ios = [k \in 1 .. n |-> Ios(B, P, k)]
  BY DEF ValidIn, IosIn
<1>1. PICK valid \in Nat : \A x \in DOMAIN B : B[x].valid = valid
  BY DEF Bucketizers
<1>2. PICK q, len, m : q = b.buckets /\ len = Len(q) /\ m = GetNumberOfValidBuckets(b)
  OBVIOUS
<1>3. q \in Seq(Nat) /\ len \in Nat /\ DOMAIN q = 1 .. len
  BY <1>2, LenProperties DEF BucketsOf
<1>4. b.valid \in {0, valid} /\ (P # {} => b.valid = valid) /\ (P = {} => b.valid = 0)
  BY <1>1 DEF BucketsOf
<1>5. m = Min({len, b.valid}) /\ m \in Nat /\ m <= len /\ m <= b.valid /\ m \in {len, b.valid}
  BY <1>2, <1>3, <1>4, MinOfTwo DEF GetNumberOfValidBuckets
<1>6. ASSUME NEW x \in P
      PROVE  /\ Len(B[x].buckets) \in Nat /\ Len(B[x].buckets) <= len
             /\ GetNumberOfValidBuckets(B[x]) \in Nat
             /\ GetNumberOfValidBuckets(B[x]) <= Len(B[x].buckets)
             /\ GetNumberOfValidBuckets(B[x]) <= valid
             /\ GetNumberOfValidBuckets(B[x]) \in {Len(B[x].buckets), valid}
  <2>1. Len(B[x].buckets) \in Nat
    <3>1. B[x].buckets \in Seq(0 .. CountMod - 1)
      BY DEF Bucketizers
    <3> QED
      BY <3>1, LenProperties
  <2>2. Len(B[x].buckets) <= len
    BY <1>2 DEF BucketsOf
  <2>3. B[x].valid = valid
    BY <1>1
  <2> QED
    BY <2>1, <2>2, <2>3, MinOfTwo DEF GetNumberOfValidBuckets
<1>7. m = n
  <2>1. PICK S : S = {0} \cup {GetNumberOfValidBuckets(B[x]) : x \in P}
    OBVIOUS
  <2>2. \A y \in S : y \in Nat /\ y <= m
    <3>1. ASSUME NEW x \in P PROVE GetNumberOfValidBuckets(B[x]) <= m
      BY <1>3, <1>4, <1>5, <1>6
    <3>2. ASSUME NEW y \in S PROVE y = 0 \/ \E x \in P : y = GetNumberOfValidBuckets(B[x])
      BY <2>1, <3>2
    <3>3. \A x \in P : GetNumberOfValidBuckets(B[x]) \in Nat
      BY <1>6
    <3>4. m \in Nat /\ 0 <= m
      BY <1>5
    <3>5. ASSUME NEW y \in S PROVE y \in Nat /\ y <= m
      <4>1. CASE y = 0
        BY <3>4, <4>1
      <4>2. ASSUME NEW x \in P, y = GetNumberOfValidBuckets(B[x]) PROVE y \in Nat /\ y <= m
        BY <3>1, <3>3, <4>2
      <4> QED
        BY <3>2, <3>5, <4>1, <4>2
    <3> QED
      BY <3>5
  <2>3. m \in S
    <3>1. CASE m = 0
      BY <2>1, <3>1
    <3>2. CASE m # 0
      <4>1. len # 0 /\ P # {} /\ b.valid = valid
        BY <1>3, <1>4, <1>5, <3>2
      <4>2. PICK x \in P : len = Len(B[x].buckets)
        BY <1>2, <4>1 DEF BucketsOf
      <4>3. GetNumberOfValidBuckets(B[x]) = m
        BY <1>3, <1>5, <1>6, <4>1, <4>2
      <4> QED
        BY <2>1, <4>3
    <3> QED
      BY <3>1, <3>2
  <2>4. Max(S) \in S /\ \A y \in S : Max(S) >= y
    BY <2>2, <2>3 DEF Max
  <2>5. PICK z : z = Max(S)
    OBVIOUS
  <2>6. z \in Nat /\ z <= m /\ z >= m
    BY <2>2, <2>3, <2>4, <2>5
  <2> QED
    BY <1>0, <1>5, <2>1, <2>5, <2>6
<1>8. n \in Nat /\ 1 .. n \subseteq DOMAIN q /\ IsFiniteSet(1 .. n)
  <2>1. n \in Nat /\ n <= len
    BY <1>5, <1>7
  <2>2. IsFiniteSet(1 .. n)
    BY <2>1, FS_Interval
  <2>3. \A k \in 1 .. n : k \in 1 .. len
    BY <1>3, <2>1
  <2> QED
    BY <1>3, <2>1, <2>2, <2>3
<1>9. ASSUME NEW k \in 1 .. n PROVE q[k] = ios[k] /\ ios[k] \in Nat
  <2>1. PICK s \in Nat : s = Ios(B, P, k) /\ s < CountMod
    <3>1. k \in Nat \ {0}
      BY <1>8
    <3>2. Ios(B, P, k) \in Nat
      BY IosTypes
    <3> QED
      BY <3>1, <3>2
  <2>2. s % CountMod = s
    BY <2>1, StatisticsAssumption DEF StatisticsAssumption
  <2>3. GetIoBucket(b, k) = s
    BY <1>8, <2>1, <2>2 DEF BucketsOf
  <2> QED
    BY <1>0, <1>2, <1>8, <2>1, <2>3 DEF GetIoBucket
<1>10. PICK f, g : /\ f = [i \in DOMAIN b.buckets |-> b.buckets[i] * b.buckets[i]]
                   /\ g = [k \in 1 .. n |-> ios[k] * ios[k]]
  OBVIOUS
<1>11. SumFunctionOnSet(q, 1 .. n) = SumFunction(ios)
  <2>1. \A k \in 1 .. n : q[k] \in Int /\ ios[k] \in Int /\ q[k] = ios[k]
    BY <1>9
  <2>2. SumFunctionOnSet(q, 1 .. n) = SumFunctionOnSet(ios, 1 .. n)
    BY <1>8, <2>1, SumPointwise
  <2> QED
    BY <1>0, <2>2 DEF SumFunction
<1>12. SumFunctionOnSet(f, 1 .. n) = SumFunction(g)
  <2>1. \A a \in Nat : a * a \in Int
    OBVIOUS
  <2>2. \A k \in 1 .. n : f[k] = q[k] * q[k] /\ g[k] = ios[k] * ios[k]
    BY <1>2, <1>8, <1>10
  <2>3. \A k \in 1 .. n : f[k] \in Int /\ g[k] \in Int /\ f[k] = g[k]
    BY <1>9, <2>1, <2>2
  <2>4. SumFunctionOnSet(f, 1 .. n) = SumFunctionOnSet(g, 1 .. n)
    BY <1>8, <2>3, SumPointwise
  <2>5. DOMAIN g = 1 .. n
    BY <1>10
  <2> QED
    BY <2>4, <2>5 DEF SumFunction
<1> QED
  BY <1>2, <1>7, <1>10, <1>11, <1>12 DEF ScaledVariance, VarianceOf

(* What the property adds up is what the lemmas do.                         *)
LEMMA SumsAre ==
  ASSUME NEW o, IsResults(o, results), NEW P \in SUBSET All, NEW k
  PROVE  /\ SumFunction([x \in P |-> GetIoBucket(results[x[1]][x[2]].bucketizer, k)]) =
              Ios(BucketizersIn(results), P, k)
         /\ SumFunction([x \in P |->
              SumFunction([v \in DOMAIN results[x[1]][x[2]].histogram.data |->
                results[x[1]][x[2]].histogram.data[v] *
                  (IF k = 0 THEN 1 ELSE IF k = 1 THEN v ELSE v * v)])]) =
              Moment(HistogramsIn(results), P, k)
<1>1. PICK H, B : H = HistogramsIn(results) /\ B = BucketizersIn(results)
  OBVIOUS
<1>2. /\ Histograms(H) /\ DOMAIN H = All /\ Bucketizers(B) /\ DOMAIN B = All /\ IsFiniteSet(P)
      /\ \A x \in P : /\ H[x] = results[x[1]][x[2]].histogram
                      /\ B[x] = results[x[1]][x[2]].bucketizer
  BY <1>1, AllIsFinite, FS_Subset DEF IsResults, HistogramsIn, BucketizersIn
<1>3. SumFunction([x \in P |-> GetIoBucket(results[x[1]][x[2]].bucketizer, k)]) = Ios(B, P, k)
  <2>1. PICK f, g : /\ f = [x \in P |-> GetIoBucket(results[x[1]][x[2]].bucketizer, k)]
                    /\ g = [x \in DOMAIN B |-> GetIoBucket(B[x], k)]
    OBVIOUS
  <2>2. \A x \in P : f[x] = g[x] /\ g[x] = GetIoBucket(B[x], k)
    BY <1>2, <2>1
  <2>3. \A x \in P : GetIoBucket(B[x], k) \in Int
    <3>1. \A x \in P : GetIoBucket(B[x], k) \in 0 .. CountMod - 1
      BY <1>2, IosTypes
    <3> QED
      BY <3>1
  <2>4. SumFunctionOnSet(f, P) = SumFunctionOnSet(g, P)
    <3>1. \A x \in P : f[x] \in Int /\ g[x] \in Int /\ f[x] = g[x]
      BY <2>2, <2>3
    <3> QED
      BY <1>2, <3>1, SumPointwise
  <2>5. DOMAIN f = P
    BY <2>1
  <2> QED
    BY <2>1, <2>4, <2>5 DEF SumFunction, Ios
<1>4. ASSUME NEW x \in P
      PROVE  SumFunction([v \in DOMAIN results[x[1]][x[2]].histogram.data |->
               results[x[1]][x[2]].histogram.data[v] *
                 (IF k = 0 THEN 1 ELSE IF k = 1 THEN v ELSE v * v)]) =
               WeighData(H[x].data, Power(k))
  <2>1. PICK data : data = H[x].data /\ DOMAIN data \subseteq Latency
    BY <1>2 DEF Histograms, IsHistogram
  <2>2. \A v \in DOMAIN data : Power(k)[v] = IF k = 0 THEN 1 ELSE IF k = 1 THEN v ELSE v * v
    BY <2>1 DEF Power
  <2>3. [v \in DOMAIN data |-> data[v] * Power(k)[v]] =
          [v \in DOMAIN data |-> data[v] * (IF k = 0 THEN 1 ELSE IF k = 1 THEN v ELSE v * v)]
    BY <2>2
  <2>4. data = results[x[1]][x[2]].histogram.data
    BY <1>2, <2>1
  <2> QED
    BY <2>1, <2>3, <2>4 DEF WeighData, SumFunction
<1>5. [x \in P |-> SumFunction([v \in DOMAIN results[x[1]][x[2]].histogram.data |->
                     results[x[1]][x[2]].histogram.data[v] *
                       (IF k = 0 THEN 1 ELSE IF k = 1 THEN v ELSE v * v)])] = MomentEach(H, P, k)
  BY <1>4, Zenon DEF MomentEach
<1>6. DOMAIN MomentEach(H, P, k) = P
  BY DEF MomentEach
<1> QED
  BY <1>1, <1>3, <1>5, <1>6, Zenon DEF SumFunction, Moment

(* No count over all rows wraps around.                                     *)
CountsFit ==
  /\ Samples("RW") < CountMod
  /\ \A k \in Nat \ {0} :
       SumFunction([x \in All |-> GetIoBucket(results[x[1]][x[2]].bucketizer, k)]) < CountMod

(* One row, or total.                                                       *)
LEMMA DeviationsAre ==
  ASSUME TableInv, CountsFit, NEW P \in SUBSET All, NEW t, NEW r,
         t = Printed(r), Accumulated(results, r, P),
         NEW B, B = BucketizersIn(results), NEW H, H = HistogramsIn(results),
         NEW n, n = ValidIn(B, P), NEW ios, ios = IosIn(B, P),
         NEW m0, m0 = Moment(H, P, 0), NEW m1, m1 = Moment(H, P, 1),
         NEW m2, m2 = Moment(H, P, 2)
  PROVE  /\ options.measure_iops_std_dev =>
              t.iops_dev = {<<VarianceOf(n, ios), n>>}
         /\ t.lat_dev = PrintIf(m0 > 0, <<m0 * m2 - m1 * m1, m0>>)
         /\ \A mean \in t.avg : mean.num * m0 = m1 * mean.den
<1>1. /\ Histograms(H) /\ DOMAIN H = All /\ Bucketizers(B) /\ DOMAIN B = All
      /\ IsResults(options, results)
  BY DEF TableInv, IsResults, HistogramsIn, BucketizersIn
<1>2. HistogramOf(r.histogram, H, P) /\ BucketsOf(r.bucketizer, B, P)
  BY DEF Accumulated
<1>3. CountAll(H, P) < CountMod
  <2>1. CountAll(H, P) <= CountAll(H, All)
    BY <1>1, PartsCountLess
  <2>2. Samples("RW") = CountAll(H, All)
    <3>1. PartsOf("RW", 0) = Rows \X Direction
      BY <1>1, LatenciesAre DEF Section, DirectionsOf
    <3>2. PartsOf("RW", 0) = All
      BY <3>1 DEF All
    <3> QED
      BY <1>1, <3>2, LatenciesAre DEF Section
  <2>3. CountAll(H, P) \in Nat /\ CountAll(H, All) \in Nat
    BY <1>1, CountTypes
  <2> QED
    BY <2>1, <2>2, <2>3, StatisticsAssumption DEF CountsFit, StatisticsAssumption
<1>4. ASSUME NEW k \in Nat \ {0} PROVE Ios(B, P, k) < CountMod
  <2>1. Ios(B, P, k) <= Ios(B, All, k)
    BY <1>1, PartsCountLess
  <2>2. Ios(B, All, k) < CountMod
    <3>1. SumFunction([x \in All |-> GetIoBucket(results[x[1]][x[2]].bucketizer, k)]) < CountMod
      BY DEF CountsFit
    <3>2. SumFunction([x \in All |-> GetIoBucket(results[x[1]][x[2]].bucketizer, k)]) =
            Ios(B, All, k)
      BY <1>1, SumsAre
    <3> QED
      BY <3>1, <3>2
  <2>3. Ios(B, P, k) \in Nat /\ Ios(B, All, k) \in Nat
    BY <1>1, IosTypes
  <2> QED
    BY <2>1, <2>2, <2>3, StatisticsAssumption DEF StatisticsAssumption
<1>5. PICK h, b : h = r.histogram /\ b = r.bucketizer
  OBVIOUS
<1>6. GetNumberOfValidBuckets(b) = n /\ ScaledVariance(b) = VarianceOf(n, ios)
  <2>1. P \in SUBSET DOMAIN B /\ BucketsOf(b, B, P) /\ Bucketizers(B)
    BY <1>1, <1>2, <1>5
  <2>2. \A k \in Nat \ {0} : Ios(B, P, k) < CountMod
    BY <1>4
  <2> QED
    BY <2>1, <2>2, VarianceIs
<1>7. /\ h.samples = m0 /\ Values(h) = m1 /\ Squares(h) = m2
      /\ m0 \in Nat /\ m1 \in Nat
      /\ DOMAIN h.data = {} => m0 = 0 /\ m1 = 0
      /\ m0 > 0 => DOMAIN h.data # {}
  BY <1>1, <1>2, <1>3, <1>5, MomentsAre
<1>8. options.measure_iops_std_dev => t.iops_dev = {<<ScaledVariance(b), n>>}
  BY <1>5, <1>6 DEF Printed, PrintIf
<1>9. ~options.measure_latency => m0 = 0
  <2>1. ASSUME ~options.measure_latency PROVE DOMAIN h.data = {}
    <3>1. DOMAIN EmptyHistogram.data = {}
      BY DEF EmptyHistogram
    <3>2. \A x \in P : DOMAIN H[x].data = {}
      BY <1>1, <2>1, <3>1 DEF IsResults, HistogramsIn
    <3> QED
      BY <1>2, <1>5, <3>2 DEF HistogramOf
  <2> QED
    BY <1>7, <2>1
<1>10. t.lat_dev = PrintIf(m0 > 0, <<m0 * m2 - m1 * m1, m0>>)
  <2>1. ScaledDeviation(h) = m0 * m2 - m1 * m1
    BY <1>7 DEF ScaledDeviation
  <2>2. t.lat_dev = PrintIf(options.measure_latency /\ m0 > 0, <<ScaledDeviation(h), m0>>)
    BY <1>5, <1>7 DEF Printed
  <2>3. options.measure_latency /\ m0 > 0 <=> m0 > 0
    BY <1>9
  <2> QED
    BY <2>1, <2>2, <2>3 DEF PrintIf
<1>11. ASSUME NEW mean \in t.avg PROVE mean.num * m0 = m1 * mean.den
  <2>1. mean = GetMean(h)
    BY <1>5, <1>11 DEF Printed, PrintIf
  <2>2. CASE DOMAIN h.data = {}
    <3>1. mean.num = 0 /\ mean.den = 1 /\ m0 = 0 /\ m1 = 0
      BY <1>7, <2>1, <2>2 DEF GetMean
    <3> QED
      BY <3>1
  <2>3. CASE DOMAIN h.data # {}
    BY <1>7, <2>1, <2>3 DEF GetMean
  <2> QED
    BY <2>2, <2>3
<1> QED
  BY <1>6, <1>8, <1>10, <1>11

(* IoBucketizer.cc:78, Histogram.h:159: a printed standard deviation is     *)
(* that of all I/Os of its row, or of the total, together, as long as no    *)
(* count over all rows wraps around.                                        *)
THEOREM DeviationsOfAll == Spec => [](CountsFit => StdDevOfAll)
<1> SUFFICES ASSUME ReportInv, CountsFit PROVE StdDevOfAll
  BY Report_Inv, PTL
<1> SUFFICES ASSUME NEW s \in Section, NEW i \in DOMAIN table[s]
             PROVE  LET parts == PartsOf(s, i)
                        bucketizer(x) == results[x[1]][x[2]].bucketizer
                        data(x)       == results[x[1]][x[2]].histogram.data
                        n    == Max({0} \cup {GetNumberOfValidBuckets(bucketizer(x)) : x \in parts})
                        ios  == [k \in 1 .. n |->
                                  SumFunction([x \in parts |-> GetIoBucket(bucketizer(x), k)])]
                        power(v, k) == IF k = 0 THEN 1 ELSE IF k = 1 THEN v ELSE v * v
                        moment(k) == SumFunction([x \in parts |->
                                       SumFunction([v \in DOMAIN data(x) |->
                                                      data(x)[v] * power(v, k)])])
                    IN  /\ options.measure_iops_std_dev =>
                             table[s][i].iops_dev =
                               {<<n * SumFunction([k \in 1 .. n |-> ios[k] * ios[k]])
                                    - SumFunction(ios) * SumFunction(ios), n>>}
                        /\ table[s][i].lat_dev =
                             PrintIf(moment(0) > 0,
                               <<moment(0) * moment(2) - moment(1) * moment(1), moment(0)>>)
                        /\ \A mean \in table[s][i].avg :
                             mean.num * moment(0) = moment(1) * mean.den
  BY Zenon DEF StdDevOfAll
<1> DEFINE parts == PartsOf(s, i)
           bucketizer(x) == results[x[1]][x[2]].bucketizer
           data(x) == results[x[1]][x[2]].histogram.data
           n == Max({0} \cup {GetNumberOfValidBuckets(bucketizer(x)) : x \in parts})
           ios == [k \in 1 .. n |-> SumFunction([x \in parts |-> GetIoBucket(bucketizer(x), k)])]
           power(v, k) == IF k = 0 THEN 1 ELSE IF k = 1 THEN v ELSE v * v
           moment(k) == SumFunction([x \in parts |->
                          SumFunction([v \in DOMAIN data(x) |-> data(x)[v] * power(v, k)])])
<1>1. PICK B, H : B = BucketizersIn(results) /\ H = HistogramsIn(results)
  OBVIOUS
<1>2. TableInv /\ IsResults(options, results)
  BY DEF ReportInv, TableInv
<1>3. PICK r : table[s][i] = Printed(r) /\ Accumulated(results, r, parts)
  BY <1>2 DEF TableInv
<1>4. parts \in SUBSET All
  BY DEF PartsOf, DirectionsOf, All, Section, Direction
<1>5. n = ValidIn(B, parts)
  <2>1. \A x \in parts : B[x] = bucketizer(x)
    BY <1>1, <1>4 DEF BucketizersIn
  <2>2. {GetNumberOfValidBuckets(bucketizer(x)) : x \in parts} =
          {GetNumberOfValidBuckets(B[x]) : x \in parts}
    BY <2>1, Zenon
  <2> QED
    BY <2>2, Zenon DEF ValidIn
<1>6. ios = IosIn(B, parts)
  <2>1. \A k : SumFunction([x \in parts |-> GetIoBucket(bucketizer(x), k)]) = Ios(B, parts, k)
    BY <1>1, <1>2, <1>4, SumsAre, Zenon
  <2> QED
    BY <1>5, <2>1, Zenon DEF IosIn
<1>7. \A k : moment(k) = Moment(H, parts, k)
  BY <1>1, <1>2, <1>4, SumsAre, Zenon
<1>8. PICK m0, m1, m2 : /\ m0 = moment(0) /\ m1 = moment(1) /\ m2 = moment(2)
                        /\ m0 = Moment(H, parts, 0)
                        /\ m1 = Moment(H, parts, 1)
                        /\ m2 = Moment(H, parts, 2)
  BY <1>7, Zenon
<1>9. /\ options.measure_iops_std_dev => table[s][i].iops_dev = {<<VarianceOf(n, ios), n>>}
      /\ table[s][i].lat_dev = PrintIf(m0 > 0, <<m0 * m2 - m1 * m1, m0>>)
      /\ \A mean \in table[s][i].avg : mean.num * m0 = m1 * mean.den
  <2>1. PICK P, t, N, I : P = parts /\ t = table[s][i] /\ N = n /\ I = ios
    OBVIOUS
  <2> HIDE DEF parts, n, ios, moment
  <2>2. P \in SUBSET All /\ t = Printed(r) /\ Accumulated(results, r, P)
    BY <1>3, <1>4, <2>1
  <2>3. N = ValidIn(B, P) /\ I = IosIn(B, P)
    BY <1>5, <1>6, <2>1
  <2>4. m0 = Moment(H, P, 0) /\ m1 = Moment(H, P, 1) /\ m2 = Moment(H, P, 2)
    BY <1>8, <2>1
  <2>5. /\ options.measure_iops_std_dev => t.iops_dev = {<<VarianceOf(N, I), N>>}
        /\ t.lat_dev = PrintIf(m0 > 0, <<m0 * m2 - m1 * m1, m0>>)
        /\ \A mean \in t.avg : mean.num * m0 = m1 * mean.den
    BY <1>1, <1>2, <2>2, <2>3, <2>4, DeviationsAre
  <2> QED
    BY <2>1, <2>5
<1> QED
  BY <1>8, <1>9, Zenon DEF VarianceOf

=============================================================================

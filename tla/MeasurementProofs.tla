-------------------------- MODULE MeasurementProofs --------------------------
(***************************************************************************)
(* Theorems about Measurement for any number of workers, targets and       *)
(* operations, any clock, duration and throughput: types, when a worker    *)
(* still records, how much a throttled one may have transferred, and that  *)
(* the results describe what was recorded.                                 *)
(***************************************************************************)

EXTENDS Measurement, DataLemmas

-----------------------------------------------------------------------------
(***************************************************************************)
(* The inductive invariant.                                                *)
(***************************************************************************)

(* Before the measurement, during it, and after.                            *)
Before == {"warmup", "started"}
After  == {"stop", "join"}

(* The job's bookkeeping: the flag is set while it measures, and the bound  *)
(* of the clock leaves room for the duration.                               *)
ClockInv ==
  /\ record_results <=> job_pc = "measure"
  /\ start_time_us <= now
  /\ job_pc \in Before => now + DurationMs * UsPerMs <= MaxTime

(* The times a worker has taken are in the past, and that of the operation  *)
(* in hand is not before its submission.                                    *)
StampInv(t) ==
  /\ abs_time_us[t] <= now
  /\ \A o \in Slots : submitted[t][o] <= now
  /\ pc[t] \in {"stamped", "record"} =>
       submitted[t][curr_op[t]] <= abs_time_us[t]

(* There is room in the log for what a worker is going to record.           *)
RoomInv(t) ==
  /\ job_pc \in Before => log[t] = <<>> /\ pc[t] # "record" /\ ~throttled[t]
  /\ pc[t] = "record" \/ (pc[t] = "stamped" /\ record_results) => Len(log[t]) < MaxRecords

(* After the flag is reset a worker has its straggler yet to record, or has *)
(* recorded it already.                                                     *)
StragglerInv(t) ==
  job_pc \in After =>
    Len(log[t]) <= log_at_stop[t] + (IF pc[t] = "record" THEN 0 ELSE 1)

(* A worker that looked at its throughput was within the limit then, and    *)
(* has recorded nothing since.                                              *)
Limit(us)  == (Throughput + 1) * (ToMs(us) - ToMs(start_time_us))

RateInv(t) ==
  /\ thread_bytes_count[t] = BlockSize * Len(log[t])
  /\ throttled[t] /\ pc[t] = "wait" => BlockSize * Len(log[t]) < Limit(now)
  /\ throttled[t] /\ pc[t] \in {"stamped", "record"} =>
       BlockSize * Len(log[t]) < Limit(abs_time_us[t])

IInv ==
  /\ TypeOK
  /\ ClockInv
  /\ \A t \in Threads : StampInv(t) /\ RoomInv(t) /\ StragglerInv(t) /\ RateInv(t)
  /\ ThroughputHeld

-----------------------------------------------------------------------------
(***************************************************************************)
(* Time.                                                                   *)
(***************************************************************************)

(* A later time is not fewer milliseconds.                                  *)
LEMMA QuotientGrows ==
  ASSUME NEW u \in Nat \ {0}, NEW a \in Nat, NEW b \in Nat, a <= b
  PROVE  a \div u \in Nat /\ b \div u \in Nat /\ a \div u <= b \div u
OBVIOUS

(* What an estimate in whole units allows.                                  *)
LEMMA Estimate ==
  ASSUME NEW n \in Nat, NEW ms \in Nat \ {0}, NEW limit \in Nat, ~(n \div ms > limit)
  PROVE  n < (limit + 1) * ms
<1>1. n < (n \div ms) * ms + ms /\ n \div ms \in Nat /\ n \div ms <= limit
  OBVIOUS
<1>2. (n \div ms) * ms <= limit * ms
  BY <1>1
<1>3. (limit + 1) * ms = limit * ms + ms
  OBVIOUS
<1> QED
  BY <1>1, <1>2, <1>3

(* The constants, as numbers.                                               *)
LEMMA Numbers ==
  /\ NumTargets \in Nat \ {0} /\ Overlap \in Nat \ {0} /\ BlockSize \in Nat \ {0}
  /\ UsPerMs \in Nat \ {0} /\ DurationMs \in Nat \ {0} /\ BucketMs \in Nat \ {0}
  /\ Throughput \in Nat /\ MaxBuckets \in Nat /\ MaxRecords \in Nat \ {0}
  /\ DurationMs * UsPerMs \in Nat \ {0}
  /\ TimeMod \in Nat \ {0} /\ MaxTime \in Nat \ {0}
  /\ DurationMs * UsPerMs < MaxTime /\ MaxTime < TimeMod
<1>1. /\ NumTargets \in Nat \ {0} /\ Overlap \in Nat \ {0} /\ BlockSize \in Nat \ {0}
      /\ UsPerMs \in Nat \ {0} /\ DurationMs \in Nat \ {0} /\ BucketMs \in Nat \ {0}
      /\ Throughput \in Nat /\ MaxBuckets \in Nat /\ MaxRecords \in Nat \ {0}
      /\ TimeMod \in Nat /\ MaxTime \in DurationMs * UsPerMs + 1 .. TimeMod - 1
  BY MeasurementAssumption DEF MeasurementAssumption
<1>2. PICK d \in Nat \ {0} : d = DurationMs * UsPerMs
  BY <1>1
<1> QED
  BY <1>1, <1>2

(* The limit grows with time.                                               *)
LEMMA LimitGrows ==
  ASSUME NEW a \in Nat, NEW b \in Nat, a <= b, start_time_us \in Nat
  PROVE  Limit(a) \in Int /\ Limit(b) \in Int /\ Limit(a) <= Limit(b)
<1>1. PICK x \in Nat, y \in Nat, s \in Nat :
        x = ToMs(a) /\ y = ToMs(b) /\ s = ToMs(start_time_us) /\ x <= y
  <2>1. ToMs(a) \in Nat /\ ToMs(b) \in Nat /\ ToMs(a) <= ToMs(b)
    BY Numbers, QuotientGrows DEF ToMs
  <2>2. ToMs(start_time_us) \in Nat
    BY Numbers, QuotientGrows DEF ToMs
  <2> QED
    BY <2>1, <2>2
<1>2. PICK k \in Nat : k = Throughput + 1
  BY Numbers
<1>3. k * (x - s) \in Int /\ k * (y - s) \in Int /\ k * (x - s) <= k * (y - s)
  <2>1. k * (y - s) = k * (x - s) + k * (y - x) /\ k * (y - x) \in Nat
    BY <1>1
  <2> QED
    BY <2>1
<1> QED
  BY <1>1, <1>2, <1>3 DEF Limit

-----------------------------------------------------------------------------
(***************************************************************************)
(* Steps.                                                                  *)
(***************************************************************************)

(* Initially nothing is recorded.                                           *)
LEMMA InitIInv == Init => IInv
<1> SUFFICES ASSUME Init PROVE IInv
  OBVIOUS
<1>1. Targets = 1 .. NumTargets /\ NoOp \in Slots
  BY Numbers DEF Targets, Slots, NoOp
<1>2. /\ measure_latency \in BOOLEAN /\ measure_iops_std_dev \in BOOLEAN
      /\ time \in [Threads -> [Slots -> Times]]
  BY MeasurementAssumption DEF MeasurementAssumption, Init, Times
<1>3. log = [t \in Threads |-> <<>>] /\ Len(<<>>) = 0 /\ <<>> \in Seq(Record)
  BY DEF Init
<1>4. TypeOK
  <2>1. /\ now \in 0 .. MaxTime /\ start_time_us \in 0 .. MaxTime /\ deadline \in 0 .. MaxTime
        /\ 0 \in 0 .. MaxTime /\ 0 \in 0 .. MaxRecords
    BY Numbers DEF Init
  <2>2. /\ pc \in [Threads -> {"test", "wait", "stamped", "record", "requeue", "dead"}]
        /\ throttled \in [Threads -> BOOLEAN] /\ curr_op \in [Threads -> Slots]
        /\ abs_time_us \in [Threads -> 0 .. MaxTime]
        /\ thread_bytes_count \in [Threads -> Nat]
        /\ log_at_stop \in [Threads -> 0 .. MaxRecords]
    BY <1>1, <2>1 DEF Init
  <2>3. submitted \in [Threads -> [Slots -> 0 .. MaxTime]]
    BY <2>1 DEF Init
  <2>4. log \in [Threads -> Seq(Record)] /\ \A t \in Threads : Len(log[t]) <= MaxRecords
    BY <1>3, Numbers
  <2> QED
    BY <1>2, <2>1, <2>2, <2>3, <2>4 DEF Init, TypeOK
<1>5. ClockInv
  BY Numbers DEF Init, ClockInv, Before
<1>6. ASSUME NEW t \in Threads PROVE StampInv(t) /\ RoomInv(t) /\ StragglerInv(t) /\ RateInv(t)
  <2>1. BlockSize * 0 = 0
    BY Numbers
  <2> QED
    BY <1>3, <2>1, Numbers DEF Init, StampInv, RoomInv, StragglerInv, RateInv, After
<1>7. ThroughputHeld
  BY <1>3 DEF ThroughputHeld
<1> QED
  BY <1>4, <1>5, <1>6, <1>7 DEF IInv

(* Where nothing is recorded only the worker that moves, the job and the    *)
(* clock matter.                                                            *)
LEMMA SameLog ==
  ASSUME IInv, log' = log, start_time_us' = start_time_us \/ job_pc \in Before
  PROVE  ThroughputHeld'
<1>1. job_pc \in Before => \A t \in Threads : log[t] = <<>>
  BY DEF IInv, RoomInv
<1>2. job_pc \in Before => ThroughputHeld'
  BY <1>1 DEF ThroughputHeld
<1> QED
  BY <1>2 DEF ThroughputHeld, IInv

(* The clock.                                                               *)
LEMMA TickStep ==
  ASSUME IInv, Tick
  PROVE  IInv'
<1>0. /\ TypeOK /\ ClockInv /\ now \in Nat /\ now' = now + 1 /\ start_time_us \in Nat
      /\ \A t \in Threads : StampInv(t) /\ RoomInv(t) /\ StragglerInv(t) /\ RateInv(t)
  BY DEF IInv, TypeOK, Tick
<1> USE DEF options, jobVars, opVars, resultVars
<1>1. now' \in 0 .. MaxTime /\ (job_pc \in Before => now' + DurationMs * UsPerMs <= MaxTime)
  <2>1. PICK d \in Nat : d = DurationMs * UsPerMs
    BY Numbers
  <2>2. now < MaxTime - (IF job_pc \in {"warmup", "started"} THEN d ELSE 0)
    BY <2>1 DEF Tick
  <2> QED
    BY <1>0, <2>1, <2>2, Numbers DEF Before
<1>2. TypeOK'
  BY <1>0, <1>1 DEF Tick, TypeOK, Times, Record
<1>3. ClockInv'
  BY <1>0, <1>1 DEF Tick, ClockInv
<1>4. ASSUME NEW t \in Threads PROVE (StampInv(t) /\ RoomInv(t) /\ StragglerInv(t) /\ RateInv(t))'
  <2>1. StampInv(t)'
    BY <1>0 DEF Tick, StampInv, TypeOK
  <2>2. RoomInv(t)' /\ StragglerInv(t)'
    BY <1>0 DEF Tick, RoomInv, StragglerInv
  <2>3. RateInv(t)'
    <3>1. Limit(now) \in Int /\ Limit(now + 1) \in Int /\ Limit(now) <= Limit(now + 1)
      BY <1>0, LimitGrows
    <3>2. Limit(now)' = Limit(now + 1) /\ Limit(abs_time_us[t])' = Limit(abs_time_us[t])
      BY <1>0 DEF Tick, Limit
    <3>3. PICK n \in Nat : n = BlockSize * Len(log[t])
      <4>1. Len(log[t]) \in Nat
        BY <1>0 DEF TypeOK
      <4> QED
        BY <4>1, Numbers
    <3>4. UNCHANGED <<thread_bytes_count, log, throttled, pc>>
      BY DEF Tick
    <3> QED
      BY <1>0, <3>1, <3>2, <3>3, <3>4 DEF RateInv
  <2> QED
    BY <2>1, <2>2, <2>3
<1>5. ThroughputHeld'
  BY SameLog DEF Tick
<1> QED
  BY <1>2, <1>3, <1>4, <1>5 DEF IInv

(* The job: it records nothing itself, and resets the flag before it tells  *)
(* the workers to stop.                                                     *)
LEMMA JobStep ==
  ASSUME IInv, GetStartTime \/ StartRecording \/ StopRecording \/ StopThreads
  PROVE  IInv'
<1>0. /\ TypeOK /\ ClockInv
      /\ \A t \in Threads : StampInv(t) /\ RoomInv(t) /\ StragglerInv(t) /\ RateInv(t)
  BY DEF IInv
<1> USE DEF options, opVars, resultVars, JobGoto, Before, After
<1>1. /\ UNCHANGED <<now, pc, throttled, curr_op, abs_time_us, time, type, submitted,
                     thread_bytes_count, log, measure_latency, measure_iops_std_dev, process>>
  BY DEF GetStartTime, StartRecording, StopRecording, StopThreads
<1>2. \A t \in Threads : Len(log[t]) \in 0 .. MaxRecords
  BY <1>0, Numbers DEF TypeOK
<1>3. TypeOK' /\ ClockInv'
  <2>1. CASE GetStartTime
    <3>1. job_pc' = "started" /\ start_time_us' = now /\ job_pc = "warmup"
          /\ UNCHANGED <<deadline, record_results, run_threads, log_at_stop>>
      BY <2>1 DEF GetStartTime
    <3>2. start_time_us' \in 0 .. MaxTime /\ start_time_us' <= now' /\ now \in Nat
      BY <1>0, <1>1, <3>1, Numbers DEF TypeOK
    <3>3. TypeOK'
      BY <1>0, <1>1, <3>1, <3>2 DEF TypeOK, Times, Record
    <3>4. ClockInv'
      BY <1>0, <1>1, <3>1, <3>2 DEF ClockInv
    <3> QED
      BY <3>3, <3>4
  <2>2. CASE StartRecording
    <3>1. PICK d \in Nat : d = DurationMs * UsPerMs
      BY Numbers
    <3>2. deadline' \in 0 .. MaxTime
      <4>1. deadline' = now + d /\ now \in Nat /\ now + d <= MaxTime /\ MaxTime \in Nat
        BY <1>0, <2>2, <3>1, Numbers DEF StartRecording, TypeOK, ClockInv
      <4> HIDE DEF Before
      <4> QED
        BY <4>1
    <3> QED
      BY <1>0, <1>1, <2>2, <3>2 DEF StartRecording, TypeOK, ClockInv, Times, Record
  <2>3. CASE StopRecording
    <3>1. log_at_stop' \in [Threads -> 0 .. MaxRecords]
      BY <1>2, <2>3 DEF StopRecording
    <3> QED
      BY <1>0, <1>1, <2>3, <3>1 DEF StopRecording, TypeOK, ClockInv, Times, Record
  <2>4. CASE StopThreads
    BY <1>0, <1>1, <2>4 DEF StopThreads, TypeOK, ClockInv, Times, Record
  <2> QED
    BY <2>1, <2>2, <2>3, <2>4
<1>4. job_pc \in Before \/ start_time_us' = start_time_us
  BY DEF GetStartTime, StartRecording, StopRecording, StopThreads
<1>5. ASSUME NEW t \in Threads PROVE (StampInv(t) /\ RoomInv(t) /\ StragglerInv(t) /\ RateInv(t))'
  <2>1. RoomInv(t)'
    <3>1. Len(<<>>) = 0
      OBVIOUS
    <3> QED
      BY <1>0, <1>1, <3>1, Numbers
      DEF GetStartTime, StartRecording, StopRecording, StopThreads, RoomInv, ClockInv
  <2>2. StragglerInv(t)'
    BY <1>0, <1>1, <1>2
    DEF GetStartTime, StartRecording, StopRecording, StopThreads, StragglerInv
  <2>3. RateInv(t)'
    <3>1. CASE start_time_us' = start_time_us
      BY <1>0, <1>1, <3>1 DEF RateInv, Limit
    <3>2. CASE job_pc \in Before
      BY <1>0, <1>1, <3>2 DEF RateInv, RoomInv
    <3> QED
      BY <1>4, <3>1, <3>2
  <2>4. StampInv(t)'
    BY <1>0, <1>1, <1>4 DEF StampInv
  <2> QED
    BY <2>1, <2>2, <2>3, <2>4
<1>6. ThroughputHeld'
  BY <1>1, <1>4, SameLog
<1> QED
  BY <1>3, <1>5, <1>6 DEF IInv

(* A worker that records nothing.                                           *)
LEMMA OtherWorkers ==
  ASSUME IInv, NEW t \in Threads,
         UNCHANGED <<now, job_pc, start_time_us, record_results, log_at_stop>>,
         \A u \in Threads \ {t} :
           /\ pc'[u] = pc[u] /\ throttled'[u] = throttled[u] /\ abs_time_us'[u] = abs_time_us[u]
           /\ curr_op'[u] = curr_op[u] /\ submitted'[u] = submitted[u]
           /\ thread_bytes_count'[u] = thread_bytes_count[u] /\ log'[u] = log[u]
  PROVE  \A u \in Threads \ {t} : (StampInv(u) /\ RoomInv(u) /\ StragglerInv(u) /\ RateInv(u))'
BY DEF IInv, StampInv, RoomInv, StragglerInv, RateInv, Limit

(* The loop condition and the throttle.                                     *)
LEMMA LoopTestStep ==
  ASSUME IInv, NEW t \in Threads, LoopTest(t)
  PROVE  IInv'
<1>0. /\ TypeOK /\ ClockInv
      /\ StampInv(t) /\ RoomInv(t) /\ StragglerInv(t) /\ RateInv(t)
  BY DEF IInv
<1> USE DEF options, jobVars, opVars, resultVars
<1>1. /\ UNCHANGED <<options, now, jobVars, process, opVars, resultVars, log_at_stop>>
      /\ pc[t] = "test" /\ pc'[t] = (IF run_threads THEN "wait" ELSE "dead")
      /\ throttled'[t] = (record_results /\ Throughput # 0 /\ SinceStartMs # 0)
      /\ ~(run_threads /\ record_results /\ Throughput # 0 /\ TooFast(t))
      /\ \A u \in Threads \ {t} : pc'[u] = pc[u] /\ throttled'[u] = throttled[u]
  BY <1>0 DEF LoopTest, TypeOK
<1>2. TypeOK' /\ ClockInv'
  <2>1. pc' \in [Threads -> {"test", "wait", "stamped", "record", "requeue", "dead"}]
    BY <1>0 DEF LoopTest, TypeOK
  <2>2. throttled' \in [Threads -> BOOLEAN]
    BY <1>0 DEF LoopTest, TypeOK
  <2> QED
    BY <1>0, <1>1, <2>1, <2>2 DEF TypeOK, ClockInv, Times, Record
<1>3. ASSUME throttled'[t], pc'[t] = "wait" PROVE BlockSize * Len(log[t]) < Limit(now)
  <2>1. Len(log[t]) \in Nat
    BY <1>0 DEF TypeOK
  <2>2. PICK n \in Nat : n = BlockSize * Len(log[t]) /\ n = thread_bytes_count[t]
    BY <1>0, <2>1, Numbers DEF RateInv
  <2>3. ToMs(start_time_us) \in Nat /\ ToMs(now) \in Nat /\ ToMs(start_time_us) <= ToMs(now)
    <3>1. start_time_us \in Nat /\ now \in Nat /\ start_time_us <= now /\ UsPerMs \in Nat \ {0}
      BY <1>0, Numbers DEF ClockInv, TypeOK
    <3> QED
      BY <3>1, QuotientGrows DEF ToMs
  <2>4. PICK ms \in Nat \ {0} : ms = SinceStartMs
    <3>1. SinceStartMs \in Nat
      BY <2>3 DEF SinceStartMs
    <3> QED
      BY <1>1, <1>3, <3>1
  <2>5. ~(n \div ms > Throughput)
    BY <1>1, <1>3, <2>2, <2>4 DEF TooFast
  <2>6. n < (Throughput + 1) * ms
    BY <2>5, Estimate, Numbers
  <2> QED
    BY <2>2, <2>4, <2>6 DEF SinceStartMs, Limit
<1>4. (StampInv(t) /\ RoomInv(t) /\ StragglerInv(t) /\ RateInv(t))'
  <2>1. StampInv(t)'
    BY <1>0, <1>1 DEF StampInv
  <2>2. RoomInv(t)' /\ StragglerInv(t)'
    BY <1>0, <1>1 DEF RoomInv, StragglerInv, ClockInv, Before
  <2>3. RateInv(t)'
    BY <1>0, <1>1, <1>3 DEF RateInv, Limit
  <2> QED
    BY <2>1, <2>2, <2>3
<1>5. \A u \in Threads \ {t} : (StampInv(u) /\ RoomInv(u) /\ StragglerInv(u) /\ RateInv(u))'
  BY <1>1, OtherWorkers
<1>6. ThroughputHeld'
  BY <1>1, SameLog
<1> QED
  BY <1>2, <1>4, <1>5, <1>6 DEF IInv

(* A completed operation and its time stamp.                                *)
LEMMA ReapStep ==
  ASSUME IInv, NEW t \in Threads, NEW o \in Slots, Reap(t, o)
  PROVE  IInv'
<1>0. /\ TypeOK /\ ClockInv
      /\ StampInv(t) /\ RoomInv(t) /\ StragglerInv(t) /\ RateInv(t)
  BY DEF IInv
<1> USE DEF options, jobVars, opVars, resultVars
<1>1. /\ UNCHANGED <<options, now, jobVars, process, throttled, time, type, submitted, resultVars,
                     log_at_stop>>
      /\ pc[t] = "wait"
      /\ pc'[t] = (IF run_threads THEN "stamped" ELSE "dead")
      /\ pc'[t] = "stamped" => /\ curr_op'[t] = o /\ abs_time_us'[t] = now
                               /\ record_results => Len(log[t]) < MaxRecords
      /\ pc'[t] = "dead" => abs_time_us'[t] = abs_time_us[t]
      /\ \A u \in Threads \ {t} :
           pc'[u] = pc[u] /\ curr_op'[u] = curr_op[u] /\ abs_time_us'[u] = abs_time_us[u]
  BY <1>0 DEF Reap, TypeOK
<1>2. TypeOK' /\ ClockInv'
  <2>1. pc' \in [Threads -> {"test", "wait", "stamped", "record", "requeue", "dead"}]
    BY <1>0 DEF Reap, TypeOK
  <2>2. curr_op' \in [Threads -> Slots] /\ abs_time_us' \in [Threads -> 0 .. MaxTime]
    BY <1>0 DEF Reap, TypeOK
  <2> QED
    BY <1>0, <1>1, <2>1, <2>2 DEF TypeOK, ClockInv, Times, Record
<1>3. (StampInv(t) /\ RoomInv(t) /\ StragglerInv(t) /\ RateInv(t))'
  <2>1. StampInv(t)'
    BY <1>0, <1>1 DEF StampInv, TypeOK, ClockInv
  <2>2. RoomInv(t)' /\ StragglerInv(t)'
    BY <1>0, <1>1 DEF RoomInv, StragglerInv
  <2>3. RateInv(t)'
    BY <1>0, <1>1 DEF RateInv, Limit
  <2> QED
    BY <2>1, <2>2, <2>3
<1>4. \A u \in Threads \ {t} : (StampInv(u) /\ RoomInv(u) /\ StragglerInv(u) /\ RateInv(u))'
  BY <1>1, OtherWorkers
<1>5. ThroughputHeld'
  BY <1>1, SameLog
<1> QED
  BY <1>2, <1>3, <1>4, <1>5 DEF IInv

(* The flag is read.                                                        *)
LEMMA CheckRecordStep ==
  ASSUME IInv, NEW t \in Threads, CheckRecord(t)
  PROVE  IInv'
<1>0. /\ TypeOK /\ ClockInv
      /\ StampInv(t) /\ RoomInv(t) /\ StragglerInv(t) /\ RateInv(t)
  BY DEF IInv
<1> USE DEF options, jobVars, opVars, resultVars
<1>1. /\ UNCHANGED <<options, now, jobVars, process, throttled, opVars, resultVars, log_at_stop>>
      /\ pc[t] = "stamped" /\ pc'[t] = (IF record_results THEN "record" ELSE "requeue")
      /\ \A u \in Threads \ {t} : pc'[u] = pc[u]
  BY <1>0 DEF CheckRecord, TypeOK
<1>2. TypeOK' /\ ClockInv'
  <2>1. pc' \in [Threads -> {"test", "wait", "stamped", "record", "requeue", "dead"}]
    BY <1>0 DEF CheckRecord, TypeOK
  <2> QED
    BY <1>0, <1>1, <2>1 DEF TypeOK, ClockInv, Times, Record
<1>3. (StampInv(t) /\ RoomInv(t) /\ StragglerInv(t) /\ RateInv(t))'
  <2>1. StampInv(t)' /\ RateInv(t)'
    BY <1>0, <1>1 DEF StampInv, RateInv, Limit
  <2>2. RoomInv(t)' /\ StragglerInv(t)'
    BY <1>0, <1>1 DEF RoomInv, StragglerInv, ClockInv, Before, After
  <2> QED
    BY <2>1, <2>2
<1>4. \A u \in Threads \ {t} : (StampInv(u) /\ RoomInv(u) /\ StragglerInv(u) /\ RateInv(u))'
  BY <1>1, OtherWorkers
<1>5. ThroughputHeld'
  BY <1>1, SameLog
<1> QED
  BY <1>2, <1>3, <1>4, <1>5 DEF IInv

(* The operation goes off again.                                            *)
LEMMA RequeueStep ==
  ASSUME IInv, NEW t \in Threads, Requeue(t)
  PROVE  IInv'
<1>0. /\ TypeOK /\ ClockInv
      /\ StampInv(t) /\ RoomInv(t) /\ StragglerInv(t) /\ RateInv(t)
  BY DEF IInv
<1> USE DEF options, jobVars, opVars, resultVars
<1>1. PICK ty \in Type : type' = [type EXCEPT ![t][curr_op[t]] = ty]
  BY DEF Requeue
<1>2. /\ UNCHANGED <<options, now, jobVars, process, resultVars, log_at_stop>>
      /\ pc[t] = "requeue" /\ pc'[t] = "test" /\ abs_time_us'[t] = 0 /\ ~throttled'[t]
      /\ \A o \in Slots : submitted'[t][o] \in {now, submitted[t][o]}
      /\ \A u \in Threads \ {t} :
           /\ pc'[u] = pc[u] /\ curr_op'[u] = curr_op[u] /\ abs_time_us'[u] = abs_time_us[u]
           /\ throttled'[u] = throttled[u] /\ submitted'[u] = submitted[u]
  BY <1>0 DEF Requeue, TypeOK
<1>3. TypeOK' /\ ClockInv'
  <2>1. pc' \in [Threads -> {"test", "wait", "stamped", "record", "requeue", "dead"}]
    BY <1>0 DEF Requeue, TypeOK
  <2>2. curr_op' \in [Threads -> Slots] /\ abs_time_us' \in [Threads -> 0 .. MaxTime]
    <3>1. NoOp \in Slots
      BY Numbers DEF Targets, Slots, NoOp
    <3> QED
      BY <1>0, <3>1, Numbers DEF Requeue, TypeOK
  <2>3. time' \in [Threads -> [Slots -> Times]]
    <3>1. abs_time_us[t] \in Times
      BY <1>0, Numbers DEF TypeOK, Times
    <3> QED
      BY <1>0, <3>1 DEF Requeue, TypeOK
  <2>4. type' \in [Threads -> [Slots -> Type]]
    BY <1>0, <1>1 DEF TypeOK
  <2>5. submitted' \in [Threads -> [Slots -> 0 .. MaxTime]] /\ throttled' \in [Threads -> BOOLEAN]
    BY <1>0 DEF Requeue, TypeOK
  <2> QED
    BY <1>0, <1>2, <2>1, <2>2, <2>3, <2>4, <2>5 DEF TypeOK, ClockInv, Times, Record
<1>4. (StampInv(t) /\ RoomInv(t) /\ StragglerInv(t) /\ RateInv(t))'
  <2>1. StampInv(t)'
    <3>1. now \in Nat /\ now' = now /\ abs_time_us'[t] <= now'
      BY <1>0, <1>2 DEF TypeOK
    <3>2. ASSUME NEW o \in Slots PROVE submitted'[t][o] <= now'
      <4>1. submitted[t][o] <= now /\ submitted'[t][o] \in {now, submitted[t][o]}
        BY <1>0, <1>2 DEF StampInv
      <4> QED
        BY <3>1, <4>1
    <3> QED
      BY <1>2, <3>1, <3>2 DEF StampInv
  <2>2. RoomInv(t)' /\ StragglerInv(t)'
    BY <1>0, <1>2 DEF RoomInv, StragglerInv
  <2>3. RateInv(t)'
    BY <1>0, <1>2 DEF RateInv
  <2> QED
    BY <2>1, <2>2, <2>3
<1>5. \A u \in Threads \ {t} : (StampInv(u) /\ RoomInv(u) /\ StragglerInv(u) /\ RateInv(u))'
  BY <1>2, OtherWorkers
<1>6. ThroughputHeld'
  BY <1>2, SameLog
<1> QED
  BY <1>3, <1>4, <1>5, <1>6 DEF IInv


(* What a worker records of the operation in hand is a record, made at its  *)
(* stamp.                                                                   *)
LEMMA EntryIsRecord ==
  ASSUME TypeOK, NEW t \in Threads, submitted[t][curr_op[t]] <= abs_time_us[t]
  PROVE  Entry(t) \in Record /\ Entry(t).stamp = abs_time_us[t] /\ Entry(t).throttled = throttled[t]
<1>1. PICK o \in Slots : o = curr_op[t]
  BY DEF TypeOK
<1>2. o[1] \in Targets /\ type[t][o] \in Type /\ throttled[t] \in BOOLEAN
  BY <1>1 DEF TypeOK, Slots
<1>3. PICK m \in Nat \ {0}, top \in Nat : m = TimeMod /\ top = MaxTime /\ top < m
  BY Numbers
<1>4. PICK a \in 0 .. top, s \in 0 .. top, start \in 0 .. top, set \in 0 .. m - 1 :
        /\ a = abs_time_us[t] /\ s = submitted[t][o] /\ start = start_time_us /\ set = time[t][o]
        /\ s <= a
  <2>1. abs_time_us[t] \in 0 .. MaxTime /\ start_time_us \in 0 .. MaxTime
    BY DEF TypeOK
  <2>2. submitted[t][o] \in 0 .. MaxTime
    BY DEF TypeOK
  <2>3. time[t][o] \in Times
    BY DEF TypeOK
  <2> QED
    BY <1>1, <1>3, <2>1, <2>2, <2>3 DEF Times
<1>5. a \in 0 .. m - 1 /\ a - s \in 0 .. m - 1
  BY <1>3, <1>4
<1>6. (a - start) % m \in 0 .. m - 1 /\ (a - set) % m \in 0 .. m - 1
  BY <1>3, <1>4
<1>7. Entry(t) = [stamp |-> a, since |-> (a - start) % m, latency |-> (a - set) % m,
                  took |-> a - s, target |-> o[1], type |-> type[t][o],
                  fresh |-> s = 0, throttled |-> throttled[t]]
  BY <1>1, <1>3, <1>4 DEF Entry, Since, Latency, Wrap
<1>8. Times = 0 .. m - 1
  BY <1>3 DEF Times
<1> HIDE DEF Entry
<1>9. (s = 0) \in BOOLEAN
  OBVIOUS
<1>10. Entry(t) \in Record
  BY <1>2, <1>5, <1>6, <1>7, <1>8, <1>9 DEF Record
<1> QED
  BY <1>4, <1>7, <1>10

(* The operation is recorded, or the bucketizer cannot grow.                *)
LEMMA RecordStep ==
  ASSUME IInv, NEW t \in Threads, RecordOp(t)
  PROVE  IInv'
<1>0. /\ TypeOK /\ ClockInv
      /\ StampInv(t) /\ RoomInv(t) /\ StragglerInv(t) /\ RateInv(t)
  BY DEF IInv
<1> USE DEF options, jobVars, opVars
<1>1. /\ UNCHANGED <<options, now, jobVars, throttled, opVars, log_at_stop>>
      /\ pc[t] = "record"
  BY DEF RecordOp
<1>2. CASE measure_iops_std_dev /\ Bucket(t) > MaxBuckets
  <2>1. process' = "terminated" /\ UNCHANGED <<pc, thread_bytes_count, log>>
    BY <1>2 DEF RecordOp, resultVars
  <2>2. TypeOK' /\ ClockInv'
    BY <1>0, <1>1, <2>1 DEF TypeOK, ClockInv, Times, Record
  <2>3. (StampInv(t) /\ RoomInv(t) /\ StragglerInv(t) /\ RateInv(t))'
    BY <1>0, <1>1, <2>1 DEF StampInv, RoomInv, StragglerInv, RateInv, Limit
  <2>4. \A u \in Threads \ {t} : (StampInv(u) /\ RoomInv(u) /\ StragglerInv(u) /\ RateInv(u))'
    BY <1>1, <2>1, OtherWorkers
  <2>5. ThroughputHeld'
    BY <1>1, <2>1, SameLog
  <2> QED
    BY <2>2, <2>3, <2>4, <2>5 DEF IInv
<1>3. CASE ~(measure_iops_std_dev /\ Bucket(t) > MaxBuckets)
  <2>1. /\ thread_bytes_count' = [thread_bytes_count EXCEPT ![t] = @ + BlockSize]
        /\ log' = [log EXCEPT ![t] = Append(@, Entry(t))]
        /\ pc' = [pc EXCEPT ![t] = "requeue"]
        /\ UNCHANGED process
    BY <1>3 DEF RecordOp
  <2>2. Entry(t) \in Record /\ Entry(t).stamp = abs_time_us[t] /\ Entry(t).throttled = throttled[t]
    BY <1>0, <1>1, EntryIsRecord DEF StampInv
  <2>3. PICK e \in Record : e = Entry(t)
    BY <2>2
  <2>4. log[t] \in Seq(Record) /\ Len(log[t]) \in Nat
    BY <1>0 DEF TypeOK
  <2>5. /\ log'[t] = Append(log[t], e)
        /\ thread_bytes_count'[t] = thread_bytes_count[t] + BlockSize
        /\ pc'[t] = "requeue"
        /\ \A u \in Threads \ {t} :
             log'[u] = log[u] /\ pc'[u] = pc[u] /\ thread_bytes_count'[u] = thread_bytes_count[u]
    BY <1>0, <2>1, <2>3 DEF TypeOK
  <2>6. /\ log'[t] \in Seq(Record) /\ Len(log'[t]) = Len(log[t]) + 1
        /\ Len(log'[t]) <= MaxRecords
    BY <1>0, <1>1, <2>3, <2>4, <2>5, Numbers DEF RoomInv
  <2>7. TypeOK' /\ ClockInv'
    <3>1. pc' \in [Threads -> {"test", "wait", "stamped", "record", "requeue", "dead"}]
      BY <1>0, <2>1 DEF TypeOK
    <3>2. thread_bytes_count' \in [Threads -> Nat]
      BY <1>0, <2>1, Numbers DEF TypeOK
    <3>3. log' \in [Threads -> Seq(Record)]
      BY <1>0, <2>1, <2>3, <2>5, <2>6 DEF TypeOK
    <3>4. \A u \in Threads : Len(log'[u]) <= MaxRecords
      BY <1>0, <2>5, <2>6 DEF TypeOK
    <3> QED
      BY <1>0, <1>1, <2>1, <3>1, <3>2, <3>3, <3>4 DEF TypeOK, ClockInv, Times
  <2>8. PICK n \in Nat, k \in Nat : n = Len(log[t]) /\ k = BlockSize
    BY <2>4, Numbers
  <2>9. (StampInv(t) /\ RoomInv(t) /\ StragglerInv(t) /\ RateInv(t))'
    <3>1. StampInv(t)'
      BY <1>0, <1>1, <2>5 DEF StampInv
    <3>2. RoomInv(t)'
      BY <1>0, <1>1, <2>5 DEF RoomInv
    <3>3. StragglerInv(t)'
      <4>1. log_at_stop[t] \in Nat
        BY <1>0, Numbers DEF TypeOK
      <4> QED
        BY <1>0, <1>1, <2>5, <2>6, <2>8, <4>1 DEF StragglerInv
    <3>4. RateInv(t)'
      <4>1. k * (n + 1) = k * n + k
        BY <2>8
      <4> QED
        BY <1>0, <2>5, <2>6, <2>8, <4>1 DEF RateInv
    <3> QED
      BY <3>1, <3>2, <3>3, <3>4
  <2>10. \A u \in Threads \ {t} : (StampInv(u) /\ RoomInv(u) /\ StragglerInv(u) /\ RateInv(u))'
    BY <1>1, <2>5, OtherWorkers
  <2>11. ThroughputHeld'
    <3>1. ASSUME NEW u \in Threads, NEW i \in DOMAIN log'[u], log'[u][i].throttled
          PROVE  BlockSize * i < Limit(log'[u][i].stamp) + BlockSize
      <4>1. CASE u # t \/ i # n + 1
        <5>1. i \in DOMAIN log[u] /\ log'[u][i] = log[u][i]
          <6>1. CASE u # t
            BY <2>5, <2>6, <3>1, <6>1
          <6>2. CASE u = t /\ i # n + 1
            BY <2>3, <2>4, <2>5, <2>6, <2>8, <3>1, <6>2
          <6> QED
            BY <4>1, <6>1, <6>2
        <5> QED
          BY <3>1, <5>1 DEF IInv, ThroughputHeld, Limit
      <4>2. CASE u = t /\ i = n + 1
        <5>1. log'[u][i] = e
          BY <2>4, <2>5, <2>8, <4>2
        <5>2. k * n < Limit(abs_time_us[t])
          BY <1>0, <1>1, <2>2, <2>3, <2>8, <3>1, <5>1 DEF RateInv
        <5>3. PICK l \in Int : l = Limit(abs_time_us[t])
          <6>1. abs_time_us[t] \in Nat /\ start_time_us \in Nat
            BY <1>0, Numbers DEF TypeOK
          <6> QED
            BY <6>1, LimitGrows
        <5>4. k * (n + 1) < l + k
          BY <2>8, <5>2, <5>3
        <5> QED
          BY <2>2, <2>3, <2>8, <4>2, <5>1, <5>3, <5>4
      <4> QED
        BY <4>1, <4>2
    <3> QED
      BY <1>1, <3>1 DEF ThroughputHeld, Limit
  <2> QED
    BY <2>7, <2>9, <2>10, <2>11 DEF IInv
<1> QED
  BY <1>2, <1>3

(* Every step.                                                              *)
LEMMA Invariance == IInv /\ [Next]_vars => IInv'
<1> SUFFICES ASSUME IInv, [Next]_vars PROVE IInv'
  OBVIOUS
<1>1. CASE Tick
  BY <1>1, TickStep
<1>2. CASE GetStartTime \/ StartRecording \/ StopRecording \/ StopThreads
  BY <1>2, JobStep
<1>3. ASSUME NEW t \in Threads, LoopTest(t) \/ CheckRecord(t) \/ RecordOp(t) \/ Requeue(t)
      PROVE  IInv'
  BY <1>3, LoopTestStep, CheckRecordStep, RecordStep, RequeueStep
<1>4. ASSUME NEW t \in Threads, NEW o \in Slots, Reap(t, o) PROVE IInv'
  BY <1>4, ReapStep
<1>5. CASE UNCHANGED vars
  <2>1. UNCHANGED <<measure_latency, measure_iops_std_dev, now, job_pc, start_time_us, deadline,
                    record_results, run_threads, process, pc, curr_op, abs_time_us, time, type,
                    submitted, throttled, thread_bytes_count, log, log_at_stop>>
    BY <1>5 DEF vars, options, jobVars, opVars, resultVars
  <2>2. TypeOK' /\ ClockInv'
    BY <2>1 DEF IInv, TypeOK, ClockInv, Times, Record
  <2>3. \A t \in Threads : (StampInv(t) /\ RoomInv(t) /\ StragglerInv(t) /\ RateInv(t))'
    BY <2>1 DEF IInv, StampInv, RoomInv, StragglerInv, RateInv, Limit
  <2>4. ThroughputHeld'
    BY <2>1, SameLog
  <2> QED
    BY <2>2, <2>3, <2>4 DEF IInv
<1> QED
  BY <1>1, <1>2, <1>3, <1>4, <1>5 DEF Next, Terminated

-----------------------------------------------------------------------------
(***************************************************************************)
(* Theorems.                                                               *)
(***************************************************************************)

(* The invariant holds throughout.                                          *)
LEMMA Invariant == SafetySpec => []IInv
BY InitIInv, Invariance, PTL DEF SafetySpec

(* thread.cc, job.cc: every time the worker computes is one a uint64_t      *)
(* holds, what was uninitialized included.                                  *)
THEOREM TypeCorrect == SafetySpec => []TypeOK
<1>1. IInv => TypeOK
  BY DEF IInv
<1> QED
  BY <1>1, Invariant, PTL

(* thread.cc:260-290, job.cc: nothing keeps the flag a worker has read from *)
(* being reset, and yet it records at most one more operation, whatever the *)
(* number of workers and operations in flight.                              *)
THEOREM OneLate == SafetySpec => []OneStraggler
<1>1. IInv => OneStraggler
  <2> SUFFICES ASSUME IInv, NEW t \in Threads, job_pc \in After
               PROVE  Len(log[t]) <= log_at_stop[t] + 1
    BY DEF OneStraggler, After
  <2>1. Len(log[t]) \in Nat /\ log_at_stop[t] \in Nat
    BY Numbers DEF IInv, TypeOK
  <2>2. Len(log[t]) <= log_at_stop[t] + (IF pc[t] = "record" THEN 0 ELSE 1)
    BY DEF IInv, StragglerInv
  <2> QED
    BY <2>1, <2>2
<1> QED
  BY <1>1, Invariant, PTL

(* thread.cc:131: the throttle keeps a worker within -g but for the         *)
(* operation it is at, for every block size, throughput and clock.          *)
THEOREM Throttled == SafetySpec => []ThroughputHeld
<1>1. IInv => ThroughputHeld
  BY DEF IInv
<1> QED
  BY <1>1, Invariant, PTL


-----------------------------------------------------------------------------
(***************************************************************************)
(* The results: every counter is the number of records of its kind.        *)
(***************************************************************************)

(* The records of a direction of a target, with a latency, in a bucket.     *)
Late(t, j, ty, v)  == {i \in Logged(t, j, ty) : log[t][i].latency = v}
Timed(t, j, ty, b) == {i \in Logged(t, j, ty) : ToMs(log[t][i].since) \div BucketMs = b - 1}

(* What the results are made of.                                            *)
Shape ==
  /\ DOMAIN results = Threads
  /\ \A t \in Threads : DOMAIN results[t] = Targets
  /\ \A t \in Threads, j \in Targets :
       DOMAIN results[t][j] = {"bytes_count", "iops_count", "READ", "WRITE"}
  /\ \A t \in Threads, j \in Targets, ty \in Type :
       DOMAIN results[t][j][ty].bucketizer = {"duration", "valid", "buckets"}

(* The time of an operation is taken before it is submitted again, so its   *)
(* latency is no less than it took.                                         *)
LatencyInv(t) ==
  /\ \A o \in Slots : submitted[t][o] # 0 => time[t][o] <= submitted[t][o]
  /\ \A i \in DOMAIN log[t] : ~log[t][i].fresh => log[t][i].latency >= log[t][i].took

TotalsInv(t, j) ==
  /\ results[t][j].iops_count = results[t][j].READ.iops + results[t][j].WRITE.iops
  /\ results[t][j].bytes_count = results[t][j].READ.bytes + results[t][j].WRITE.bytes

(* A latency or a bucket that has no counter yet has no records.            *)
HistogramInv(h, t, j, ty) ==
  /\ h.samples = Cardinality(Logged(t, j, ty)) % CountMod
  /\ DOMAIN h.data \subseteq Times
  /\ \A v \in Times : CountOf(h, v) = Cardinality(Late(t, j, ty, v)) % CountMod

BucketsInv(b, t, j, ty) ==
  /\ b.duration = BucketMs /\ b.valid = ValidBuckets
  /\ b.buckets \in Seq(Nat)
  /\ \A n \in Nat \ {0} : GetIoBucket(b, n) = Cardinality(Timed(t, j, ty, n)) % CountMod

CountsInv(t, j, ty) ==
  LET r == results[t][j][ty]
  IN  /\ r.iops = Cardinality(Logged(t, j, ty))
      /\ r.bytes = BlockSize * Cardinality(Logged(t, j, ty))
      /\ measure_latency => HistogramInv(r.histogram, t, j, ty)
      /\ IF measure_iops_std_dev THEN BucketsInv(r.bucketizer, t, j, ty)
         ELSE r.bucketizer.buckets = <<>>

RInv ==
  /\ Shape
  /\ \A t \in Threads : LatencyInv(t)
  /\ \A t \in Threads, j \in Targets : TotalsInv(t, j)
  /\ \A t \in Threads, j \in Targets, ty \in Type : CountsInv(t, j, ty)

-----------------------------------------------------------------------------
(* To count one more, reduced or not.                                       *)
LEMMA OneMore ==
  ASSUME NEW m \in Nat \ {0}, NEW c \in Nat
  PROVE  /\ ((c % m) + 1) % m = (c + 1) % m
         /\ (c % m) % m = c % m
         /\ ((c % m) + 0) % m = c % m
         /\ c % m \in Nat
<1>1. PICK q \in Nat, r \in 0 .. m - 1 : c = m * q + r
  <2>1. c \div m \in Nat /\ c % m \in 0 .. m - 1 /\ c = (m * (c \div m)) + (c % m)
    OBVIOUS
  <2> QED
    BY <2>1
<1>2. c % m = r
  BY <1>1
<1>3. r + 1 < m \/ r + 1 = m
  BY <1>1
<1>4. (c + 1) % m = (r + 1) % m
  <2>1. CASE r + 1 < m
    BY <1>1, <2>1
  <2>2. CASE r + 1 = m
    <3>1. c + 1 = m * (q + 1)
      BY <1>1, <2>2
    <3>2. (m * (q + 1) + 0) % m = 0 /\ (m * 1 + 0) % m = 0
      BY <1>1, Remainder
    <3>3. (c + 1) % m = 0 /\ (r + 1) % m = 0
      BY <1>1, <2>2, <3>1, <3>2
    <3> QED
      BY <3>3
  <2> QED
    BY <1>3, <2>1, <2>2
<1> QED
  BY <1>1, <1>2, <1>4

(* A set of positions grows by the next one.                                *)
LEMMA NextPosition ==
  ASSUME NEW n \in Nat, NEW A \in SUBSET (1 .. n)
  PROVE  /\ Cardinality(A) \in Nat
         /\ Cardinality(A \cup {n + 1}) = Cardinality(A) + 1
<1>1. IsFiniteSet(A)
  BY IntervalCount, FS_Subset
<1>2. n + 1 \notin A
  OBVIOUS
<1> QED
  BY <1>1, <1>2, FS_AddElement, FS_CardinalityType

(* Histogram.h: Add counts the value, and no other.                         *)
LEMMA HistogramCounts ==
  ASSUME NEW h, NEW v
  PROVE  /\ HistogramAdd(h, v).samples = (h.samples + 1) % CountMod
         /\ DOMAIN HistogramAdd(h, v).data = DOMAIN h.data \cup {v}
         /\ CountOf(HistogramAdd(h, v), v) = (CountOf(h, v) + 1) % CountMod
         /\ \A x : x # v => CountOf(HistogramAdd(h, v), x) = CountOf(h, x)
BY DEF HistogramAdd, CountOf

(* IoBucketizer.cc: Add counts the time in its bucket, and in no other,     *)
(* whether the vector has to grow or not.                                   *)
LEMMA BucketCounts ==
  ASSUME NEW b, NEW time_ms \in Nat, DOMAIN b = {"duration", "valid", "buckets"},
         b.duration \in Nat \ {0}, b.buckets \in Seq(Nat),
         \A i \in Nat \ {0} : GetIoBucket(b, i) % CountMod = GetIoBucket(b, i)
  PROVE  LET n == BucketNumber(b, time_ms)
             c == BucketAdd(b, time_ms)
         IN  /\ n \in Nat \ {0}
             /\ DOMAIN c = {"duration", "valid", "buckets"}
             /\ c.duration = b.duration /\ c.valid = b.valid
             /\ c.buckets \in Seq(Nat)
             /\ GetIoBucket(c, n) = (GetIoBucket(b, n) + 1) % CountMod
             /\ \A i \in Nat \ {0} : i # n => GetIoBucket(c, i) = GetIoBucket(b, i)
<1> DEFINE n == BucketNumber(b, time_ms)
           c == BucketAdd(b, time_ms)
           top == Max({Len(b.buckets), n})
<1>1. n \in Nat \ {0}
  BY DEF BucketNumber
<1>2. Len(b.buckets) \in Nat /\ DOMAIN b.buckets = 1 .. Len(b.buckets)
  BY LenProperties
<1> HIDE DEF n
<1>3. top \in Nat /\ top >= Len(b.buckets) /\ top >= n
  BY <1>1, <1>2, MaxOfTwo
<1> HIDE DEF top
<1>4. c = [b EXCEPT !.buckets = [i \in 1 .. top |->
             (GetIoBucket(b, i) + (IF i = n THEN 1 ELSE 0)) % CountMod]]
  BY DEF BucketAdd, n, top
<1> HIDE DEF c
<1>5. /\ DOMAIN c = {"duration", "valid", "buckets"}
      /\ c.duration = b.duration /\ c.valid = b.valid
      /\ c.buckets = [i \in 1 .. top |-> (GetIoBucket(b, i) + (IF i = n THEN 1 ELSE 0)) % CountMod]
  BY <1>4
<1>6. \A i \in Nat \ {0} : GetIoBucket(b, i) \in Nat
  BY <1>2 DEF GetIoBucket
<1>7. CountMod \in Nat \ {0}
  BY StatisticsAssumption DEF StatisticsAssumption
<1>8. c.buckets \in Seq(Nat)
  <2>1. \A i \in 1 .. top : (GetIoBucket(b, i) + (IF i = n THEN 1 ELSE 0)) % CountMod \in Nat
    <3> TAKE i \in 1 .. top
    <3>1. PICK k \in Nat : k = GetIoBucket(b, i) + (IF i = n THEN 1 ELSE 0)
      BY <1>3, <1>6
    <3>2. PICK m \in Nat \ {0} : m = CountMod
      BY <1>7
    <3>3. k % m \in 0 .. m - 1
      BY ModuloBelow
    <3> QED
      BY <3>1, <3>2, <3>3
  <2>2. c.buckets = [i \in 1 .. top |-> (GetIoBucket(b, i) + (IF i = n THEN 1 ELSE 0)) % CountMod]
    BY <1>5
  <2> QED
    BY <1>3, <2>1, <2>2
<1>9. GetIoBucket(c, n) = (GetIoBucket(b, n) + 1) % CountMod
  BY <1>1, <1>3, <1>5 DEF GetIoBucket
<1>10. ASSUME NEW i \in Nat \ {0}, i # n PROVE GetIoBucket(c, i) = GetIoBucket(b, i)
  <2>1. CASE i <= top
    <3>1. GetIoBucket(c, i) = (GetIoBucket(b, i) + 0) % CountMod
      BY <1>3, <1>5, <1>10, <2>1 DEF GetIoBucket
    <3> QED
      BY <1>6, <1>10, <3>1
  <2>2. CASE ~(i <= top)
    <3>1. i \notin 1 .. top /\ i \notin 1 .. Len(b.buckets)
      BY <1>2, <1>3, <2>2
    <3> QED
      BY <1>2, <1>5, <3>1 DEF GetIoBucket
  <2> QED
    BY <2>1, <2>2
<1> QED
  BY <1>1, <1>5, <1>8, <1>9, <1>10 DEF n, c


(* What a new record adds to: the sets of its target, direction, latency    *)
(* and bucket.                                                              *)
LEMMA LogGrows ==
  ASSUME NEW t \in Threads, log[t] \in Seq(Record), NEW e \in Record, log'[t] = Append(log[t], e),
         NEW j, NEW ty
  PROVE  LET n    == Len(log[t])
             mine == e.target = j /\ e.type = ty
         IN  /\ n \in Nat
             /\ Logged(t, j, ty) \subseteq 1 .. n
             /\ Logged(t, j, ty)' = IF mine THEN Logged(t, j, ty) \cup {n + 1} ELSE Logged(t, j, ty)
             /\ \A v : Late(t, j, ty, v)' =
                         IF mine /\ e.latency = v THEN Late(t, j, ty, v) \cup {n + 1}
                         ELSE Late(t, j, ty, v)
             /\ \A b : Timed(t, j, ty, b)' =
                         IF mine /\ ToMs(e.since) \div BucketMs = b - 1
                         THEN Timed(t, j, ty, b) \cup {n + 1} ELSE Timed(t, j, ty, b)
<1> DEFINE n    == Len(log[t])
           mine == e.target = j /\ e.type = ty
<1>1. /\ n \in Nat /\ DOMAIN log[t] = 1 .. n /\ DOMAIN log'[t] = 1 .. n + 1
      /\ log'[t][n + 1] = e
      /\ \A i \in 1 .. n : log'[t][i] = log[t][i]
  BY LenProperties, AppendProperties
<1> HIDE DEF n, mine
<1>2. 1 .. n + 1 = 1 .. n \cup {n + 1} /\ n + 1 \notin 1 .. n
  BY <1>1
<1>3. Logged(t, j, ty) \subseteq 1 .. n
  BY <1>1 DEF Logged
<1>4. Logged(t, j, ty)' = IF mine THEN Logged(t, j, ty) \cup {n + 1} ELSE Logged(t, j, ty)
  <2>1. Logged(t, j, ty)' =
          {i \in 1 .. n \cup {n + 1} : log'[t][i].target = j /\ log'[t][i].type = ty}
    BY <1>1, <1>2 DEF Logged
  <2>2. Logged(t, j, ty) = {i \in 1 .. n : log'[t][i].target = j /\ log'[t][i].type = ty}
    BY <1>1 DEF Logged
  <2>3. mine <=> log'[t][n + 1].target = j /\ log'[t][n + 1].type = ty
    BY <1>1 DEF mine
  <2> QED
    BY <1>2, <2>1, <2>2, <2>3
<1>5. ASSUME NEW v
      PROVE  Late(t, j, ty, v)' = IF mine /\ e.latency = v THEN Late(t, j, ty, v) \cup {n + 1}
                                  ELSE Late(t, j, ty, v)
  <2>1. Late(t, j, ty, v)' = {i \in Logged(t, j, ty)' : log'[t][i].latency = v}
    BY DEF Late
  <2>2. Late(t, j, ty, v) = {i \in Logged(t, j, ty) : log'[t][i].latency = v}
    BY <1>1, <1>3 DEF Late
  <2> QED
    BY <1>1, <1>4, <2>1, <2>2
<1>6. ASSUME NEW b
      PROVE  Timed(t, j, ty, b)' = IF mine /\ ToMs(e.since) \div BucketMs = b - 1
                                   THEN Timed(t, j, ty, b) \cup {n + 1} ELSE Timed(t, j, ty, b)
  <2>1. Timed(t, j, ty, b)' =
          {i \in Logged(t, j, ty)' : ToMs(log'[t][i].since) \div BucketMs = b - 1}
    BY DEF Timed, ToMs
  <2>2. Timed(t, j, ty, b) = {i \in Logged(t, j, ty) : ToMs(log'[t][i].since) \div BucketMs = b - 1}
    BY <1>1, <1>3 DEF Timed
  <2> QED
    BY <1>1, <1>4, <2>1, <2>2
<1> QED
  BY <1>1, <1>3, <1>4, <1>5, <1>6 DEF n, mine

(* ... and not to those of others.                                          *)
LEMMA LogElsewhere ==
  ASSUME NEW t \in Threads, log[t] \in Seq(Record), NEW e \in Record, log'[t] = Append(log[t], e),
         NEW j, NEW ty, ~(e.target = j /\ e.type = ty)
  PROVE  /\ Logged(t, j, ty)' = Logged(t, j, ty)
         /\ \A v : Late(t, j, ty, v)' = Late(t, j, ty, v)
         /\ \A b : Timed(t, j, ty, b)' = Timed(t, j, ty, b)
<1>1. Logged(t, j, ty)' = Logged(t, j, ty)
  <2>1. Logged(t, j, ty)' = IF e.target = j /\ e.type = ty
                            THEN Logged(t, j, ty) \cup {Len(log[t]) + 1} ELSE Logged(t, j, ty)
    BY LogGrows
  <2> QED
    BY <2>1
<1>2. \A i \in Logged(t, j, ty) : log'[t][i] = log[t][i]
  BY LenProperties, AppendProperties DEF Logged
<1>3. \A v : Late(t, j, ty, v)' = Late(t, j, ty, v)
  BY <1>1, <1>2 DEF Late
<1>4. \A b : Timed(t, j, ty, b)' = Timed(t, j, ty, b)
  BY <1>1, <1>2 DEF Timed, ToMs
<1> QED
  BY <1>1, <1>3, <1>4

(* Initially nothing is counted, in the right containers.                   *)
LEMMA InitRInv == Init => RInv
<1> SUFFICES ASSUME Init PROVE RInv
  OBVIOUS
<1> DEFINE none == [bytes_count |-> 0, iops_count |-> 0, READ |-> NoResults, WRITE |-> NoResults]
<1>1. results = [t \in Threads |-> [j \in Targets |-> none]] /\ log = [t \in Threads |-> <<>>]
      /\ submitted = [t \in Threads |-> [o \in Slots |-> 0]]
  BY DEF Init
<1>2. DOMAIN none = {"bytes_count", "iops_count", "READ", "WRITE"}
      /\ none.bytes_count = 0 /\ none.iops_count = 0
      /\ none.READ = NoResults /\ none.WRITE = NoResults
  OBVIOUS
<1> HIDE DEF none
<1>3. \A ty \in Type : none[ty] = NoResults
  BY <1>2 DEF Type
<1>4. /\ NoResults.bytes = 0 /\ NoResults.iops = 0 /\ NoResults.histogram = EmptyHistogram
      /\ NoResults.bucketizer = IF measure_iops_std_dev THEN Initialize(BucketMs, ValidBuckets)
                                ELSE NewBucketizer
  BY DEF NoResults
<1> HIDE DEF NoResults
<1>5. DOMAIN <<>> = {} /\ <<>> \in Seq(Nat)
  OBVIOUS
<1>6. Shape
  <2>1. DOMAIN NoResults.bucketizer = {"duration", "valid", "buckets"}
    BY <1>4 DEF Initialize, NewBucketizer
  <2> QED
    BY <1>1, <1>2, <1>3, <2>1 DEF Shape
<1>7. \A t \in Threads : LatencyInv(t)
  BY <1>1, <1>5 DEF LatencyInv
<1>8. \A t \in Threads, j \in Targets : TotalsInv(t, j)
  BY <1>1, <1>2, <1>4 DEF TotalsInv
<1>9. ASSUME NEW t \in Threads, NEW j \in Targets, NEW ty \in Type PROVE CountsInv(t, j, ty)
  <2>1. Logged(t, j, ty) = {} /\ (\A v : Late(t, j, ty, v) = {}) /\ \A b : Timed(t, j, ty, b) = {}
    BY <1>1, <1>5 DEF Logged, Late, Timed
  <2>2. Cardinality({}) = 0
    BY FS_EmptySet
  <2>3. 0 % CountMod = 0
    BY StatisticsAssumption DEF StatisticsAssumption
  <2>4. results[t][j][ty] = NoResults
    BY <1>1, <1>3
  <2>5. HistogramInv(EmptyHistogram, t, j, ty)
    BY <1>5, <2>1, <2>2, <2>3 DEF HistogramInv, EmptyHistogram, CountOf
  <2>6. BucketsInv(Initialize(BucketMs, ValidBuckets), t, j, ty)
    BY <1>5, <2>1, <2>2, <2>3 DEF BucketsInv, Initialize, GetIoBucket
  <2>7. NewBucketizer.buckets = <<>>
    BY DEF NewBucketizer
  <2>8. BlockSize * 0 = 0
    BY Numbers
  <2> QED
    BY <1>4, <2>1, <2>2, <2>4, <2>5, <2>6, <2>7, <2>8 DEF CountsInv
<1> QED
  BY <1>6, <1>7, <1>8, <1>9 DEF RInv

(* Only RecordOp changes what is counted.                                   *)
LEMMA SameResults ==
  ASSUME RInv, UNCHANGED <<results, log, measure_latency, measure_iops_std_dev>>
  PROVE  /\ Shape'
         /\ \A t \in Threads, j \in Targets : TotalsInv(t, j)'
         /\ \A t \in Threads, j \in Targets, ty \in Type : CountsInv(t, j, ty)'
<1>1. Shape' /\ \A t \in Threads, j \in Targets : TotalsInv(t, j)'
  BY DEF RInv, Shape, TotalsInv
<1>2. ASSUME NEW t \in Threads, NEW j \in Targets, NEW ty \in Type PROVE CountsInv(t, j, ty)'
  <2>1. CountsInv(t, j, ty)
    BY DEF RInv
  <2>2. /\ Logged(t, j, ty)' = Logged(t, j, ty)
        /\ \A v : Late(t, j, ty, v)' = Late(t, j, ty, v)
        /\ \A b : Timed(t, j, ty, b)' = Timed(t, j, ty, b)
    BY DEF Logged, Late, Timed, ToMs
  <2> QED
    BY <2>1, <2>2 DEF CountsInv, HistogramInv, BucketsInv, CountOf, GetIoBucket, Times
<1> QED
  BY <1>1, <1>2


(* The time stamp becomes the time of the operation, which is submitted     *)
(* after it was taken.                                                      *)
LEMMA RequeueKeepsResults ==
  ASSUME IInv, RInv, NEW t \in Threads, Requeue(t)
  PROVE  RInv'
<1>1. UNCHANGED <<results, log, measure_latency, measure_iops_std_dev>>
  BY DEF Requeue, resultVars, options
<1>2. ASSUME NEW u \in Threads PROVE LatencyInv(u)'
  <2>1. LatencyInv(u) /\ TypeOK /\ abs_time_us[t] <= now
    BY DEF RInv, IInv, StampInv
  <2>2. ASSUME NEW o \in Slots, submitted'[u][o] # 0 PROVE time'[u][o] <= submitted'[u][o]
    <3>1. \/ time'[u][o] = abs_time_us[t] /\ submitted'[u][o] = now
          \/ time'[u][o] = time[u][o] /\ submitted'[u][o] = submitted[u][o]
      BY <2>1 DEF Requeue, TypeOK
    <3> QED
      BY <2>1, <2>2, <3>1 DEF LatencyInv
  <2> QED
    BY <1>1, <2>1, <2>2 DEF LatencyInv
<1> QED
  BY <1>1, <1>2, SameResults DEF RInv

(* To set one field of the results of one target.                           *)
LEMMA FieldSet ==
  ASSUME NEW T, NEW J, NEW F, NEW f, NEW g, NEW t \in T, NEW j \in J, NEW k \in F, NEW v,
         DOMAIN f = T, \A u \in T : DOMAIN f[u] = J, \A u \in T, i \in J : DOMAIN f[u][i] = F,
         g = [f EXCEPT ![t][j][k] = v]
  PROVE  /\ DOMAIN g = T /\ \A u \in T : DOMAIN g[u] = J
         /\ \A u \in T, i \in J : DOMAIN g[u][i] = F
         /\ g[t][j][k] = v
         /\ \A x \in F \ {k} : g[t][j][x] = f[t][j][x]
         /\ \A u \in T, i \in J : u # t \/ i # j => g[u][i] = f[u][i]
OBVIOUS

(* A worker that records adds one record to the counters of its target and  *)
(* direction, and to no others.                                             *)
LEMMA RecordKeepsResults ==
  ASSUME IInv, RInv, NEW t \in Threads, RecordOp(t),
         ~(measure_iops_std_dev /\ Bucket(t) > MaxBuckets)
  PROVE  RInv'
<1>1. TypeOK /\ submitted[t][curr_op[t]] <= abs_time_us[t] /\ pc[t] = "record"
  BY DEF IInv, StampInv, RecordOp
<1>2. Entry(t) \in Record
  BY <1>1, EntryIsRecord
<1>3. PICK o \in Slots, ty \in Type, e \in Record :
        o = curr_op[t] /\ ty = type[t][o] /\ e = Entry(t)
  BY <1>1, <1>2 DEF TypeOK
<1>4. /\ e.target = o[1] /\ e.type = ty /\ e.latency = Latency(t) /\ e.since = Since(t)
      /\ e.took = abs_time_us[t] - submitted[t][o] /\ e.fresh = (submitted[t][o] = 0)
  BY <1>3 DEF Entry
<1>5. PICK j \in Targets : j = o[1]
  BY <1>3 DEF Slots
<1>6. /\ UNCHANGED <<measure_latency, measure_iops_std_dev, submitted, time>>
      /\ log' = [log EXCEPT ![t] = Append(@, e)]
      /\ results' = [results EXCEPT ![t][j].bytes_count = @ + BlockSize,
                                    ![t][j].iops_count = @ + 1,
                                    ![t][j][ty] = AddTo(@, t)]
  BY <1>3, <1>5 DEF RecordOp, options, opVars
<1>7. /\ log[t] \in Seq(Record) /\ log'[t] = Append(log[t], e)
      /\ \A u \in Threads \ {t} : log'[u] = log[u]
  BY <1>1, <1>6 DEF TypeOK
<1>8. Shape
  BY DEF RInv
<1> DEFINE old == results[t][j]
           new == AddTo(old[ty], t)
<1>9. /\ DOMAIN results' = Threads
      /\ \A u \in Threads : DOMAIN results'[u] = Targets
      /\ \A u \in Threads, i \in Targets : u # t \/ i # j => results'[u][i] = results[u][i]
      /\ DOMAIN results'[t][j] = {"bytes_count", "iops_count", "READ", "WRITE"}
      /\ results'[t][j].bytes_count = old.bytes_count + BlockSize
      /\ results'[t][j].iops_count = old.iops_count + 1
      /\ results'[t][j][ty] = new
      /\ \A d \in Type \ {ty} : results'[t][j][d] = old[d]
  <2> DEFINE F  == {"bytes_count", "iops_count", "READ", "WRITE"}
             r1 == [results EXCEPT ![t][j]["bytes_count"] = old.bytes_count + BlockSize]
             r2 == [r1 EXCEPT ![t][j]["iops_count"] = old.iops_count + 1]
             r3 == [r2 EXCEPT ![t][j][ty] = new]
  <2>1. /\ DOMAIN results = Threads /\ \A u \in Threads : DOMAIN results[u] = Targets
        /\ \A u \in Threads, i \in Targets : DOMAIN results[u][i] = F
    BY <1>8 DEF Shape
  <2>2. /\ ty \in F /\ ty # "bytes_count" /\ ty # "iops_count"
        /\ "bytes_count" \in F /\ "iops_count" \in F /\ Type \subseteq F
        /\ "bytes_count" \notin Type /\ "iops_count" \notin Type
    BY DEF Type
  <2>3. results' = r3
    BY <1>6, <2>1, <2>2
  <2> HIDE DEF F, new, r3
  <2>4. /\ DOMAIN r1 = Threads /\ \A u \in Threads : DOMAIN r1[u] = Targets
        /\ \A u \in Threads, i \in Targets : DOMAIN r1[u][i] = F
        /\ r1[t][j]["bytes_count"] = old.bytes_count + BlockSize
        /\ \A x \in F \ {"bytes_count"} : r1[t][j][x] = results[t][j][x]
        /\ \A u \in Threads, i \in Targets : u # t \/ i # j => r1[u][i] = results[u][i]
    BY <2>1, <2>2, FieldSet
  <2> HIDE DEF r1
  <2>5. /\ DOMAIN r2 = Threads /\ \A u \in Threads : DOMAIN r2[u] = Targets
        /\ \A u \in Threads, i \in Targets : DOMAIN r2[u][i] = F
        /\ r2[t][j]["iops_count"] = old.iops_count + 1
        /\ \A x \in F \ {"iops_count"} : r2[t][j][x] = r1[t][j][x]
        /\ \A u \in Threads, i \in Targets : u # t \/ i # j => r2[u][i] = r1[u][i]
    BY <2>2, <2>4, FieldSet
  <2> HIDE DEF r2
  <2>6. /\ DOMAIN r3 = Threads /\ \A u \in Threads : DOMAIN r3[u] = Targets
        /\ \A u \in Threads, i \in Targets : DOMAIN r3[u][i] = F
        /\ r3[t][j][ty] = new
        /\ \A x \in F \ {ty} : r3[t][j][x] = r2[t][j][x]
        /\ \A u \in Threads, i \in Targets : u # t \/ i # j => r3[u][i] = r2[u][i]
    BY <2>2, <2>5, FieldSet DEF r3
  <2> QED
    BY <2>2, <2>3, <2>4, <2>5, <2>6 DEF F
<1>10. PICK r, q :
         /\ r = results[t][j][ty] /\ q = results'[t][j][ty]
         /\ q.bytes = r.bytes + BlockSize /\ q.iops = r.iops + 1
         /\ q.histogram = IF measure_latency THEN HistogramAdd(r.histogram, e.latency)
                          ELSE r.histogram
         /\ q.bucketizer = IF measure_iops_std_dev THEN BucketAdd(r.bucketizer, ToMs(e.since))
                           ELSE r.bucketizer
  BY <1>4, <1>9 DEF AddTo
<1> HIDE DEF new, old
<1>11. PICK n \in Nat, m \in Nat \ {0} : n = Len(log[t]) /\ m = CountMod
  BY <1>7, LenProperties, StatisticsAssumption DEF StatisticsAssumption
<1>12. /\ Logged(t, j, ty) \subseteq 1 .. n
       /\ Logged(t, j, ty)' = Logged(t, j, ty) \cup {n + 1}
       /\ \A v : Late(t, j, ty, v)' = IF e.latency = v THEN Late(t, j, ty, v) \cup {n + 1}
                                     ELSE Late(t, j, ty, v)
       /\ \A b : Timed(t, j, ty, b)' = IF ToMs(e.since) \div BucketMs = b - 1
                                      THEN Timed(t, j, ty, b) \cup {n + 1} ELSE Timed(t, j, ty, b)
  <2>1. e.target = j /\ e.type = ty
    BY <1>4, <1>5
  <2>2. LET len  == Len(log[t])
            mine == e.target = j /\ e.type = ty
        IN  /\ Logged(t, j, ty) \subseteq 1 .. len
            /\ Logged(t, j, ty)' =
                 IF mine THEN Logged(t, j, ty) \cup {len + 1} ELSE Logged(t, j, ty)
            /\ \A v : Late(t, j, ty, v)' =
                        IF mine /\ e.latency = v THEN Late(t, j, ty, v) \cup {len + 1}
                        ELSE Late(t, j, ty, v)
            /\ \A b : Timed(t, j, ty, b)' =
                        IF mine /\ ToMs(e.since) \div BucketMs = b - 1
                        THEN Timed(t, j, ty, b) \cup {len + 1} ELSE Timed(t, j, ty, b)
    BY <1>7, LogGrows
  <2> QED
    BY <1>11, <2>1, <2>2
<1>13. PICK c \in Nat : c = Cardinality(Logged(t, j, ty)) /\ Cardinality(Logged(t, j, ty)') = c + 1
  BY <1>12, NextPosition
<1>14. CountsInv(t, j, ty)
  BY DEF RInv
<1>15. ASSUME measure_latency PROVE HistogramInv(q.histogram, t, j, ty)'
  <2>0. PICK h, g : h = r.histogram /\ g = q.histogram /\ g = HistogramAdd(h, e.latency)
    BY <1>10, <1>15
  <2>1. HistogramInv(h, t, j, ty)
    BY <1>10, <1>14, <1>15, <2>0 DEF CountsInv
  <2>2. g.samples = (c + 1) % m
    <3>1. g.samples = ((c % m) + 1) % m
      BY <1>11, <1>13, <2>0, <2>1, HistogramCounts DEF HistogramInv
    <3> QED
      BY <3>1, OneMore
  <2>3. e.latency \in Times
    BY <1>3 DEF Record
  <2>4. DOMAIN g.data \subseteq Times
    BY <2>0, <2>1, <2>3, HistogramCounts DEF HistogramInv
  <2>5. ASSUME NEW v \in Times PROVE CountOf(g, v) = Cardinality(Late(t, j, ty, v)') % m
    <3>1. CountOf(h, v) = Cardinality(Late(t, j, ty, v)) % m /\ Late(t, j, ty, v) \subseteq 1 .. n
      BY <1>11, <1>12, <2>1 DEF HistogramInv, Late
    <3>2. CASE e.latency = v
      <4>1. PICK k \in Nat : /\ k = Cardinality(Late(t, j, ty, v))
                             /\ Cardinality(Late(t, j, ty, v)') = k + 1
        BY <1>12, <3>1, <3>2, NextPosition
      <4>2. CountOf(g, v) = ((k % m) + 1) % m
        BY <1>11, <2>0, <3>1, <3>2, <4>1, HistogramCounts
      <4> QED
        BY <4>1, <4>2, OneMore
    <3>3. CASE e.latency # v
      <4>1. CountOf(g, v) = CountOf(h, v)
        BY <2>0, <3>3, HistogramCounts
      <4> QED
        BY <1>12, <3>1, <3>3, <4>1
    <3> QED
      BY <3>2, <3>3
  <2> QED
    BY <1>11, <1>13, <2>0, <2>2, <2>4, <2>5 DEF HistogramInv, Times, CountOf
<1>16. ASSUME measure_iops_std_dev PROVE BucketsInv(q.bucketizer, t, j, ty)'
  <2>0. PICK b, g : b = r.bucketizer /\ g = q.bucketizer /\ g = BucketAdd(b, ToMs(e.since))
    BY <1>10, <1>16
  <2>1. BucketsInv(b, t, j, ty) /\ DOMAIN b = {"duration", "valid", "buckets"}
    BY <1>8, <1>10, <1>14, <1>16, <2>0 DEF CountsInv, Shape
  <2>2. PICK ms \in Nat : ms = ToMs(e.since)
    <3>1. e.since \in Nat
      BY <1>3, Numbers DEF Record, Times
    <3> QED
      BY <3>1, Numbers, QuotientGrows DEF ToMs
  <2>3. ASSUME NEW i \in Nat \ {0}
        PROVE  /\ GetIoBucket(b, i) = Cardinality(Timed(t, j, ty, i)) % m
               /\ Timed(t, j, ty, i) \subseteq 1 .. n
               /\ Cardinality(Timed(t, j, ty, i)) \in Nat
    <3>1. Timed(t, j, ty, i) \subseteq 1 .. n
      BY <1>12 DEF Timed
    <3> QED
      BY <1>11, <2>1, <3>1, NextPosition DEF BucketsInv
  <2>4. \A i \in Nat \ {0} : GetIoBucket(b, i) % CountMod = GetIoBucket(b, i)
    <3> TAKE i \in Nat \ {0}
    <3>1. PICK k \in Nat : GetIoBucket(b, i) = k % m
      BY <2>3
    <3> QED
      BY <1>11, <3>1, OneMore
  <2>5. b.duration \in Nat \ {0} /\ b.duration = BucketMs /\ b.buckets \in Seq(Nat)
    BY <2>1, Numbers DEF BucketsInv
  <2>6. PICK p \in Nat \ {0} :
          /\ p = ms \div BucketMs + 1
          /\ g.duration = b.duration /\ g.valid = b.valid /\ g.buckets \in Seq(Nat)
          /\ GetIoBucket(g, p) = (GetIoBucket(b, p) + 1) % m
          /\ \A i \in Nat \ {0} : i # p => GetIoBucket(g, i) = GetIoBucket(b, i)
    <3>1. LET p == BucketNumber(b, ms)
              d == BucketAdd(b, ms)
          IN  /\ p \in Nat \ {0}
              /\ d.duration = b.duration /\ d.valid = b.valid /\ d.buckets \in Seq(Nat)
              /\ GetIoBucket(d, p) = (GetIoBucket(b, p) + 1) % CountMod
              /\ \A i \in Nat \ {0} : i # p => GetIoBucket(d, i) = GetIoBucket(b, i)
      BY <2>1, <2>4, <2>5, BucketCounts
    <3>2. BucketNumber(b, ms) = ms \div BucketMs + 1
      BY <2>5 DEF BucketNumber
    <3> QED
      BY <1>11, <2>0, <2>2, <3>1, <3>2
  <2>7. ASSUME NEW i \in Nat \ {0} PROVE GetIoBucket(g, i) = Cardinality(Timed(t, j, ty, i)') % m
    <3>1. ms \div BucketMs \in Nat
      BY Numbers, QuotientGrows
    <3>2. CASE i = p
      <4>1. Timed(t, j, ty, i)' = Timed(t, j, ty, i) \cup {n + 1}
        <5>1. ToMs(e.since) \div BucketMs = i - 1
          BY <2>2, <2>6, <3>1, <3>2
        <5> QED
          BY <1>12, <5>1
      <4>2. PICK k \in Nat : /\ k = Cardinality(Timed(t, j, ty, i))
                             /\ Cardinality(Timed(t, j, ty, i)') = k + 1
        <5>1. Cardinality(Timed(t, j, ty, i) \cup {n + 1}) = Cardinality(Timed(t, j, ty, i)) + 1
          BY <2>3, NextPosition
        <5> QED
          BY <2>3, <4>1, <5>1
      <4>3. GetIoBucket(g, i) = ((k % m) + 1) % m
        BY <2>3, <2>6, <3>2, <4>2
      <4> QED
        BY <4>2, <4>3, OneMore
    <3>3. CASE i # p
      <4>1. Timed(t, j, ty, i)' = Timed(t, j, ty, i)
        BY <1>12, <2>2, <2>6, <3>1, <3>3
      <4> QED
        BY <2>3, <2>6, <3>3, <4>1
    <3> QED
      BY <3>2, <3>3
  <2>8. g.valid = ValidBuckets /\ ValidBuckets' = ValidBuckets
    BY <2>1, <2>6 DEF BucketsInv, ValidBuckets, CeilDiv
  <2> QED
    BY <1>11, <2>0, <2>5, <2>6, <2>7, <2>8 DEF BucketsInv, GetIoBucket
<1>17. CountsInv(t, j, ty)'
  <2>1. r.iops = c /\ r.bytes = BlockSize * c
    BY <1>10, <1>13, <1>14 DEF CountsInv
  <2>2. PICK k \in Nat : k = BlockSize /\ k * (c + 1) = k * c + k
    BY Numbers
  <2>3. q.iops = c + 1 /\ q.bytes = BlockSize * (c + 1)
    BY <1>10, <2>1, <2>2
  <2>4. ~measure_iops_std_dev => q.bucketizer.buckets = <<>>
    BY <1>10, <1>14 DEF CountsInv
  <2> QED
    BY <1>6, <1>10, <1>13, <1>15, <1>16, <2>3, <2>4 DEF CountsInv
<1>18. ASSUME NEW u \in Threads, NEW i \in Targets, NEW d \in Type, u # t \/ i # j \/ d # ty
       PROVE  /\ results'[u][i][d] = results[u][i][d]
              /\ CountsInv(u, i, d)'
  <2>1. results'[u][i][d] = results[u][i][d]
    BY <1>9, <1>18 DEF old
  <2>2. /\ Logged(u, i, d)' = Logged(u, i, d)
        /\ \A v : Late(u, i, d, v)' = Late(u, i, d, v)
        /\ \A b : Timed(u, i, d, b)' = Timed(u, i, d, b)
    <3>1. CASE u # t
      BY <1>7, <3>1 DEF Logged, Late, Timed, ToMs
    <3>2. CASE u = t
      <4>1. ~(e.target = i /\ e.type = d)
        BY <1>4, <1>5, <1>18, <3>2
      <4>2. /\ Logged(t, i, d)' = Logged(t, i, d)
            /\ \A v : Late(t, i, d, v)' = Late(t, i, d, v)
            /\ \A b : Timed(t, i, d, b)' = Timed(t, i, d, b)
        BY <1>7, <4>1, LogElsewhere
      <4> QED
        BY <3>2, <4>1, <4>2
    <3> QED
      BY <3>1, <3>2
  <2>3. CountsInv(u, i, d)
    BY DEF RInv
  <2> QED
    BY <1>6, <2>1, <2>2, <2>3
    DEF CountsInv, HistogramInv, BucketsInv, CountOf, GetIoBucket, Times
<1>19. Shape'
  <2>1. DOMAIN q.bucketizer = {"duration", "valid", "buckets"}
    BY <1>8, <1>10 DEF Shape, BucketAdd
  <2>2. ASSUME NEW u \in Threads, NEW i \in Targets, NEW d \in Type
        PROVE  DOMAIN results'[u][i][d].bucketizer = {"duration", "valid", "buckets"}
    BY <1>8, <1>10, <1>18, <2>1 DEF Shape
  <2> QED
    BY <1>8, <1>9, <2>2 DEF Shape
<1>20. ASSUME NEW u \in Threads, NEW i \in Targets PROVE TotalsInv(u, i)'
  <2>1. TotalsInv(u, i)
    BY DEF RInv
  <2>2. CASE u # t \/ i # j
    BY <1>9, <2>1, <2>2 DEF TotalsInv
  <2>3. CASE u = t /\ i = j
    <3>1. \A d \in Type : results[t][j][d].iops \in Nat /\ results[t][j][d].bytes \in Nat
      <4> TAKE d \in Type
      <4>1. Logged(t, j, d) \subseteq 1 .. n
        BY <1>7, <1>11, LenProperties DEF Logged
      <4>2. PICK k \in Nat : k = Cardinality(Logged(t, j, d))
        BY <4>1, NextPosition
      <4>3. CountsInv(t, j, d) /\ BlockSize * k \in Nat
        BY Numbers DEF RInv
      <4> QED
        BY <4>2, <4>3 DEF CountsInv
    <3>2. PICK x \in Nat, y \in Nat, z \in Nat, w \in Nat, k \in Nat :
            /\ x = results[t][j].READ.iops /\ y = results[t][j].WRITE.iops
            /\ z = results[t][j].READ.bytes /\ w = results[t][j].WRITE.bytes /\ k = BlockSize
      BY <3>1, Numbers DEF Type
    <3>3. /\ results'[t][j].iops_count = x + y + 1
          /\ results'[t][j].bytes_count = z + w + k
      BY <1>9, <2>1, <2>3, <3>2 DEF TotalsInv, old
    <3>4. CASE ty = "READ"
      <4>1. /\ results'[t][j].READ.iops = x + 1 /\ results'[t][j].READ.bytes = z + k
            /\ results'[t][j].WRITE.iops = y /\ results'[t][j].WRITE.bytes = w
        BY <1>10, <1>18, <3>2, <3>4 DEF Type
      <4> QED
        BY <2>3, <3>3, <4>1 DEF TotalsInv
    <3>5. CASE ty = "WRITE"
      <4>1. /\ results'[t][j].WRITE.iops = y + 1 /\ results'[t][j].WRITE.bytes = w + k
            /\ results'[t][j].READ.iops = x /\ results'[t][j].READ.bytes = z
        BY <1>10, <1>18, <3>2, <3>5 DEF Type
      <4> QED
        BY <2>3, <3>3, <4>1 DEF TotalsInv
    <3> QED
      BY <3>4, <3>5 DEF Type
  <2> QED
    BY <2>2, <2>3
<1>21. ASSUME NEW u \in Threads PROVE LatencyInv(u)'
  <2>1. LatencyInv(u)
    BY DEF RInv
  <2>2. ASSUME ~e.fresh PROVE e.latency >= e.took
    <3>1. PICK a \in Nat, b \in Nat, d \in Nat, top \in Nat, w \in Nat \ {0} :
            /\ a = abs_time_us[t] /\ b = submitted[t][o] /\ d = time[t][o]
            /\ a <= top /\ top = MaxTime /\ w = TimeMod /\ top < w
      <4>1. /\ abs_time_us[t] \in 0 .. MaxTime /\ submitted[t][o] \in 0 .. MaxTime
            /\ time[t][o] \in Times
        BY <1>1, <1>3 DEF TypeOK
      <4> QED
        BY <4>1, Numbers DEF Times
    <3>2. LatencyInv(t)
      BY DEF RInv
    <3>3. b <= a /\ d <= b
      BY <1>1, <1>3, <1>4, <2>2, <3>1, <3>2 DEF LatencyInv
    <3>4. (a - d) % w = a - d
      <4>1. a - d \in 0 .. w - 1
        BY <3>1, <3>3
      <4> QED
        BY <4>1, ModuloWraps
    <3>5. e.latency = a - d /\ e.took = a - b
      BY <1>3, <1>4, <3>1, <3>4 DEF Latency, Wrap
    <3> QED
      BY <3>1, <3>3, <3>5
  <2>3. ASSUME NEW i \in DOMAIN log'[u], ~log'[u][i].fresh
        PROVE  log'[u][i].latency >= log'[u][i].took
    <3>1. CASE u = t /\ i = n + 1
      <4>1. log'[u][i] = e
        BY <1>7, <1>11, <3>1, AppendProperties
      <4> QED
        BY <2>2, <2>3, <4>1
    <3>2. CASE u # t \/ i # n + 1
      <4>1. i \in DOMAIN log[u] /\ log'[u][i] = log[u][i]
        BY <1>7, <1>11, <2>3, <3>2, AppendProperties, LenProperties
      <4> QED
        BY <2>1, <2>3, <4>1 DEF LatencyInv
    <3> QED
      BY <3>1, <3>2
  <2> QED
    BY <1>6, <2>1, <2>3 DEF LatencyInv
<1> QED
  BY <1>17, <1>18, <1>19, <1>20, <1>21 DEF RInv

(* Every step.                                                              *)
LEMMA ResultsInvariance == IInv /\ RInv /\ [Next]_vars => RInv'
<1> SUFFICES ASSUME IInv, RInv, [Next]_vars PROVE RInv'
  OBVIOUS
<1>1. CASE UNCHANGED <<results, log, measure_latency, measure_iops_std_dev, submitted, time>>
  <2>1. \A t \in Threads : LatencyInv(t)'
    BY <1>1 DEF RInv, LatencyInv
  <2> QED
    BY <1>1, <2>1, SameResults DEF RInv
<1>2. ASSUME NEW t \in Threads, RecordOp(t) PROVE RInv'
  <2>1. CASE measure_iops_std_dev /\ Bucket(t) > MaxBuckets
    BY <1>1, <1>2, <2>1 DEF RecordOp, options, opVars, resultVars
  <2> QED
    BY <1>2, <2>1, RecordKeepsResults
<1>3. ASSUME NEW t \in Threads, Requeue(t) PROVE RInv'
  BY <1>3, RequeueKeepsResults
<1>4. ASSUME NEW t \in Threads, LoopTest(t) \/ CheckRecord(t) \/ \E o \in Slots : Reap(t, o)
      PROVE  RInv'
  BY <1>1, <1>4 DEF LoopTest, CheckRecord, Reap, options, opVars, resultVars
<1>5. CASE Tick \/ GetStartTime \/ StartRecording \/ StopRecording \/ StopThreads
  BY <1>1, <1>5 DEF Tick, GetStartTime, StartRecording, StopRecording, StopThreads, JobGoto,
                    options, opVars, resultVars
<1>6. CASE UNCHANGED vars
  BY <1>1, <1>6 DEF vars, options, opVars, resultVars
<1> QED
  BY <1>2, <1>3, <1>4, <1>5, <1>6 DEF Next, Terminated

(* thread.cc:270-290: whatever the interleaving of completions, flag and    *)
(* clock, the counters, the histogram and the bucketizer of each direction  *)
(* of each target count the same operations, those recorded, each with its  *)
(* latency and in its bucket, also when the vector of buckets has to grow   *)
(* and when unsigned counters wrap around.                                  *)
THEOREM ResultsDescribeRecords == SafetySpec => []ResultsAgree
<1>1. ASSUME RInv PROVE ResultsAgree
  <2>1. ASSUME NEW t \in Threads, NEW j \in Targets, NEW ty \in Type
        PROVE  LET mine == Logged(t, j, ty)
                   r    == results[t][j][ty]
               IN  /\ r.iops = Cardinality(mine)
                   /\ r.bytes = BlockSize * Cardinality(mine)
                   /\ measure_latency =>
                        /\ r.histogram.samples = Cardinality(mine) % CountMod
                        /\ \A v \in DOMAIN r.histogram.data :
                             r.histogram.data[v] =
                               Cardinality({i \in mine : log[t][i].latency = v}) % CountMod
                   /\ \A b \in DOMAIN r.bucketizer.buckets :
                        r.bucketizer.buckets[b] =
                          Cardinality({i \in mine : ToMs(log[t][i].since) \div BucketMs = b - 1})
                            % CountMod
    <3> DEFINE r == results[t][j][ty]
    <3>1. CountsInv(t, j, ty)
      BY <1>1 DEF RInv
    <3>2. ASSUME measure_latency, NEW v \in DOMAIN r.histogram.data
          PROVE  r.histogram.data[v] = Cardinality(Late(t, j, ty, v)) % CountMod
      BY <3>1, <3>2 DEF CountsInv, HistogramInv, CountOf
    <3>3. ASSUME NEW b \in DOMAIN r.bucketizer.buckets
          PROVE  r.bucketizer.buckets[b] = Cardinality(Timed(t, j, ty, b)) % CountMod
      <4>1. measure_iops_std_dev
        <5>1. DOMAIN <<>> = {}
          OBVIOUS
        <5> QED
          BY <3>1, <3>3, <5>1 DEF CountsInv
      <4>2. r.bucketizer.buckets \in Seq(Nat) /\ b \in Nat \ {0}
        <5>1. r.bucketizer.buckets \in Seq(Nat)
          BY <3>1, <4>1 DEF CountsInv, BucketsInv
        <5>2. PICK q \in Seq(Nat) : q = r.bucketizer.buckets
          BY <5>1
        <5>3. Len(q) \in Nat /\ DOMAIN q = 1 .. Len(q)
          BY LenProperties
        <5> QED
          BY <3>3, <5>2, <5>3
      <4>3. GetIoBucket(r.bucketizer, b) = Cardinality(Timed(t, j, ty, b)) % CountMod
        BY <3>1, <4>1, <4>2 DEF CountsInv, BucketsInv
      <4> QED
        BY <3>3, <4>3 DEF GetIoBucket
    <3> QED
      BY <3>1, <3>2, <3>3 DEF CountsInv, HistogramInv, Late, Timed
  <2> QED
    BY <1>1, <2>1 DEF RInv, LatencyInv, TotalsInv, ResultsAgree
<1>2. IInv /\ RInv /\ [Next]_vars => (IInv /\ RInv)'
  BY Invariance, ResultsInvariance
<1>3. Init => IInv /\ RInv
  BY InitIInv, InitRInv
<1> QED
  BY <1>1, <1>2, <1>3, PTL DEF SafetySpec

-----------------------------------------------------------------------------
(* The whole numbers of a quotient below a limit.                           *)
LEMMA QuotientBelow ==
  ASSUME NEW a \in Nat, NEW d \in Nat \ {0}, NEW q \in Nat
  PROVE  a \div d \in Nat /\ (a \div d < q <=> a < q * d)
<1>1. PICK k \in Nat, r \in 0 .. d - 1 : k = a \div d /\ a = k * d + r
  <2>1. a \div d \in Nat /\ a % d \in 0 .. d - 1 /\ a = d * (a \div d) + (a % d)
    OBVIOUS
  <2> QED
    BY <2>1
<1>2. ASSUME k < q PROVE a < q * d
  <2>1. PICK x \in Nat : q = k + 1 + x
    <3>1. q - k - 1 \in Nat /\ q = k + 1 + (q - k - 1)
      BY <1>2
    <3> QED
      BY <3>1
  <2>2. q * d = k * d + d + x * d /\ x * d \in Nat /\ k * d \in Nat
    BY <2>1
  <2> QED
    BY <1>1, <2>2
<1>3. ASSUME ~(k < q) PROVE ~(a < q * d)
  <2>1. PICK x \in Nat : k = q + x
    <3>1. k - q \in Nat /\ k = q + (k - q)
      BY <1>3
    <3> QED
      BY <3>1
  <2>2. k * d = q * d + x * d /\ x * d \in Nat /\ q * d \in Nat
    BY <2>1
  <2> QED
    BY <1>1, <2>2
<1> QED
  BY <1>1, <1>2, <1>3

(* IoBucketizer.cc:78: unless a worker has recorded 2^32 operations and     *)
(* more, the buckets GetStandardDeviation looks at hold the operations      *)
(* recorded with a time within the duration, rounded up to whole buckets,   *)
(* and no straggler: the vector has a bucket for each of them, or ends      *)
(* before with no operation beyond its end.                                 *)
THEOREM DeviationOverDuration ==
  SafetySpec => []((\A t \in Threads : Len(log[t]) < CountMod) => StdDevOverDuration)
<1>1. ASSUME IInv, RInv, \A t \in Threads : Len(log[t]) < CountMod
      PROVE  StdDevOverDuration
  <2> SUFFICES ASSUME measure_iops_std_dev, NEW t \in Threads, NEW j \in Targets, NEW ty \in Type
               PROVE  LET b == results[t][j][ty].bucketizer
                      IN  SumFunctionOnSet(b.buckets, 1 .. GetNumberOfValidBuckets(b)) =
                            Cardinality({i \in Logged(t, j, ty) :
                              log[t][i].since < ValidBuckets * BucketMs * UsPerMs})
    BY DEF StdDevOverDuration
  <2> DEFINE mine == Logged(t, j, ty)
             since(i) == log[t][i].since
             key == [i \in mine |-> ToMs(since(i)) \div BucketMs + 1]
             Of(K) == {i \in mine : key[i] \in K}
  <2>1. PICK b : b = results[t][j][ty].bucketizer /\ BucketsInv(b, t, j, ty)
    BY <1>1 DEF RInv, CountsInv
  <2>2. PICK q \in Seq(Nat) : q = b.buckets
    BY <2>1 DEF BucketsInv
  <2>3. PICK size \in Nat : size = Len(q) /\ DOMAIN q = 1 .. size
    BY LenProperties
  <2>4. log[t] \in Seq(Record)
    BY <1>1 DEF IInv, TypeOK
  <2>5. PICK m \in Nat : m = Len(log[t]) /\ m < CountMod /\ DOMAIN log[t] = 1 .. m
    BY <1>1, <2>4, LenProperties
  <2>6. mine \subseteq 1 .. m
    BY <2>5 DEF Logged
  <2>7. \A i \in mine : since(i) \in Nat
    <3>1. \A i \in 1 .. m : log[t][i] \in Record
      BY <2>4, <2>5, ElementOfSeq
    <3> QED
      BY <2>6, <3>1, Numbers DEF Record, Times
  <2>8. PICK V \in Nat, B \in Nat \ {0}, U \in Nat \ {0} :
          V = ValidBuckets /\ B = BucketMs /\ U = UsPerMs
    <3>1. DurationMs + BucketMs - 1 \in Nat /\ BucketMs \in Nat \ {0} /\ UsPerMs \in Nat \ {0}
      BY Numbers
    <3>2. ValidBuckets \in Nat
      BY <3>1, QuotientGrows DEF ValidBuckets, CeilDiv
    <3> QED
      BY <3>1, <3>2
  <2>9. \A i \in mine : key[i] = ((since(i) \div U) \div B) + 1
    BY <2>8 DEF ToMs
  <2>10. \A k \in Nat \ {0} : Timed(t, j, ty, k) = Of({k})
    <3> TAKE k \in Nat \ {0}
    <3>1. ASSUME NEW i \in mine
          PROVE  ToMs(since(i)) \div BucketMs = k - 1 <=> key[i] = k
      <4>1. PICK d \in Nat : d = (since(i) \div U) \div B
        BY <2>7, QuotientBelow
      <4>2. ToMs(since(i)) \div BucketMs = d /\ key[i] = d + 1
        BY <2>8, <2>9, <4>1 DEF ToMs
      <4> QED
        BY <4>2
    <3> HIDE DEF key
    <3> QED
      BY <3>1 DEF Timed
  <2> HIDE DEF key, mine
  <2>11. \A K : Of(K) \subseteq 1 .. m
    BY <2>6
  <2>12. \A k \in Nat \ {0} : GetIoBucket(b, k) = Cardinality(Of({k}))
    <3> TAKE k \in Nat \ {0}
    <3>1. Cardinality(Of({k})) \in 0 .. m
      <4>1. IsFiniteSet(1 .. m) /\ Cardinality(1 .. m) = m /\ Of({k}) \subseteq 1 .. m
        BY <2>11, IntervalCount
      <4> QED
        BY <4>1, FS_Subset, FS_CardinalityType
    <3>2. PICK c \in 0 .. m : c = Cardinality(Of({k}))
      BY <3>1
    <3>3. PICK w \in Nat \ {0} : w = CountMod
      BY StatisticsAssumption DEF StatisticsAssumption
    <3>4. c % w = c
      <4>1. c \in Nat /\ w \in Nat \ {0} /\ c < w
        BY <2>5, <3>3
      <4> QED
        BY <4>1, ModuloWraps
    <3>5. GetIoBucket(b, k) = Cardinality(Timed(t, j, ty, k)) % CountMod
      BY <2>1 DEF BucketsInv
    <3>6. Cardinality(Timed(t, j, ty, k)) = c
      BY <2>10, <3>2
    <3> QED
      BY <3>2, <3>3, <3>4, <3>5, <3>6
  <2>13. PICK n \in Nat : n = GetNumberOfValidBuckets(b) /\ n <= size /\ n <= V /\ n \in {size, V}
    <3>1. GetNumberOfValidBuckets(b) = Min({size, V})
      BY <2>1, <2>2, <2>3, <2>8 DEF GetNumberOfValidBuckets, BucketsInv
    <3> QED
      BY <3>1, MinOfTwo
  <2>14. SumFunctionOnSet(q, 1 .. n) = Cardinality(Of(1 .. n))
    <3>1. \A k \in 1 .. n : q[k] = Cardinality({i \in mine : key[i] = k})
      <4> TAKE k \in 1 .. n
      <4>1. k \in Nat \ {0} /\ k \in DOMAIN q
        BY <2>3, <2>13
      <4>2. GetIoBucket(b, k) = q[k]
        BY <2>2, <4>1 DEF GetIoBucket
      <4>3. Of({k}) = {i \in mine : key[i] = k}
        OBVIOUS
      <4> QED
        BY <2>12, <4>1, <4>2, <4>3
    <3>2. IsFiniteSet(mine) /\ IsFiniteSet(1 .. n)
      BY <2>6, IntervalCount, FS_Subset
    <3> QED
      BY <3>1, <3>2, CountByKey
  <2>15. Of(1 .. n) = Of(1 .. V)
    <3>1. ASSUME NEW i \in mine, key[i] \in 1 .. V, key[i] \notin 1 .. n PROVE FALSE
      <4>1. PICK k \in Nat \ {0} : k = key[i] /\ k > size
        BY <2>13, <3>1
      <4>2. GetIoBucket(b, k) = 0
        BY <2>2, <2>3, <4>1 DEF GetIoBucket
      <4>3. Cardinality(Of({k})) = 0 /\ IsFiniteSet(Of({k}))
        BY <2>11, <2>12, <4>2, IntervalCount, FS_Subset
      <4>4. Of({k}) = {}
        BY <4>3, FS_EmptySet
      <4> QED
        BY <3>1, <4>1, <4>4
    <3>2. 1 .. n \subseteq 1 .. V
      BY <2>13
    <3> QED
      BY <3>1, <3>2
  <2>16. Of(1 .. V) = {i \in mine : since(i) < ValidBuckets * BucketMs * UsPerMs}
    <3>1. ASSUME NEW i \in mine PROVE key[i] \in 1 .. V <=> since(i) < V * B * U
      <4>1. PICK a \in Nat : a = since(i)
        BY <2>7
      <4>2. PICK x \in Nat : x = a \div U
        BY QuotientBelow
      <4>3. PICK d \in Nat : d = x \div B /\ (d < V <=> x < V * B)
        BY QuotientBelow
      <4>4. V * B \in Nat
        OBVIOUS
      <4>5. x < V * B <=> a < V * B * U
        BY <4>2, <4>4, QuotientBelow
      <4>6. key[i] = d + 1
        BY <2>9, <4>1, <4>2, <4>3
      <4>7. key[i] \in 1 .. V <=> d < V
        BY <4>6
      <4> QED
        BY <4>1, <4>3, <4>5, <4>7
    <3> QED
      BY <2>8, <3>1
  <2> QED
    BY <2>1, <2>2, <2>13, <2>14, <2>15, <2>16 DEF mine
<1>2. IInv /\ RInv /\ [Next]_vars => (IInv /\ RInv)'
  BY Invariance, ResultsInvariance
<1>3. Init => IInv /\ RInv
  BY InitIInv, InitRInv
<1>4. SafetySpec => [](IInv /\ RInv)
  BY <1>2, <1>3, PTL DEF SafetySpec
<1>5. IInv /\ RInv => ((\A t \in Threads : Len(log[t]) < CountMod) => StdDevOverDuration)
  BY <1>1
<1> QED
  BY <1>4, <1>5, PTL

=============================================================================

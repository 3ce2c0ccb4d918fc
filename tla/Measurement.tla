----------------------------- MODULE Measurement -----------------------------
(***************************************************************************)
(* What gets measured: the clock, the job opening and closing the          *)
(* measurement (job.cc), and each worker stamping a completed operation,   *)
(* deciding whether to record it, adding it to its TargetResults and       *)
(* sending it off again (thread.cc).  The clock runs between any two steps.*)
(* With -F a worker has operations on several targets, and results for     *)
(* each.  Errors and the start and end of the workers are JobRun's subject.*)
(***************************************************************************)

EXTENDS Statistics, Integers

CONSTANTS
  Threads,
  NumTargets,   \* targets of a worker
  Overlap,      \* operations a worker keeps in flight on each (-o)
  BlockSize,    \* bytes of an operation (-b)
  Throughput,   \* -g of the first target, bytes per ms; 0 does not throttle
  UsPerMs,      \* ticks of the clock (us) in a ms (1000)
  DurationMs,   \* options->duration * 1000
  BucketMs,     \* options->io_bucket_duration_ms
  TimeMod,      \* uint64_t counts modulo TimeMod (2^64)
  Garbage,      \* what an uninitialized uint64_t may hold
  Measured,     \* the choices of -L and -D considered
  MaxBuckets,   \* a vector of more buckets cannot be allocated
  MaxTime,      \* BOUND: the clock stops here
  MaxRecords    \* BOUND: a worker with so many records gets no more completions

ASSUME MeasurementAssumption ==
  /\ {NumTargets, Overlap, BlockSize, UsPerMs, DurationMs, BucketMs} \subseteq Nat \ {0}
  /\ {Throughput, MaxBuckets} \subseteq Nat
  /\ MaxRecords \in Nat \ {0}
  /\ TimeMod \in Nat /\ MaxTime \in DurationMs * UsPerMs + 1 .. TimeMod - 1
  /\ Measured \subseteq BOOLEAN \X BOOLEAN
  /\ Garbage \subseteq 0 .. TimeMod - 1

Targets == 1 .. NumTargets
Slots   == Targets \X (1 .. Overlap)
Type    == {"READ", "WRITE"}

VARIABLES
  measure_latency,     \* -L
  measure_iops_std_dev,  \* -D
  now,                 \* PerfClock, in us
  job_pc,
  start_time_us,       \* options->start_time_us
  deadline,            \* when the wait for the duration times out
  record_results,
  run_threads,
  process,             \* "running", or "terminated" by an exception
  pc,
  curr_op,             \* the operation wait() returned
  abs_time_us,
  time,                \* IAsyncIop::time of each operation
  type,                \* IAsyncIop::type of each operation
  throttled,           \* the loop looked at the throughput before it went on to wait
  thread_bytes_count,
  results,             \* the TargetResults of each target
  submitted,           \* history: when each operation was last submitted
  log,                 \* history: what was recorded, in order
  log_at_stop          \* history: how much of it when recording was stopped

options    == <<measure_latency, measure_iops_std_dev>>
jobVars    == <<job_pc, start_time_us, deadline, record_results, run_threads>>
opVars     == <<curr_op, abs_time_us, time, type, submitted>>
resultVars == <<thread_bytes_count, results, log>>
vars       == <<options, now, jobVars, process, pc, throttled, opVars, resultVars, log_at_stop>>

ToMs(us) == us \div UsPerMs

(* Mutant: a difference of times may be negative.                           *)
Wrap_None(t) == t

(* Times are unsigned.                                                      *)
Wrap(t) == t % TimeMod

CeilDiv(n, d) == (n + d - 1) \div d

(* The bucketizers are initialized with ceil(duration / interval) buckets.  *)
ValidBuckets == CeilDiv(DurationMs, BucketMs)

(* The results of one direction.                                            *)
NoResults ==
  [bytes |-> 0, iops |-> 0, histogram |-> EmptyHistogram,
   bucketizer |-> IF measure_iops_std_dev THEN Initialize(BucketMs, ValidBuckets)
                  ELSE NewBucketizer]

Times == 0 .. TimeMod - 1

(* A record: the time stamp, the values added, what the operation really    *)
(* took, whether its time had ever been set and whether the loop had looked *)
(* at the throughput before it waited.                                      *)
Record == [stamp : Times, since : Times, latency : Times, took : Times,
           target : Targets, type : Type, fresh : BOOLEAN, throttled : BOOLEAN]

TypeOK ==
  /\ {measure_latency, measure_iops_std_dev} \subseteq BOOLEAN
  /\ now \in 0 .. MaxTime
  /\ job_pc \in {"warmup", "started", "measure", "stop", "join"}
  /\ start_time_us \in 0 .. MaxTime
  /\ deadline \in 0 .. MaxTime
  /\ record_results \in BOOLEAN
  /\ run_threads \in BOOLEAN
  /\ process \in {"running", "terminated"}
  /\ pc \in [Threads -> {"test", "wait", "stamped",
                         "record", "requeue", "dead"}]
  /\ throttled \in [Threads -> BOOLEAN]
  /\ curr_op \in [Threads -> Slots]
  /\ abs_time_us \in [Threads -> 0 .. MaxTime]
  /\ time \in [Threads -> [Slots -> Times]]
  /\ type \in [Threads -> [Slots -> Type]]
  /\ submitted \in [Threads -> [Slots -> 0 .. MaxTime]]
  /\ thread_bytes_count \in [Threads -> Nat]
  /\ log \in [Threads -> Seq(Record)]
  /\ \A t \in Threads : Len(log[t]) <= MaxRecords
  /\ log_at_stop \in [Threads -> 0 .. MaxRecords]

(* The operation in hand when there is none.                                *)
NoOp == <<1, 1>>

(* Every operation was submitted, at time 0; neither engine's constructor   *)
(* of an operation stores its time stamp.                                   *)
Init ==
  /\ \E m \in Measured : measure_latency = m[1] /\ measure_iops_std_dev = m[2]
  /\ now = 1
  /\ job_pc = "warmup"
  /\ start_time_us = 0
  /\ deadline = 0
  /\ record_results = FALSE
  /\ run_threads = TRUE
  /\ process = "running"
  /\ pc = [t \in Threads |-> "test"]
  /\ throttled = [t \in Threads |-> FALSE]
  /\ curr_op = [t \in Threads |-> NoOp]
  /\ abs_time_us = [t \in Threads |-> 0]
  /\ \E g \in Garbage : time = [t \in Threads |-> [o \in Slots |-> g]]
  /\ type \in [Threads -> [Slots -> Type]]
  /\ thread_bytes_count = [t \in Threads |-> 0]
  /\ results = [t \in Threads |-> [j \in Targets |->
                  [bytes_count |-> 0, iops_count |-> 0,
                   READ |-> NoResults, WRITE |-> NoResults]]]
  /\ submitted = [t \in Threads |-> [o \in Slots |-> 0]]
  /\ log = [t \in Threads |-> <<>>]
  /\ log_at_stop = [t \in Threads |-> 0]

-----------------------------------------------------------------------------
(* The clock, and the job: each of its steps may be late.                   *)

(* The bounded clock leaves room for the duration.                          *)
Tick ==
  /\ now < MaxTime - (IF job_pc \in {"warmup", "started"} THEN DurationMs * UsPerMs ELSE 0)
  /\ now' = now + 1
  /\ UNCHANGED <<options, jobVars, process, pc, throttled, opVars, resultVars, log_at_stop>>

JobGoto(from, to) ==
  /\ job_pc = from
  /\ job_pc' = to
  /\ UNCHANGED <<options, now, process, pc, throttled, opVars, resultVars>>

(* The warmup is over: take the start time.                                 *)
GetStartTime ==
  /\ JobGoto("warmup", "started")
  /\ start_time_us' = now
  /\ UNCHANGED <<deadline, record_results, run_threads, log_at_stop>>

StartRecording ==
  /\ JobGoto("started", "measure")
  /\ record_results' = TRUE
  /\ deadline' = now + DurationMs * UsPerMs
  /\ UNCHANGED <<start_time_us, run_threads, log_at_stop>>

(* Mutant: the flag stays set.                                              *)
StopRecording_FlagStays ==
  /\ JobGoto("measure", "stop")
  /\ now >= deadline
  /\ log_at_stop' = [t \in Threads |-> Len(log[t])]
  /\ UNCHANGED <<start_time_us, deadline, record_results, run_threads>>

(* The wait for the duration times out, at some time after the deadline.    *)
StopRecording ==
  /\ JobGoto("measure", "stop")
  /\ now >= deadline
  /\ record_results' = FALSE
  /\ log_at_stop' = [t \in Threads |-> Len(log[t])]
  /\ UNCHANGED <<start_time_us, deadline, run_threads>>

StopThreads ==
  /\ JobGoto("stop", "join")
  /\ run_threads' = FALSE
  /\ UNCHANGED <<start_time_us, deadline, record_results, log_at_stop>>

-----------------------------------------------------------------------------
(* The loop of a worker.                                                    *)

SinceStartMs == ToMs(now) - ToMs(start_time_us)

(* Mutant: the estimate is per us.                                          *)
TooFast_PerUs(t) ==
  SinceStartMs # 0 /\ thread_bytes_count[t] \div (SinceStartMs * UsPerMs) > Throughput

(* The estimate of the throughput, in whole bytes per ms; none is made      *)
(* within the first ms.                                                     *)
TooFast(t) == SinceStartMs # 0 /\ thread_bytes_count[t] \div SinceStartMs > Throughput

(* The loop condition and the throttle: a worker that is too fast sleeps    *)
(* and comes back here.                                                     *)
LoopTest(t) ==
  /\ pc[t] = "test"
  /\ LET looks == record_results /\ Throughput # 0
     IN  /\ ~(run_threads /\ looks /\ TooFast(t))
         /\ throttled' = [throttled EXCEPT ![t] = looks /\ SinceStartMs # 0]
  /\ pc' = [pc EXCEPT ![t] = IF run_threads THEN "wait" ELSE "dead"]
  /\ UNCHANGED <<options, now, jobVars, process, opVars, resultVars, log_at_stop>>

(* wait returns an operation, run_threads is read again and the time stamp  *)
(* is taken.                                                                *)
Reap(t, o) ==
  /\ pc[t] = "wait"
  /\ run_threads /\ record_results => Len(log[t]) < MaxRecords
  /\ IF run_threads
     THEN /\ pc' = [pc EXCEPT ![t] = "stamped"]
          /\ curr_op' = [curr_op EXCEPT ![t] = o]
          /\ abs_time_us' = [abs_time_us EXCEPT ![t] = now]
     ELSE pc' = [pc EXCEPT ![t] = "dead"] /\ UNCHANGED <<curr_op, abs_time_us>>
  /\ UNCHANGED <<options, now, jobVars, process, throttled, time, type, submitted, resultVars,
                 log_at_stop>>

(* record_results is read, and nothing keeps it from being reset right      *)
(* after.                                                                   *)
CheckRecord(t) ==
  /\ pc[t] = "stamped"
  /\ pc' = [pc EXCEPT ![t] = IF record_results THEN "record" ELSE "requeue"]
  /\ UNCHANGED <<options, now, jobVars, process, throttled, opVars, resultVars, log_at_stop>>

Since(t)   == Wrap(abs_time_us[t] - start_time_us)

Latency(t) == Wrap(abs_time_us[t] - time[t][curr_op[t]])

(* The bucket is found by the ms since the start.                           *)
Bucket(t) == ToMs(Since(t)) \div BucketMs + 1

(* Add to the results of the operation's direction: its latency with -L,    *)
(* its bucket with -D.                                                      *)
AddTo(r, t) ==
  [bytes      |-> r.bytes + BlockSize,
   iops       |-> r.iops + 1,
   histogram  |-> IF measure_latency THEN HistogramAdd(r.histogram, Latency(t))
                  ELSE r.histogram,
   bucketizer |-> IF measure_iops_std_dev THEN BucketAdd(r.bucketizer, ToMs(Since(t)))
                  ELSE r.bucketizer]

(* The entry of the log for the operation in hand.                          *)
Entry(t) ==
  LET o == curr_op[t]
  IN  [stamp |-> abs_time_us[t], since |-> Since(t), latency |-> Latency(t),
       took |-> abs_time_us[t] - submitted[t][o], target |-> o[1], type |-> type[t][o],
       fresh |-> submitted[t][o] = 0, throttled |-> throttled[t]]

(* Update the results of the operation's target, and what the thread has    *)
(* transferred on all of them.  A bucketizer that would have to grow too    *)
(* much throws, which ends the process.                                     *)
RecordOp(t) ==
  /\ pc[t] = "record"
  /\ IF measure_iops_std_dev /\ Bucket(t) > MaxBuckets
     THEN process' = "terminated" /\ UNCHANGED <<pc, resultVars>>
     ELSE /\ thread_bytes_count' = [thread_bytes_count EXCEPT ![t] = @ + BlockSize]
          /\ LET o == curr_op[t]
             IN  results' = [results EXCEPT ![t][o[1]].bytes_count = @ + BlockSize,
                                            ![t][o[1]].iops_count = @ + 1,
                                            ![t][o[1]][type[t][o]] = AddTo(@, t)]
          /\ log' = [log EXCEPT ![t] = Append(@, Entry(t))]
          /\ pc' = [pc EXCEPT ![t] = "requeue"]
          /\ UNCHANGED process
  /\ UNCHANGED <<options, now, jobVars, throttled, opVars, log_at_stop>>

(* The operation gets a new time and direction and is submitted again.  The *)
(* locals of the loop go out of scope.                                      *)
Requeue(t) ==
  LET o == curr_op[t]
  IN
  /\ pc[t] = "requeue"
  /\ pc' = [pc EXCEPT ![t] = "test"]
  /\ time' = [time EXCEPT ![t][o] = abs_time_us[t]]
  /\ \E ty \in Type : type' = [type EXCEPT ![t][o] = ty]
  /\ submitted' = [submitted EXCEPT ![t][o] = now]
  /\ curr_op' = [curr_op EXCEPT ![t] = NoOp]
  /\ abs_time_us' = [abs_time_us EXCEPT ![t] = 0]
  /\ throttled' = [throttled EXCEPT ![t] = FALSE]
  /\ UNCHANGED <<options, now, jobVars, process, resultVars, log_at_stop>>

Terminated ==
  /\ process = "terminated" \/ \A t \in Threads : pc[t] = "dead"
  /\ UNCHANGED vars

Next ==
  \/ /\ process = "running"
     /\ \/ Tick
        \/ GetStartTime \/ StartRecording \/ StopRecording \/ StopThreads
        \/ \E t \in Threads : LoopTest(t) \/ CheckRecord(t) \/ RecordOp(t) \/ Requeue(t)
                              \/ \E o \in Slots : Reap(t, o)
  \/ Terminated

SafetySpec == Init /\ [][Next]_vars

-----------------------------------------------------------------------------
(***************************************************************************)
(* Properties.                                                             *)
(***************************************************************************)

(* What was recorded of a direction of a target.                            *)
Logged(t, j, ty) == {i \in DOMAIN log[t] : log[t][i].target = j /\ log[t][i].type = ty}

(* However completions, flag and clock interleave, the counters, and with   *)
(* -L and -D the histogram and the bucketizer, of each direction of each    *)
(* target describe the same operations: those recorded, each with its       *)
(* latency, which is never less than it took since its time is taken before *)
(* it is submitted again (but for the first batch), and in its bucket.      *)
ResultsAgree ==
  \A t \in Threads :
    /\ \A i \in DOMAIN log[t] : ~log[t][i].fresh => log[t][i].latency >= log[t][i].took
    /\ \A j \in Targets :
         /\ results[t][j].iops_count = results[t][j].READ.iops + results[t][j].WRITE.iops
         /\ results[t][j].bytes_count = results[t][j].READ.bytes + results[t][j].WRITE.bytes
    /\ \A j \in Targets, ty \in Type :
         LET mine == Logged(t, j, ty)
             r    == results[t][j][ty]
         IN  /\ r.iops = Cardinality(mine)
             /\ r.bytes = BlockSize * Cardinality(mine)
             /\ measure_latency =>
                  /\ r.histogram.samples = Cardinality(mine) % CountMod
                  /\ \A v \in DOMAIN r.histogram.data :
                       r.histogram.data[v] =
                         Cardinality({i \in mine : log[t][i].latency = v}) % CountMod
             /\ \A b \in DOMAIN r.bucketizer.buckets :
                  r.bucketizer.buckets[b] =
                    Cardinality({i \in mine : ToMs(log[t][i].since) \div BucketMs = b - 1})
                      % CountMod

(* The buckets the standard deviation is computed from hold the operations  *)
(* recorded with a time within the duration (rounded up to whole buckets),  *)
(* and no straggler recorded later.                                         *)
StdDevOverDuration ==
  measure_iops_std_dev => \A t \in Threads, j \in Targets, ty \in Type :
    LET b == results[t][j][ty].bucketizer
    IN  SumFunctionOnSet(b.buckets, 1 .. GetNumberOfValidBuckets(b)) =
          Cardinality({i \in Logged(t, j, ty) :
            log[t][i].since < ValidBuckets * BucketMs * UsPerMs})

(* Once the job has reset record_results a worker records at most the one   *)
(* operation for which it had already read the flag.                        *)
OneStraggler ==
  \A t \in Threads :
    job_pc \in {"stop", "join"} => Len(log[t]) <= log_at_stop[t] + 1

(* -g: a worker that looked at its throughput before it waited records its  *)
(* operation within the limit, rounded down to whole bytes per ms, except   *)
(* for the one operation itself.  The limit is that of one target, for the  *)
(* operations on all of them, as thread.cc:131 says.                        *)
ThroughputHeld ==
  \A t \in Threads : \A i \in DOMAIN log[t] :
    log[t][i].throttled =>
      BlockSize * i < (Throughput + 1) * (ToMs(log[t][i].stamp) - ToMs(start_time_us)) + BlockSize

-----------------------------------------------------------------------------
(* What comments and documents say and the code does not do.                *)

(* thread.cc:272: op_time_us is the "time this op took to complete": an     *)
(* operation in flight since the beginning took no longer than the program  *)
(* runs.                                                                    *)
LatencyIsReal ==
  measure_latency => \A t \in Threads : \A i \in DOMAIN log[t] : log[t][i].latency <= log[t][i].stamp
=============================================================================

# A verification project for diskspd-for-linux

diskspd generates disk I/O against files and block devices and reports what it measured. These
TLA+ modules model the program's own logic: the job and its worker threads, the two asynchronous
I/O engines, offset generation, buffers, command line and target setup, measurement and the report.
TLC checks them on small instances; TLAPS proves every invariant and action property the runs check,
for any number of workers, operations, targets, files, CPUs and rows of the report; five of them as
long as no number overflows that the code lets overflow (`BlocksCounted` and the like, named below).

Paths below are relative to `src/src/` of the repository.

## The system

`main` (`diskspd.cc`) lets a `Profile` parse the options into `JobOptions` and run a `Job`. The job
sets up the target files, creates an engine and one `ThreadParams` per worker, starts the workers,
waits for them to submit their first batch, sleeps through warmup and duration, stops and joins
them. Each worker keeps a fixed number of operations in flight: it waits for a completion, records
it, and submits the operation again elsewhere. At the end a formatter merges the workers' results.

| Component | State | Operations | Interacts through |
|---|---|---|---|
| Job (`job.cc`) | `run_threads`, `record_results`, `thread_error`, `thread_counter` | `run_job` | flags without a lock, a counter under `thread_mutex`, two condition variables, join |
| Worker (`thread.cc`) | operations in flight, `initialized`, its results | `thread_func`, `thread_abort` | reads the job's flags, notifies it, calls the engine |
| Kernel engine (`kernel_aio.cc`) | per group: queue, in-flight map, next id, control block arrays | `create_group`, `enqueue`, `submit`, `wait` | `groups_mutex`; the kernel's aio context |
| POSIX engine (`posix_aio.cc`) | per group: queue, vector of control blocks; one shared in-flight map and id counter | the same | `suspend_in_flight_mutex`; glibc aio |
| Targets (`target.h`, `rng_engine.h`) | the interlocked offset, the offset of each operation | start and next offset | `-si` shares one offset among threads under a mutex |
| Buffers (`target.h`, `thread.cc`) | a read and a write buffer per worker and target | allocate, align, slice, choose by type of operation | operations point into them |
| Command line (`options.cc`, `options.h`, `profile.cc`) | options with their arguments | check, convert, combine, default | refuses, or makes the settings of the job |
| Setup (`profile.cc`, `job.cc`, `sys_info.cc`) | files on disk, the `Target`s, thread and CPU assignment | stat, check, remove, create, lay out, look up, assign, pin | the file system, which outlives the process |
| Measurement (`thread.cc`, `Histogram.h`, `IoBucketizer.cc`) | counters, histograms, buckets per worker and direction | record, throttle | clock, `record_results`, `start_time_us` |
| CPU usage (`job.cc`, `sys_info.cc`) | times of each CPU before and after the main phase | read, subtract, divide | `/proc/stat`; a failed read ends the process |
| Report (`result_formatter.cc`) | running totals, merged histograms | tables, percentiles | the results, after the join |
| Not modelled | | | seeds, text of `/sys` and `/proc`, debug output, build and tests |

What is hard here: the job looks at flags that workers write without a lock, and its notifications
can get lost or come from nowhere; several failure returns leave threads behind; operations are
found again by ids that wrap around; descriptors are closed and reused while requests are in flight;
statistics are gathered while the clock, the flag and the
completions race; the file setup can be killed and repeated. `PROJECT.json` lists every such hazard
at its line with the properties that cover it, and why those without a property have none.

What makes each part correct, in a sentence:

- **Job**: phases in order, never before every worker is ready, a verdict of success only with no
  worker left, and always an end.
- **Engines**: an operation is returned exactly once, after it completed, to the worker it belongs to.
- **Targets**: every operation stays in the target's interval, aligned where the device needs it, and
  in memory of its own.
- **Command line**: what the help says of an option is what the settings make of it.
- **Setup**: threads find files long enough and start at places of their own; no file is replaced
  that need not be.
- **Measurement**: all statistics of a worker describe the same operations, those of the duration.
- **Report**: what is printed for several threads and targets is what one table of all I/O would say.

## The modules

| Module | Models | How state and actions correspond to the code |
|---|---|---|
| `JobContract` | what callers of `run_job` rely on | `phase`, `running`, `broken`: abstract |
| `JobRun` | `run_job` from thread creation on, `thread_func`, `thread_abort`, `main` to its end | `job_pc` and `pc[t]` are program counters; one action per critical section, access to a shared flag, or engine call |
| `JobIO` | `JobRun` over the I/O of its workers | each action is one of `JobRun` with what it does to the operations (`AsyncIO`) and to the process's descriptors; enqueueing is a step of its own |
| `JobProofs` | theorems about `JobRun` and `JobIO` | |
| `DataLemmas` | facts about numbers, sets, sequences and finite sums that the proofs share | |
| `KernelAioProofs`, `PosixAioProofs` | theorems about the engines | |
| `TargetOffsetsProofs`, `MeasurementProofs`, `StartupProofs`, `ReportProofs` | theorems about these modules | |
| `AsyncIO` | what `async_io.h` promises a worker | `place[o]`: held by the worker, queued, flying, done: abstract |
| `FlightIds` | the choice of in-flight ids in both engines | `FreeId` is the loop that skips ids in use |
| `KernelAio` | the kernel engine and the kernel | one action per call of the interface; the kernel sees only the id a control block carries |
| `PosixAio` | the POSIX engine and glibc | `submit` is two actions per operation (start, then number it under the mutex); `wait` is suspend, scan step, take |
| `TargetChecks` | the checks a target passes, with the widths of the integers in them | operators used by the next module and `Startup` |
| `Buffers` | `TargetBuffer`, and the slices `thread_func` gives to operations | operators on addresses |
| `TargetOffsets` | `TargetData`'s offsets and the buffers of operations, called as `thread_func` calls them | `Begin`, `Construct` fill the first batch, `Requeue` is the steady state |
| `CpuSets` | `str_to_cpu_set` | a recursive function over the tokens of the text |
| `Options` | `Options`, and `parse_options` up to the paths | operators from a command line to `Settings`; texts are sequences of numbers and the characters the parsers tell apart |
| `Startup` | the targets of `parse_options`, then `run_job` up to its threads | `file` is the disk, everything else the process; `Kill` at any point, `Start` with any options |
| `Statistics` | `Histogram` and `IoBucketizer` | operators on records |
| `Measurement` | what a worker does with a completion, the job's part in it, the clock | `Tick` between any two steps; history variables `submitted`, `log`, `log_at_stop` |
| `CpuUsage` | the shares of a CPU's time | operators on fractions |
| `Report` | the CPU table, `print_iops` and the percentile table | one action per row printed, merged or percentile line |

`JobRun` INSTANCEs `JobContract`, both engines INSTANCE `AsyncIO`, each with a refinement mapping.
`JobRun` abstracts an engine to two counters, `in_flight` and `finished`. `JobIO` EXTENDS `JobRun`,
INSTANCEs `AsyncIO` and conjoins the actions of both, so that each operation of each worker is
followed through the job's life; `OpsInv` of the proofs ties the counters to the operations, and the
theorem `Superposes` says that the composition is still a job. The chain is: the engines implement
`AsyncIO` (runs `kernel` and `posix`), `JobIO` runs on `AsyncIO` and implements `JobRun`, and
`JobRun` implements `JobContract` (run `job`). Each link is also proved.

`Measurement` and `Report` are built from `Statistics`, `Report` from `CpuUsage`; `TargetOffsets` and
`Startup` share `TargetChecks`, so that the checks one performs are those the other relies on;
`Startup` EXTENDS `Options`, so that its processes start from command lines. Definitions named
`X_Something` are mutants of `X`: plausible bugs that violate a property, listed in `PROJECT.json`.
A module `MCX` only gives constants their values.

## The runs

| Run | Question | Bounds, and why they are enough |
|---|---|---|
| `job` | Do phases, results, workers and their operations stay in step, whatever fails, is lost or wakes spuriously? Does the process end? Does `run_job` implement `JobContract`? Can an operation go to another worker's file? | 2 workers on either engine, overlap 2, 1 wait for initialization that may time out: one worker can be ahead of, behind, or blocked by another, and open its file when the other has closed its own; the proofs cover the rest |
| `job_outlives` (violated) | Does the `Job` outlive its workers, as `thread.h:48` says? | 2 workers |
| `kernel` | Does the kernel engine implement `AsyncIO`, track what the kernel has and free each array once? | two groups of 2 and 1 operations, 3 ids: ids wrap around while operations are in flight |
| `posix` | The same for POSIX aio, whose groups share one map | two groups of 2 and 1 operations, 4 ids: groups take ids from each other |
| `offsets` | Do operations stay in bounds, aligned, and come round? Do their buffers overlap? | targets of up to 20 bytes, all modes, 3 threads with 2 operations, `-Zs` or not; 64-bit as 6-bit integers: at a distance of 16 or 31 the place of the third thread, 32 or 62, comes out as -32 or -2 and is accepted, and the second thread is still inside at 16 and not at 31 |
| `offsets_large` (violated) | The same for targets of more blocks than an `int` holds | `int` of 4 bits |
| `measurement` | Do the statistics agree with what was recorded, in and after the duration? | 1 worker with an operation on each of 2 targets (results are per worker and target), 4 clock ticks, 2 ticks a ms, 2 records, with `-L` or with `-D`; times modulo 32 |
| `latency` (violated) | Is a recorded latency the time the operation took? | the same |
| `report` | Do totals, deviations and percentiles describe all rows together, and is the report printed to its end? | 2 rows, each direction with 0 to 3 operations spread over intervals of different number, 2 CPUs, each combination of `-L` and `-D` |
| `report_total` (violated) | Does the total histogram have each operation once? | the same |
| `startup` | Do threads only run on good files, from places and CPUs of their own, however earlier processes ended? | 2 files and a device, sizes of 0 to 7 bytes written 3 at a time, the command lines of `MCStartup`: each combines the options that matter together (`-c -f -B`, paths named twice; `-t -F -T -si -Sd`; `-a -n`; `-r -s -T -S`; what is refused), with sizes that wrap around 64 bits, and a `-T` of 2048 bytes, of which three threads make -4096 in the 13 bits of the run and are accepted |
| `random_stride` (violated) | Does `-r` without an argument align to blocks? | the same |

`TypeOK` of a module is checked in its first run (those of `JobRun` and `AsyncIO` in `IOTypeOK`).
The other properties are stated, each with the behaviour of the code it is about, at the end of its
module.

### Bounds inside the modules

`Measurement` stops the clock at `MaxTime` and hands out no completion after `MaxRecords`; both are
named `BOUND` where they are declared, and its runs claim no liveness. Widths (`OffHalf`, `UIntMod`,
`IntHalf`, `IdMod`, `CountMod`, `TimeMod`, `ValueMax`) and `Kibi` scale the code's 2^63, 2^32, 2^31
and so on down so that TLC reaches the overflow; nothing else of a module depends on them. `InitTimeouts` is 10000 in the
code: a job can time out after any number of waits of the model.

### Fairness

- `JobRun` and `JobIO`: the job always moves on, since each of its waits has a timeout and the final
  join only waits for workers; the operating system schedules every worker that can run; a device
  completes what it accepted. No fairness makes a call fail, nor a lock that is never released be
  granted.
- Engines: a worker inside the engine goes on when it can, and the device completes. A worker is
  never forced to leave its loop, so completions must be returned without that.
- `TargetOffsets`: every operation comes back again and again. In the POSIX engine this is
  `CompletionsReturned`. In the kernel engine it rests on the kernel, which puts completions into a
  ring and hands them out in that order; `KernelAio` leaves the order free. `AsyncIO` says what may
  happen and has no fairness of its own.
- `Startup`: the process gets on while it is alive. Nobody has to start or kill it.
- `Report`: a sequential program prints on.

Spurious wakeups are part of the `job` run: the job takes any wakeup for an error (`job.cc:385`,
`421`), so that it can fail without a cause, which the contract allows.

`OnOwnTarget` says nothing of the POSIX engine once a worker has aborted, or when a failed job left
flags behind for workers that are still starting: glibc uses the descriptor when it comes to a
request, the worker has closed it by then (`thread.cc:340-343`), and another worker may have opened
its own target under the same number. Without an abort this cannot happen, because no worker stops
before all have opened their targets.

### What the violated runs show

1. **`job_outlives`**: when initialization fails or a wait reports an error, `run_job` returns at
   once (`job.cc:358`, `366`, `387`, `423`): its workers, which nobody joins,
   run on, and the `Job` they point into is destroyed before the process exits.
2. **`offsets_large`**: `get_rand_offset` takes an `off_t` and draws from a distribution of `int`.
   Above 2^31 blocks the bound becomes negative and offsets leave the interval that the help of `-B`
   promises not to leave.
3. **`latency`**: the operations of the first batch have no time stamp. Without warmup the first
   latency of each is the clock minus whatever was in memory.
4. **`report_total`**: `total_histogram` merges the running read and write histograms once per
   target, so with several targets early ones are counted more than once.
5. **`random_stride`**: an empty argument converts to nothing, not to 0 (`options.h:104`), so that the
   test at `profile.cc:142` never sees what its comment promises: with `-b` and a bare `-r`, random
   I/O is aligned to 64 KiB.

Divergences met while modelling that have no run of their own:

- `create_group` of the kernel engine returns without unlocking `groups_mutex` when
  `io_queue_init` fails (`kernel_aio.cc:137-152`); every other worker then blocks for ever. The
  modules have it: it is why `NoJoinOfBlockedWorker` and `Termination` matter.
- With `-c` and a smaller `-f` the file is laid out up to `-f` only (`job.cc:147`), so that it is
  shorter than `-c` and is made again by every run.
- `byte_size_from_arg` tests for overflow after multiplying (`options.cc:92-94`): a product that
  wraps around to a positive number passes.
- The look-up of a target's device exits when the device is not one found at start-up
  (`sys_info.cc:273`), for which `tmpfs` is enough, after all files were laid out.
- The check of the threads' places (`job.cc:95-96`) computes `thread_offset * (no_threads - 1)` in an
  `off_t`. A product that overflows may become negative and is accepted then. The product of
  `target.h:228` overflows with it: the first thread it does for starts before the base offset, and
  threads before that one may start past `max_size`. With the widths of the run `startup`,
  `-b2 -c6 -t3 -T256K` starts one thread at 2048 and one at -4096. The comment at
  line 95 says that no starting offset is past the size, and the help of `-B` (`options.h:212`) that
  nothing outside the interval is touched. `StartsApart` says that a thread starts outside if and
  only if the product overflows; `InBounds` leaves these threads, and no others, out.
- By default "each thread tracks its own sequential offset" (`options.h:431`); the code goes on from
  the offset of the operation that completed (`thread.cc:312`), so that with an overlap each
  operation has a sequence of its own, and they cover the same blocks.
- With `-L`, if no operation was recorded, `GetPercentile` of the total (`result_formatter.cc:232`)
  throws, and the report ends in the middle; `ReportCompletes` excludes the case.
- "Threads can interrupt the Job at any time to cancel it if there's an error" (`HOWITWORKS.md:41`):
  not after the last look at `thread_error` (`job.cc:421`). A worker that fails before the join, or
  has stopped the others by then and not yet set the flag, leaves a job that passes. `JobContract`
  allows it.
- The `O_DIRECT` check (`job.cc:79`) does not look at the base offset, which is part of every offset;
  `SectorAligned` presupposes that it is aligned.
- The deviation of `-D` is over the intervals up to the last one with an operation: empty ones at
  the end of the duration are not counted (`IoBucketizer.cc:45-51`), those in between are.
  `StdDevOverDuration` and `StdDevOfAll` take the code's number of intervals.
- `-g` limits what a thread transfers on all its targets to the limit of the first
  (`thread.cc:132`, which says so itself), where the help says "per-thread per-target"
  (`options.h:331`); `ThroughputHeld` states what the code does.
- `-D0` passes the syntax check and fails the assertion of `IoBucketizer::Initialize` in every worker;
  a CPU without a tick between the two readings has shares of 0/0 (`job.cc:465`).
- An `-a` that names no CPU leaves an iterator at the end of an empty set, which is dereferenced and
  incremented (`job.cc:321-336`); `Startup` calls this state `stuck`, and `SetupEnds` excludes it.
- When the clock is read before, and the flag after, recording starts, the time since the start is
  negative and the bucketizer of `-D` is asked for a bucket near 2^64 (`thread.cc:260-285`);
  `Measurement` ends the process there.

## The proofs

The theorems hold for every value of the constants that satisfies the named assumptions of the
modules, from `Init` on, along every behaviour; none needs fairness.

| Module | Theorem | Establishes |
|---|---|---|
| `JobProofs` | `Invariance` | `SafetySpec => []IInv`, the inductive invariant |
| | `TypeCorrect` | `TypeOK`: the counter never counts a worker twice, no worker has more than its overlap in flight |
| | `StartsTogether` | `AllSubmittedBeforeWarmup` |
| | `RecordsInTime` | `RecordingConfined` |
| | `NobodyWaitsForNothing` | `WaitersHaveWork` |
| | `StopPrecedesError` | `ErrorStopsWorkers` |
| | `LockedEngineFails` | `NoJoinOfBlockedWorker` |
| | `Implements` | `ImplementsContract`: `SafetySpec => Contract!Spec` |
| | `Superposes` | `IOSafetySpec => SafetySpec`: `JobIO` implements `JobRun` |
| | `IOJobKeepsPromises` | `JobIO` keeps `AllSubmittedBeforeWarmup`, `RecordingConfined` and the contract |
| | `IOTypeCorrect`, `StaysOnTarget` | `IOTypeOK`, `OnOwnTarget` |
| `KernelAioProofs` | `AssignIdsFresh` | the ids of one `submit` differ from each other and from those in flight |
| | `TypeCorrect`, `MapInStep`, `CountsExact` | `TypeOK`, `MapMatchesKernel`, `ItemsLeftCounts` |
| | `KeepsContract` | `ImplementsContract`: the engine implements `AsyncIO` |
| `PosixAioProofs` | `TypeCorrect`, `MapInStep`, `ScanSucceeds` | `TypeOK`, `MapMatchesVectors`, `ScanFindsCompleted` |
| | `KeepsContract` | `ImplementsContract` |
| `TargetOffsetsProofs` | `TypeCorrect`, `MemoryKeptApart` | `TypeOK`, `BuffersApart` |
| | `StaysInBounds` | `BlocksCounted => InBounds` |
| | `WholeSectors` | `SectorAligned`, if `BlocksCounted` and the product of `job.cc:96` does not overflow |
| `MeasurementProofs` | `TypeCorrect`, `OneLate`, `Throttled` | `TypeOK`, `OneStraggler`, `ThroughputHeld` |
| | `BucketCounts` | what `IoBucketizer::Add` does to each of its counters |
| | `ResultsDescribeRecords` | `ResultsAgree` |
| | `DeviationOverDuration` | `StdDevOverDuration`, unless a worker has recorded as many operations as a count holds |
| `ReportProofs` | `TypeCorrect`, `TablesSum` | `TypeOK`, `TablesAddUp` |
| | `DeviationsOfAll` | `CountsFit => StdDevOfAll` |
| | `PercentilesAreExact` | `PercentilesExact`, if the samples of each direction fit a count |
| `StartupProofs` | `SettingsTyped` | the settings of every accepted command line are numbers within their types |
| | `CpuSetReadsText` | `CpuSet(s) = Named(s)` for every well-formed text |
| | `TypeCorrect`, `FilesLargeEnough` | `TypeOK`, `FilesHoldTargets` |
| | `ReplacesOnlyShortFiles` | `OnlyShortFilesReplaced`, an action property |
| | `ThreadsStartApart` | `StartsApart` |
| | `ThreadsTakeTurns` | `RoundRobin` |
| `DataLemmas` | `FirstFree` | the search for an id, which wraps around, ends at one not in use if there is one |

### What is assumed

- `JobAssumption`: finitely many workers, an overlap and a timeout that are positive. Either engine,
  with or without warmup and spurious wakeups.
- `KernelAssumption`, `PosixAssumption`: finitely many operations, fewer of them (per group in the
  kernel engine, in all in the POSIX engine, whose groups share the ids) than there are ids: 2^64
  and 2^32 in the code. POSIX: every group owns an operation, since `-o` must not be 0.
- `OffsetsAssumption`, `MeasurementAssumption`, `StartupAssumption`, `WidthAssumption`,
  `OptionsAssumption`: sizes on disk are what an `off_t` holds, the number of threads is what an
  `unsigned` holds, the clock does not wrap around. Whatever is computed from them may wrap around.
  `MaxRecords` and `MaxTime`, the bounds of `Measurement`, are any numbers large enough for a record
  and for the duration: the theorems hold for each of them.
- `BlocksCounted` is a hypothesis of two theorems, not an assumption: that in random mode the number
  of blocks fits an `int`. The code does not check it, and without it offsets do leave the target,
  as `offsets_large` shows. `PlacesFit` says of a target that the product of `job.cc:96` does not
  overflow, which the code does not check either. It is part of what `InBounds` and `StartsApart`
  say (`PlaceInside` is about the place `target.h:228` computes), which hold of targets for which it is false, too; only `WholeSectors` has it as a hypothesis,
  since an offset that wrapped around is on a sector only if sectors divide 2^64, as in the code.
- `ReportAssumption`: the results a worker leaves are what `Histogram` and `IoBucketizer` can hold: a
  count for each latency that occurred, `samples` equal to their sum and below 2^32, the same number
  of expected buckets everywhere (`thread.cc:70`). That of the recorded operations this holds is
  `ResultsAgree`. Nothing is assumed of what the rows add up to.
- Histograms and buckets count in `unsigned`, and merging does not look for overflow. `CountsFit` (all
  latencies together, and all I/Os of each interval, are fewer than 2^32), the bound on the samples in
  `PercentilesAreExact` and that on the records in `DeviationOverDuration` are therefore hypotheses.
  Beyond them the statistics printed are not those of the I/Os: a percentile is looked for among
  2^32 fewer latencies than there are. `TablesAddUp`, whose counters have 64 bits, needs none.
- `StartsApart` compares the number of operations with `total_overlap` modulo 2^32, which is what an
  `unsigned` can say of it.

### How the proofs go

Few of the properties are inductive. In each module `IInv` (and invariants named `...Inv`)
strengthens them, with one lemma per action that it is preserved.

- **Job.** `AllSubmittedBeforeWarmup` speaks of workers, the code counts: `CountInv` ties
  `thread_counter` to the cardinality of the set of workers counted so far, and `WorkersBound` says
  that a set of workers with as many members as there are workers is all of them. `WorkerInv` says
  how many operations a worker has in flight at each place of its loop, `ErrorInv` follows an error
  through `thread_abort`, `LockInv` names the worker that left the engine locked: it was never
  counted, so that the job cannot have got past initialization.
- **Job and I/O.** `Superposes` needs no invariant: each step of `JobIO` is a conjunct of one of
  `JobRun`, or enqueues, which leaves `JobRun`'s variables alone. `OpsInv` says which operations a
  worker holds at each of its steps; the counters then follow one operation at a time.
  `OnOwnTarget` needs to know when a descriptor can be reused: `LeaveInv` says that, short of an
  abort or of a job that failed, nobody leaves before everybody has opened its target.
- **Engines.** `OwnOps` accounts for each operation: queued, outstanding or with its worker, in one
  of them only, and none lost by a worker that did not give up. With it the in-flight map can be
  compared with what the kernel has (`ArraysOwned` for the arrays of control blocks), or with the
  vectors of all groups: the POSIX map lags by the request a worker has started and not yet
  numbered, which `MapMatchesNumbered` leaves out. For `ScanSucceeds`, a worker that suspends has an
  operation in its vector, `aio_suspend` returns for one that is complete, and no other worker takes
  it. The refinement maps where an operation is to `AsyncIO`'s `place`.
- **Ids and texts.** `AssignIds` and `CpuSet` are recursive functions. Each is shown to have a
  solution, and that to have its property, by looking at the least counterexample (`LeastNatural`):
  for `CpuSet` at the last field of the text at which it would differ from what the text names.
- **Offsets.** `Inside` says of an offset that a block fits there and that it is on a sector, if need
  be. `ThreadsFit` is computed with numbers that wrap around; the lemmas about `Signed` and `Unsigned`
  say when they do not. `InBounds` is kept thread by thread (`Kept`), because the start of one may be
  outside and that of another not; only with `-si` does a thread's step move what all share, and
  then they all start at the same place. The sum of an offset and a stride may still overflow an `off_t`; compared as
  a `size_t` it is then past the end of the target, and the code starts over. `MemoryInv` says that
  a thread's buffers are those it allocated, wherever the allocator put them; that they are apart is
  then arithmetic.
- **Measurement.** `StampInv` and `RoomInv` place what a worker has in hand in time, `StragglerInv`
  counts what it can still record, `RateInv` says that nothing was recorded since it looked at its
  throughput. `RInv` compares each counter, histogram entry and bucket with the cardinality of the
  set of records it stands for, so that a record adds one to exactly one of each.
  `DeviationOverDuration` adds these cardinalities up: the records of the first `n` buckets, one
  bucket at a time (`CountByKey`), are those with a time below the end of bucket `n`; a vector that
  ends before the duration has no record beyond its end.
- **Sums.** A sum over a finite set is a fold. `SumTableExists` builds the table of the sums over all
  its subsets (`SubsetInduction`, which is the least cardinality at which it could fail), and from it
  follows that an element can be taken out of a sum whichever the fold takes first. On it rest the
  lemmas the report needs: sums of disjoint parts, of equal terms, of part of the terms, scaled sums,
  and that a sum over rows of sums over values is the sum over values of sums over rows (`SumSwaps`).
- **Report.** `OrderInv` says which tables are complete at each step and how long the one being printed
  is: without it a total could not be told from a row. `CpuInv` keeps, of the shares accumulated, that
  they are fractions of one denominator that make up all of it. `TableInv` says that a row shows the
  merge of its parts (`Accumulated`) and `total` that of the rows before: `HistogramOf` and
  `BucketsOf` compare a merged histogram or bucketizer with the sums over its parts modulo 2^32, and
  `HistogramOfParts` and `BucketsOfParts` show that merging two disjoint sets of parts gives that of
  both. When no sum wraps around, each moment of the merged histogram is the sum of the moments of its
  parts: both weigh the same counts (`Weigh`, by powers of the latency). The counts up to a latency
  are weighed by 0 and 1, so that the same lemmas give the percentiles. `LatencyInv` follows the
  histograms these are taken from; of the total column, which counts early rows more than once, it
  keeps only which latencies occur, which is why its extremes are exact and its percentiles are not.
- **Setup.** `FilesInv` says of a file, at each place of the loop, whether it is long enough
  (it will not be set up), too short (it will be), or was set up; `LayoutInv` follows the file
  position. A path named twice is why `Touched` and `SamePathInv` are needed. `PlacesInv` keeps what
  was checked of a target: from it follows that all threads start inside if the product did not
  overflow (`RoomForFirst`), and that one of them does not if it did (`OneOutside`): the first one
  whose distance from the base offset is `OffHalf` or more, since that distance is less than twice
  `OffHalf` and wraps around to a negative number. `SizesInv` bounds sizes and distances by
  `OffHalf` for this. `CpusInv` says that threads are pinned in turn: each CPU has had `q` threads,
  those up to the last one `q + 1`.

### What is only model-checked

- Everything temporal beyond safety (`Termination`, `CompletionsReturned`, `SetupEnds`,
  `WrapsAround`, `ReportCompletes`), which rests on fairness.
- What the violated runs show: a counterexample is a behaviour of the instance, and needs no proof.

What recursive functions and folds compute is proved where a theorem needs it, by least
counterexample, since the library's induction theorems take an operator and cannot be used.

## The plan

Done, in this order: the job and its workers (core, proved); both engines and their contract;
offsets; measurement; report; setup; the composition of job and engine; buffers; the whole command
line; CPU usage; extremes, mean and deviation of histograms; workers with several targets; the
theorems about all of these, the report last.

Left are the parts listed below as not modelled, and five hazards of `PROJECT.json` that no property
covers; each says there why, as do two that are covered by half.

## Not modelled

What buffers hold and the distribution of random numbers do not influence control. The text of
`/sys` and `/proc` is the operating system's; what the program does when reading it fails is in
`JobRun` (`StatsFatal`) and `Startup` (`LookUp`). Floating point is replaced by exact fractions.
Formatting, the options table of the report and debug output are wording. The splitting of `argv` is
argp's. The makefile and `tests.sh` run the program.

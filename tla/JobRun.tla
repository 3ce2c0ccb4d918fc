------------------------------- MODULE JobRun -------------------------------
(***************************************************************************)
(* Job::run_job (job.cc), from the creation of the worker threads to the   *)
(* return of main (diskspd.cc), interleaved with every worker's            *)
(* ThreadParams::thread_func and thread_abort (thread.cc).                 *)
(*                                                                         *)
(* The job and the workers share three volatile flags without a lock       *)
(* (run_threads, record_results, thread_error), a counter under            *)
(* thread_mutex and two condition variables.  Each critical section of     *)
(* thread_mutex is one step: waiting on a condition variable releases the  *)
(* mutex in the step that starts the wait.                                 *)
(***************************************************************************)

EXTENDS Naturals, FiniteSets

CONSTANTS
  Threads,          \* the workers: total_threads ThreadParams
  Overlap,          \* operations a worker keeps in flight (total_overlap of its targets)
  InitTimeouts,     \* waits of 1 ms the job allows for initialization (10000 in job.cc)
  Warmup,           \* options->warmup_time is not 0
  SpuriousWakeups   \* condition variables may wake without a notification

ASSUME JobAssumption ==
  /\ IsFiniteSet(Threads)
  /\ Overlap \in Nat \ {0}
  /\ InitTimeouts \in Nat \ {0}
  /\ Warmup \in BOOLEAN
  /\ SpuriousWakeups \in BOOLEAN

VARIABLES
  job_pc,           \* where run_job, then main, is
  thread_counter,   \* workers that submitted their first batch
  timeout_counter,  \* waits left before initialization is given up
  wake_status,      \* the cv_status of the wait of the main phase
  notified,         \* a notification reached the job's wait on thread_error_cv
  run_threads,
  record_results,
  thread_error,
  pc,               \* where each worker is
  initialized,      \* ThreadParams::initialized
  in_flight,        \* operations submitted and not yet returned by wait()
  finished,         \* those of in_flight the device has completed
  engine,           \* "kernel" or "posix" (-x)
  engine_locked,    \* groups_mutex left locked by a failed create_group
  signalled,        \* history: workers that have set thread_error
  job_alive,        \* the Job object exists
  process           \* "running" or "exited"

jobVars    == <<job_pc, thread_counter, timeout_counter, wake_status>>
flagVars   == <<run_threads, record_results, thread_error, notified, signalled>>
ioVars     == <<in_flight, finished, engine_locked>>
objectVars == <<engine, job_alive, process>>
vars       == <<jobVars, flagVars, pc, initialized, ioVars, objectVars>>

(* What a step that only moves the job, or only a worker, leaves alone.     *)
allButJobPc == <<thread_counter, timeout_counter, wake_status, flagVars, pc,
                 initialized, ioVars, objectVars>>
allButPc    == <<jobVars, flagVars, initialized, ioVars, objectVars>>

JobPc ==
  {"create", "init_wait", "init_done", "warmup", "warmup_wait", "main",
   "main_wait", "main_check", "stop", "join", "passed", "reported",
   "failed"}

WorkerPc ==
  {"new", "setup", "group", "fill", "submitted", "counted", "test", "enter",
   "wait", "reaped", "result", "record", "requeue", "abort", "signal",
   "notify", "dead"}

Status == {"timeout", "no_timeout"}

(***************************************************************************)
(* Type invariant.                                                         *)
(***************************************************************************)
TypeOK ==
  /\ job_pc \in JobPc
  /\ thread_counter \in 0 .. Cardinality(Threads)
  /\ timeout_counter \in 0 .. InitTimeouts
  /\ wake_status \in Status
  /\ run_threads \in BOOLEAN
  /\ record_results \in BOOLEAN
  /\ thread_error \in BOOLEAN
  /\ notified \in BOOLEAN
  /\ signalled \subseteq Threads
  /\ pc \in [Threads -> WorkerPc]
  /\ initialized \in [Threads -> BOOLEAN]
  /\ in_flight \in [Threads -> 0 .. Overlap]
  /\ finished \in [Threads -> 0 .. Overlap]
  /\ engine \in {"kernel", "posix"}
  /\ engine_locked \in BOOLEAN
  /\ job_alive \in BOOLEAN
  /\ process \in {"running", "exited"}

Init ==
  /\ job_pc = "create"
  /\ thread_counter = 0
  /\ timeout_counter = InitTimeouts
  /\ wake_status = "timeout"
  /\ run_threads = TRUE
  /\ record_results = FALSE
  /\ thread_error = FALSE
  /\ notified = FALSE
  /\ signalled = {}
  /\ pc = [t \in Threads |-> "new"]
  /\ initialized = [t \in Threads |-> FALSE]
  /\ in_flight = [t \in Threads |-> 0]
  /\ finished = [t \in Threads |-> 0]
  /\ engine \in {"kernel", "posix"}
  /\ engine_locked = FALSE
  /\ job_alive = TRUE
  /\ process = "running"

(* A worker's read of a flag of the Job.  Once the Job is destroyed the     *)
(* pointer dangles and the read may return anything.                        *)
ReadFlag(flag) == IF job_alive THEN {flag} ELSE BOOLEAN

Goto(t, from, to) ==
  /\ pc[t] = from
  /\ pc' = [pc EXCEPT ![t] = to]

JobGoto(from, to) ==
  /\ job_pc = from
  /\ job_pc' = to

-----------------------------------------------------------------------------
(***************************************************************************)
(* The job.                                                                *)
(***************************************************************************)

(* pthread_create succeeds for one more worker.                             *)
CreateThread(t) ==
  /\ job_pc = "create"
  /\ Goto(t, "new", "setup")
  /\ UNCHANGED allButPc

(* pthread_create, or setting the affinity of the last worker created,      *)
(* fails: run_job returns and the workers already created keep running.     *)
CreateFails ==
  /\ JobGoto("create", "failed")
  /\ UNCHANGED allButJobPc

(* Mutant: the initialization loop stops one worker early.                  *)
InitLoop_OneEarly ==
  IF thread_counter + 1 < Cardinality(Threads) THEN "init_wait" ELSE "init_done"

(* The condition of the initialization loop, under thread_mutex.            *)
InitLoop == IF thread_counter < Cardinality(Threads) THEN "init_wait" ELSE "init_done"

BeginInit ==
  /\ JobGoto("create", InitLoop)
  /\ \A t \in Threads : pc[t] # "new"
  /\ UNCHANGED allButJobPc

(* Mutant: the job waits until all workers are counted, come what may.      *)
InitWake_Untimed ==
  /\ JobGoto("init_wait", InitLoop)
  /\ UNCHANGED allButJobPc

(* thread_cv.wait_for returns: notified, spuriously or after 1 ms.  The     *)
(* error flag is looked at before the timeout count and the loop condition. *)
InitWake ==
  /\ job_pc = "init_wait"
  /\ IF thread_error
     THEN job_pc' = "init_done" /\ UNCHANGED timeout_counter
     ELSE \E status \in Status :
            /\ timeout_counter' = IF status = "timeout"
                                  THEN timeout_counter - 1 ELSE timeout_counter
            /\ job_pc' = IF timeout_counter' = 0 THEN "failed" ELSE InitLoop
  /\ UNCHANGED <<thread_counter, wake_status, flagVars, pc, initialized,
                 ioVars, objectVars>>

(* Mutant: no error check after the initialization loop.                    *)
InitDone_NoErrorCheck ==
  /\ JobGoto("init_done", IF Warmup THEN "warmup" ELSE "main")
  /\ UNCHANGED allButJobPc

(* The error check after the initialization loop.                           *)
InitDone ==
  /\ JobGoto("init_done", IF thread_error THEN "failed"
                          ELSE IF Warmup THEN "warmup" ELSE "main")
  /\ UNCHANGED allButJobPc

(* Start to wait on thread_error_cv.  Only a later notification counts.     *)
BeginWarmup ==
  /\ JobGoto("warmup", "warmup_wait")
  /\ notified' = FALSE
  /\ UNCHANGED <<thread_counter, timeout_counter, wake_status, run_threads,
                 record_results, thread_error, signalled, pc, initialized,
                 ioVars, objectVars>>

(* How thread_error_cv.wait_for may return.                                 *)
WakeWith(status) == status = "no_timeout" => notified \/ SpuriousWakeups

WarmupWake ==
  /\ \E status \in Status :
       /\ WakeWith(status)
       /\ JobGoto("warmup_wait", IF status = "no_timeout" \/ thread_error
                                 THEN "failed" ELSE "main")
  /\ UNCHANGED allButJobPc

(* Take the start time, start recording and wait.                           *)
BeginMain ==
  /\ JobGoto("main", "main_wait")
  /\ record_results' = TRUE
  /\ notified' = FALSE
  /\ UNCHANGED <<thread_counter, timeout_counter, wake_status, run_threads,
                 thread_error, signalled, pc, initialized, ioVars, objectVars>>

(* The wait returns and recording stops.                                    *)
MainWake ==
  /\ JobGoto("main_wait", "main_check")
  /\ \E status \in Status : WakeWith(status) /\ wake_status' = status
  /\ record_results' = FALSE
  /\ UNCHANGED <<thread_counter, timeout_counter, run_threads, thread_error,
                 notified, signalled, pc, initialized, ioVars, objectVars>>

(* Mutant: only the status of the wait decides, not thread_error.           *)
MainCheck_StatusOnly ==
  /\ JobGoto("main_check", IF wake_status = "no_timeout" THEN "failed" ELSE "stop")
  /\ UNCHANGED allButJobPc

MainCheck ==
  /\ JobGoto("main_check", IF wake_status = "no_timeout" \/ thread_error
                           THEN "failed" ELSE "stop")
  /\ UNCHANGED allButJobPc

StopThreads ==
  /\ JobGoto("stop", "join")
  /\ run_threads' = FALSE
  /\ UNCHANGED <<thread_counter, timeout_counter, wake_status, record_results,
                 thread_error, notified, signalled, pc, initialized, ioVars,
                 objectVars>>

(* Mutant: the workers are not joined.                                      *)
JoinAll_NoJoin ==
  /\ JobGoto("join", "passed")
  /\ UNCHANGED allButJobPc

(* pthread_join of every worker; run_job returns TRUE.                      *)
JoinAll ==
  /\ JobGoto("join", "passed")
  /\ \A t \in Threads : pc[t] = "dead"
  /\ UNCHANGED allButJobPc

(* main prints the results of a job that succeeded ...                      *)
Report ==
  /\ JobGoto("passed", "reported")
  /\ UNCHANGED allButJobPc

(* ... and returns, whatever the verdict: the Profile and its Job go away   *)
(* and then the process exits.                                              *)
Destroy ==
  /\ job_pc \in {"reported", "failed"}
  /\ job_alive
  /\ job_alive' = FALSE
  /\ UNCHANGED <<jobVars, flagVars, pc, initialized, ioVars, engine, process>>

Exit ==
  /\ ~job_alive
  /\ process' = "exited"
  /\ UNCHANGED <<jobVars, flagVars, pc, initialized, ioVars, engine, job_alive>>

-----------------------------------------------------------------------------
(***************************************************************************)
(* A worker: setup.                                                        *)
(***************************************************************************)

(* Engines, buffers, open(): any of the opens may fail.                     *)
Setup(t) ==
  /\ \E next \in {"group", "abort"} : Goto(t, "setup", next)
  /\ UNCHANGED allButPc

(* io_manager->create_group.  The kernel engine can fail in io_queue_init   *)
(* and then returns with groups_mutex locked.                               *)
CreateGroup(t) ==
  /\ ~engine_locked
  /\ \/ /\ Goto(t, "group", "fill")
        /\ UNCHANGED engine_locked
     \/ /\ engine = "kernel"
        /\ Goto(t, "group", "abort")
        /\ engine_locked' = TRUE
  /\ UNCHANGED <<jobVars, flagVars, initialized, in_flight, finished, objectVars>>

(* Mutant: one operation too many per batch.                                *)
SubmitFirst_OneTooMany(t) ==
  /\ ~engine_locked
  /\ Goto(t, "fill", "submitted")
  /\ in_flight' = [in_flight EXCEPT ![t] = Overlap + 1]
  /\ UNCHANGED <<jobVars, flagVars, initialized, finished, engine_locked, objectVars>>

(* Enqueue one operation per overlap and target and submit them together.   *)
(* A submission that fails may have started some of them.                   *)
SubmitFirst(t) ==
  /\ ~engine_locked
  /\ \/ /\ Goto(t, "fill", "submitted")
        /\ in_flight' = [in_flight EXCEPT ![t] = Overlap]
     \/ /\ Goto(t, "fill", "abort")
        /\ \E n \in 0 .. Overlap - 1 : in_flight' = [in_flight EXCEPT ![t] = n]
  /\ UNCHANGED <<jobVars, flagVars, initialized, finished, engine_locked, objectVars>>

(* thread_counter++ under thread_mutex.                                     *)
Count(t) ==
  /\ Goto(t, "submitted", "counted")
  /\ thread_counter' = thread_counter + 1
  /\ UNCHANGED <<job_pc, timeout_counter, wake_status, flagVars, initialized,
                 ioVars, objectVars>>

(* thread_cv.notify_one and initialized = true.  The job's wait on          *)
(* thread_cv returns every millisecond anyway (InitWake), so the            *)
(* notification itself leaves no state behind.                              *)
Announce(t) ==
  /\ Goto(t, "counted", "test")
  /\ initialized' = [initialized EXCEPT ![t] = TRUE]
  /\ UNCHANGED <<jobVars, flagVars, ioVars, objectVars>>

-----------------------------------------------------------------------------
(***************************************************************************)
(* A worker: the I/O loop.                                                 *)
(***************************************************************************)

(* The loop condition, run_threads.  A throttled iteration (-g) sleeps and  *)
(* comes back here, which changes nothing.                                  *)
LoopTest(t) ==
  /\ \E run \in ReadFlag(run_threads) :
       Goto(t, "test", IF run THEN "enter" ELSE "dead")
  /\ UNCHANGED allButPc

(* io_manager->wait: find the group under groups_mutex, then block.         *)
Enter(t) ==
  /\ ~engine_locked
  /\ Goto(t, "enter", "wait")
  /\ UNCHANGED allButPc

(* wait returns one completed operation ...                                 *)
Reap(t) ==
  /\ finished[t] > 0
  /\ Goto(t, "wait", "reaped")
  /\ in_flight' = [in_flight EXCEPT ![t] = @ - 1]
  /\ finished' = [finished EXCEPT ![t] = @ - 1]
  /\ UNCHANGED <<jobVars, flagVars, initialized, engine_locked, objectVars>>

(* ... or the system call fails and the engine exits the whole process.     *)
WaitFatal(t) ==
  /\ process = "running"
  /\ pc[t] = "wait"
  /\ process' = "exited"
  /\ UNCHANGED <<jobVars, flagVars, pc, initialized, ioVars, engine, job_alive>>

(* run_threads is read again; if reset the operation is dropped.            *)
CheckStop(t) ==
  /\ \E run \in ReadFlag(run_threads) :
       Goto(t, "reaped", IF run THEN "result" ELSE "dead")
  /\ UNCHANGED allButPc

(* The operation failed or transferred too little, or record_results is     *)
(* read to decide whether to record it.                                     *)
Result(t) ==
  /\ \/ Goto(t, "result", "abort")
     \/ \E rec \in ReadFlag(record_results) :
          Goto(t, "result", IF rec THEN "record" ELSE "requeue")
  /\ UNCHANGED allButPc

(* Update the TargetResults: "record" is the state in which the worker      *)
(* writes to them.                                                          *)
Record(t) ==
  /\ Goto(t, "record", "requeue")
  /\ UNCHANGED allButPc

(* Mutant: the operation is enqueued but not submitted.                     *)
Requeue_NoSubmit(t) ==
  /\ ~engine_locked
  /\ Goto(t, "requeue", "test")
  /\ UNCHANGED allButPc

(* enqueue and submit the operation again at its next offset.               *)
Requeue(t) ==
  /\ ~engine_locked
  /\ \/ /\ Goto(t, "requeue", "test")
        /\ in_flight' = [in_flight EXCEPT ![t] = @ + 1]
     \/ /\ Goto(t, "requeue", "abort")
        /\ UNCHANGED in_flight
  /\ UNCHANGED <<jobVars, flagVars, initialized, finished, engine_locked, objectVars>>

-----------------------------------------------------------------------------
(***************************************************************************)
(* A worker: thread_abort, three separate steps.                           *)
(***************************************************************************)

(* Mutant: the other workers are not told to stop.                          *)
AbortStop_OthersRun(t) ==
  /\ Goto(t, "abort", "signal")
  /\ UNCHANGED allButPc

AbortStop(t) ==
  /\ Goto(t, "abort", "signal")
  /\ run_threads' = FALSE
  /\ UNCHANGED <<jobVars, record_results, thread_error, notified, signalled,
                 initialized, ioVars, objectVars>>

AbortSignal(t) ==
  /\ Goto(t, "signal", IF initialized[t] THEN "notify" ELSE "dead")
  /\ thread_error' = TRUE
  /\ signalled' = signalled \cup {t}
  /\ UNCHANGED <<jobVars, run_threads, record_results, notified, initialized,
                 ioVars, objectVars>>

(* notify_one without thread_mutex: lost unless the job waits right now.    *)
AbortNotify(t) ==
  /\ Goto(t, "notify", "dead")
  /\ notified' = IF job_pc \in {"warmup_wait", "main_wait"} THEN TRUE ELSE notified
  /\ UNCHANGED <<jobVars, run_threads, record_results, thread_error, signalled,
                 initialized, ioVars, objectVars>>

-----------------------------------------------------------------------------
(* The device completes one operation of worker t.                          *)
Complete(t) ==
  /\ finished[t] < in_flight[t]
  /\ finished' = [finished EXCEPT ![t] = @ + 1]
  /\ UNCHANGED <<jobVars, flagVars, pc, initialized, in_flight, engine_locked, objectVars>>

(* get_cpu_stats, called before the start of the main phase and after its   *)
(* check: the process exits if /proc/stat no longer lists the CPUs that     *)
(* were online when it started, whatever the workers are doing.             *)
StatsFatal ==
  /\ process = "running"
  /\ job_pc \in {"main", "stop"}
  /\ process' = "exited"
  /\ UNCHANGED <<jobVars, flagVars, pc, initialized, ioVars, engine, job_alive>>

JobNext ==
  /\ process = "running"
  /\ \/ \E t \in Threads : CreateThread(t)
     \/ CreateFails \/ BeginInit \/ InitWake \/ InitDone
     \/ BeginWarmup \/ WarmupWake
     \/ BeginMain \/ MainWake \/ MainCheck
     \/ StopThreads \/ JoinAll \/ Report \/ Destroy \/ Exit

WorkerNext(t) ==
  /\ process = "running"
  /\ \/ Setup(t) \/ CreateGroup(t) \/ SubmitFirst(t) \/ Count(t) \/ Announce(t)
     \/ LoopTest(t) \/ Enter(t) \/ Reap(t) \/ CheckStop(t) \/ Result(t)
     \/ Record(t) \/ Requeue(t)
     \/ AbortStop(t) \/ AbortSignal(t) \/ AbortNotify(t)

DeviceNext(t) == process = "running" /\ Complete(t)

(* The process has exited.                                                  *)
Terminated == process = "exited" /\ UNCHANGED vars

Next ==
  \/ JobNext
  \/ StatsFatal
  \/ \E t \in Threads : WorkerNext(t) \/ WaitFatal(t) \/ DeviceNext(t)
  \/ Terminated

(* Every wait of the job has a timeout, so the job always runs on; the      *)
(* kernel schedules every worker that can run; a device completes what it   *)
(* was given.  No fairness makes a system call fail (WaitFatal, StatsFatal).*)
Fairness ==
  /\ WF_vars(JobNext)
  /\ \A t \in Threads : WF_vars(WorkerNext(t)) /\ WF_vars(DeviceNext(t))

SafetySpec == Init /\ [][Next]_vars

Spec == SafetySpec /\ Fairness

-----------------------------------------------------------------------------
(***************************************************************************)
(* Properties.                                                             *)
(***************************************************************************)

Initialized == {"warmup", "warmup_wait", "main", "main_wait", "main_check",
                "stop", "join", "passed", "reported"}

Succeeded   == {"passed", "reported"}

(* HOWITWORKS.md: workers "block the main thread (the Job) until they have  *)
(* submitted the first batch of I/O requests".  The job counts workers; the *)
(* property is about each one: once the job is past initialization every    *)
(* worker has submitted its batch.                                          *)
AllSubmittedBeforeWarmup ==
  job_pc \in Initialized =>
    \A t \in Threads : pc[t] \notin {"new", "setup", "group", "fill", "submitted"}

(* Results are only written from the start of the main phase on, and never  *)
(* when run_job has returned TRUE and main reads them: record_results is    *)
(* read unlocked, so a worker may still be writing long after it was reset. *)
RecordingConfined ==
  \A t \in Threads :
    (pc[t] = "record" /\ job_alive) =>
      job_pc \in {"main_wait", "main_check", "stop", "join", "failed"}

(* A worker blocked in wait() has an operation that can wake it up: without *)
(* one it would never look at run_threads again and could not be joined.    *)
WaitersHaveWork ==
  \A t \in Threads : pc[t] = "wait" => in_flight[t] > 0

(* thread_abort stops the workers before it raises the error, and nothing   *)
(* starts them again: a reported error implies the others were told to stop.*)
ErrorStopsWorkers == thread_error => ~run_threads

(* A worker that stays blocked on groups_mutex can only exist in a job that *)
(* is not going to join it.                                                 *)
NoJoinOfBlockedWorker == engine_locked => job_pc \notin Initialized

(* The process always ends, whatever fails and wherever workers are blocked.*)
Termination == <>(process = "exited")

(* run_job implements the contract its callers rely on.                     *)
Contract == INSTANCE JobContract WITH
  phase   <- CASE job_pc \in {"create", "init_wait", "init_done"} -> "starting"
               [] job_pc \in {"warmup", "warmup_wait"} -> "warming"
               [] job_pc \in {"main", "main_wait", "main_check"} -> "measuring"
               [] job_pc \in {"stop", "join"} -> "draining"
               [] job_pc \in Succeeded -> "passed"
               [] OTHER -> "failed",
  running <- {t \in Threads : pc[t] \notin {"new", "dead"}},
  broken  <- signalled

ImplementsContract == Contract!Spec

-----------------------------------------------------------------------------
(* What comments and documents say and the code does not do.                *)

(* thread.h:48: the job pointer of a ThreadParams is "guaranteed to exist   *)
(* as long as this ThreadParams does".                                      *)
JobOutlivesWorkers ==
  (process = "running" /\ ~job_alive) => \A t \in Threads : pc[t] \in {"new", "dead"}
=============================================================================

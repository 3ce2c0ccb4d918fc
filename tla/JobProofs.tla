------------------------------ MODULE JobProofs ------------------------------
(***************************************************************************)
(* Theorems about the job for every number of workers, every overlap and   *)
(* every timeout.  First JobRun: the safety invariants the runs check, and *)
(* that run_job implements JobContract.  Then the job with its I/O: every  *)
(* behaviour of JobIO is one of JobRun, so what is proved of JobRun holds  *)
(* of JobIO.  And what JobIO adds: the counters of a worker are those of   *)
(* its operations, the descriptor it uses is its own.                      *)
(***************************************************************************)

EXTENDS JobIO, DataLemmas

-----------------------------------------------------------------------------
(***************************************************************************)
(* The inductive invariant.                                                *)
(***************************************************************************)

(* Where a worker is before its first batch is submitted, with its full     *)
(* overlap in flight, with one operation in hand, and in thread_abort.      *)
Early    == {"new", "setup", "group", "fill"}
FullLoop == {"test", "enter", "wait"}
Full     == {"submitted", "counted"} \cup FullLoop
Short    == {"reaped", "result", "record", "requeue"}
Ending   == {"abort", "signal", "notify", "dead"}

(* The workers thread_counter has counted.  A worker in thread_abort may or *)
(* may not be one of them: its initialized flag tells.                      *)
Counted == {t \in Threads : pc[t] = "counted" \/ initialized[t]}

(* What each worker keeps to itself.                                        *)
WorkerInv ==
  \A t \in Threads :
    /\ initialized[t] => pc[t] \in FullLoop \cup Short \cup Ending
    /\ pc[t] \in FullLoop \cup Short \cup {"notify"} => initialized[t]
    /\ pc[t] \in Early => in_flight[t] = 0
    /\ pc[t] \in Full => in_flight[t] = Overlap
    /\ pc[t] \in Short => in_flight[t] = Overlap - 1
    /\ finished[t] <= in_flight[t]

(* thread_counter counts, so the job passes initialization with everyone.   *)
CountInv ==
  /\ thread_counter = Cardinality(Counted)
  /\ job_pc = "init_done" => thread_error \/ Counted = Threads
  /\ job_pc \in Initialized => Counted = Threads

(* The job's own bookkeeping.                                               *)
JobInv ==
  /\ job_pc \in {"create", "init_wait"} => timeout_counter > 0
  /\ record_results => job_pc = "main_wait"
  /\ ~job_alive => job_pc \in {"reported", "failed"}
  /\ job_pc \in Succeeded => \A t \in Threads : pc[t] = "dead"

(* How an error spreads: first the stop, then the flag.                     *)
ErrorInv ==
  /\ thread_error <=> signalled # {}
  /\ thread_error => ~run_threads
  /\ \A t \in Threads : pc[t] = "signal" => ~run_threads

(* A locked engine has a culprit, which never was and never gets counted.   *)
LockInv ==
  engine_locked =>
    \E t \in Threads : ~initialized[t] /\ pc[t] \in {"abort", "signal", "dead"}

IInv ==
  /\ TypeOK
  /\ WorkerInv
  /\ CountInv
  /\ JobInv
  /\ ErrorInv
  /\ LockInv
  /\ RecordingConfined

-----------------------------------------------------------------------------
(***************************************************************************)
(* Lemmas.                                                                 *)
(***************************************************************************)

(* A set of workers has at most as many members as there are workers, and   *)
(* as many only if it is all of them: what lets a counter stand for the set *)
(* in the condition of the initialization loop.                             *)
LEMMA WorkersBound ==
  ASSUME NEW S \in SUBSET Threads
  PROVE  /\ Cardinality(S) \in 0 .. Cardinality(Threads)
         /\ ~(Cardinality(S) < Cardinality(Threads)) => S = Threads
<1>1. IsFiniteSet(Threads)
  BY JobAssumption DEF JobAssumption
<1>2. Cardinality(Threads) \in Nat /\ Cardinality(S) \in Nat
  BY <1>1, FS_CardinalityType, FS_Subset
<1> QED
  BY <1>1, <1>2, FS_Subset

(* The invariant holds initially: no worker is counted.                     *)
LEMMA InitIInv == Init => IInv
<1> SUFFICES ASSUME Init PROVE IInv
  OBVIOUS
<1>1. Counted = {} /\ Cardinality({}) = 0
  BY FS_EmptySet DEF Init, Counted
<1>2. TypeOK
  <2>1. 0 \in 0 .. Cardinality(Threads)
    BY <1>1, WorkersBound
  <2>2. 0 \in 0 .. Overlap /\ InitTimeouts \in 0 .. InitTimeouts
    BY JobAssumption DEF JobAssumption
  <2>3. initialized \in [Threads -> BOOLEAN]
    BY DEF Init
  <2> QED
    BY <2>1, <2>2, <2>3 DEF Init, TypeOK, JobPc, WorkerPc, Status
<1>3. CountInv
  BY <1>1 DEF Init, CountInv, Initialized
<1> QED
  BY <1>2, <1>3, JobAssumption
  DEF JobAssumption, Init, IInv, WorkerInv, JobInv, ErrorInv, LockInv,
      RecordingConfined, Early, Full, FullLoop, Short, Succeeded

(* A step that starts, counts and initializes no worker keeps what is said  *)
(* of the count, unless it is the job's and leaves the initialization loop. *)
LEMMA SameCount ==
  ASSUME IInv, Counted' = Counted, thread_counter' = thread_counter,
         thread_error => thread_error',
         job_pc' = "init_done" => thread_error \/ Counted = Threads,
         job_pc' \in Initialized => Counted = Threads
  PROVE  CountInv'
BY DEF IInv, CountInv, Initialized

-----------------------------------------------------------------------------
(***************************************************************************)
(* The steps of the job.                                                   *)
(***************************************************************************)

(* The parts of the invariant but the count, under a step of the job.       *)
LEMMA JobStep ==
  ASSUME IInv, JobNext
  PROVE  IInv'
<1> USE DEF jobVars, flagVars, ioVars, objectVars, JobGoto,
        allButJobPc, allButPc
<1>0. ASSUME NEW t \in Threads, CreateThread(t)
      PROVE  IInv'
  <2>1. Counted' = Counted /\ CountInv'
    <3>1. Counted' = Counted
      BY <1>0 DEF CreateThread, Goto, Counted, IInv, TypeOK
    <3> QED
      BY <1>0, <3>1, SameCount DEF CreateThread, Goto, Initialized
  <2>2. WorkerInv'
    BY <1>0 DEF CreateThread, Goto, IInv, TypeOK, WorkerInv, Early, Full,
                FullLoop, Short, Ending, WorkerPc
  <2> QED
    BY <1>0, <2>1, <2>2
    DEF CreateThread, Goto, IInv, TypeOK, JobInv, ErrorInv, LockInv,
        RecordingConfined, WorkerPc, Succeeded
<1>1. CASE CreateFails
  <2>1. Counted' = Counted /\ CountInv'
    <3>1. Counted' = Counted
      BY <1>1 DEF CreateFails, Counted
    <3> QED
      BY <1>1, <3>1, SameCount DEF CreateFails, IInv, CountInv, Initialized
  <2> QED
    BY <1>1, <2>1
    DEF CreateFails, IInv, TypeOK, WorkerInv, JobInv, ErrorInv, LockInv,
        RecordingConfined, JobPc, Succeeded
<1>2. CASE BeginInit
  <2>1. Counted' = Counted
    BY <1>2 DEF BeginInit, Counted
  <2>2. ~(thread_counter < Cardinality(Threads)) => Counted = Threads
    BY WorkersBound DEF IInv, CountInv, Counted
  <2>3. CountInv'
    BY <1>2, <2>1, <2>2, SameCount DEF BeginInit, InitLoop, Initialized
  <2> QED
    BY <1>2, <2>3, JobAssumption
    DEF BeginInit, InitLoop, JobAssumption, IInv, TypeOK, WorkerInv, JobInv,
        ErrorInv, LockInv, RecordingConfined, JobPc, Succeeded, Status
<1>3. CASE InitWake
  <2>1. Counted' = Counted
    BY <1>3 DEF InitWake, Counted
  <2>2. ~(thread_counter < Cardinality(Threads)) => Counted = Threads
    BY WorkersBound DEF IInv, CountInv, Counted
  <2>3. CountInv'
    BY <1>3, <2>1, <2>2, SameCount DEF InitWake, InitLoop, Initialized
  <2> QED
    BY <1>3, <2>3, JobAssumption
    DEF InitWake, InitLoop, JobAssumption, IInv, TypeOK, WorkerInv, JobInv,
        ErrorInv, LockInv, RecordingConfined, JobPc, Succeeded, Status
<1>4. CASE InitDone
  <2>1. Counted' = Counted /\ CountInv'
    <3>1. Counted' = Counted
      BY <1>4 DEF InitDone, Counted
    <3> QED
      BY <1>4, <3>1, SameCount DEF InitDone, IInv, CountInv, Initialized
  <2> QED
    BY <1>4, <2>1
    DEF InitDone, IInv, TypeOK, WorkerInv, JobInv, ErrorInv, LockInv,
        RecordingConfined, JobPc, Succeeded
<1>5. CASE BeginWarmup
  <2>1. Counted' = Counted /\ CountInv'
    <3>1. Counted' = Counted
      BY <1>5 DEF BeginWarmup, Counted
    <3> QED
      BY <1>5, <3>1, SameCount DEF BeginWarmup, IInv, CountInv, Initialized
  <2> QED
    BY <1>5, <2>1
    DEF BeginWarmup, IInv, TypeOK, WorkerInv, JobInv, ErrorInv, LockInv,
        RecordingConfined, JobPc, Succeeded
<1>6. CASE WarmupWake
  <2>1. Counted' = Counted /\ CountInv'
    <3>1. Counted' = Counted
      BY <1>6 DEF WarmupWake, Counted
    <3> QED
      BY <1>6, <3>1, SameCount DEF WarmupWake, IInv, CountInv, Initialized
  <2> QED
    BY <1>6, <2>1
    DEF WarmupWake, IInv, TypeOK, WorkerInv, JobInv, ErrorInv, LockInv,
        RecordingConfined, JobPc, Succeeded
<1>7. CASE BeginMain
  <2>1. Counted' = Counted /\ CountInv'
    <3>1. Counted' = Counted
      BY <1>7 DEF BeginMain, Counted
    <3> QED
      BY <1>7, <3>1, SameCount DEF BeginMain, IInv, CountInv, Initialized
  <2> QED
    BY <1>7, <2>1
    DEF BeginMain, IInv, TypeOK, WorkerInv, JobInv, ErrorInv, LockInv,
        RecordingConfined, JobPc, Succeeded
<1>8. CASE MainWake
  <2>1. Counted' = Counted /\ CountInv'
    <3>1. Counted' = Counted
      BY <1>8 DEF MainWake, Counted
    <3> QED
      BY <1>8, <3>1, SameCount DEF MainWake, IInv, CountInv, Initialized
  <2> QED
    BY <1>8, <2>1
    DEF MainWake, IInv, TypeOK, WorkerInv, JobInv, ErrorInv, LockInv,
        RecordingConfined, JobPc, Succeeded, Status
<1>9. CASE MainCheck
  <2>1. Counted' = Counted /\ CountInv'
    <3>1. Counted' = Counted
      BY <1>9 DEF MainCheck, Counted
    <3> QED
      BY <1>9, <3>1, SameCount DEF MainCheck, IInv, CountInv, Initialized
  <2> QED
    BY <1>9, <2>1
    DEF MainCheck, IInv, TypeOK, WorkerInv, JobInv, ErrorInv, LockInv,
        RecordingConfined, JobPc, Succeeded
<1>10. CASE StopThreads
  <2>1. Counted' = Counted /\ CountInv'
    <3>1. Counted' = Counted
      BY <1>10 DEF StopThreads, Counted
    <3> QED
      BY <1>10, <3>1, SameCount DEF StopThreads, IInv, CountInv, Initialized
  <2> QED
    BY <1>10, <2>1
    DEF StopThreads, IInv, TypeOK, WorkerInv, JobInv, ErrorInv, LockInv,
        RecordingConfined, JobPc, Succeeded
<1>11. CASE JoinAll
  <2>1. Counted' = Counted /\ CountInv'
    <3>1. Counted' = Counted
      BY <1>11 DEF JoinAll, Counted
    <3> QED
      BY <1>11, <3>1, SameCount DEF JoinAll, IInv, CountInv, Initialized
  <2> QED
    BY <1>11, <2>1
    DEF JoinAll, IInv, TypeOK, WorkerInv, JobInv, ErrorInv, LockInv,
        RecordingConfined, JobPc, Succeeded
<1>12. CASE Report
  <2>1. Counted' = Counted /\ CountInv'
    <3>1. Counted' = Counted
      BY <1>12 DEF Report, Counted
    <3> QED
      BY <1>12, <3>1, SameCount DEF Report, IInv, CountInv, Initialized
  <2> QED
    BY <1>12, <2>1
    DEF Report, IInv, TypeOK, WorkerInv, JobInv, ErrorInv, LockInv,
        RecordingConfined, JobPc, Succeeded
<1>13. CASE Destroy
  <2>1. Counted' = Counted /\ CountInv'
    <3>1. Counted' = Counted
      BY <1>13 DEF Destroy, Counted
    <3> QED
      BY <1>13, <3>1, SameCount DEF Destroy, IInv, CountInv, Initialized
  <2> QED
    BY <1>13, <2>1
    DEF Destroy, IInv, TypeOK, WorkerInv, JobInv, ErrorInv, LockInv,
        RecordingConfined, JobPc, Succeeded
<1>14. CASE Exit
  <2>1. Counted' = Counted /\ CountInv'
    <3>1. Counted' = Counted
      BY <1>14 DEF Exit, Counted
    <3> QED
      BY <1>14, <3>1, SameCount DEF Exit, IInv, CountInv, Initialized
  <2> QED
    BY <1>14, <2>1
    DEF Exit, IInv, TypeOK, WorkerInv, JobInv, ErrorInv, LockInv,
        RecordingConfined, JobPc, Succeeded
<1> QED
  BY <1>0, <1>1, <1>2, <1>3, <1>4, <1>5, <1>6, <1>7,
     <1>8, <1>9, <1>10, <1>11, <1>12, <1>13, <1>14
  DEF JobNext

-----------------------------------------------------------------------------
(***************************************************************************)
(* The steps of a worker, of its device, and the fatal exit.               *)
(***************************************************************************)

(* thread_func from its first step to its last, and thread_abort.           *)
LEMMA WorkerStep ==
  ASSUME IInv, NEW t \in Threads, WorkerNext(t)
  PROVE  IInv'
<1> USE JobAssumption DEF JobAssumption, jobVars, flagVars, ioVars, objectVars,
        allButPc, Goto, ReadFlag, WorkerPc, Early, Full, FullLoop, Short, Ending, Succeeded
<1>1. CASE Setup(t)
  <2>1. Counted' = Counted
    BY <1>1 DEF Setup, Counted, IInv, TypeOK, WorkerInv
  <2>2. CountInv'
    BY <1>1, <2>1, SameCount DEF Setup, IInv, CountInv, Initialized
  <2> QED
    BY <1>1, <2>2
    DEF Setup, IInv, TypeOK, WorkerInv, JobInv, ErrorInv, LockInv,
        RecordingConfined
<1>2. CASE CreateGroup(t)
  <2>1. Counted' = Counted
    BY <1>2 DEF CreateGroup, Counted, IInv, TypeOK, WorkerInv
  <2>2. CountInv'
    BY <1>2, <2>1, SameCount DEF CreateGroup, IInv, CountInv, Initialized
  <2>3. LockInv'
    <3>1. CASE pc'[t] = "abort"
      <4>1. ~initialized'[t]
        BY <1>2 DEF CreateGroup, IInv, WorkerInv
      <4> QED
        BY <3>1, <4>1 DEF LockInv
    <3>2. CASE pc'[t] = "fill"
      BY <1>2, <3>2 DEF CreateGroup, IInv, TypeOK, LockInv
    <3> QED
      BY <1>2, <3>1, <3>2 DEF CreateGroup, IInv, TypeOK
  <2>4. TypeOK'
    BY <1>2 DEF CreateGroup, IInv, TypeOK
  <2>5. WorkerInv'
    BY <1>2 DEF CreateGroup, IInv, TypeOK, WorkerInv
  <2>6. JobInv' /\ ErrorInv' /\ RecordingConfined'
    BY <1>2 DEF CreateGroup, IInv, TypeOK, JobInv, ErrorInv, RecordingConfined
  <2> QED
    BY <2>2, <2>3, <2>4, <2>5, <2>6 DEF IInv
<1>3. CASE SubmitFirst(t)
  <2>1. Counted' = Counted
    BY <1>3 DEF SubmitFirst, Counted, IInv, TypeOK, WorkerInv
  <2>2. CountInv'
    BY <1>3, <2>1, SameCount DEF SubmitFirst, IInv, CountInv, Initialized
  <2> QED
    BY <1>3, <2>2
    DEF SubmitFirst, IInv, TypeOK, WorkerInv, JobInv, ErrorInv, LockInv,
        RecordingConfined
<1>4. CASE Count(t)
  <2>1. /\ t \notin Counted
        /\ Counted' = Counted \cup {t}
    BY <1>4 DEF Count, Counted, IInv, TypeOK, WorkerInv
  <2>2. IsFiniteSet(Counted)
    BY FS_Subset DEF Counted
  <2>3. Cardinality(Counted') = thread_counter'
    BY <1>4, <2>1, <2>2, FS_AddElement DEF Count, IInv, CountInv
  <2>4. CountInv' /\ thread_counter' \in 0 .. Cardinality(Threads)
    <3>1. Counted' \in SUBSET Threads
      BY DEF Counted
    <3> QED
      BY <1>4, <2>1, <2>3, <3>1, WorkersBound DEF Count, IInv, CountInv, Initialized
  <2> QED
    BY <1>4, <2>4
    DEF Count, IInv, TypeOK, WorkerInv, JobInv, ErrorInv, LockInv,
        RecordingConfined
<1>5. CASE Announce(t)
  <2>1. Counted' = Counted
    BY <1>5 DEF Announce, Counted, IInv, TypeOK, WorkerInv
  <2>2. CountInv'
    BY <1>5, <2>1, SameCount DEF Announce, IInv, CountInv, Initialized
  <2> QED
    BY <1>5, <2>2
    DEF Announce, IInv, TypeOK, WorkerInv, JobInv, ErrorInv, LockInv,
        RecordingConfined
<1>6. CASE LoopTest(t)
  <2>1. Counted' = Counted
    BY <1>6 DEF LoopTest, Counted, IInv, TypeOK, WorkerInv
  <2>2. CountInv'
    BY <1>6, <2>1, SameCount DEF LoopTest, IInv, CountInv, Initialized
  <2> QED
    BY <1>6, <2>2
    DEF LoopTest, IInv, TypeOK, WorkerInv, JobInv, ErrorInv, LockInv,
        RecordingConfined
<1>7. CASE Enter(t)
  <2>1. Counted' = Counted
    BY <1>7 DEF Enter, Counted, IInv, TypeOK, WorkerInv
  <2>2. CountInv'
    BY <1>7, <2>1, SameCount DEF Enter, IInv, CountInv, Initialized
  <2> QED
    BY <1>7, <2>2
    DEF Enter, IInv, TypeOK, WorkerInv, JobInv, ErrorInv, LockInv,
        RecordingConfined
<1>8. CASE Reap(t)
  <2>1. Counted' = Counted
    BY <1>8 DEF Reap, Counted, IInv, TypeOK, WorkerInv
  <2>2. CountInv'
    BY <1>8, <2>1, SameCount DEF Reap, IInv, CountInv, Initialized
  <2> QED
    BY <1>8, <2>2
    DEF Reap, IInv, TypeOK, WorkerInv, JobInv, ErrorInv, LockInv,
        RecordingConfined
<1>9. CASE CheckStop(t)
  <2>1. Counted' = Counted
    BY <1>9 DEF CheckStop, Counted, IInv, TypeOK, WorkerInv
  <2>2. CountInv'
    BY <1>9, <2>1, SameCount DEF CheckStop, IInv, CountInv, Initialized
  <2> QED
    BY <1>9, <2>2
    DEF CheckStop, IInv, TypeOK, WorkerInv, JobInv, ErrorInv, LockInv,
        RecordingConfined
<1>10. CASE Result(t)
  <2>1. Counted' = Counted
    BY <1>10 DEF Result, Counted, IInv, TypeOK, WorkerInv
  <2>2. CountInv'
    BY <1>10, <2>1, SameCount DEF Result, IInv, CountInv, Initialized
  <2> QED
    BY <1>10, <2>2
    DEF Result, IInv, TypeOK, WorkerInv, JobInv, ErrorInv, LockInv,
        RecordingConfined
<1>11. CASE Record(t)
  <2>1. Counted' = Counted
    BY <1>11 DEF Record, Counted, IInv, TypeOK, WorkerInv
  <2>2. CountInv'
    BY <1>11, <2>1, SameCount DEF Record, IInv, CountInv, Initialized
  <2> QED
    BY <1>11, <2>2
    DEF Record, IInv, TypeOK, WorkerInv, JobInv, ErrorInv, LockInv,
        RecordingConfined
<1>12. CASE Requeue(t)
  <2>1. Counted' = Counted
    BY <1>12 DEF Requeue, Counted, IInv, TypeOK, WorkerInv
  <2>2. CountInv'
    BY <1>12, <2>1, SameCount DEF Requeue, IInv, CountInv, Initialized
  <2> QED
    BY <1>12, <2>2
    DEF Requeue, IInv, TypeOK, WorkerInv, JobInv, ErrorInv, LockInv,
        RecordingConfined
<1>13. CASE AbortStop(t)
  <2>1. Counted' = Counted
    BY <1>13 DEF AbortStop, Counted, IInv, TypeOK, WorkerInv
  <2>2. CountInv'
    BY <1>13, <2>1, SameCount DEF AbortStop, IInv, CountInv, Initialized
  <2> QED
    BY <1>13, <2>2
    DEF AbortStop, IInv, TypeOK, WorkerInv, JobInv, ErrorInv, LockInv,
        RecordingConfined
<1>14. CASE AbortSignal(t)
  <2>1. Counted' = Counted
    BY <1>14 DEF AbortSignal, Counted, IInv, TypeOK, WorkerInv
  <2>2. CountInv'
    BY <1>14, <2>1, SameCount DEF AbortSignal, IInv, CountInv, Initialized
  <2> QED
    BY <1>14, <2>2
    DEF AbortSignal, IInv, TypeOK, WorkerInv, JobInv, ErrorInv, LockInv,
        RecordingConfined
<1>15. CASE AbortNotify(t)
  <2>1. Counted' = Counted
    BY <1>15 DEF AbortNotify, Counted, IInv, TypeOK, WorkerInv
  <2>2. CountInv'
    BY <1>15, <2>1, SameCount DEF AbortNotify, IInv, CountInv, Initialized
  <2> QED
    BY <1>15, <2>2
    DEF AbortNotify, IInv, TypeOK, WorkerInv, JobInv, ErrorInv, LockInv,
        RecordingConfined
<1> QED
  BY <1>1, <1>2, <1>3, <1>4, <1>5, <1>6, <1>7, <1>8,
     <1>9, <1>10, <1>11, <1>12, <1>13, <1>14, <1>15
  DEF WorkerNext

(* An operation completes, or waiting for one ends the process.             *)
LEMMA OtherStep ==
  ASSUME IInv, NEW t \in Threads, DeviceNext(t) \/ WaitFatal(t)
  PROVE  IInv'
<1> USE DEF jobVars, flagVars, ioVars, objectVars
<1>1. Counted' = Counted
  BY DEF DeviceNext, Complete, WaitFatal, Counted
<1>2. CountInv'
  BY <1>1, SameCount DEF DeviceNext, Complete, WaitFatal, IInv, CountInv, Initialized
<1> QED
  BY <1>2, JobAssumption
  DEF JobAssumption, DeviceNext, Complete, WaitFatal, IInv, TypeOK, WorkerInv,
      JobInv, ErrorInv, LockInv, RecordingConfined, Succeeded

(* The exit of get_cpu_stats leaves the job and its workers where they are. *)
LEMMA StatsStep == IInv /\ StatsFatal => IInv'
<1> SUFFICES ASSUME IInv, StatsFatal PROVE IInv'
  OBVIOUS
<1> USE DEF jobVars, flagVars, ioVars, objectVars
<1>1. Counted' = Counted
  BY DEF StatsFatal, Counted
<1>2. CountInv'
  BY <1>1, SameCount DEF StatsFatal, IInv, CountInv, Initialized
<1> QED
  BY <1>2 DEF StatsFatal, IInv, TypeOK, WorkerInv, JobInv, ErrorInv, LockInv,
      RecordingConfined, Succeeded

(* The invariant is inductive: every step of the system preserves it.       *)
THEOREM Inductive == IInv /\ [Next]_vars => IInv'
<1> SUFFICES ASSUME IInv, [Next]_vars PROVE IInv'
  OBVIOUS
<1>1. CASE JobNext
  BY <1>1, JobStep
<1>2. ASSUME NEW t \in Threads, WorkerNext(t) PROVE IInv'
  BY <1>2, WorkerStep
<1>3. ASSUME NEW t \in Threads, WaitFatal(t) \/ DeviceNext(t) PROVE IInv'
  BY <1>3, OtherStep
<1>4. CASE StatsFatal
  BY <1>4, StatsStep
<1>5. CASE UNCHANGED vars
  BY <1>5 DEF vars, jobVars, flagVars, ioVars, objectVars, IInv, TypeOK,
      WorkerInv, CountInv, JobInv, ErrorInv, LockInv, RecordingConfined, Counted
<1> QED
  BY <1>1, <1>2, <1>3, <1>4, <1>5 DEF Next, Terminated

(* The invariant always holds.                                              *)
THEOREM Invariance == SafetySpec => []IInv
<1> QED
  BY InitIInv, Inductive, PTL DEF SafetySpec

-----------------------------------------------------------------------------
(***************************************************************************)
(* What the invariant implies.                                             *)
(***************************************************************************)

(* Every variable has its type: in particular thread_counter never counts a *)
(* worker twice and timeout_counter is never negative.                      *)
THEOREM TypeCorrect == SafetySpec => []TypeOK
<1>1. IInv => TypeOK
  BY DEF IInv
<1> QED
  BY <1>1, Invariance, PTL

(* run_job leaves initialization without an error only when every worker    *)
(* has submitted its first batch.                                           *)
THEOREM StartsTogether == SafetySpec => []AllSubmittedBeforeWarmup
<1>1. IInv => AllSubmittedBeforeWarmup
  BY DEF IInv, AllSubmittedBeforeWarmup, CountInv, Counted, WorkerInv,
         FullLoop, Short, Ending
<1> QED
  BY <1>1, Invariance, PTL

(* Results are written only between the start of the main phase and the     *)
(* join, or in a job that failed and prints nothing.                        *)
THEOREM RecordsInTime == SafetySpec => []RecordingConfined
<1>1. IInv => RecordingConfined
  BY DEF IInv
<1> QED
  BY <1>1, Invariance, PTL

(* No worker blocks in wait() with nothing in flight.                       *)
THEOREM NobodyWaitsForNothing == SafetySpec => []WaitersHaveWork
<1>1. IInv => WaitersHaveWork
  BY JobAssumption
  DEF JobAssumption, IInv, WaitersHaveWork, WorkerInv, Full, FullLoop
<1> QED
  BY <1>1, Invariance, PTL

(* A reported error finds all workers told to stop.                         *)
THEOREM StopPrecedesError == SafetySpec => []ErrorStopsWorkers
<1>1. IInv => ErrorStopsWorkers
  BY DEF IInv, ErrorInv, ErrorStopsWorkers
<1> QED
  BY <1>1, Invariance, PTL

(* A job that joins never has a worker blocked on a leaked groups_mutex.    *)
THEOREM LockedEngineFails == SafetySpec => []NoJoinOfBlockedWorker
<1>1. IInv => NoJoinOfBlockedWorker
  BY DEF IInv, NoJoinOfBlockedWorker, LockInv, CountInv, Counted
<1> QED
  BY <1>1, Invariance, PTL

-----------------------------------------------------------------------------
(***************************************************************************)
(* run_job implements its contract.                                        *)
(***************************************************************************)

(* A job that has not begun is one that runs nothing.                       *)
LEMMA InitImplements == Init => Contract!Init
BY DEF Init, Contract!Init, Succeeded

(* The abstract view of a state, for the steps that do not change it.       *)
LEMMA Stutter ==
  ASSUME UNCHANGED job_pc, UNCHANGED signalled,
         \A t \in Threads : pc'[t] \in {"new", "dead"} <=> pc[t] \in {"new", "dead"}
  PROVE  UNCHANGED Contract!vars
BY DEF Contract!vars, Succeeded

(* A step of the job is a step of the contract or changes nothing it sees.  *)
LEMMA JobImplements ==
  ASSUME IInv, JobNext
  PROVE  [Contract!Next]_(Contract!vars)
<1> USE DEF jobVars, flagVars, allButJobPc, allButPc, JobGoto, Goto, Succeeded,
        Contract!vars
<1>1. ASSUME NEW t \in Threads, CreateThread(t)
      PROVE  Contract!Start(t)
  BY <1>1 DEF CreateThread, Contract!Start, IInv, TypeOK
<1>2. CASE CreateFails \/ (InitWake /\ job_pc' = "failed")
  BY <1>2 DEF CreateFails, InitWake, Contract!Next, Contract!Fail, Contract!Open
<1>3. CASE BeginInit \/ (InitWake /\ job_pc' # "failed")
  BY <1>3 DEF BeginInit, InitWake, InitLoop
<1>4. CASE InitDone
  BY <1>4 DEF InitDone, IInv, ErrorInv, Contract!Next, Contract!Advance,
              Contract!Fail, Contract!Open
<1>5. CASE WarmupWake
  BY <1>5 DEF WarmupWake, IInv, ErrorInv, Contract!Next, Contract!Advance,
              Contract!Fail, Contract!Open
<1>6. CASE MainCheck
  BY <1>6 DEF MainCheck, IInv, ErrorInv, Contract!Next, Contract!Advance,
              Contract!Fail, Contract!Open
<1>7. CASE JoinAll
  BY <1>7 DEF JoinAll, Contract!Next, Contract!Pass
<1>8. CASE BeginWarmup \/ BeginMain \/ MainWake \/ StopThreads
  BY <1>8 DEF BeginWarmup, BeginMain, MainWake, StopThreads
<1>9. CASE Report \/ Destroy \/ Exit
  BY <1>9 DEF Report, Destroy, Exit
<1> QED
  BY <1>1, <1>2, <1>3, <1>4, <1>5, <1>6, <1>7, <1>8, <1>9
  DEF JobNext, Contract!Next

(* So is a step of a worker: it is seen when it reports an error or ends.   *)
LEMMA WorkerImplements ==
  ASSUME IInv, NEW t \in Threads, WorkerNext(t)
  PROVE  [Contract!Next]_(Contract!vars)
<1> USE DEF jobVars, flagVars, allButPc, Goto, ReadFlag, IInv, TypeOK
<1>1. CASE Setup(t) \/ CreateGroup(t) \/ SubmitFirst(t) \/ Count(t) \/ Announce(t)
  BY <1>1, Stutter DEF Setup, CreateGroup, SubmitFirst, Count, Announce
<1>2. CASE Enter(t) \/ Reap(t) \/ Result(t) \/ Record(t) \/ Requeue(t) \/ AbortStop(t)
  BY <1>2, Stutter DEF Enter, Reap, Result, Record, Requeue, AbortStop
<1>3. CASE LoopTest(t) \/ CheckStop(t) \/ AbortNotify(t)
  <2>1. CASE pc'[t] = "dead"
    <3>1. Contract!Stop(t)
      BY <1>3, <2>1 DEF LoopTest, CheckStop, AbortNotify, Contract!Stop, Succeeded
    <3> QED
      BY <3>1 DEF Contract!Next
  <2>2. CASE pc'[t] # "dead"
    BY <1>3, <2>2, Stutter DEF LoopTest, CheckStop, AbortNotify
  <2> QED
    BY <2>1, <2>2
<1>4. CASE AbortSignal(t)
  <2>1. Contract!Report(t)
    BY <1>4 DEF AbortSignal, Contract!Report, Succeeded
  <2> QED
    BY <2>1 DEF Contract!Next
<1> QED
  BY <1>1, <1>2, <1>3, <1>4 DEF WorkerNext

(* run_job keeps the contract: its phases come in order, it moves on only   *)
(* without a reported error, and it passes only when no worker is left.     *)
THEOREM Implements == SafetySpec => ImplementsContract
<1>1. IInv /\ [Next]_vars => [Contract!Next]_(Contract!vars)
  <2> SUFFICES ASSUME IInv, [Next]_vars PROVE [Contract!Next]_(Contract!vars)
    OBVIOUS
  <2>1. CASE JobNext
    BY <2>1, JobImplements
  <2>2. ASSUME NEW t \in Threads, WorkerNext(t)
        PROVE  [Contract!Next]_(Contract!vars)
    BY <2>2, WorkerImplements
  <2>3. ASSUME NEW t \in Threads, WaitFatal(t) \/ DeviceNext(t)
        PROVE  [Contract!Next]_(Contract!vars)
    BY <2>3, Stutter DEF WaitFatal, DeviceNext, Complete, jobVars, flagVars
  <2>4. CASE StatsFatal \/ UNCHANGED vars
    BY <2>4, Stutter DEF StatsFatal, vars, jobVars, flagVars
  <2> QED
    BY <2>1, <2>2, <2>3, <2>4 DEF Next, Terminated
<1> QED
  BY <1>1, InitImplements, Invariance, PTL
  DEF SafetySpec, ImplementsContract, Contract!Spec

-----------------------------------------------------------------------------
(***************************************************************************)
(* The job with its I/O.                                                   *)
(***************************************************************************)

(* A step of a worker and its engine is the worker's step in JobRun, or     *)
(* enqueues an operation, which JobRun does not see.                        *)
LEMMA WorkerIOStep ==
  ASSUME NEW t \in Threads, WorkerIONext(t)
  PROVE  WorkerNext(t) \/ UNCHANGED vars
<1>1. CASE EnqueueFirst(t) \/ EnqueueAgain(t)
  BY <1>1 DEF EnqueueFirst, EnqueueAgain
<1>2. CASE SetupIO(t) \/ CreateGroupIO(t) \/ SubmitFirstIO(t) \/ LoopTestIO(t)
  BY <1>2 DEF WorkerIONext, WorkerNext, SetupIO, CreateGroupIO, SubmitFirstIO, LoopTestIO
<1>3. CASE ReapIO(t) \/ CheckStopIO(t) \/ ResultIO(t) \/ RequeueIO(t) \/ WorkerOnly(t)
  BY <1>3 DEF WorkerIONext, WorkerNext, ReapIO, CheckStopIO, ResultIO, RequeueIO, WorkerOnly
<1> QED
  BY <1>1, <1>2, <1>3 DEF WorkerIONext

(* Each step of JobIO is a step of JobRun or leaves its variables alone.    *)
LEMMA IOStep == [IONext]_allVars => [Next]_vars
<1>1. ASSUME NEW t \in Threads, WorkerIONext(t)
      PROVE  [Next]_vars
  BY <1>1, WorkerIOStep DEF Next
<1>2. ASSUME NEW t \in Threads, DeviceIONext(t)
      PROVE  [Next]_vars
  BY <1>2 DEF DeviceIONext, CompleteIO, DeviceNext, Next
<1>3. ASSUME JobIONext \/ ProcessIO
      PROVE  [Next]_vars
  BY <1>3 DEF JobIONext, ProcessIO, Next
<1>4. UNCHANGED allVars => UNCHANGED vars
  BY DEF allVars
<1> QED
  BY <1>1, <1>2, <1>3, <1>4 DEF IONext

(* JobIO implements JobRun: adding the operations and the descriptors of    *)
(* the workers adds no behaviour to the job.                                *)
THEOREM Superposes == IOSafetySpec => SafetySpec
<1>1. IOInit => Init
  BY DEF IOInit
<1> QED
  BY <1>1, IOStep, PTL DEF IOSafetySpec, SafetySpec

(* So the job of JobIO passes only after every worker has submitted its     *)
(* first batch, and keeps the contract its callers rely on.                 *)
THEOREM IOJobKeepsPromises ==
  IOSafetySpec => [](AllSubmittedBeforeWarmup /\ RecordingConfined) /\ ImplementsContract
BY Superposes, StartsTogether, RecordsInTime, Implements, PTL

-----------------------------------------------------------------------------
(***************************************************************************)
(* The inductive invariant: operations.                                    *)
(***************************************************************************)

(* Where thread_func is tells which call its engine expects ...             *)
CallerFits(t) ==
  /\ pc[t] \in {"new", "setup", "group"} => caller[t] = "create"
  /\ pc[t] = "fill" => caller[t] = "fill"
  /\ pc[t] \in Full => caller[t] = "wait"
  /\ pc[t] \in {"reaped", "result", "record"} => caller[t] = "reaped"
  /\ pc[t] = "requeue" => caller[t] \in {"reaped", "submit"}

(* The operation a worker has in hand, or has queued again, is one, and the *)
(* device has all others.                                                   *)
OneAt(t, where) ==
  \E hand \in IO!OpsOf(t) : \A o \in IO!OpsOf(t) :
    IF o = hand THEN place[o] = where ELSE place[o] \in {"flying", "done"}

(* ... and where its operations are.                                        *)
PlacesFit(t) ==
  /\ caller[t] = "create" => \A o \in IO!OpsOf(t) : place[o] = "held"
  /\ caller[t] = "fill" => \A o \in IO!OpsOf(t) : place[o] \in {"held", "queued"}
  /\ caller[t] = "wait" => \A o \in IO!OpsOf(t) : place[o] \in {"flying", "done"}
  /\ caller[t] = "reaped" => OneAt(t, "held")
  /\ caller[t] = "submit" => OneAt(t, "queued")

CountsFit(t) ==
  /\ in_flight[t] = Cardinality(IO!At(t, "flying") \cup IO!At(t, "done"))
  /\ finished[t] = Cardinality(IO!At(t, "done"))

OpsFit(t) == CallerFits(t) /\ PlacesFit(t) /\ CountsFit(t)

OpsInv ==
  /\ IO!TypeOK
  /\ \A t \in Threads : OpsFit(t)

-----------------------------------------------------------------------------
(* The operations of a worker are as many as its overlap.                   *)
LEMMA OpsOfWorker ==
  ASSUME NEW t \in Threads
  PROVE  /\ IO!OpsOf(t) \subseteq Ops
         /\ \A o \in Ops : Owner[o] \in Threads /\ (o \in IO!OpsOf(t) <=> Owner[o] = t)
         /\ IsFiniteSet(IO!OpsOf(t)) /\ Cardinality(IO!OpsOf(t)) = Overlap
<1> DEFINE s == [i \in 1 .. Overlap |-> <<t, i>>]
<1>1. \A o \in Ops : Owner[o] = o[1] /\ Owner[o] \in Threads
  BY DEF Ops, Owner
<1>2. IO!OpsOf(t) \subseteq Ops /\ \A o \in Ops : o \in IO!OpsOf(t) <=> Owner[o] = t
  BY DEF IO!OpsOf
<1>3. s \in Seq(Ops) /\ Len(s) = Overlap /\ \A i \in 1 .. Overlap : s[i] = <<t, i>>
  BY JobAssumption DEF Ops
<1>4. Distinct(s)
  BY <1>3 DEF Distinct
<1>5. Elems(s) = {<<t, i>> : i \in 1 .. Overlap}
  BY <1>3 DEF Elems
<1>6. IO!OpsOf(t) = {<<t, i>> : i \in 1 .. Overlap}
  <2>1. ASSUME NEW o \in IO!OpsOf(t) PROVE o \in {<<t, i>> : i \in 1 .. Overlap}
    BY <1>1, <1>2 DEF Ops
  <2>2. ASSUME NEW i \in 1 .. Overlap PROVE <<t, i>> \in IO!OpsOf(t)
    BY <1>1, <1>2 DEF Ops
  <2> QED
    BY <2>1, <2>2
<1>7. IsFiniteSet(Elems(s)) /\ Cardinality(Elems(s)) = Overlap
  BY <1>3, <1>4, DistinctCount
<1> QED
  BY <1>1, <1>2, <1>5, <1>6, <1>7

(* They are at one place each, and those at a place a finite set.           *)
LEMMA AtIsFinite ==
  ASSUME NEW t \in Threads
  PROVE  /\ \A where : IsFiniteSet(IO!At(t, where)) /\ IO!At(t, where) \subseteq IO!OpsOf(t)
         /\ \A where, o : o \in IO!At(t, where) <=> o \in IO!OpsOf(t) /\ place[o] = where
<1>1. \A where : IO!At(t, where) \subseteq IO!OpsOf(t)
  BY DEF IO!At
<1> QED
  BY <1>1, OpsOfWorker, FS_Subset DEF IO!At

(* What happens to another worker and its operations does not matter.       *)
LEMMA OpsFrame ==
  ASSUME NEW u \in Threads, OpsFit(u),
         pc'[u] = pc[u], caller'[u] = caller[u],
         in_flight'[u] = in_flight[u], finished'[u] = finished[u],
         \A o \in IO!OpsOf(u) : place'[o] = place[o]
  PROVE  OpsFit(u)'
<1>1. IO!OpsOf(u)' = IO!OpsOf(u)
  BY DEF IO!OpsOf, Ops, Owner
<1>2. \A where : IO!At(u, where)' = IO!At(u, where)
  BY <1>1 DEF IO!At
<1>3. CallerFits(u)'
  BY DEF OpsFit, CallerFits
<1>4. PlacesFit(u)'
  BY <1>1 DEF OpsFit, PlacesFit, OneAt
<1>5. CountsFit(u)'
  BY <1>2 DEF OpsFit, CountsFit
<1> QED
  BY <1>3, <1>4, <1>5 DEF OpsFit

(* A worker that moves without its engine.                                  *)
LEMMA PcFrame ==
  ASSUME NEW u \in Threads, OpsFit(u), CallerFits(u)',
         in_flight'[u] = in_flight[u], finished'[u] = finished[u],
         caller'[u] = caller[u] \/ caller'[u] \in {"stopped", "failed"},
         \A o \in IO!OpsOf(u) : place'[o] = place[o]
  PROVE  OpsFit(u)'
<1>1. IO!OpsOf(u)' = IO!OpsOf(u)
  BY DEF IO!OpsOf, Ops, Owner
<1>2. \A where : IO!At(u, where)' = IO!At(u, where)
  BY <1>1 DEF IO!At
<1>4. PlacesFit(u)'
  BY <1>1 DEF OpsFit, PlacesFit, OneAt
<1>5. CountsFit(u)'
  BY <1>2 DEF OpsFit, CountsFit
<1> QED
  BY <1>4, <1>5 DEF OpsFit

(* A step of the engine: operations of a worker move to another place.      *)
LEMMA Moved ==
  ASSUME IO!TypeOK, NEW t \in Threads, NEW S \in SUBSET IO!OpsOf(t), NEW to \in IO!Place,
         IO!Move(S, to)
  PROVE  /\ place' \in [Ops -> IO!Place]
         /\ \A o \in IO!OpsOf(t) : place'[o] = IF o \in S THEN to ELSE place[o]
         /\ \A u \in Threads \ {t} : \A o \in IO!OpsOf(u) : place'[o] = place[o]
         /\ IO!At(t, to)' = IO!At(t, to) \cup S
         /\ \A where : where # to => IO!At(t, where)' = IO!At(t, where) \ S
<1>1. \A u \in Threads : IO!OpsOf(u)' = IO!OpsOf(u)
  BY DEF IO!OpsOf, Ops, Owner
<1>2. \A o \in Ops : place'[o] = IF o \in S THEN to ELSE place[o]
  BY DEF IO!Move
<1>3. place' \in [Ops -> IO!Place]
  BY DEF IO!Move, IO!TypeOK
<1>4. \A o \in IO!OpsOf(t) : place'[o] = IF o \in S THEN to ELSE place[o]
  BY <1>2, OpsOfWorker
<1>5. \A u \in Threads \ {t} : \A o \in IO!OpsOf(u) : place'[o] = place[o]
  BY <1>2, OpsOfWorker
<1>6. IO!At(t, to)' = IO!At(t, to) \cup S
  BY <1>1, <1>4 DEF IO!At
<1>7. \A where : where # to => IO!At(t, where)' = IO!At(t, where) \ S
  BY <1>1, <1>4 DEF IO!At
<1> QED
  BY <1>3, <1>4, <1>5, <1>6, <1>7

(* At first every operation is with its worker.                             *)
LEMMA OpsInit == IOInit => OpsInv
<1> SUFFICES ASSUME IOInit PROVE OpsInv
  OBVIOUS
<1>1. IO!TypeOK
  BY DEF IOInit, IO!Init, IO!TypeOK, IO!Caller, IO!Place
<1>2. ASSUME NEW t \in Threads PROVE OpsFit(t)
  <2>1. \A o \in IO!OpsOf(t) : place[o] = "held"
    BY OpsOfWorker DEF IOInit, IO!Init
  <2>2. IO!At(t, "flying") \cup IO!At(t, "done") = {} /\ IO!At(t, "done") = {}
    BY <2>1 DEF IO!At
  <2>3. CountsFit(t)
    BY <2>2, FS_EmptySet DEF CountsFit, IOInit, Init
  <2> QED
    BY <2>1, <2>3 DEF OpsFit, CallerFits, PlacesFit, IOInit, IO!Init, Init, Full, FullLoop
<1> QED
  BY <1>1, <1>2 DEF OpsInv

(* create_group, and the end of a worker's part, move no operation.         *)
LEMMA NoMoveOps ==
  ASSUME IInv, OpsInv, NEW t \in Threads,
         \/ SetupIO(t) \/ CreateGroupIO(t) \/ LoopTestIO(t) \/ CheckStopIO(t)
         \/ ResultIO(t) \/ WorkerOnly(t)
  PROVE  OpsInv'
<1> USE DEF jobVars, flagVars, ioVars, objectVars, allButPc, Goto, ReadFlag, ioState, fileVars,
            Full, FullLoop
<1>0. TypeOK /\ IO!TypeOK /\ \A u \in Threads : OpsFit(u)
  BY DEF IInv, OpsInv
<1>1. /\ place' = place /\ in_flight' = in_flight /\ finished' = finished
      /\ \A u \in Threads \ {t} : pc'[u] = pc[u]
  BY <1>0 DEF SetupIO, CreateGroupIO, LoopTestIO, CheckStopIO, ResultIO, WorkerOnly,
       Setup, CreateGroup, LoopTest, CheckStop, Result, Count, Announce, Enter, Record,
       AbortStop, AbortSignal, AbortNotify, LeaveLoop, Abandon,
       IO!CreateGroup, IO!Stop, IO!Call, TypeOK
<1>2. CASE CreateGroupIO(t)
  <2>1. \/ pc[t] = "group" /\ pc'[t] = "fill" /\ caller[t] = "create" /\ caller' = [caller EXCEPT ![t] = "fill"]
        \/ pc[t] = "group" /\ pc'[t] = "abort" /\ caller' = [caller EXCEPT ![t] = "failed"]
    BY <1>0, <1>2 DEF CreateGroupIO, CreateGroup, IO!CreateGroup, IO!Call, TypeOK, IO!TypeOK
  <2>2. IO!TypeOK'
    BY <1>0, <1>1, <2>1 DEF IO!TypeOK, IO!Caller
  <2>3. \A u \in Threads \ {t} : caller'[u] = caller[u]
    BY <1>0, <2>1 DEF IO!TypeOK
  <2>4. OpsFit(t)'
    <3>1. CASE caller'[t] = "failed"
      <4>1. CallerFits(t)'
        BY <1>0, <2>1, <3>1 DEF CallerFits, IO!TypeOK
      <4> QED
        BY <1>0, <1>1, <3>1, <4>1, PcFrame
    <3>2. CASE caller'[t] # "failed"
      <4>1. pc'[t] = "fill" /\ caller'[t] = "fill" /\ caller[t] = "create"
        BY <1>0, <2>1, <3>2 DEF IO!TypeOK
      <4>2. IO!OpsOf(t)' = IO!OpsOf(t) /\ \A where : IO!At(t, where)' = IO!At(t, where)
        BY <1>1 DEF IO!OpsOf, IO!At, Ops, Owner
      <4>3. CountsFit(t)'
        BY <1>0, <1>1, <4>2 DEF OpsFit, CountsFit
      <4>4. PlacesFit(t)'
        BY <1>0, <1>1, <4>1, <4>2 DEF OpsFit, PlacesFit
      <4>5. CallerFits(t)'
        BY <4>1 DEF CallerFits
      <4> QED
        BY <4>3, <4>4, <4>5 DEF OpsFit
    <3> QED
      BY <3>1, <3>2
  <2> QED
    BY <1>0, <1>1, <2>2, <2>3, <2>4, OpsFrame DEF OpsInv
<1>3. CASE (LoopTestIO(t) \/ CheckStopIO(t) \/ ResultIO(t)) /\ pc'[t] \in {"dead", "abort"}
  <2>1. caller' = [caller EXCEPT ![t] = "stopped"]
    BY <1>0, <1>3 DEF LoopTestIO, CheckStopIO, ResultIO, LoopTest, CheckStop, Result, LeaveLoop, Abandon,
         IO!Stop, IO!Call, TypeOK
  <2>2. IO!TypeOK' /\ caller'[t] = "stopped" /\ \A u \in Threads \ {t} : caller'[u] = caller[u]
    BY <1>0, <1>1, <2>1 DEF IO!TypeOK, IO!Caller
  <2>3. CallerFits(t)'
    BY <1>3 DEF CallerFits
  <2>4. OpsFit(t)'
    BY <1>0, <1>1, <2>2, <2>3, PcFrame
  <2> QED
    BY <1>0, <1>1, <2>2, <2>4, OpsFrame DEF OpsInv
<1>4. CASE SetupIO(t) \/ WorkerOnly(t) \/
           ((LoopTestIO(t) \/ CheckStopIO(t) \/ ResultIO(t)) /\ pc'[t] \notin {"dead", "abort"})
  <2>1. caller' = caller
    BY <1>0, <1>4 DEF SetupIO, WorkerOnly, LoopTestIO, CheckStopIO, ResultIO
  <2>2. \/ pc[t] \in {"new", "setup", "group"} /\ pc'[t] \in {"new", "setup", "group"}
        \/ pc[t] \in Full /\ pc'[t] \in Full
        \/ pc[t] \in {"reaped", "result", "record"} /\ pc'[t] \in {"reaped", "result", "record", "requeue"}
        \/ pc'[t] \in {"abort", "signal", "notify", "dead"}
    BY <1>0, <1>4 DEF SetupIO, WorkerOnly, LoopTestIO, CheckStopIO, ResultIO, Setup, LoopTest,
         CheckStop, Result, Count, Announce, Enter, Record, AbortStop, AbortSignal, AbortNotify, TypeOK
  <2>3. CallerFits(t)'
    BY <1>0, <2>1, <2>2 DEF CallerFits, OpsFit
  <2>4. OpsFit(t)' /\ IO!TypeOK'
    BY <1>0, <1>1, <2>1, <2>3, PcFrame DEF IO!TypeOK
  <2> QED
    BY <1>0, <1>1, <2>1, <2>4, OpsFrame DEF OpsInv
<1> QED
  BY <1>2, <1>3, <1>4

(* An operation in hand goes to the queue: one of the first batch, or the   *)
(* one that came back last.                                                 *)
LEMMA EnqueueOps ==
  ASSUME IInv, OpsInv, NEW t \in Threads, EnqueueFirst(t) \/ EnqueueAgain(t)
  PROVE  OpsInv'
<1>0. TypeOK /\ IO!TypeOK /\ \A u \in Threads : OpsFit(u)
  BY DEF IInv, OpsInv
<1>1. PICK o \in IO!OpsOf(t) : IO!Enqueue(o)
  BY AtIsFinite DEF EnqueueFirst, EnqueueAgain
<1>2. o \in Ops /\ Owner[o] = t /\ place[o] = "held" /\ IO!Move({o}, "queued")
  BY <1>1, OpsOfWorker DEF IO!Enqueue
<1>3. /\ \A p \in IO!OpsOf(t) : place'[p] = IF p \in {o} THEN "queued" ELSE place[p]
      /\ \A u \in Threads \ {t} : \A p \in IO!OpsOf(u) : place'[p] = place[p]
      /\ \A where : where # "queued" => IO!At(t, where)' = IO!At(t, where) \ {o}
      /\ place' \in [Ops -> IO!Place]
  BY <1>0, <1>1, <1>2, Moved DEF IO!Place
<1>4. /\ \/ /\ EnqueueFirst(t)
            /\ pc[t] = "fill" /\ caller[t] = "fill" /\ caller' = [caller EXCEPT ![t] = "fill"]
         \/ /\ EnqueueAgain(t)
            /\ pc[t] = "requeue" /\ caller[t] = "reaped" /\ caller' = [caller EXCEPT ![t] = "submit"]
      /\ pc' = pc /\ in_flight' = in_flight /\ finished' = finished
  BY <1>0, <1>1, <1>2 DEF EnqueueFirst, EnqueueAgain, vars, ioVars, IO!Enqueue, IO!Call, OpsFit, CallerFits
<1>5. IO!TypeOK' /\ \A u \in Threads \ {t} : caller'[u] = caller[u]
  BY <1>0, <1>3, <1>4 DEF IO!TypeOK, IO!Caller
<1>6. CountsFit(t)'
  <2>1. o \notin IO!At(t, "flying") /\ o \notin IO!At(t, "done")
    BY <1>2, AtIsFinite
  <2>2. IO!At(t, "flying")' = IO!At(t, "flying") /\ IO!At(t, "done")' = IO!At(t, "done")
    BY <1>3, <2>1
  <2> QED
    BY <1>0, <1>4, <2>2 DEF OpsFit, CountsFit
<1>7. CallerFits(t)' /\ PlacesFit(t)'
  <2>1. IO!OpsOf(t)' = IO!OpsOf(t)
    BY DEF IO!OpsOf, Ops, Owner
  <2>2. CASE pc[t] = "fill" /\ caller[t] = "fill"
    <3>1. caller'[t] = "fill" /\ pc'[t] = "fill"
      BY <1>0, <1>4, <2>2 DEF IO!TypeOK
    <3>2. \A p \in IO!OpsOf(t) : place[p] \in {"held", "queued"}
      BY <1>0, <2>2 DEF OpsFit, PlacesFit
    <3> QED
      BY <1>3, <2>1, <3>1, <3>2 DEF CallerFits, PlacesFit, Full, FullLoop
  <2>3. CASE pc[t] = "requeue" /\ caller[t] = "reaped"
    <3>1. caller'[t] = "submit" /\ pc'[t] = "requeue"
      BY <1>0, <1>4, <2>3 DEF IO!TypeOK
    <3>2. PICK hand \in IO!OpsOf(t) : \A p \in IO!OpsOf(t) :
            IF p = hand THEN place[p] = "held" ELSE place[p] \in {"flying", "done"}
      BY <1>0, <2>3 DEF OpsFit, PlacesFit, OneAt
    <3>3. hand = o
      BY <1>1, <1>2, <3>2
    <3>4. \A p \in IO!OpsOf(t) : IF p = o THEN place'[p] = "queued" ELSE place'[p] \in {"flying", "done"}
      BY <1>3, <3>2, <3>3
    <3>5. OneAt(t, "queued")'
      BY <1>1, <2>1, <3>4 DEF OneAt
    <3> QED
      BY <3>1, <3>5 DEF CallerFits, PlacesFit, Full, FullLoop
  <2> QED
    BY <1>4, <2>2, <2>3
<1>8. \A u \in Threads \ {t} : OpsFit(u)'
  BY <1>0, <1>3, <1>4, <1>5, OpsFrame
<1> QED
  BY <1>5, <1>6, <1>7, <1>8 DEF OpsInv, OpsFit

(* The first batch goes to the device as a whole, or in part.               *)
LEMMA SubmitFirstOps ==
  ASSUME IInv, OpsInv, NEW t \in Threads, SubmitFirstIO(t)
  PROVE  OpsInv'
<1>0. TypeOK /\ IO!TypeOK /\ \A u \in Threads : OpsFit(u)
  BY DEF IInv, OpsInv
<1>1. /\ pc[t] = "fill" /\ IO!At(t, "held") = {} /\ finished' = finished
      /\ \A u \in Threads \ {t} : pc'[u] = pc[u] /\ in_flight'[u] = in_flight[u]
      /\ \/ /\ pc'[t] = "submitted" /\ in_flight'[t] = Overlap /\ IO!Submitted(t)
         \/ /\ pc'[t] = "abort"
            /\ \E S \in SUBSET IO!At(t, "queued") : Cardinality(S) = in_flight'[t] /\ IO!SubmitFails(t, S)
  BY <1>0 DEF SubmitFirstIO, SubmitFirst, Goto, TypeOK
<1>2. caller[t] = "fill" /\ \A p \in IO!OpsOf(t) : place[p] \in {"held", "queued"}
  BY <1>0, <1>1 DEF OpsFit, CallerFits, PlacesFit
<1>3. /\ IO!At(t, "queued") = IO!OpsOf(t)
      /\ IO!At(t, "flying") = {} /\ IO!At(t, "done") = {}
  BY <1>1, <1>2, AtIsFinite
<1>4. finished'[t] = 0
  BY <1>0, <1>1, <1>3, FS_EmptySet DEF OpsFit, CountsFit
<1>5. ASSUME NEW S \in SUBSET IO!OpsOf(t), IO!Move(S, "flying"), Cardinality(S) = in_flight'[t],
             NEW c \in IO!Caller, caller' = [caller EXCEPT ![t] = c],
             CallerFits(t)', (c = "wait" /\ S = IO!OpsOf(t)) \/ c = "failed"
      PROVE  OpsInv'
  <2>1. /\ \A p \in IO!OpsOf(t) : place'[p] = IF p \in S THEN "flying" ELSE place[p]
        /\ \A u \in Threads \ {t} : \A p \in IO!OpsOf(u) : place'[p] = place[p]
        /\ IO!At(t, "flying")' = IO!At(t, "flying") \cup S
        /\ IO!At(t, "done")' = IO!At(t, "done") \ S
        /\ place' \in [Ops -> IO!Place]
    BY <1>0, <1>5, Moved DEF IO!Place
  <2>2. /\ IO!TypeOK' /\ caller'[t] = c /\ \A u \in Threads \ {t} : caller'[u] = caller[u]
    BY <1>0, <1>5, <2>1 DEF IO!TypeOK
  <2>3. CountsFit(t)'
    <3>1. IO!At(t, "flying")' \cup IO!At(t, "done")' = S /\ IO!At(t, "done")' = {}
      BY <1>3, <2>1
    <3> QED
      BY <1>4, <1>5, <3>1, FS_EmptySet DEF CountsFit
  <2>4. PlacesFit(t)'
    <3>1. IO!OpsOf(t)' = IO!OpsOf(t)
      BY DEF IO!OpsOf, Ops, Owner
    <3> QED
      BY <1>5, <2>1, <2>2, <3>1 DEF PlacesFit
  <2>5. \A u \in Threads \ {t} : OpsFit(u)'
    BY <1>0, <1>1, <2>1, <2>2, OpsFrame
  <2> QED
    BY <1>5, <2>2, <2>3, <2>4, <2>5 DEF OpsInv, OpsFit
<1>6. CASE pc'[t] = "submitted" /\ in_flight'[t] = Overlap /\ IO!Submitted(t)
  <2>1. /\ IO!Move(IO!OpsOf(t), "flying") /\ caller' = [caller EXCEPT ![t] = "wait"]
        /\ Cardinality(IO!OpsOf(t)) = in_flight'[t]
    BY <1>3, <1>6, OpsOfWorker DEF IO!Submitted
  <2>2. CallerFits(t)'
    BY <1>0, <1>6, <2>1 DEF CallerFits, Full, FullLoop, IO!TypeOK
  <2> QED
    BY <1>5, <2>1, <2>2 DEF IO!Caller
<1>7. ASSUME NEW S \in SUBSET IO!At(t, "queued"), pc'[t] = "abort",
             Cardinality(S) = in_flight'[t], IO!SubmitFails(t, S)
      PROVE  OpsInv'
  <2>1. IO!Move(S, "flying") /\ caller' = [caller EXCEPT ![t] = "failed"]
    BY <1>7 DEF IO!SubmitFails
  <2>2. CallerFits(t)'
    BY <1>7 DEF CallerFits, Full, FullLoop
  <2> QED
    BY <1>3, <1>5, <1>7, <2>1, <2>2 DEF IO!Caller
<1> QED
  BY <1>1, <1>6, <1>7

(* One operation fewer is in flight when wait returns it.                   *)
LEMMA ReapOps ==
  ASSUME IInv, OpsInv, NEW t \in Threads, ReapIO(t)
  PROVE  OpsInv'
<1>0. TypeOK /\ IO!TypeOK /\ \A u \in Threads : OpsFit(u)
  BY DEF IInv, OpsInv
<1>1. PICK o \in IO!OpsOf(t) : IO!Return(o)
  BY DEF ReapIO
<1>2. /\ o \in Ops /\ Owner[o] = t /\ place[o] = "done" /\ IO!Move({o}, "held")
      /\ caller[t] = "wait" /\ caller' = [caller EXCEPT ![t] = "reaped"]
  BY <1>1, OpsOfWorker DEF IO!Return, IO!Call
<1>3. /\ pc[t] = "wait" /\ pc'[t] = "reaped"
      /\ in_flight'[t] = in_flight[t] - 1 /\ finished'[t] = finished[t] - 1
      /\ \A u \in Threads \ {t} : /\ pc'[u] = pc[u] /\ in_flight'[u] = in_flight[u]
                                   /\ finished'[u] = finished[u]
  BY <1>0 DEF ReapIO, Reap, Goto, TypeOK
<1>4. /\ \A p \in IO!OpsOf(t) : place'[p] = IF p \in {o} THEN "held" ELSE place[p]
      /\ \A u \in Threads \ {t} : \A p \in IO!OpsOf(u) : place'[p] = place[p]
      /\ IO!At(t, "flying")' = IO!At(t, "flying") \ {o}
      /\ IO!At(t, "done")' = IO!At(t, "done") \ {o}
      /\ place' \in [Ops -> IO!Place]
  BY <1>0, <1>2, Moved DEF IO!Place
<1>5. IO!TypeOK' /\ caller'[t] = "reaped" /\ \A u \in Threads \ {t} : caller'[u] = caller[u]
  BY <1>0, <1>2, <1>4 DEF IO!TypeOK, IO!Caller
<1>6. CountsFit(t)'
  <2> DEFINE D == IO!At(t, "done")
             F == IO!At(t, "flying") \cup IO!At(t, "done")
  <2>1. IsFiniteSet(D) /\ IsFiniteSet(F) /\ o \in D /\ o \in F
    BY <1>2, AtIsFinite, FS_Union
  <2>2. (IO!At(t, "flying") \cup IO!At(t, "done"))' = F \ {o} /\ IO!At(t, "done")' = D \ {o}
    BY <1>4
  <2>3. in_flight[t] = Cardinality(F) /\ finished[t] = Cardinality(D)
    BY <1>0 DEF OpsFit, CountsFit
  <2> HIDE DEF D, F
  <2>4. Cardinality(F \ {o}) = Cardinality(F) - 1 /\ Cardinality(D \ {o}) = Cardinality(D) - 1
    BY <2>1, FS_RemoveElement
  <2> QED
    BY <1>3, <2>2, <2>3, <2>4 DEF CountsFit
<1>7. CallerFits(t)' /\ PlacesFit(t)'
  <2>1. IO!OpsOf(t)' = IO!OpsOf(t)
    BY DEF IO!OpsOf, Ops, Owner
  <2>2. \A p \in IO!OpsOf(t) : place[p] \in {"flying", "done"}
    BY <1>0, <1>2 DEF OpsFit, PlacesFit
  <2>3. \A p \in IO!OpsOf(t) : IF p = o THEN place'[p] = "held" ELSE place'[p] \in {"flying", "done"}
    BY <1>4, <2>2
  <2>4. OneAt(t, "held")'
    BY <1>1, <2>1, <2>3 DEF OneAt
  <2> QED
    BY <1>3, <1>5, <2>4 DEF CallerFits, PlacesFit, Full, FullLoop
<1>8. \A u \in Threads \ {t} : OpsFit(u)'
  BY <1>0, <1>3, <1>4, <1>5, OpsFrame
<1> QED
  BY <1>5, <1>6, <1>7, <1>8 DEF OpsInv, OpsFit

(* One operation more is in flight when it is submitted again.              *)
LEMMA RequeueOps ==
  ASSUME IInv, OpsInv, NEW t \in Threads, RequeueIO(t)
  PROVE  OpsInv'
<1>0. TypeOK /\ IO!TypeOK /\ \A u \in Threads : OpsFit(u)
  BY DEF IInv, OpsInv
<1>1. /\ pc[t] = "requeue" /\ caller[t] = "submit" /\ finished' = finished
      /\ \A u \in Threads \ {t} : pc'[u] = pc[u] /\ in_flight'[u] = in_flight[u]
      /\ \/ pc'[t] = "test" /\ in_flight'[t] = in_flight[t] + 1 /\ IO!Submitted(t)
         \/ pc'[t] = "abort" /\ in_flight' = in_flight /\ IO!SubmitFails(t, {})
  BY <1>0 DEF RequeueIO, Requeue, Goto, TypeOK
<1>2. PICK hand \in IO!OpsOf(t) : \A p \in IO!OpsOf(t) :
        IF p = hand THEN place[p] = "queued" ELSE place[p] \in {"flying", "done"}
  BY <1>0, <1>1 DEF OpsFit, PlacesFit, OneAt
<1>3. CASE pc'[t] = "test" /\ in_flight'[t] = in_flight[t] + 1 /\ IO!Submitted(t)
  <2>1. IO!At(t, "queued") = {hand}
    BY <1>2, AtIsFinite
  <2>2. IO!Move({hand}, "flying") /\ caller' = [caller EXCEPT ![t] = "wait"]
    BY <1>3, <2>1 DEF IO!Submitted
  <2>3. /\ \A p \in IO!OpsOf(t) : place'[p] = IF p \in {hand} THEN "flying" ELSE place[p]
        /\ \A u \in Threads \ {t} : \A p \in IO!OpsOf(u) : place'[p] = place[p]
        /\ IO!At(t, "flying")' = IO!At(t, "flying") \cup {hand}
        /\ IO!At(t, "done")' = IO!At(t, "done") \ {hand}
        /\ place' \in [Ops -> IO!Place]
    BY <1>0, <2>2, Moved DEF IO!Place
  <2>4. IO!TypeOK' /\ caller'[t] = "wait" /\ \A u \in Threads \ {t} : caller'[u] = caller[u]
    BY <1>0, <2>2, <2>3 DEF IO!TypeOK, IO!Caller
  <2>5. CountsFit(t)'
    <3> DEFINE D == IO!At(t, "done")
               F == IO!At(t, "flying") \cup IO!At(t, "done")
    <3>1. IsFiniteSet(F) /\ hand \notin F /\ hand \notin D
      BY <1>2, AtIsFinite, FS_Union
    <3>2. (IO!At(t, "flying") \cup IO!At(t, "done"))' = F \cup {hand} /\ IO!At(t, "done")' = D
      BY <2>3, <3>1
    <3>3. in_flight[t] = Cardinality(F) /\ finished[t] = Cardinality(D)
      BY <1>0 DEF OpsFit, CountsFit
    <3> HIDE DEF D, F
    <3>4. Cardinality(F \cup {hand}) = Cardinality(F) + 1
      BY <3>1, FS_AddElement
    <3> QED
      BY <1>1, <1>3, <3>2, <3>3, <3>4 DEF CountsFit
  <2>6. CallerFits(t)' /\ PlacesFit(t)'
    <3>1. IO!OpsOf(t)' = IO!OpsOf(t)
      BY DEF IO!OpsOf, Ops, Owner
    <3>2. \A p \in IO!OpsOf(t) : place'[p] \in {"flying", "done"}
      BY <1>2, <2>3
    <3> QED
      BY <1>3, <2>4, <3>1, <3>2 DEF CallerFits, PlacesFit, Full, FullLoop
  <2>7. \A u \in Threads \ {t} : OpsFit(u)'
    BY <1>0, <1>1, <2>3, <2>4, OpsFrame
  <2> QED
    BY <2>4, <2>5, <2>6, <2>7 DEF OpsInv, OpsFit
<1>4. CASE pc'[t] = "abort" /\ in_flight' = in_flight /\ IO!SubmitFails(t, {})
  <2>1. IO!Move({}, "flying") /\ caller' = [caller EXCEPT ![t] = "failed"]
    BY <1>4 DEF IO!SubmitFails
  <2>2. /\ \A u \in Threads : \A p \in IO!OpsOf(u) : place'[p] = place[p]
        /\ place' \in [Ops -> IO!Place]
    BY <1>0, <2>1, Moved DEF IO!Place
  <2>3. IO!TypeOK' /\ caller'[t] = "failed" /\ \A u \in Threads \ {t} : caller'[u] = caller[u]
    BY <1>0, <2>1, <2>2 DEF IO!TypeOK, IO!Caller
  <2>4. CallerFits(t)'
    BY <1>4 DEF CallerFits, Full, FullLoop
  <2>5. OpsFit(t)'
    BY <1>0, <1>1, <1>4, <2>2, <2>3, <2>4, PcFrame
  <2>6. \A u \in Threads \ {t} : OpsFit(u)'
    BY <1>0, <1>1, <2>2, <2>3, OpsFrame
  <2> QED
    BY <2>3, <2>5, <2>6 DEF OpsInv
<1> QED
  BY <1>1, <1>3, <1>4

(* A completion moves an operation within what is in flight.                *)
LEMMA CompleteOps ==
  ASSUME IInv, OpsInv, NEW t \in Threads, CompleteIO(t)
  PROVE  OpsInv'
<1>0. TypeOK /\ IO!TypeOK /\ \A u \in Threads : OpsFit(u)
  BY DEF IInv, OpsInv
<1>1. PICK o \in IO!OpsOf(t) : IO!Complete(o)
  BY DEF CompleteIO
<1>2. place[o] = "flying" /\ IO!Move({o}, "done") /\ caller' = caller
  BY <1>1 DEF IO!Complete
<1>3. /\ pc' = pc /\ in_flight' = in_flight /\ finished'[t] = finished[t] + 1
      /\ \A u \in Threads \ {t} : finished'[u] = finished[u]
  BY <1>0 DEF CompleteIO, Complete, TypeOK
<1>4. /\ \A p \in IO!OpsOf(t) : place'[p] = IF p \in {o} THEN "done" ELSE place[p]
      /\ \A u \in Threads \ {t} : \A p \in IO!OpsOf(u) : place'[p] = place[p]
      /\ IO!At(t, "done")' = IO!At(t, "done") \cup {o}
      /\ IO!At(t, "flying")' = IO!At(t, "flying") \ {o}
      /\ place' \in [Ops -> IO!Place]
  BY <1>0, <1>2, Moved DEF IO!Place
<1>5. IO!TypeOK'
  BY <1>0, <1>2, <1>4 DEF IO!TypeOK
<1>6. CountsFit(t)'
  <2>1. IsFiniteSet(IO!At(t, "done")) /\ o \notin IO!At(t, "done") /\ o \in IO!At(t, "flying")
    BY <1>2, AtIsFinite
  <2>2. (IO!At(t, "flying") \cup IO!At(t, "done"))' = IO!At(t, "flying") \cup IO!At(t, "done")
    BY <1>4, <2>1
  <2>3. Cardinality(IO!At(t, "done") \cup {o}) = Cardinality(IO!At(t, "done")) + 1
    BY <2>1, FS_AddElement
  <2> QED
    BY <1>0, <1>3, <1>4, <2>2, <2>3 DEF OpsFit, CountsFit
<1>7. CallerFits(t)' /\ PlacesFit(t)'
  <2>1. IO!OpsOf(t)' = IO!OpsOf(t)
    BY DEF IO!OpsOf, Ops, Owner
  <2>2. CallerFits(t)' /\ caller[t] \notin {"create", "fill"}
    BY <1>0, <1>1, <1>2, <1>3 DEF OpsFit, CallerFits, PlacesFit
  <2>3. caller[t] = "wait" => \A p \in IO!OpsOf(t) : place'[p] \in {"flying", "done"}
    BY <1>0, <1>4 DEF OpsFit, PlacesFit
  <2>4. ASSUME NEW where \in {"held", "queued"}, OneAt(t, where) PROVE OneAt(t, where)'
    <3>1. PICK hand \in IO!OpsOf(t) : \A p \in IO!OpsOf(t) :
            IF p = hand THEN place[p] = where ELSE place[p] \in {"flying", "done"}
      BY <2>4 DEF OneAt
    <3>2. hand # o
      BY <1>2, <3>1
    <3>3. \A p \in IO!OpsOf(t) :
            IF p = hand THEN place'[p] = where ELSE place'[p] \in {"flying", "done"}
      BY <1>4, <3>1, <3>2
    <3> QED
      BY <2>1, <3>3 DEF OneAt
  <2> QED
    BY <1>0, <1>2, <2>1, <2>2, <2>3, <2>4 DEF OpsFit, PlacesFit
<1>8. \A u \in Threads \ {t} : OpsFit(u)'
  BY <1>0, <1>2, <1>3, <1>4, OpsFrame
<1> QED
  BY <1>5, <1>6, <1>7, <1>8 DEF OpsInv, OpsFit

(* The job starts workers, which changes nothing their engines see.         *)
LEMMA JobOps ==
  ASSUME IInv, OpsInv, JobIONext \/ ProcessIO \/ UNCHANGED allVars
  PROVE  OpsInv'
<1>0. TypeOK /\ IO!TypeOK /\ \A u \in Threads : OpsFit(u)
  BY DEF IInv, OpsInv
<1>1. caller' = caller /\ place' = place
  BY DEF JobIONext, ProcessIO, ioState, allVars
<1>2. /\ in_flight' = in_flight /\ finished' = finished
      /\ \A u \in Threads : pc'[u] = pc[u] \/ (pc[u] = "new" /\ pc'[u] = "setup")
  <2>1. CASE JobIONext
    BY <1>0, <2>1 DEF JobIONext, JobNext, CreateThread, Goto, allButPc, ioVars, TypeOK,
         CreateFails, BeginInit, InitWake, InitDone, BeginWarmup, WarmupWake, BeginMain, MainWake,
         MainCheck, StopThreads, JoinAll, Report, Destroy, Exit, JobGoto, allButJobPc
  <2>2. CASE ProcessIO \/ UNCHANGED allVars
    BY <2>2 DEF ProcessIO, StatsFatal, WaitFatal, Terminated, vars, ioVars, allVars
  <2> QED
    BY <2>1, <2>2
<1>3. \A u \in Threads : OpsFit(u)'
  <2>1. ASSUME NEW u \in Threads PROVE CallerFits(u)'
    BY <1>0, <1>1, <1>2 DEF OpsFit, CallerFits, Full, FullLoop
  <2> QED
    BY <1>0, <1>1, <1>2, <2>1, PcFrame
<1> QED
  BY <1>0, <1>1, <1>3 DEF OpsInv, IO!TypeOK

(* Every step keeps the counters of a worker those of its operations.       *)
LEMMA OpsStep == IInv /\ OpsInv /\ [IONext]_allVars => OpsInv'
<1> SUFFICES ASSUME IInv, OpsInv, [IONext]_allVars PROVE OpsInv'
  OBVIOUS
<1>1. ASSUME NEW t \in Threads, WorkerIONext(t) PROVE OpsInv'
  BY <1>1, NoMoveOps, EnqueueOps, SubmitFirstOps, ReapOps, RequeueOps DEF WorkerIONext
<1>2. ASSUME NEW t \in Threads, DeviceIONext(t) PROVE OpsInv'
  BY <1>2, CompleteOps DEF DeviceIONext
<1>3. CASE JobIONext \/ ProcessIO \/ UNCHANGED allVars
  BY <1>3, JobOps
<1> QED
  BY <1>1, <1>2, <1>3 DEF IONext

-----------------------------------------------------------------------------
(***************************************************************************)
(* The inductive invariant: descriptors.                                   *)
(***************************************************************************)

(* Where a worker uses its descriptor.                                      *)
Opened == {"group", "fill"} \cup Full \cup Short

(* An open descriptor is that of the worker whose target it stands for, and *)
(* a worker's is open until the worker has ended.                           *)
DescriptorInv ==
  /\ \A f \in Fds : fd_table[f] # Closed => \E t \in Threads : fd_table[f] = {t} /\ fd[t] = f
  /\ \A t \in Threads :
       /\ pc[t] \in {"new", "setup"} => fd[t] = NoFd
       /\ pc[t] \in Opened => fd[t] # NoFd
       /\ pc[t] # "dead" /\ fd[t] # NoFd => fd_table[fd[t]] = {t}
       /\ fd[t] = NoFd => in_flight[t] = 0

(* The cases OnOwnTarget says nothing of.                                   *)
MayReuse == SomeAbort \/ (job_pc = "failed" /\ ~job_alive)

(* Where the job is after it has told the workers to stop.                  *)
Stopping == {"join", "passed", "reported"}

(* Otherwise nobody leaves before the job says so, when everybody has       *)
(* opened its target, and the number of a closed one stays unused.          *)
LeaveInv ==
  \/ MayReuse
  \/ /\ ~run_threads => job_pc \in Stopping
     /\ \A t \in Threads :
          /\ pc[t] = "dead" => job_pc \in Stopping
          /\ fd[t] # NoFd => fd_table[fd[t]] \subseteq {t}

(* A worker that is to notify the job has raised the error.                 *)
NotifyInv == \A t \in Threads : pc[t] = "notify" => signalled # {}

FileTypeOK ==
  /\ fd \in [Threads -> Fds \cup {NoFd}]
  /\ fd_table \in [Fds -> SUBSET Threads]
  /\ touched \in [Threads -> SUBSET Threads]

FilesInv == FileTypeOK /\ DescriptorInv /\ LeaveInv /\ NotifyInv /\ OnOwnTarget

(* What a step of JobRun can change of this: where workers are, and who may *)
(* leave.                                                                   *)
LEMMA JobRunStep ==
  ASSUME IInv, NotifyInv, [Next]_vars
  PROVE  /\ NotifyInv'
         /\ MayReuse => MayReuse'
         /\ job_pc \in Stopping => job_pc' \in Stopping
         /\ ~run_threads' => ~run_threads \/ MayReuse' \/ job_pc' \in Stopping
         /\ engine' = engine
         /\ \A u \in Threads :
              /\ pc'[u] = "dead" =>
                   pc[u] = "dead" \/ MayReuse' \/ ~run_threads \/ job_pc \in Stopping
              /\ pc[u] = "dead" => pc'[u] = "dead"
              /\ pc'[u] \in {"new", "setup"} => pc[u] \in {"new", "setup"}
              /\ pc'[u] \in Opened => pc[u] \in Opened \/ pc[u] = "setup"
              /\ pc[u] \notin Opened => in_flight'[u] = in_flight[u]
<1> USE DEF jobVars, flagVars, ioVars, objectVars, allButJobPc, allButPc, JobGoto, Goto, ReadFlag,
            MayReuse, SomeAbort, Stopping, NotifyInv, Opened, Full, FullLoop, Short
<1>0. TypeOK /\ JobInv
  BY DEF IInv
<1>1. CASE JobNext
  <2>1. ASSUME NEW t \in Threads, CreateThread(t)
        PROVE  /\ pc' = [pc EXCEPT ![t] = "setup"] /\ pc[t] = "new"
               /\ UNCHANGED <<job_pc, run_threads, engine, signalled, in_flight, job_alive>>
    BY <2>1 DEF CreateThread
  <2>2. (\E t \in Threads : CreateThread(t)) \/
        /\ UNCHANGED <<pc, engine, signalled, in_flight>>
        /\ job_pc = "failed" => job_pc' = "failed"
        /\ ~job_alive => ~job_alive'
        /\ job_pc \in Stopping => job_pc' \in Stopping
        /\ run_threads' = run_threads \/ job_pc' = "join"
    BY <1>1 DEF JobNext, CreateFails, BeginInit, InitLoop, InitWake, InitDone, BeginWarmup, WarmupWake,
         BeginMain, MainWake, MainCheck, StopThreads, JoinAll, Report, Destroy, Exit
  <2>3. CASE \E t \in Threads : CreateThread(t)
    BY <1>0, <2>1, <2>3 DEF TypeOK
  <2>4. CASE /\ UNCHANGED <<pc, engine, signalled, in_flight>>
             /\ job_pc = "failed" => job_pc' = "failed"
             /\ ~job_alive => ~job_alive'
             /\ job_pc \in Stopping => job_pc' \in Stopping
             /\ run_threads' = run_threads \/ job_pc' = "join"
    BY <2>4
  <2> QED
    BY <2>2, <2>3, <2>4
<1>2. ASSUME NEW t \in Threads, WorkerNext(t)
      PROVE  /\ NotifyInv'
             /\ MayReuse => MayReuse'
             /\ job_pc \in Stopping => job_pc' \in Stopping
             /\ ~run_threads' => ~run_threads \/ MayReuse' \/ job_pc' \in Stopping
             /\ engine' = engine
             /\ \A u \in Threads :
                  /\ pc'[u] = "dead" =>
                       pc[u] = "dead" \/ MayReuse' \/ ~run_threads \/ job_pc \in Stopping
                  /\ pc[u] = "dead" => pc'[u] = "dead"
                  /\ pc'[u] \in {"new", "setup"} => pc[u] \in {"new", "setup"}
                  /\ pc'[u] \in Opened => pc[u] \in Opened \/ pc[u] = "setup"
                  /\ pc[u] \notin Opened => in_flight'[u] = in_flight[u]
  <2>1. UNCHANGED <<job_pc, engine, job_alive>>
    BY <1>2 DEF WorkerNext, Setup, CreateGroup, SubmitFirst, Count, Announce, LoopTest, Enter, Reap,
         CheckStop, Result, Record, Requeue, AbortStop, AbortSignal, AbortNotify
  <2>2. /\ \A u \in Threads \ {t} : pc'[u] = pc[u] /\ in_flight'[u] = in_flight[u]
        /\ signalled \subseteq signalled'
    BY <1>0, <1>2 DEF WorkerNext, Setup, CreateGroup, SubmitFirst, Count, Announce, LoopTest, Enter, Reap,
         CheckStop, Result, Record, Requeue, AbortStop, AbortSignal, AbortNotify, TypeOK
  <2>3. CASE Setup(t) \/ CreateGroup(t) \/ SubmitFirst(t) \/ Count(t) \/ Announce(t)
    <3>1. /\ UNCHANGED <<run_threads, signalled>>
          /\ pc'[t] \in {"group", "fill", "submitted", "counted", "test", "abort"}
          /\ pc[t] \in {"setup", "group", "fill", "submitted", "counted"}
          /\ pc[t] = "setup" => in_flight' = in_flight
      BY <1>0, <2>3 DEF Setup, CreateGroup, SubmitFirst, Count, Announce, TypeOK
    <3> QED
      BY <2>1, <2>2, <3>1
  <2>4. CASE LoopTest(t) \/ Enter(t) \/ Reap(t) \/ CheckStop(t) \/ Result(t) \/ Record(t) \/ Requeue(t)
    <3>1. /\ UNCHANGED <<run_threads, signalled>>
          /\ pc'[t] \in Opened \cup {"dead", "abort"}
          /\ pc[t] \in Opened
          /\ pc'[t] = "dead" => ~run_threads \/ ~job_alive
      BY <1>0, <2>4 DEF LoopTest, Enter, Reap, CheckStop, Result, Record, Requeue, TypeOK
    <3>2. ~job_alive => job_pc \in {"reported", "failed"}
      BY <1>0 DEF JobInv
    <3>3. pc'[t] \notin {"new", "setup", "signal"} /\ pc[t] \notin {"dead", "signal"}
      BY <3>1
    <3> QED
      BY <2>1, <2>2, <3>1, <3>2, <3>3
  <2>5. CASE AbortStop(t) \/ AbortSignal(t) \/ AbortNotify(t)
    <3>1. /\ pc[t] \in {"abort", "signal", "notify"} /\ pc'[t] \in {"signal", "notify", "dead"}
          /\ in_flight' = in_flight /\ signalled \subseteq signalled'
          /\ pc'[t] = "signal" \/ signalled' # {}
      BY <1>0, <2>5 DEF AbortStop, AbortSignal, AbortNotify, TypeOK
    <3>2. MayReuse' /\ (pc'[t] = "notify" => signalled' # {})
      BY <3>1, <1>0, <2>5 DEF AbortStop, AbortSignal, AbortNotify, TypeOK
    <3>3. pc[t] \notin {"new", "setup"} /\ pc'[t] \notin {"new", "setup"} \cup Opened /\ pc[t] # "dead"
      BY <3>1
    <3> QED
      BY <2>1, <2>2, <3>1, <3>2, <3>3
  <2> QED
    BY <1>2, <2>3, <2>4, <2>5 DEF WorkerNext
<1>3. ASSUME NEW t \in Threads, DeviceNext(t) \/ WaitFatal(t)
      PROVE  UNCHANGED <<pc, job_pc, run_threads, engine, signalled, in_flight, job_alive>>
  BY <1>3 DEF DeviceNext, Complete, WaitFatal
<1>4. CASE StatsFatal \/ Terminated \/ UNCHANGED vars
  BY <1>4 DEF StatsFatal, Terminated, vars
<1> QED
  BY <1>1, <1>2, <1>3, <1>4 DEF Next

(* At first nothing is open.                                                *)
LEMMA FilesInit == IOInit => FilesInv
<1> SUFFICES ASSUME IOInit PROVE FilesInv
  OBVIOUS
<1>1. FileTypeOK
  BY DEF IOInit, FileTypeOK, Closed
<1> QED
  BY <1>1 DEF IOInit, Init, FilesInv, DescriptorInv, LeaveInv, NotifyInv, OnOwnTarget, MayReuse,
     SomeAbort, Opened, Full, FullLoop, Short, NoFd

(* There is a descriptor left for a worker that has none: what open()       *)
(* returns is free.                                                         *)
LEMMA LowestIsFree ==
  ASSUME FileTypeOK, DescriptorInv, NEW t \in Threads, fd[t] = NoFd
  PROVE  LET lowest == CHOOSE f \in Fds :
                         fd_table[f] = Closed /\ \A e \in Fds : e < f => fd_table[e] # Closed
         IN  lowest \in Fds /\ fd_table[lowest] = Closed
<1> DEFINE N == Cardinality(Threads)
           Others == Threads \ {t}
           Used == {fd[u] : u \in Others}
           Free == {f \in Fds : fd_table[f] = Closed}
<1>1. IsFiniteSet(Threads) /\ N \in Nat
  BY JobAssumption, FS_CardinalityType DEF JobAssumption
<1>2. Fds \subseteq Nat /\ IsFiniteSet(Fds) /\ Cardinality(Fds) = N /\ NoFd \notin Fds
  BY <1>1, IntervalCount DEF Fds, NoFd
<1>3. IsFiniteSet(Others) /\ Cardinality(Others) = N - 1
  BY <1>1, FS_RemoveElement
<1>4. IsFiniteSet(Used) /\ Cardinality(Used) <= N - 1
  BY <1>3, ImageIsSmall
<1>5. Free # {}
  <2>1. SUFFICES ASSUME Free = {} PROVE FALSE
    OBVIOUS
  <2>2. ASSUME NEW f \in Fds PROVE f \in Used
    <3>1. PICK u \in Threads : fd[u] = f
      BY <2>1 DEF DescriptorInv
    <3> QED
      BY <1>2, <3>1
  <2>3. Cardinality(Fds) <= Cardinality(Used)
    BY <1>4, <2>2, FS_Subset
  <2> HIDE DEF Used, Others, N
  <2> QED
    BY <1>1, <1>2, <1>4, <2>3, FS_CardinalityType
<1>6. PICK f \in Free : \A e \in Free : f <= e
  <2>1. Free \in SUBSET Nat
    BY <1>2
  <2> HIDE DEF Free
  <2> QED
    BY <1>5, <2>1, LeastNatural, Zenon
<1>7. f \in Fds /\ fd_table[f] = Closed /\ \A e \in Fds : e < f => fd_table[e] # Closed
  BY <1>2, <1>6
<1> QED
  BY <1>7, Zenon

(* A step that opens and closes nothing.                                    *)
LEMMA FilesFrame ==
  ASSUME IInv, FilesInv, [Next]_vars, UNCHANGED <<fd, fd_table, touched>>,
         \A u \in Threads : pc'[u] \in Opened => pc[u] # "setup",
         \A u \in Threads : fd[u] = NoFd => in_flight'[u] = 0
  PROVE  FilesInv'
<1>1. FileTypeOK'
  BY DEF FilesInv, FileTypeOK, Fds
<1>2. DescriptorInv'
  BY JobRunStep DEF FilesInv, DescriptorInv, Fds
<1>3. LeaveInv'
  <2>1. CASE MayReuse
    BY <2>1, JobRunStep DEF FilesInv, LeaveInv
  <2>2. CASE ~MayReuse /\ ~MayReuse'
    BY <2>2, JobRunStep DEF FilesInv, LeaveInv
  <2> QED
    BY <2>1, <2>2 DEF LeaveInv
<1>4. OnOwnTarget'
  BY JobRunStep DEF FilesInv, OnOwnTarget, MayReuse
<1> QED
  BY <1>1, <1>2, <1>3, <1>4, JobRunStep DEF FilesInv

(* open(): the worker that had the number before, if any, has ended, and so *)
(* either something went wrong or the job had everybody start before.       *)
LEMMA SetupFiles ==
  ASSUME IInv, FilesInv, [Next]_vars, NEW t \in Threads, SetupIO(t)
  PROVE  FilesInv'
<1> DEFINE lowest == CHOOSE f \in Fds :
                       fd_table[f] = Closed /\ \A e \in Fds : e < f => fd_table[e] # Closed
<1>0. TypeOK /\ FileTypeOK /\ DescriptorInv /\ LeaveInv /\ OnOwnTarget
  BY DEF IInv, FilesInv
<1>1. /\ pc[t] = "setup" /\ pc'[t] \in {"group", "abort"} /\ in_flight' = in_flight
      /\ \A u \in Threads \ {t} : pc'[u] = pc[u]
      /\ UNCHANGED <<job_pc, run_threads>>
  BY <1>0 DEF SetupIO, Setup, Goto, allButPc, ioVars, jobVars, flagVars, TypeOK
<1>2. fd[t] = NoFd
  BY <1>0, <1>1 DEF DescriptorInv
<1>3. CASE pc'[t] # "group"
  <2>1. UNCHANGED <<fd, fd_table, touched>>
    BY <1>3 DEF SetupIO, fileVars
  <2>2. \A u \in Threads : pc'[u] \in Opened => pc[u] # "setup"
    BY <1>1, <1>3 DEF Opened, Full, FullLoop, Short
  <2> QED
    BY <1>0, <1>1, <2>1, <2>2, FilesFrame DEF DescriptorInv
<1>4. CASE pc'[t] = "group"
  <2>1. PICK low \in Fds : fd_table[low] = Closed /\ low = lowest
    BY <1>0, <1>2, LowestIsFree
  <2>2. /\ fd' = [fd EXCEPT ![t] = low]
        /\ fd_table' = [fd_table EXCEPT ![low] = {t}]
        /\ touched' = touched
    BY <1>4, <2>1 DEF SetupIO, Open
  <2>3. /\ fd'[t] = low /\ \A u \in Threads \ {t} : fd'[u] = fd[u]
        /\ fd_table'[low] = {t} /\ \A f \in Fds \ {low} : fd_table'[f] = fd_table[f]
        /\ low # NoFd
    BY <1>0, <2>2 DEF FileTypeOK, Fds, NoFd
  <2>4. FileTypeOK'
    BY <1>0, <2>2 DEF FileTypeOK, Fds
  <2>5. \A u \in Threads \ {t} : fd[u] = low => pc[u] = "dead"
    BY <1>0, <2>1, <2>3 DEF DescriptorInv, Closed
  <2>6. DescriptorInv'
    <3>1. ASSUME NEW f \in Fds, fd_table'[f] # Closed
          PROVE  \E u \in Threads : fd_table'[f] = {u} /\ fd'[u] = f
      <4>1. CASE f = low
        BY <2>3, <4>1
      <4>2. CASE f # low
        <5>1. PICK u \in Threads : fd_table[f] = {u} /\ fd[u] = f
          BY <1>0, <2>3, <3>1, <4>2 DEF DescriptorInv
        <5>2. u # t
          BY <1>2, <5>1 DEF Fds, NoFd
        <5> QED
          BY <2>3, <4>2, <5>1, <5>2
      <4> QED
        BY <4>1, <4>2
    <3>2. ASSUME NEW u \in Threads
          PROVE  /\ pc'[u] \in {"new", "setup"} => fd'[u] = NoFd
                 /\ pc'[u] \in Opened => fd'[u] # NoFd
                 /\ pc'[u] # "dead" /\ fd'[u] # NoFd => fd_table'[fd'[u]] = {u}
                 /\ fd'[u] = NoFd => in_flight'[u] = 0
      <4>1. CASE u = t
        BY <1>4, <2>3, <4>1
      <4>2. CASE u # t
        <5>1. pc'[u] # "dead" /\ fd'[u] # NoFd => fd[u] # low /\ fd[u] \in Fds
          BY <1>0, <1>1, <2>3, <2>5, <4>2 DEF FileTypeOK
        <5> QED
          BY <1>0, <1>1, <2>3, <4>2, <5>1 DEF DescriptorInv
      <4> QED
        BY <4>1, <4>2
    <3> QED
      BY <3>1, <3>2 DEF DescriptorInv, Fds
  <2>7. LeaveInv'
    <3>1. SUFFICES ASSUME ~MayReuse' PROVE LeaveInv'
      BY DEF LeaveInv
    <3>2. ~MayReuse
      BY <3>1, JobRunStep DEF FilesInv
    <3>3. job_pc \notin Stopping
      <4>1. Counted # Threads
        BY <1>1 DEF Counted, IInv, WorkerInv, FullLoop, Short, Ending
      <4> QED
        BY <4>1 DEF IInv, CountInv, Stopping, Initialized
    <3>4. \A u \in Threads \ {t} : fd[u] # low
      BY <1>0, <2>5, <3>2, <3>3 DEF LeaveInv
    <3>5. ASSUME NEW u \in Threads, fd'[u] # NoFd PROVE fd_table'[fd'[u]] \subseteq {u}
      BY <1>0, <2>3, <3>2, <3>4, <3>5 DEF LeaveInv, FileTypeOK
    <3>6. /\ ~run_threads' => job_pc' \in Stopping
          /\ \A u \in Threads : pc'[u] = "dead" => job_pc' \in Stopping
      BY <1>0, <1>1, <1>4, <3>2 DEF LeaveInv
    <3> QED
      BY <3>5, <3>6 DEF LeaveInv
  <2>8. OnOwnTarget'
    BY <1>0, <2>2, JobRunStep DEF OnOwnTarget, MayReuse, FilesInv
  <2> QED
    BY <2>4, <2>6, <2>7, <2>8, JobRunStep DEF FilesInv
<1> QED
  BY <1>3, <1>4

(* close(): the number is free again, and nobody uses it.                   *)
LEMMA CloseFiles ==
  ASSUME IInv, FilesInv, [Next]_vars, NEW t \in Threads, Close(t),
         pc[t] \in Opened, pc'[t] = "dead", \A u \in Threads \ {t} : pc'[u] = pc[u],
         in_flight' = in_flight
  PROVE  FilesInv'
<1>0. TypeOK /\ FileTypeOK /\ DescriptorInv /\ LeaveInv /\ OnOwnTarget
  BY DEF IInv, FilesInv
<1>1. fd[t] \in Fds /\ fd_table[fd[t]] = {t}
  <2>1. pc[t] # "dead"
    BY DEF Opened, Full, FullLoop, Short
  <2> QED
    BY <1>0, <2>1 DEF DescriptorInv, FileTypeOK
<1>2. /\ fd' = fd /\ touched' = touched
      /\ fd_table'[fd[t]] = Closed /\ \A f \in Fds \ {fd[t]} : fd_table'[f] = fd_table[f]
  BY <1>0, <1>1 DEF Close, FileTypeOK
<1>3. FileTypeOK'
  BY <1>0, <1>1, <1>2 DEF FileTypeOK, Close, Closed, Fds
<1>4. \A u \in Threads \ {t} : pc[u] # "dead" /\ fd[u] # NoFd => fd[u] # fd[t]
  BY <1>0, <1>1 DEF DescriptorInv
<1>5. DescriptorInv'
  <2>1. ASSUME NEW u \in Threads \ {t}, pc'[u] # "dead", fd'[u] # NoFd
        PROVE  fd_table'[fd'[u]] = {u}
    <3>1. fd[u] \in Fds \ {fd[t]}
      BY <1>0, <1>2, <1>4, <2>1 DEF FileTypeOK
    <3> QED
      BY <1>0, <1>2, <2>1, <3>1 DEF DescriptorInv
  <2>2. \A f \in Fds : fd_table'[f] # Closed => \E u \in Threads : fd_table'[f] = {u} /\ fd'[u] = f
    BY <1>0, <1>2 DEF DescriptorInv
  <2>3. \A u \in Threads : (pc'[u] \in {"new", "setup"} => fd'[u] = NoFd) /\
                           (pc'[u] \in Opened => fd'[u] # NoFd) /\
                           (fd'[u] = NoFd => in_flight'[u] = 0)
    BY <1>0, <1>1, <1>2 DEF DescriptorInv, Opened, Full, FullLoop, Short
  <2> QED
    BY <2>1, <2>2, <2>3 DEF DescriptorInv, Fds
<1>6. LeaveInv'
  <2>1. CASE MayReuse
    BY <2>1, JobRunStep DEF FilesInv, LeaveInv
  <2>2. CASE ~MayReuse /\ ~MayReuse'
    <3>1. ASSUME NEW u \in Threads, fd'[u] # NoFd PROVE fd_table'[fd'[u]] \subseteq {u}
      <4>1. fd[u] \in Fds /\ fd_table[fd[u]] \subseteq {u}
        BY <1>0, <1>2, <2>2, <3>1 DEF LeaveInv, FileTypeOK
      <4> QED
        BY <1>2, <4>1 DEF Closed
    <3>2. /\ ~run_threads' => job_pc' \in Stopping
          /\ \A u \in Threads : pc'[u] = "dead" => job_pc' \in Stopping
      BY <1>0, <2>2, JobRunStep DEF LeaveInv, FilesInv
    <3> QED
      BY <3>1, <3>2 DEF LeaveInv
  <2> QED
    BY <2>1, <2>2 DEF LeaveInv
<1>7. OnOwnTarget'
  BY <1>0, <1>2, JobRunStep DEF OnOwnTarget, MayReuse, FilesInv
<1> QED
  BY <1>3, <1>5, <1>6, <1>7, JobRunStep DEF FilesInv

(* A request is done on a file: through the descriptor, unless the kernel   *)
(* has the file already.                                                    *)
LEMMA CompleteFiles ==
  ASSUME IInv, FilesInv, [Next]_vars, NEW t \in Threads, CompleteIO(t)
  PROVE  FilesInv'
<1>0. TypeOK /\ FileTypeOK /\ DescriptorInv /\ LeaveInv /\ OnOwnTarget
  BY DEF IInv, FilesInv
<1>1. /\ UNCHANGED <<fd, fd_table, pc, in_flight, engine, run_threads, job_pc, signalled, job_alive>>
      /\ touched' = [touched EXCEPT ![t] = @ \cup FileOf(t)]
      /\ finished[t] < in_flight[t]
  BY DEF CompleteIO, Complete, jobVars, flagVars, objectVars
<1>2. fd[t] \in Fds
  BY <1>0, <1>1 DEF DescriptorInv, FileTypeOK, TypeOK
<1>3. FileOf(t) \subseteq Threads
  BY <1>0, <1>2 DEF FileOf, FileTypeOK
<1>4. FileTypeOK'
  BY <1>0, <1>1, <1>3 DEF FileTypeOK, Fds
<1>5. DescriptorInv' /\ LeaveInv' /\ (MayReuse' <=> MayReuse)
  BY <1>0, <1>1 DEF DescriptorInv, LeaveInv, MayReuse, SomeAbort, Fds
<1>6. OnOwnTarget'
  <2>1. SUFFICES ASSUME engine = "kernel" \/ ~MayReuse, NEW u \in Threads
                 PROVE  touched'[u] \subseteq {u}
    BY <1>1, <1>5 DEF OnOwnTarget, MayReuse
  <2>2. touched[u] \subseteq {u}
    BY <1>0, <2>1 DEF OnOwnTarget, MayReuse
  <2>3. FileOf(t) \subseteq {t}
    BY <1>0, <1>2, <2>1 DEF FileOf, LeaveInv, Fds, NoFd
  <2>4. touched'[u] = IF u = t THEN touched[t] \cup FileOf(t) ELSE touched[u]
    BY <1>0, <1>1 DEF FileTypeOK
  <2> QED
    BY <2>2, <2>3, <2>4
<1> QED
  BY <1>4, <1>5, <1>6, JobRunStep DEF FilesInv

(* Every step keeps each open descriptor with its worker.                   *)
LEMMA FilesStep == IInv /\ FilesInv /\ [IONext]_allVars => FilesInv'
<1> SUFFICES ASSUME IInv, FilesInv, [IONext]_allVars PROVE FilesInv'
  OBVIOUS
<1>0. [Next]_vars /\ TypeOK /\ DescriptorInv
  BY IOStep DEF IInv, FilesInv
<1>1. ASSUME NEW t \in Threads, WorkerIONext(t), UNCHANGED fileVars, ~SetupIO(t) PROVE FilesInv'
  <2>1. pc[t] # "setup" /\ pc[t] # "new" /\ \A u \in Threads \ {t} : pc'[u] = pc[u]
    BY <1>0, <1>1 DEF WorkerIONext, CreateGroupIO, EnqueueFirst, SubmitFirstIO, LoopTestIO, ReapIO,
         CheckStopIO, ResultIO, EnqueueAgain, RequeueIO, WorkerOnly, CreateGroup, SubmitFirst, LoopTest,
         Reap, CheckStop, Result, Requeue, Count, Announce, Enter, Record, AbortStop, AbortSignal,
         AbortNotify, Goto, vars, TypeOK
  <2>2. \A u \in Threads \ {t} : in_flight'[u] = in_flight[u]
    BY <1>0, <1>1 DEF WorkerIONext, CreateGroupIO, EnqueueFirst, SubmitFirstIO, LoopTestIO, ReapIO,
         CheckStopIO, ResultIO, EnqueueAgain, RequeueIO, WorkerOnly, CreateGroup, SubmitFirst, LoopTest,
         Reap, CheckStop, Result, Requeue, Count, Announce, Enter, Record, AbortStop, AbortSignal,
         AbortNotify, Goto, vars, TypeOK, allButPc, ioVars
  <2>3. \A u \in Threads : pc'[u] \in Opened => pc[u] # "setup"
    BY <2>1 DEF Opened, Full, FullLoop, Short
  <2>4. \A u \in Threads : fd[u] = NoFd => in_flight'[u] = 0
    BY <1>0, <2>2, JobRunStep DEF DescriptorInv, FilesInv
  <2> QED
    BY <1>0, <1>1, <2>3, <2>4, FilesFrame DEF fileVars
<1>2. ASSUME NEW t \in Threads, SetupIO(t) PROVE FilesInv'
  BY <1>0, <1>2, SetupFiles
<1>3. ASSUME NEW t \in Threads, LoopTestIO(t) \/ CheckStopIO(t), pc'[t] = "dead" PROVE FilesInv'
  <2>1. /\ Close(t) /\ pc[t] \in {"test", "reaped"} /\ in_flight' = in_flight
        /\ \A u \in Threads \ {t} : pc'[u] = pc[u]
    BY <1>0, <1>3 DEF LoopTestIO, CheckStopIO, LeaveLoop, LoopTest, CheckStop, Goto, allButPc, ioVars, TypeOK
  <2> QED
    BY <1>0, <1>3, <2>1, CloseFiles DEF Opened, Full, FullLoop, Short
<1>4. ASSUME NEW t \in Threads, WorkerIONext(t) PROVE FilesInv'
  <2>1. SetupIO(t) \/ ((LoopTestIO(t) \/ CheckStopIO(t)) /\ pc'[t] = "dead") \/ UNCHANGED fileVars
    BY <1>4 DEF WorkerIONext, CreateGroupIO, EnqueueFirst, SubmitFirstIO, LoopTestIO, ReapIO,
         CheckStopIO, ResultIO, EnqueueAgain, RequeueIO, WorkerOnly, Abandon, ioState
  <2> QED
    BY <1>1, <1>2, <1>3, <1>4, <2>1
<1>5. ASSUME NEW t \in Threads, DeviceIONext(t) PROVE FilesInv'
  BY <1>0, <1>5, CompleteFiles DEF DeviceIONext
<1>6. CASE JobIONext \/ ProcessIO \/ UNCHANGED allVars
  <2>1. UNCHANGED <<fd, fd_table, touched>>
    BY <1>6 DEF JobIONext, ProcessIO, allVars, ioState, fileVars
  <2>2. /\ in_flight' = in_flight
        /\ \A u \in Threads : pc'[u] = pc[u] \/ (pc[u] = "new" /\ pc'[u] = "setup")
    <3>1. CASE JobIONext
      BY <1>0, <3>1 DEF JobIONext, JobNext, CreateThread, Goto, allButPc, ioVars, TypeOK,
           CreateFails, BeginInit, InitWake, InitDone, BeginWarmup, WarmupWake, BeginMain, MainWake,
           MainCheck, StopThreads, JoinAll, Report, Destroy, Exit, JobGoto, allButJobPc
    <3>2. CASE ProcessIO \/ UNCHANGED allVars
      BY <3>2 DEF ProcessIO, StatsFatal, WaitFatal, Terminated, vars, ioVars, allVars
    <3> QED
      BY <1>6, <3>1, <3>2
  <2>3. \A u \in Threads : pc'[u] \in Opened => pc[u] # "setup"
    BY <2>2 DEF Opened, Full, FullLoop, Short
  <2> QED
    BY <1>0, <2>1, <2>2, <2>3, FilesFrame DEF DescriptorInv
<1> QED
  BY <1>4, <1>5, <1>6 DEF IONext

-----------------------------------------------------------------------------
(***************************************************************************)
(* What JobIO promises.                                                    *)
(***************************************************************************)

(* The invariant of JobRun, with that of the operations and descriptors.    *)
LEMMA IOInvariance == IOSafetySpec => [](IInv /\ OpsInv /\ FilesInv)
<1>1. IOInit => IInv /\ OpsInv /\ FilesInv
  BY InitIInv, OpsInit, FilesInit DEF IOInit
<1>2. (IInv /\ OpsInv /\ FilesInv) /\ [IONext]_allVars => (IInv /\ OpsInv /\ FilesInv)'
  BY Inductive, IOStep, OpsStep, FilesStep
<1> QED
  BY <1>1, <1>2, PTL DEF IOSafetySpec

(* No request is done on the target of another worker, however many workers *)
(* close and open descriptors, unless a worker aborts or the job has failed *)
(* and gone.                                                                *)
THEOREM StaysOnTarget == IOSafetySpec => []OnOwnTarget
<1>1. FilesInv => OnOwnTarget
  BY DEF FilesInv
<1> QED
  BY <1>1, IOInvariance, PTL

(* Descriptors stay those open() can return, and operations in the places   *)
(* an engine has.                                                           *)
THEOREM IOTypeCorrect == IOSafetySpec => []IOTypeOK
<1>1. IInv /\ OpsInv /\ FilesInv => IOTypeOK
  BY DEF IInv, OpsInv, FilesInv, FileTypeOK, IOTypeOK
<1> QED
  BY <1>1, IOInvariance, PTL
=============================================================================

-------------------------------- MODULE JobIO --------------------------------
(***************************************************************************)
(* The job of JobRun over the I/O of its workers: each worker calls an     *)
(* engine that keeps the promises of AsyncIO, and each operation is done   *)
(* on the file behind the descriptor its worker opened.  Every action is   *)
(* the action of JobRun with what it does to the operations and to the     *)
(* descriptors of the process.                                             *)
(*                                                                         *)
(* open() returns the lowest descriptor that is free, and a worker that    *)
(* leaves its loop closes its own with operations still in flight.  Linux  *)
(* keeps the file of a request from io_submit on; glibc's threads use the  *)
(* descriptor when they come to the request, which is then whatever file   *)
(* it stands for.                                                          *)
(***************************************************************************)

EXTENDS JobRun

VARIABLES
  caller,     \* AsyncIO: what the worker of a group does next
  place,      \* AsyncIO: where an operation is
  fd,         \* TargetData::fd, NoFd before it is opened
  fd_table,   \* the target of each descriptor: a worker's, or none (closed)
  touched     \* history: the targets the operations of a worker were done on

fileVars == <<fd, fd_table, touched>>
ioState  == <<caller, place, fileVars>>
allVars  == <<vars, ioState>>

(* The operations a worker constructs, in order.                            *)
Ops   == Threads \X (1 .. Overlap)
Owner == [o \in Ops |-> o[1]]

IO == INSTANCE AsyncIO WITH Groups <- Threads

Fds    == 1 .. Cardinality(Threads)
NoFd   == 0
Closed == {}

IOTypeOK ==
  /\ TypeOK
  /\ IO!TypeOK
  /\ fd \in [Threads -> Fds \cup {NoFd}]
  /\ fd_table \in [Fds -> SUBSET Threads]
  /\ touched \in [Threads -> SUBSET Threads]

IOInit ==
  /\ Init
  /\ IO!Init
  /\ fd = [t \in Threads |-> NoFd]
  /\ fd_table = [f \in Fds |-> Closed]
  /\ touched = [t \in Threads |-> {}]

-----------------------------------------------------------------------------
(***************************************************************************)
(* A worker, with its operations and its descriptor.                       *)
(***************************************************************************)

(* open() of the target.                                                    *)
Open(t) ==
  LET lowest == CHOOSE f \in Fds :
                  fd_table[f] = Closed /\ \A e \in Fds : e < f => fd_table[e] # Closed
  IN  /\ fd' = [fd EXCEPT ![t] = lowest]
      /\ fd_table' = [fd_table EXCEPT ![lowest] = {t}]
      /\ UNCHANGED touched

(* close() at the end of thread_func.  TargetData::fd keeps its value.      *)
Close(t) ==
  /\ fd_table' = [fd_table EXCEPT ![fd[t]] = Closed]
  /\ UNCHANGED <<fd, touched>>

(* The end of the worker's loop, and leaving it through thread_abort, which *)
(* closes nothing.                                                          *)
LeaveLoop(t) == IO!Stop(t) /\ Close(t)
Abandon(t)   == IO!Stop(t) /\ UNCHANGED fileVars

SetupIO(t) ==
  /\ Setup(t)
  /\ IF pc'[t] = "group" THEN Open(t) ELSE UNCHANGED fileVars
  /\ UNCHANGED <<caller, place>>

CreateGroupIO(t) ==
  /\ CreateGroup(t)
  /\ IO!CreateGroup(t)
  /\ pc'[t] = "fill" <=> caller'[t] = "fill"
  /\ UNCHANGED fileVars

(* The first batch is enqueued in order ...                                 *)
EnqueueFirst(t) ==
  /\ ~engine_locked
  /\ pc[t] = "fill"
  /\ \E o \in IO!At(t, "held") :
       /\ \A p \in IO!At(t, "held") : o[2] <= p[2]
       /\ IO!Enqueue(o)
  /\ UNCHANGED <<vars, fileVars>>

(* ... and submitted together.                                              *)
SubmitFirstIO(t) ==
  /\ IO!At(t, "held") = {}
  /\ SubmitFirst(t)
  /\ IF pc'[t] = "submitted"
     THEN IO!Submitted(t)
     ELSE \E S \in SUBSET IO!At(t, "queued") :
            Cardinality(S) = in_flight'[t] /\ IO!SubmitFails(t, S)
  /\ UNCHANGED fileVars

LoopTestIO(t) ==
  /\ LoopTest(t)
  /\ IF pc'[t] = "dead" THEN LeaveLoop(t) ELSE UNCHANGED ioState

ReapIO(t) ==
  /\ Reap(t)
  /\ \E o \in IO!OpsOf(t) : IO!Return(o)
  /\ UNCHANGED fileVars

CheckStopIO(t) ==
  /\ CheckStop(t)
  /\ IF pc'[t] = "dead" THEN LeaveLoop(t) ELSE UNCHANGED ioState

ResultIO(t) ==
  /\ Result(t)
  /\ IF pc'[t] = "abort" THEN Abandon(t) ELSE UNCHANGED ioState

(* The operation in hand is enqueued ...                                    *)
EnqueueAgain(t) ==
  /\ ~engine_locked
  /\ pc[t] = "requeue"
  /\ caller[t] = "reaped"
  /\ \E o \in IO!OpsOf(t) : IO!Enqueue(o)
  /\ UNCHANGED <<vars, fileVars>>

(* ... and submitted.                                                       *)
RequeueIO(t) ==
  /\ caller[t] = "submit"
  /\ Requeue(t)
  /\ IF pc'[t] = "test" THEN IO!Submitted(t) ELSE IO!SubmitFails(t, {})
  /\ UNCHANGED fileVars

(* What a worker does without its engine or its files.                      *)
WorkerOnly(t) ==
  /\ \/ Count(t) \/ Announce(t) \/ Enter(t) \/ Record(t)
     \/ AbortStop(t) \/ AbortSignal(t) \/ AbortNotify(t)
  /\ UNCHANGED ioState

-----------------------------------------------------------------------------
(* The target a request of t is done on: for the kernel the one it was      *)
(* submitted for, for glibc the one its descriptor stands for now.          *)
FileOf(t) == IF engine = "kernel" THEN {t} ELSE fd_table[fd[t]]

(* A request is done, successfully or not, and complete.                    *)
CompleteIO(t) ==
  /\ Complete(t)
  /\ \E o \in IO!OpsOf(t) : IO!Complete(o)
  /\ touched' = [touched EXCEPT ![t] = @ \cup FileOf(t)]
  /\ UNCHANGED <<fd, fd_table>>

-----------------------------------------------------------------------------
JobIONext == JobNext /\ UNCHANGED ioState

WorkerIONext(t) ==
  /\ process = "running"
  /\ \/ SetupIO(t) \/ CreateGroupIO(t) \/ EnqueueFirst(t) \/ SubmitFirstIO(t)
     \/ LoopTestIO(t) \/ ReapIO(t) \/ CheckStopIO(t) \/ ResultIO(t)
     \/ EnqueueAgain(t) \/ RequeueIO(t) \/ WorkerOnly(t)

DeviceIONext(t) == process = "running" /\ CompleteIO(t)

(* The process ends by itself, and then nothing happens any more.           *)
ProcessIO ==
  /\ StatsFatal \/ (\E t \in Threads : WaitFatal(t)) \/ Terminated
  /\ UNCHANGED ioState

IONext ==
  \/ JobIONext
  \/ \E t \in Threads : WorkerIONext(t) \/ DeviceIONext(t)
  \/ ProcessIO

(* The fairness of JobRun.                                                  *)
IOFairness ==
  /\ WF_allVars(JobIONext)
  /\ \A t \in Threads : WF_allVars(WorkerIONext(t)) /\ WF_allVars(DeviceIONext(t))

IOSafetySpec == IOInit /\ [][IONext]_allVars

IOSpec == IOSafetySpec /\ IOFairness

-----------------------------------------------------------------------------
(***************************************************************************)
(* Properties.                                                             *)
(***************************************************************************)

(* A worker has gone through thread_abort and told the others to stop.      *)
SomeAbort == signalled # {} \/ \E t \in Threads : pc[t] = "signal"

(* No request is done on the target of another worker.  A worker closes its *)
(* descriptor with requests in flight, and another may open its target      *)
(* under the same number unless it has already done so: when workers only   *)
(* stop because the job told them to, it has.  The property says nothing of *)
(* the POSIX engine once a worker has aborted, or a failed job has left     *)
(* flags to workers that are still starting: there it can happen.           *)
OnOwnTarget ==
  (engine = "kernel" \/ ~(SomeAbort \/ (job_pc = "failed" /\ ~job_alive))) =>
    \A t \in Threads : touched[t] \subseteq {t}
=============================================================================

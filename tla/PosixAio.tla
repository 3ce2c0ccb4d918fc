------------------------------ MODULE PosixAio ------------------------------
(***************************************************************************)
(* _PosixAsyncIOManager (posix_aio.cc), called by the workers the way      *)
(* thread_func calls it.  Each group has a queue and a vector of control   *)
(* blocks to suspend on; the map of in-flight ids and the id counter are   *)
(* shared by all groups.  A device may complete a request between any two  *)
(* steps of submit and while wait scans the vector.                        *)
(***************************************************************************)

EXTENDS FlightIds, Sequences, SequencesExt

CONSTANTS
  Groups,     \* group ids: one per worker
  Ops,        \* the operations constructed
  Owner       \* the group of each operation

(* Every worker has an operation: with -o0 aio_suspend, given nothing to    *)
(* wait for, returns at once, and wait calls exit(1).                       *)
ASSUME PosixAssumption ==
  /\ IsFiniteSet(Ops)
  /\ Owner \in [Ops -> Groups]
  /\ \A g \in Groups : \E o \in Ops : Owner[o] = g
  /\ IdMod \in Nat
  /\ Cardinality(Ops) < IdMod

VARIABLES
  caller,             \* where the worker of a group is in thread_func
  held,               \* operations the worker of a group holds
  group_queues,
  suspend_vecs,
  suspend_in_flight,
  next_flight_id,
  flight_id,          \* sigev_value of each operation's control block
  a,                  \* the operation submit is at, of each group
  it,                 \* the position wait has scanned to, of each group (0 outside of wait)
  aio_error           \* what aio_error says: in progress or not

localVars == <<group_queues, suspend_vecs, a, it>>
idVars    == <<suspend_in_flight, next_flight_id, flight_id>>
vars      == <<caller, held, localVars, idVars, aio_error>>

OpsOf(g) == {o \in Ops : Owner[o] = g}
Caller   == {"create", "fill", "submit", "assign", "wait", "scan", "reaped",
             "stopped", "failed"}

(* What a stands for outside of submit, where it is out of scope.           *)
AnyOp == CHOOSE o \in Ops : TRUE

TypeOK ==
  /\ caller \in [Groups -> Caller]
  /\ held \in [Groups -> SUBSET Ops]
  /\ group_queues \in [Groups -> Seq(Ops)]
  /\ suspend_vecs \in [Groups -> Seq(Ops)]
  /\ suspend_in_flight \in FlightMap(Ops)
  /\ next_flight_id \in Ids
  /\ flight_id \in [Ops -> Ids]
  /\ a \in [Groups -> Ops]
  /\ it \in [Groups -> 0 .. Cardinality(Ops)]
  /\ aio_error \in [Ops -> {"done", "inprogress"}]

Init ==
  /\ caller = [g \in Groups |-> "create"]
  /\ held = [g \in Groups |-> OpsOf(g)]
  /\ group_queues = [g \in Groups |-> <<>>]
  /\ suspend_vecs = [g \in Groups |-> <<>>]
  /\ suspend_in_flight = <<>>
  /\ next_flight_id = 0
  /\ flight_id = [o \in Ops |-> 0]
  /\ a = [g \in Groups |-> AnyOp]
  /\ it = [g \in Groups |-> 0]
  /\ aio_error = [o \in Ops |-> "done"]

Call(g, from, to) ==
  /\ caller[g] = from
  /\ caller' = [caller EXCEPT ![g] = to]

-----------------------------------------------------------------------------
(* create_group: the thread id is new, so it cannot fail.                   *)
CreateGroup(g) ==
  /\ Call(g, "create", "fill")
  /\ UNCHANGED <<held, localVars, idVars, aio_error>>

(* enqueue.                                                                 *)
Enqueue(g, o) ==
  /\ o \in held[g]
  /\ Call(g, "fill", "fill") \/ Call(g, "reaped", "submit")
  /\ group_queues' = [group_queues EXCEPT ![g] = Append(@, o)]
  /\ held' = [held EXCEPT ![g] = @ \ {o}]
  /\ UNCHANGED <<suspend_vecs, a, it, idVars, aio_error>>

(* Mutant: the request is put in front of the others.                       *)
PushBack_Front(vec, o) == <<o>> \o vec

PushBack(vec, o) == Append(vec, o)

(* submit, one round of its loop: the operation at the back of the queue is *)
(* popped and started, and its control block joins the vector.  If it can't *)
(* be started the worker gives up, and the operations left stay queued.     *)
StartOp(g) ==
  LET op == Last(group_queues[g])
  IN
  /\ caller[g] = "submit" \/ (caller[g] = "fill" /\ held[g] = {})
  /\ group_queues[g] # <<>>
  /\ group_queues' = [group_queues EXCEPT ![g] = Front(@)]
  /\ a' = [a EXCEPT ![g] = op]
  /\ \/ /\ caller' = [caller EXCEPT ![g] = "assign"]
        /\ aio_error' = [aio_error EXCEPT ![op] = "inprogress"]
        /\ suspend_vecs' = [suspend_vecs EXCEPT ![g] = PushBack(@, op)]
     \/ /\ caller' = [caller EXCEPT ![g] = "failed"]
        /\ UNCHANGED <<aio_error, suspend_vecs>>
  /\ UNCHANGED <<held, it, idVars>>

(* ... and only then, under suspend_in_flight_mutex, it gets its id.        *)
AssignFlightId(g) ==
  LET id == FreeId(next_flight_id, DOMAIN suspend_in_flight)
  IN
  /\ Call(g, "assign", IF group_queues[g] = <<>> THEN "wait" ELSE "submit")
  /\ flight_id' = [flight_id EXCEPT ![a[g]] = id]
  /\ suspend_in_flight' = [i \in DOMAIN suspend_in_flight \cup {id} |->
                             IF i = id THEN a[g] ELSE suspend_in_flight[i]]
  /\ next_flight_id' = NextId(id)
  /\ a' = [a EXCEPT ![g] = AnyOp]
  /\ UNCHANGED <<held, group_queues, suspend_vecs, it, aio_error>>

(* Mutant: aio_suspend does not wait.                                       *)
Woken_Any(g) == suspend_vecs[g] # <<>>

(* aio_suspend returns when a request of the vector has completed.          *)
Woken(g) == \E i \in DOMAIN suspend_vecs[g] : aio_error[suspend_vecs[g][i]] = "done"

Suspend(g) ==
  /\ Woken(g)
  /\ Call(g, "wait", "scan")
  /\ it' = [it EXCEPT ![g] = 1]
  /\ UNCHANGED <<held, group_queues, suspend_vecs, a, idVars, aio_error>>

(* Mutant: any request is taken for a completed one.                        *)
Completed_Any(o) == TRUE

Completed(o) == aio_error[o] # "inprogress"

(* wait walks along the vector ...                                          *)
ScanNext(g) ==
  /\ caller[g] = "scan"
  /\ ~Completed(suspend_vecs[g][it[g]])
  /\ it' = [it EXCEPT ![g] = @ + 1]
  /\ UNCHANGED <<caller, held, group_queues, suspend_vecs, a, idVars, aio_error>>

(* ... takes the first completed request out of it, and finds the operation *)
(* through the id of the control block.                                     *)
ScanTake(g) ==
  LET id == flight_id[suspend_vecs[g][it[g]]]
  IN
  /\ Call(g, "scan", "reaped")
  /\ Completed(suspend_vecs[g][it[g]])
  /\ suspend_vecs' = [suspend_vecs EXCEPT ![g] = RemoveAt(@, it[g])]
  /\ held' = [held EXCEPT ![g] = @ \cup {suspend_in_flight[id]}]
  /\ suspend_in_flight' = [i \in DOMAIN suspend_in_flight \ {id} |-> suspend_in_flight[i]]
  /\ it' = [it EXCEPT ![g] = 0]
  /\ UNCHANGED <<group_queues, a, next_flight_id, flight_id, aio_error>>

(* thread_func leaves its loop before or after a wait.                      *)
Stop(g) ==
  /\ Call(g, "wait", "stopped") \/ Call(g, "reaped", "stopped")
  /\ UNCHANGED <<held, localVars, idVars, aio_error>>

(* glibc completes a request.                                               *)
Complete(o) ==
  /\ aio_error[o] = "inprogress"
  /\ aio_error' = [aio_error EXCEPT ![o] = "done"]
  /\ UNCHANGED <<caller, held, localVars, idVars>>

Terminated ==
  /\ \A g \in Groups : caller[g] \in {"stopped", "failed"}
  /\ \A o \in Ops : aio_error[o] = "done"
  /\ UNCHANGED vars

GroupNext(g) ==
  \/ CreateGroup(g) \/ (\E o \in Ops : Enqueue(g, o))
  \/ StartOp(g) \/ AssignFlightId(g) \/ Suspend(g) \/ ScanNext(g) \/ ScanTake(g)

Next ==
  \/ \E g \in Groups : GroupNext(g) \/ Stop(g)
  \/ \E o \in Ops : Complete(o)
  \/ Terminated

(* A worker that can go on does; requests complete.  No fairness makes a    *)
(* worker leave its loop.                                                   *)
Spec ==
  /\ Init
  /\ [][Next]_vars
  /\ \A g \in Groups : WF_vars(GroupNext(g))
  /\ \A o \in Ops : WF_vars(Complete(o))

-----------------------------------------------------------------------------
(***************************************************************************)
(* Properties.                                                             *)
(***************************************************************************)

(* The requests of a group that have been given an id.                      *)
Numbered(g) ==
  {o \in ToSet(suspend_vecs[g]) : ~(caller[g] = "assign" /\ a[g] = o)}

(* The shared map holds, for all groups together, exactly the requests in   *)
(* their vectors, each under the id in its control block, also when the     *)
(* counter wraps around and whatever groups number requests in between.     *)
MapMatchesVectors ==
  LET numbered == UNION {Numbered(g) : g \in Groups}
  IN  /\ DOMAIN suspend_in_flight = {flight_id[o] : o \in numbered}
      /\ \A o \in numbered : suspend_in_flight[flight_id[o]] = o

(* wait does not reach the end of the vector (and exit(1)): the request     *)
(* that woke it, or an earlier one completed since, is still ahead.         *)
ScanFindsCompleted ==
  \A g \in Groups :
    caller[g] = "scan" =>
      \E i \in it[g] .. Len(suspend_vecs[g]) : aio_error[suspend_vecs[g][i]] = "done"

(* The engine seen from its callers: a worker numbering a request is still  *)
(* in submit and one scanning its vector in wait; what is in no vector and  *)
(* not held is queued.                                                      *)
Callers == [g \in Groups |->
              IF caller[g] = "assign" THEN "submit"
              ELSE IF caller[g] = "scan" THEN "wait" ELSE caller[g]]
Places  == [o \in Ops |->
              IF o \in ToSet(suspend_vecs[Owner[o]])
              THEN IF aio_error[o] = "inprogress" THEN "flying" ELSE "done"
              ELSE IF o \in held[Owner[o]] THEN "held" ELSE "queued"]

(* The engine implements what async_io.h promises.                          *)
Contract == INSTANCE AsyncIO WITH caller <- Callers, place <- Places

ImplementsContract == Contract!Spec

(* No completion is overlooked for ever: wait always starts at the front    *)
(* and operations submitted again go to the back.                           *)
CompletionsReturned ==
  \A o \in Ops :
    (o \in ToSet(suspend_vecs[Owner[o]]) /\ aio_error[o] = "done")
      ~> (o \in held[Owner[o]] \/ caller[Owner[o]] \in {"stopped", "failed"})
=============================================================================

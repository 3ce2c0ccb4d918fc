------------------------------ MODULE KernelAio ------------------------------
(***************************************************************************)
(* _KernelAsyncIOManager (kernel_aio.cc), called by the workers the way    *)
(* thread_func calls it.  A group has a queue, a map from in-flight ids to *)
(* operations and an io_context_t; the kernel gives back nothing but the   *)
(* id a control block carried when it was submitted.  The groups share     *)
(* groups_mutex, which a failed create_group leaves locked.                *)
(***************************************************************************)

EXTENDS FlightIds, Sequences, FiniteSets, Functions

CONSTANTS
  Groups,     \* group ids: one per worker
  Ops,        \* the operations constructed
  Owner       \* the group of each operation

ASSUME KernelAssumption ==
  /\ IsFiniteSet(Ops)
  /\ Owner \in [Ops -> Groups]
  /\ IdMod \in Nat
  /\ \A g \in Groups : Cardinality({o \in Ops : Owner[o] = g}) < IdMod

VARIABLES
  caller,         \* where the worker of a group is in thread_func
  held,           \* operations the worker of a group holds
  groups_locked,  \* groups_mutex is locked for good
  op_queue,       \* Group::op_queue
  in_flight,      \* Group::in_flight
  next_flight,    \* Group::next_flight
  cb_array,       \* _KernelAsyncIop::cb_array, NoArray before the first submission
  items_left,     \* CbArray::items_left of each array
  flying,         \* control blocks the kernel works on, with the id they carry
  ring            \* completed events of each context, in order

codeVars   == <<op_queue, in_flight, next_flight, cb_array, items_left>>
deviceVars == <<flying, ring>>
vars       == <<caller, held, groups_locked, codeVars, deviceVars>>

OpsOf(g) == {o \in Ops : Owner[o] = g}

(* Names for the CbArrays: an array lives as long as an operation points to *)
(* it, so one more than there are operations is always enough.              *)
Arrays   == 1 .. Cardinality(Ops) + 1
NoArray  == 0

Event    == [data : Ids, op : Ops]
Caller   == {"create", "fill", "submit", "wait", "getevents", "reaped",
             "stopped", "failed"}

TypeOK ==
  /\ caller \in [Groups -> Caller]
  /\ held \in [Groups -> SUBSET Ops]
  /\ groups_locked \in BOOLEAN
  /\ op_queue \in [Groups -> Seq(Ops)]
  /\ in_flight \in [Groups -> FlightMap(Ops)]
  /\ next_flight \in [Groups -> Ids]
  /\ cb_array \in [Ops -> Arrays \cup {NoArray}]
  /\ items_left \in [Arrays -> 0 .. Cardinality(Ops)]
  /\ flying \subseteq Event
  /\ ring \in [Groups -> Seq(Event)]

Init ==
  /\ caller = [g \in Groups |-> "create"]
  /\ held = [g \in Groups |-> OpsOf(g)]
  /\ groups_locked = FALSE
  /\ op_queue = [g \in Groups |-> <<>>]
  /\ in_flight = [g \in Groups |-> <<>>]
  /\ next_flight = [g \in Groups |-> 0]
  /\ cb_array = [o \in Ops |-> NoArray]
  /\ items_left = [a \in Arrays |-> 0]
  /\ flying = {}
  /\ ring = [g \in Groups |-> <<>>]

Call(g, from, to) ==
  /\ caller[g] = from
  /\ caller' = [caller EXCEPT ![g] = to]

-----------------------------------------------------------------------------
(* create_group.  io_queue_init may fail, and for no operations (-o0) it    *)
(* does; the early return skips the unlock.                                 *)
CreateGroup(g) ==
  /\ ~groups_locked
  /\ \/ OpsOf(g) # {} /\ Call(g, "create", "fill") /\ UNCHANGED groups_locked
     \/ Call(g, "create", "failed") /\ groups_locked' = TRUE
  /\ UNCHANGED <<held, codeVars, deviceVars>>

(* enqueue.                                                                 *)
Enqueue(g, o) ==
  /\ ~groups_locked
  /\ o \in held[g]
  /\ Call(g, "fill", "fill") \/ Call(g, "reaped", "submit")
  /\ op_queue' = [op_queue EXCEPT ![g] = Append(@, o)]
  /\ held' = [held EXCEPT ![g] = @ \ {o}]
  /\ UNCHANGED <<groups_locked, in_flight, next_flight, cb_array, items_left, deviceVars>>

(* The ids the operations of the queue get, one after the other, starting   *)
(* with a map whose keys are used: assigned[i] is the id of the i-th.       *)
AssignIds(n, next, used) ==
  LET assigned[i \in 0 .. n] ==
        IF i = 0 THEN <<>>
        ELSE LET previous == assigned[i - 1]
                 from == IF i = 1 THEN next ELSE NextId(previous[i - 1])
             IN  Append(previous, FreeId(from, used \cup Range(previous)))
  IN  assigned[n]

(* Mutant: one array for all submissions.                                   *)
FreshArray_Shared == 1

(* The CbArray of a submission is a fresh one.                              *)
FreshArray == CHOOSE a \in Arrays : \A o \in Ops : cb_array[o] # a

(* Mutant: the count starts one short.                                      *)
Size_OneShort(queue) == Len(queue) - 1

(* CbArray::size, with which items_left starts.                             *)
Size(queue) == Len(queue)

(* submit: an array for the whole queue, an id for each operation, and one  *)
(* io_submit, which takes all of it or, failing, some from the front.  Then *)
(* the ids are erased again, the queue is not cleared and io_cancel is      *)
(* tried on each, whose outcome is ignored: any of those sent may be kept.  *)
Submit(g) ==
  LET queue == op_queue[g]
      n     == Len(queue)
      ids   == AssignIds(n, next_flight[g], DOMAIN in_flight[g])
      array == FreshArray
      sent(k) == {[data |-> ids[i], op |-> queue[i]] : i \in 1 .. k}
  IN
  /\ ~groups_locked
  /\ caller[g] \in {"fill", "submit"}
  /\ held[g] = {}
  /\ next_flight' = [next_flight EXCEPT ![g] = NextId(ids[n])]
  /\ cb_array' = [o \in Ops |-> IF o \in Range(queue) THEN array ELSE cb_array[o]]
  /\ items_left' = [items_left EXCEPT ![array] = Size(queue)]
  /\ \/ /\ caller' = [caller EXCEPT ![g] = "wait"]
        /\ flying' = flying \cup sent(n)
        /\ in_flight' = [in_flight EXCEPT ![g] =
             [id \in DOMAIN @ \cup Range(ids) |->
                IF id \in DOMAIN @ THEN @[id]
                ELSE queue[CHOOSE i \in 1 .. n : ids[i] = id]]]
        /\ op_queue' = [op_queue EXCEPT ![g] = <<>>]
     \/ /\ caller' = [caller EXCEPT ![g] = "failed"]
        /\ \E kept \in SUBSET sent(n - 1) : flying' = flying \cup kept
        /\ UNCHANGED <<in_flight, op_queue>>
  /\ UNCHANGED <<held, groups_locked, ring>>

(* wait finds its group under the mutex before it blocks in io_getevents.   *)
Enter(g) ==
  /\ ~groups_locked
  /\ Call(g, "wait", "getevents")
  /\ UNCHANGED <<held, groups_locked, codeVars, deviceVars>>

(* Mutant: take the first operation of the map.                             *)
LookUp_First(g, id) ==
  in_flight[g][CHOOSE i \in DOMAIN in_flight[g] : \A j \in DOMAIN in_flight[g] : i <= j]

(* Operations are found by the id of their event alone.                     *)
LookUp(g, id) == in_flight[g][id]

(* io_getevents blocks until there is an event, whose id finds the          *)
(* operation in the map; its array counts down and is freed with the last.  *)
Reap(g) ==
  /\ ring[g] # <<>>
  /\ Call(g, "getevents", "reaped")
  /\ LET id == Head(ring[g]).data
         op == LookUp(g, id)
     IN  /\ held' = [held EXCEPT ![g] = @ \cup {op}]
         /\ in_flight' = [in_flight EXCEPT ![g] = [i \in DOMAIN @ \ {id} |-> @[i]]]
         /\ items_left' = [items_left EXCEPT ![cb_array[op]] = @ - 1]
  /\ ring' = [ring EXCEPT ![g] = Tail(@)]
  /\ UNCHANGED <<groups_locked, op_queue, next_flight, cb_array, flying>>

(* thread_func leaves its loop before or after a wait.                      *)
Stop(g) ==
  /\ Call(g, "wait", "stopped") \/ Call(g, "reaped", "stopped")
  /\ UNCHANGED <<held, groups_locked, codeVars, deviceVars>>

(* The kernel completes a request and posts its event.                      *)
Complete(e) ==
  /\ e \in flying
  /\ flying' = flying \ {e}
  /\ ring' = [ring EXCEPT ![Owner[e.op]] = Append(@, e)]
  /\ UNCHANGED <<caller, held, groups_locked, codeVars>>

(* All workers have stopped or hang on groups_mutex.                        *)
Terminated ==
  /\ flying = {}
  /\ \A g \in Groups :
       \/ caller[g] \in {"stopped", "failed"}
       \/ groups_locked /\ caller[g] # "getevents"
  /\ UNCHANGED vars

GroupNext(g) ==
  CreateGroup(g) \/ (\E o \in Ops : Enqueue(g, o)) \/ Submit(g) \/ Enter(g) \/ Reap(g)

Next ==
  \/ \E g \in Groups : GroupNext(g) \/ Stop(g)
  \/ \E e \in flying : Complete(e)
  \/ Terminated

(* A worker that can go on does; the kernel completes what it accepted.  No *)
(* fairness makes a worker leave its loop.                                  *)
Spec ==
  /\ Init
  /\ [][Next]_vars
  /\ \A g \in Groups : WF_vars(GroupNext(g))
  /\ \A o \in Ops : WF_vars(\E e \in flying : e.op = o /\ Complete(e))

-----------------------------------------------------------------------------
(***************************************************************************)
(* Properties.                                                             *)
(***************************************************************************)

(* Requests of the group the kernel has not given back.                     *)
Outstanding(g) == {e \in flying : Owner[e.op] = g} \cup Range(ring[g])

(* The in-flight map of a group is exactly what the kernel will give back:  *)
(* the id every outstanding request carries finds that very operation, also *)
(* when ids wrap around, and the map keeps nothing else.                    *)
MapMatchesKernel ==
  \A g \in Groups :
    caller[g] # "failed" =>
      /\ DOMAIN in_flight[g] = {e.data : e \in Outstanding(g)}
      /\ \A e \in Outstanding(g) : in_flight[g][e.data] = e.op

(* A CbArray's count is the number of its requests still outstanding: it    *)
(* reaches 0, and the array is freed, when the last one is reaped and only  *)
(* then, although an operation moves to another array when it is submitted  *)
(* again.                                                                   *)
ItemsLeftCounts ==
  \A a \in Arrays :
    (\A o \in Ops : cb_array[o] = a => caller[Owner[o]] # "failed") =>
      items_left[a] =
        Cardinality({o \in Ops : cb_array[o] = a /\
                       \E e \in Outstanding(Owner[o]) : e.op = o})

(* What the contract sees of the engine: which call a worker is in, and     *)
(* where an operation is.                                                   *)
Callers == [g \in Groups |-> IF caller[g] = "getevents" THEN "wait" ELSE caller[g]]
Places  == [o \in Ops |->
              IF \E e \in flying : e.op = o THEN "flying"
              ELSE IF \E e \in Range(ring[Owner[o]]) : e.op = o THEN "done"
              ELSE IF o \in held[Owner[o]] THEN "held" ELSE "queued"]

(* The engine implements what async_io.h promises.                          *)
Contract == INSTANCE AsyncIO WITH caller <- Callers, place <- Places

ImplementsContract == Contract!Spec
=============================================================================

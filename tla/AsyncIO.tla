------------------------------- MODULE AsyncIO -------------------------------
(***************************************************************************)
(* What IAsyncIOManager (async_io.h) promises each worker, in the order in *)
(* which ThreadParams::thread_func calls it: create_group, enqueue of      *)
(* every operation, submit, and then wait, enqueue and submit of the       *)
(* operation that wait returned.  An operation goes round from the caller  *)
(* to the queue, to the device and back: it is never lost, never returned  *)
(* before it completed and never returned to another group.                *)
(***************************************************************************)

CONSTANTS
  Groups,     \* group ids: one per worker
  Ops,        \* the operations constructed
  Owner       \* the group of each operation: a function in [Ops -> Groups]

VARIABLES
  caller,     \* what the worker of a group does next
  place       \* where an operation is

vars == <<caller, place>>

Place  == {"held", "queued", "flying", "done"}
Caller == {"create", "fill", "submit", "wait", "reaped",
           "stopped", "failed"}

OpsOf(g)     == {o \in Ops : Owner[o] = g}
At(g, where) == {o \in OpsOf(g) : place[o] = where}

TypeOK ==
  /\ caller \in [Groups -> Caller]
  /\ place \in [Ops -> Place]

Init ==
  /\ caller = [g \in Groups |-> "create"]
  /\ place = [o \in Ops |-> "held"]

Call(g, from, to) ==
  /\ caller[g] = from
  /\ caller' = [caller EXCEPT ![g] = to]

Move(S, to) == place' = [o \in Ops |-> IF o \in S THEN to ELSE place[o]]

CreateGroup(g) ==
  /\ \E to \in {"fill", "failed"} : Call(g, "create", to)
  /\ UNCHANGED place

(* The first batch is enqueued one by one, later the operation in hand.     *)
Enqueue(o) ==
  /\ place[o] = "held"
  /\ \/ Call(Owner[o], "fill", "fill")
     \/ Call(Owner[o], "reaped", "submit")
  /\ Move({o}, "queued")

(* Submission may start the queued operations one after the other.          *)
Start(g, S) ==
  /\ S \subseteq At(g, "queued")
  /\ caller[g] \in {"fill", "submit"}
  /\ At(g, "held") = {}
  /\ caller' = [caller EXCEPT ![g] = "submit"]
  /\ Move(S, "flying")

Submitted(g) ==
  /\ caller[g] \in {"fill", "submit"}
  /\ At(g, "held") = {}
  /\ caller' = [caller EXCEPT ![g] = "wait"]
  /\ Move(At(g, "queued"), "flying")

(* A failed submission may have started some.                               *)
SubmitFails(g, S) ==
  /\ S \subseteq At(g, "queued")
  /\ caller[g] \in {"fill", "submit"}
  /\ caller' = [caller EXCEPT ![g] = "failed"]
  /\ Move(S, "flying")

Complete(o) ==
  /\ place[o] = "flying"
  /\ Move({o}, "done")
  /\ UNCHANGED caller

Return(o) ==
  /\ place[o] = "done"
  /\ Call(Owner[o], "wait", "reaped")
  /\ Move({o}, "held")

(* The worker leaves its loop.                                              *)
Stop(g) ==
  /\ \E from \in {"wait", "reaped"} : Call(g, from, "stopped")
  /\ UNCHANGED place

Next ==
  \/ \E g \in Groups :
       \/ CreateGroup(g) \/ Submitted(g) \/ Stop(g)
       \/ \E S \in SUBSET OpsOf(g) : Start(g, S) \/ SubmitFails(g, S)
  \/ \E o \in Ops : Enqueue(o) \/ Complete(o) \/ Return(o)

Spec == Init /\ [][Next]_vars

=============================================================================

--------------------------- MODULE PosixAioProofs ---------------------------
(***************************************************************************)
(* Theorems about PosixAio for any number of workers and operations: the    *)
(* shared map stays in step with the vectors of all groups, wait never      *)
(* runs off the end of its vector, and the engine is one that keeps the     *)
(* promises of AsyncIO.                                                     *)
(***************************************************************************)

EXTENDS PosixAio, DataLemmas

(* The requests that have their id, found from the operation.               *)
NumberedOps ==
  {o \in Ops : /\ o \in Elems(suspend_vecs[Owner[o]])
               /\ ~(caller[Owner[o]] = "assign" /\ a[Owner[o]] = o)}

MapMatchesNumbered ==
  /\ DOMAIN suspend_in_flight = {flight_id[o] : o \in NumberedOps}
  /\ \A o \in NumberedOps : suspend_in_flight[flight_id[o]] = o

(* A group's operations are in its queue, in its vector or with its worker, *)
(* in one of them and once; none gets into another group.                   *)
OwnOps ==
  \A g \in Groups :
    LET queued == Elems(group_queues[g])
        started == Elems(suspend_vecs[g])
    IN  /\ queued \cup started \cup held[g] \subseteq OpsOf(g)
        /\ queued \cap started = {} /\ queued \cap held[g] = {} /\ started \cap held[g] = {}
        /\ Distinct(group_queues[g]) /\ Distinct(suspend_vecs[g])

(* A worker that did not give up has lost none of them.                     *)
NothingLost ==
  \A g \in Groups :
    caller[g] # "failed" =>
      OpsOf(g) \subseteq Elems(group_queues[g]) \cup Elems(suspend_vecs[g]) \cup held[g]

(* What thread_func has in hand and in the queue at each of its steps.      *)
CallerHolds ==
  \A g \in Groups :
    /\ caller[g] \in {"submit", "assign", "wait", "scan"} => held[g] = {}
    /\ caller[g] \in {"wait", "scan", "reaped"} => group_queues[g] = <<>>
    /\ caller[g] = "reaped" => \E o \in Ops : held[g] = {o}
    /\ caller[g] = "assign" => a[g] \in Elems(suspend_vecs[g])
    /\ caller[g] = "scan" => it[g] # 0

(* Only requests in a vector are in progress.                               *)
InProgressInVector ==
  \A o \in Ops : aio_error[o] = "inprogress" => o \in Elems(suspend_vecs[Owner[o]])

IInv ==
  /\ TypeOK
  /\ OwnOps
  /\ NothingLost
  /\ CallerHolds
  /\ InProgressInVector
  /\ MapMatchesNumbered
  /\ ScanFindsCompleted

-----------------------------------------------------------------------------
(* The ids of the engine stay below their width, and the search for a free  *)
(* one succeeds while fewer are in use than there are.                      *)
LEMMA IdTypes ==
  ASSUME IdMod \in Nat \ {0}, NEW id \in Ids
  PROVE  /\ NextId(id) \in Ids
         /\ \A used : IsFiniteSet(used) /\ Cardinality(used) < IdMod =>
              FreeId(id, used) \in Ids \ used
<1>1. id + 1 \in Nat /\ id \in 0 .. IdMod - 1
  BY DEF Ids
<1>2. NextId(id) \in Ids
  BY <1>1, ModuloBelow DEF NextId, Ids
<1>3. ASSUME NEW used, IsFiniteSet(used), Cardinality(used) < IdMod
      PROVE  FreeId(id, used) \in Ids \ used
  BY <1>1, <1>3, FirstFree DEF FreeId, Ids
<1> QED
  BY <1>2, <1>3

(* The requests with an id in the map are those of each group's vector      *)
(* but the one whose submission has not got its id yet.                     *)
LEMMA NumberedByGroup ==
  TypeOK /\ OwnOps => UNION {Numbered(g) : g \in Groups} = NumberedOps
<1> SUFFICES ASSUME TypeOK, OwnOps
             PROVE  UNION {Numbered(g) : g \in Groups} = NumberedOps
  OBVIOUS
<1>1. \A g \in Groups : ToSet(suspend_vecs[g]) = Elems(suspend_vecs[g])
  BY ElemsIsSet DEF TypeOK
<1>2. \A g \in Groups : Elems(suspend_vecs[g]) \subseteq OpsOf(g)
  BY DEF OwnOps
<1>3. \A o \in Ops : Owner[o] \in Groups
  BY PosixAssumption
<1> QED
  BY <1>1, <1>2, <1>3 DEF Numbered, NumberedOps, OpsOf

(* Before any group exists every operation is with its worker and nothing   *)
(* is numbered.                                                             *)
LEMMA InitInv == Init => IInv
<1> SUFFICES ASSUME Init PROVE IInv
  OBVIOUS
<1>0. Elems(<<>>) = {} /\ <<>> \in Seq(Ops) /\ Distinct(<<>>) /\ DOMAIN <<>> = {}
  BY DEF Elems, Distinct
<1>1. TypeOK
  <2>1. \A g \in Groups : AnyOp \in Ops
    BY PosixAssumption DEF AnyOp
  <2>2. 0 \in Ids /\ 0 \in 0 .. Cardinality(Ops)
    BY PosixAssumption, FS_CardinalityType DEF Ids
  <2>3. <<>> \in FlightMap(Ops)
    <3>1. <<>> \in [{} -> Ops]
      OBVIOUS
    <3> QED
      BY <3>1 DEF FlightMap
  <2> QED
    BY <1>0, <2>1, <2>2, <2>3 DEF Init, TypeOK, Caller, OpsOf
<1>2. OwnOps
  BY <1>0 DEF Init, OwnOps
<1>3. NothingLost
  BY <1>0 DEF Init, NothingLost
<1>4. CallerHolds
  BY DEF Init, CallerHolds
<1>5. InProgressInVector
  BY DEF Init, InProgressInVector
<1>6. MapMatchesNumbered
  <2>1. NumberedOps = {}
    BY <1>0, PosixAssumption DEF Init, NumberedOps
  <2> QED
    BY <1>0, <2>1 DEF Init, MapMatchesNumbered
<1>7. ScanFindsCompleted
  BY DEF Init, ScanFindsCompleted
<1> QED
  BY <1>1, <1>2, <1>3, <1>4, <1>5, <1>6, <1>7 DEF IInv

-----------------------------------------------------------------------------
(* create_group touches no operation.                                       *)
LEMMA CreateGroupInv ==
  ASSUME IInv, NEW g \in Groups, CreateGroup(g)
  PROVE  IInv'
<1> USE DEF CreateGroup, Call, localVars, idVars
<1>1. TypeOK'
  BY DEF IInv, TypeOK, Caller
<1>2. OwnOps' /\ InProgressInVector'
  BY DEF IInv, OwnOps, InProgressInVector
<1>3. NothingLost' /\ CallerHolds' /\ ScanFindsCompleted'
  BY DEF IInv, TypeOK, NothingLost, CallerHolds, ScanFindsCompleted
<1>4. MapMatchesNumbered'
  <2>1. NumberedOps' = NumberedOps
    BY PosixAssumption DEF IInv, TypeOK, NumberedOps
  <2> QED
    BY <2>1 DEF IInv, MapMatchesNumbered
<1> QED
  BY <1>1, <1>2, <1>3, <1>4 DEF IInv

(* A worker that leaves its loop leaves its requests where they are.        *)
LEMMA StopInv ==
  ASSUME IInv, NEW g \in Groups, Stop(g)
  PROVE  IInv'
<1> USE DEF Stop, Call, localVars, idVars
<1>1. TypeOK'
  BY DEF IInv, TypeOK, Caller
<1>2. OwnOps' /\ InProgressInVector'
  BY DEF IInv, OwnOps, InProgressInVector
<1>3. NothingLost' /\ CallerHolds' /\ ScanFindsCompleted'
  BY DEF IInv, TypeOK, NothingLost, CallerHolds, ScanFindsCompleted
<1>4. MapMatchesNumbered'
  <2>1. NumberedOps' = NumberedOps
    BY PosixAssumption DEF IInv, TypeOK, NumberedOps
  <2> QED
    BY <2>1 DEF IInv, MapMatchesNumbered
<1> QED
  BY <1>1, <1>2, <1>3, <1>4 DEF IInv

(* enqueue moves an operation from its worker to the back of the queue of   *)
(* its group.                                                               *)
LEMMA EnqueueInv ==
  ASSUME IInv, NEW g \in Groups, NEW o \in Ops, Enqueue(g, o)
  PROVE  IInv'
<1> USE DEF Enqueue, Call, idVars
<1>0. TypeOK /\ OwnOps /\ NothingLost /\ CallerHolds
  BY DEF IInv
<1>1. /\ group_queues' = [group_queues EXCEPT ![g] = Append(group_queues[g], o)]
      /\ group_queues[g] \in Seq(Ops)
  BY <1>0 DEF TypeOK
<1>2. /\ Append(group_queues[g], o) \in Seq(Ops)
      /\ Elems(Append(group_queues[g], o)) = Elems(group_queues[g]) \cup {o}
      /\ Distinct(group_queues[g]) /\ o \notin Elems(group_queues[g]) =>
           Distinct(Append(group_queues[g], o))
  BY <1>1, ElemsOfAppend
<1>3. /\ Elems(group_queues'[g]) = Elems(group_queues[g]) \cup {o}
      /\ Distinct(group_queues[g]) /\ o \notin Elems(group_queues[g]) => Distinct(group_queues'[g])
      /\ held'[g] = held[g] \ {o}
      /\ \A h \in Groups \ {g} : group_queues'[h] = group_queues[h] /\ held'[h] = held[h]
      /\ o \in held[g]
  BY <1>0, <1>1, <1>2 DEF TypeOK
<1>4. TypeOK'
  BY <1>0, <1>1, <1>2 DEF TypeOK, Caller
<1>5. OwnOps'
  BY <1>0, <1>3 DEF OwnOps
<1>6. NothingLost'
  BY <1>0, <1>3 DEF NothingLost, TypeOK
<1>7. CallerHolds'
  <2>1. ASSUME NEW h \in Groups \ {g}
        PROVE  caller'[h] = caller[h] /\ held'[h] = held[h] /\ group_queues'[h] = group_queues[h]
    BY <1>0, <1>3 DEF TypeOK
  <2>2. caller'[g] = "fill" \/ (caller'[g] = "submit" /\ held'[g] = {})
    BY <1>0, <1>3 DEF TypeOK, CallerHolds
  <2> QED
    BY <1>0, <2>1, <2>2 DEF CallerHolds
<1>8. InProgressInVector' /\ ScanFindsCompleted'
  BY DEF IInv, TypeOK, InProgressInVector, ScanFindsCompleted
<1>9. MapMatchesNumbered'
  <2>1. NumberedOps' = NumberedOps
    BY PosixAssumption DEF IInv, TypeOK, NumberedOps
  <2> QED
    BY <2>1 DEF IInv, MapMatchesNumbered
<1> QED
  BY <1>4, <1>5, <1>6, <1>7, <1>8, <1>9 DEF IInv

(* At the start of its scan a worker has all of its vector ahead.           *)
LEMMA SuspendInv ==
  ASSUME IInv, NEW g \in Groups, Suspend(g)
  PROVE  IInv'
<1> USE DEF Suspend, Call, idVars
<1>0. TypeOK /\ OwnOps /\ NothingLost /\ CallerHolds
  BY DEF IInv
<1>1. PICK i \in 1 .. Len(suspend_vecs[g]) : aio_error[suspend_vecs[g][i]] = "done"
  <2>1. DOMAIN suspend_vecs[g] = 1 .. Len(suspend_vecs[g])
    BY <1>0, ElemsIsSet DEF TypeOK
  <2> QED
    BY <2>1 DEF Woken
<1>2. TypeOK'
  <2>1. Len(suspend_vecs[g]) \in Nat /\ Len(suspend_vecs[g]) <= Cardinality(Ops)
    BY <1>0, DistinctIsShort, PosixAssumption, ElemsIsSet DEF TypeOK, OwnOps
  <2>2. 1 \in 0 .. Cardinality(Ops)
    BY <1>1, <2>1, PosixAssumption, FS_CardinalityType
  <2> QED
    BY <1>0, <2>2 DEF TypeOK, Caller
<1>3. OwnOps' /\ InProgressInVector'
  BY DEF IInv, OwnOps, InProgressInVector
<1>4. NothingLost' /\ CallerHolds'
  BY <1>0 DEF TypeOK, NothingLost, CallerHolds
<1>5. ScanFindsCompleted'
  BY <1>1 DEF IInv, TypeOK, ScanFindsCompleted
<1>6. MapMatchesNumbered'
  <2>1. NumberedOps' = NumberedOps
    BY PosixAssumption DEF IInv, TypeOK, NumberedOps
  <2> QED
    BY <2>1 DEF IInv, MapMatchesNumbered
<1> QED
  BY <1>2, <1>3, <1>4, <1>5, <1>6 DEF IInv

(* The request passed over is not the completed one that is still ahead.    *)
LEMMA ScanNextInv ==
  ASSUME IInv, NEW g \in Groups, ScanNext(g)
  PROVE  IInv'
<1> USE DEF ScanNext, Completed, idVars
<1>0. TypeOK /\ OwnOps /\ NothingLost /\ CallerHolds
  BY DEF IInv
<1>1. PICK i \in it[g] .. Len(suspend_vecs[g]) : aio_error[suspend_vecs[g][i]] = "done"
  BY DEF IInv, ScanFindsCompleted
<1>2. it[g] \in Nat /\ Len(suspend_vecs[g]) \in Nat /\ Len(suspend_vecs[g]) <= Cardinality(Ops)
  BY <1>0, DistinctIsShort, PosixAssumption, ElemsIsSet, FS_CardinalityType DEF TypeOK, OwnOps
<1>3. i \in it[g] + 1 .. Len(suspend_vecs[g])
  BY <1>1, <1>2
<1>4. it'[g] = it[g] + 1 /\ it' = [it EXCEPT ![g] = it[g] + 1]
  BY <1>0 DEF TypeOK
<1>5. TypeOK'
  <2>1. it[g] + 1 \in 0 .. Cardinality(Ops)
    BY <1>2, <1>3, PosixAssumption, FS_CardinalityType
  <2> QED
    BY <1>0, <1>4, <2>1 DEF TypeOK
<1>6. OwnOps' /\ InProgressInVector' /\ NothingLost'
  BY DEF IInv, OwnOps, InProgressInVector, NothingLost
<1>7. CallerHolds'
  BY <1>0, <1>2, <1>4 DEF TypeOK, CallerHolds
<1>8. ScanFindsCompleted'
  BY <1>1, <1>3, <1>4 DEF IInv, TypeOK, ScanFindsCompleted
<1>9. MapMatchesNumbered'
  BY DEF IInv, MapMatchesNumbered, NumberedOps
<1> QED
  BY <1>5, <1>6, <1>7, <1>8, <1>9 DEF IInv

(* The completion of a request changes nothing but its status.              *)
LEMMA CompleteInv ==
  ASSUME IInv, NEW o \in Ops, Complete(o)
  PROVE  IInv'
<1> USE DEF Complete, localVars, idVars
<1>1. TypeOK'
  BY DEF IInv, TypeOK
<1>2. OwnOps' /\ NothingLost' /\ CallerHolds'
  BY DEF IInv, OwnOps, NothingLost, CallerHolds
<1>3. InProgressInVector'
  BY DEF IInv, TypeOK, InProgressInVector
<1>4. ScanFindsCompleted'
  <2>1. \A p \in Ops : aio_error[p] = "done" => aio_error'[p] = "done"
    BY DEF IInv, TypeOK
  <2>2. ASSUME NEW g \in Groups, caller[g] = "scan"
        PROVE  \E i \in it[g] .. Len(suspend_vecs[g]) : aio_error'[suspend_vecs[g][i]] = "done"
    <3>1. PICK i \in it[g] .. Len(suspend_vecs[g]) : aio_error[suspend_vecs[g][i]] = "done"
      BY <2>2 DEF IInv, ScanFindsCompleted
    <3>2. i \in 1 .. Len(suspend_vecs[g]) /\ suspend_vecs[g] \in Seq(Ops)
      <4>1. it[g] \in Nat \ {0}
        BY <2>2, PosixAssumption, FS_CardinalityType DEF IInv, TypeOK, CallerHolds
      <4>2. suspend_vecs[g] \in Seq(Ops) /\ Len(suspend_vecs[g]) \in Nat
        BY ElemsIsSet DEF IInv, TypeOK
      <4> QED
        BY <3>1, <4>1, <4>2
    <3> QED
      BY <2>1, <3>1, <3>2, ElementOfSeq
  <2> QED
    BY <2>2 DEF ScanFindsCompleted
<1>5. MapMatchesNumbered'
  BY DEF IInv, MapMatchesNumbered, NumberedOps
<1> QED
  BY <1>1, <1>2, <1>3, <1>4, <1>5 DEF IInv

(* What popping the back of the queue leaves of it.                         *)
LEMMA QueueBack ==
  ASSUME IInv, NEW g \in Groups, group_queues[g] # <<>>
  PROVE  /\ Front(group_queues[g]) \in Seq(Ops)
         /\ Last(group_queues[g]) \in OpsOf(g)
         /\ Elems(group_queues[g]) = Elems(Front(group_queues[g])) \cup {Last(group_queues[g])}
         /\ Distinct(Front(group_queues[g]))
         /\ Last(group_queues[g]) \notin Elems(Front(group_queues[g]))
         /\ Last(group_queues[g]) \notin Elems(suspend_vecs[g])
         /\ Last(group_queues[g]) \notin held[g]
<1>1. group_queues[g] \in Seq(Ops)
  BY DEF IInv, TypeOK
<1>2. /\ Distinct(group_queues[g])
      /\ Elems(group_queues[g]) \subseteq OpsOf(g)
      /\ Elems(group_queues[g]) \cap Elems(suspend_vecs[g]) = {}
      /\ Elems(group_queues[g]) \cap held[g] = {}
  BY DEF IInv, OwnOps
<1>3. /\ Front(group_queues[g]) \in Seq(Ops)
      /\ Elems(group_queues[g]) = Elems(Front(group_queues[g])) \cup {Last(group_queues[g])}
      /\ Distinct(Front(group_queues[g]))
      /\ Last(group_queues[g]) \notin Elems(Front(group_queues[g]))
  BY <1>1, <1>2, ElemsOfFront
<1> QED
  BY <1>2, <1>3

(* The operation started is numbered neither before nor after the step.     *)
LEMMA StartOpInv ==
  ASSUME IInv, NEW g \in Groups, StartOp(g)
  PROVE  IInv'
<1> DEFINE op == Last(group_queues[g])
<1> USE DEF idVars, PushBack
<1>0. TypeOK /\ OwnOps /\ NothingLost /\ CallerHolds
  BY DEF IInv
<1>1. /\ Front(group_queues[g]) \in Seq(Ops)
      /\ op \in Ops /\ Owner[op] = g
      /\ Elems(group_queues[g]) = Elems(Front(group_queues[g])) \cup {op}
      /\ Distinct(Front(group_queues[g]))
      /\ op \notin Elems(Front(group_queues[g])) /\ op \notin Elems(suspend_vecs[g]) /\ op \notin held[g]
  <2>1. group_queues[g] # <<>>
    BY DEF StartOp
  <2> QED
    BY <2>1, QueueBack DEF OpsOf
<1>2. /\ held[g] = {}
      /\ caller[g] \in {"fill", "submit"}
  BY <1>0 DEF StartOp, CallerHolds
<1>3. /\ group_queues' = [group_queues EXCEPT ![g] = Front(group_queues[g])]
      /\ a' = [a EXCEPT ![g] = op]
      /\ held' = held /\ it' = it /\ suspend_in_flight' = suspend_in_flight
      /\ next_flight_id' = next_flight_id /\ flight_id' = flight_id
  BY <1>0 DEF StartOp, TypeOK
<1> HIDE DEF op
<1>4. CASE /\ caller' = [caller EXCEPT ![g] = "assign"]
           /\ aio_error' = [aio_error EXCEPT ![op] = "inprogress"]
           /\ suspend_vecs' = [suspend_vecs EXCEPT ![g] = Append(suspend_vecs[g], op)]
  <2>1. /\ Append(suspend_vecs[g], op) \in Seq(Ops)
        /\ Elems(Append(suspend_vecs[g], op)) = Elems(suspend_vecs[g]) \cup {op}
        /\ Distinct(suspend_vecs[g]) /\ op \notin Elems(suspend_vecs[g]) =>
             Distinct(Append(suspend_vecs[g], op))
    BY <1>0, <1>1, ElemsOfAppend DEF TypeOK
  <2>2. /\ group_queues'[g] = Front(group_queues[g])
        /\ suspend_vecs'[g] = Append(suspend_vecs[g], op)
        /\ caller'[g] = "assign" /\ a'[g] = op
        /\ aio_error'[op] = "inprogress"
        /\ \A h \in Groups \ {g} : /\ group_queues'[h] = group_queues[h]
                                    /\ suspend_vecs'[h] = suspend_vecs[h]
                                    /\ caller'[h] = caller[h] /\ a'[h] = a[h]
        /\ \A p \in Ops \ {op} : aio_error'[p] = aio_error[p]
    BY <1>0, <1>1, <1>3, <1>4 DEF TypeOK
  <2>3. TypeOK'
    BY <1>0, <1>1, <1>3, <1>4, <2>1 DEF TypeOK, Caller
  <2>4. OwnOps'
    <3>1. ASSUME NEW h \in Groups \ {g}
          PROVE  /\ group_queues'[h] = group_queues[h]
                 /\ suspend_vecs'[h] = suspend_vecs[h] /\ held'[h] = held[h]
      BY <1>3, <2>2
    <3>2. /\ Elems(group_queues'[g]) \cup {op} = Elems(group_queues[g])
          /\ op \notin Elems(group_queues'[g])
          /\ Elems(suspend_vecs'[g]) = Elems(suspend_vecs[g]) \cup {op}
          /\ held'[g] = {}
          /\ Distinct(group_queues'[g]) /\ Distinct(suspend_vecs'[g])
      BY <1>0, <1>1, <1>2, <1>3, <2>1, <2>2 DEF OwnOps
    <3> QED
      BY <1>0, <3>1, <3>2 DEF OwnOps
  <2>5. NothingLost'
    BY <1>0, <1>1, <1>2, <1>3, <2>1, <2>2 DEF NothingLost
  <2>6. CallerHolds'
    BY <1>0, <1>2, <1>3, <2>1, <2>2 DEF CallerHolds
  <2>7. InProgressInVector'
    BY <1>0, <1>1, <2>1, <2>2, PosixAssumption DEF IInv, InProgressInVector
  <2>8. ScanFindsCompleted'
    <3>1. ASSUME NEW h \in Groups, caller'[h] = "scan"
          PROVE  \E i \in it'[h] .. Len(suspend_vecs'[h]) : aio_error'[suspend_vecs'[h][i]] = "done"
      <4>1. h # g /\ caller[h] = "scan" /\ suspend_vecs'[h] = suspend_vecs[h] /\ it'[h] = it[h]
        BY <1>3, <2>2, <3>1
      <4>2. PICK i \in it[h] .. Len(suspend_vecs[h]) : aio_error[suspend_vecs[h][i]] = "done"
        BY <4>1 DEF IInv, ScanFindsCompleted
      <4>3. i \in 1 .. Len(suspend_vecs[h])
        <5>1. it[h] \in Nat \ {0}
          BY <1>0, <4>1, PosixAssumption, FS_CardinalityType DEF TypeOK, CallerHolds
        <5>2. Len(suspend_vecs[h]) \in Nat
          BY <1>0, ElemsIsSet DEF TypeOK
        <5> QED
          BY <4>2, <5>1, <5>2
      <4>4. suspend_vecs[h][i] \in Ops /\ suspend_vecs[h][i] # op
        <5>1. suspend_vecs[h][i] \in OpsOf(h)
          BY <1>0, <4>3 DEF OwnOps, Elems
        <5> QED
          BY <1>1, <4>1, <5>1 DEF OpsOf
      <4> QED
        BY <2>2, <4>1, <4>2, <4>4
    <3> QED
      BY <3>1 DEF ScanFindsCompleted
  <2>9. MapMatchesNumbered'
    <3>1. NumberedOps' = NumberedOps
      <4>1. \A p \in Ops : Owner[p] \in Groups
        BY PosixAssumption
      <4>2. \A p \in Ops : Owner[p] # g => (p \in NumberedOps' <=> p \in NumberedOps)
        BY <2>2, <4>1 DEF NumberedOps
      <4>3. ASSUME NEW p \in Ops, Owner[p] = g
            PROVE  p \in NumberedOps' <=> p \in NumberedOps
        <5>1. p \in NumberedOps <=> p \in Elems(suspend_vecs[g])
          BY <1>2, <4>3 DEF NumberedOps
        <5>2. p \in NumberedOps' <=> p \in Elems(suspend_vecs[g]) \cup {op} /\ op # p
          BY <2>1, <2>2, <4>3 DEF NumberedOps
        <5> QED
          BY <1>1, <5>1, <5>2
      <4> QED
        BY <4>2, <4>3 DEF NumberedOps
    <3> QED
      BY <1>3, <3>1 DEF IInv, MapMatchesNumbered
  <2> QED
    BY <2>3, <2>4, <2>5, <2>6, <2>7, <2>8, <2>9 DEF IInv
<1>5. CASE /\ caller' = [caller EXCEPT ![g] = "failed"]
           /\ aio_error' = aio_error
           /\ suspend_vecs' = suspend_vecs
  <2>1. /\ group_queues'[g] = Front(group_queues[g])
        /\ caller'[g] = "failed"
        /\ \A h \in Groups \ {g} : /\ group_queues'[h] = group_queues[h]
                                    /\ caller'[h] = caller[h] /\ a'[h] = a[h]
    BY <1>0, <1>3, <1>5 DEF TypeOK
  <2>2. TypeOK'
    BY <1>0, <1>1, <1>3, <1>5 DEF TypeOK, Caller
  <2>3. OwnOps'
    BY <1>0, <1>1, <1>3, <1>5, <2>1 DEF OwnOps
  <2>4. NothingLost' /\ CallerHolds' /\ ScanFindsCompleted' /\ InProgressInVector'
    BY <1>3, <1>5, <2>1 DEF IInv, NothingLost, CallerHolds, ScanFindsCompleted, InProgressInVector
  <2>5. MapMatchesNumbered'
    <3>1. NumberedOps' = NumberedOps
      BY <1>2, <1>5, <2>1, PosixAssumption DEF NumberedOps
    <3> QED
      BY <1>3, <3>1 DEF IInv, MapMatchesNumbered
  <2> QED
    BY <2>2, <2>3, <2>4, <2>5 DEF IInv
<1> QED
  BY <1>0, <1>4, <1>5 DEF StartOp, TypeOK, op

(* The map holds fewer ids than there are.                                  *)
LEMMA SomeIdLeft ==
  ASSUME IInv
  PROVE  /\ IsFiniteSet(DOMAIN suspend_in_flight)
         /\ Cardinality(DOMAIN suspend_in_flight) < IdMod
         /\ IdMod \in Nat \ {0}
<1>1. /\ IsFiniteSet(NumberedOps)
      /\ Cardinality(NumberedOps) \in Nat /\ Cardinality(Ops) \in Nat
      /\ Cardinality(NumberedOps) <= Cardinality(Ops)
  <2>1. NumberedOps \subseteq Ops
    BY DEF NumberedOps
  <2> QED
    BY <2>1, PosixAssumption, FS_Subset, FS_CardinalityType
<1>2. DOMAIN suspend_in_flight = {flight_id[o] : o \in NumberedOps}
  BY DEF IInv, MapMatchesNumbered
<1>3. /\ IsFiniteSet(DOMAIN suspend_in_flight)
      /\ Cardinality(DOMAIN suspend_in_flight) <= Cardinality(NumberedOps)
  BY <1>1, <1>2, ImageIsSmall
<1>4. Cardinality(DOMAIN suspend_in_flight) \in Nat
  BY <1>3, FS_CardinalityType
<1> QED
  BY <1>1, <1>3, <1>4, PosixAssumption

(* The id given is one no numbered request has, so the map gains one entry  *)
(* and finds the others as before.                                          *)
LEMMA AssignFlightIdInv ==
  ASSUME IInv, NEW g \in Groups, AssignFlightId(g)
  PROVE  IInv'
<1> DEFINE id == FreeId(next_flight_id, DOMAIN suspend_in_flight)
           op == a[g]
<1> USE DEF Call
<1>0. TypeOK /\ OwnOps /\ NothingLost /\ CallerHolds
  BY DEF IInv
<1>1. id \in Ids /\ id \notin DOMAIN suspend_in_flight
  BY <1>0, SomeIdLeft, IdTypes DEF TypeOK
<1>2. NextId(id) \in Ids
  BY <1>1, SomeIdLeft, IdTypes
<1>3. /\ op \in Elems(suspend_vecs[g]) /\ op \in Ops /\ Owner[op] = g
      /\ held[g] = {} /\ caller[g] = "assign"
  BY <1>0 DEF AssignFlightId, CallerHolds, OwnOps, OpsOf
<1>4. /\ caller' = [caller EXCEPT ![g] = IF group_queues[g] = <<>> THEN "wait" ELSE "submit"]
      /\ flight_id' = [flight_id EXCEPT ![op] = id]
      /\ suspend_in_flight' = [i \in DOMAIN suspend_in_flight \cup {id} |->
                                 IF i = id THEN op ELSE suspend_in_flight[i]]
      /\ next_flight_id' = NextId(id)
      /\ a' = [a EXCEPT ![g] = AnyOp]
      /\ held' = held /\ group_queues' = group_queues /\ suspend_vecs' = suspend_vecs
      /\ it' = it /\ aio_error' = aio_error
  BY DEF AssignFlightId
<1> HIDE DEF id, op
<1>5. TypeOK'
  <2>1. suspend_in_flight' \in FlightMap(Ops)
    <3>1. /\ DOMAIN suspend_in_flight \cup {id} \subseteq Ids
          /\ \A i \in DOMAIN suspend_in_flight : suspend_in_flight[i] \in Ops
      BY <1>0, <1>1 DEF TypeOK, FlightMap
    <3>2. suspend_in_flight' \in [DOMAIN suspend_in_flight \cup {id} -> Ops]
      BY <1>3, <1>4, <3>1
    <3> QED
      BY <3>1, <3>2 DEF FlightMap
  <2>2. AnyOp \in Ops
    BY <1>3 DEF AnyOp
  <2> QED
    BY <1>0, <1>1, <1>2, <1>3, <1>4, <2>1, <2>2 DEF TypeOK, Caller
<1>6. OwnOps'
  BY <1>0, <1>4 DEF OwnOps
<1>7. /\ caller'[g] \in {"wait", "submit"}
      /\ caller'[g] = "wait" => group_queues[g] = <<>>
      /\ \A h \in Groups \ {g} : caller'[h] = caller[h] /\ a'[h] = a[h]
  BY <1>0, <1>4 DEF TypeOK
<1>8. NothingLost'
  BY <1>0, <1>3, <1>4, <1>7 DEF NothingLost
<1>9. CallerHolds'
  BY <1>0, <1>3, <1>4, <1>7 DEF CallerHolds
<1>10. InProgressInVector' /\ ScanFindsCompleted'
  BY <1>4, <1>7 DEF IInv, InProgressInVector, ScanFindsCompleted
<1>11. MapMatchesNumbered'
  <2>1. NumberedOps' = NumberedOps \cup {op} /\ op \notin NumberedOps
    <3>1. \A p \in Ops : Owner[p] \in Groups
      BY PosixAssumption
    <3>2. \A p \in Ops : Owner[p] # g => (p \in NumberedOps' <=> p \in NumberedOps)
      BY <1>4, <1>7, <3>1 DEF NumberedOps
    <3>3. ASSUME NEW p \in Ops, Owner[p] = g
          PROVE  /\ p \in NumberedOps <=> p \in Elems(suspend_vecs[g]) /\ op # p
                 /\ p \in NumberedOps' <=> p \in Elems(suspend_vecs[g])
      BY <1>3, <1>4, <1>7, <3>3 DEF NumberedOps, op
    <3>4. op \in NumberedOps' /\ op \notin NumberedOps
      BY <1>3, <3>3
    <3> QED
      BY <1>3, <3>2, <3>3, <3>4 DEF NumberedOps
  <2>2. /\ flight_id'[op] = id
        /\ \A p \in NumberedOps : flight_id'[p] = flight_id[p]
    <3>1. NumberedOps \subseteq Ops
      BY DEF NumberedOps
    <3> QED
      BY <1>0, <1>3, <1>4, <2>1, <3>1 DEF TypeOK
  <2>3. /\ DOMAIN suspend_in_flight = {flight_id[p] : p \in NumberedOps}
        /\ \A p \in NumberedOps : suspend_in_flight[flight_id[p]] = p
    BY DEF IInv, MapMatchesNumbered
  <2>4. DOMAIN suspend_in_flight' = {flight_id'[p] : p \in NumberedOps'}
    BY <1>4, <2>1, <2>2, <2>3
  <2>5. ASSUME NEW p \in NumberedOps' PROVE suspend_in_flight'[flight_id'[p]] = p
    <3>1. CASE p = op
      BY <1>4, <2>2, <3>1
    <3>2. CASE p \in NumberedOps
      <4>1. flight_id[p] \in DOMAIN suspend_in_flight /\ flight_id[p] # id
        BY <1>1, <2>3, <3>2
      <4> QED
        BY <1>4, <2>2, <2>3, <3>2, <4>1
    <3> QED
      BY <2>1, <3>1, <3>2
  <2> QED
    BY <2>4, <2>5 DEF MapMatchesNumbered
<1> QED
  BY <1>5, <1>6, <1>8, <1>9, <1>10, <1>11 DEF IInv

(* What the scan has found: a request of the group, numbered, in no other   *)
(* place, which the map has under the id of its control block.              *)
LEMMA ScanHasFound ==
  ASSUME IInv, NEW g \in Groups, caller[g] = "scan"
  PROVE  LET op == suspend_vecs[g][it[g]]
         IN  /\ it[g] \in 1 .. Len(suspend_vecs[g])
             /\ op \in Elems(suspend_vecs[g]) /\ op \in Ops /\ Owner[op] = g
             /\ op \in NumberedOps
             /\ flight_id[op] \in DOMAIN suspend_in_flight
             /\ suspend_in_flight[flight_id[op]] = op
             /\ group_queues[g] = <<>> /\ held[g] = {}
<1> DEFINE op == suspend_vecs[g][it[g]]
<1>1. TypeOK /\ OwnOps /\ CallerHolds /\ ScanFindsCompleted /\ MapMatchesNumbered
  BY DEF IInv
<1>2. it[g] \in 1 .. Len(suspend_vecs[g])
  <2>1. it[g] \in Nat \ {0}
    BY <1>1, PosixAssumption, FS_CardinalityType DEF TypeOK, CallerHolds
  <2>2. \E i \in it[g] .. Len(suspend_vecs[g]) : aio_error[suspend_vecs[g][i]] = "done"
    BY <1>1 DEF ScanFindsCompleted
  <2>3. Len(suspend_vecs[g]) \in Nat
    BY <1>1, ElemsIsSet DEF TypeOK
  <2> QED
    BY <2>1, <2>2, <2>3
<1>3. op \in Elems(suspend_vecs[g])
  BY <1>2 DEF Elems
<1>4. op \in Ops /\ Owner[op] = g
  BY <1>1, <1>3 DEF OwnOps, OpsOf
<1>5. op \in NumberedOps
  BY <1>3, <1>4 DEF NumberedOps
<1>6. flight_id[op] \in DOMAIN suspend_in_flight /\ suspend_in_flight[flight_id[op]] = op
  BY <1>1, <1>5 DEF MapMatchesNumbered
<1>7. group_queues[g] = <<>> /\ held[g] = {}
  BY <1>1 DEF CallerHolds
<1> QED
  BY <1>2, <1>3, <1>4, <1>5, <1>6, <1>7

(* The request leaves the vector and the map together, and no other request *)
(* had its id.                                                              *)
LEMMA ScanTakeInv ==
  ASSUME IInv, NEW g \in Groups, ScanTake(g)
  PROVE  IInv'
<1> DEFINE op == suspend_vecs[g][it[g]]
           id == flight_id[op]
<1> USE DEF Call, Completed
<1>0. TypeOK /\ OwnOps /\ NothingLost /\ CallerHolds
  BY DEF IInv
<1>1. /\ it[g] \in 1 .. Len(suspend_vecs[g])
      /\ op \in Elems(suspend_vecs[g]) /\ op \in Ops /\ Owner[op] = g
      /\ op \in NumberedOps
      /\ id \in DOMAIN suspend_in_flight /\ suspend_in_flight[id] = op
      /\ group_queues[g] = <<>> /\ held[g] = {}
      /\ caller[g] = "scan"
  BY ScanHasFound DEF ScanTake
<1>2. /\ RemoveAt(suspend_vecs[g], it[g]) \in Seq(Ops)
      /\ Distinct(RemoveAt(suspend_vecs[g], it[g]))
      /\ Elems(RemoveAt(suspend_vecs[g], it[g])) = Elems(suspend_vecs[g]) \ {op}
  BY <1>0, <1>1, ElemsOfRemoveAt DEF TypeOK, OwnOps
<1>3. /\ caller' = [caller EXCEPT ![g] = "reaped"]
      /\ suspend_vecs' = [suspend_vecs EXCEPT ![g] = RemoveAt(suspend_vecs[g], it[g])]
      /\ held' = [held EXCEPT ![g] = {op}]
      /\ suspend_in_flight' = [i \in DOMAIN suspend_in_flight \ {id} |-> suspend_in_flight[i]]
      /\ it' = [it EXCEPT ![g] = 0]
      /\ group_queues' = group_queues /\ a' = a /\ next_flight_id' = next_flight_id
      /\ flight_id' = flight_id /\ aio_error' = aio_error
      /\ aio_error[op] # "inprogress"
  BY <1>0, <1>1 DEF ScanTake, TypeOK
<1> HIDE DEF id, op
<1>4. /\ suspend_vecs'[g] = RemoveAt(suspend_vecs[g], it[g])
      /\ held'[g] = {op} /\ caller'[g] = "reaped" /\ it'[g] = 0
      /\ \A h \in Groups \ {g} : /\ suspend_vecs'[h] = suspend_vecs[h] /\ held'[h] = held[h]
                                  /\ caller'[h] = caller[h] /\ it'[h] = it[h]
  BY <1>0, <1>3 DEF TypeOK
<1>5. TypeOK'
  <2>1. suspend_in_flight' \in FlightMap(Ops)
    <3>1. /\ DOMAIN suspend_in_flight \ {id} \subseteq Ids
          /\ \A i \in DOMAIN suspend_in_flight : suspend_in_flight[i] \in Ops
      BY <1>0 DEF TypeOK, FlightMap
    <3>2. suspend_in_flight' \in [DOMAIN suspend_in_flight \ {id} -> Ops]
      BY <1>3, <3>1
    <3> QED
      BY <3>1, <3>2 DEF FlightMap
  <2>2. 0 \in 0 .. Cardinality(Ops)
    BY PosixAssumption, FS_CardinalityType
  <2> QED
    BY <1>0, <1>1, <1>2, <1>3, <2>1, <2>2 DEF TypeOK, Caller
<1>6. OwnOps'
  <2>1. /\ Elems(suspend_vecs'[g]) = Elems(suspend_vecs[g]) \ {op}
        /\ Distinct(suspend_vecs'[g])
        /\ op \in Elems(suspend_vecs[g])
    BY <1>1, <1>2, <1>4
  <2>2. Elems(group_queues[g]) = {}
    BY <1>1 DEF Elems
  <2>3. OpsOf(g)' = OpsOf(g) /\ op \in OpsOf(g)
    BY <1>1 DEF OpsOf
  <2> QED
    BY <1>0, <1>3, <1>4, <2>1, <2>2, <2>3 DEF OwnOps
<1>7. NothingLost'
  BY <1>0, <1>1, <1>2, <1>3, <1>4 DEF NothingLost
<1>8. CallerHolds'
  BY <1>0, <1>1, <1>3, <1>4 DEF CallerHolds
<1>9. InProgressInVector'
  BY <1>2, <1>3, <1>4, PosixAssumption DEF IInv, InProgressInVector
<1>10. ScanFindsCompleted'
  BY <1>3, <1>4 DEF IInv, ScanFindsCompleted
<1>11. MapMatchesNumbered'
  <2>1. NumberedOps' = NumberedOps \ {op}
    <3>1. \A p \in Ops : Owner[p] \in Groups
      BY PosixAssumption
    <3>2. \A p \in Ops : Owner[p] # g => (p \in NumberedOps' <=> p \in NumberedOps)
      BY <1>3, <1>4, <3>1 DEF NumberedOps
    <3>3. ASSUME NEW p \in Ops, Owner[p] = g
          PROVE  /\ p \in NumberedOps <=> p \in Elems(suspend_vecs[g])
                 /\ p \in NumberedOps' <=> p \in Elems(suspend_vecs[g]) \ {op}
      BY <1>1, <1>2, <1>3, <1>4, <3>3 DEF NumberedOps
    <3> QED
      BY <1>1, <3>2, <3>3 DEF NumberedOps
  <2>2. /\ DOMAIN suspend_in_flight = {flight_id[p] : p \in NumberedOps}
        /\ \A p \in NumberedOps : suspend_in_flight[flight_id[p]] = p
    BY DEF IInv, MapMatchesNumbered
  <2>3. \A p \in NumberedOps : p # op => flight_id[p] # id
    BY <1>1, <2>2
  <2>4. id = flight_id[op]
    BY DEF id
  <2>5. DOMAIN suspend_in_flight' = {flight_id'[p] : p \in NumberedOps'}
    BY <1>3, <2>1, <2>2, <2>3, <2>4
  <2>6. \A p \in NumberedOps' : suspend_in_flight'[flight_id'[p]] = p
    BY <1>3, <2>1, <2>2, <2>3
  <2> QED
    BY <2>5, <2>6 DEF MapMatchesNumbered
<1> QED
  BY <1>5, <1>6, <1>7, <1>8, <1>9, <1>10, <1>11 DEF IInv

(* Every step keeps the invariant.                                          *)
LEMMA NextInv == IInv /\ [Next]_vars => IInv'
<1> SUFFICES ASSUME IInv, [Next]_vars PROVE IInv'
  OBVIOUS
<1>1. ASSUME NEW g \in Groups, GroupNext(g) \/ Stop(g)
      PROVE  IInv'
  BY <1>1, CreateGroupInv, EnqueueInv, StartOpInv, AssignFlightIdInv, SuspendInv,
     ScanNextInv, ScanTakeInv, StopInv DEF GroupNext
<1>2. ASSUME NEW o \in Ops, Complete(o)
      PROVE  IInv'
  BY <1>2, CompleteInv
<1>3. CASE UNCHANGED vars
  BY <1>3 DEF vars, localVars, idVars, IInv, TypeOK, OwnOps, NothingLost, CallerHolds,
              InProgressInVector, MapMatchesNumbered, NumberedOps, ScanFindsCompleted
<1> QED
  BY <1>1, <1>2, <1>3 DEF Next, Terminated

(* The invariant holds in every state of a run.                             *)
LEMMA Invariance == Spec => []IInv
BY InitInv, NextInv, PTL DEF Spec

-----------------------------------------------------------------------------
(* Every variable of the engine and its callers keeps its type: no id       *)
(* leaves its width and no scan passes the end of its vector.               *)
THEOREM TypeCorrect == Spec => []TypeOK
BY Invariance, PTL DEF IInv

(* For any number of groups that number their requests in between each      *)
(* other, the shared map holds exactly the requests in their vectors, each  *)
(* under the id in its control block.                                       *)
THEOREM MapInStep == Spec => []MapMatchesVectors
<1>1. IInv => MapMatchesVectors
  BY NumberedByGroup DEF IInv, MapMatchesNumbered, MapMatchesVectors
<1> QED
  BY <1>1, Invariance, PTL

(* wait never runs off the end of the vector into its exit(1).              *)
THEOREM ScanSucceeds == Spec => []ScanFindsCompleted
BY Invariance, PTL DEF IInv

-----------------------------------------------------------------------------
(* What the contract sees of a state.                                       *)
LEMMA Seen ==
  IInv => /\ \A g \in Groups : Contract!OpsOf(g) = OpsOf(g)
          /\ \A g \in Groups : Contract!At(g, "held") = held[g]
          /\ \A g \in Groups : Elems(group_queues[g]) \subseteq Contract!At(g, "queued")
          /\ \A g \in Groups : caller[g] # "failed" =>
               Contract!At(g, "queued") = Elems(group_queues[g])
          /\ \A o \in Ops : Places[o] =
               IF o \in Elems(suspend_vecs[Owner[o]])
               THEN IF aio_error[o] = "inprogress" THEN "flying" ELSE "done"
               ELSE IF o \in held[Owner[o]] THEN "held" ELSE "queued"
<1> SUFFICES ASSUME IInv
             PROVE  /\ \A g \in Groups : Contract!OpsOf(g) = OpsOf(g)
                    /\ \A g \in Groups : Contract!At(g, "held") = held[g]
                    /\ \A g \in Groups : Elems(group_queues[g]) \subseteq Contract!At(g, "queued")
                    /\ \A g \in Groups : caller[g] # "failed" =>
                         Contract!At(g, "queued") = Elems(group_queues[g])
                    /\ \A o \in Ops : Places[o] =
                         IF o \in Elems(suspend_vecs[Owner[o]])
                         THEN IF aio_error[o] = "inprogress" THEN "flying" ELSE "done"
                         ELSE IF o \in held[Owner[o]] THEN "held" ELSE "queued"
  OBVIOUS
<1>1. \A o \in Ops : Places[o] =
        IF o \in Elems(suspend_vecs[Owner[o]])
        THEN IF aio_error[o] = "inprogress" THEN "flying" ELSE "done"
        ELSE IF o \in held[Owner[o]] THEN "held" ELSE "queued"
  BY PosixAssumption, ElemsIsSet DEF Places, IInv, TypeOK
<1>2. \A g \in Groups : Contract!OpsOf(g) = OpsOf(g)
  BY DEF Contract!OpsOf, OpsOf
<1>3. ASSUME NEW g \in Groups
      PROVE  /\ Contract!At(g, "held") = held[g]
             /\ Elems(group_queues[g]) \subseteq Contract!At(g, "queued")
             /\ caller[g] # "failed" => Contract!At(g, "queued") = Elems(group_queues[g])
  <2>1. /\ Elems(group_queues[g]) \cup held[g] \subseteq OpsOf(g)
        /\ Elems(group_queues[g]) \cap Elems(suspend_vecs[g]) = {}
        /\ held[g] \cap Elems(suspend_vecs[g]) = {}
        /\ Elems(group_queues[g]) \cap held[g] = {}
        /\ caller[g] # "failed" =>
             OpsOf(g) \subseteq Elems(group_queues[g]) \cup Elems(suspend_vecs[g]) \cup held[g]
    BY DEF IInv, OwnOps, NothingLost
  <2>2. ASSUME NEW o \in OpsOf(g)
        PROVE  Places[o] = IF o \in Elems(suspend_vecs[g])
                           THEN IF aio_error[o] = "inprogress" THEN "flying" ELSE "done"
                           ELSE IF o \in held[g] THEN "held" ELSE "queued"
    BY <1>1 DEF OpsOf
  <2>3. Contract!At(g, "held") = {o \in OpsOf(g) : o \notin Elems(suspend_vecs[g]) /\ o \in held[g]}
    BY <1>2, <2>2 DEF Contract!At
  <2>4. Contract!At(g, "queued") = {o \in OpsOf(g) : o \notin Elems(suspend_vecs[g]) /\ o \notin held[g]}
    BY <1>2, <2>2 DEF Contract!At
  <2> QED
    BY <2>1, <2>3, <2>4
<1> QED
  BY <1>1, <1>2, <1>3

(* The same of the places after a step.                                     *)
LEMMA SeenNext == IInv' =>
  \A o \in Ops : Places'[o] =
    IF o \in Elems(suspend_vecs'[Owner[o]])
    THEN IF aio_error'[o] = "inprogress" THEN "flying" ELSE "done"
    ELSE IF o \in held'[Owner[o]] THEN "held" ELSE "queued"
<1>1. IInv => \A o \in Ops : Places[o] =
               IF o \in Elems(suspend_vecs[Owner[o]])
               THEN IF aio_error[o] = "inprogress" THEN "flying" ELSE "done"
               ELSE IF o \in held[Owner[o]] THEN "held" ELSE "queued"
  BY Seen
<1>2. (IInv => \A o \in Ops : Places[o] =
               IF o \in Elems(suspend_vecs[Owner[o]])
               THEN IF aio_error[o] = "inprogress" THEN "flying" ELSE "done"
               ELSE IF o \in held[Owner[o]] THEN "held" ELSE "queued")'
  BY <1>1, PTL
<1> QED
  BY <1>2

(* A successful aio_read or aio_write starts the operation at the back of   *)
(* the queue, a failed one ends the submission.                             *)
LEMMA StartOpRefines ==
  ASSUME IInv, IInv', NEW g \in Groups, StartOp(g)
  PROVE  Contract!Start(g, {Last(group_queues[g])}) \/ Contract!SubmitFails(g, {})
<1> DEFINE op == Last(group_queues[g])
<1>0. TypeOK
  BY DEF IInv
<1>1. /\ op \in Elems(group_queues[g]) /\ op \in Ops /\ Owner[op] = g
      /\ op \notin Elems(suspend_vecs[g]) /\ op \notin held[g]
      /\ held[g] = {} /\ caller[g] \in {"fill", "submit"}
      /\ held' = held
  <2>1. /\ group_queues[g] # <<>> /\ held' = held
        /\ caller[g] = "submit" \/ (caller[g] = "fill" /\ held[g] = {})
    BY DEF StartOp
  <2>2. held[g] = {} /\ caller[g] \in {"fill", "submit"}
    BY <2>1 DEF IInv, CallerHolds
  <2>3. op \in OpsOf(g) /\ op \in Elems(group_queues[g])
        /\ op \notin Elems(suspend_vecs[g]) /\ op \notin held[g]
    BY <2>1, QueueBack
  <2> QED
    BY <2>1, <2>2, <2>3 DEF OpsOf
<1>2. /\ Contract!At(g, "held") = {}
      /\ {op} \subseteq Contract!At(g, "queued")
      /\ Callers[g] \in {"fill", "submit"}
  BY <1>1, Seen DEF Callers
<1> HIDE DEF op
<1>3. CASE /\ caller' = [caller EXCEPT ![g] = "assign"]
           /\ aio_error' = [aio_error EXCEPT ![op] = "inprogress"]
           /\ suspend_vecs' = [suspend_vecs EXCEPT ![g] = Append(suspend_vecs[g], op)]
  <2>1. Callers' = [Callers EXCEPT ![g] = "submit"]
    BY <1>0, <1>3 DEF Callers, TypeOK
  <2>2. Elems(suspend_vecs'[g]) = Elems(suspend_vecs[g]) \cup {op}
    BY <1>0, <1>1, <1>3, ElemsOfAppend DEF TypeOK
  <2>3. Places' = [o \in Ops |-> IF o \in {op} THEN "flying" ELSE Places[o]]
    <3>1. ASSUME NEW o \in Ops
          PROVE  Places'[o] = IF o \in {op} THEN "flying" ELSE Places[o]
      <4>0. /\ Places'[o] = IF o \in Elems(suspend_vecs'[Owner[o]])
                            THEN IF aio_error'[o] = "inprogress" THEN "flying" ELSE "done"
                            ELSE IF o \in held'[Owner[o]] THEN "held" ELSE "queued"
            /\ Places[o] = IF o \in Elems(suspend_vecs[Owner[o]])
                           THEN IF aio_error[o] = "inprogress" THEN "flying" ELSE "done"
                           ELSE IF o \in held[Owner[o]] THEN "held" ELSE "queued"
        BY SeenNext, Seen
      <4>1. CASE o = op
        <5>1. o \in Elems(suspend_vecs'[Owner[o]]) /\ aio_error'[o] = "inprogress"
          BY <1>0, <1>1, <1>3, <2>2, <4>1 DEF TypeOK
        <5> QED
          BY <4>0, <4>1, <5>1
      <4>2. CASE o # op /\ Owner[o] = g
        BY <1>0, <1>1, <1>3, <2>2, <4>0, <4>2 DEF TypeOK
      <4>3. CASE o # op /\ Owner[o] # g
        BY <1>0, <1>1, <1>3, <4>0, <4>3, PosixAssumption DEF TypeOK
      <4> QED
        BY <4>1, <4>2, <4>3
    <3> QED
      BY <3>1 DEF Places
  <2> QED
    BY <1>2, <2>1, <2>3 DEF Contract!Start, Contract!Move, op
<1>4. CASE /\ caller' = [caller EXCEPT ![g] = "failed"]
           /\ aio_error' = aio_error
           /\ suspend_vecs' = suspend_vecs
  <2>1. Callers' = [Callers EXCEPT ![g] = "failed"]
    BY <1>0, <1>4 DEF Callers, TypeOK
  <2>2. Places' = [o \in Ops |-> IF o \in {} THEN "flying" ELSE Places[o]]
    BY <1>1, <1>4 DEF Places
  <2> QED
    BY <1>2, <2>1, <2>2 DEF Contract!SubmitFails, Contract!Move
<1> QED
  BY <1>0, <1>3, <1>4 DEF StartOp, TypeOK, op, PushBack

(* When the last request has its id nothing is left queued, so submit as a  *)
(* whole has sent everything.                                               *)
LEMMA AssignFlightIdRefines ==
  ASSUME IInv, IInv', NEW g \in Groups, AssignFlightId(g)
  PROVE  Contract!Submitted(g) \/ Contract!Start(g, {})
<1>0. TypeOK
  BY DEF IInv
<1>1. /\ held[g] = {} /\ caller[g] = "assign"
      /\ held' = held /\ suspend_vecs' = suspend_vecs /\ aio_error' = aio_error
      /\ caller' = [caller EXCEPT ![g] = IF group_queues[g] = <<>> THEN "wait" ELSE "submit"]
  BY DEF AssignFlightId, Call, IInv, CallerHolds
<1>2. Contract!At(g, "held") = {} /\ Callers[g] = "submit"
  BY <1>1, Seen DEF Callers
<1>3. Places' = Places /\ \A S : Places' = [o \in Ops |-> IF o \in {} THEN S ELSE Places[o]]
  BY <1>1 DEF Places
<1>4. CASE group_queues[g] = <<>>
  <2>1. Contract!At(g, "queued") = {}
    BY <1>1, <1>4, Seen DEF Elems
  <2>2. Callers' = [Callers EXCEPT ![g] = "wait"]
    BY <1>0, <1>1, <1>4 DEF Callers, TypeOK
  <2> QED
    BY <1>2, <1>3, <2>1, <2>2 DEF Contract!Submitted, Contract!Move
<1>5. CASE group_queues[g] # <<>>
  <2>1. Callers' = [Callers EXCEPT ![g] = "submit"]
    BY <1>0, <1>1, <1>5 DEF Callers, TypeOK
  <2> QED
    BY <1>2, <1>3, <2>1 DEF Contract!Start, Contract!Move
<1> QED
  BY <1>4, <1>5

(* wait returns the completed request that is where its scan has come to.   *)
LEMMA ScanTakeRefines ==
  ASSUME IInv, IInv', NEW g \in Groups, ScanTake(g)
  PROVE  \E o \in Ops : Contract!Return(o)
<1> DEFINE op == suspend_vecs[g][it[g]]
<1>0. TypeOK /\ OwnOps
  BY DEF IInv
<1>1. /\ it[g] \in 1 .. Len(suspend_vecs[g])
      /\ op \in Elems(suspend_vecs[g]) /\ op \in Ops /\ Owner[op] = g
      /\ suspend_in_flight[flight_id[op]] = op
      /\ held[g] = {} /\ caller[g] = "scan"
  BY ScanHasFound DEF ScanTake, Call
<1>2. Elems(RemoveAt(suspend_vecs[g], it[g])) = Elems(suspend_vecs[g]) \ {op}
  BY <1>0, <1>1, ElemsOfRemoveAt DEF TypeOK, OwnOps
<1>3. /\ caller' = [caller EXCEPT ![g] = "reaped"]
      /\ suspend_vecs' = [suspend_vecs EXCEPT ![g] = RemoveAt(suspend_vecs[g], it[g])]
      /\ held' = [held EXCEPT ![g] = {op}]
      /\ aio_error' = aio_error /\ aio_error[op] # "inprogress"
  BY <1>0, <1>1 DEF ScanTake, Call, Completed, TypeOK
<1> HIDE DEF op
<1>4. Callers[g] = "wait" /\ Callers' = [Callers EXCEPT ![g] = "reaped"]
  BY <1>0, <1>1, <1>3 DEF Callers, TypeOK
<1>5. Places[op] = "done"
  BY <1>1, <1>3, Seen
<1>6. Places' = [o \in Ops |-> IF o \in {op} THEN "held" ELSE Places[o]]
  <2>1. ASSUME NEW o \in Ops
        PROVE  Places'[o] = IF o \in {op} THEN "held" ELSE Places[o]
    <3>0. /\ Places'[o] = IF o \in Elems(suspend_vecs'[Owner[o]])
                          THEN IF aio_error'[o] = "inprogress" THEN "flying" ELSE "done"
                          ELSE IF o \in held'[Owner[o]] THEN "held" ELSE "queued"
          /\ Places[o] = IF o \in Elems(suspend_vecs[Owner[o]])
                         THEN IF aio_error[o] = "inprogress" THEN "flying" ELSE "done"
                         ELSE IF o \in held[Owner[o]] THEN "held" ELSE "queued"
      BY SeenNext, Seen
    <3>1. CASE o = op
      <4>1. o \notin Elems(suspend_vecs'[Owner[o]]) /\ o \in held'[Owner[o]]
        BY <1>0, <1>1, <1>2, <1>3, <3>1 DEF TypeOK
      <4> QED
        BY <3>0, <3>1, <4>1
    <3>2. CASE o # op /\ Owner[o] = g
      BY <1>0, <1>1, <1>2, <1>3, <3>0, <3>2 DEF TypeOK
    <3>3. CASE o # op /\ Owner[o] # g
      BY <1>0, <1>1, <1>3, <3>0, <3>3, PosixAssumption DEF TypeOK
    <3> QED
      BY <3>1, <3>2, <3>3
  <2> QED
    BY <2>1 DEF Places
<1> QED
  BY <1>1, <1>4, <1>5, <1>6 DEF Contract!Return, Contract!Call, Contract!Move

(* An operation queued was with the worker of its group.                    *)
LEMMA EnqueueRefines ==
  ASSUME IInv, IInv', NEW g \in Groups, NEW op \in Ops, Enqueue(g, op)
  PROVE  Contract!Enqueue(op)
<1>0. TypeOK
  BY DEF IInv
<1>1. /\ op \in held[g] /\ Owner[op] = g /\ op \notin Elems(suspend_vecs[g])
      /\ held' = [held EXCEPT ![g] = held[g] \ {op}]
      /\ suspend_vecs' = suspend_vecs /\ aio_error' = aio_error
  BY <1>0 DEF Enqueue, IInv, OwnOps, OpsOf, TypeOK, idVars
<1>2. \/ Callers[g] = "fill" /\ Callers' = [Callers EXCEPT ![g] = "fill"]
      \/ Callers[g] = "reaped" /\ Callers' = [Callers EXCEPT ![g] = "submit"]
  BY <1>0 DEF Enqueue, Call, Callers, TypeOK
<1>3. Places[op] = "held"
  BY <1>1, Seen
<1>4. Places' = [o \in Ops |-> IF o \in {op} THEN "queued" ELSE Places[o]]
  <2>1. ASSUME NEW o \in Ops
        PROVE  Places'[o] = IF o \in {op} THEN "queued" ELSE Places[o]
    <3>0. /\ Places'[o] = IF o \in Elems(suspend_vecs'[Owner[o]])
                          THEN IF aio_error'[o] = "inprogress" THEN "flying" ELSE "done"
                          ELSE IF o \in held'[Owner[o]] THEN "held" ELSE "queued"
          /\ Places[o] = IF o \in Elems(suspend_vecs[Owner[o]])
                         THEN IF aio_error[o] = "inprogress" THEN "flying" ELSE "done"
                         ELSE IF o \in held[Owner[o]] THEN "held" ELSE "queued"
      BY SeenNext, Seen
    <3>1. o \in held'[Owner[o]] <=> o \in held[Owner[o]] /\ o # op
      <4>1. CASE Owner[o] = g
        BY <1>0, <1>1, <4>1 DEF TypeOK
      <4>2. CASE Owner[o] # g
        BY <1>0, <1>1, <4>2, PosixAssumption DEF TypeOK
      <4> QED
        BY <4>1, <4>2
    <3> QED
      BY <1>1, <3>0, <3>1
  <2> QED
    BY <2>1 DEF Places
<1> QED
  BY <1>1, <1>2, <1>3, <1>4 DEF Contract!Enqueue, Contract!Call, Contract!Move

(* The completion of a request is that of its operation.                    *)
LEMMA CompleteRefines ==
  ASSUME IInv, NEW op \in Ops, Complete(op)
  PROVE  Contract!Complete(op)
<1>0. TypeOK
  BY DEF IInv
<1>1. /\ aio_error[op] = "inprogress" /\ aio_error' = [aio_error EXCEPT ![op] = "done"]
      /\ caller' = caller /\ held' = held /\ suspend_vecs' = suspend_vecs
      /\ op \in Elems(suspend_vecs[Owner[op]])
      /\ ToSet(suspend_vecs[Owner[op]]) = Elems(suspend_vecs[Owner[op]])
  BY <1>0, PosixAssumption, ElemsIsSet DEF Complete, localVars, IInv, InProgressInVector, TypeOK
<1>2. Callers' = Callers
  BY <1>1 DEF Callers
<1>3. Places[op] = "flying"
  BY <1>1 DEF Places
<1>4. Places' = [o \in Ops |-> IF o \in {op} THEN "done" ELSE Places[o]]
  BY <1>0, <1>1 DEF Places, TypeOK
<1> QED
  BY <1>2, <1>3, <1>4 DEF Contract!Complete, Contract!Move

(* The other steps of a worker: three the contract does not see, and the    *)
(* creation of its group and its leaving.                                   *)
LEMMA OtherStepsRefine ==
  ASSUME IInv, NEW g \in Groups,
         CreateGroup(g) \/ Suspend(g) \/ ScanNext(g) \/ Stop(g)
  PROVE  Contract!CreateGroup(g) \/ Contract!Stop(g) \/ UNCHANGED Contract!vars
<1>0. TypeOK
  BY DEF IInv
<1>1. Places' = Places
  BY DEF CreateGroup, Suspend, ScanNext, Stop, localVars, Places
<1>2. CASE CreateGroup(g)
  <2>1. Callers[g] = "create" /\ Callers' = [Callers EXCEPT ![g] = "fill"]
    BY <1>0, <1>2 DEF CreateGroup, Call, Callers, TypeOK
  <2> QED
    BY <1>1, <2>1 DEF Contract!CreateGroup, Contract!Call
<1>3. CASE Suspend(g) \/ ScanNext(g)
  <2>1. Callers' = Callers
    BY <1>0, <1>3 DEF Suspend, ScanNext, Call, Callers, TypeOK
  <2> QED
    BY <1>1, <2>1 DEF Contract!vars
<1>4. CASE Stop(g)
  <2>1. Callers[g] \in {"wait", "reaped"} /\ Callers' = [Callers EXCEPT ![g] = "stopped"]
    BY <1>0, <1>4 DEF Stop, Call, Callers, TypeOK
  <2> QED
    BY <1>1, <2>1 DEF Contract!Stop, Contract!Call
<1> QED
  BY <1>2, <1>3, <1>4

(* Every step of the engine is a step of the contract or one it does not    *)
(* see.                                                                     *)
LEMMA StepRefines == IInv /\ IInv' /\ [Next]_vars => [Contract!Next]_Contract!vars
<1> SUFFICES ASSUME IInv, IInv', [Next]_vars
             PROVE  [Contract!Next]_Contract!vars
  OBVIOUS
<1>1. ASSUME NEW g \in Groups, StartOp(g) \/ AssignFlightId(g)
      PROVE  Contract!Next
  <2>1. {} \in SUBSET Contract!OpsOf(g)
    OBVIOUS
  <2>2. StartOp(g) => {Last(group_queues[g])} \in SUBSET Contract!OpsOf(g)
    BY Seen, QueueBack DEF StartOp
  <2> QED
    BY <1>1, <2>1, <2>2, StartOpRefines, AssignFlightIdRefines DEF Contract!Next
<1>2. ASSUME NEW g \in Groups, ScanTake(g) \/ \E o \in Ops : Enqueue(g, o)
      PROVE  Contract!Next
  BY <1>2, ScanTakeRefines, EnqueueRefines DEF Contract!Next
<1>3. ASSUME NEW g \in Groups, CreateGroup(g) \/ Suspend(g) \/ ScanNext(g) \/ Stop(g)
      PROVE  [Contract!Next]_Contract!vars
  BY <1>3, OtherStepsRefine DEF Contract!Next
<1>4. ASSUME NEW o \in Ops, Complete(o)
      PROVE  Contract!Next
  BY <1>4, CompleteRefines DEF Contract!Next
<1>5. CASE UNCHANGED vars
  BY <1>5 DEF vars, localVars, Contract!vars, Callers, Places
<1> QED
  BY <1>1, <1>2, <1>3, <1>4, <1>5 DEF Next, GroupNext, Terminated

(* The POSIX engine implements what async_io.h promises: whatever its       *)
(* workers and the devices do, an operation goes from its caller through    *)
(* queue and device back to the same caller, once completed and only then.  *)
THEOREM KeepsContract == Spec => ImplementsContract
<1>1. Init => Contract!Init
  <2> SUFFICES ASSUME Init PROVE Contract!Init
    OBVIOUS
  <2>1. Callers = [g \in Groups |-> "create"]
    BY DEF Init, Callers
  <2>2. Places = [o \in Ops |-> "held"]
    <3>1. IInv
      BY InitInv
    <3>2. \A o \in Ops : o \notin Elems(suspend_vecs[Owner[o]]) /\ o \in held[Owner[o]]
      BY PosixAssumption DEF Init, Elems, OpsOf
    <3> QED
      BY <3>1, <3>2, Seen DEF Places
  <2> QED
    BY <2>1, <2>2 DEF Contract!Init
<1>2. IInv /\ IInv' /\ [Next]_vars => [Contract!Next]_Contract!vars
  BY StepRefines
<1> QED
  BY <1>1, <1>2, Invariance, PTL DEF Spec, ImplementsContract, Contract!Spec
=============================================================================

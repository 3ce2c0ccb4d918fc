--------------------------- MODULE KernelAioProofs ---------------------------
(***************************************************************************)
(* Theorems about KernelAio for any number of workers and operations: the   *)
(* id an event carries finds its operation, the counts of the arrays are    *)
(* right, and the engine is one that keeps the promises of AsyncIO.         *)
(***************************************************************************)

EXTENDS KernelAio, DataLemmas

-----------------------------------------------------------------------------
(* The ids of the engine stay below their width, and the search for a free  *)
(* one succeeds while fewer are in use than there are.                      *)
LEMMA IdTypes ==
  ASSUME IdMod \in Nat \ {0}, NEW id \in Ids
  PROVE  /\ NextId(id) \in Ids
         /\ \A used : IsFiniteSet(used) /\ Cardinality(used) < IdMod =>
              FreeId(id, used) \in Ids \ used
<1>1. id + 1 \in Nat /\ id \in 0 .. IdMod - 1
  BY DEF Ids
<1>2. NextId(id) \in Ids
  BY <1>1, ModuloBelow DEF NextId, Ids
<1>3. ASSUME NEW used, IsFiniteSet(used), Cardinality(used) < IdMod
      PROVE  FreeId(id, used) \in Ids \ used
  BY <1>1, <1>3, FirstFree DEF FreeId, Ids
<1> QED
  BY <1>2, <1>3

(* The ids of one operation more, the i-th.                                 *)
LongerBy(previous, i, next, used) ==
  Append(previous, FreeId(IF i = 1 THEN next ELSE NextId(previous[i - 1]),
                          used \cup Range(previous)))

(* The table of the ids of the first i operations, for i up to n.           *)
IsTable(f, n, next, used) ==
  f = [i \in 0 .. n |-> IF i = 0 THEN <<>> ELSE LongerBy(f[i - 1], i, next, used)]

(* The recursion of AssignIds has a solution for every number of            *)
(* operations.                                                              *)
LEMMA TableExists ==
  ASSUME NEW n \in Nat, NEW next, NEW used
  PROVE  \E f : IsTable(f, n, next, used)
<1> DEFINE Without == {m \in Nat : ~ \E f : IsTable(f, m, next, used)}
<1>1. SUFFICES ASSUME Without # {} PROVE FALSE
  OBVIOUS
<1>2. PICK m \in Without : \A k \in Without : m <= k
  BY <1>1, LeastNatural, Zenon
<1>3. CASE m = 0
  <2>1. IsTable([i \in 0 .. 0 |-> <<>>], 0, next, used)
    BY DEF IsTable
  <2> QED
    BY <1>2, <1>3, <2>1
<1>4. CASE m # 0
  <2>1. m - 1 \in Nat /\ m - 1 \notin Without
    BY <1>2, <1>4
  <2>2. PICK f : IsTable(f, m - 1, next, used)
    BY <2>1
  <2> DEFINE h == [i \in 0 .. m |-> IF i = m THEN LongerBy(f[m - 1], m, next, used) ELSE f[i]]
  <2>3. \A i \in 1 .. m : h[i - 1] = f[i - 1]
    BY <1>2, <1>4
  <2>4. ASSUME NEW i \in 0 .. m
        PROVE  h[i] = IF i = 0 THEN <<>> ELSE LongerBy(h[i - 1], i, next, used)
    <3>1. CASE i = m
      BY <1>2, <1>4, <2>3, <3>1
    <3>2. CASE i # m
      <4>1. i \in 0 .. m - 1
        BY <1>2, <3>2
      <4>2. h[i] = IF i = 0 THEN <<>> ELSE LongerBy(f[i - 1], i, next, used)
        BY <2>2, <3>2, <4>1 DEF IsTable
      <4> QED
        BY <2>3, <4>2
    <3> QED
      BY <3>1, <3>2
  <2>5. IsTable(h, m, next, used)
    BY <2>4 DEF IsTable
  <2> QED
    BY <1>2, <2>5
<1> QED
  BY <1>3, <1>4

(* So the ids AssignIds gives are the last entry of such a table.           *)
LEMMA AssignIdsIsLastOfTable ==
  ASSUME NEW n \in Nat, NEW next, NEW used
  PROVE  \E f : IsTable(f, n, next, used) /\ AssignIds(n, next, used) = f[n]
<1>1. AssignIds(n, next, used) = (CHOOSE f : IsTable(f, n, next, used))[n]
  BY DEF AssignIds, IsTable, LongerBy
<1>2. IsTable(CHOOSE f : IsTable(f, n, next, used), n, next, used)
  BY TableExists, Zenon
<1> QED
  BY <1>1, <1>2, Zenon

(* The ids of one submission are ids, differ from each other and from those *)
(* in use, as long as there are enough of them.                             *)
LEMMA AssignIdsFresh ==
  ASSUME IdMod \in Nat \ {0}, NEW n \in Nat, NEW next \in Ids, NEW used \in SUBSET Ids,
         IsFiniteSet(used), Cardinality(used) + n <= IdMod
  PROVE  LET ids == AssignIds(n, next, used)
         IN  /\ ids \in Seq(Ids) /\ Len(ids) = n
             /\ Distinct(ids)
             /\ Elems(ids) \cap used = {}
<1> DEFINE Fresh(ids, i) == /\ ids \in Seq(Ids) /\ Len(ids) = i
                            /\ Distinct(ids)
                            /\ Elems(ids) \cap used = {}
<1>1. PICK f : IsTable(f, n, next, used) /\ AssignIds(n, next, used) = f[n]
  BY AssignIdsIsLastOfTable
<1>2. \A i \in 0 .. n : f[i] = IF i = 0 THEN <<>> ELSE LongerBy(f[i - 1], i, next, used)
  BY <1>1 DEF IsTable
<1>3. Fresh(f[0], 0)
  <2>1. f[0] = <<>>
    BY <1>2
  <2> QED
    BY <2>1 DEF Distinct, Elems
<1>4. ASSUME NEW i \in 1 .. n, Fresh(f[i - 1], i - 1)
      PROVE  Fresh(f[i], i)
  <2> DEFINE previous == f[i - 1]
             from == IF i = 1 THEN next ELSE NextId(previous[i - 1])
             taken == used \cup Range(previous)
             id == FreeId(from, taken)
  <2>1. f[i] = Append(previous, id)
    <3>1. i \in 0 .. n /\ i # 0
      OBVIOUS
    <3>2. f[i] = LongerBy(f[i - 1], i, next, used)
      BY <1>2, <3>1
    <3> QED
      BY <3>2, Zenon DEF LongerBy
  <2>2. previous \in Seq(Ids) /\ Len(previous) = i - 1 /\ Distinct(previous) /\ Elems(previous) \cap used = {}
    BY <1>4
  <2> HIDE DEF previous
  <2>3. from \in Ids
    <3>1. CASE i = 1
      BY <3>1
    <3>2. CASE i # 1
      <4>1. i - 1 \in 1 .. Len(previous)
        BY <2>2, <3>2
      <4>2. previous[i - 1] \in Ids
        BY <2>2, <4>1, ElementOfSeq
      <4> QED
        BY <3>2, <4>2, IdTypes
    <3> QED
      BY <3>1, <3>2
  <2>4. Range(previous) = Elems(previous) /\ Elems(previous) \subseteq Ids
    BY <2>2, ElemsIsSet
  <2>5. IsFiniteSet(Elems(previous)) /\ Cardinality(Elems(previous)) <= i - 1
    <3>1. i - 1 \in Nat
      OBVIOUS
    <3>2. IsFiniteSet(1 .. i - 1) /\ Cardinality(1 .. i - 1) = i - 1
      BY <3>1, IntervalCount
    <3>3. Elems(previous) = {previous[k] : k \in 1 .. i - 1}
      BY <2>2 DEF Elems
    <3> QED
      BY <3>2, <3>3, ImageIsSmall
  <2>6. IsFiniteSet(taken) /\ Cardinality(taken) < IdMod
    <3>1. /\ IsFiniteSet(taken)
          /\ Cardinality(taken) = Cardinality(used) + Cardinality(Elems(previous))
                                    - Cardinality(used \cap Elems(previous))
      BY <2>4, <2>5, FS_Union
    <3>2. Cardinality(used \cap Elems(previous)) = 0
      BY <2>2, FS_EmptySet
    <3>3. Cardinality(used) \in Nat /\ Cardinality(Elems(previous)) \in Nat
      BY <2>5, FS_CardinalityType
    <3> QED
      BY <2>5, <3>1, <3>2, <3>3
  <2>7. id \in Ids \ taken
    BY <2>3, <2>6, IdTypes
  <2> HIDE DEF id
  <2>8. /\ f[i] \in Seq(Ids)
        /\ Elems(f[i]) = Elems(previous) \cup {id}
        /\ Distinct(f[i])
    BY <2>1, <2>2, <2>4, <2>7, ElemsOfAppend
  <2>9. Len(f[i]) = i
    <3>1. Len(f[i]) = Len(previous) + 1
      BY <2>1, <2>2, <2>7, AppendProperties
    <3> QED
      BY <2>2, <3>1
  <2> QED
    BY <2>2, <2>7, <2>8, <2>9
<1> HIDE DEF Fresh
<1>5. \A i \in 0 .. n : Fresh(f[i], i)
  <2> DEFINE Stale == {i \in 0 .. n : ~Fresh(f[i], i)}
  <2>1. SUFFICES ASSUME Stale # {} PROVE FALSE
    OBVIOUS
  <2>2. Stale \subseteq Nat
    OBVIOUS
  <2>3. PICK m \in Stale : \A k \in Stale : m <= k
    BY <2>1, <2>2, LeastNatural, Zenon
  <2>4. m # 0
    BY <1>3, <2>3
  <2>5. m \in 1 .. n /\ m - 1 \in 0 .. n /\ ~(m <= m - 1)
    BY <2>3, <2>4
  <2>6. Fresh(f[m - 1], m - 1)
    BY <2>3, <2>5
  <2> QED
    BY <1>4, <2>3, <2>5, <2>6
<1>6. Fresh(f[n], n)
  BY <1>5
<1> QED
  BY <1>1, <1>6 DEF Fresh

-----------------------------------------------------------------------------
(* The operations of a group the kernel has not given back.                 *)
OutOps(g) == {e.op : e \in Outstanding(g)}

(* An operation has at most one request outstanding, in its own group.      *)
OneEventEach ==
  \A g \in Groups :
    /\ Distinct(ring[g])
    /\ Elems(ring[g]) \cap flying = {}
    /\ \A e \in Outstanding(g) : Owner[e.op] = g
    /\ \A e, f \in Outstanding(g) : e.op = f.op => e = f

(* A group's operations are queued, outstanding or with its worker, in one  *)
(* of these and, as long as the worker did not give up, none is lost.       *)
OwnOps ==
  \A g \in Groups :
    LET queued == Elems(op_queue[g])
    IN  /\ Distinct(op_queue[g])
        /\ queued \cup held[g] \subseteq OpsOf(g)
        /\ queued \cap held[g] = {}
        /\ caller[g] # "failed" =>
             /\ OutOps(g) \cap (queued \cup held[g]) = {}
             /\ OpsOf(g) \subseteq queued \cup held[g] \cup OutOps(g)

(* What thread_func has in hand and in the queue at each of its steps.      *)
CallerHolds ==
  \A g \in Groups :
    /\ caller[g] \in {"submit", "wait", "getevents"} => held[g] = {}
    /\ caller[g] \in {"wait", "getevents", "reaped"} => op_queue[g] = <<>>
    /\ caller[g] = "reaped" => \E o \in Ops : held[g] = {o}
    /\ caller[g] = "submit" => op_queue[g] # <<>>
    /\ caller[g] \in {"create", "fill"} => Outstanding(g) = {}
    /\ caller[g] = "fill" => OpsOf(g) # {}

(* An array serves one group, and every outstanding request has one.        *)
ArraysOwned ==
  /\ \A o, p \in Ops : cb_array[o] = cb_array[p] /\ cb_array[o] # NoArray => Owner[o] = Owner[p]
  /\ \A g \in Groups : \A o \in OutOps(g) : cb_array[o] # NoArray

IInv ==
  /\ TypeOK
  /\ OneEventEach
  /\ OwnOps
  /\ CallerHolds
  /\ ArraysOwned
  /\ MapMatchesKernel
  /\ ItemsLeftCounts

-----------------------------------------------------------------------------
(* The operations of an array that are outstanding.                         *)
OutIn(x) == {o \in Ops : cb_array[o] = x /\ \E e \in Outstanding(Owner[o]) : e.op = o}

(* The requests outstanding are on the device or in the ring of the         *)
(* group.                                                                   *)
LEMMA OutstandingIs ==
  ASSUME TypeOK, NEW g \in Groups
  PROVE  /\ Outstanding(g) = {e \in flying : Owner[e.op] = g} \cup Elems(ring[g])
         /\ Outstanding(g) \subseteq Event
         /\ Elems(ring[g]) \subseteq Event
         /\ OutOps(g) \subseteq Ops
<1>1. Range(ring[g]) = Elems(ring[g]) /\ Elems(ring[g]) \subseteq Event
  BY ElemsIsSet DEF TypeOK
<1>2. Outstanding(g) \subseteq Event
  BY <1>1 DEF Outstanding, TypeOK
<1>3. \A e \in Event : e.op \in Ops
  BY DEF Event
<1> QED
  BY <1>1, <1>2, <1>3 DEF Outstanding, OutOps

(* The number of operations bounds the names of the arrays and their        *)
(* counts.                                                                  *)
LEMMA OpsCount ==
  /\ Cardinality(Ops) \in Nat
  /\ Arrays = 1 .. Cardinality(Ops) + 1
  /\ 0 \in 0 .. Cardinality(Ops)
BY KernelAssumption, FS_CardinalityType DEF Arrays

(* Before any group exists every operation is with its worker and nothing   *)
(* is in flight.                                                            *)
LEMMA InitInv == Init => IInv
<1> SUFFICES ASSUME Init PROVE IInv
  OBVIOUS
<1>0. Elems(<<>>) = {} /\ Distinct(<<>>) /\ DOMAIN <<>> = {} /\ Range(<<>>) = {}
  BY DEF Elems, Distinct, Range
<1>1. \A g \in Groups : Outstanding(g) = {} /\ OutOps(g) = {}
  BY <1>0 DEF Init, Outstanding, OutOps
<1>2. TypeOK
  <2>1. <<>> \in FlightMap(Ops)
    <3>1. <<>> \in [{} -> Ops]
      OBVIOUS
    <3> QED
      BY <3>1 DEF FlightMap
  <2>2. ASSUME NEW g \in Groups PROVE 0 \in Ids
    <3>1. Cardinality({o \in Ops : Owner[o] = g}) \in Nat
      <4>1. IsFiniteSet({o \in Ops : Owner[o] = g})
        BY KernelAssumption, FS_Subset
      <4> QED
        BY <4>1, FS_CardinalityType
    <3> QED
      BY <3>1, KernelAssumption DEF Ids
  <2>3. in_flight \in [Groups -> FlightMap(Ops)] /\ next_flight \in [Groups -> Ids]
    BY <2>1, <2>2 DEF Init
  <2>4. /\ cb_array \in [Ops -> Arrays \cup {NoArray}]
        /\ items_left \in [Arrays -> 0 .. Cardinality(Ops)]
    BY OpsCount DEF Init
  <2>5. /\ op_queue \in [Groups -> Seq(Ops)] /\ ring \in [Groups -> Seq(Event)]
    <3>1. <<>> \in Seq(Ops) /\ <<>> \in Seq(Event)
      BY EmptySeq
    <3> QED
      BY <3>1 DEF Init
  <2>6. /\ flying \subseteq Event /\ groups_locked \in BOOLEAN
        /\ caller \in [Groups -> Caller] /\ held \in [Groups -> SUBSET Ops]
    BY DEF Init, Caller, OpsOf
  <2> QED
    BY <2>3, <2>4, <2>5, <2>6 DEF TypeOK
<1>3. OneEventEach
  BY <1>0, <1>1 DEF Init, OneEventEach
<1>4. OwnOps
  BY <1>0, <1>1 DEF Init, OwnOps
<1>5. CallerHolds
  BY <1>1 DEF Init, CallerHolds
<1>6. ArraysOwned
  BY <1>1 DEF Init, ArraysOwned
<1>7. MapMatchesKernel
  BY <1>0, <1>1 DEF Init, MapMatchesKernel
<1>8. ItemsLeftCounts
  <2>1. ASSUME NEW x \in Arrays PROVE OutIn(x) = {} /\ items_left[x] = 0
    BY <1>1, KernelAssumption DEF Init, OutIn
  <2>2. Cardinality({}) = 0
    BY FS_EmptySet
  <2> QED
    BY <2>1, <2>2 DEF ItemsLeftCounts, OutIn
<1> QED
  BY <1>2, <1>3, <1>4, <1>5, <1>6, <1>7, <1>8 DEF IInv

(* A step that leaves the requests, the arrays and the map alone.           *)
LEMMA CreateGroupInv ==
  ASSUME IInv, NEW g \in Groups, CreateGroup(g)
  PROVE  IInv'
<1> USE DEF CreateGroup, Call, codeVars, deviceVars
<1>1. TypeOK'
  BY DEF IInv, TypeOK, Caller
<1>2. \A h \in Groups : Outstanding(h)' = Outstanding(h) /\ OutOps(h)' = OutOps(h)
  BY DEF Outstanding, OutOps
<1>3. \A h \in Groups : /\ caller[h] = "failed" => caller'[h] = "failed"
                        /\ h # g => caller'[h] = caller[h]
  BY DEF IInv, TypeOK
<1>4. OneEventEach' /\ ArraysOwned'
  BY <1>2 DEF IInv, OneEventEach, ArraysOwned
<1>5. OwnOps' /\ MapMatchesKernel'
  BY <1>2, <1>3 DEF IInv, OwnOps, MapMatchesKernel
<1>6. CallerHolds'
  BY <1>2, <1>3 DEF IInv, TypeOK, CallerHolds
<1>7. ItemsLeftCounts'
  <2>1. \A x : OutIn(x)' = OutIn(x)
    BY <1>2, KernelAssumption DEF OutIn
  <2>2. \A o \in Ops : caller'[Owner[o]] # "failed" => caller[Owner[o]] # "failed"
    BY <1>3, KernelAssumption
  <2> QED
    BY <2>1, <2>2 DEF IInv, ItemsLeftCounts, OutIn
<1> QED
  BY <1>1, <1>4, <1>5, <1>6, <1>7 DEF IInv

(* Nor does finding the group in wait, or leaving the loop.                 *)
LEMMA EnterStopInv ==
  ASSUME IInv, NEW g \in Groups, Enter(g) \/ Stop(g)
  PROVE  IInv'
<1> USE DEF Enter, Stop, Call, codeVars, deviceVars
<1>1. TypeOK'
  BY DEF IInv, TypeOK, Caller
<1>2. \A h \in Groups : Outstanding(h)' = Outstanding(h) /\ OutOps(h)' = OutOps(h)
  BY DEF Outstanding, OutOps
<1>3. \A h \in Groups : /\ caller[h] = "failed" <=> caller'[h] = "failed"
                        /\ h # g => caller'[h] = caller[h]
  BY DEF IInv, TypeOK
<1>4. OneEventEach' /\ ArraysOwned'
  BY <1>2 DEF IInv, OneEventEach, ArraysOwned
<1>5. OwnOps' /\ MapMatchesKernel'
  BY <1>2, <1>3 DEF IInv, OwnOps, MapMatchesKernel
<1>6. CallerHolds'
  <2>1. caller'[g] = "stopped" \/ (caller'[g] = "getevents" /\ caller[g] = "wait")
    BY DEF IInv, TypeOK
  <2> QED
    BY <1>2, <1>3, <2>1 DEF IInv, CallerHolds
<1>7. ItemsLeftCounts'
  <2>1. \A x : OutIn(x)' = OutIn(x)
    BY <1>2, KernelAssumption DEF OutIn
  <2>2. \A o \in Ops : caller'[Owner[o]] # "failed" => caller[Owner[o]] # "failed"
    BY <1>3, KernelAssumption
  <2> QED
    BY <2>1, <2>2 DEF IInv, ItemsLeftCounts, OutIn
<1> QED
  BY <1>1, <1>4, <1>5, <1>6, <1>7 DEF IInv

(* enqueue moves an operation from its worker to the back of the queue of   *)
(* its group.                                                               *)
LEMMA EnqueueInv ==
  ASSUME IInv, NEW g \in Groups, NEW o \in Ops, Enqueue(g, o)
  PROVE  IInv'
<1> USE DEF Enqueue, Call, deviceVars
<1>0. TypeOK /\ OwnOps /\ CallerHolds
  BY DEF IInv
<1>1. /\ Append(op_queue[g], o) \in Seq(Ops)
      /\ Append(op_queue[g], o) # <<>>
      /\ Elems(Append(op_queue[g], o)) = Elems(op_queue[g]) \cup {o}
      /\ Distinct(op_queue[g]) /\ o \notin Elems(op_queue[g]) => Distinct(Append(op_queue[g], o))
  <2>1. op_queue[g] \in Seq(Ops)
    BY <1>0 DEF TypeOK
  <2> QED
    BY <2>1, ElemsOfAppend, AppendProperties
<1>2. /\ op_queue'[g] = Append(op_queue[g], o)
      /\ held'[g] = held[g] \ {o} /\ o \in held[g]
      /\ \/ caller[g] = "fill" /\ caller'[g] = "fill"
         \/ caller[g] = "reaped" /\ caller'[g] = "submit"
      /\ \A h \in Groups \ {g} : /\ op_queue'[h] = op_queue[h] /\ held'[h] = held[h]
                                  /\ caller'[h] = caller[h]
  BY <1>0 DEF TypeOK
<1>3. \A h \in Groups : Outstanding(h)' = Outstanding(h) /\ OutOps(h)' = OutOps(h)
  BY DEF Outstanding, OutOps
<1>4. \A h \in Groups : caller[h] = "failed" <=> caller'[h] = "failed"
  BY <1>2
<1>5. TypeOK'
  BY <1>0, <1>1 DEF TypeOK, Caller
<1>6. OneEventEach' /\ ArraysOwned'
  BY <1>3 DEF IInv, OneEventEach, ArraysOwned
<1>7. MapMatchesKernel'
  BY <1>3, <1>4 DEF IInv, MapMatchesKernel
<1>8. OwnOps'
  <2>1. \A h \in Groups : OpsOf(h)' = OpsOf(h)
    BY DEF OpsOf
  <2>2. /\ Elems(op_queue'[g]) = Elems(op_queue[g]) \cup {o}
        /\ Distinct(op_queue'[g])
    BY <1>0, <1>1, <1>2 DEF OwnOps
  <2> QED
    BY <1>0, <1>2, <1>3, <2>1, <2>2 DEF OwnOps
<1>9. CallerHolds'
  <2>1. caller'[g] = "submit" => held'[g] = {} /\ op_queue'[g] # <<>>
    BY <1>0, <1>1, <1>2 DEF CallerHolds
  <2> QED
    BY <1>0, <1>2, <1>3, <2>1 DEF CallerHolds, OpsOf
<1>10. ItemsLeftCounts'
  <2>1. \A x : OutIn(x)' = OutIn(x)
    BY <1>3, KernelAssumption DEF OutIn
  <2>2. \A p \in Ops : caller'[Owner[p]] # "failed" => caller[Owner[p]] # "failed"
    BY <1>4, KernelAssumption
  <2> QED
    BY <2>1, <2>2 DEF IInv, ItemsLeftCounts, OutIn
<1> QED
  BY <1>5, <1>6, <1>7, <1>8, <1>9, <1>10 DEF IInv

(* A completion moves a request from the device to the ring of its group:   *)
(* no more and no less is outstanding.                                      *)
LEMMA CompleteMoves ==
  ASSUME IInv, NEW e \in flying, Complete(e)
  PROVE  /\ Owner[e.op] \in Groups
         /\ TypeOK'
         /\ flying' = flying \ {e}
         /\ \A h \in Groups : Elems(ring'[h]) =
              IF h = Owner[e.op] THEN Elems(ring[h]) \cup {e} ELSE Elems(ring[h])
         /\ \A h \in Groups : Distinct(ring'[h])
         /\ \A h \in Groups : Outstanding(h)' = Outstanding(h)
<1> DEFINE g == Owner[e.op]
<1>0. TypeOK /\ OneEventEach
  BY DEF IInv
<1>1. e \in Event /\ e.op \in Ops /\ g \in Groups
  BY <1>0, KernelAssumption DEF TypeOK, Event
<1>2. ring' = [ring EXCEPT ![g] = Append(ring[g], e)] /\ flying' = flying \ {e}
  BY DEF Complete
<1> HIDE DEF g
<1>3. /\ Append(ring[g], e) \in Seq(Event)
      /\ Elems(Append(ring[g], e)) = Elems(ring[g]) \cup {e}
      /\ Distinct(ring[g]) /\ e \notin Elems(ring[g]) => Distinct(Append(ring[g], e))
  BY <1>0, <1>1, ElemsOfAppend DEF TypeOK
<1>4. TypeOK'
  <2>1. ring' \in [Groups -> Seq(Event)]
    BY <1>0, <1>1, <1>2, <1>3 DEF TypeOK
  <2>2. flying' \subseteq Event
    BY <1>0, <1>2 DEF TypeOK
  <2> QED
    BY <1>0, <2>1, <2>2 DEF TypeOK, Complete, codeVars
<1>5. /\ ring'[g] = Append(ring[g], e)
      /\ \A h \in Groups \ {g} : ring'[h] = ring[h]
  BY <1>0, <1>1, <1>2 DEF TypeOK
<1>6. \A h \in Groups : Elems(ring'[h]) = IF h = g THEN Elems(ring[h]) \cup {e} ELSE Elems(ring[h])
  BY <1>3, <1>5
<1>7. \A h \in Groups : Distinct(ring'[h])
  <2>1. Distinct(ring'[g])
    BY <1>0, <1>1, <1>3, <1>5 DEF OneEventEach
  <2> QED
    BY <1>0, <1>5, <2>1 DEF OneEventEach
<1>8. ASSUME NEW h \in Groups PROVE Outstanding(h)' = Outstanding(h)
  <2>1. Outstanding(h) = {x \in flying : Owner[x.op] = h} \cup Elems(ring[h])
    BY <1>0, OutstandingIs
  <2>2. Range(ring'[h]) = Elems(ring'[h])
    BY <1>4, ElemsIsSet DEF TypeOK
  <2>3. Outstanding(h)' = {x \in flying' : Owner[x.op] = h} \cup Elems(ring'[h])
    BY <2>2 DEF Outstanding
  <2>4. CASE h = g
    <3>1. Owner[e.op] = h /\ e \in flying
      BY <2>4 DEF g
    <3>2. Elems(ring'[h]) = Elems(ring[h]) \cup {e}
      BY <1>6, <2>4
    <3> QED
      BY <1>2, <2>1, <2>3, <3>1, <3>2
  <2>5. CASE h # g
    <3>1. Owner[e.op] # h
      BY <2>5 DEF g
    <3>2. Elems(ring'[h]) = Elems(ring[h])
      BY <1>6, <2>5
    <3> QED
      BY <1>2, <2>1, <2>3, <3>1, <3>2
  <2> QED
    BY <2>4, <2>5
<1> QED
  BY <1>1, <1>2, <1>4, <1>6, <1>7, <1>8 DEF g

(* So a completion, on the ring or not, counts as outstanding, and the      *)
(* map and the counts stay right.                                           *)
LEMMA CompleteInv ==
  ASSUME IInv, NEW e \in flying, Complete(e)
  PROVE  IInv'
<1>0. TypeOK /\ OneEventEach
  BY DEF IInv
<1>1. \A h \in Groups : Outstanding(h)' = Outstanding(h) /\ OutOps(h)' = OutOps(h)
  BY CompleteMoves DEF OutOps
<1>2. OneEventEach'
  <2>1. \A h \in Groups : Elems(ring'[h]) \cap flying' = {}
    BY <1>0, CompleteMoves DEF OneEventEach
  <2> QED
    BY <1>0, <1>1, <2>1, CompleteMoves DEF OneEventEach
<1>3. OwnOps' /\ CallerHolds' /\ ArraysOwned' /\ MapMatchesKernel'
  BY <1>1 DEF IInv, OwnOps, CallerHolds, ArraysOwned, MapMatchesKernel, OpsOf, Complete, codeVars
<1>4. ItemsLeftCounts'
  <2>1. \A x : OutIn(x)' = OutIn(x)
    BY <1>1, KernelAssumption DEF OutIn, Complete, codeVars
  <2> QED
    BY <2>1 DEF IInv, ItemsLeftCounts, OutIn, Complete, codeVars
<1> QED
  BY <1>2, <1>3, <1>4, CompleteMoves DEF IInv

(* The event at the head of the ring finds its operation in the map, and    *)
(* that operation is outstanding only with this event.                      *)
LEMMA HeadEvent ==
  ASSUME IInv, NEW g \in Groups, caller[g] = "getevents", ring[g] # <<>>
  PROVE  LET e == Head(ring[g])
         IN  /\ e \in Event /\ e \in Outstanding(g) /\ e \in Elems(ring[g]) /\ e \notin flying
             /\ Elems(ring[g]) = Elems(Tail(ring[g])) \cup {e} /\ e \notin Elems(Tail(ring[g]))
             /\ Tail(ring[g]) \in Seq(Event) /\ Distinct(Tail(ring[g]))
             /\ e.data \in DOMAIN in_flight[g]
             /\ LookUp(g, e.data) = e.op
             /\ e.op \in Ops /\ Owner[e.op] = g
             /\ cb_array[e.op] \in Arrays
<1> DEFINE e == Head(ring[g])
<1>0. TypeOK /\ OneEventEach /\ ArraysOwned /\ MapMatchesKernel
  BY DEF IInv
<1>1. /\ e \in Event /\ Tail(ring[g]) \in Seq(Event)
      /\ Elems(ring[g]) = Elems(Tail(ring[g])) \cup {e}
      /\ Distinct(Tail(ring[g])) /\ e \notin Elems(Tail(ring[g]))
  BY <1>0, ElemsOfTail DEF TypeOK, OneEventEach
<1> HIDE DEF e
<1>2. e \in Outstanding(g) /\ e \notin flying
  BY <1>0, <1>1, OutstandingIs DEF OneEventEach
<1>3. e.data \in DOMAIN in_flight[g] /\ in_flight[g][e.data] = e.op
  BY <1>0, <1>2 DEF MapMatchesKernel
<1>4. e.op \in Ops /\ Owner[e.op] = g
  BY <1>0, <1>1, <1>2 DEF OneEventEach, Event
<1>5. cb_array[e.op] \in Arrays
  BY <1>0, <1>2, <1>4 DEF ArraysOwned, OutOps, TypeOK
<1> QED
  BY <1>1, <1>2, <1>3, <1>4, <1>5 DEF LookUp, e

(* io_getevents takes exactly the head of the ring from what is             *)
(* outstanding.                                                             *)
LEMMA ReapMoves ==
  ASSUME IInv, NEW g \in Groups, Reap(g)
  PROVE  LET e == Head(ring[g])
         IN  /\ caller[g] = "getevents" /\ caller' = [caller EXCEPT ![g] = "reaped"]
             /\ held' = [held EXCEPT ![g] = {e.op}]
             /\ in_flight' = [in_flight EXCEPT ![g] = [i \in DOMAIN in_flight[g] \ {e.data} |-> in_flight[g][i]]]
             /\ items_left' = [items_left EXCEPT ![cb_array[e.op]] = items_left[cb_array[e.op]] - 1]
             /\ ring' = [ring EXCEPT ![g] = Tail(ring[g])]
             /\ flying' = flying /\ groups_locked' = groups_locked /\ op_queue' = op_queue
             /\ next_flight' = next_flight /\ cb_array' = cb_array
             /\ ring[g] # <<>> /\ op_queue[g] = <<>> /\ held[g] = {}
             /\ ring' \in [Groups -> Seq(Event)]
             /\ Outstanding(g)' = Outstanding(g) \ {e}
             /\ \A h \in Groups \ {g} : Outstanding(h)' = Outstanding(h)
<1> DEFINE e == Head(ring[g])
<1>0. TypeOK
  BY DEF IInv
<1>1. ring[g] # <<>> /\ caller[g] = "getevents" /\ op_queue[g] = <<>> /\ held[g] = {}
  BY DEF Reap, Call, IInv, CallerHolds
<1>2. /\ e.data \in DOMAIN in_flight[g] /\ LookUp(g, e.data) = e.op /\ cb_array[e.op] \in Arrays
      /\ Elems(ring[g]) = Elems(Tail(ring[g])) \cup {e} /\ e \notin Elems(Tail(ring[g]))
      /\ Tail(ring[g]) \in Seq(Event) /\ e \notin flying
  BY <1>1, HeadEvent
<1>3. /\ caller' = [caller EXCEPT ![g] = "reaped"]
      /\ in_flight' = [in_flight EXCEPT ![g] = [i \in DOMAIN in_flight[g] \ {e.data} |-> in_flight[g][i]]]
      /\ ring' = [ring EXCEPT ![g] = Tail(ring[g])]
      /\ flying' = flying /\ groups_locked' = groups_locked /\ op_queue' = op_queue
      /\ next_flight' = next_flight /\ cb_array' = cb_array
  BY <1>0 DEF Reap, Call, TypeOK
<1>4. /\ held' = [held EXCEPT ![g] = {e.op}]
      /\ items_left' = [items_left EXCEPT ![cb_array[e.op]] = items_left[cb_array[e.op]] - 1]
  BY <1>0, <1>1, <1>2 DEF Reap, TypeOK
<1> HIDE DEF e
<1>5. /\ ring'[g] = Tail(ring[g]) /\ \A h \in Groups \ {g} : ring'[h] = ring[h]
      /\ ring' \in [Groups -> Seq(Event)]
  BY <1>0, <1>2, <1>3 DEF TypeOK
<1>6. Outstanding(g)' = Outstanding(g) \ {e}
  <2>1. Outstanding(g) = {x \in flying : Owner[x.op] = g} \cup Elems(ring[g])
    BY <1>0, OutstandingIs
  <2>2. Range(ring'[g]) = Elems(ring'[g])
    BY <1>5, ElemsIsSet
  <2>3. Outstanding(g)' = {x \in flying : Owner[x.op] = g} \cup Elems(Tail(ring[g]))
    BY <1>3, <1>5, <2>2 DEF Outstanding
  <2> QED
    BY <1>2, <2>1, <2>3
<1>7. \A h \in Groups \ {g} : Outstanding(h)' = Outstanding(h)
  BY <1>3, <1>5 DEF Outstanding
<1> QED
  BY <1>1, <1>3, <1>4, <1>5, <1>6, <1>7 DEF e

(* The operations outstanding in an array are a finite set of operations.   *)
LEMMA OutInIsFinite ==
  ASSUME NEW x
  PROVE  IsFiniteSet(OutIn(x)) /\ Cardinality(OutIn(x)) \in 0 .. Cardinality(Ops)
<1>1. OutIn(x) \subseteq Ops
  BY DEF OutIn
<1> QED
  BY <1>1, KernelAssumption, FS_Subset, FS_CardinalityType

(* The array counted down is the one of the operation, in which no group    *)
(* but its own has operations, so that the count is exact.                  *)
LEMMA ReapInv ==
  ASSUME IInv, NEW g \in Groups, Reap(g)
  PROVE  IInv'
<1> DEFINE e == Head(ring[g])
           op == e.op
<1>0. TypeOK /\ OneEventEach /\ OwnOps /\ CallerHolds /\ ArraysOwned /\ MapMatchesKernel /\ ItemsLeftCounts
  BY DEF IInv
<1>1. /\ caller[g] = "getevents" /\ caller' = [caller EXCEPT ![g] = "reaped"]
      /\ held' = [held EXCEPT ![g] = {op}]
      /\ in_flight' = [in_flight EXCEPT ![g] = [i \in DOMAIN in_flight[g] \ {e.data} |-> in_flight[g][i]]]
      /\ items_left' = [items_left EXCEPT ![cb_array[op]] = items_left[cb_array[op]] - 1]
      /\ ring' = [ring EXCEPT ![g] = Tail(ring[g])]
      /\ flying' = flying /\ groups_locked' = groups_locked /\ op_queue' = op_queue
      /\ next_flight' = next_flight /\ cb_array' = cb_array
      /\ ring[g] # <<>> /\ op_queue[g] = <<>> /\ held[g] = {}
      /\ ring' \in [Groups -> Seq(Event)]
      /\ Outstanding(g)' = Outstanding(g) \ {e}
      /\ \A h \in Groups \ {g} : Outstanding(h)' = Outstanding(h)
  BY ReapMoves
<1>2. /\ e \in Event /\ e \in Outstanding(g) /\ e \in Elems(ring[g]) /\ e \notin flying
      /\ Elems(ring[g]) = Elems(Tail(ring[g])) \cup {e} /\ e \notin Elems(Tail(ring[g]))
      /\ Tail(ring[g]) \in Seq(Event) /\ Distinct(Tail(ring[g]))
      /\ e.data \in DOMAIN in_flight[g]
      /\ op \in Ops /\ Owner[op] = g
      /\ cb_array[op] \in Arrays
  BY <1>1, HeadEvent
<1> HIDE DEF e
<1>3. PICK x \in Arrays : x = cb_array[op]
  BY <1>2
<1>4. /\ caller'[g] = "reaped" /\ held'[g] = {op} /\ ring'[g] = Tail(ring[g])
      /\ in_flight'[g] = [i \in DOMAIN in_flight[g] \ {e.data} |-> in_flight[g][i]]
      /\ \A h \in Groups \ {g} : /\ caller'[h] = caller[h] /\ held'[h] = held[h] /\ ring'[h] = ring[h]
                                  /\ in_flight'[h] = in_flight[h]
  BY <1>0, <1>1 DEF TypeOK
<1>5. /\ OutOps(g)' = OutOps(g) \ {op} /\ op \in OutOps(g)
      /\ \A h \in Groups \ {g} : OutOps(h)' = OutOps(h)
  <2>1. \A f \in Outstanding(g) : f.op = op => f = e
    BY <1>0, <1>2 DEF OneEventEach
  <2> QED
    BY <1>1, <1>2, <2>1 DEF OutOps
<1>6. \A o \in Ops : cb_array[o] = x => Owner[o] = g
  <2>1. x # NoArray
    BY OpsCount DEF NoArray
  <2> QED
    BY <1>0, <1>2, <1>3, <2>1 DEF ArraysOwned
<1>7. /\ OutIn(x)' = OutIn(x) \ {op} /\ op \in OutIn(x)
      /\ \A y \in Arrays : y # x => OutIn(y)' = OutIn(y)
  <2>1. \A o \in Ops : Owner[o] \in Groups
    BY KernelAssumption
  <2>2. \A o \in Ops : (\E f \in Outstanding(Owner[o])' : f.op = o) <=>
                         (\E f \in Outstanding(Owner[o]) : f.op = o) /\ o # op
    <3>1. ASSUME NEW o \in Ops, Owner[o] = g
          PROVE  (\E f \in Outstanding(g)' : f.op = o) <=>
                  (\E f \in Outstanding(g) : f.op = o) /\ o # op
      BY <1>5 DEF OutOps
    <3>2. ASSUME NEW o \in Ops, Owner[o] # g
          PROVE  (\E f \in Outstanding(Owner[o])' : f.op = o) <=>
                  (\E f \in Outstanding(Owner[o]) : f.op = o) /\ o # op
      BY <1>1, <1>2, <2>1, <3>2
    <3> QED
      BY <3>1, <3>2
  <2>3. \E f \in Outstanding(Owner[op]) : f.op = op
    BY <1>2
  <2>4. \A y \in Arrays :
          OutIn(y)' = {o \in Ops : cb_array[o] = y /\ \E f \in Outstanding(Owner[o])' : f.op = o}
    BY <1>1 DEF OutIn
  <2> QED
    BY <1>2, <1>3, <2>2, <2>3, <2>4 DEF OutIn
<1>8. items_left[x] = Cardinality(OutIn(x))
  <2>1. \A o \in Ops : cb_array[o] = x => caller[Owner[o]] # "failed"
    BY <1>1, <1>6
  <2> QED
    BY <1>0, <1>2, <2>1 DEF ItemsLeftCounts, OutIn
<1>9. /\ Cardinality(OutIn(x)') = items_left[x] - 1
      /\ items_left[x] - 1 \in 0 .. Cardinality(Ops)
  <2>1. Cardinality(OutIn(x) \ {op}) = Cardinality(OutIn(x)) - 1 /\ IsFiniteSet(OutIn(x) \ {op})
    BY <1>7, OutInIsFinite, FS_RemoveElement
  <2>2. Cardinality(OutIn(x) \ {op}) \in Nat
    BY <2>1, FS_CardinalityType
  <2> QED
    BY <1>7, <1>8, <2>1, <2>2, OutInIsFinite, OpsCount
<1>10. TypeOK'
  <2>1. in_flight'[g] \in FlightMap(Ops)
    <3>1. /\ DOMAIN in_flight[g] \ {e.data} \subseteq Ids
          /\ \A i \in DOMAIN in_flight[g] : in_flight[g][i] \in Ops
      BY <1>0 DEF TypeOK, FlightMap
    <3>2. in_flight'[g] \in [DOMAIN in_flight[g] \ {e.data} -> Ops]
      BY <1>4, <3>1
    <3> QED
      BY <3>1, <3>2 DEF FlightMap
  <2>2. in_flight' \in [Groups -> FlightMap(Ops)]
    BY <1>0, <1>1, <1>4, <2>1 DEF TypeOK
  <2>3. items_left' \in [Arrays -> 0 .. Cardinality(Ops)]
    BY <1>0, <1>1, <1>9, <1>3 DEF TypeOK
  <2>4. caller' \in [Groups -> Caller] /\ held' \in [Groups -> SUBSET Ops]
    BY <1>0, <1>1, <1>2 DEF TypeOK, Caller
  <2> QED
    BY <1>0, <1>1, <2>2, <2>3, <2>4 DEF TypeOK
<1>11. OneEventEach'
  BY <1>0, <1>1, <1>2, <1>4 DEF OneEventEach
<1>12. OwnOps'
  <2>1. /\ \A h \in Groups : OpsOf(h)' = OpsOf(h)
        /\ op \in OpsOf(g)
        /\ Elems(op_queue[g]) = {}
    BY <1>1, <1>2 DEF OpsOf, Elems
  <2> QED
    BY <1>0, <1>1, <1>4, <1>5, <2>1 DEF OwnOps
<1>13. CallerHolds'
  <2>1. \A h \in Groups : OpsOf(h)' = OpsOf(h)
    BY DEF OpsOf
  <2>2. ASSUME NEW h \in Groups \ {g}
        PROVE  /\ caller'[h] = caller[h] /\ held'[h] = held[h] /\ op_queue'[h] = op_queue[h]
               /\ Outstanding(h)' = Outstanding(h)
    BY <1>1, <1>4
  <2>3. caller'[g] = "reaped" /\ op_queue'[g] = <<>> /\ held'[g] = {op} /\ op \in Ops
    BY <1>1, <1>2, <1>4
  <2> QED
    BY <1>0, <2>1, <2>2, <2>3 DEF CallerHolds
<1>14. ArraysOwned'
  BY <1>0, <1>1, <1>5 DEF ArraysOwned
<1>15. MapMatchesKernel'
  <2>1. ASSUME NEW h \in Groups \ {g}, caller'[h] # "failed"
        PROVE  /\ DOMAIN in_flight'[h] = {f.data : f \in Outstanding(h)'}
               /\ \A f \in Outstanding(h)' : in_flight'[h][f.data] = f.op
    BY <1>0, <1>1, <1>4, <2>1 DEF MapMatchesKernel
  <2>2. /\ DOMAIN in_flight[g] = {f.data : f \in Outstanding(g)}
        /\ \A f \in Outstanding(g) : in_flight[g][f.data] = f.op
    BY <1>0, <1>1 DEF MapMatchesKernel
  <2>3. \A f \in Outstanding(g) : f.data = e.data => f = e
    BY <1>0, <1>2, <2>2 DEF OneEventEach
  <2>4. DOMAIN in_flight'[g] = DOMAIN in_flight[g] \ {e.data}
    BY <1>4
  <2>5. DOMAIN in_flight'[g] = {f.data : f \in Outstanding(g)'}
    BY <1>1, <2>2, <2>3, <2>4
  <2>6. \A f \in Outstanding(g)' : in_flight'[g][f.data] = f.op
    BY <1>1, <1>4, <2>2, <2>3
  <2> QED
    BY <2>1, <2>5, <2>6 DEF MapMatchesKernel
<1>16. ItemsLeftCounts'
  <2>1. ASSUME NEW y \in Arrays, \A o \in Ops : cb_array'[o] = y => caller'[Owner[o]] # "failed"
        PROVE  items_left'[y] = Cardinality(OutIn(y)')
    <3>1. CASE y = x
      <4>1. items_left'[x] = items_left[x] - 1
        BY <1>0, <1>1, <1>3 DEF TypeOK
      <4> QED
        BY <1>9, <3>1, <4>1
    <3>2. CASE y # x
      <4>1. items_left'[y] = items_left[y]
        BY <1>0, <1>1, <1>3, <3>2 DEF TypeOK
      <4>2. \A o \in Ops : cb_array[o] = y => caller[Owner[o]] # "failed"
        BY <1>1, <1>4, <2>1, KernelAssumption
      <4>3. items_left[y] = Cardinality(OutIn(y))
        BY <1>0, <4>2 DEF ItemsLeftCounts, OutIn
      <4> QED
        BY <1>7, <3>2, <4>1, <4>3
    <3> QED
      BY <3>1, <3>2
  <2> QED
    BY <2>1 DEF ItemsLeftCounts, OutIn
<1> QED
  BY <1>10, <1>11, <1>12, <1>13, <1>14, <1>15, <1>16 DEF IInv

(* There is an array no operation points to.                                *)
LEMMA ArrayLeft ==
  ASSUME TypeOK
  PROVE  FreshArray \in Arrays /\ \A o \in Ops : cb_array[o] # FreshArray
<1> DEFINE inUse == {cb_array[o] : o \in Ops}
<1>1. \E x \in Arrays : x \notin inUse
  <2>1. SUFFICES ASSUME Arrays \subseteq inUse PROVE FALSE
    OBVIOUS
  <2>2. IsFiniteSet(inUse) /\ Cardinality(inUse) <= Cardinality(Ops)
    BY KernelAssumption, ImageIsSmall
  <2>3. Cardinality(Arrays) <= Cardinality(inUse) /\ Cardinality(inUse) \in Nat
    BY <2>1, <2>2, FS_Subset, FS_CardinalityType
  <2>4. Cardinality(Arrays) = Cardinality(Ops) + 1
    BY OpsCount, IntervalCount
  <2> QED
    BY <2>2, <2>3, <2>4, OpsCount
<1>2. \E x \in Arrays : \A o \in Ops : cb_array[o] # x
  BY <1>1
<1> QED
  BY <1>2, Zenon DEF FreshArray

(* Queued and outstanding operations of a group are fewer than the ids.     *)
LEMMA EnoughIds ==
  ASSUME IInv, NEW g \in Groups, caller[g] # "failed"
  PROVE  /\ IdMod \in Nat \ {0}
         /\ DOMAIN in_flight[g] \subseteq Ids
         /\ IsFiniteSet(DOMAIN in_flight[g])
         /\ Cardinality(DOMAIN in_flight[g]) + Len(op_queue[g]) <= IdMod
<1> DEFINE own    == OpsOf(g)
           queued == Elems(op_queue[g])
           out    == OutOps(g)
           map    == in_flight[g]
<1>0. TypeOK /\ OneEventEach /\ OwnOps /\ MapMatchesKernel
  BY DEF IInv
<1>1. queued \cup out \subseteq own /\ queued \cap out = {} /\ own \subseteq Ops
  <2>1. out \subseteq own
    BY <1>0, OutstandingIs DEF OneEventEach, OutOps, OpsOf
  <2> QED
    BY <1>0, <2>1 DEF OwnOps, OpsOf
<1>2. /\ IsFiniteSet(own) /\ IsFiniteSet(queued) /\ IsFiniteSet(out) /\ IsFiniteSet(queued \cup out)
      /\ Cardinality(queued \cup out) <= Cardinality(own)
      /\ Cardinality(own) \in Nat /\ Cardinality(queued) \in Nat /\ Cardinality(out) \in Nat
  <2>1. IsFiniteSet(own)
    BY <1>1, KernelAssumption, FS_Subset
  <2>2. IsFiniteSet(queued) /\ IsFiniteSet(out) /\ IsFiniteSet(queued \cup out)
    BY <1>1, <2>1, FS_Subset
  <2> HIDE DEF own, queued, out
  <2> QED
    BY <1>1, <2>1, <2>2, FS_Subset, FS_CardinalityType
<1>3. Cardinality(own) < IdMod /\ IdMod \in Nat
  BY KernelAssumption DEF OpsOf
<1>4. Cardinality(queued) = Len(op_queue[g]) /\ Len(op_queue[g]) \in Nat
  BY <1>0, DistinctCount, ElemsIsSet DEF TypeOK, OwnOps
<1>5. /\ DOMAIN map = {e.data : e \in Outstanding(g)}
      /\ \A e \in Outstanding(g) : map[e.data] = e.op
  BY <1>0 DEF MapMatchesKernel
<1>6. DOMAIN map \subseteq Ids /\ map \in [DOMAIN map -> Ops]
  BY <1>0 DEF TypeOK, FlightMap
<1>7. map \in Injection(DOMAIN map, out)
  <2>1. map \in [DOMAIN map -> out]
    BY <1>5, <1>6 DEF OutOps
  <2>2. ASSUME NEW i \in DOMAIN map, NEW j \in DOMAIN map, map[i] = map[j] PROVE i = j
    <3>1. PICK e \in Outstanding(g) : e.data = i
      BY <1>5
    <3>2. PICK f \in Outstanding(g) : f.data = j
      BY <1>5
    <3>3. e = f
      BY <1>0, <1>5, <2>2, <3>1, <3>2 DEF OneEventEach
    <3> QED
      BY <3>1, <3>2, <3>3
  <2> HIDE DEF map, out
  <2> QED
    BY <2>1, <2>2 DEF Injection, IsInjective
<1> HIDE DEF own, queued, out, map
<1>8. IsFiniteSet(DOMAIN map) /\ Cardinality(DOMAIN map) <= Cardinality(out)
  BY <1>2, <1>7, FS_Injection
<1>9. Cardinality(queued \cup out) = Cardinality(queued) + Cardinality(out)
  <2>1. Cardinality(queued \cap out) = 0
    BY <1>1, FS_EmptySet
  <2>2. Cardinality(queued \cup out) = Cardinality(queued) + Cardinality(out) - Cardinality(queued \cap out)
    BY <1>2, FS_Union
  <2> QED
    BY <1>2, <2>1, <2>2
<1>10. Cardinality(DOMAIN map) \in Nat
  BY <1>8, FS_CardinalityType
<1>11. Cardinality(DOMAIN map) + Len(op_queue[g]) <= IdMod /\ IdMod # 0
  BY <1>2, <1>3, <1>4, <1>8, <1>9, <1>10
<1> QED
  BY <1>3, <1>6, <1>8, <1>11 DEF map

(* What the control blocks of the first k operations of a queue carry.      *)
Sent(ids, queue, k) == {[data |-> ids[i], op |-> queue[i]] : i \in 1 .. k}

(* What submit does with the queue, the ids assigned, the array and the     *)
(* events the kernel keeps.                                                 *)
SubmitStep(g, queue, ids, x, new) ==
  /\ queue = op_queue[g] /\ queue # <<>> /\ Distinct(queue)
  /\ Elems(queue) \subseteq OpsOf(g) /\ Elems(queue) \cap OutOps(g) = {}
  /\ held[g] = {} /\ caller[g] \in {"fill", "submit"}
  /\ Len(ids) = Len(queue) /\ Distinct(ids) /\ Elems(ids) \cap DOMAIN in_flight[g] = {}
  /\ \A o \in Ops : cb_array[o] # x
  /\ new \subseteq Sent(ids, queue, Len(queue))
  /\ flying' = flying \cup new
  /\ next_flight' = [next_flight EXCEPT ![g] = NextId(ids[Len(queue)])]
  /\ cb_array' = [o \in Ops |-> IF o \in Elems(queue) THEN x ELSE cb_array[o]]
  /\ items_left' = [items_left EXCEPT ![x] = Len(queue)]
  /\ held' = held /\ groups_locked' = groups_locked /\ ring' = ring
  /\ \/ /\ caller' = [caller EXCEPT ![g] = "wait"]
        /\ new = Sent(ids, queue, Len(queue))
        /\ in_flight' = [in_flight EXCEPT ![g] =
             [id \in DOMAIN in_flight[g] \cup Elems(ids) |->
                IF id \in DOMAIN in_flight[g] THEN in_flight[g][id]
                ELSE queue[CHOOSE i \in 1 .. Len(queue) : ids[i] = id]]]
        /\ op_queue' = [op_queue EXCEPT ![g] = <<>>]
     \/ /\ caller' = [caller EXCEPT ![g] = "failed"]
        /\ in_flight' = in_flight /\ op_queue' = op_queue

(* The operations queued get an id each that no request of the group has,   *)
(* and an array no operation has.                                           *)
LEMMA SubmitSends ==
  ASSUME IInv, NEW g \in Groups, Submit(g)
  PROVE  \E queue \in Seq(Ops), ids \in Seq(Ids), x \in Arrays, new \in SUBSET Event :
           SubmitStep(g, queue, ids, x, new)
<1> DEFINE queue == op_queue[g]
           n     == Len(queue)
           ids   == AssignIds(n, next_flight[g], DOMAIN in_flight[g])
           x     == FreshArray
           sent(k) == {[data |-> ids[i], op |-> queue[i]] : i \in 1 .. k}
<1>0. TypeOK /\ OwnOps /\ CallerHolds
  BY DEF IInv
<1>1. caller[g] \in {"fill", "submit"} /\ held[g] = {}
  BY DEF Submit
<1>2. queue \in Seq(Ops) /\ Distinct(queue) /\ Elems(queue) \subseteq OpsOf(g) /\ Elems(queue) \cap OutOps(g) = {}
  BY <1>0, <1>1 DEF TypeOK, OwnOps
<1>3. queue # <<>>
  <2>1. CASE caller[g] = "submit"
    BY <1>0, <2>1 DEF CallerHolds
  <2>2. CASE caller[g] = "fill"
    <3>1. OutOps(g) = {} /\ OpsOf(g) # {}
      BY <1>0, <2>2 DEF CallerHolds, OutOps
    <3>2. Elems(queue) # {}
      BY <1>0, <1>1, <3>1 DEF OwnOps
    <3> QED
      BY <3>2 DEF Elems
  <2> QED
    BY <1>1, <2>1, <2>2
<1>4. n \in Nat \ {0} /\ Range(queue) = Elems(queue)
  BY <1>2, <1>3, EmptySeq, ElemsIsSet
<1>5. ids \in Seq(Ids) /\ Len(ids) = n /\ Distinct(ids) /\ Elems(ids) \cap DOMAIN in_flight[g] = {}
  <2>1. next_flight[g] \in Ids
    BY <1>0 DEF TypeOK
  <2>2. /\ IdMod \in Nat \ {0} /\ DOMAIN in_flight[g] \in SUBSET Ids
        /\ IsFiniteSet(DOMAIN in_flight[g])
        /\ Cardinality(DOMAIN in_flight[g]) + n <= IdMod
    BY <1>1, EnoughIds
  <2> QED
    BY <1>4, <2>1, <2>2, AssignIdsFresh
<1>6. x \in Arrays /\ \A o \in Ops : cb_array[o] # x
  BY <1>0, ArrayLeft
<1>7. Range(ids) = Elems(ids)
  BY <1>5, ElemsIsSet
<1>8. \A k : sent(k) = Sent(ids, queue, k)
  BY DEF Sent
<1>9. sent(n) \subseteq Event
  <2>1. ASSUME NEW i \in 1 .. n PROVE ids[i] \in Ids /\ queue[i] \in Ops
    BY <1>2, <1>4, <1>5, ElementOfSeq
  <2> HIDE DEF ids, queue, n
  <2> QED
    BY <2>1 DEF Event
<1>10. /\ next_flight' = [next_flight EXCEPT ![g] = NextId(ids[n])]
       /\ cb_array' = [o \in Ops |-> IF o \in Range(queue) THEN x ELSE cb_array[o]]
       /\ items_left' = [items_left EXCEPT ![x] = n]
       /\ held' = held /\ groups_locked' = groups_locked /\ ring' = ring
  BY DEF Submit, Size
<1>11. \/ /\ caller' = [caller EXCEPT ![g] = "wait"]
          /\ flying' = flying \cup sent(n)
          /\ in_flight' = [in_flight EXCEPT ![g] =
                [id \in DOMAIN in_flight[g] \cup Range(ids) |->
                   IF id \in DOMAIN in_flight[g] THEN in_flight[g][id]
                   ELSE queue[CHOOSE i \in 1 .. n : ids[i] = id]]]
          /\ op_queue' = [op_queue EXCEPT ![g] = <<>>]
       \/ /\ caller' = [caller EXCEPT ![g] = "failed"]
          /\ \E kept \in SUBSET sent(n - 1) : flying' = flying \cup kept
          /\ in_flight' = in_flight /\ op_queue' = op_queue
  BY <1>0 DEF Submit, TypeOK
<1>12. sent(n - 1) \subseteq sent(n)
  <2>1. 1 .. n - 1 \subseteq 1 .. n
    BY <1>4
  <2> HIDE DEF ids, queue, n
  <2> QED
    BY <2>1
<1> HIDE DEF ids, x, sent
<1>13. \E new \in SUBSET Event :
          /\ new \subseteq sent(n)
          /\ flying' = flying \cup new
          /\ \/ /\ caller' = [caller EXCEPT ![g] = "wait"]
                /\ new = sent(n)
                /\ in_flight' = [in_flight EXCEPT ![g] =
                     [id \in DOMAIN in_flight[g] \cup Elems(ids) |->
                        IF id \in DOMAIN in_flight[g] THEN in_flight[g][id]
                        ELSE queue[CHOOSE i \in 1 .. n : ids[i] = id]]]
                /\ op_queue' = [op_queue EXCEPT ![g] = <<>>]
             \/ /\ caller' = [caller EXCEPT ![g] = "failed"]
                /\ in_flight' = in_flight /\ op_queue' = op_queue
  <2>1. CASE /\ caller' = [caller EXCEPT ![g] = "failed"]
             /\ \E kept \in SUBSET sent(n - 1) : flying' = flying \cup kept
             /\ in_flight' = in_flight /\ op_queue' = op_queue
    <3>1. PICK kept \in SUBSET sent(n - 1) : flying' = flying \cup kept
      BY <2>1
    <3>2. kept \in SUBSET Event /\ kept \subseteq sent(n)
      BY <1>9, <1>12, <3>1
    <3> QED
      BY <2>1, <3>1, <3>2
  <2>2. CASE /\ caller' = [caller EXCEPT ![g] = "wait"]
             /\ flying' = flying \cup sent(n)
             /\ in_flight' = [in_flight EXCEPT ![g] =
                   [id \in DOMAIN in_flight[g] \cup Range(ids) |->
                      IF id \in DOMAIN in_flight[g] THEN in_flight[g][id]
                      ELSE queue[CHOOSE i \in 1 .. n : ids[i] = id]]]
             /\ op_queue' = [op_queue EXCEPT ![g] = <<>>]
    BY <1>7, <1>9, <2>2, Zenon
  <2> QED
    BY <1>11, <2>1, <2>2
<1>14. PICK new \in SUBSET Event :
          /\ new \subseteq Sent(ids, queue, n)
          /\ flying' = flying \cup new
          /\ \/ /\ caller' = [caller EXCEPT ![g] = "wait"]
                /\ new = Sent(ids, queue, n)
                /\ in_flight' = [in_flight EXCEPT ![g] =
                     [id \in DOMAIN in_flight[g] \cup Elems(ids) |->
                        IF id \in DOMAIN in_flight[g] THEN in_flight[g][id]
                        ELSE queue[CHOOSE i \in 1 .. n : ids[i] = id]]]
                /\ op_queue' = [op_queue EXCEPT ![g] = <<>>]
             \/ /\ caller' = [caller EXCEPT ![g] = "failed"]
                /\ in_flight' = in_flight /\ op_queue' = op_queue
  BY <1>8, <1>13, Zenon
<1>15. cb_array' = [o \in Ops |-> IF o \in Elems(queue) THEN x ELSE cb_array[o]]
  BY <1>4, <1>10
<1>16. SubmitStep(g, queue, ids, x, new)
  BY <1>1, <1>2, <1>3, <1>5, <1>6, <1>10, <1>14, <1>15, Zenon DEF SubmitStep
<1> HIDE DEF queue, n
<1> QED
  BY <1>2, <1>5, <1>6, <1>16, Zenon

(* What becomes of the events the kernel keeps: they are outstanding, each  *)
(* with an operation of the queue and an id of its own.                     *)
LEMMA SubmitMoves ==
  ASSUME IInv, NEW g \in Groups,
         NEW queue \in Seq(Ops), NEW ids \in Seq(Ids), NEW x \in Arrays, NEW new \in SUBSET Event,
         SubmitStep(g, queue, ids, x, new)
  PROVE  /\ Outstanding(g)' = Outstanding(g) \cup new
         /\ \A h \in Groups \ {g} : Outstanding(h)' = Outstanding(h)
         /\ OutOps(g)' = OutOps(g) \cup {e.op : e \in new}
         /\ \A h \in Groups \ {g} : OutOps(h)' = OutOps(h)
         /\ \A e \in new : \E i \in 1 .. Len(queue) : e = [data |-> ids[i], op |-> queue[i]]
         /\ \A e \in new : e.op \in Elems(queue) /\ e.data \in Elems(ids) /\ Owner[e.op] = g
         /\ \A e, f \in new : e.op = f.op \/ e.data = f.data => e = f
         /\ Elems(queue) \subseteq Ops /\ Elems(ids) \subseteq Ids
         /\ Len(queue) \in Nat \ {0}
<1>0. TypeOK
  BY DEF IInv
<1>1. Len(queue) \in Nat \ {0} /\ Elems(queue) \subseteq Ops /\ Elems(ids) \subseteq Ids
  BY ElemsIsSet, EmptySeq DEF SubmitStep
<1>2. new \subseteq Sent(ids, queue, Len(queue)) /\ flying' = flying \cup new /\ ring' = ring
  BY DEF SubmitStep
<1>3. \A e \in new : \E i \in 1 .. Len(queue) : e = [data |-> ids[i], op |-> queue[i]]
  BY <1>2 DEF Sent
<1>4. \A e \in new : e.op \in Elems(queue) /\ e.data \in Elems(ids) /\ Owner[e.op] = g
  <2>1. Len(ids) = Len(queue) /\ Elems(queue) \subseteq OpsOf(g)
    BY DEF SubmitStep
  <2>2. \A i \in 1 .. Len(queue) : queue[i] \in Elems(queue) /\ ids[i] \in Elems(ids)
    BY <2>1 DEF Elems
  <2> QED
    BY <1>3, <2>1, <2>2 DEF OpsOf
<1>5. \A e, f \in new : e.op = f.op \/ e.data = f.data => e = f
  <2>1. Len(ids) = Len(queue) /\ Distinct(ids) /\ Distinct(queue)
    BY DEF SubmitStep
  <2>2. \A i, j \in 1 .. Len(queue) : queue[i] = queue[j] \/ ids[i] = ids[j] => i = j
    BY <2>1 DEF Distinct
  <2> QED
    BY <1>3, <2>2
<1>6. Outstanding(g)' = Outstanding(g) \cup new
  BY <1>2, <1>4 DEF Outstanding
<1>7. \A h \in Groups \ {g} : Outstanding(h)' = Outstanding(h)
  BY <1>2, <1>4 DEF Outstanding
<1>8. /\ OutOps(g)' = OutOps(g) \cup {e.op : e \in new}
      /\ \A h \in Groups \ {g} : OutOps(h)' = OutOps(h)
  BY <1>6, <1>7 DEF OutOps
<1> QED
  BY <1>1, <1>3, <1>4, <1>5, <1>6, <1>7, <1>8

(* A submission fills the map with what it sends, and its array counts it.  *)
LEMMA SubmitInv ==
  ASSUME IInv, NEW g \in Groups, Submit(g)
  PROVE  IInv'
<1>1. PICK queue \in Seq(Ops), ids \in Seq(Ids), x \in Arrays, new \in SUBSET Event :
        SubmitStep(g, queue, ids, x, new)
  BY SubmitSends
<1>0. TypeOK /\ OneEventEach /\ OwnOps /\ CallerHolds /\ ArraysOwned /\ MapMatchesKernel /\ ItemsLeftCounts
  BY DEF IInv
<1>2. /\ queue = op_queue[g] /\ queue # <<>> /\ Distinct(queue)
      /\ Elems(queue) \subseteq OpsOf(g) /\ Elems(queue) \cap OutOps(g) = {}
      /\ held[g] = {} /\ caller[g] \in {"fill", "submit"}
      /\ Len(ids) = Len(queue) /\ Distinct(ids) /\ Elems(ids) \cap DOMAIN in_flight[g] = {}
      /\ \A o \in Ops : cb_array[o] # x
      /\ new \subseteq Sent(ids, queue, Len(queue))
      /\ flying' = flying \cup new
      /\ next_flight' = [next_flight EXCEPT ![g] = NextId(ids[Len(queue)])]
      /\ cb_array' = [o \in Ops |-> IF o \in Elems(queue) THEN x ELSE cb_array[o]]
      /\ items_left' = [items_left EXCEPT ![x] = Len(queue)]
      /\ held' = held /\ groups_locked' = groups_locked /\ ring' = ring
  BY <1>1 DEF SubmitStep
<1>3. /\ Outstanding(g)' = Outstanding(g) \cup new
      /\ \A h \in Groups \ {g} : Outstanding(h)' = Outstanding(h)
      /\ OutOps(g)' = OutOps(g) \cup {e.op : e \in new}
      /\ \A h \in Groups \ {g} : OutOps(h)' = OutOps(h)
      /\ \A e \in new : \E i \in 1 .. Len(queue) : e = [data |-> ids[i], op |-> queue[i]]
      /\ \A e \in new : e.op \in Elems(queue) /\ e.data \in Elems(ids) /\ Owner[e.op] = g
      /\ \A e, f \in new : e.op = f.op \/ e.data = f.data => e = f
      /\ Elems(queue) \subseteq Ops /\ Elems(ids) \subseteq Ids
      /\ Len(queue) \in Nat \ {0}
  BY <1>1, SubmitMoves
<1>4. \/ /\ caller'[g] = "wait" /\ new = Sent(ids, queue, Len(queue))
         /\ in_flight'[g] = [id \in DOMAIN in_flight[g] \cup Elems(ids) |->
                IF id \in DOMAIN in_flight[g] THEN in_flight[g][id]
                ELSE queue[CHOOSE i \in 1 .. Len(queue) : ids[i] = id]]
         /\ op_queue'[g] = <<>>
      \/ /\ caller'[g] = "failed"
         /\ in_flight'[g] = in_flight[g] /\ op_queue'[g] = op_queue[g]
  BY <1>0, <1>1 DEF SubmitStep, TypeOK
<1>5. \A h \in Groups \ {g} : /\ caller'[h] = caller[h] /\ in_flight'[h] = in_flight[h]
                               /\ op_queue'[h] = op_queue[h]
  BY <1>0, <1>1 DEF SubmitStep, TypeOK
<1>6. /\ DOMAIN caller' = Groups /\ DOMAIN in_flight' = Groups /\ DOMAIN op_queue' = Groups
  BY <1>0, <1>1 DEF SubmitStep, TypeOK
<1>7. ASSUME caller'[g] # "failed"
      PROVE  /\ \A i \in 1 .. Len(queue) : [data |-> ids[i], op |-> queue[i]] \in new
             /\ {e.op : e \in new} = Elems(queue) /\ {e.data : e \in new} = Elems(ids)
  <2>1. \A i \in 1 .. Len(queue) : [data |-> ids[i], op |-> queue[i]] \in new
    BY <1>4, <1>7 DEF Sent
  <2>2. ASSUME NEW i \in 1 .. Len(queue)
        PROVE  queue[i] \in {e.op : e \in new} /\ ids[i] \in {e.data : e \in new}
    <3>1. PICK e \in new : e = [data |-> ids[i], op |-> queue[i]]
      BY <2>1
    <3>2. e.op = queue[i] /\ e.data = ids[i]
      BY <3>1
    <3> QED
      BY <3>2
  <2>3. Elems(queue) \subseteq {e.op : e \in new} /\ Elems(ids) \subseteq {e.data : e \in new}
    BY <1>2, <2>2 DEF Elems
  <2> QED
    BY <1>3, <2>1, <2>3
<1>8. ASSUME caller'[g] # "failed"
      PROVE  /\ DOMAIN in_flight'[g] = DOMAIN in_flight[g] \cup Elems(ids)
             /\ \A id \in DOMAIN in_flight[g] : in_flight'[g][id] = in_flight[g][id]
             /\ \A i \in 1 .. Len(queue) : in_flight'[g][ids[i]] = queue[i]
  <2>1. ASSUME NEW i \in 1 .. Len(queue) PROVE in_flight'[g][ids[i]] = queue[i]
    <3>1. ids[i] \in Elems(ids) /\ ids[i] \notin DOMAIN in_flight[g]
      BY <1>2 DEF Elems
    <3>2. in_flight'[g][ids[i]] = queue[CHOOSE j \in 1 .. Len(queue) : ids[j] = ids[i]]
      BY <1>4, <1>8, <3>1
    <3>3. (CHOOSE j \in 1 .. Len(queue) : ids[j] = ids[i]) = i
      BY <1>2 DEF Distinct
    <3> QED
      BY <3>2, <3>3
  <2> QED
    BY <1>4, <1>8, <2>1
<1>9. TypeOK'
  <2>1. in_flight'[g] \in FlightMap(Ops)
    <3>1. CASE caller'[g] = "failed"
      BY <1>0, <1>4, <3>1 DEF TypeOK
    <3>2. CASE caller'[g] # "failed"
      <4>1. DOMAIN in_flight[g] \subseteq Ids /\ \A i \in DOMAIN in_flight[g] : in_flight[g][i] \in Ops
        BY <1>0 DEF TypeOK, FlightMap
      <4>2. ASSUME NEW id \in DOMAIN in_flight[g] \cup Elems(ids) PROVE in_flight'[g][id] \in Ops
        <5>1. CASE id \in DOMAIN in_flight[g]
          BY <1>8, <3>2, <4>1, <5>1
        <5>2. CASE id \in Elems(ids)
          <6>1. PICK i \in 1 .. Len(queue) : id = ids[i]
            BY <1>2, <5>2 DEF Elems
          <6>2. queue[i] \in Ops
            BY <1>3, <6>1 DEF Elems
          <6> QED
            BY <1>8, <3>2, <6>1, <6>2
        <5> QED
          BY <5>1, <5>2
      <4>3. in_flight'[g] = [id \in DOMAIN in_flight[g] \cup Elems(ids) |-> in_flight'[g][id]]
        BY <1>4, <3>2
      <4>4. in_flight'[g] \in [DOMAIN in_flight[g] \cup Elems(ids) -> Ops]
        BY <4>2, <4>3
      <4>5. DOMAIN in_flight[g] \cup Elems(ids) \subseteq Ids
        BY <1>3, <4>1
      <4> QED
        BY <4>4, <4>5 DEF FlightMap
    <3> QED
      BY <3>1, <3>2
  <2>2. in_flight' \in [Groups -> FlightMap(Ops)]
    <3>1. \A h \in Groups : in_flight'[h] \in FlightMap(Ops)
      BY <1>0, <1>5, <2>1 DEF TypeOK
    <3>2. \/ in_flight' = in_flight
          \/ in_flight' = [in_flight EXCEPT ![g] = in_flight'[g]]
      BY <1>0, <1>1, <1>4 DEF SubmitStep, TypeOK
    <3> QED
      BY <1>0, <2>1, <3>2 DEF TypeOK
  <2>3. next_flight' \in [Groups -> Ids]
    <3>1. ids[Len(queue)] \in Ids /\ IdMod \in Nat \ {0}
      <4>1. Len(queue) \in 1 .. Len(ids)
        BY <1>2, <1>3
      <4>2. caller[g] # "failed"
        BY <1>2
      <4> QED
        BY <4>1, <4>2, EnoughIds, ElementOfSeq
    <3>2. NextId(ids[Len(queue)]) \in Ids
      BY <3>1, IdTypes
    <3> QED
      BY <1>0, <1>2, <3>2 DEF TypeOK
  <2>4. cb_array' \in [Ops -> Arrays \cup {NoArray}]
    BY <1>0, <1>2 DEF TypeOK
  <2>5. items_left' \in [Arrays -> 0 .. Cardinality(Ops)]
    <3>1. Len(queue) \in 0 .. Cardinality(Ops)
      BY <1>2, <1>3, DistinctIsShort, KernelAssumption, OpsCount
    <3> QED
      BY <1>0, <1>2, <3>1 DEF TypeOK
  <2>6. flying' \subseteq Event /\ held' \in [Groups -> SUBSET Ops] /\ groups_locked' \in BOOLEAN
        /\ ring' \in [Groups -> Seq(Event)]
    BY <1>0, <1>2 DEF TypeOK
  <2>7. caller' \in [Groups -> Caller] /\ op_queue' \in [Groups -> Seq(Ops)]
    <3>1. <<>> \in Seq(Ops)
      BY EmptySeq
    <3>2. caller \in [Groups -> Caller] /\ op_queue \in [Groups -> Seq(Ops)]
      BY <1>0 DEF TypeOK
    <3>3. caller' \in [Groups -> Caller]
      BY <1>1, <3>2 DEF SubmitStep, Caller
    <3>4. op_queue' \in [Groups -> Seq(Ops)]
      BY <1>1, <3>1, <3>2 DEF SubmitStep
    <3> QED
      BY <3>3, <3>4
  <2> QED
    BY <2>2, <2>3, <2>4, <2>5, <2>6, <2>7 DEF TypeOK
<1>10. \A e \in new : e.op \notin OutOps(g) /\ e \notin Outstanding(g) /\ e.op \in Ops
  BY <1>2, <1>3 DEF OutOps
<1>11. OneEventEach'
  <2>1. ASSUME NEW h \in Groups
        PROVE  /\ Distinct(ring[h]) /\ Elems(ring[h]) \cap flying = {}
               /\ Elems(ring[h]) \subseteq Outstanding(h)
               /\ \A e \in Outstanding(h) : Owner[e.op] = h
    BY <1>0, OutstandingIs DEF OneEventEach
  <2>2. \A h \in Groups : Elems(ring[h]) \cap new = {}
    BY <1>3, <1>10, <2>1
  <2>3. \A h \in Groups : \A e \in Outstanding(h)' : Owner[e.op] = h
    BY <1>3, <2>1
  <2>4. \A h \in Groups \ {g} : \A e, f \in Outstanding(h)' : e.op = f.op => e = f
    BY <1>0, <1>3 DEF OneEventEach
  <2>5. \A e, f \in Outstanding(g)' : e.op = f.op => e = f
    <3>1. \A e, f \in Outstanding(g) : e.op = f.op => e = f
      BY <1>0 DEF OneEventEach
    <3>2. \A e \in Outstanding(g) : e.op \in OutOps(g)
      BY DEF OutOps
    <3> QED
      BY <1>3, <1>10, <3>1, <3>2
  <2> QED
    BY <1>2, <2>1, <2>2, <2>3, <2>4, <2>5 DEF OneEventEach
<1>12. OwnOps'
  <2>1. \A h \in Groups : OpsOf(h)' = OpsOf(h)
    BY DEF OpsOf
  <2>2. ASSUME NEW h \in Groups \ {g}
        PROVE  /\ caller'[h] = caller[h] /\ held'[h] = held[h] /\ op_queue'[h] = op_queue[h]
               /\ OutOps(h)' = OutOps(h)
    BY <1>2, <1>3, <1>5
  <2>3. CASE caller'[g] = "failed"
    <3>1. held'[g] = held[g] /\ op_queue'[g] = op_queue[g]
      BY <1>2, <1>4, <2>3
    <3> QED
      BY <1>0, <2>1, <2>2, <2>3, <3>1 DEF OwnOps
  <2>4. CASE caller'[g] # "failed"
    <3>1. /\ held'[g] = {} /\ op_queue'[g] = <<>> /\ Elems(<<>>) = {} /\ Distinct(<<>>)
      BY <1>2, <1>4, <2>4 DEF Elems, Distinct
    <3>2. OpsOf(g) \subseteq OutOps(g) \cup Elems(queue)
      BY <1>0, <1>2 DEF OwnOps
    <3>3. OutOps(g)' = OutOps(g) \cup Elems(queue)
      BY <1>3, <1>7, <2>4
    <3> QED
      BY <1>0, <2>1, <2>2, <3>1, <3>2, <3>3 DEF OwnOps
  <2> QED
    BY <2>3, <2>4
<1>13. CallerHolds'
  <2>1. \A h \in Groups : OpsOf(h)' = OpsOf(h)
    BY DEF OpsOf
  <2>2. ASSUME NEW h \in Groups \ {g}
        PROVE  /\ caller'[h] = caller[h] /\ held'[h] = held[h] /\ op_queue'[h] = op_queue[h]
               /\ Outstanding(h)' = Outstanding(h)
    BY <1>2, <1>3, <1>5
  <2>3. \/ caller'[g] = "wait" /\ held'[g] = {} /\ op_queue'[g] = <<>>
        \/ caller'[g] = "failed"
    BY <1>2, <1>4
  <2> QED
    BY <1>0, <2>1, <2>2, <2>3 DEF CallerHolds
<1>14. ArraysOwned'
  <2>1. \A o \in Elems(queue) : Owner[o] = g
    BY <1>2 DEF OpsOf
  <2>2. x # NoArray
    BY OpsCount DEF NoArray
  <2>3. \A o \in Ops : cb_array'[o] = IF o \in Elems(queue) THEN x ELSE cb_array[o]
    BY <1>2
  <2>4. \A o, p \in Ops : cb_array'[o] = cb_array'[p] /\ cb_array'[o] # NoArray => Owner[o] = Owner[p]
    BY <1>0, <1>2, <2>1, <2>3 DEF ArraysOwned
  <2>5. ASSUME NEW h \in Groups, NEW o \in OutOps(h)' PROVE cb_array'[o] # NoArray
    <3>1. o \in OutOps(h) => o \in Ops /\ cb_array[o] # NoArray
      BY <1>0, OutstandingIs DEF ArraysOwned
    <3>2. o \notin OutOps(h) => o \in Elems(queue)
      BY <1>3, <2>5
    <3> QED
      BY <1>3, <2>2, <2>3, <3>1, <3>2
  <2> QED
    BY <2>4, <2>5 DEF ArraysOwned
<1>15. MapMatchesKernel'
  <2>1. ASSUME NEW h \in Groups \ {g}, caller'[h] # "failed"
        PROVE  /\ DOMAIN in_flight'[h] = {f.data : f \in Outstanding(h)'}
               /\ \A f \in Outstanding(h)' : in_flight'[h][f.data] = f.op
    BY <1>0, <1>3, <1>5, <2>1 DEF MapMatchesKernel
  <2>2. ASSUME caller'[g] # "failed"
        PROVE  /\ DOMAIN in_flight'[g] = {f.data : f \in Outstanding(g)'}
               /\ \A f \in Outstanding(g)' : in_flight'[g][f.data] = f.op
    <3>1. /\ DOMAIN in_flight[g] = {f.data : f \in Outstanding(g)}
          /\ \A f \in Outstanding(g) : in_flight[g][f.data] = f.op
      BY <1>0, <1>2 DEF MapMatchesKernel
    <3>2. DOMAIN in_flight'[g] = {f.data : f \in Outstanding(g)'}
      BY <1>3, <1>7, <1>8, <2>2, <3>1
    <3>3. ASSUME NEW f \in new PROVE in_flight'[g][f.data] = f.op
      <4>1. PICK i \in 1 .. Len(queue) : f = [data |-> ids[i], op |-> queue[i]]
        BY <1>3
      <4> QED
        BY <1>8, <2>2, <4>1
    <3>4. ASSUME NEW f \in Outstanding(g) PROVE in_flight'[g][f.data] = f.op
      BY <1>8, <2>2, <3>1
    <3> QED
      BY <1>3, <3>2, <3>3, <3>4
  <2> QED
    BY <2>1, <2>2 DEF MapMatchesKernel
<1>16. ItemsLeftCounts'
  <2>1. \A o \in Ops : cb_array'[o] = IF o \in Elems(queue) THEN x ELSE cb_array[o]
    BY <1>2
  <2>2. \A o \in Ops : Owner[o] \in Groups
    BY KernelAssumption
  <2>3. \A o \in Elems(queue) : Owner[o] = g /\ ~ \E e \in Outstanding(g) : e.op = o
    BY <1>2 DEF OpsOf, OutOps
  <2>4. ASSUME NEW o \in Ops, o \notin Elems(queue)
        PROVE  (\E e \in Outstanding(Owner[o])' : e.op = o) <=> (\E e \in Outstanding(Owner[o]) : e.op = o)
    <3>1. CASE Owner[o] = g
      <4>1. \A e \in new : e.op # o
        BY <1>3, <2>4
      <4>2. (\E e \in Outstanding(g)' : e.op = o) <=> (\E e \in Outstanding(g) : e.op = o)
        BY <1>3, <4>1
      <4> QED
        BY <3>1, <4>2
    <3>2. CASE Owner[o] # g
      BY <1>3, <2>2, <3>2
    <3> QED
      BY <3>1, <3>2
  <2>5. ASSUME NEW y \in Arrays, \A o \in Ops : cb_array'[o] = y => caller'[Owner[o]] # "failed"
        PROVE  items_left'[y] = Cardinality(OutIn(y)')
    <3>1. OutIn(y)' = {o \in Ops : cb_array'[o] = y /\ \E e \in Outstanding(Owner[o])' : e.op = o}
      BY DEF OutIn
    <3>2. CASE y = x
      <4>1. \E o \in Elems(queue) : TRUE
        BY <1>3 DEF Elems
      <4>2. caller'[g] # "failed"
        BY <1>3, <2>1, <2>3, <2>5, <3>2, <4>1
      <4>3. \A o \in Elems(queue) : \E e \in Outstanding(g)' : e.op = o
        BY <1>3, <1>7, <4>2
      <4>4. OutIn(x)' = Elems(queue)
        <5>1. ASSUME NEW o \in Elems(queue) PROVE o \in OutIn(x)'
          BY <1>3, <2>1, <2>3, <3>1, <3>2, <4>3
        <5>2. ASSUME NEW o \in OutIn(x)' PROVE o \in Elems(queue)
          BY <1>2, <2>1, <3>1, <3>2
        <5> QED
          BY <5>1, <5>2
      <4>5. Cardinality(Elems(queue)) = Len(queue)
        BY <1>2, DistinctCount
      <4>6. items_left'[x] = Len(queue)
        BY <1>0, <1>2 DEF TypeOK
      <4> QED
        BY <3>2, <4>4, <4>5, <4>6
    <3>3. CASE y # x
      <4>1. \A o \in Ops : cb_array[o] = y => caller[Owner[o]] # "failed"
        <5>1. ASSUME NEW o \in Ops, cb_array[o] = y, Owner[o] = g PROVE caller[Owner[o]] # "failed"
          BY <1>2, <5>1
        <5>2. ASSUME NEW o \in Ops, cb_array[o] = y, Owner[o] # g PROVE caller[Owner[o]] # "failed"
          BY <1>5, <2>1, <2>2, <2>3, <2>5, <5>2
        <5> QED
          BY <5>1, <5>2
      <4>2. items_left[y] = Cardinality(OutIn(y))
        BY <1>0, <4>1 DEF ItemsLeftCounts, OutIn
      <4>3. items_left'[y] = items_left[y]
        BY <1>0, <1>2, <3>3 DEF TypeOK
      <4>4. \A o \in Ops : o \in OutIn(y)' <=> o \in OutIn(y)
        <5>1. ASSUME NEW o \in Elems(queue) PROVE o \notin OutIn(y)' /\ o \notin OutIn(y)
          BY <1>3, <2>1, <2>3, <3>1, <3>3 DEF OutIn
        <5>2. ASSUME NEW o \in Ops, o \notin Elems(queue) PROVE o \in OutIn(y)' <=> o \in OutIn(y)
          BY <2>1, <2>4, <3>1, <5>2 DEF OutIn
        <5> QED
          BY <5>1, <5>2
      <4>5. OutIn(y)' \subseteq Ops /\ OutIn(y) \subseteq Ops
        BY <3>1 DEF OutIn
      <4>6. OutIn(y)' = OutIn(y)
        BY <4>4, <4>5
      <4> QED
        BY <4>2, <4>3, <4>6
    <3> QED
      BY <3>2, <3>3
  <2> QED
    BY <2>5 DEF ItemsLeftCounts, OutIn
<1> QED
  BY <1>9, <1>11, <1>12, <1>13, <1>14, <1>15, <1>16 DEF IInv

-----------------------------------------------------------------------------
(* Every step keeps the invariant.                                          *)
LEMMA NextInv == IInv /\ [Next]_vars => IInv'
<1> SUFFICES ASSUME IInv, [Next]_vars PROVE IInv'
  OBVIOUS
<1>1. ASSUME NEW g \in Groups, CreateGroup(g) PROVE IInv'
  BY <1>1, CreateGroupInv
<1>2. ASSUME NEW g \in Groups, NEW o \in Ops, Enqueue(g, o) PROVE IInv'
  BY <1>2, EnqueueInv
<1>3. ASSUME NEW g \in Groups, Submit(g) PROVE IInv'
  BY <1>3, SubmitInv
<1>4. ASSUME NEW g \in Groups, Enter(g) \/ Stop(g) PROVE IInv'
  BY <1>4, EnterStopInv
<1>5. ASSUME NEW g \in Groups, Reap(g) PROVE IInv'
  BY <1>5, ReapInv
<1>6. ASSUME NEW e \in flying, Complete(e) PROVE IInv'
  BY <1>6, CompleteInv
<1>7. CASE UNCHANGED vars
  <2>1. \A g \in Groups : Outstanding(g)' = Outstanding(g) /\ OutOps(g)' = OutOps(g) /\ OpsOf(g)' = OpsOf(g)
    BY <1>7 DEF vars, deviceVars, Outstanding, OutOps, OpsOf
  <2>2. \A x : OutIn(x)' = OutIn(x)
    BY <1>7, <2>1, KernelAssumption DEF OutIn, vars, codeVars, deviceVars
  <2>3. ItemsLeftCounts'
    BY <1>7, <2>2 DEF IInv, ItemsLeftCounts, OutIn, vars, codeVars, deviceVars
  <2>4. TypeOK' /\ OneEventEach'
    BY <1>7, <2>1 DEF IInv, TypeOK, OneEventEach, vars, codeVars, deviceVars
  <2>5. OwnOps' /\ CallerHolds' /\ ArraysOwned' /\ MapMatchesKernel'
    BY <1>7, <2>1 DEF IInv, OwnOps, CallerHolds, ArraysOwned, MapMatchesKernel, vars, codeVars, deviceVars
  <2> QED
    BY <2>3, <2>4, <2>5 DEF IInv
<1> QED
  BY <1>1, <1>2, <1>3, <1>4, <1>5, <1>6, <1>7 DEF Next, GroupNext, Terminated

(* The invariant holds in every state of a run.                             *)
LEMMA Invariance == Spec => []IInv
BY InitInv, NextInv, PTL DEF Spec

(* Every variable keeps its type: in particular the count of an array stays *)
(* between zero and the number of operations, and each id in its width.     *)
THEOREM TypeCorrect == Spec => []TypeOK
<1>1. IInv => TypeOK
  BY DEF IInv
<1> QED
  BY <1>1, Invariance, PTL

(* The id of every event io_getevents can return finds its operation.       *)
THEOREM MapInStep == Spec => []MapMatchesKernel
<1>1. IInv => MapMatchesKernel
  BY DEF IInv
<1> QED
  BY <1>1, Invariance, PTL

(* items_left of a CbArray is the number of its requests outstanding.       *)
THEOREM CountsExact == Spec => []ItemsLeftCounts
<1>1. IInv => ItemsLeftCounts
  BY DEF IInv
<1> QED
  BY <1>1, Invariance, PTL

-----------------------------------------------------------------------------
(* What the contract sees of a state.                                       *)
LEMMA Seen ==
  ASSUME IInv
  PROVE  /\ \A g \in Groups : Contract!OpsOf(g) = OpsOf(g)
         /\ \A g \in Groups : caller[g] # "failed" =>
              /\ Contract!At(g, "held") = held[g]
              /\ Contract!At(g, "queued") = Elems(op_queue[g])
         /\ \A o \in Ops : (\E e \in flying : e.op = o) \/ (\E e \in Range(ring[Owner[o]]) : e.op = o)
                            <=> o \in OutOps(Owner[o])
<1>0. TypeOK /\ OwnOps
  BY DEF IInv
<1>1. \A g \in Groups : Contract!OpsOf(g) = OpsOf(g)
  BY DEF Contract!OpsOf, OpsOf
<1>2. \A o \in Ops : (\E e \in flying : e.op = o) \/ (\E e \in Range(ring[Owner[o]]) : e.op = o)
                     <=> o \in OutOps(Owner[o])
  BY DEF OutOps, Outstanding
<1>3. ASSUME NEW g \in Groups, caller[g] # "failed"
      PROVE  /\ Contract!At(g, "held") = held[g]
             /\ Contract!At(g, "queued") = Elems(op_queue[g])
  <2>1. /\ Elems(op_queue[g]) \cup held[g] \subseteq OpsOf(g)
        /\ Elems(op_queue[g]) \cap held[g] = {}
        /\ OutOps(g) \cap (Elems(op_queue[g]) \cup held[g]) = {}
        /\ OpsOf(g) \subseteq Elems(op_queue[g]) \cup held[g] \cup OutOps(g)
    BY <1>0, <1>3 DEF OwnOps
  <2>2. ASSUME NEW o \in OpsOf(g)
        PROVE  /\ o \in OutOps(g) => Places[o] \in {"flying", "done"}
               /\ o \notin OutOps(g) => Places[o] = IF o \in held[g] THEN "held" ELSE "queued"
    <3>1. o \in Ops /\ Owner[o] = g
      BY DEF OpsOf
    <3> QED
      BY <1>2, <3>1 DEF Places
  <2>3. Contract!At(g, "held") = {o \in OpsOf(g) : o \notin OutOps(g) /\ o \in held[g]}
    BY <1>1, <2>2 DEF Contract!At
  <2>4. Contract!At(g, "queued") = {o \in OpsOf(g) : o \notin OutOps(g) /\ o \notin held[g]}
    BY <1>1, <2>2 DEF Contract!At
  <2> QED
    BY <2>1, <2>3, <2>4
<1> QED
  BY <1>1, <1>2, <1>3

(* io_submit takes the whole queue, or fails having taken some of it.       *)
LEMMA SubmitRefines ==
  ASSUME IInv, NEW g \in Groups, Submit(g)
  PROVE  Contract!Submitted(g) \/ \E S \in SUBSET Contract!OpsOf(g) : Contract!SubmitFails(g, S)
<1>1. PICK queue \in Seq(Ops), ids \in Seq(Ids), x \in Arrays, new \in SUBSET Event :
        SubmitStep(g, queue, ids, x, new)
  BY SubmitSends
<1>0. TypeOK
  BY DEF IInv
<1>2. /\ queue = op_queue[g] /\ Elems(queue) \subseteq OpsOf(g) /\ Elems(queue) \cap OutOps(g) = {}
      /\ held[g] = {} /\ caller[g] \in {"fill", "submit"}
      /\ flying' = flying \cup new /\ held' = held /\ ring' = ring
      /\ \/ caller' = [caller EXCEPT ![g] = "wait"] /\ new = Sent(ids, queue, Len(queue))
         \/ caller' = [caller EXCEPT ![g] = "failed"]
  BY <1>1 DEF SubmitStep
<1>3. \A e \in new : e.op \in Elems(queue)
  BY <1>1, SubmitMoves
<1>4. /\ Contract!At(g, "held") = {} /\ Contract!At(g, "queued") = Elems(queue)
      /\ Callers[g] \in {"fill", "submit"} /\ Contract!OpsOf(g) = OpsOf(g)
  BY <1>2, Seen DEF Callers
<1>5. Places' = [o \in Ops |-> IF o \in {e.op : e \in new} THEN "flying" ELSE Places[o]]
  <2>1. ASSUME NEW o \in Ops
        PROVE  (\E e \in flying' : e.op = o) <=> o \in {e.op : e \in new} \/ \E e \in flying : e.op = o
    BY <1>2
  <2>2. Places' = [o \in Ops |->
              IF \E e \in flying' : e.op = o THEN "flying"
              ELSE IF \E e \in Range(ring[Owner[o]]) : e.op = o THEN "done"
              ELSE IF o \in held[Owner[o]] THEN "held" ELSE "queued"]
    BY <1>2 DEF Places
  <2>3. ASSUME NEW o \in Ops
        PROVE  Places'[o] = IF o \in {e.op : e \in new} THEN "flying" ELSE Places[o]
    BY <2>1, <2>2 DEF Places
  <2> QED
    BY <2>2, <2>3
<1>6. CASE caller' = [caller EXCEPT ![g] = "wait"] /\ new = Sent(ids, queue, Len(queue))
  <2>1. Callers' = [Callers EXCEPT ![g] = "wait"]
    BY <1>0, <1>6 DEF Callers, TypeOK
  <2>2. \A i \in 1 .. Len(queue) : queue[i] \in {e.op : e \in new}
    <3>1. ASSUME NEW i \in 1 .. Len(queue)
          PROVE  \E e \in new : e.op = queue[i]
      <4>1. [data |-> ids[i], op |-> queue[i]] \in new
        BY <1>6 DEF Sent
      <4> QED
        BY <4>1
    <3> QED
      BY <3>1
  <2>3. {e.op : e \in new} = Elems(queue)
    BY <1>3, <2>2 DEF Elems
  <2> QED
    BY <1>4, <1>5, <2>1, <2>3 DEF Contract!Submitted, Contract!Move
<1>7. CASE caller' = [caller EXCEPT ![g] = "failed"]
  <2>1. Callers' = [Callers EXCEPT ![g] = "failed"]
    BY <1>0, <1>7 DEF Callers, TypeOK
  <2>2. {e.op : e \in new} \subseteq Elems(queue)
    BY <1>3
  <2>3. Contract!SubmitFails(g, {e.op : e \in new})
    BY <1>4, <1>5, <2>1, <2>2 DEF Contract!SubmitFails, Contract!Move
  <2> QED
    BY <1>2, <1>4, <2>2, <2>3
<1> QED
  BY <1>2, <1>6, <1>7

(* io_getevents returns the operation its event was submitted for.          *)
LEMMA ReapRefines ==
  ASSUME IInv, NEW g \in Groups, Reap(g)
  PROVE  \E o \in Ops : Contract!Return(o)
<1> DEFINE e == Head(ring[g])
<1>0. TypeOK /\ OneEventEach
  BY DEF IInv
<1>1. /\ caller[g] = "getevents" /\ caller' = [caller EXCEPT ![g] = "reaped"]
      /\ held' = [held EXCEPT ![g] = {e.op}] /\ held[g] = {}
      /\ ring' = [ring EXCEPT ![g] = Tail(ring[g])] /\ ring[g] # <<>>
      /\ flying' = flying /\ ring' \in [Groups -> Seq(Event)]
  BY ReapMoves
<1>2. /\ e \in Event /\ e \in Outstanding(g) /\ e \in Elems(ring[g]) /\ e \notin flying
      /\ Elems(ring[g]) = Elems(Tail(ring[g])) \cup {e} /\ e \notin Elems(Tail(ring[g]))
      /\ e.op \in Ops /\ Owner[e.op] = g
  BY <1>1, HeadEvent
<1> HIDE DEF e
<1>3. PICK op \in Ops : op = e.op /\ Owner[op] = g
  BY <1>2
<1>4. /\ Range(ring[g]) = Elems(ring[g]) /\ Range(ring'[g]) = Elems(Tail(ring[g]))
      /\ \A h \in Groups \ {g} : ring'[h] = ring[h] /\ held'[h] = held[h]
      /\ held'[g] = {op}
  <2>1. ring'[g] = Tail(ring[g]) /\ ring'[g] \in Seq(Event) /\ ring[g] \in Seq(Event)
    BY <1>0, <1>1 DEF TypeOK
  <2>2. Range(ring[g]) = Elems(ring[g]) /\ Range(ring'[g]) = Elems(Tail(ring[g]))
    BY <2>1, ElemsIsSet
  <2>3. /\ \A h \in Groups \ {g} : ring'[h] = ring[h] /\ held'[h] = held[h]
        /\ held'[g] = {op}
    BY <1>0, <1>1, <1>3 DEF TypeOK
  <2> QED
    BY <2>2, <2>3
<1>5. \A f \in flying \cup Elems(ring[g]) : f.op = op => f = e
  <2>1. \A f \in Outstanding(g) : f.op = op => f = e
    BY <1>0, <1>2, <1>3 DEF OneEventEach
  <2>2. \A f \in flying \cup Elems(ring[g]) : f.op = op => f \in Outstanding(g)
    BY <1>3, <1>4 DEF Outstanding
  <2> QED
    BY <2>1, <2>2
<1>6. Callers[g] = "wait" /\ Callers' = [Callers EXCEPT ![g] = "reaped"]
  BY <1>0, <1>1 DEF Callers, TypeOK
<1>7. Places[op] = "done"
  BY <1>2, <1>3, <1>4, <1>5 DEF Places
<1>8. Places' = [o \in Ops |-> IF o \in {op} THEN "held" ELSE Places[o]]
  <2>1. ASSUME NEW o \in Ops
        PROVE  Places'[o] = IF o \in {op} THEN "held" ELSE Places[o]
    <3>1. CASE o = op
      <4>1. \A f \in flying' \cup Range(ring'[g]) : f.op # op
        BY <1>1, <1>2, <1>4, <1>5
      <4> QED
        BY <1>3, <1>4, <3>1, <4>1 DEF Places
    <3>2. CASE o # op /\ Owner[o] = g
      <4>1. (\E f \in Range(ring'[g]) : f.op = o) <=> (\E f \in Range(ring[g]) : f.op = o)
        BY <1>2, <1>3, <1>4, <3>2
      <4>2. o \notin held[g] /\ o \notin held'[g]
        BY <1>1, <1>4, <3>2
      <4> QED
        BY <1>1, <3>2, <4>1, <4>2 DEF Places
    <3>3. CASE o # op /\ Owner[o] # g
      BY <1>1, <1>4, <3>3, KernelAssumption DEF Places
    <3> QED
      BY <3>1, <3>2, <3>3
  <2> QED
    BY <2>1 DEF Places
<1> QED
  BY <1>3, <1>6, <1>7, <1>8 DEF Contract!Return, Contract!Call, Contract!Move

(* An operation queued was with the worker of its group.                    *)
LEMMA EnqueueRefines ==
  ASSUME IInv, NEW g \in Groups, NEW op \in Ops, Enqueue(g, op)
  PROVE  Contract!Enqueue(op)
<1>0. TypeOK
  BY DEF IInv
<1>1. /\ op \in held[g] /\ Owner[op] = g /\ op \notin OutOps(g)
      /\ held' = [held EXCEPT ![g] = held[g] \ {op}]
      /\ flying' = flying /\ ring' = ring
  BY <1>0 DEF Enqueue, Call, IInv, OwnOps, OpsOf, TypeOK, deviceVars
<1>2. \/ Callers[g] = "fill" /\ Callers' = [Callers EXCEPT ![g] = "fill"]
      \/ Callers[g] = "reaped" /\ Callers' = [Callers EXCEPT ![g] = "submit"]
  BY <1>0 DEF Enqueue, Call, Callers, TypeOK
<1>3. /\ ~ \E e \in flying : e.op = op
      /\ ~ \E e \in Range(ring[g]) : e.op = op
  BY <1>1, Seen
<1>4. Places[op] = "held"
  BY <1>1, <1>3 DEF Places
<1>5. Places' = [o \in Ops |-> IF o \in {op} THEN "queued" ELSE Places[o]]
  <2>1. ASSUME NEW o \in Ops PROVE o \in held'[Owner[o]] <=> o \in held[Owner[o]] /\ o # op
    <3>1. CASE Owner[o] = g
      BY <1>0, <1>1, <3>1 DEF TypeOK
    <3>2. CASE Owner[o] # g
      BY <1>0, <1>1, <3>2, KernelAssumption DEF TypeOK
    <3> QED
      BY <3>1, <3>2
  <2>2. ASSUME NEW o \in Ops
        PROVE  Places'[o] = IF o \in {op} THEN "queued" ELSE Places[o]
    <3>1. CASE o = op
      BY <1>1, <1>3, <2>1, <3>1 DEF Places
    <3>2. CASE o # op
      BY <1>1, <2>1, <3>2 DEF Places
    <3> QED
      BY <3>1, <3>2
  <2> QED
    BY <2>2 DEF Places
<1> QED
  BY <1>1, <1>2, <1>4, <1>5 DEF Contract!Enqueue, Contract!Call, Contract!Move

(* The completion of a request is that of its operation.                    *)
LEMMA CompleteRefines ==
  ASSUME IInv, NEW e \in flying, Complete(e)
  PROVE  e.op \in Ops /\ Contract!Complete(e.op)
<1>0. TypeOK /\ OneEventEach
  BY DEF IInv
<1>1. e \in Event /\ e.op \in Ops
  BY <1>0 DEF TypeOK, Event
<1>2. PICK op \in Ops : op = e.op
  BY <1>1
<1>3. PICK g \in Groups : g = Owner[op]
  BY KernelAssumption
<1>4. /\ flying' = flying \ {e} /\ caller' = caller /\ held' = held
      /\ \A h \in Groups : Range(ring'[h]) = IF h = g THEN Range(ring[h]) \cup {e} ELSE Range(ring[h])
  <2>1. /\ flying' = flying \ {e}
        /\ \A h \in Groups : Elems(ring'[h]) =
             IF h = Owner[e.op] THEN Elems(ring[h]) \cup {e} ELSE Elems(ring[h])
        /\ TypeOK'
    BY CompleteMoves
  <2>2. \A h \in Groups : ring[h] \in Seq(Event) /\ ring'[h] \in Seq(Event)
    BY <1>0, <2>1 DEF TypeOK
  <2>3. \A h \in Groups : Range(ring[h]) = Elems(ring[h]) /\ Range(ring'[h]) = Elems(ring'[h])
    BY <2>2, ElemsIsSet
  <2> QED
    BY <1>2, <1>3, <2>1, <2>3 DEF Complete
<1>5. \A f \in flying : f.op = op => f = e
  <2>1. \A f \in flying : f.op = op => f \in Outstanding(g)
    BY <1>3 DEF Outstanding
  <2> QED
    BY <1>0, <1>2, <2>1 DEF OneEventEach
<1>6. Callers' = Callers
  BY <1>4 DEF Callers
<1>7. Places[op] = "flying"
  BY <1>2 DEF Places
<1>8. Places' = [o \in Ops |-> IF o \in {op} THEN "done" ELSE Places[o]]
  <2>1. ASSUME NEW o \in Ops
        PROVE  Places'[o] = IF o \in {op} THEN "done" ELSE Places[o]
    <3>1. CASE o = op
      <4>1. \A f \in flying' : f.op # op
        BY <1>4, <1>5
      <4>2. e \in Range(ring'[g])
        BY <1>4
      <4> QED
        BY <1>2, <1>3, <3>1, <4>1, <4>2 DEF Places
    <3>2. CASE o # op
      <4>1. (\E f \in flying' : f.op = o) <=> (\E f \in flying : f.op = o)
        BY <1>2, <1>4, <3>2
      <4>2. (\E f \in Range(ring'[Owner[o]]) : f.op = o) <=> (\E f \in Range(ring[Owner[o]]) : f.op = o)
        BY <1>2, <1>4, <3>2, KernelAssumption
      <4> QED
        BY <1>4, <3>2, <4>1, <4>2 DEF Places
    <3> QED
      BY <3>1, <3>2
  <2> QED
    BY <2>1 DEF Places
<1> QED
  BY <1>1, <1>2, <1>6, <1>7, <1>8 DEF Contract!Complete, Contract!Move

(* Finding the group in wait is a step the contract does not see.           *)
LEMMA OtherStepsRefine ==
  ASSUME IInv, NEW g \in Groups, CreateGroup(g) \/ Enter(g) \/ Stop(g)
  PROVE  Contract!CreateGroup(g) \/ Contract!Stop(g) \/ UNCHANGED Contract!vars
<1>0. TypeOK
  BY DEF IInv
<1>1. Places' = Places
  BY DEF CreateGroup, Enter, Stop, deviceVars, Places
<1>2. CASE CreateGroup(g)
  <2>1. /\ Callers[g] = "create"
        /\ \/ Callers' = [Callers EXCEPT ![g] = "fill"]
           \/ Callers' = [Callers EXCEPT ![g] = "failed"]
    BY <1>0, <1>2 DEF CreateGroup, Call, Callers, TypeOK
  <2> QED
    BY <1>1, <2>1 DEF Contract!CreateGroup, Contract!Call
<1>3. CASE Enter(g)
  <2>1. Callers' = Callers
    BY <1>0, <1>3 DEF Enter, Call, Callers, TypeOK
  <2> QED
    BY <1>1, <2>1 DEF Contract!vars
<1>4. CASE Stop(g)
  <2>1. Callers[g] \in {"wait", "reaped"} /\ Callers' = [Callers EXCEPT ![g] = "stopped"]
    BY <1>0, <1>4 DEF Stop, Call, Callers, TypeOK
  <2> QED
    BY <1>1, <2>1 DEF Contract!Stop, Contract!Call
<1> QED
  BY <1>2, <1>3, <1>4

(* Every step of the engine is a step of the contract or one it does not    *)
(* see.                                                                     *)
LEMMA StepRefines == IInv /\ [Next]_vars => [Contract!Next]_Contract!vars
<1> SUFFICES ASSUME IInv, [Next]_vars
             PROVE  [Contract!Next]_Contract!vars
  OBVIOUS
<1>1. ASSUME NEW g \in Groups, Submit(g) PROVE Contract!Next
  BY <1>1, SubmitRefines DEF Contract!Next
<1>2. ASSUME NEW g \in Groups, Reap(g) \/ \E o \in Ops : Enqueue(g, o)
      PROVE  Contract!Next
  BY <1>2, ReapRefines, EnqueueRefines DEF Contract!Next
<1>3. ASSUME NEW g \in Groups, CreateGroup(g) \/ Enter(g) \/ Stop(g)
      PROVE  [Contract!Next]_Contract!vars
  BY <1>3, OtherStepsRefine DEF Contract!Next
<1>4. ASSUME NEW e \in flying, Complete(e) PROVE Contract!Next
  BY <1>4, CompleteRefines DEF Contract!Next
<1>5. CASE UNCHANGED vars
  BY <1>5 DEF vars, deviceVars, Contract!vars, Callers, Places
<1> QED
  BY <1>1, <1>2, <1>3, <1>4, <1>5 DEF Next, GroupNext, Terminated

(* The kernel engine implements what async_io.h promises: although it has   *)
(* nothing but the ids to find an operation by, each completion is handed   *)
(* once, to the worker whose operation it is, and only when it happened.    *)
THEOREM KeepsContract == Spec => ImplementsContract
<1>1. Init => Contract!Init
  <2> SUFFICES ASSUME Init PROVE Contract!Init
    OBVIOUS
  <2>1. Callers = [g \in Groups |-> "create"]
    BY DEF Init, Callers
  <2>2. Places = [o \in Ops |-> "held"]
    <3>1. Range(<<>>) = {}
      BY DEF Range
    <3>2. \A o \in Ops : o \in held[Owner[o]] /\ ring[Owner[o]] = <<>>
      BY KernelAssumption DEF Init, OpsOf
    <3> QED
      BY <3>1, <3>2 DEF Init, Places
  <2> QED
    BY <2>1, <2>2 DEF Contract!Init
<1>2. IInv /\ [Next]_vars => [Contract!Next]_Contract!vars
  BY StepRefines
<1> QED
  BY <1>1, <1>2, Invariance, PTL DEF Spec, ImplementsContract, Contract!Spec
=============================================================================

---------------------------- MODULE TargetOffsets ----------------------------
(***************************************************************************)
(* Where I/O goes: the offsets TargetData (target.h) hands to the          *)
(* operations thread_func (thread.cc) keeps in flight on one target, and   *)
(* the memory they are read into or written from, for every configuration  *)
(* that profile.cc and job.cc accept.  Offsets are off_t, added to a       *)
(* size_t (block_size) here and there: the arithmetic keeps its width, and *)
(* so does the random number, which is an int.                             *)
(***************************************************************************)

EXTENDS TargetChecks, Buffers

CONSTANTS
  NumThreads,   \* threads that work on the target (-t or -F)
  Overlap,      \* operations each keeps in flight (-o)
  Configs,      \* the targets considered, before the checks
  IntHalf       \* int holds -IntHalf .. IntHalf - 1    (2^31 in the code)

Mode == {"random", "interlocked", "sequential"}   \* -r, -si, neither

(* A Target: -B, -f or the size of the file, -b, -s or -r, -T, -Sd, the     *)
(* sector size, -w and -Zs.                                                 *)
Target ==
  [base_offset : Nat, max_size : Nat, block_size : Nat \ {0}, stride : Nat,
   thread_offset : Nat, mode : Mode, direct : BOOLEAN, sector_size : Nat \ {0},
   write_percentage : 0 .. 100, separate_buffers : BOOLEAN]

(* The number of threads is an unsigned int.  What option parsing makes     *)
(* sure of: -r is never 0, -si excludes -T.                                 *)
ASSUME OffsetsAssumption ==
  /\ NumThreads \in 1 .. UIntMod - 1
  /\ Overlap \in Nat \ {0}
  /\ IntHalf \in Nat \ {0}
  /\ Configs \subseteq Target
  /\ \A c \in Configs :
       /\ {c.base_offset, c.max_size, c.stride, c.thread_offset} \subseteq 0 .. OffHalf - 1
       /\ c.mode = "random" => c.stride > 0
       /\ c.mode = "interlocked" => c.thread_offset = 0

Threads == 0 .. NumThreads - 1
Slots   == 1 .. Overlap

VARIABLES
  target,               \* the configuration of the run
  interlocked_offset,   \* shared by the threads (-si)
  curr_offset,          \* of each thread, while it fills its first batch
  filled,               \* operations each thread has constructed
  offset,               \* of each operation
  buffers,              \* of each thread: where calloc put them
  type,                 \* of each operation
  buf                   \* the address in its control block

ioVars == <<offset, type, buf>>
vars   == <<target, interlocked_offset, curr_offset, filled, buffers, ioVars>>

(* Conversion to int.                                                       *)
Int32(x) == Signed(x, IntHalf)

-----------------------------------------------------------------------------
(* The configurations threads get to work on.                               *)
Accepted(c) == DirectAligned(c) /\ BlockFits(c) /\ ThreadsFit(c, NumThreads)

-----------------------------------------------------------------------------
(***************************************************************************)
(* Offsets.                                                                *)
(***************************************************************************)

(* get_thread_base_offset.                                                  *)
ThreadBase(t) == ThreadPlace(target, t)

(* Mutant: back to the base of the target, not of the thread.               *)
CorrectOverflow_ToTarget(t, o) ==
  IF Unsigned(o + target.block_size) > target.max_size
  THEN target.base_offset ELSE o

(* correct_overflow: a block that would end behind max_size starts over.    *)
CorrectOverflow(t, o) ==
  IF Unsigned(o + target.block_size) > target.max_size THEN ThreadBase(t) ELSE o

(* RngEngine::get_rand_offset(size) draws an int from [0, (int)(size - 1)]. *)
(* When that is negative the distribution is undefined: any int may come.   *)
RandOffset(size) ==
  IF Int32(size - 1) >= 0 THEN 0 .. Int32(size - 1)
  ELSE -IntHalf .. IntHalf - 1

(* random_offset.                                                           *)
RandomOffsets ==
  LET interval == Off(target.max_size - target.base_offset - target.block_size)
      range    == (interval - (interval % target.stride)) \div target.stride + 1
  IN  {Off(target.base_offset + rnd * target.stride) : rnd \in RandOffset(range)}

(* get_next_offset: with -si the offset passed in is ignored.               *)
NextOffsets(t, o) ==
  IF target.mode = "random" THEN RandomOffsets
  ELSE LET last == IF target.mode = "interlocked" THEN interlocked_offset ELSE o
       IN  {CorrectOverflow(t, Off(last + target.stride))}

(* get_start_offset.                                                        *)
StartOffsets(t) ==
  IF target.mode = "sequential" THEN {ThreadBase(t)} ELSE NextOffsets(t, 0)

(* With -si an offset is taken from interlocked_offset, which is read and   *)
(* written under interlocked_mutex.                                         *)
Take(new) ==
  interlocked_offset' = IF target.mode = "interlocked" THEN new ELSE interlocked_offset

-----------------------------------------------------------------------------
Offsets == -OffHalf .. OffHalf - 1

TypeOK ==
  /\ target \in Configs
  /\ interlocked_offset \in Offsets
  /\ curr_offset \in [Threads -> Offsets]
  /\ filled \in [Threads -> -1 .. Overlap]
  /\ offset \in [Threads -> [Slots -> Offsets]]
  /\ buffers \in [Threads -> TargetBuffers]
  /\ type \in [Threads -> [Slots -> Type]]
  /\ buf \in [Threads -> [Slots -> Nat]]

NoBuffers == [buffer |-> 0, memory |-> {}, write_buffer |-> 0, write_memory |-> {}]

Init ==
  /\ target \in {c \in Configs : Accepted(c)}
  /\ interlocked_offset = target.base_offset
  /\ curr_offset = [t \in Threads |-> 0]
  /\ filled = [t \in Threads |-> -1]
  /\ offset = [t \in Threads |-> [i \in Slots |-> 0]]
  /\ buffers = [t \in Threads |-> NoBuffers]
  /\ type = [t \in Threads |-> [i \in Slots |-> "read"]]
  /\ buf = [t \in Threads |-> [i \in Slots |-> 0]]

(* A thread allocates its buffers and starts to fill its first batch.       *)
Begin(t) ==
  /\ filled[t] = -1
  /\ \E r \in 0 .. Alignment(target) - 1 :
       buffers' = [buffers EXCEPT ![t] =
                     Buffers(target, Overlap, 1 + t * Room(target, Overlap), r)]
  /\ \E new \in StartOffsets(t) :
       /\ curr_offset' = [curr_offset EXCEPT ![t] = new]
       /\ Take(new)
  /\ filled' = [filled EXCEPT ![t] = 0]
  /\ UNCHANGED <<target, ioVars>>

(* Mutant: once an operation has a buffer it keeps it.                      *)
SetType_KeepsBuffer(t, i) ==
  \E new \in TypesDrawn(target) :
    /\ type' = [type EXCEPT ![t][i] = new]
    /\ buf' = [buf EXCEPT ![t][i] =
                 IF @ = 0 THEN BufOf(target, buffers[t], i, new) ELSE @]

(* An operation is made a read or a write and points to the buffer for it.  *)
SetType(t, i) ==
  \E new \in TypesDrawn(target) :
    /\ type' = [type EXCEPT ![t][i] = new]
    /\ buf' = [buf EXCEPT ![t][i] = BufOf(target, buffers[t], i, new)]

(* Mutant: one operation too many.                                          *)
Filling_OneMore(t) == filled[t] \in 0 .. Overlap

Filling(t) == filled[t] \in 0 .. Overlap - 1

(* It constructs an operation at curr_offset and asks for the next offset,  *)
(* also after the last operation of the batch, when curr_offset is left     *)
(* behind (0 here).                                                         *)
Construct(t) ==
  /\ Filling(t)
  /\ offset' = [offset EXCEPT ![t][filled[t] + 1] = curr_offset[t]]
  /\ filled' = [filled EXCEPT ![t] = @ + 1]
  /\ \E new \in NextOffsets(t, curr_offset[t]) :
       /\ curr_offset' = [curr_offset EXCEPT ![t] = IF filled'[t] = Overlap THEN 0 ELSE new]
       /\ Take(new)
  /\ SetType(t, filled[t] + 1)
  /\ UNCHANGED <<target, buffers>>

(* One of its operations completed and is submitted at its next offset,     *)
(* as a read or a write, whatever it was before.                            *)
Requeue(t, i) ==
  /\ filled[t] = Overlap
  /\ \E new \in NextOffsets(t, offset[t][i]) :
       /\ offset' = [offset EXCEPT ![t][i] = new]
       /\ Take(new)
  /\ SetType(t, i)
  /\ UNCHANGED <<target, curr_offset, filled, buffers>>

Next == \E t \in Threads : Begin(t) \/ Construct(t) \/ \E i \in Slots : Requeue(t, i)

SafetySpec == Init /\ [][Next]_vars

(* Threads fill their batches, and every operation comes back again and     *)
(* again, as the engines return whatever completes.                         *)
Spec ==
  /\ SafetySpec
  /\ \A t \in Threads :
       /\ WF_vars(Begin(t) \/ Construct(t))
       /\ \A i \in Slots : WF_vars(Requeue(t, i))

-----------------------------------------------------------------------------
(***************************************************************************)
(* Properties.                                                             *)
(***************************************************************************)

InFlight(t) == {i \in Slots : i <= filled[t]}

(* options.h:212: "areas of the file outside the interval                   *)
(* [base-offset,target-size) will not be touched".  An operation stays in   *)
(* it, in every mode and after any number of wrap-arounds, if the block its *)
(* thread starts with is inside; and the check of job.cc lets no thread     *)
(* start outside, unless the product in it overflows: nothing prevents      *)
(* that, and threads that then start outside do leave the interval.         *)
InBounds ==
  \A t \in Threads :
    PlacesFit(target, NumThreads) \/ PlaceInside(target, t) =>
      \A i \in InFlight(t) :
        /\ target.base_offset <= offset[t][i]
        /\ offset[t][i] + target.block_size <= target.max_size

(* What the O_DIRECT check of job.cc and the alignment of the buffers are   *)
(* for: every operation transfers whole sectors, in memory and on the       *)
(* target, in every mode and after any number of wrap-arounds, provided the *)
(* base offset, which is not checked, is a multiple of the sector size.     *)
SectorAligned ==
  target.direct =>
    \A t \in Threads : \A i \in InFlight(t) :
      /\ buf[t][i] % target.sector_size = 0
      /\ target.base_offset % target.sector_size = 0 =>
           offset[t][i] % target.sector_size = 0

(* The bytes in memory an operation transfers.                              *)
Bytes(t, i) == buf[t][i] .. buf[t][i] + target.block_size - 1

(* "we need the buffer to be large enough for all overlapped requests"      *)
(* (thread.cc:83): whatever operations are in flight together, and however  *)
(* often each changed between read and write, they stay in the memory their *)
(* thread allocated, no two of them use the same bytes, except for writes   *)
(* from the separate buffer of -Zs, and nothing is read into that.          *)
BuffersApart ==
  \A t \in Threads : \A i \in InFlight(t) :
    /\ Bytes(t, i) \subseteq
         IF target.separate_buffers /\ type[t][i] = "write"
         THEN buffers[t].write_memory ELSE buffers[t].memory
    /\ \A u \in Threads : \A j \in InFlight(u) :
         \/ <<t, i>> = <<u, j>>
         \/ target.separate_buffers /\ type[t][i] = "write" /\ type[u][j] = "write"
         \/ Bytes(t, i) \cap Bytes(u, j) = {}

(* A sequential operation goes round and round in its thread's part of the  *)
(* target: it is back at the thread's start again and again.                *)
WrapsAround ==
  \A t \in Threads : \A i \in Slots :
    (target.mode = "sequential" /\ target.stride > 0) =>
      []<>(i \in InFlight(t) /\ offset[t][i] = ThreadBase(t))
=============================================================================

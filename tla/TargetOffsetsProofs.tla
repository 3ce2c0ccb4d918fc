------------------------- MODULE TargetOffsetsProofs -------------------------
(***************************************************************************)
(* Theorems about TargetOffsets for every number of threads and overlap,   *)
(* every set of configurations and every width of the integers: operations *)
(* stay in the target and in the memory of their thread, apart from each   *)
(* other and aligned.                                                      *)
(***************************************************************************)

EXTENDS TargetOffsets, TLAPS

-----------------------------------------------------------------------------
(***************************************************************************)
(* Arithmetic.                                                             *)
(***************************************************************************)

(* The remainders the widths of the integers are made of: of a number in    *)
(* the range of the type, of one above it and of a negative one.            *)
LEMMA Remainder ==
  ASSUME NEW m \in Nat \ {0}, NEW x \in Int
  PROVE  /\ x % m \in 0 .. m - 1
         /\ x \in 0 .. m - 1 => x % m = x
         /\ x \in m .. 2 * m - 1 => x % m = x - m
         /\ x \in -m .. -1 => x % m = x + m
OBVIOUS

(* A quotient times the divisor stays below the dividend ...                *)
LEMMA Quotient ==
  ASSUME NEW a \in Nat, NEW b \in Nat \ {0}
  PROVE  /\ a \div b \in Nat
         /\ (a \div b) * b <= a
         /\ a < (a \div b) * b + b
OBVIOUS

(* ... and a product grows with its factors.                                *)
LEMMA Product ==
  ASSUME NEW a \in Nat, NEW b \in Nat, NEW c \in Nat, a <= b
  PROVE  a * c \in Nat /\ a * c <= b * c
OBVIOUS

(* The multiples of s are those without a remainder.                        *)
LEMMA MultipleOf ==
  ASSUME NEW a \in Int, NEW s \in Nat \ {0}
  PROVE  /\ (a * s) % s = 0
         /\ a % s = 0 => \E k \in Int : a = k * s
<1>1. a = (a \div s) * s + (a % s) /\ a \div s \in Int
  OBVIOUS
<1>2. (a * s) % s = 0
  OBVIOUS
<1> QED
  BY <1>1, <1>2

(* Sums and products of multiples are multiples.                            *)
LEMMA MultiplesAdd ==
  ASSUME NEW s \in Nat \ {0}, NEW a \in Int, NEW b \in Int, a % s = 0
  PROVE  /\ b % s = 0 => (a + b) % s = 0
         /\ (b * a) % s = 0
<1>1. PICK k \in Int : a = k * s
  BY MultipleOf
<1>2. ASSUME b % s = 0 PROVE (a + b) % s = 0
  <2>1. PICK l \in Int : b = l * s
    BY <1>2, MultipleOf
  <2>2. a + b = (k + l) * s /\ k + l \in Int
    BY <1>1, <2>1
  <2> QED
    BY <2>2, MultipleOf
<1>3. (b * a) % s = 0
  <2>1. PICK l \in Int : b * a = l * s
    <3>1. b * a = (b * k) * s /\ b * k \in Int
      BY <1>1
    <3> QED
      BY <3>1
  <2> QED
    BY <2>1, MultipleOf
<1> QED
  BY <1>2, <1>3

(* What conversions to off_t and size_t do to a number that fits, and to    *)
(* one that is too large for off_t.                                         *)
LEMMA Widths ==
  ASSUME NEW x \in Int
  PROVE  /\ Off(x) \in Offsets
         /\ x \in Offsets => Off(x) = x
         /\ x \in OffHalf .. 2 * OffHalf - 1 => Off(x) = x - 2 * OffHalf
         /\ x \in 0 .. 2 * OffHalf - 1 => Unsigned(x) = x
         /\ x \in -OffHalf .. -1 => Unsigned(x) = x + 2 * OffHalf
<1>1. OffHalf \in Nat \ {0}
  BY WidthAssumption DEF WidthAssumption
<1>2. PICK m \in Nat \ {0} : m = 2 * OffHalf
  BY <1>1
<1>3. PICK y \in Int : y = x + OffHalf
  BY <1>1
<1>4. /\ y % m \in 0 .. m - 1
      /\ y \in 0 .. m - 1 => y % m = y
      /\ y \in m .. 2 * m - 1 => y % m = y - m
  BY Remainder
<1>5. /\ x \in 0 .. m - 1 => x % m = x
      /\ x \in -m .. -1 => x % m = x + m
  BY Remainder
<1>6. Off(x) = (y % m) - OffHalf /\ Unsigned(x) = x % m
  BY <1>2, <1>3 DEF Off, Signed, Unsigned
<1> QED
  BY <1>1, <1>2, <1>3, <1>4, <1>5, <1>6 DEF Offsets

-----------------------------------------------------------------------------
(***************************************************************************)
(* The inductive invariant.                                                *)
(***************************************************************************)

(* What nothing checks, and InBounds needs: the blocks of a random target   *)
(* can be counted with an int,                                              *)
BlocksCounted ==
  target.mode = "random" =>
    (target.max_size - target.base_offset - target.block_size) \div target.stride < IntHalf

(* and a thread starts inside, or the distance of the last one, which the   *)
(* check is about, does not overflow an off_t.                              *)
StartsInside(t) == PlacesFit(target, NumThreads) \/ PlaceInside(target, t)

Kept(t) == BlocksCounted /\ StartsInside(t)

(* An offset an operation may have: a block from there on is in the target, *)
(* on sectors if that is asked of it and offsets do not wrap around.        *)
Inside(o) ==
  /\ o \in Nat
  /\ target.base_offset <= o
  /\ o + target.block_size <= target.max_size
  /\ /\ target.direct /\ target.base_offset % target.sector_size = 0
     /\ PlacesFit(target, NumThreads)
     => o % target.sector_size = 0

ThreadInside(t) ==
  /\ Filling(t) => Inside(curr_offset[t])
  /\ \A i \in InFlight(t) : Inside(offset[t][i])

OffsetsInv ==
  /\ BlocksCounted => Inside(interlocked_offset)
  /\ \A t \in Threads : Kept(t) => ThreadInside(t)

(* A thread's buffers are where calloc put them, in a room of its own, and  *)
(* its operations point into them by their type.                            *)
ThreadBuffers(t, r) == Buffers(target, Overlap, 1 + t * Room(target, Overlap), r)

ThreadMemory(t) ==
  /\ filled[t] >= 0 =>
       \E r \in 0 .. Alignment(target) - 1 : buffers[t] = ThreadBuffers(t, r)
  /\ \A i \in InFlight(t) : buf[t][i] = BufOf(target, buffers[t], i, type[t][i])

MemoryInv == \A t \in Threads : ThreadMemory(t)

IInv ==
  /\ TypeOK
  /\ Accepted(target)
  /\ OffsetsInv
  /\ MemoryInv

-----------------------------------------------------------------------------
(***************************************************************************)
(* Offsets.                                                                *)
(***************************************************************************)

(* What the checks make of a configuration: a block fits in it.             *)
LEMMA AcceptedFits ==
  ASSUME target \in Configs, Accepted(target)
  PROVE  /\ target \in Target
         /\ target.base_offset \in 0 .. OffHalf - 1 /\ target.max_size \in 0 .. OffHalf - 1
         /\ target.stride \in 0 .. OffHalf - 1 /\ target.thread_offset \in 0 .. OffHalf - 1
         /\ target.mode = "random" => target.stride > 0
         /\ target.base_offset + target.block_size <= target.max_size
         /\ OffHalf \in Nat \ {0} /\ IntHalf \in Nat \ {0} /\ NumThreads \in Nat \ {0}
<1>1. /\ target \in Target
      /\ target.base_offset \in 0 .. OffHalf - 1 /\ target.max_size \in 0 .. OffHalf - 1
      /\ target.stride \in 0 .. OffHalf - 1 /\ target.thread_offset \in 0 .. OffHalf - 1
      /\ target.mode = "random" => target.stride > 0
      /\ OffHalf \in Nat \ {0} /\ IntHalf \in Nat \ {0} /\ NumThreads \in Nat \ {0}
  BY OffsetsAssumption, WidthAssumption DEF OffsetsAssumption, WidthAssumption
<1>2. target.block_size \in Nat \ {0}
  BY <1>1 DEF Target
<1>3. target.max_size > target.base_offset
  BY <1>1 DEF Accepted, BlockFits
<1>4. Unsigned(target.max_size - target.base_offset) = target.max_size - target.base_offset
  BY <1>1, <1>3, Widths
<1>5. ~(target.max_size - target.base_offset < target.block_size)
  BY <1>4 DEF Accepted, BlockFits
<1> QED
  BY <1>1, <1>2, <1>5

(* A thread starts inside the target: ThreadsFit looks at the last one.     *)
LEMMA ThreadBaseInside ==
  ASSUME target \in Configs, Accepted(target), NEW t \in Threads, StartsInside(t)
  PROVE  Inside(ThreadBase(t))
<1> DEFINE base == target.base_offset
           max  == target.max_size
           blk  == target.block_size
           dist == target.thread_offset
           last == dist * (NumThreads - 1)
<1>1. /\ base \in 0 .. OffHalf - 1 /\ max \in 0 .. OffHalf - 1 /\ dist \in 0 .. OffHalf - 1
      /\ base + blk <= max /\ blk \in Nat \ {0}
      /\ OffHalf \in Nat \ {0} /\ NumThreads \in Nat \ {0} /\ t \in 0 .. NumThreads - 1
  BY AcceptedFits DEF Target, Threads
<1>2. t * dist \in Nat /\ t * dist <= (NumThreads - 1) * dist /\ (NumThreads - 1) * dist = last
  BY <1>1, Product
<1>3. ASSUME PlacesFit(target, NumThreads) PROVE t * dist <= max - base - blk
  <2>1. last \in 0 .. OffHalf - 1
    BY <1>1, <1>2, <1>3 DEF PlacesFit
  <2>2. (NumThreads - 1) % UIntMod = NumThreads - 1
    <3>1. NumThreads - 1 \in 0 .. UIntMod - 1 /\ UIntMod \in Nat \ {0} /\ NumThreads - 1 \in Int
      BY OffsetsAssumption, WidthAssumption DEF OffsetsAssumption, WidthAssumption
    <3> QED
      BY <3>1, Remainder
  <2>3. Off(max - base - blk) = max - base - blk
    BY <1>1, Widths DEF Offsets
  <2>4. Off(last) = last
    BY <1>1, <2>1, Widths DEF Offsets
  <2>5. ~(Off(max - base - blk) < Off(last))
    BY <2>2 DEF Accepted, ThreadsFit
  <2> HIDE DEF base, max, blk, dist, last
  <2> QED
    BY <1>1, <1>2, <2>1, <2>3, <2>4, <2>5
<1>4. ASSUME PlacesFit(target, NumThreads)
      PROVE  ThreadBase(t) = base + t * dist /\ base + t * dist \in 0 .. OffHalf - 1
  <2>1. t * dist \in 0 .. OffHalf - 1 /\ base + t * dist \in 0 .. OffHalf - 1
    <3>1. t * dist <= max - base - blk
      BY <1>3, <1>4
    <3> HIDE DEF base, max, blk, dist, last
    <3> QED
      BY <1>1, <1>2, <3>1
  <2>2. Off(t * dist) = t * dist
    BY <1>1, <2>1, Widths DEF Offsets
  <2>3. Off(base + t * dist) = base + t * dist
    BY <1>1, <2>1, Widths DEF Offsets
  <2> QED
    BY <2>1, <2>2, <2>3 DEF ThreadBase, ThreadPlace
<1>5. ASSUME PlacesFit(target, NumThreads), target.direct, base % target.sector_size = 0
      PROVE  (base + t * dist) % target.sector_size = 0
  <2>1. dist % target.sector_size = 0 /\ target.sector_size \in Nat \ {0}
    BY <1>5, AcceptedFits DEF Accepted, DirectAligned, Target
  <2>2. (t * dist) % target.sector_size = 0
    BY <1>1, <2>1, MultiplesAdd
  <2>3. PICK x \in Int, y \in Int, s \in Nat \ {0} :
          x = base /\ y = t * dist /\ s = target.sector_size
    BY <1>1, <1>2, <2>1
  <2>4. x % s = 0 /\ y % s = 0
    BY <1>5, <2>2, <2>3
  <2>5. (x + y) % s = 0
    BY <2>4, MultiplesAdd
  <2> QED
    BY <2>3, <2>5
<1>6. CASE PlacesFit(target, NumThreads)
  <2>1. base + t * dist \in Nat /\ base <= base + t * dist /\ base + t * dist + blk <= max
    <3>1. t * dist <= max - base - blk
      BY <1>3, <1>6
    <3> HIDE DEF base, max, blk, dist, last
    <3> QED
      BY <1>1, <1>2, <3>1
  <2> QED
    BY <1>4, <1>5, <1>6, <2>1 DEF Inside
<1>7. CASE ~PlacesFit(target, NumThreads)
  <2>1. base <= ThreadBase(t) /\ ThreadBase(t) + blk <= max
    BY <1>7 DEF StartsInside, PlaceInside, ThreadBase
  <2>2. ThreadBase(t) \in Int
    <3>1. base + Off(t * dist) \in Int
      <4>1. t * dist \in Int
        BY <1>2
      <4>2. Off(t * dist) \in Int
        BY <1>1, <4>1, Widths DEF Offsets
      <4> QED
        BY <1>1, <4>2
    <3> QED
      BY <1>1, <3>1, Widths DEF Offsets, ThreadBase, ThreadPlace
  <2>3. ThreadBase(t) \in Nat
    <3> HIDE DEF base, max, blk, dist, last
    <3> QED
      BY <1>1, <2>1, <2>2
  <2> QED
    BY <1>7, <2>1, <2>3 DEF Inside
<1> QED
  BY <1>6, <1>7

(* A stride further, or back at the thread's start: the sum overflows an    *)
(* off_t before it overflows a size_t, and is then corrected, too.          *)
LEMMA StrideInside ==
  ASSUME target \in Configs, Accepted(target), NEW t \in Threads, StartsInside(t),
         NEW o, Inside(o)
  PROVE  Inside(CorrectOverflow(t, Off(o + target.stride)))
<1> DEFINE base == target.base_offset
           max  == target.max_size
           blk  == target.block_size
           x    == o + target.stride
<1>1. /\ base \in 0 .. OffHalf - 1 /\ max \in 0 .. OffHalf - 1 /\ target.stride \in 0 .. OffHalf - 1
      /\ base + blk <= max /\ blk \in Nat \ {0} /\ OffHalf \in Nat \ {0}
      /\ o \in Nat /\ base <= o /\ o + blk <= max
  BY AcceptedFits DEF Target, Inside
<1>2. x \in 0 .. 2 * OffHalf - 1 /\ base <= x
  BY <1>1
<1>3. CASE x >= OffHalf
  <2>1. Off(x) = x - 2 * OffHalf
    BY <1>1, <1>2, <1>3, Widths
  <2>2. x - 2 * OffHalf + blk \in -OffHalf .. -1 /\ x + blk > max
    <3> HIDE DEF base, max, blk
    <3> QED
      BY <1>1, <1>2, <1>3
  <2>3. Unsigned(x - 2 * OffHalf + blk) = x - 2 * OffHalf + blk + 2 * OffHalf
    BY <1>1, <2>2, Widths
  <2>4. Unsigned(Off(x) + blk) > max
    <3> HIDE DEF base, max, blk
    <3> QED
      BY <1>1, <1>2, <2>1, <2>2, <2>3
  <2> QED
    BY <2>4, ThreadBaseInside DEF CorrectOverflow
<1>4. CASE x < OffHalf
  <2>1. Off(x) = x
    BY <1>1, <1>2, <1>4, Widths DEF Offsets
  <2>2. x + blk \in 0 .. 2 * OffHalf - 1
    <3> HIDE DEF base, max, blk
    <3> QED
      BY <1>1, <1>2, <1>4
  <2>3. Unsigned(x + blk) = x + blk
    BY <2>2, Widths
  <2>4. ASSUME x + blk <= max PROVE Inside(x)
    <3>1. ASSUME target.direct, base % target.sector_size = 0, PlacesFit(target, NumThreads)
          PROVE  x % target.sector_size = 0
      <4>1. target.stride % target.sector_size = 0 /\ target.sector_size \in Nat \ {0}
        BY <3>1, AcceptedFits DEF Accepted, DirectAligned, Target
      <4>2. o % target.sector_size = 0
        BY <3>1 DEF Inside
      <4> QED
        BY <1>1, <4>1, <4>2, MultiplesAdd
    <3> QED
      BY <1>2, <2>4, <3>1 DEF Inside
  <2>5. x + blk > max \/ x + blk <= max
    BY <1>1, <1>2
  <2> QED
    BY <2>1, <2>3, <2>4, <2>5, ThreadBaseInside DEF CorrectOverflow
<1> QED
  BY <1>1, <1>2, <1>3, <1>4

(* A random offset: the draw is among the blocks that fit.                  *)
LEMMA RandomInside ==
  ASSUME target \in Configs, Accepted(target), BlocksCounted, target.mode = "random",
         NEW o \in RandomOffsets
  PROVE  Inside(o)
<1> DEFINE base  == target.base_offset
           max   == target.max_size
           blk   == target.block_size
           s     == target.stride
           room  == max - base - blk
           range == (room - (room % s)) \div s + 1
<1>1. /\ base \in 0 .. OffHalf - 1 /\ max \in 0 .. OffHalf - 1 /\ s \in Nat \ {0}
      /\ room \in Nat /\ base + blk <= max /\ blk \in Nat \ {0}
      /\ OffHalf \in Nat \ {0} /\ IntHalf \in Nat \ {0}
  BY AcceptedFits DEF Target
<1>2. Off(room) = room
  BY <1>1, Widths DEF Offsets
<1>3. range - 1 = room \div s /\ room \div s \in Nat /\ (room \div s) * s <= room
  <2>1. room - (room % s) = (room \div s) * s
    <3> HIDE DEF room, s
    <3> QED
      BY <1>1
  <2>2. room \div s \in Nat /\ (room \div s) * s <= room
    BY <1>1, Quotient
  <2>3. ((room \div s) * s) \div s = room \div s
    <3> HIDE DEF room, s
    <3> QED
      BY <1>1, <2>2
  <2> QED
    BY <2>1, <2>2, <2>3
<1>4. RandOffset(range) = 0 .. room \div s
  <2>1. room \div s < IntHalf
    BY DEF BlocksCounted
  <2>2. ((range - 1 + IntHalf) % (2 * IntHalf)) = range - 1 + IntHalf
    <3> DEFINE y == range - 1 + IntHalf
               w == 2 * IntHalf
    <3>1. y \in 0 .. w - 1 /\ w \in Nat \ {0} /\ y \in Int
      BY <1>1, <1>3, <2>1
    <3> HIDE DEF y, w
    <3>2. y % w = y
      BY <3>1, Remainder
    <3> QED
      BY <3>2 DEF y, w
  <2>3. Int32(range - 1) = room \div s
    <3> HIDE DEF range, room, s
    <3> QED
      BY <1>1, <1>3, <2>2 DEF Int32, Signed
  <2> QED
    BY <1>3, <2>3 DEF RandOffset
<1>5. PICK rnd \in 0 .. room \div s : o = Off(base + rnd * s)
  BY <1>2, <1>4 DEF RandomOffsets
<1>6. rnd \in Nat /\ rnd * s \in Nat /\ rnd * s <= room
  <2>1. rnd \in Nat /\ rnd <= room \div s
    BY <1>3
  <2>2. rnd * s \in Nat /\ rnd * s <= (room \div s) * s
    BY <1>1, <1>3, <2>1, Product
  <2> HIDE DEF room, s
  <2> QED
    BY <1>1, <1>3, <2>1, <2>2
<1>7. base + rnd * s \in 0 .. OffHalf - 1
  BY <1>1, <1>6
<1>8. o = base + rnd * s
  BY <1>1, <1>5, <1>7, Widths DEF Offsets
<1>9. ASSUME target.direct, base % target.sector_size = 0 PROVE o % target.sector_size = 0
  <2>1. s % target.sector_size = 0 /\ target.sector_size \in Nat \ {0}
    BY <1>9, AcceptedFits DEF Accepted, DirectAligned, Target
  <2>2. (rnd * s) % target.sector_size = 0
    BY <1>1, <1>6, <2>1, MultiplesAdd
  <2> QED
    BY <1>1, <1>6, <1>8, <1>9, <2>1, <2>2, MultiplesAdd
<1> QED
  BY <1>1, <1>6, <1>8, <1>9 DEF Inside

(* Whatever the mode, the next offset is inside the target if the one       *)
(* before it and the shared one are.                                        *)
LEMMA NextInside ==
  ASSUME target \in Configs, Accepted(target), NEW t \in Threads, Kept(t),
         Inside(interlocked_offset),
         NEW o, Inside(o) \/ target.mode # "sequential", NEW new \in NextOffsets(t, o)
  PROVE  Inside(new)
<1>1. target.mode \in Mode
  BY AcceptedFits DEF Target
<1> QED
  BY <1>1, RandomInside, StrideInside DEF NextOffsets, Mode, Kept

(* Where a thread starts.                                                   *)
LEMMA StartInside ==
  ASSUME target \in Configs, Accepted(target), NEW t \in Threads, Kept(t),
         Inside(interlocked_offset), NEW new \in StartOffsets(t)
  PROVE  Inside(new)
BY ThreadBaseInside, NextInside DEF StartOffsets, Kept

(* Without any of this an offset is still an off_t.                         *)
LEMMA NextType ==
  ASSUME TypeOK, NEW t \in Threads, NEW o \in Offsets
  PROVE  NextOffsets(t, o) \subseteq Offsets /\ StartOffsets(t) \subseteq Offsets
<1>1. /\ target.base_offset \in Nat /\ target.stride \in Nat /\ target.thread_offset \in Nat
      /\ OffHalf \in Nat \ {0} /\ IntHalf \in Nat \ {0} /\ t \in Nat
  BY OffsetsAssumption, WidthAssumption
  DEF OffsetsAssumption, WidthAssumption, TypeOK, Target, Threads
<1>2. ThreadBase(t) \in Offsets
  <2>1. Off(t * target.thread_offset) \in Int
    BY <1>1, Widths DEF Offsets
  <2> QED
    BY <1>1, <2>1, Widths DEF ThreadBase, ThreadPlace
<1>3. \A x \in Int : CorrectOverflow(t, Off(x)) \in Offsets
  BY <1>2, Widths DEF CorrectOverflow
<1>4. RandomOffsets \subseteq Offsets
  <2>1. \A size : RandOffset(size) \subseteq Int
    BY <1>1 DEF RandOffset
  <2>2. \A rnd \in Int : target.base_offset + rnd * target.stride \in Int
    BY <1>1
  <2> QED
    BY <2>1, <2>2, Widths DEF RandomOffsets
<1>5. \A p \in Offsets : NextOffsets(t, p) \subseteq Offsets
  <2>1. \A p \in Offsets : p + target.stride \in Int /\ interlocked_offset + target.stride \in Int
    BY <1>1 DEF TypeOK, Offsets
  <2> QED
    BY <1>3, <1>4, <2>1 DEF NextOffsets
<1>6. 0 \in Offsets
  BY <1>1 DEF Offsets
<1> QED
  BY <1>2, <1>5, <1>6 DEF StartOffsets

-----------------------------------------------------------------------------
(***************************************************************************)
(* Memory.                                                                 *)
(***************************************************************************)

(* new_buffer finds a multiple of the alignment among the bytes it added.   *)
LEMMA Aligned ==
  ASSUME NEW address \in Nat, NEW n \in Nat \ {0}
  PROVE  /\ AlignUp(address, n) \in address .. address + n - 1
         /\ AlignUp(address, n) % n = 0
<1>1. PICK a \in Nat : a = address + n - 1
  OBVIOUS
<1>2. a \div n \in Nat /\ (a \div n) * n <= a /\ a < (a \div n) * n + n
  BY Quotient
<1>3. ((a \div n) * n) % n = 0
  BY <1>2, MultipleOf
<1> QED
  BY <1>1, <1>2, <1>3 DEF AlignUp

(* The room of thread t.                                                    *)
RoomOf(t) == 1 + t * Room(target, Overlap) .. (t + 1) * Room(target, Overlap)

(* The numbers the buffers are computed from.                               *)
LEMMA Sizes ==
  ASSUME target \in Target
  PROVE  /\ Overlap \in Nat \ {0} /\ target.block_size \in Nat \ {0}
         /\ Alignment(target) \in Nat \ {0}
         /\ BufferSize(target, Overlap) \in Nat
         /\ Room(target, Overlap) \in Nat
         /\ Room(target, Overlap) =
              BufferSize(target, Overlap) + target.block_size + 4 * Alignment(target)
<1>1. Overlap \in Nat \ {0} /\ target.block_size \in Nat \ {0} /\ target.sector_size \in Nat \ {0}
  BY OffsetsAssumption DEF OffsetsAssumption, Target
<1>2. Overlap * target.block_size \in Nat
  BY <1>1
<1> QED
  BY <1>1, <1>2 DEF Alignment, BufferSize, WriteBufferSize, Room

(* What a thread allocates is in its room, and its two buffers are apart.   *)
LEMMA MemoryApart ==
  ASSUME target \in Target, NEW t \in Threads, NEW r \in 0 .. Alignment(target) - 1
  PROVE  /\ ThreadBuffers(t, r).memory \subseteq RoomOf(t)
         /\ ThreadBuffers(t, r).write_memory \subseteq RoomOf(t)
         /\ ThreadBuffers(t, r).memory \cap ThreadBuffers(t, r).write_memory = {}
<1> DEFINE align == Alignment(target)
           size  == BufferSize(target, Overlap)
           blk   == target.block_size
           room  == Room(target, Overlap)
           first == 1 + t * room + r
           b     == ThreadBuffers(t, r)
<1>1. /\ align \in Nat \ {0} /\ size \in Nat /\ blk \in Nat \ {0} /\ room = size + blk + 4 * align
      /\ r \in 0 .. align - 1 /\ room \in Nat /\ t \in Nat
  BY Sizes DEF Threads
<1>2. PICK from \in Nat : from = t * room /\ (t + 1) * room = from + room
  <2>1. t * room \in Nat /\ (t + 1) * room = t * room + room
    BY <1>1
  <2> QED
    BY <2>1
<1>3. RoomOf(t) = 1 + from .. from + room
  BY <1>2 DEF RoomOf
<1>4. b.memory = 1 + from + r .. 1 + from + r + size + align - 2
  BY <1>2 DEF ThreadBuffers, Buffers, Allocated
<1>5. \/ b.write_memory = {}
      \/ b.write_memory = 1 + from + r + size + align - 1 ..
                          1 + from + r + size + align - 1 + blk + align - 2
  BY <1>2 DEF ThreadBuffers, Buffers, Allocated, WriteBufferSize
<1> HIDE DEF align, size, blk, room
<1> QED
  BY <1>1, <1>3, <1>4, <1>5

(* Where the operation in a slot reads or writes: its block of the buffer,  *)
(* or the separate buffer, whole and aligned.                               *)
LEMMA SliceInside ==
  ASSUME target \in Target, NEW t \in Threads, NEW r \in 0 .. Alignment(target) - 1,
         NEW i \in Slots, NEW kind \in Type
  PROVE  LET b    == ThreadBuffers(t, r)
             a    == BufOf(target, b, i, kind)
             last == a + target.block_size - 1
         IN  /\ a \in Nat
             /\ target.direct => a % target.sector_size = 0 \/ target.block_size % target.sector_size # 0
             /\ IF target.separate_buffers /\ kind = "write"
                THEN a .. last \subseteq b.write_memory
                ELSE /\ a .. last \subseteq b.memory
                     /\ b.buffer \in Nat
                     /\ a = b.buffer + (i - 1) * target.block_size
<1> DEFINE align == Alignment(target)
           size  == BufferSize(target, Overlap)
           blk   == target.block_size
           room  == Room(target, Overlap)
           b     == ThreadBuffers(t, r)
           a     == BufOf(target, b, i, kind)
<1>1. /\ align \in Nat \ {0} /\ size \in Nat /\ blk \in Nat \ {0} /\ room \in Nat /\ t \in Nat
      /\ r \in 0 .. align - 1 /\ i \in 1 .. Overlap /\ Overlap \in Nat \ {0}
  BY Sizes DEF Threads, Slots
<1>2. PICK first \in Nat : first = 1 + t * room + r
  <2>1. t * room \in Nat
    BY <1>1
  <2> QED
    BY <1>1, <2>1
<1>3. PICK second \in Nat : second = first + size + align - 1
  BY <1>1
<1>4. /\ b.buffer = AlignUp(first, align)
      /\ b.memory = first .. first + size + align - 2
      /\ target.separate_buffers => /\ b.write_buffer = AlignUp(second, align)
                                    /\ b.write_memory = second .. second + blk + align - 2
  BY <1>2, <1>3 DEF ThreadBuffers, Buffers, Allocated, WriteBufferSize
<1>5. CASE target.separate_buffers /\ kind = "write"
  <2>1. a = AlignUp(second, align)
    BY <1>4, <1>5 DEF BufOf, WriteBuf
  <2>2. a \in second .. second + align - 1 /\ a % align = 0
    BY <1>1, <2>1, Aligned
  <2>3. a .. a + blk - 1 \subseteq second .. second + blk + align - 2
    <3> HIDE DEF a, blk, align
    <3> QED
      BY <1>1, <2>2
  <2>4. target.direct => align = target.sector_size
    BY DEF Alignment
  <2>5. a \in Nat
    BY <2>2
  <2> QED
    BY <1>4, <1>5, <2>2, <2>3, <2>4, <2>5
<1>6. CASE ~(target.separate_buffers /\ kind = "write")
  <2>1. a = b.buffer + (i - 1) * blk
    BY <1>6 DEF BufOf, WriteBuf, ReadBuf, Type
  <2>2. b.buffer \in first .. first + align - 1 /\ b.buffer % align = 0
    BY <1>1, <1>4, Aligned
  <2>3. (i - 1) * blk \in Nat /\ (i - 1) * blk + blk <= size
    <3>1. i * blk <= Overlap * blk
      BY <1>1, Product
    <3>2. (i - 1) * blk \in Nat /\ (i - 1) * blk + blk = i * blk
      BY <1>1
    <3> QED
      BY <3>1, <3>2 DEF BufferSize
  <2>4. a \in Nat /\ a .. a + blk - 1 \subseteq first .. first + size + align - 2
    <3>1. PICK off \in Nat : off = (i - 1) * blk /\ off + blk <= size
      BY <2>3
    <3>2. PICK buffer \in first .. first + align - 1 : buffer = b.buffer
      BY <2>2
    <3>3. a = buffer + off
      BY <2>1, <3>1, <3>2
    <3> HIDE DEF a, blk, align, size
    <3> QED
      BY <1>1, <3>1, <3>2, <3>3
  <2>5. ASSUME target.direct, blk % target.sector_size = 0 PROVE a % target.sector_size = 0
    <3>1. align = target.sector_size
      BY <2>5 DEF Alignment
    <3>2. ((i - 1) * blk) % align = 0
      BY <1>1, <2>5, <3>1, MultiplesAdd
    <3>3. b.buffer \in Int /\ (i - 1) * blk \in Int
      BY <2>2, <2>3
    <3> QED
      BY <1>1, <2>1, <2>2, <3>1, <3>2, <3>3, MultiplesAdd
  <2>6. b.buffer \in Nat
    BY <2>2
  <2> QED
    BY <1>4, <1>6, <2>1, <2>4, <2>5, <2>6
<1> QED
  BY <1>5, <1>6

(* Blocks of the same buffer in different slots, and rooms of different     *)
(* threads, have nothing in common.                                         *)
LEMMA SlicesApart ==
  ASSUME NEW n \in Nat, NEW i \in Nat, NEW j \in Nat, i # j, NEW base \in Nat
  PROVE  (base + i * n .. base + i * n + n - 1) \cap (base + j * n .. base + j * n + n - 1) = {}
<1>1. ASSUME NEW k \in Nat, NEW l \in Nat, k < l PROVE k * n + n <= l * n
  <2>1. (k + 1) * n <= l * n
    BY <1>1, Product
  <2>2. (k + 1) * n = k * n + n
    OBVIOUS
  <2> QED
    BY <2>1, <2>2
<1>2. PICK a \in Nat, c \in Nat : a = i * n /\ c = j * n
  OBVIOUS
<1>3. a + n <= c \/ c + n <= a
  <2>1. i < j \/ j < i
    OBVIOUS
  <2> QED
    BY <1>1, <1>2, <2>1
<1>4. (base + a .. base + a + n - 1) \cap (base + c .. base + c + n - 1) = {}
  BY <1>3
<1> QED
  BY <1>2, <1>4

(* The buffers of two threads are allocated apart.                          *)
LEMMA RoomsApart ==
  ASSUME target \in Target, NEW t \in Threads, NEW u \in Threads, t # u
  PROVE  RoomOf(t) \cap RoomOf(u) = {}
<1>1. PICK n \in Nat : n = Room(target, Overlap)
  BY Sizes
<1>2. (1 + t * n .. 1 + t * n + n - 1) \cap (1 + u * n .. 1 + u * n + n - 1) = {}
  BY SlicesApart DEF Threads
<1>3. \A v \in Threads : (v + 1) * n = 1 + v * n + n - 1
  BY DEF Threads
<1> QED
  BY <1>1, <1>2, <1>3 DEF RoomOf

-----------------------------------------------------------------------------
(***************************************************************************)
(* Steps.                                                                  *)
(***************************************************************************)

(* Initially nothing is allocated, constructed or in flight.                *)
LEMMA InitIInv == Init => IInv
<1> SUFFICES ASSUME Init PROVE IInv
  OBVIOUS
<1>1. target \in Configs /\ Accepted(target)
  BY DEF Init
<1>2. /\ target.base_offset \in 0 .. OffHalf - 1 /\ OffHalf \in Nat \ {0}
      /\ target.base_offset + target.block_size <= target.max_size
      /\ Overlap \in Nat \ {0}
  BY <1>1, AcceptedFits, OffsetsAssumption DEF OffsetsAssumption
<1>3. TypeOK
  <2>1. NoBuffers \in TargetBuffers
    BY DEF NoBuffers, TargetBuffers
  <2>2. buffers \in [Threads -> TargetBuffers]
    BY <2>1 DEF Init
  <2> QED
    BY <1>1, <1>2, <2>2 DEF Init, TypeOK, Offsets, Type
<1>4. \A t \in Threads : filled[t] = -1 /\ ~Filling(t) /\ InFlight(t) = {}
  BY DEF Init, Filling, InFlight, Slots
<1>5. OffsetsInv
  BY <1>2, <1>4 DEF Init, OffsetsInv, ThreadInside, Inside
<1>6. MemoryInv
  BY <1>4 DEF MemoryInv, ThreadMemory
<1> QED
  BY <1>1, <1>3, <1>5, <1>6 DEF IInv

(* An operation gets a type and the address for it.                         *)
LEMMA TypeSet ==
  ASSUME TypeOK, MemoryInv, NEW t \in Threads, NEW i \in Slots, filled[t] >= 0, SetType(t, i)
  PROVE  /\ type' \in [Threads -> [Slots -> Type]] /\ buf' \in [Threads -> [Slots -> Nat]]
         /\ buf'[t][i] = BufOf(target, buffers[t], i, type'[t][i])
         /\ \A j \in Slots \ {i} : type'[t][j] = type[t][j] /\ buf'[t][j] = buf[t][j]
         /\ \A u \in Threads \ {t} : type'[u] = type[u] /\ buf'[u] = buf[u]
<1>1. PICK kind \in TypesDrawn(target) :
        /\ type' = [type EXCEPT ![t][i] = kind]
        /\ buf' = [buf EXCEPT ![t][i] = BufOf(target, buffers[t], i, kind)]
  BY DEF SetType
<1>2. kind \in Type
  BY DEF TypesDrawn, Type
<1>3. BufOf(target, buffers[t], i, kind) \in Nat
  <2>1. PICK r \in 0 .. Alignment(target) - 1 : buffers[t] = ThreadBuffers(t, r)
    BY DEF MemoryInv, ThreadMemory
  <2>2. target \in Target
    BY OffsetsAssumption DEF OffsetsAssumption, TypeOK
  <2> QED
    BY <1>2, <2>1, <2>2, SliceInside
<1> HIDE DEF Type
<1> QED
  BY <1>1, <1>2, <1>3 DEF TypeOK

(* What a step relies on does not change.                                   *)
LEMMA KeptFrame ==
  ASSUME target' = target
  PROVE  /\ (BlocksCounted' <=> BlocksCounted) /\ (Accepted(target)' <=> Accepted(target))
         /\ \A u \in Threads : Kept(u)' <=> Kept(u)
BY DEF Kept, BlocksCounted, StartsInside

(* The shared offset: what a step takes from it is inside the target.  With *)
(* -si there is no distance between threads: all start where the first one  *)
(* does.                                                                    *)
LEMMA SharedInside ==
  ASSUME target \in Configs, NEW t \in Threads,
         BlocksCounted => Inside(interlocked_offset), interlocked_offset \in Offsets,
         NEW new \in Offsets, Kept(t) => Inside(new), Take(new), target' = target
  PROVE  (BlocksCounted => Inside(interlocked_offset))' /\ interlocked_offset' \in Offsets
<1>1. BlocksCounted' <=> BlocksCounted
  BY KeptFrame
<1>2. interlocked_offset' \in {new, interlocked_offset}
  BY DEF Take
<1>3. ASSUME BlocksCounted, interlocked_offset' # interlocked_offset PROVE Inside(new)
  <2>1. target.mode = "interlocked"
    BY <1>3 DEF Take
  <2>2. target.thread_offset = 0
    BY <2>1, OffsetsAssumption DEF OffsetsAssumption
  <2>3. 0 * (NumThreads - 1) = 0 /\ 0 < OffHalf
    BY OffsetsAssumption, WidthAssumption DEF OffsetsAssumption, WidthAssumption
  <2>4. Kept(t)
    BY <1>3, <2>2, <2>3 DEF Kept, StartsInside, PlacesFit
  <2> QED
    BY <2>4
<1>4. ASSUME BlocksCounted PROVE Inside(interlocked_offset)'
  <2>1. Inside(interlocked_offset)
    BY <1>4
  <2> QED
    BY <1>2, <1>3, <1>4, <2>1 DEF Inside
<1> QED
  BY <1>1, <1>2, <1>4

(* What a step leaves alone keeps what is said of it.                       *)
LEMMA ThreadFrame ==
  ASSUME NEW u \in Threads, target' = target, filled'[u] = filled[u], buffers'[u] = buffers[u],
         offset'[u] = offset[u], curr_offset'[u] = curr_offset[u], type'[u] = type[u],
         buf'[u] = buf[u]
  PROVE  (ThreadInside(u) => ThreadInside(u)') /\ (ThreadMemory(u) => ThreadMemory(u)')
<1>1. InFlight(u)' = InFlight(u) /\ (Filling(u)' <=> Filling(u))
  BY DEF InFlight, Filling
<1>2. \A o : Inside(o)' <=> Inside(o)
  BY DEF Inside
<1>3. \A r : ThreadBuffers(u, r)' = ThreadBuffers(u, r)
  BY DEF ThreadBuffers
<1> QED
  BY <1>1, <1>2, <1>3 DEF ThreadInside, ThreadMemory

(* What a thread allocates is a pair of buffers.                            *)
LEMMA BuffersType ==
  ASSUME target \in Target, NEW t \in Threads, NEW r \in 0 .. Alignment(target) - 1
  PROVE  ThreadBuffers(t, r) \in TargetBuffers
<1>1. PICK align \in Nat \ {0} : align = Alignment(target)
  BY Sizes
<1>2. PICK size \in Nat : size = BufferSize(target, Overlap)
  BY Sizes
<1>3. PICK first \in Nat : first = 1 + t * Room(target, Overlap) + r
  <2>1. t * Room(target, Overlap) \in Nat
    BY Sizes DEF Threads
  <2> QED
    BY <1>1, <2>1
<1>4. PICK second \in Nat : second = first + size + align - 1
  BY <1>1
<1>5. AlignUp(first, align) \in Nat /\ AlignUp(second, align) \in Nat
  <2>1. \A address \in Nat : AlignUp(address, align) \in address .. address + align - 1
    BY Aligned
  <2> QED
    BY <2>1
<1>6. /\ first .. first + size + align - 2 \subseteq Nat
      /\ second .. second + target.block_size + align - 2 \subseteq Nat
  OBVIOUS
<1> QED
  BY <1>1, <1>2, <1>3, <1>4, <1>5, <1>6
  DEF ThreadBuffers, Buffers, Allocated, WriteBufferSize, TargetBuffers

(* A thread begins: it has memory and a place to start.                     *)
LEMMA BeginStep ==
  ASSUME IInv, NEW t \in Threads, Begin(t)
  PROVE  IInv'
<1>0. TypeOK /\ Accepted(target) /\ MemoryInv /\ target \in Target
  BY OffsetsAssumption DEF OffsetsAssumption, IInv, TypeOK
<1>1. PICK new \in StartOffsets(t) : curr_offset' = [curr_offset EXCEPT ![t] = new] /\ Take(new)
  BY DEF Begin
<1>2. PICK r \in 0 .. Alignment(target) - 1 : buffers' = [buffers EXCEPT ![t] = ThreadBuffers(t, r)]
  BY DEF Begin, ThreadBuffers
<1>3. /\ target' = target /\ offset' = offset /\ type' = type /\ buf' = buf
      /\ filled' = [filled EXCEPT ![t] = 0] /\ filled[t] = -1
  BY DEF Begin, ioVars
<1>4. new \in Offsets
  <2>1. 0 \in Offsets
    BY WidthAssumption DEF WidthAssumption, Offsets
  <2> QED
    BY <1>0, <2>1, NextType
<1>5. /\ curr_offset'[t] = new /\ filled'[t] = 0 /\ buffers'[t] = ThreadBuffers(t, r)
      /\ \A u \in Threads \ {t} : curr_offset'[u] = curr_offset[u] /\ filled'[u] = filled[u]
      /\ \A u \in Threads \ {t} : buffers'[u] = buffers[u]
  BY <1>0, <1>1, <1>2, <1>3 DEF TypeOK
<1>6. Kept(t) => Inside(new)
  BY <1>0, StartInside DEF IInv, OffsetsInv, TypeOK, Kept
<1>7. (BlocksCounted => Inside(interlocked_offset))' /\ interlocked_offset' \in Offsets
  BY <1>0, <1>1, <1>3, <1>4, <1>6, SharedInside DEF IInv, OffsetsInv, TypeOK
<1>8. TypeOK'
  <2>1. ThreadBuffers(t, r) \in TargetBuffers
    BY <1>0, BuffersType
  <2>2. curr_offset' \in [Threads -> Offsets]
    BY <1>0, <1>1, <1>4 DEF TypeOK
  <2>3. buffers' \in [Threads -> TargetBuffers]
    BY <1>0, <1>2, <2>1 DEF TypeOK
  <2>4. filled' \in [Threads -> -1 .. Overlap]
    BY <1>0, <1>3, Sizes DEF TypeOK
  <2> QED
    BY <1>0, <1>3, <1>7, <2>2, <2>3, <2>4 DEF TypeOK, Offsets
<1>9. InFlight(t)' = {}
  BY <1>5 DEF InFlight, Slots
<1>10. ASSUME NEW u \in Threads, Kept(u) PROVE ThreadInside(u)'
  <2>1. CASE u = t
    <3>1. Inside(new)'
      BY <1>3, <1>6, <1>10, <2>1 DEF Inside
    <3> QED
      BY <1>5, <1>9, <2>1, <3>1 DEF ThreadInside
  <2>2. CASE u # t
    BY <1>3, <1>5, <1>10, <2>2, ThreadFrame DEF IInv, OffsetsInv
  <2> QED
    BY <2>1, <2>2
<1>11. ASSUME NEW u \in Threads PROVE ThreadMemory(u)'
  <2>1. CASE u = t
    <3>1. Alignment(target)' = Alignment(target) /\ ThreadBuffers(t, r)' = ThreadBuffers(t, r)
      BY <1>3 DEF ThreadBuffers
    <3> QED
      BY <1>5, <1>9, <2>1, <3>1 DEF ThreadMemory
  <2>2. CASE u # t
    BY <1>0, <1>3, <1>5, <2>2, ThreadFrame DEF MemoryInv
  <2> QED
    BY <2>1, <2>2
<1>12. Accepted(target)' /\ \A u \in Threads : Kept(u)' <=> Kept(u)
  BY <1>0, <1>3, KeptFrame
<1> QED
  BY <1>7, <1>8, <1>10, <1>11, <1>12 DEF IInv, OffsetsInv, MemoryInv

(* An operation gets a new offset, inside the target, a type and an         *)
(* address: when it is constructed and when it comes back.                  *)
LEMMA OperationStep ==
  ASSUME IInv, NEW t \in Threads, NEW i \in Slots, filled[t] >= 0, SetType(t, i),
         NEW to \in Offsets, Kept(t) => Inside(to), offset' = [offset EXCEPT ![t][i] = to],
         NEW new \in Offsets, Kept(t) => Inside(new), Take(new),
         NEW next \in Offsets, Kept(t) /\ Filling(t)' => Inside(next),
         curr_offset' = [curr_offset EXCEPT ![t] = next],
         NEW n \in 0 .. Overlap, filled' = [filled EXCEPT ![t] = n],
         \A j \in Slots : j <= n => j = i \/ j <= filled[t],
         target' = target, buffers' = buffers
  PROVE  IInv'
<1>0. TypeOK /\ Accepted(target) /\ MemoryInv
  BY DEF IInv
<1>1. /\ type' \in [Threads -> [Slots -> Type]] /\ buf' \in [Threads -> [Slots -> Nat]]
      /\ buf'[t][i] = BufOf(target, buffers[t], i, type'[t][i])
      /\ \A j \in Slots \ {i} : type'[t][j] = type[t][j] /\ buf'[t][j] = buf[t][j]
      /\ \A u \in Threads \ {t} : type'[u] = type[u] /\ buf'[u] = buf[u]
  BY <1>0, TypeSet
<1>2. /\ offset'[t][i] = to /\ \A j \in Slots \ {i} : offset'[t][j] = offset[t][j]
      /\ \A u \in Threads \ {t} : offset'[u] = offset[u]
      /\ offset' \in [Threads -> [Slots -> Offsets]]
  BY <1>0 DEF TypeOK
<1>3. /\ curr_offset'[t] = next /\ \A u \in Threads \ {t} : curr_offset'[u] = curr_offset[u]
      /\ curr_offset' \in [Threads -> Offsets]
  BY <1>0 DEF TypeOK
<1>4. /\ filled'[t] = n /\ \A u \in Threads \ {t} : filled'[u] = filled[u]
      /\ filled' \in [Threads -> -1 .. Overlap]
  BY <1>0, OffsetsAssumption DEF TypeOK, OffsetsAssumption
<1>5. (BlocksCounted => Inside(interlocked_offset))' /\ interlocked_offset' \in Offsets
  BY <1>0, SharedInside DEF IInv, OffsetsInv, TypeOK
<1>6. TypeOK'
  BY <1>0, <1>1, <1>2, <1>3, <1>4, <1>5 DEF TypeOK, Offsets
<1>7. \A j \in InFlight(t)' : j \in Slots /\ (j = i \/ j \in InFlight(t))
  BY <1>4 DEF InFlight, Slots
<1>8. ASSUME NEW u \in Threads, Kept(u) PROVE ThreadInside(u)'
  <2>1. CASE u = t
    <3>1. \A o : Inside(o)' <=> Inside(o)
      BY DEF Inside
    <3>2. \A j \in InFlight(t) : Inside(offset[t][j])
      BY <1>8, <2>1 DEF IInv, OffsetsInv, ThreadInside
    <3>3. \A j \in InFlight(t)' : Inside(offset'[t][j])
      BY <1>2, <1>7, <1>8, <2>1, <3>2
    <3> QED
      BY <1>3, <1>8, <2>1, <3>1, <3>3 DEF ThreadInside
  <2>2. CASE u # t
    BY <1>1, <1>2, <1>3, <1>4, <1>8, <2>2, ThreadFrame DEF IInv, OffsetsInv
  <2> QED
    BY <2>1, <2>2
<1>9. ASSUME NEW u \in Threads PROVE ThreadMemory(u)'
  <2>1. CASE u = t
    <3>1. PICK r \in 0 .. Alignment(target) - 1 : buffers[t] = ThreadBuffers(t, r)
      BY <1>0 DEF MemoryInv, ThreadMemory
    <3>2. Alignment(target)' = Alignment(target) /\ ThreadBuffers(t, r)' = ThreadBuffers(t, r)
      BY DEF ThreadBuffers
    <3>3. \A j \in InFlight(t) : buf[t][j] = BufOf(target, buffers[t], j, type[t][j])
      BY <1>0 DEF MemoryInv, ThreadMemory
    <3>4. \A j \in InFlight(t)' : buf'[t][j] = BufOf(target, buffers[t], j, type'[t][j])
      BY <1>1, <1>7, <3>3
    <3> QED
      BY <2>1, <3>1, <3>2, <3>4 DEF ThreadMemory
  <2>2. CASE u # t
    BY <1>0, <1>1, <1>2, <1>3, <1>4, <2>2, ThreadFrame DEF MemoryInv
  <2> QED
    BY <2>1, <2>2
<1>10. Accepted(target)' /\ \A u \in Threads : Kept(u)' <=> Kept(u)
  BY <1>0, KeptFrame
<1> QED
  BY <1>5, <1>6, <1>8, <1>9, <1>10 DEF IInv, OffsetsInv, MemoryInv

(* The first batch.                                                         *)
LEMMA ConstructStep ==
  ASSUME IInv, NEW t \in Threads, Construct(t)
  PROVE  IInv'
<1>0. TypeOK /\ Accepted(target)
  BY DEF IInv
<1>1. PICK new \in NextOffsets(t, curr_offset[t]) :
        /\ curr_offset' = [curr_offset EXCEPT ![t] = IF filled'[t] = Overlap THEN 0 ELSE new]
        /\ Take(new)
  BY DEF Construct
<1>2. /\ filled[t] \in 0 .. Overlap - 1 /\ Overlap \in Nat \ {0}
      /\ filled' = [filled EXCEPT ![t] = filled[t] + 1] /\ filled'[t] = filled[t] + 1
  BY <1>0, OffsetsAssumption DEF Construct, Filling, TypeOK, OffsetsAssumption
<1>3. /\ filled[t] + 1 \in Slots /\ filled[t] + 1 \in 0 .. Overlap
      /\ \A j \in Slots : j <= filled[t] + 1 => j = filled[t] + 1 \/ j <= filled[t]
  BY <1>2 DEF Slots
<1>4. curr_offset[t] \in Offsets /\ new \in Offsets /\ 0 \in Offsets
  <2>1. curr_offset[t] \in Offsets /\ 0 \in Offsets
    BY <1>0, WidthAssumption DEF WidthAssumption, TypeOK, Offsets
  <2> QED
    BY <1>0, <2>1, NextType
<1>5. ASSUME Kept(t) PROVE Inside(curr_offset[t]) /\ Inside(new)
  <2>1. Inside(curr_offset[t]) /\ Inside(interlocked_offset)
    BY <1>2, <1>5 DEF IInv, OffsetsInv, ThreadInside, Filling, Kept
  <2> QED
    BY <1>0, <1>5, <2>1, NextInside DEF TypeOK
<1>6. PICK next \in Offsets : next = IF filled'[t] = Overlap THEN 0 ELSE new
  BY <1>4
<1>7. Kept(t) /\ Filling(t)' => Inside(next)
  BY <1>2, <1>5, <1>6 DEF Filling
<1>8. PICK i \in Slots : i = filled[t] + 1
  BY <1>3
<1>9. /\ filled[t] >= 0 /\ SetType(t, i) /\ offset' = [offset EXCEPT ![t][i] = curr_offset[t]]
      /\ target' = target /\ buffers' = buffers
      /\ curr_offset' = [curr_offset EXCEPT ![t] = next]
      /\ i \in 0 .. Overlap /\ filled' = [filled EXCEPT ![t] = i]
      /\ \A j \in Slots : j <= i => j = i \/ j <= filled[t]
  <2>1. filled[t] >= 0 /\ target' = target /\ buffers' = buffers
    BY <1>2 DEF Construct
  <2>2. SetType(t, i) /\ offset' = [offset EXCEPT ![t][i] = curr_offset[t]]
    BY <1>8 DEF Construct
  <2>3. curr_offset' = [curr_offset EXCEPT ![t] = next]
    BY <1>1, <1>6, Zenon
  <2>4. i \in 0 .. Overlap /\ filled' = [filled EXCEPT ![t] = i]
    BY <1>2, <1>3, <1>8
  <2>5. \A j \in Slots : j <= i => j = i \/ j <= filled[t]
    BY <1>3, <1>8
  <2> QED
    BY <2>1, <2>2, <2>3, <2>4, <2>5
<1> QED
  BY <1>1, <1>4, <1>5, <1>7, <1>9, OperationStep

(* Every operation after that.                                              *)
LEMMA RequeueStep ==
  ASSUME IInv, NEW t \in Threads, NEW i \in Slots, Requeue(t, i)
  PROVE  IInv'
<1>0. TypeOK /\ Accepted(target)
  BY DEF IInv
<1>1. PICK new \in NextOffsets(t, offset[t][i]) :
        offset' = [offset EXCEPT ![t][i] = new] /\ Take(new)
  BY DEF Requeue
<1>2. /\ filled[t] = Overlap /\ Overlap \in Nat \ {0} /\ Overlap \in 0 .. Overlap
      /\ filled' = filled /\ curr_offset' = curr_offset /\ target' = target /\ buffers' = buffers
      /\ SetType(t, i)
  BY OffsetsAssumption DEF Requeue, OffsetsAssumption
<1>3. /\ filled' = [filled EXCEPT ![t] = Overlap]
      /\ curr_offset' = [curr_offset EXCEPT ![t] = curr_offset[t]]
      /\ curr_offset[t] \in Offsets /\ offset[t][i] \in Offsets
  BY <1>0, <1>2 DEF TypeOK
<1>4. new \in Offsets /\ \A j \in Slots : j <= Overlap => j = i \/ j <= filled[t]
  BY <1>0, <1>2, <1>3, NextType
<1>5. ASSUME Kept(t) PROVE Inside(new)
  <2>1. Inside(offset[t][i]) /\ Inside(interlocked_offset)
    BY <1>2, <1>5 DEF IInv, OffsetsInv, ThreadInside, InFlight, Slots, Kept
  <2> QED
    BY <1>0, <1>5, <2>1, NextInside DEF TypeOK
<1>6. ~Filling(t)' /\ filled[t] >= 0
  BY <1>2 DEF Filling
<1> QED
  BY <1>1, <1>2, <1>3, <1>4, <1>5, <1>6, OperationStep

(* The invariant is inductive.                                              *)
LEMMA Invariance == SafetySpec => []IInv
<1>1. IInv /\ [Next]_vars => IInv'
  <2> SUFFICES ASSUME IInv, [Next]_vars PROVE IInv'
    OBVIOUS
  <2>1. CASE UNCHANGED vars
    BY <2>1 DEF vars, ioVars, IInv, TypeOK, OffsetsInv, MemoryInv, ThreadInside, ThreadMemory,
       Kept, BlocksCounted, StartsInside, Inside, InFlight, Filling, ThreadBuffers
  <2> QED
    BY <2>1, BeginStep, ConstructStep, RequeueStep DEF Next
<1> QED
  BY <1>1, InitIInv, PTL DEF SafetySpec

-----------------------------------------------------------------------------
(***************************************************************************)
(* What TargetOffsets promises.                                            *)
(***************************************************************************)

(* Offsets stay off_t, whatever overflows, and operations and buffers what  *)
(* they are.                                                                *)
THEOREM TypeCorrect == SafetySpec => []TypeOK
<1>1. IInv => TypeOK
  BY DEF IInv
<1> QED
  BY <1>1, Invariance, PTL

(* The checks of profile.cc and job.cc keep the operations of a thread in   *)
(* [base_offset, max_size), in every mode: of any thread that starts inside *)
(* although the distance of the last one overflows, and of every thread if  *)
(* it does not; provided the blocks of a random target are not more than    *)
(* an int can count.                                                        *)
THEOREM StaysInBounds == SafetySpec => [](BlocksCounted => InBounds)
<1>1. IInv => (BlocksCounted => InBounds)
  BY DEF IInv, OffsetsInv, ThreadInside, Inside, InBounds, Kept, StartsInside
<1> QED
  BY <1>1, Invariance, PTL

(* An operation's buffer is where SliceInside says.                         *)
LEMMA BufIsSlice ==
  ASSUME IInv, NEW t \in Threads
  PROVE  InFlight(t) # {} =>
           \E r \in 0 .. Alignment(target) - 1 :
             /\ buffers[t] = ThreadBuffers(t, r)
             /\ \A i \in InFlight(t) : /\ i \in Slots /\ type[t][i] \in Type
                                       /\ buf[t][i] = BufOf(target, ThreadBuffers(t, r), i, type[t][i])
<1> SUFFICES ASSUME InFlight(t) # {}
             PROVE  \E r \in 0 .. Alignment(target) - 1 :
                      /\ buffers[t] = ThreadBuffers(t, r)
                      /\ \A i \in InFlight(t) :
                           /\ i \in Slots /\ type[t][i] \in Type
                           /\ buf[t][i] = BufOf(target, ThreadBuffers(t, r), i, type[t][i])
  OBVIOUS
<1>1. filled[t] >= 0
  BY DEF InFlight, Slots, IInv, TypeOK
<1>2. PICK r \in 0 .. Alignment(target) - 1 : buffers[t] = ThreadBuffers(t, r)
  BY <1>1 DEF IInv, MemoryInv, ThreadMemory
<1>3. \A i \in InFlight(t) : i \in Slots /\ type[t][i] \in Type
  BY DEF InFlight, IInv, TypeOK
<1>4. \A i \in InFlight(t) : buf[t][i] = BufOf(target, ThreadBuffers(t, r), i, type[t][i])
  BY <1>2 DEF IInv, MemoryInv, ThreadMemory
<1> QED
  BY <1>2, <1>3, <1>4

(* With O_DIRECT every operation transfers whole sectors, in memory and on  *)
(* the target, if the base offset is on one and the two numbers fit.        *)
THEOREM WholeSectors ==
  SafetySpec => [](BlocksCounted /\ PlacesFit(target, NumThreads) => SectorAligned)
<1>1. IInv => (BlocksCounted /\ PlacesFit(target, NumThreads) => SectorAligned)
  <2> SUFFICES ASSUME IInv, BlocksCounted, PlacesFit(target, NumThreads), target.direct,
                      NEW t \in Threads, NEW i \in InFlight(t)
               PROVE  /\ buf[t][i] % target.sector_size = 0
                      /\ target.base_offset % target.sector_size = 0 =>
                           offset[t][i] % target.sector_size = 0
    BY DEF SectorAligned
  <2>1. target \in Target
    BY OffsetsAssumption DEF OffsetsAssumption, IInv, TypeOK
  <2>2. target.block_size % target.sector_size = 0
    BY DEF IInv, Accepted, DirectAligned
  <2>3. PICK r \in 0 .. Alignment(target) - 1 :
          /\ i \in Slots /\ type[t][i] \in Type
          /\ buf[t][i] = BufOf(target, ThreadBuffers(t, r), i, type[t][i])
    BY BufIsSlice
  <2>4. buf[t][i] % target.sector_size = 0
    BY <2>1, <2>2, <2>3, SliceInside
  <2>5. Inside(offset[t][i])
    BY DEF IInv, OffsetsInv, ThreadInside, Kept, StartsInside
  <2> QED
    BY <2>4, <2>5 DEF Inside
<1> QED
  BY <1>1, Invariance, PTL

(* Operations stay in the memory of their thread, and no two of them use    *)
(* the same bytes, except for writes from the separate buffer.              *)
THEOREM MemoryKeptApart == SafetySpec => []BuffersApart
<1> DEFINE FromSeparate(t, i) == target.separate_buffers /\ type[t][i] = "write"
<1>1. ASSUME IInv, NEW t \in Threads, NEW i \in InFlight(t)
      PROVE  Bytes(t, i) \subseteq
               IF FromSeparate(t, i) THEN buffers[t].write_memory ELSE buffers[t].memory
  <2>1. target \in Target
    BY <1>1, OffsetsAssumption DEF OffsetsAssumption, IInv, TypeOK
  <2>2. PICK r \in 0 .. Alignment(target) - 1 :
          /\ buffers[t] = ThreadBuffers(t, r) /\ i \in Slots /\ type[t][i] \in Type
          /\ buf[t][i] = BufOf(target, ThreadBuffers(t, r), i, type[t][i])
    BY <1>1, BufIsSlice
  <2> QED
    BY <2>1, <2>2, SliceInside DEF Bytes
<1>2. ASSUME IInv, NEW t \in Threads, NEW i \in InFlight(t), NEW u \in Threads,
             NEW j \in InFlight(u), <<t, i>> # <<u, j>>,
             ~(FromSeparate(t, i) /\ FromSeparate(u, j))
      PROVE  Bytes(t, i) \cap Bytes(u, j) = {}
  <2>1. target \in Target
    BY <1>2, OffsetsAssumption DEF OffsetsAssumption, IInv, TypeOK
  <2>2. PICK r \in 0 .. Alignment(target) - 1 :
          /\ buffers[t] = ThreadBuffers(t, r)
          /\ \A k \in InFlight(t) : /\ k \in Slots /\ type[t][k] \in Type
                                    /\ buf[t][k] = BufOf(target, ThreadBuffers(t, r), k, type[t][k])
    BY <1>2, BufIsSlice
  <2>3. /\ Bytes(t, i) \subseteq buffers[t].memory \/ Bytes(t, i) \subseteq buffers[t].write_memory
        /\ Bytes(u, j) \subseteq buffers[u].memory \/ Bytes(u, j) \subseteq buffers[u].write_memory
    BY <1>1, <1>2
  <2>4. CASE t # u
    <3>1. PICK q \in 0 .. Alignment(target) - 1 : buffers[u] = ThreadBuffers(u, q)
      BY <1>2, BufIsSlice
    <3>2. Bytes(t, i) \subseteq RoomOf(t)
      BY <2>1, <2>2, <2>3, MemoryApart
    <3>3. Bytes(u, j) \subseteq RoomOf(u)
      BY <2>1, <2>3, <3>1, MemoryApart
    <3> QED
      BY <2>1, <2>4, <3>2, <3>3, RoomsApart
  <2>5. CASE t = u /\ ~FromSeparate(t, i) /\ ~FromSeparate(u, j)
    <3>1. /\ i # j /\ i \in Nat /\ j \in Nat /\ i >= 1 /\ j >= 1
          /\ i \in Slots /\ j \in Slots
      BY <1>2, <2>2, <2>5 DEF Slots
    <3>2. /\ buffers[t].buffer \in Nat
          /\ buf[t][i] = buffers[t].buffer + (i - 1) * target.block_size
      BY <1>2, <2>1, <2>2, <2>5, SliceInside
    <3>3. buf[t][j] = buffers[t].buffer + (j - 1) * target.block_size
      BY <1>2, <2>1, <2>2, <2>5, SliceInside
    <3>4. i - 1 \in Nat /\ j - 1 \in Nat /\ i - 1 # j - 1 /\ target.block_size \in Nat
      BY <2>1, <3>1, Sizes
    <3> QED
      BY <2>5, <3>2, <3>3, <3>4, SlicesApart DEF Bytes
  <2>6. CASE t = u /\ FromSeparate(t, i) /\ ~FromSeparate(u, j)
    BY <1>1, <1>2, <2>1, <2>2, <2>6, MemoryApart
  <2>7. CASE t = u /\ ~FromSeparate(t, i) /\ FromSeparate(u, j)
    BY <1>1, <1>2, <2>1, <2>2, <2>7, MemoryApart
  <2> QED
    BY <1>2, <2>4, <2>5, <2>6, <2>7
<1>3. IInv => BuffersApart
  BY <1>1, <1>2 DEF BuffersApart
<1> QED
  BY <1>3, Invariance, PTL

=============================================================================

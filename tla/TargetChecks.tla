---------------------------- MODULE TargetChecks -----------------------------
(***************************************************************************)
(* The checks a target passes before threads work on it (profile.cc and    *)
(* job.cc), and the width of the integers they are computed with: offsets  *)
(* are off_t, block_size is a size_t, numbers of threads are unsigned int. *)
(* TargetOffsets asks what they promise about the offsets of I/O, Startup  *)
(* performs them in the order of the program.  Where the threads start is  *)
(* here, too, for both to say of it what the checks are for.               *)
(***************************************************************************)

EXTENDS Integers

CONSTANTS
  OffHalf,   \* off_t holds -OffHalf .. OffHalf - 1  (2^63 in the code)
  UIntMod    \* unsigned int holds 0 .. UIntMod - 1  (2^32 in the code)

ASSUME WidthAssumption ==
  /\ OffHalf \in Nat \ {0}
  /\ UIntMod \in Nat \ {0}

(* Conversion to a signed type, to off_t and to size_t.                     *)
Signed(x, half) == ((x + half) % (2 * half)) - half
Off(x)      == Signed(x, OffHalf)
Unsigned(x) == x % (2 * OffHalf)

(* Mutant: the distance between threads is not checked.                     *)
DirectAligned_NoThreadOffset(c) ==
  c.direct => /\ c.block_size % c.sector_size = 0
              /\ c.stride % c.sector_size = 0

(* O_DIRECT needs sectors (job.cc).  The base offset is not looked at.      *)
DirectAligned(c) ==
  c.direct => /\ c.block_size % c.sector_size = 0
              /\ c.stride % c.sector_size = 0
              /\ c.thread_offset % c.sector_size = 0

(* A block fits behind the base offset (profile.cc).                        *)
BlockFits(c) ==
  /\ ~(Unsigned(c.max_size - c.base_offset) < c.block_size)
  /\ ~(c.max_size <= c.base_offset)

(* Mutant: one thread too few is counted.                                   *)
ThreadsFit_OneLess(c, n) ==
  ~(Off(c.max_size - c.base_offset - c.block_size) <
      Off(c.thread_offset * (IF n > 1 THEN n - 2 ELSE 0)))

(* ... and behind the start of the last of the n threads (job.cc).  n is    *)
(* unsigned: of no threads, n - 1 is the largest of them.                   *)
ThreadsFit(c, n) ==
  ~(Off(c.max_size - c.base_offset - c.block_size) <
      Off(c.thread_offset * ((n - 1) % UIntMod)))

(* The distance from the first of the n threads to the last is computed     *)
(* without overflow.  Nothing makes sure of that.                           *)
PlacesFit(c, n) == c.thread_offset * (n - 1) < OffHalf

(* Where thread number k of a target starts (get_thread_base_offset).       *)
ThreadPlace(c, k) == Off(c.base_offset + Off(k * c.thread_offset))

(* The block it begins with is inside the target.                           *)
PlaceInside(c, k) ==
  /\ c.base_offset <= ThreadPlace(c, k)
  /\ ThreadPlace(c, k) + c.block_size <= c.max_size
=============================================================================

------------------------------- MODULE Buffers -------------------------------
(***************************************************************************)
(* Where the data of I/O is in memory: the TargetBuffers (target.h) a      *)
(* thread allocates for a target c, the slice of them thread_func gives    *)
(* each operation, and the one an operation of a type transfers.           *)
(* Addresses are numbers; what the buffers hold is never looked at.        *)
(***************************************************************************)

EXTENDS Naturals

Type == {"read", "write"}

(* The addresses new_buffer returns, and the memory it got for them.        *)
TargetBuffers ==
  [buffer : Nat, memory : SUBSET Nat, write_buffer : Nat, write_memory : SUBSET Nat]

(* O_DIRECT needs sectors in memory, too.                                   *)
Alignment(c) == IF c.direct THEN c.sector_size ELSE 1

(* new_buffer: calloc gives size + align - 1 bytes at some address, and the *)
(* buffer begins at the first multiple of align among them.                 *)
Allocated(address, size, align) == address .. address + size + align - 2
AlignUp(address, align)         == ((address + align - 1) \div align) * align

(* A block in memory for each slot, and with -Zs one for all writes.        *)
BufferSize(c, overlap) == overlap * c.block_size
WriteBufferSize(c)     == c.block_size

(* What both buffers of a thread occupy at most, with any address modulo    *)
(* the alignment for the second.                                            *)
Room(c, overlap) == BufferSize(c, overlap) + WriteBufferSize(c) + 4 * Alignment(c)

(* A thread's buffers when calloc returns the first address it can after    *)
(* from whose remainder is r.                                               *)
Buffers(c, overlap, from, r) ==
  LET align  == Alignment(c)
      first  == from + r
      second == first + BufferSize(c, overlap) + align - 1
  IN  [buffer |-> AlignUp(first, align),
       memory |-> Allocated(first, BufferSize(c, overlap), align),
       write_buffer |-> IF c.separate_buffers THEN AlignUp(second, align) ELSE 0,
       write_memory |-> IF c.separate_buffers
                        THEN Allocated(second, WriteBufferSize(c), align) ELSE {}]

(* The read_buf and write_buf of the operation in slot i, from 1.           *)
ReadBuf(c, b, i)  == b.buffer + (i - 1) * c.block_size
WriteBuf(c, b, i) == IF c.separate_buffers THEN b.write_buffer ELSE ReadBuf(c, b, i)

(* The constructor and set_type of an operation point it to one of them.    *)
BufOf(c, b, i, type) == IF type = "read" THEN ReadBuf(c, b, i) ELSE WriteBuf(c, b, i)

(* rw_rng_engine draws a percentage from 1 to 100; the ends of that range   *)
(* show what any of them may decide.                                        *)
TypesDrawn(c) == {IF p <= c.write_percentage THEN "write" ELSE "read" : p \in {1, 100}}
=============================================================================

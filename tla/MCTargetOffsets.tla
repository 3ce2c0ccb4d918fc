--------------------------- MODULE MCTargetOffsets ---------------------------
(* Instances of TargetOffsets for TLC: small targets of every mode, with    *)
(* sectors of two bytes.                                                    *)
EXTENDS TargetOffsets

(* Bases, blocks, strides and thread distances, some of which the checks    *)
(* refuse, and strides that do not divide the target.  Of three threads at  *)
(* a distance of 16 or 31 the last one's place overflows an off_t of six    *)
(* bits: 32 becomes -32, 62 becomes -2, and the check accepts them; at a    *)
(* distance of 16 the second thread is still inside, at 31 it is not.       *)
(* Reads and writes are mixed where the offsets take few values.            *)
MCConfigs ==
  {c \in [base_offset : {1, 2}, max_size : {5, 6, 7, 20}, block_size : {1, 2},
          stride : {0, 2, 3, 6}, thread_offset : {0, 1, 2, 16, 31}, mode : Mode,
          direct : BOOLEAN, sector_size : {2}, write_percentage : {0, 50, 100},
          separate_buffers : BOOLEAN] :
     /\ CASE c.mode # "sequential" ->
                 /\ c.thread_offset = 0 /\ c.stride \in {2, 3}
                 /\ c.max_size = IF c.direct THEN 6 ELSE 5
          [] c.thread_offset \in {16, 31} ->
                 c.max_size = 20 /\ c.stride = 6 /\ c.block_size = 1
          [] OTHER -> c.max_size = 7 /\ (c.stride = 6 => c.write_percentage > 0)
     /\ c.direct => c.base_offset = 2 \/ c.thread_offset = 2
     /\ \/ c.write_percentage = 0 /\ ~c.separate_buffers
        \/ c.mode = "sequential" /\ c.stride = 6 /\ c.base_offset = 2
             /\ c.thread_offset = 0}

(* A random target of more blocks than an int can count.                    *)
MCLargeTarget ==
  {[base_offset |-> 2, max_size |-> 12, block_size |-> 1, stride |-> 1,
    thread_offset |-> 0, mode |-> "random", direct |-> FALSE, sector_size |-> 2,
    write_percentage |-> 0, separate_buffers |-> FALSE]}
=============================================================================

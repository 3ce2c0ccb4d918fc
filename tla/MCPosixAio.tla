----------------------------- MODULE MCPosixAio -----------------------------
(* An instance of PosixAio for TLC: one worker with two operations and one *)
(* with one; ids wrap around after three.                                   *)
EXTENDS PosixAio

CONSTANTS g1, g2, a1, a2, b1

MCOwner == [o \in {a1, a2, b1} |-> IF o = b1 THEN g2 ELSE g1]
=============================================================================

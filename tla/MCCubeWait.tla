----------------------------- MODULE MCCubeWait -----------------------------
(***************************************************************************)
(* A small instance of CubeWait: a tuple for each of two processors, one   *)
(* that is batched and one that is answered SEND_NO_BATCH.                 *)
(***************************************************************************)
EXTENDS CubeWait, TLC
CONSTANTS t1, t2

MCCellOf == [t \in Tuples |-> IF t = t1 THEN 1 ELSE 2]
MCProcOf == [k \in Cells |-> k]
=============================================================================

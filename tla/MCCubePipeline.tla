--------------------------- MODULE MCCubePipeline ---------------------------
(***************************************************************************)
(* A small instance of CubePipeline: two tuples that share a cell, and two *)
(* processors, one of which only sees the barriers.                        *)
(***************************************************************************)
EXTENDS CubeInvariant, TLC
CONSTANTS t1, t2

MCOneCell == [t \in Tuples |-> 1]
MCProcOf == [k \in Cells |-> IF k = 1 THEN 1 ELSE NumProcs]
=============================================================================

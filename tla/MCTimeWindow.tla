---------------------------- MODULE MCTimeWindow ----------------------------
(***************************************************************************)
(* A small instance of TimeWindow: two tuples, at times 1 and 2, one from  *)
(* each chain.                                                             *)
(***************************************************************************)
EXTENDS TimeWindow

MCTimeOf == [t \in Tuples |-> t]
MCChainOf == [t \in Tuples |-> IF t = 2 THEN 2 ELSE 1]
=============================================================================

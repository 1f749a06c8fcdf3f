---------------------------- MODULE MCTupleBatch ----------------------------
(***************************************************************************)
(* A small instance of TupleBatch: six tuples of three keys, three of the  *)
(* first key; can_batch may go either way for every tuple.                 *)
(***************************************************************************)
EXTENDS TupleBatch

MCKeyOf == [t \in Tuples |-> IF t <= 3 THEN 1 ELSE IF t <= 5 THEN 2 ELSE 3]
MCMixed == [k \in Keys |-> BOOLEAN]
=============================================================================

------------------------------ MODULE MCDispatch ------------------------------
(* Dispatch for a root with or without a child.                             *)
EXTENDS Dispatch, TLC
CONSTANTS a1, a2, l1, l2, c1, c2
Shape == [c \in CellId |-> IF c = Root THEN CellId \ {Root} ELSE {}]
=============================================================================

------------------------------ MODULE MCLoopRun ------------------------------
(* LoopRun on a root whose children are the other cells.                     *)
EXTENDS LoopRun, TLC
CONSTANTS a1, a2
Shape == [c \in CellId |-> IF c = Root THEN [i \in 1..(Cardinality(CellId) - 1) |-> i + 1]
                                       ELSE << >>]
=============================================================================

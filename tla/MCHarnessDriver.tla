--------------------------- MODULE MCHarnessDriver ---------------------------
(* HarnessDriver on a root and its child, for providers that dispatch jobs  *)
(* for either of the two, both or none, one of them with a role that is not *)
(* configured.                                                              *)
EXTENDS HarnessDriver, TLC
CONSTANTS c1, c2, a1, a2, l1, l2
Shape == [c \in CellId |-> IF c = Root THEN CellId \ {Root} ELSE {}]
Order == [c \in CellId |-> IF c = Root THEN 2 ELSE 1]
Mixes == [CellId -> {{}, {"builder", "implementer"}, {"reviewer"}}]
=============================================================================

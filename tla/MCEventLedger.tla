---------------------------- MODULE MCEventLedger ----------------------------
(* EventLedger with a few processes sharing one ledger file.                *)
EXTENDS EventLedger, TLC
CONSTANTS p1, p2, p3, e1, e2, x1, x2
Symmetry == Permutations(Process) \cup Permutations(EventId) \cup Permutations(Content)
=============================================================================

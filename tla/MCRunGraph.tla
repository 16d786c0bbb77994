----------------------------- MODULE MCRunGraph -----------------------------
(* RunGraph on small instances; the configurations give the constants.      *)
EXTENDS RunGraph, TLC

CONSTANTS c1, c2, c3, o1, o2, b1, b2, k1, r1

\* Bounds of the revision counters: rootMax for the root, cellMax below it.
CONSTANTS rootMax, cellMax
RevisionBound == [c \in CellId |-> IF c = Root THEN rootMax ELSE cellMax]

\* Cells below the root are interchangeable, and so are obligations.
Symmetry == Permutations(CellId \ {Root}) \cup Permutations(Obligation)

\* A basis is compared with nothing but the one that replaces it in the same
\* cell, and no guard reads the approvals: of states that differ in the names
\* of the bases and in the approvals one is enough.
View == <<phase, revision, treeVars, [c \in CellId |-> basis[c] = NoBasis], executable,
          planned, reviewVars, resultVars, claims, histVars, direct>>
=============================================================================

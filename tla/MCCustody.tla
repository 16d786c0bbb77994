------------------------------ MODULE MCCustody ------------------------------
(* Custody with a root cell alone: three versions of a piece of evidence    *)
(* under one id, one a producer's word on its own work and one with a        *)
(* finding, evidence on the whole system, and two requests under one id, one *)
(* of them with a finding that stays unresolved.                             *)
EXTENDS Custody, TLC
CONSTANTS c0, x1, t1, spec, other

Piece(id, cell, scope, producer, obligations, artifacts) ==
    [id |-> id, specification |-> spec, cell |-> cell, rev |-> 1, scope |-> scope,
     producer |-> producer, class |-> "tester", subjects |-> {"author"},
     obligations |-> obligations, execution |-> x1, artifacts |-> artifacts,
     findings |-> {}]
CellScope == [kind |-> "cell", of |-> c0]
RootScope == [kind |-> "root", of |-> c0]
Templates ==
    {Piece("e1", c0, CellScope, "tester", {"o1"}, {t1}),
     Piece("e1", c0, CellScope, "author", {"o1"}, {}),
     [Piece("e1", c0, CellScope, "tester", {"o1"}, {t1}) EXCEPT !.findings = {"f"}],
     Piece("e2", c0, RootScope, "author", {"o2"}, {}),
     [Piece("e2", c0, RootScope, "tester", {"o2"}, {}) EXCEPT !.specification = other],
     Piece("e3", c0, [kind |-> "composite", of |-> "k"], "tester", {"o1"}, {})}

Obligation(id, scope, independent) ==
    [id |-> id, scope |-> scope, classes |-> {"tester"}, minimum |-> 1,
     independent |-> independent]
Requests ==
    {[id |-> "a1", findings |-> {"f"},
      obligations |-> {Obligation("o1", CellScope, TRUE)}],
     [id |-> "a1", findings |-> {},
      obligations |-> {Obligation("o1", CellScope, TRUE), Obligation("o2", RootScope, FALSE)}]}
=============================================================================

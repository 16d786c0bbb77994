--------------------------- MODULE MCContractGraph ---------------------------
(* A design of three composites, one inside the other, and every design that *)
(* differs from it in at most two places.                                    *)
EXTENDS ContractGraph, FiniteSetsExt, TLC

CONSTANTS a, b, c, d, s, t, top

RootNames == {top, a}

Port(x, i) == <<x, i>>
Wire(x, y, i) == [source |-> Port(x, 1), target |-> Port(y, i)]
Box(id, control, members, x, y) ==
    [id |-> id, control |-> control, members |-> members,
     connections |-> {Wire(x, y, 1)},
     inputs |-> <<Port(x, 1), Port(x, 2)>>, outputs |-> <<Port(x, 1)>>]

Base ==
    [cells |-> {a, b, c, d},
     ports |-> [x \in CellId |-> [input |-> <<s, t>>, output |-> <<s>>]],
     root |-> 1,
     composites |-> {Box(1, None, {a, b}, a, b), Box(2, a, {c}, c, c),
                     Box(3, c, {d}, d, d)}]

Exposures == {<<Port(x, i), Port(y, j)>> : x, y \in CellId, i, j \in 1..2}
               \cup {<<Port(x, i)>> : x \in CellId, i \in 1..2}
Edited(k) ==
    {[k EXCEPT !.members = m] : m \in SUBSET CellId \ {{}}}
      \cup {[k EXCEPT !.control = x] : x \in CellId \cup {None}}
      \cup {[k EXCEPT !.connections = {Wire(x, y, i)}] : x, y \in CellId, i \in 1..2}
      \cup {[k EXCEPT !.inputs = e] : e \in Exposures}
      \cup {[k EXCEPT !.outputs = <<Port(x, 1)>>] : x \in CellId}
Edits(g) ==
    {[g EXCEPT !.ports[x].input = p] : x \in CellId, p \in {<<s>>, <<t>>, <<t, s>>}}
      \cup {[g EXCEPT !.ports[x].output = <<t>>] : x \in CellId}
      \cup {[g EXCEPT !.cells = @ \ {x}] : x \in CellId}
      \cup {[g EXCEPT !.root = n] : n \in CompositeId}
      \cup UNION {{[g EXCEPT !.composites = (@ \ {k}) \cup {e}] : e \in Edited(k)}
                     : k \in g.composites}
\* descend as the code has it: each cell once, and a cell met on its own path
\* is a cycle.  Over every containment of three cells it finds one just if
\* Terminates does not hold.
RECURSIVE Descend(_, _, _, _)
Descend(inside, x, path, seen) ==
    IF seen.cycle \/ x \in seen.settled THEN seen
    ELSE IF x \in path THEN [seen EXCEPT !.cycle = TRUE]
    ELSE LET below == FoldSet(LAMBDA m, v : Descend(inside, m, path \cup {x}, v), seen, inside[x])
         IN  [below EXCEPT !.settled = @ \cup {x}]

ASSUME DescendFindsCycles ==
    \A inside \in [1..3 -> SUBSET (1..3)] :
        Terminates(1..3, inside) <=>
            ~FoldSet(LAMBDA x, v : Descend(inside, x, {}, v),
                     [settled |-> {}, cycle |-> FALSE], 1..3).cycle
=============================================================================

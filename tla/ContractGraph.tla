---------------------------- MODULE ContractGraph ----------------------------
(***************************************************************************)
(* ContractGraph (loopstrap_core/contracts.py), and the run that           *)
(* decomposes its cells along it (LoopstrapSystem.decompose, system.py,    *)
(* and RunGraph.decompose, workflow.py).                                   *)
(*                                                                         *)
(* A design declares cells with ordered, typed ports, and composites: a    *)
(* set of member cells, connections between their ports, and the member    *)
(* ports it exposes.  A composite may name the cell it is the interior of. *)
(* The compiler accepts a design or refuses it, once.  A run on an         *)
(* accepted design gives its root the root composite; a cell that its      *)
(* pre-review calls composite is replaced by the members of its own        *)
(* composite, and each obligation of it goes to one of them.               *)
(*                                                                         *)
(* A port is its position in the list of its cell.  Guarantees, effects    *)
(* and dependencies, which nothing after the compiler reads, are left out, *)
(* and of the life of a cell only its reviews, its decomposition and what  *)
(* takes it back to a review are here (the rest is RunGraph).              *)
(***************************************************************************)
EXTENDS Integers, Sequences

CONSTANTS
    CellId,        \* identifiers of cells in designs
    Schema,        \* port schemas
    CompositeId,
    None,          \* no controlling cell, no composite contract
    FirstDraft,    \* the design its authors begin with
    Revisions(_),  \* what they may make of a draft in one edit
    MaxEdits,      \* bound on edits
    RootName,      \* the identifiers the root cell of a run may be given
    Obligation     \* the root's obligations

Side == {"input", "output"}
Name == CellId \cup RootName

\* A port reference is <<cell, position>>; a connection goes from an output
\* to an input.
\* A design is what from_dict makes of a document.
Ref == CellId \X (Nat \ {0})
Whole == [id : CompositeId, control : CellId \cup {None}, members : SUBSET CellId,
          connections : SUBSET [source : Ref, target : Ref],
          inputs : Seq(Ref), outputs : Seq(Ref)]
Design == [cells : SUBSET CellId, ports : [CellId -> [Side -> Seq(Schema)]],
           root : CompositeId, composites : SUBSET Whole]

ASSUME EditsAssumption == MaxEdits \in Nat
ASSUME NoneAssumption == None \notin Name /\ None \notin CompositeId

VARIABLES
    design,        \* the document
    verdict,       \* "draft", "accepted" or "refused"
    edits,
    state,         \* of each cell of the run: "absent", "open" (not reviewed, or
                   \* to be reviewed again), reviewed as a "leaf", or as a
                   \* composite, "children", whatever phase it is in since
    parent, children, obligations,
    contract,      \* composite_contract_ref
    root,          \* the root cell, or None
    emptied        \* history: the cells a revision of their tests took the
                   \* children of

run == <<state, parent, children, obligations, contract, root, emptied>>
CGvars == <<design, verdict, edits, run>>

Composite == design.composites
Interiors == {k \in Composite : k.control # None}

Resolves(side, ref) ==
    ref[1] \in design.cells /\ ref[2] \in DOMAIN design.ports[ref[1]][side]
SchemaOf(side, ref) == design.ports[ref[1]][side][ref[2]]

-----------------------------------------------------------------------------
(* ContractGraph.validate                                                  *)

\* ids are unique, the root composite exists, a cell has one interior.
WellNamed ==
    /\ \A j, k \in Composite : j # k =>
         j.id # k.id /\ (j.control # None => j.control # k.control)
    /\ \E k \in Composite : k.id = design.root
    /\ \A k \in Interiors : k.control \in design.cells

\* descend goes depth first through the interiors and refuses a cell that it
\* meets on its own path.  Unknown members are skipped.  It meets none if every
\* set of cells has one with no member of its interior in the set.
InteriorOf(c) == {k \in Interiors : k.control = c}
MembersInside(c) == design.cells \cap UNION {k.members : k \in InteriorOf(c)}
Terminates(cells, inside) ==
    \A S \in SUBSET cells : S # {} => \E c \in S : inside[c] \cap S = {}

\* Variant: a cell is looked for in its own interior only.
ContainmentOneLevel == \A c \in design.cells : c \notin MembersInside(c)

ContainmentTerminates == Terminates(design.cells, [c \in design.cells |-> MembersInside(c)])

\* Every interior exposes the schemas of its cell, in the cell's order.  One
\* that does not resolve is left to ConnectionsFit.
Exposed(k, side) == IF side = "input" THEN k.inputs ELSE k.outputs

\* Variant: the counts alone.
BoundaryCounts(k, side) ==
    (\A i \in DOMAIN Exposed(k, side) : Resolves(side, Exposed(k, side)[i])) =>
       Len(Exposed(k, side)) = Len(design.ports[k.control][side])
BoundaryAgrees(k, side) ==
    LET exposed == Exposed(k, side)
        declared == design.ports[k.control][side]
    IN  (\A i \in DOMAIN exposed : Resolves(side, exposed[i])) =>
           /\ Len(exposed) = Len(declared)
           /\ \A i \in DOMAIN exposed : SchemaOf(side, exposed[i]) = declared[i]

InteriorBoundaries ==
    \A k \in Interiors, side \in Side : BoundaryAgrees(k, side)

\* Members are declared; connections and exposures stay among the members,
\* exist, and carry one schema.
ConnectionsFit ==
    \A k \in Composite :
        /\ k.members \subseteq design.cells
        /\ \A w \in k.connections :
             /\ w.source[1] \in k.members /\ w.target[1] \in k.members
             /\ Resolves("output", w.source) /\ Resolves("input", w.target)
             /\ SchemaOf("output", w.source) = SchemaOf("input", w.target)
        /\ \A side \in Side : \A i \in DOMAIN Exposed(k, side) :
             /\ Exposed(k, side)[i][1] \in k.members
             /\ Resolves(side, Exposed(k, side)[i])

Valid ==
    /\ WellNamed
    /\ ContainmentTerminates
    /\ InteriorBoundaries
    /\ ConnectionsFit

-----------------------------------------------------------------------------
(* Actions.                                                                *)

CGInit ==
    /\ design = FirstDraft /\ verdict = "draft" /\ edits = 0
    /\ state = [c \in Name |-> "absent"] /\ parent = [c \in Name |-> None]
    /\ children = [c \in Name |-> {}] /\ emptied = {}
    /\ obligations = [c \in Name |-> {}] /\ contract = [c \in Name |-> None]
    /\ root = None

Edit ==
    /\ verdict = "draft" /\ edits < MaxEdits
    /\ design' \in Revisions(design) /\ edits' = edits + 1
    /\ UNCHANGED <<verdict, run>>

Compile ==
    /\ verdict = "draft"
    /\ verdict' = IF design \in Design /\ Valid THEN "accepted" ELSE "refused"
    /\ UNCHANGED <<design, edits, run>>

\* create_root: any name will do.
CreateRoot(c) ==
    /\ verdict = "accepted" /\ root = None
    /\ root' = c
    /\ state' = [state EXCEPT ![c] = "open"]
    /\ obligations' = [obligations EXCEPT ![c] = Obligation]
    /\ contract' = [contract EXCEPT ![c] = design.root]
    /\ UNCHANGED <<design, verdict, edits, parent, children, emptied>>

\* The reviewer decides, whatever the design says of the cell.
PreReview(c) ==
    /\ state[c] = "open"
    /\ state' \in {[state EXCEPT ![c] = "leaf"], [state EXCEPT ![c] = "children"]}
    /\ UNCHANGED <<design, verdict, edits, parent, children, obligations, contract, root, emptied>>

\* revise_tests sends a cell back to its plan without its children, which stay
\* cells of the run with c as their parent.
ReviseTests(c) ==
    /\ state[c] # "absent"
    /\ state' = [state EXCEPT ![c] = "open"]
    /\ children' = [children EXCEPT ![c] = {}]
    /\ emptied' = IF children[c] = {} THEN emptied ELSE emptied \cup {c}
    /\ UNCHANGED <<design, verdict, edits, parent, obligations, contract, root>>

\* route_verified_issue sends the lowest common ancestor of the cells it
\* affects back to its review, its children kept.
RouteVerifiedIssue(c) ==
    /\ state[c] # "absent"
    /\ state' = [state EXCEPT ![c] = "open"]
    /\ UNCHANGED <<design, verdict, edits, parent, children, obligations, contract, root, emptied>>

Members(c) == UNION {k.members : k \in {j \in Composite : j.id = contract[c]}}

\* composite_for_cell
ContractOf(c) == IF InteriorOf(c) = {} THEN None ELSE (CHOOSE k \in InteriorOf(c) : TRUE).id

Decompose(c, share) ==
    LET kids == Members(c) IN
    /\ state[c] = "children" /\ contract[c] # None
    /\ kids # {} /\ \A k \in kids : state[k] = "absent"
    /\ share \in [obligations[c] -> kids] /\ \A k \in kids : \E o \in obligations[c] : share[o] = k
    /\ state' = [n \in Name |-> IF n \in kids THEN "open" ELSE state[n]]
    /\ children' = [children EXCEPT ![c] = kids]
    /\ parent' = [n \in Name |-> IF n \in kids THEN c ELSE parent[n]]
    /\ obligations' = [n \in Name |-> IF n \in kids THEN {o \in obligations[c] : share[o] = n}
                                                    ELSE obligations[n]]
    /\ contract' = [n \in Name |-> IF n \in kids THEN ContractOf(n) ELSE contract[n]]
    /\ UNCHANGED <<design, verdict, edits, root, emptied>>

CGNext ==
    \/ Edit \/ Compile
    \/ \E c \in RootName : CreateRoot(c)
    \/ \E c \in Name :
         \/ PreReview(c) \/ ReviseTests(c) \/ RouteVerifiedIssue(c)
         \/ \E share \in [obligations[c] -> Members(c)] : Decompose(c, share)

CGSpec == CGInit /\ [][CGNext]_CGvars

-----------------------------------------------------------------------------
(* Properties.                                                              *)

(* The variables keep their types.                                          *)
CGTypeOK ==
    /\ edits \in 0..MaxEdits /\ (verdict = "accepted" => design \in Design)
    /\ verdict \in {"draft", "accepted", "refused"}
    /\ state \in [Name -> {"absent", "open", "leaf", "children"}]
    /\ parent \in [Name -> Name \cup {None}]
    /\ children \in [Name -> SUBSET Name] /\ emptied \subseteq Name
    /\ obligations \in [Name -> SUBSET Obligation]
    /\ contract \in [Name -> CompositeId \cup {None}]
    /\ root \in RootName \cup {None}

\* The cells above a cell of the run.
Above(c) ==
    {p \in Name : \A S \in SUBSET Name :
        (\A x \in S \cup {c} : parent[x] # None => parent[x] \in S) => p \in S}

Decomposed(c) == children[c] # {}

\* The ports of decomposed cells, and what the composite in the place of such
\* a cell puts in the place of its port.
Replaced(side) ==
    {r \in UNION {{<<c, i>> : i \in DOMAIN design.ports[c][side]} : c \in design.cells} :
        Decomposed(r[1])}
Behind(side, r) ==
    {Exposed(k, side)[r[2]] : k \in {j \in Composite : j.id = contract[r[1]]}}

\* The ports that take the place of a port once the cells below it are what
\* they are now: its own, unless its cell is decomposed; and those it went
\* through.
Through(side, ref) ==
    {r \in Replaced(side) : \A S \in SUBSET Replaced(side) :
        ref \in S /\ (\A q \in S : Behind(side, q) \cap Replaced(side) \subseteq S) => r \in S}
Ports(side, ref) ==
    IF ~Decomposed(ref[1]) THEN {ref}
    ELSE (UNION {Behind(side, r) : r \in Through(side, ref)}) \ Replaced(side)

(* Substitution (claim READY-CONTRACT-08): whichever cells of a run have    *)
(* been replaced by their interiors, at whatever depth, what a connection   *)
(* of a decomposed cell brings together at the bottom has one schema.       *)
ConnectionsHoldToTheBottom ==
    \A c \in Name : Decomposed(c) =>
        \A k \in Composite : k.id = contract[c] =>
            \A w \in k.connections :
                \A s \in Ports("output", w.source), t \in Ports("input", w.target) :
                    SchemaOf("output", s) = SchemaOf("input", t)

(* What a composite without children can be refused for (claim              *)
(* READY-CONTRACT-07): a member that the run has already got is one the     *)
(* composite made itself, before a revision of its tests took its children  *)
(* from it, or a member of another composite of the design as well, and then*)
(* never the cell itself or one that it is a part of.  A design whose       *)
(* composites share no member, on a root that is no member, decomposes as it*)
(* was compiled, in any order, as long as no decomposed cell has its tests  *)
(* revised.                                                                 *)
StuckOverSharedMember ==
    \A c \in Name : state[c] = "children" /\ children[c] = {} =>
        \A k \in Members(c) : state[k] # "absent" =>
            \/ k = root
            \/ parent[k] = c /\ c \in emptied
            \/ /\ k \notin Above(c) \cup {c}
               /\ \E j \in Composite : j.id # contract[c] /\ k \in j.members
=============================================================================

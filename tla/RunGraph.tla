------------------------------ MODULE RunGraph ------------------------------
(***************************************************************************)
(* The work graph of a run: loopstrap_core/workflow.py, class RunGraph,    *)
(* driven by the lifecycle of config/workflow.v1.json.                     *)
(*                                                                         *)
(* A run is a tree of cells.  Each cell walks the lifecycle                *)
(*   contract, tests, plan, pre_review,                                    *)
(*     (implementation | children, integration), post_review, closed       *)
(* and every field of the Python dataclass Cell that a guard reads is a    *)
(* function from cells below.  A digest, a plan or a claim is an opaque    *)
(* value; the obligation map of a test basis is part of its Basis value    *)
(* (an incomplete map is refused by the code before anything changes);     *)
(* scope is left out (its narrowing guards inputs only, like depth).       *)
(*                                                                         *)
(* A call the code refuses raises before it changes anything and is        *)
(* therefore no step, with one exception, RecordIntegration.               *)
(***************************************************************************)
EXTENDS Integers, FiniteSets

CONSTANTS
    CellId,       \* identifiers cells can be given
    Root,         \* the identifier of the root cell
    NoCell,       \* parent_id of the root
    Obligation,   \* obligation names
    Basis,        \* complete test bases: (visible, holdout, obligation map)
    NoBasis,      \* visible_tests_digest is None
    Claim,        \* claim identifiers
    Reviewer,     \* reviewers that may be recorded as approving
    MaxRevision,  \* bounds of the cells' revision counters (the code has none)
    MaxDirect     \* bound on the calls made past the facade (the code has none)

ASSUME CellAssumption     == Root \in CellId /\ NoCell \notin CellId
ASSUME BasisAssumption    == NoBasis \notin Basis
ASSUME RevisionAssumption == MaxRevision \in [CellId -> Nat]
ASSUME DirectAssumption   == MaxDirect \in Nat

VARIABLES
    phase, revision,                     \* lifecycle position
    parent, depth, obligations, children,\* the tree
    basis, executable,                   \* frozen tests
    planned,                             \* plan_digest and responsibilities
    preReview, leaf, seams,              \* decomposition review
    verification, integration, postReview,
    claims, approvals,
    at,        \* history: the revision at which each stage was last recorded
    seenBasis, \* history: the children's freeze stamps a parent integrated
    direct     \* history: how many calls were made past the facade

treeVars   == <<parent, depth, obligations, children>>
testVars   == <<basis, executable>>
reviewVars == <<preReview, leaf, seams>>
resultVars == <<verification, integration, postReview>>
noteVars   == <<claims, approvals>>
histVars   == <<at, seenBasis>>
vars == <<phase, revision, treeVars, testVars, planned, reviewVars,
          resultVars, noteVars, histVars, direct>>

Kind  == {"contract", "tests", "plan", "pre_review", "children",
          "implementation", "integration", "post_review", "closed"}
Stage == {"freeze", "plan", "pre_review", "evidence", "post_review"}
ClaimStatus == {"none", "suspected", "verified", "resolved"}

Cells == {c \in CellId : phase[c] # "absent"}

TypeOK ==
    /\ phase \in [CellId -> Kind \cup {"absent"}]
    /\ revision \in [CellId -> Nat]
    /\ \A c \in CellId : revision[c] <= MaxRevision[c]
    /\ parent \in [CellId -> CellId \cup {NoCell}]
    /\ depth \in [CellId -> Nat]
    /\ obligations \in [CellId -> SUBSET Obligation]
    /\ children \in [CellId -> SUBSET CellId]
    /\ basis \in [CellId -> Basis \cup {NoBasis}]
    /\ executable \in [CellId -> BOOLEAN]
    /\ planned \in [CellId -> BOOLEAN]
    /\ preReview \in [CellId -> BOOLEAN]
    /\ leaf \in [CellId -> {"unset", "leaf", "composite"}]
    /\ seams \in [CellId -> BOOLEAN]
    /\ verification \in [CellId -> BOOLEAN]
    /\ integration \in [CellId -> BOOLEAN]
    /\ postReview \in [CellId -> BOOLEAN]
    /\ claims \in [CellId -> [Claim -> ClaimStatus]]
    /\ approvals \in [CellId -> SUBSET Reviewer]
    /\ at \in [CellId -> [Stage -> Nat]]
    /\ seenBasis \in [CellId -> [CellId -> Nat]]
    /\ direct \in 0..MaxDirect

Init ==
    /\ phase = [c \in CellId |-> "absent"]
    /\ revision = [c \in CellId |-> 0]
    /\ parent = [c \in CellId |-> NoCell]
    /\ depth = [c \in CellId |-> 0]
    /\ obligations = [c \in CellId |-> {}]
    /\ children = [c \in CellId |-> {}]
    /\ basis = [c \in CellId |-> NoBasis]
    /\ executable = [c \in CellId |-> FALSE]
    /\ planned = [c \in CellId |-> FALSE]
    /\ preReview = [c \in CellId |-> FALSE]
    /\ leaf = [c \in CellId |-> "unset"]
    /\ seams = [c \in CellId |-> FALSE]
    /\ verification = [c \in CellId |-> FALSE]
    /\ integration = [c \in CellId |-> FALSE]
    /\ postReview = [c \in CellId |-> FALSE]
    /\ claims = [c \in CellId |-> [cl \in Claim |-> "none"]]
    /\ approvals = [c \in CellId |-> {}]
    /\ at = [c \in CellId |-> [s \in Stage |-> 0]]
    /\ seenBasis = [c \in CellId |-> [k \in CellId |-> 0]]
    /\ direct = 0

-----------------------------------------------------------------------------
(* Helpers shared by the operations.                                       *)

\* cell.revision += n
Bump(c, n) ==
    /\ revision[c] + n <= MaxRevision[c]
    /\ revision' = [revision EXCEPT ![c] = @ + n]

\* _transition: take the only edge of the lifecycle labelled with the outcome.
Transition(c, target) ==
    /\ phase' = [phase EXCEPT ![c] = target]
    /\ Bump(c, 1)

Stamp(c, stage) == at' = [at EXCEPT ![c][stage] = revision[c]]

Closed(c) == phase[c] = "closed"

-----------------------------------------------------------------------------
(* Variants with a plausible mistake, one per property: each run shows that *)
(* its property would notice the mistake.  Nothing below uses them.         *)

\* any() for all(); the executable flag not asked for; a lost obligation not
\* refused; identifiers not checked against the graph; the result review kept.
SomeChildClosed(c) == \E k \in children[c] : Closed(k)
LeafReadyUntested(c) ==
    /\ basis[c] # NoBasis /\ planned[c]
    /\ ~seams[c] /\ leaf[c] = "leaf" /\ preReview[c]
IsDisjoint(share, kids, whole) ==
    /\ \A k \in kids : share[k] # {} /\ share[k] \subseteq whole
    /\ \A j, k \in kids : j # k => share[j] \cap share[k] = {}
AreAny(kids) == TRUE
ForgetResultsOnly(c) ==
    /\ verification' = [verification EXCEPT ![c] = FALSE]
    /\ integration' = [integration EXCEPT ![c] = FALSE]
    /\ UNCHANGED postReview

\* A claim resolved without a new revision.
ResolveClaimQuietly(c, cl) ==
    /\ claims[c][cl] = "verified"
    /\ claims' = [claims EXCEPT ![c][cl] = "resolved"]
    /\ UNCHANGED <<phase, revision, treeVars, testVars, planned, reviewVars,
                   resultVars, approvals, histVars>>

-----------------------------------------------------------------------------
(* What the operations check and reset.                                    *)

ChildrenClosed(c) == \A k \in children[c] : Closed(k)

Blocking(c) == {cl \in Claim : claims[c][cl] = "verified"}

\* leaf_readiness is empty
LeafReady(c) ==
    /\ basis[c] # NoBasis
    /\ planned[c]
    /\ executable[c]
    /\ ~seams[c] /\ leaf[c] = "leaf"
    /\ preReview[c]

\* What the evidence against an older basis or review loses.
ForgetReview(c, open) ==
    /\ preReview' = [preReview EXCEPT ![c] = FALSE]
    /\ leaf' = [leaf EXCEPT ![c] = "unset"]
    /\ seams' = [seams EXCEPT ![c] = open]

ForgetResults(c) ==
    /\ verification' = [verification EXCEPT ![c] = FALSE]
    /\ integration' = [integration EXCEPT ![c] = FALSE]
    /\ postReview' = [postReview EXCEPT ![c] = FALSE]

\* Decompose creates its children; no cell of the graph is given again.
AreNew(kids) == kids \cap Cells = {}

\* The children a decomposition may create: every obligation of the parent
\* goes to exactly one of the new cells, and every new cell gets one.
IsPartition(share, kids, whole) ==
    /\ \A k \in kids : share[k] # {} /\ share[k] \subseteq whole
    /\ \A j, k \in kids : j # k => share[j] \cap share[k] = {}
    /\ \A o \in whole : \E k \in kids : o \in share[k]

-----------------------------------------------------------------------------
(* One action per operation.                                               *)

CreateRoot ==
    /\ Cells = {}
    /\ Bump(Root, 1)
    /\ phase' = [phase EXCEPT ![Root] = "contract"]
    /\ \E obls \in (SUBSET Obligation) \ {{}} :
          obligations' = [obligations EXCEPT ![Root] = obls]
    /\ UNCHANGED <<parent, depth, children, testVars, planned, reviewVars,
                   resultVars, noteVars, histVars>>

AcceptContract(c) ==
    /\ phase[c] = "contract"
    /\ Transition(c, "tests")
    /\ UNCHANGED <<treeVars, testVars, planned, reviewVars, resultVars,
                   noteVars, histVars>>

FreezeTests(c, b, runnable) ==
    /\ phase[c] = "tests"
    /\ basis' = [basis EXCEPT ![c] = b]
    /\ executable' = [executable EXCEPT ![c] = runnable]
    /\ Stamp(c, "freeze")
    /\ Transition(c, "plan")
    /\ UNCHANGED <<treeVars, planned, reviewVars, resultVars, noteVars,
                   seenBasis>>

\* Any phase that has a basis: everything decided under the old one goes,
\* the children included.
ReviseTests(c, b, runnable) ==
    /\ c \in Cells /\ basis[c] # NoBasis
    /\ b # basis[c]
    /\ basis' = [basis EXCEPT ![c] = b]
    /\ executable' = [executable EXCEPT ![c] = runnable]
    /\ planned' = [planned EXCEPT ![c] = FALSE]
    /\ ForgetReview(c, FALSE) /\ ForgetResults(c)
    /\ children' = [children EXCEPT ![c] = {}]
    /\ Stamp(c, "freeze")
    /\ Transition(c, "plan")
    /\ UNCHANGED <<parent, depth, obligations, noteVars, seenBasis>>

RecordPlan(c) ==
    /\ phase[c] = "plan"
    /\ basis[c] # NoBasis
    /\ planned' = [planned EXCEPT ![c] = TRUE]
    /\ Stamp(c, "plan")
    /\ Transition(c, "pre_review")
    /\ UNCHANGED <<treeVars, testVars, reviewVars, resultVars, noteVars,
                   seenBasis>>

\* open: unresolved_seams is not empty
RecordPreReview(c, isLeaf, open) ==
    /\ phase[c] = "pre_review"
    /\ ~(isLeaf /\ open)
    /\ preReview' = [preReview EXCEPT ![c] = TRUE]
    /\ leaf' = [leaf EXCEPT ![c] = IF isLeaf THEN "leaf" ELSE "composite"]
    /\ seams' = [seams EXCEPT ![c] = open]
    /\ Stamp(c, "pre_review")
    /\ Transition(c, IF isLeaf THEN "implementation" ELSE "children")
    /\ UNCHANGED <<treeVars, testVars, planned, resultVars, noteVars,
                   seenBasis>>

\* The phase stays "children", so a cell may be decomposed again: the new
\* children replace the old ones, which remain in the graph.
Decompose(c, kids, share) ==
    /\ phase[c] = "children"
    /\ preReview[c] /\ leaf[c] = "composite"
    /\ kids # {} /\ AreNew(kids)
    /\ IsPartition(share, kids, obligations[c])
    /\ revision[c] + 1 <= MaxRevision[c]
    /\ \A k \in kids : 1 <= MaxRevision[k]
    /\ revision' = [k \in CellId |-> IF k \in kids THEN 1
                                     ELSE IF k = c THEN revision[c] + 1
                                     ELSE revision[k]]
    /\ phase' = [k \in CellId |-> IF k \in kids THEN "contract" ELSE phase[k]]
    /\ parent' = [k \in CellId |-> IF k \in kids THEN c ELSE parent[k]]
    /\ depth' = [k \in CellId |-> IF k \in kids THEN depth[c] + 1 ELSE depth[k]]
    /\ obligations' = [k \in CellId |-> IF k \in kids THEN share[k]
                                        ELSE obligations[k]]
    /\ children' = [children EXCEPT ![c] = kids]
    /\ UNCHANGED <<testVars, planned, reviewVars, resultVars, noteVars, histVars>>

RecordVerification(c) ==
    /\ phase[c] = "implementation"
    /\ LeafReady(c)
    /\ verification' = [verification EXCEPT ![c] = TRUE]
    /\ Stamp(c, "evidence")
    /\ Transition(c, "post_review")
    /\ UNCHANGED <<treeVars, testVars, planned, reviewVars, integration,
                   postReview, noteVars, seenBasis>>

CanIntegrate(c) ==
    /\ phase[c] = "children"
    /\ children[c] # {} /\ ChildrenClosed(c)

BeginIntegration(c) ==
    /\ CanIntegrate(c)
    /\ Transition(c, "integration")
    /\ UNCHANGED <<treeVars, testVars, planned, reviewVars, resultVars,
                   noteVars, histVars>>

\* r is the revision at which the cell is in phase "integration".
Integrate(c, r) ==
    /\ r + 1 <= MaxRevision[c]
    /\ revision' = [revision EXCEPT ![c] = r + 1]
    /\ phase' = [phase EXCEPT ![c] = "post_review"]
    /\ integration' = [integration EXCEPT ![c] = TRUE]
    /\ at' = [at EXCEPT ![c]["evidence"] = r]
    /\ seenBasis' = [seenBasis EXCEPT ![c] = [k \in CellId |-> at[k]["freeze"]]]
    /\ UNCHANGED <<treeVars, testVars, planned, reviewVars, verification,
                   postReview, noteVars>>

\* From "children" the call first begins the integration; when the evidence
\* is then refused, that first transition has already happened.
RecordIntegration(c, green) ==
    \/ ~green /\ BeginIntegration(c)
    \/ green /\ phase[c] = "integration" /\ Integrate(c, revision[c])
    \/ green /\ CanIntegrate(c) /\ Integrate(c, revision[c] + 1)

\* The one recorded decision that does not move the revision.
RecordPostReview(c) ==
    /\ phase[c] = "post_review"
    /\ postReview' = [postReview EXCEPT ![c] = TRUE]
    /\ Stamp(c, "post_review")
    /\ UNCHANGED <<phase, revision, treeVars, testVars, planned, reviewVars,
                   verification, integration, noteVars, seenBasis>>

AddClaim(c, cl, status) ==
    /\ c \in Cells
    /\ claims[c][cl] = "none"
    /\ claims' = [claims EXCEPT ![c][cl] = status]
    /\ Bump(c, 1)
    /\ UNCHANGED <<phase, treeVars, testVars, planned, reviewVars, resultVars,
                   approvals, histVars>>

ResolveClaim(c, cl) ==
    /\ claims[c][cl] = "verified"
    /\ claims' = [claims EXCEPT ![c][cl] = "resolved"]
    /\ Bump(c, 1)
    /\ UNCHANGED <<phase, treeVars, testVars, planned, reviewVars, resultVars,
                   approvals, histVars>>

AddApproval(c, r) ==
    /\ c \in Cells
    /\ approvals' = [approvals EXCEPT ![c] = @ \cup {r}]
    /\ UNCHANGED <<phase, revision, treeVars, testVars, planned, reviewVars,
                   resultVars, claims, histVars>>

Close(c) ==
    /\ phase[c] = "post_review"
    /\ Blocking(c) = {}
    /\ postReview[c]
    /\ children[c] # {} => ChildrenClosed(c) /\ integration[c]
    /\ children[c] = {} => verification[c]
    /\ Transition(c, "closed")
    /\ UNCHANGED <<treeVars, testVars, planned, reviewVars, resultVars,
                   noteVars, histVars>>

Reopen(c) ==
    /\ Closed(c)
    /\ Transition(c, "post_review")
    /\ UNCHANGED <<treeVars, testVars, planned, reviewVars, resultVars,
                   noteVars, histVars>>

\* _ancestors: the cell and everything on its parent chain
Ancestors(c) ==
    {a \in Cells : \A S \in SUBSET Cells :
        (c \in S /\ \A x \in S \ {Root} : parent[x] \in S) => a \in S}

\* lowest_common_ancestor
IsLowestCommonAncestor(target, affected) ==
    LET common == {a \in Cells : \A c \in affected : a \in Ancestors(c)}
    IN  target \in common /\ \A a \in common : depth[a] <= depth[target]

\* The children keep their place under the target, and no other cell moves.
RouteVerifiedIssue(target, affected, cl) ==
    /\ affected # {} /\ target \in Cells
    /\ IsLowestCommonAncestor(target, affected)
    /\ claims[target][cl] = "none"
    /\ claims' = [claims EXCEPT ![target][cl] = "verified"]
    /\ phase' = [phase EXCEPT ![target] = "pre_review"]
    /\ Bump(target, 2)
    /\ ForgetReview(target, TRUE) /\ ForgetResults(target)
    /\ UNCHANGED <<treeVars, testVars, planned, approvals, histVars>>

-----------------------------------------------------------------------------
(* The operations the facade LoopstrapSystem reaches, and the ones only a  *)
(* caller holding the graph itself (system.graph) can make.                *)

FacadeNext ==
    \/ CreateRoot
    \/ \E c \in CellId :
        \/ AcceptContract(c)
        \/ \E b \in Basis, runnable \in BOOLEAN : FreezeTests(c, b, runnable)
        \/ RecordPlan(c)
        \/ \E isLeaf, open \in BOOLEAN : RecordPreReview(c, isLeaf, open)
        \/ /\ phase[c] = "children"
           /\ \E kids \in SUBSET CellId :
             \E share \in [kids -> SUBSET obligations[c]] :
               Decompose(c, kids, share)
        \/ RecordVerification(c)
        \/ BeginIntegration(c)
        \/ \E green \in BOOLEAN : RecordIntegration(c, green)
        \/ RecordPostReview(c)
        \/ Close(c)

DirectNext ==
    \E c \in CellId :
        \/ \E b \in Basis, runnable \in BOOLEAN : ReviseTests(c, b, runnable)
        \/ \E cl \in Claim : \E status \in {"suspected", "verified"} :
             AddClaim(c, cl, status)
        \/ \E r \in Reviewer : AddApproval(c, r)
        \/ Reopen(c)
        \/ \E affected \in SUBSET Cells, cl \in Claim :
             RouteVerifiedIssue(c, affected, cl)

\* Only a direct call leaves a claim behind, so resolving one is not counted.
Next ==
    \/ FacadeNext /\ UNCHANGED direct
    \/ direct < MaxDirect /\ direct' = direct + 1 /\ DirectNext
    \/ \E c \in CellId, cl \in Claim : ResolveClaim(c, cl) /\ UNCHANGED direct

Spec == Init /\ [][Next]_vars

-----------------------------------------------------------------------------
(* Correctness.                                                            *)

(* A cell is in the tree when it can be reached from the root; revise_tests *)
(* and a second decompose leave cells behind that cannot.                   *)
Attached ==
    {c \in Cells : \A S \in SUBSET Cells :
        (Root \in S /\ \A x \in S : children[x] \subseteq S) => c \in S}

(* A decomposition is an exact partition (claim SYS-03), and it stays one:  *)
(* whatever is later revised, re-decomposed or reopened, the children a     *)
(* cell points at own each of its obligations exactly once, exist, and      *)
(* point back one level up.                                                 *)
ExactPartition ==
    \A c \in Cells :
        /\ children[c] # {} => IsPartition(obligations, children[c], obligations[c])
        /\ \A k \in children[c] :
              k \in Cells /\ parent[k] = c /\ depth[k] = depth[c] + 1

(* Seen from the top: every obligation of the run is owned by exactly one   *)
(* undecomposed cell of the tree, at any depth.                             *)
FrontierOwnsEveryObligationOnce ==
    \A o \in obligations[Root] :
        Cardinality({c \in Attached : children[c] = {} /\ o \in obligations[c]}) = 1

(* Evidence belongs to the test basis in force (claims FLOW-04, FLOW-05):   *)
(* whatever a cell carries was recorded after its last freeze or revision,  *)
(* in the order basis, plan, decomposition review, result evidence, result  *)
(* review.  A flag that outlives the stage before it, for instance because  *)
(* a reset forgets one field, breaks the order.                             *)
EvidenceInOrder ==
    \A c \in Cells :
        /\ planned[c] => basis[c] # NoBasis /\ at[c]["freeze"] < at[c]["plan"]
        /\ preReview[c] =>
              at[c]["freeze"] < at[c]["pre_review"] /\ at[c]["plan"] < at[c]["pre_review"]
        /\ verification[c] \/ integration[c] =>
              preReview[c] /\ at[c]["pre_review"] < at[c]["evidence"]
        /\ postReview[c] =>
              (verification[c] \/ integration[c]) /\ at[c]["evidence"] < at[c]["post_review"]

(* A closed cell has the evidence of its own sort, a leaf its verification  *)
(* against executable tests and a plan, a composite the integration of its  *)
(* children (claims FLOW-08 and FLOW-09).  It holds after the close, not    *)
(* only when close checks it.                                               *)
ClosedHasEvidence ==
    \A c \in Cells : Closed(c) =>
        /\ preReview[c] /\ postReview[c]
        /\ IF children[c] = {}
             THEN leaf[c] = "leaf" /\ planned[c] /\ executable[c] /\ verification[c]
             ELSE leaf[c] = "composite" /\ integration[c]

(* A leaf has no work of its own outside its cell, a composite none inside: *)
(* a cell never carries both a verification and an integration.             *)
OneSortOfEvidence == \A c \in Cells : ~(verification[c] /\ integration[c])

(* As long as only the facade was used (no reopen, no revision, no routed   *)
(* issue) a closed cell stands on a closed subtree, so a closed root means  *)
(* that every obligation of the run was verified below, in exactly one cell.*)
ClosedRootMeansEveryFrontierVerified ==
    direct = 0 /\ Closed(Root) =>
        /\ FrontierOwnsEveryObligationOnce
        /\ \A c \in Attached : Closed(c) /\ (children[c] = {} => verification[c])

(* Results are matched to a cell by its revision (recovery.py compares it), *)
(* so no step may change what a result was made for and keep the revision.  *)
Material(c) == <<phase[c], basis[c], executable[c], planned[c], preReview[c],
                 leaf[c], seams[c], children[c], verification[c],
                 integration[c], claims[c]>>
MaterialChangeBumpsRevision ==
    [][\A c \in CellId : Material(c)' # Material(c) => revision'[c] > revision[c]]_vars

(* Claim FLOW-04, "changing frozen tests ... reopens downstream work": the  *)
(* parent that integrated a child is downstream of the child's tests, so a  *)
(* composite closes on an integration of the tests its children have now.   *)
(* As long as only the facade was used it does; a direct ReviseTests on a   *)
(* child that is already integrated breaks it.                              *)
ClosesOnCurrentIntegration ==
    [][\A c \in CellId : direct' = 0 /\ ~Closed(c) /\ Closed(c)' =>
          \A k \in children[c] : seenBasis[c][k] = at[k]["freeze"]]_vars
=============================================================================

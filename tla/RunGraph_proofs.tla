--------------------------- MODULE RunGraph_proofs ---------------------------
(* Theorems about RunGraph, for every set of cells, obligations, bases and  *)
(* claims and every bound of the revision counters.                         *)
EXTENDS RunGraph, FiniteSetTheorems, TLAPS

USE CellAssumption, BasisAssumption, RevisionAssumption

\* The three ways Next has: a call of the facade, one past it, a claim resolved.
Resolves == \E c \in CellId, cl \in Claim : ResolveClaim(c, cl)

LEMMA NextCases == [Next]_vars => FacadeNext \/ DirectNext \/ Resolves \/ UNCHANGED vars
  BY DEF Next, Resolves

(* The variables keep their types, whatever operations are called.          *)
THEOREM TypeCorrect == Spec => []TypeOK
<1> USE DEF TypeOK, Kind, Stage, ClaimStatus
<1>1. Init => TypeOK
  BY DirectAssumption DEF Init
<1>2. TypeOK /\ [Next]_vars => TypeOK'
  <2> SUFFICES ASSUME TypeOK, [Next]_vars PROVE TypeOK'
    OBVIOUS
  <2> USE DEF Transition, Bump, Stamp, ForgetReview, ForgetResults, treeVars, testVars, reviewVars,
              resultVars, noteVars, histVars
  <2>0. direct' \in 0..MaxDirect
    BY DirectAssumption DEF Next, vars
  <2> USE <2>0
  <2>1. CASE CreateRoot
    BY <2>1 DEF CreateRoot
  <2>2. ASSUME NEW c \in CellId, AcceptContract(c) PROVE TypeOK'
    BY <2>2 DEF AcceptContract
  <2>3. ASSUME NEW c \in CellId, NEW b \in Basis, NEW runnable \in BOOLEAN,
               FreezeTests(c, b, runnable)
        PROVE TypeOK'
    BY <2>3 DEF FreezeTests
  <2>4. ASSUME NEW c \in CellId, NEW b \in Basis, NEW runnable \in BOOLEAN,
               ReviseTests(c, b, runnable)
        PROVE TypeOK'
    BY <2>4 DEF ReviseTests
  <2>5. ASSUME NEW c \in CellId, RecordPlan(c) PROVE TypeOK'
    BY <2>5 DEF RecordPlan
  <2>6. ASSUME NEW c \in CellId, NEW isLeaf \in BOOLEAN, NEW open \in BOOLEAN,
               RecordPreReview(c, isLeaf, open)
        PROVE TypeOK'
    BY <2>6 DEF RecordPreReview
  <2>7. ASSUME NEW c \in CellId, NEW kids \in SUBSET CellId,
               NEW share \in [kids -> SUBSET obligations[c]],
               Decompose(c, kids, share)
        PROVE TypeOK'
    BY <2>7 DEF Decompose
  <2>8. ASSUME NEW c \in CellId, RecordVerification(c) PROVE TypeOK'
    BY <2>8 DEF RecordVerification
  <2>9. ASSUME NEW c \in CellId, BeginIntegration(c) PROVE TypeOK'
    BY <2>9 DEF BeginIntegration
  <2>10. ASSUME NEW c \in CellId, NEW green \in BOOLEAN, RecordIntegration(c, green)
         PROVE TypeOK'
    <3>1. ASSUME NEW r \in Nat, Integrate(c, r) PROVE TypeOK'
      BY <3>1 DEF Integrate
    <3>2. QED
      BY <2>9, <2>10, <3>1 DEF RecordIntegration
  <2>11. ASSUME NEW c \in CellId, RecordPostReview(c) PROVE TypeOK'
    BY <2>11 DEF RecordPostReview
  <2>12. ASSUME NEW c \in CellId, Close(c) PROVE TypeOK'
    BY <2>12 DEF Close
  <2>13. ASSUME NEW c \in CellId, NEW cl \in Claim,
                NEW status \in {"suspected", "verified"}, AddClaim(c, cl, status)
         PROVE TypeOK'
    BY <2>13 DEF AddClaim
  <2>14. ASSUME NEW c \in CellId, NEW cl \in Claim, ResolveClaim(c, cl)
         PROVE TypeOK'
    BY <2>14 DEF ResolveClaim
  <2>15. ASSUME NEW c \in CellId, NEW r \in Reviewer, AddApproval(c, r)
         PROVE TypeOK'
    BY <2>15 DEF AddApproval
  <2>16. ASSUME NEW c \in CellId, Reopen(c) PROVE TypeOK'
    BY <2>16 DEF Reopen
  <2>17. ASSUME NEW c \in CellId, NEW affected \in SUBSET Cells, NEW cl \in Claim,
                RouteVerifiedIssue(c, affected, cl)
         PROVE TypeOK'
    BY <2>17 DEF RouteVerifiedIssue
  <2>18. CASE UNCHANGED vars
    BY <2>18 DEF vars
  <2>19. CASE FacadeNext
    BY ONLY <2>19, <2>1, <2>2, <2>3, <2>5, <2>6, <2>7, <2>8, <2>9, <2>10,
            <2>11, <2>12, Zenon DEF FacadeNext
  <2>20. CASE DirectNext
    BY ONLY <2>20, <2>4, <2>13, <2>15, <2>16, <2>17, Zenon DEF DirectNext
  <2>21. CASE Resolves
    BY ONLY <2>21, <2>14, Zenon DEF Resolves
  <2>22. QED
    BY ONLY NextCases, [Next]_vars, <2>18, <2>19, <2>20, <2>21
<1>3. QED
  BY <1>1, <1>2, PTL DEF Spec

-----------------------------------------------------------------------------
(* What a cell may carry in each phase, and in which order it got it.  This *)
(* strengthens EvidenceInOrder, ClosedHasEvidence and OneSortOfEvidence     *)
(* into an inductive invariant: a flag is set only in the phases after the  *)
(* stage that sets it, and every stamp lies below the current revision, so  *)
(* the next stamp exceeds all earlier ones.                                 *)
PhaseOK(c) ==
    /\ phase[c] \in {"absent", "contract", "tests", "plan"} => ~planned[c]
    /\ phase[c] \in {"absent", "contract", "tests", "plan", "pre_review"} =>
          ~preReview[c] /\ ~verification[c] /\ ~integration[c] /\ ~postReview[c]
    /\ phase[c] \in {"children", "implementation", "integration"} =>
          preReview[c] /\ ~verification[c] /\ ~integration[c] /\ ~postReview[c]
    /\ phase[c] \in {"children", "integration"} => leaf[c] = "composite"
    /\ phase[c] \in {"post_review", "closed"} =>
          /\ preReview[c]
          /\ \/ leaf[c] = "leaf" /\ planned[c] /\ executable[c]
                /\ verification[c] /\ ~integration[c]
             \/ leaf[c] = "composite" /\ integration[c] /\ ~verification[c]
    /\ phase[c] = "closed" =>
          /\ postReview[c]
          /\ IF children[c] = {} THEN verification[c] ELSE integration[c]

StampsOK(c) ==
    /\ phase[c] = "absent" => \A s \in Stage : at[c][s] = 0
    /\ phase[c] # "absent" =>
          /\ \A s \in Stage \ {"post_review"} : at[c][s] < revision[c]
          /\ at[c]["post_review"] <= revision[c]
    /\ planned[c] => basis[c] # NoBasis /\ at[c]["freeze"] < at[c]["plan"]
    /\ preReview[c] =>
          at[c]["freeze"] < at[c]["pre_review"] /\ at[c]["plan"] < at[c]["pre_review"]
    /\ verification[c] \/ integration[c] => at[c]["pre_review"] < at[c]["evidence"]
    /\ postReview[c] => at[c]["evidence"] < at[c]["post_review"]

EvidenceInv == \A c \in CellId : PhaseOK(c) /\ StampsOK(c)

(* It holds of the empty graph,                                            *)
LEMMA EvidenceInvInit == Init => EvidenceInv
  BY DEF Init, EvidenceInv, PhaseOK, StampsOK, Stage

(* and every operation preserves it.                                        *)
LEMMA EvidenceInvStep == TypeOK /\ EvidenceInv /\ [Next]_vars => EvidenceInv'
<1> SUFFICES ASSUME TypeOK, EvidenceInv, [Next]_vars, NEW x \in CellId
             PROVE  PhaseOK(x)' /\ StampsOK(x)'
  BY DEF EvidenceInv
<1> PhaseOK(x) /\ StampsOK(x)
  BY DEF EvidenceInv
<1> USE DEF TypeOK, Kind, Stage, PhaseOK, StampsOK, Transition, Bump, Stamp,
            ForgetReview, ForgetResults,
            treeVars, testVars, reviewVars, resultVars, noteVars, histVars
<1>1. CASE CreateRoot
  BY <1>1 DEF CreateRoot, Cells
<1>2. ASSUME NEW c \in CellId,
             AcceptContract(c)
      PROVE  PhaseOK(x)' /\ StampsOK(x)'
  BY <1>2 DEF AcceptContract
<1>3. ASSUME NEW c \in CellId, NEW b \in Basis, NEW runnable \in BOOLEAN,
             FreezeTests(c, b, runnable)
      PROVE  PhaseOK(x)' /\ StampsOK(x)'
  BY <1>3 DEF FreezeTests
<1>4. ASSUME NEW c \in CellId, NEW b \in Basis, NEW runnable \in BOOLEAN,
             ReviseTests(c, b, runnable)
      PROVE  PhaseOK(x)' /\ StampsOK(x)'
  BY <1>4 DEF ReviseTests
<1>5. ASSUME NEW c \in CellId,
             RecordPlan(c)
      PROVE  PhaseOK(x)' /\ StampsOK(x)'
  BY <1>5 DEF RecordPlan
<1>6. ASSUME NEW c \in CellId, NEW isLeaf \in BOOLEAN, NEW open \in BOOLEAN,
             RecordPreReview(c, isLeaf, open)
      PROVE  PhaseOK(x)' /\ StampsOK(x)'
  BY <1>6 DEF RecordPreReview
<1>7. ASSUME NEW c \in CellId, NEW kids \in SUBSET CellId,
             NEW share \in [kids -> SUBSET obligations[c]],
             Decompose(c, kids, share)
      PROVE  PhaseOK(x)' /\ StampsOK(x)'
  <2>1. /\ UNCHANGED <<testVars, planned, reviewVars, resultVars, noteVars, histVars>>
        /\ phase[c] = "children" /\ phase[c]' = "children"
        /\ revision[c]' = revision[c] + 1
    BY <1>7 DEF Decompose, AreNew, Cells
  <2>2. CASE x = c
    BY <2>1, <2>2
  <2>3. CASE x \in kids
    <3>1. phase[x] = "absent" /\ phase[x]' = "contract" /\ revision[x]' = 1
      BY <1>7, <2>3 DEF Decompose, AreNew, Cells
    <3>2. QED
      BY <2>1, <3>1
  <2>4. CASE x # c /\ x \notin kids
    <3>1. phase[x]' = phase[x] /\ revision[x]' = revision[x] /\ children[x]' = children[x]
      BY <1>7, <2>4 DEF Decompose
    <3>2. QED
      BY <2>1, <3>1
  <2>5. QED
    BY <2>2, <2>3, <2>4
<1>8. ASSUME NEW c \in CellId,
             RecordVerification(c)
      PROVE  PhaseOK(x)' /\ StampsOK(x)'
  BY <1>8 DEF RecordVerification, LeafReady
<1>9. ASSUME NEW c \in CellId,
             BeginIntegration(c)
      PROVE  PhaseOK(x)' /\ StampsOK(x)'
  BY <1>9 DEF BeginIntegration, CanIntegrate
<1>10. ASSUME NEW c \in CellId, NEW green \in BOOLEAN,
             RecordIntegration(c, green)
      PROVE  PhaseOK(x)' /\ StampsOK(x)'
  <2>1. ASSUME NEW r \in Nat, Integrate(c, r), r >= revision[c],
               phase[c] \in {"children", "integration"}
        PROVE  PhaseOK(x)' /\ StampsOK(x)'
    BY <2>1 DEF Integrate
  <2>2. QED
    BY <1>10, <1>9, <2>1 DEF RecordIntegration, CanIntegrate
<1>11. ASSUME NEW c \in CellId,
             RecordPostReview(c)
      PROVE  PhaseOK(x)' /\ StampsOK(x)'
  BY <1>11 DEF RecordPostReview
<1>12. ASSUME NEW c \in CellId,
             Close(c)
      PROVE  PhaseOK(x)' /\ StampsOK(x)'
  BY <1>12 DEF Close
<1>13. ASSUME NEW c \in CellId, NEW cl \in Claim, NEW status \in {"suspected", "verified"},
             AddClaim(c, cl, status)
      PROVE  PhaseOK(x)' /\ StampsOK(x)'
  BY <1>13 DEF AddClaim, Cells
<1>14. ASSUME NEW c \in CellId, NEW cl \in Claim,
             ResolveClaim(c, cl)
      PROVE  PhaseOK(x)' /\ StampsOK(x)'
  BY <1>14 DEF ResolveClaim
<1>15. ASSUME NEW c \in CellId, NEW r \in Reviewer,
             AddApproval(c, r)
      PROVE  PhaseOK(x)' /\ StampsOK(x)'
  BY <1>15 DEF AddApproval
<1>16. ASSUME NEW c \in CellId,
             Reopen(c)
      PROVE  PhaseOK(x)' /\ StampsOK(x)'
  BY <1>16 DEF Reopen, Closed
<1>17. ASSUME NEW c \in CellId, NEW affected \in SUBSET Cells, NEW cl \in Claim,
             RouteVerifiedIssue(c, affected, cl)
      PROVE  PhaseOK(x)' /\ StampsOK(x)'
  BY <1>17 DEF RouteVerifiedIssue, Cells
<1>18. CASE UNCHANGED vars
  BY <1>18 DEF vars
<1>19. CASE FacadeNext
  BY ONLY <1>19, <1>1, <1>2, <1>3, <1>5, <1>6, <1>7, <1>8, <1>9, <1>10,
          <1>11, <1>12, Zenon DEF FacadeNext
<1>20. CASE DirectNext
  BY ONLY <1>20, <1>4, <1>13, <1>15, <1>16, <1>17, Zenon DEF DirectNext
<1>21. CASE Resolves
  BY ONLY <1>21, <1>14, Zenon DEF Resolves
<1>22. QED
  BY ONLY NextCases, [Next]_vars, <1>18, <1>19, <1>20, <1>21

(* The invariant holds of every reachable state, and implies the three      *)
(* statements about the evidence a cell carries.                            *)
THEOREM EvidenceInvCorrect == Spec => []EvidenceInv
<1>1. TypeOK /\ EvidenceInv /\ [Next]_vars => EvidenceInv'
  BY EvidenceInvStep
<1>2. QED
  BY <1>1, EvidenceInvInit, TypeCorrect, PTL DEF Spec

(* Whatever a cell carries was recorded after its current test basis was    *)
(* frozen and in the lifecycle's order, whatever is revised, routed or      *)
(* reopened in between.                                                     *)
THEOREM EvidenceInOrderCorrect == Spec => []EvidenceInOrder
<1>1. TypeOK /\ EvidenceInv => EvidenceInOrder
  BY DEF TypeOK, Kind, EvidenceInv, PhaseOK, StampsOK, EvidenceInOrder, Cells
<1>2. QED
  BY <1>1, TypeCorrect, EvidenceInvCorrect, PTL

(* A closed cell has the evidence of its own sort.                          *)
THEOREM ClosedHasEvidenceCorrect == Spec => []ClosedHasEvidence
<1>1. EvidenceInv => ClosedHasEvidence
  BY DEF EvidenceInv, PhaseOK, ClosedHasEvidence, Cells, Closed
<1>2. QED
  BY <1>1, EvidenceInvCorrect, PTL

(* No cell carries both a verification and an integration.                  *)
THEOREM OneSortOfEvidenceCorrect == Spec => []OneSortOfEvidence
<1>1. TypeOK /\ EvidenceInv => OneSortOfEvidence
  BY DEF TypeOK, Kind, EvidenceInv, PhaseOK, OneSortOfEvidence, Cells
<1>2. QED
  BY <1>1, TypeCorrect, EvidenceInvCorrect, PTL

-----------------------------------------------------------------------------
(* The shape of the tree.  Beyond ExactPartition the induction needs that   *)
(* an identifier not yet in the graph has no children of its own.           *)
TreeInv ==
    /\ ExactPartition
    /\ \A c \in CellId \ Cells : children[c] = {}

\* What every operation but CreateRoot, Decompose and ReviseTests does.
TreeKept == UNCHANGED treeVars /\ Cells' = Cells

(* Operations that leave the tree alone leave its shape alone.              *)
LEMMA TreeKeptStep == TypeOK /\ TreeInv /\ TreeKept => TreeInv'
  BY DEF TreeInv, TreeKept, ExactPartition, IsPartition, treeVars

(* Revised tests detach the children of one cell, and only those.           *)
LEMMA ReviseTreeStep ==
    ASSUME TypeOK, TreeInv, NEW c \in CellId, NEW b \in Basis,
           NEW runnable \in BOOLEAN, ReviseTests(c, b, runnable)
    PROVE  TreeInv'
<1>1. /\ UNCHANGED <<parent, depth, obligations>> /\ Cells' = Cells
      /\ children'[c] = {}
      /\ \A k \in CellId \ {c} : children'[k] = children[k]
  BY DEF TypeOK, ReviseTests, Transition, Cells
<1>2. c \in Cells /\ \A x \in Cells : children[x] \subseteq CellId
  BY DEF TypeOK, ReviseTests, Cells
<1>3. ASSUME NEW x \in Cells
      PROVE  /\ children'[x] # {} =>
                   IsPartition(obligations', children'[x], obligations'[x])
             /\ \A k \in children'[x] :
                   k \in Cells' /\ parent'[k] = x /\ depth'[k] = depth'[x] + 1
  <2>1. children'[x] = {} \/ children'[x] = children[x]
    BY <1>1 DEF Cells
  <2>2. QED
    BY <1>1, <2>1 DEF TreeInv, ExactPartition
<1>4. QED
  BY <1>1, <1>2, <1>3 DEF TreeInv, ExactPartition

(* A decomposition replaces the children of one cell by an exact partition  *)
(* of its obligations into new cells; the children of others are not among  *)
(* the new ones.                                                            *)
LEMMA DecomposeTreeStep ==
    ASSUME TypeOK, TreeInv, NEW c \in CellId, NEW kids \in SUBSET CellId,
           NEW share \in [kids -> SUBSET obligations[c]], Decompose(c, kids, share)
    PROVE  TreeInv'
<1>1. /\ Cells' = Cells \cup kids /\ c \in Cells /\ kids \cap Cells = {}
      /\ children'[c] = kids
      /\ \A k \in CellId \ {c} : children'[k] = children[k]
      /\ \A k \in kids : /\ parent'[k] = c /\ depth'[k] = depth[c] + 1
                         /\ obligations'[k] = share[k]
      /\ \A k \in CellId \ kids : /\ parent'[k] = parent[k] /\ depth'[k] = depth[k]
                                  /\ obligations'[k] = obligations[k]
      /\ IsPartition(share, kids, obligations[c])
  BY DEF TypeOK, Decompose, AreNew, Cells
<1>2. \A x \in Cells : children[x] \cap kids = {} /\ children[x] \subseteq Cells
  BY <1>1 DEF TreeInv, ExactPartition
<1>3. ASSUME NEW x \in Cells'
      PROVE  /\ children'[x] # {} =>
                   IsPartition(obligations', children'[x], obligations'[x])
             /\ \A k \in children'[x] :
                   k \in Cells' /\ parent'[k] = x /\ depth'[k] = depth'[x] + 1
  <2>1. CASE x = c
    BY <1>1, <2>1 DEF IsPartition
  <2>2. CASE x \in kids
    <3>1. children'[x] = {}
      BY <1>1, <2>2 DEF TreeInv, Cells
    <3>2. QED
      BY <3>1
  <2>3. CASE x \in Cells /\ x # c
    <3>1. x \in CellId \ kids /\ children'[x] = children[x]
      BY <1>1, <2>3 DEF Cells
    <3>2. \A k \in children[x] : k \in CellId \ kids
      BY <1>2, <2>3 DEF Cells
    <3>3. /\ children[x] # {} => IsPartition(obligations, children[x], obligations[x])
          /\ \A k \in children[x] :
                k \in Cells /\ parent[k] = x /\ depth[k] = depth[x] + 1
      BY <2>3 DEF TreeInv, ExactPartition
    <3>4. QED
      BY <1>1, <3>1, <3>2, <3>3 DEF IsPartition
  <2>4. QED
    BY <1>1, <2>1, <2>2, <2>3
<1>4. \A x \in CellId \ Cells' : children'[x] = {}
  BY <1>1 DEF TreeInv, Cells
<1>5. QED
  BY <1>3, <1>4 DEF TreeInv, ExactPartition

LEMMA ResolveKeepsTree ==
    ASSUME TypeOK, NEW c \in CellId, NEW cl \in Claim, ResolveClaim(c, cl)
    PROVE  TreeKept
  BY DEF ResolveClaim, TreeKept, Cells, Bump, treeVars

(* What an operation may do to the tree.                                    *)
LEMMA TreeMoves ==
    ASSUME TypeOK, [Next]_vars
    PROVE  \/ TreeKept
           \/ CreateRoot
           \/ \E c \in CellId, kids \in SUBSET CellId :
                 \E share \in [kids -> SUBSET obligations[c]] : Decompose(c, kids, share)
           \/ \E c \in CellId, b \in Basis, runnable \in BOOLEAN : ReviseTests(c, b, runnable)
<1> USE DEF TypeOK, TreeKept, Cells, Transition, Bump, treeVars
<1>1. ASSUME NEW c \in CellId PROVE AcceptContract(c) => TreeKept
  BY DEF AcceptContract
<1>2. ASSUME NEW c \in CellId, NEW b \in Basis, NEW runnable \in BOOLEAN
      PROVE  FreezeTests(c, b, runnable) => TreeKept
  BY DEF FreezeTests
<1>3. ASSUME NEW c \in CellId PROVE RecordPlan(c) => TreeKept
  BY DEF RecordPlan
<1>4. ASSUME NEW c \in CellId, NEW isLeaf \in BOOLEAN, NEW open \in BOOLEAN
      PROVE  RecordPreReview(c, isLeaf, open) => TreeKept
  BY DEF RecordPreReview
<1>5. ASSUME NEW c \in CellId PROVE RecordVerification(c) => TreeKept
  BY DEF RecordVerification
<1>6. ASSUME NEW c \in CellId, NEW green \in BOOLEAN
      PROVE  BeginIntegration(c) \/ RecordIntegration(c, green) => TreeKept
  BY DEF BeginIntegration, RecordIntegration, Integrate, CanIntegrate
<1>7. ASSUME NEW c \in CellId PROVE RecordPostReview(c) => TreeKept
  BY DEF RecordPostReview
<1>8. ASSUME NEW c \in CellId PROVE Close(c) \/ Reopen(c) => TreeKept
  BY DEF Close, Reopen, Closed
<1>9. ASSUME NEW c \in CellId, NEW cl \in Claim, NEW status \in {"suspected", "verified"}
      PROVE  AddClaim(c, cl, status) => TreeKept
  BY DEF AddClaim
<1>10. ASSUME NEW c \in CellId, NEW r \in Reviewer
       PROVE  AddApproval(c, r) => TreeKept
  BY DEF AddApproval
<1>11. ASSUME NEW c \in CellId, NEW affected \in SUBSET Cells, NEW cl \in Claim
       PROVE  RouteVerifiedIssue(c, affected, cl) => TreeKept
  BY DEF RouteVerifiedIssue
<1>12. UNCHANGED vars => TreeKept
  BY DEF vars
<1>13. CASE FacadeNext
  BY ONLY <1>13, <1>1, <1>2, <1>3, <1>4, <1>5, <1>6, <1>7, <1>8, Zenon DEF FacadeNext
<1>14. CASE DirectNext
  BY ONLY <1>14, <1>8, <1>9, <1>10, <1>11, Zenon DEF DirectNext
<1>15. CASE Resolves
  BY ONLY <1>15, ResolveKeepsTree, TypeOK DEF Resolves
<1>16. QED
  BY ONLY NextCases, [Next]_vars, <1>12, <1>13, <1>14, <1>15

LEMMA TreeStep == ASSUME TypeOK, TreeInv, [Next]_vars PROVE TreeInv'
<1>1. CASE CreateRoot
  <2>1. /\ children' = children /\ \A c \in CellId : children[c] = {}
    BY <1>1 DEF CreateRoot, TreeInv, Cells
  <2>2. QED
    BY <2>1 DEF TreeInv, ExactPartition, Cells
<1>2. QED
  BY <1>1, TreeMoves, TreeKeptStep, DecomposeTreeStep, ReviseTreeStep

LEMMA TreeCorrect == Spec => [](TypeOK /\ TreeInv)
<1>1. Init => TreeInv
  BY DEF Init, TreeInv, ExactPartition, Cells
<1>2. TypeOK /\ TreeInv /\ [Next]_vars => TreeInv'
  BY TreeStep
<1>3. QED
  BY <1>1, <1>2, TypeCorrect, PTL DEF Spec

(* At any time, at any depth and whatever was revised or re-decomposed, the *)
(* children a cell points at are an exact partition of its obligations.     *)
THEOREM ExactPartitionCorrect == Spec => []ExactPartition
<1>1. TreeInv => ExactPartition
  BY DEF TreeInv
<1>2. QED
  BY <1>1, TreeCorrect, PTL

-----------------------------------------------------------------------------
(* Reachability along an assignment of children, as Attached has it: what   *)
(* is in every closed set.  ch is children, before or after a step.         *)
Below(ch, c) ==
    {x \in CellId : \A S \in SUBSET CellId :
        c \in S /\ (\A y \in S : ch[y] \subseteq S) => x \in S}

LEMMA BelowIsLeast ==
    ASSUME NEW ch, NEW c, NEW S \in SUBSET CellId, c \in S, \A y \in S : ch[y] \subseteq S
    PROVE  Below(ch, c) \subseteq S
BY DEF Below

LEMMA BelowIsClosed ==
    ASSUME NEW ch \in [CellId -> SUBSET CellId], NEW c \in CellId
    PROVE  c \in Below(ch, c) /\ \A x \in Below(ch, c) : ch[x] \subseteq Below(ch, c)
<1>1. c \in Below(ch, c)
  BY DEF Below
<1>2. ASSUME NEW x \in Below(ch, c), NEW z \in ch[x] PROVE z \in Below(ch, c)
  <2>1. x \in CellId /\ z \in CellId
    BY DEF Below
  <2>2. ASSUME NEW S \in SUBSET CellId, c \in S, \A y \in S : ch[y] \subseteq S PROVE z \in S
    BY <2>2 DEF Below
  <2>3. QED
    BY <2>1, <2>2 DEF Below
<1>3. QED
  BY <1>1, <1>2

(* Everything below a cell but the cell itself has its parent there.        *)
LEMMA BelowHasParent ==
    ASSUME NEW ch \in [CellId -> SUBSET CellId], NEW c \in CellId,
           NEW x \in Below(ch, c), x # c
    PROVE  \E w \in Below(ch, c) : x \in ch[w]
<1>1. SUFFICES ASSUME \A w \in Below(ch, c) : x \notin ch[w] PROVE FALSE
  OBVIOUS
<1> DEFINE S == Below(ch, c) \ {x}
<1>2. S \in SUBSET CellId /\ c \in S
  BY BelowIsClosed DEF Below
<1>3. \A y \in S : ch[y] \subseteq S
  BY <1>1, BelowIsClosed
<1>4. Below(ch, c) \subseteq S
  BY <1>2, <1>3, BelowIsLeast
<1>5. QED
  BY <1>4

LEMMA BelowIsNested ==
    ASSUME NEW ch \in [CellId -> SUBSET CellId], NEW c \in CellId, NEW x \in Below(ch, c)
    PROVE  Below(ch, x) \subseteq Below(ch, c)
<1>1. Below(ch, c) \in SUBSET CellId
  BY DEF Below
<1>2. QED
  BY <1>1, BelowIsClosed, BelowIsLeast

(* new replaces the children of c by kids, which had no children and were   *)
(* nobody's.                                                                *)
Replaced(ch, c, kids, new) ==
    /\ ch \in [CellId -> SUBSET CellId] /\ new \in [CellId -> SUBSET CellId]
    /\ c \in CellId /\ kids \in SUBSET CellId /\ c \notin kids
    /\ new[c] = kids /\ \A y \in CellId : y # c => new[y] = ch[y]
    /\ \A k \in kids : ch[k] = {}
    /\ \A y \in CellId : ch[y] \cap kids = {}
    /\ \A y, z \in CellId : y # z => ch[y] \cap ch[z] = {}

(* What is below a cell a then loses what was below c and gains kids.       *)
LEMMA BelowReplaced ==
    ASSUME NEW ch, NEW c, NEW kids, NEW new, Replaced(ch, c, kids, new),
           NEW a \in CellId, a = c \/ c \notin Below(ch, a) \/ a \notin Below(ch, c)
    PROVE  /\ c \notin Below(ch, a) => Below(new, a) = Below(ch, a)
           /\ c \in Below(ch, a) =>
                /\ c \in Below(new, a) /\ kids \subseteq Below(new, a)
                /\ Below(ch, a) \ Below(ch, c) \subseteq Below(new, a)
                /\ Below(new, a) \subseteq (Below(ch, a) \ Below(ch, c)) \cup {c} \cup kids
<1> USE DEF Replaced
<1>b. /\ Below(ch, a) \in SUBSET CellId /\ Below(new, a) \in SUBSET CellId
      /\ Below(ch, c) \in SUBSET CellId
  BY DEF Below
<1>1. ASSUME c \notin Below(ch, a) PROVE Below(new, a) = Below(ch, a)
  <2>1. Below(new, a) \subseteq Below(ch, a)
    <3>1. \A y \in Below(ch, a) : new[y] \subseteq Below(ch, a)
      BY <1>1, <1>b, BelowIsClosed
    <3>2. a \in Below(ch, a)
      BY BelowIsClosed
    <3>3. QED
      BY <1>b, <3>1, <3>2, BelowIsLeast
  <2>2. Below(ch, a) \subseteq Below(new, a)
    <3>1. c \notin Below(new, a)
      BY <1>1, <2>1
    <3>2. \A y \in Below(new, a) : ch[y] \subseteq Below(new, a)
      BY <1>b, <3>1, BelowIsClosed
    <3>3. QED
      BY <1>b, <3>2, BelowIsClosed, BelowIsLeast
  <2>3. QED
    BY <2>1, <2>2
<1>2. ASSUME c \in Below(ch, a)
      PROVE  /\ c \in Below(new, a) /\ kids \subseteq Below(new, a)
             /\ Below(ch, a) \ Below(ch, c) \subseteq Below(new, a)
             /\ Below(new, a) \subseteq (Below(ch, a) \ Below(ch, c)) \cup {c} \cup kids
  <2>1. c \in Below(new, a)
    <3>1. SUFFICES ASSUME c \notin Below(new, a) PROVE FALSE
      OBVIOUS
    <3>2. \A y \in Below(new, a) : ch[y] \subseteq Below(new, a)
      BY <1>b, <3>1, BelowIsClosed
    <3>3. Below(ch, a) \subseteq Below(new, a)
      BY <1>b, <3>2, BelowIsClosed, BelowIsLeast
    <3>4. QED
      BY <1>2, <3>1, <3>3
  <2>2. kids \subseteq Below(new, a)
    BY <2>1, BelowIsClosed
  <2>3. Below(ch, a) \ Below(ch, c) \subseteq Below(new, a)
    <3> DEFINE T == Below(new, a) \cup Below(ch, c)
    <3>1. T \in SUBSET CellId /\ a \in T
      BY <1>b, BelowIsClosed
    <3>2. ASSUME NEW y \in T PROVE ch[y] \subseteq T
      <4>1. CASE y \in Below(ch, c)
        BY <4>1, BelowIsClosed
      <4>2. CASE y \notin Below(ch, c)
        <5>1. y # c /\ y \in Below(new, a) /\ y \in CellId
          BY <1>b, <4>2, BelowIsClosed
        <5>2. QED
          BY <5>1, BelowIsClosed
      <4>3. QED
        BY <4>1, <4>2
    <3>3. \A y \in T : ch[y] \subseteq T
      BY <3>2
    <3> HIDE DEF T
    <3>4. Below(ch, a) \subseteq T
      BY <3>1, <3>3, BelowIsLeast
    <3>5. QED
      BY <3>4 DEF T
  <2>4. Below(new, a) \subseteq (Below(ch, a) \ Below(ch, c)) \cup {c} \cup kids
    <3> DEFINE X == (Below(ch, a) \ Below(ch, c)) \cup {c} \cup kids
    <3>1. X \in SUBSET CellId
      BY <1>b
    <3>2. a \in X
      BY <1>2, BelowIsClosed
    <3>3. ASSUME NEW y \in X PROVE new[y] \subseteq X
      <4>1. CASE y = c
        BY <4>1
      <4>2. CASE y \in kids
        BY <4>2
      <4>3. CASE y \in Below(ch, a) \ Below(ch, c) /\ y # c
        <5>1. y \in CellId /\ new[y] = ch[y] /\ ch[y] \subseteq Below(ch, a)
          BY <1>b, <4>3, BelowIsClosed
        <5>2. ASSUME NEW z \in ch[y], z \in Below(ch, c), z # c PROVE FALSE
          <6>1. PICK w \in Below(ch, c) : z \in ch[w]
            BY <5>2, BelowHasParent
          <6>2. w \in CellId /\ w # y
            BY <1>b, <4>3
          <6>3. QED
            BY <5>1, <6>1, <6>2
        <5>3. QED
          BY <5>1, <5>2
      <4>4. QED
        BY <4>1, <4>2, <4>3
    <3>4. \A y \in X : new[y] \subseteq X
      BY <3>3
    <3> HIDE DEF X
    <3>5. Below(new, a) \subseteq X
      BY <3>1, <3>2, <3>4, BelowIsLeast
    <3>6. QED
      BY <3>5 DEF X
  <2>5. QED
    BY <2>1, <2>2, <2>3, <2>4
<1>3. QED
  BY <1>1, <1>2

-----------------------------------------------------------------------------
(* Who owns an obligation.                                                  *)

(* The undecomposed cells below a that own o.                               *)
Owners(ch, obls, a, o) == {x \in Below(ch, a) : ch[x] = {} /\ o \in obls[x]}

OwnInv ==
    \A a \in Cells : \A o \in obligations[a] :
        \E x : Owners(children, obligations, a, o) = {x}

(* Everything below a cell is in the graph and owns part of what it owns.   *)
LEMMA BelowOwnsPart ==
    ASSUME TypeOK, TreeInv, NEW a \in Cells, NEW x \in Below(children, a)
    PROVE  x \in Cells /\ obligations[x] \subseteq obligations[a]
<1> DEFINE S == {y \in Cells : obligations[y] \subseteq obligations[a]}
<1>1. S \in SUBSET CellId /\ a \in S
  BY DEF Cells
<1>2. ASSUME NEW y \in S, NEW k \in children[y] PROVE k \in S
  BY DEF TreeInv, ExactPartition, IsPartition
<1>3. \A y \in S : children[y] \subseteq S
  BY <1>2
<1> HIDE DEF S
<1>4. Below(children, a) \subseteq S
  BY <1>1, <1>3, BelowIsLeast
<1>5. QED
  BY <1>4 DEF S

(* The tree has no cycle: what is below a cell is deeper.                   *)
LEMMA BelowIsDeeper ==
    ASSUME TypeOK, TreeInv, NEW a \in Cells, NEW x \in Below(children, a), x # a
    PROVE  depth[x] > depth[a]
<1> DEFINE S == {y \in Cells : depth[y] >= depth[a]}
<1>1. S \in SUBSET CellId /\ a \in S
  BY DEF Cells, TypeOK
<1>2. ASSUME NEW y \in S, NEW k \in children[y] PROVE k \in S
  <2>1. y \in CellId /\ k \in CellId /\ depth[y] \in Nat /\ depth[k] \in Nat
    BY DEF Cells, TypeOK
  <2>2. k \in Cells /\ depth[k] = depth[y] + 1
    BY DEF TreeInv, ExactPartition
  <2>3. QED
    BY <2>1, <2>2 DEF TypeOK, Cells
<1>3. \A y \in S : children[y] \subseteq S
  BY <1>2
<1> HIDE DEF S
<1>4. Below(children, a) \subseteq S
  BY <1>1, <1>3, BelowIsLeast
<1>5. children \in [CellId -> SUBSET CellId] /\ a \in CellId
  BY DEF TypeOK, Cells
<1>6. PICK w \in Below(children, a) : x \in children[w]
  BY <1>5, BelowHasParent
<1>7. w \in Cells /\ depth[w] >= depth[a] /\ x \in Cells /\ depth[x] = depth[w] + 1
  BY <1>4, <1>6 DEF S, TreeInv, ExactPartition
<1>8. QED
  BY <1>7 DEF TypeOK, Cells

(* When the children of c are replaced by new cells that partition what it  *)
(* owns, or by none, everything is still owned once below every cell.       *)
LEMMA OwnersReplaced ==
    ASSUME TypeOK, TreeInv, OwnInv, NEW c \in Cells, NEW kids \in SUBSET CellId,
           kids \cap Cells = {}, Cells' = Cells \cup kids,
           children' = [children EXCEPT ![c] = kids],
           \A x \in CellId \ kids : obligations'[x] = obligations[x],
           kids # {} => IsPartition(obligations', kids, obligations[c])
    PROVE  OwnInv'
<1>a. /\ children \in [CellId -> SUBSET CellId] /\ c \in CellId \ kids
      /\ children'[c] = kids /\ \A x \in CellId : x # c => children'[x] = children[x]
      /\ children' \in [CellId -> SUBSET CellId]
  BY DEF TypeOK, Cells
<1>b. \A k \in kids : children[k] = {}
  BY DEF TreeInv
<1>c. \A y \in CellId : children[y] \cap kids = {}
  BY DEF TreeInv, ExactPartition
<1>d. \A y, z \in CellId : y # z => children[y] \cap children[z] = {}
  BY DEF TreeInv, ExactPartition
<1>1. SUFFICES ASSUME NEW a \in Cells \cup kids, NEW o \in obligations'[a]
               PROVE  \E x : Owners(children', obligations', a, o) = {x}
  BY DEF OwnInv
<1>2. CASE a \in kids
  <2>1. children'[a] = {} /\ {a} \in SUBSET CellId
    BY <1>a, <1>b, <1>2
  <2>2. Below(children', a) \subseteq {a}
    BY <2>1, BelowIsLeast
  <2>3. a \in Below(children', a)
    BY <1>a, <1>2, BelowIsClosed
  <2>4. Owners(children', obligations', a, o) = {a}
    BY <2>1, <2>2, <2>3 DEF Owners
  <2>5. QED
    BY <2>4
<1>3. CASE a \in Cells
  <2>1. a \in CellId \ kids /\ o \in obligations[a]
    BY <1>3 DEF Cells
  <2>2. a = c \/ c \notin Below(children, a) \/ a \notin Below(children, c)
    <3>1. SUFFICES ASSUME a # c, c \in Below(children, a), a \in Below(children, c)
                   PROVE  FALSE
      OBVIOUS
    <3>2. depth[c] > depth[a] /\ depth[a] > depth[c]
      BY <1>3, <3>1, BelowIsDeeper
    <3>3. QED
      BY <1>a, <2>1, <3>2 DEF TypeOK
  <2>3. /\ c \notin Below(children, a) => Below(children', a) = Below(children, a)
        /\ c \in Below(children, a) =>
             /\ c \in Below(children', a) /\ kids \subseteq Below(children', a)
             /\ Below(children, a) \ Below(children, c) \subseteq Below(children', a)
             /\ Below(children', a)
                  \subseteq (Below(children, a) \ Below(children, c)) \cup {c} \cup kids
    <3>1. Replaced(children, c, kids, children')
      BY <1>a, <1>b, <1>c, <1>d DEF Replaced
    <3>2. QED
      BY ONLY <2>1, <2>2, <3>1, BelowReplaced, Zenon
  <2>4. \A x \in Below(children, a) : x \in CellId \ kids /\ x \in Cells
    BY <1>3, BelowOwnsPart DEF Cells
  <2>5. PICK x : Owners(children, obligations, a, o) = {x}
    BY <1>3, <2>1 DEF OwnInv
  <2>6. CASE c \notin Below(children, a)
    <3>1. Owners(children', obligations', a, o) = Owners(children, obligations, a, o)
      BY <1>a, <2>3, <2>4, <2>6 DEF Owners
    <3>2. QED
      BY <2>5, <3>1
  <2>7. CASE c \in Below(children, a) /\ o \in obligations[c]
    <3>1. x \in Below(children, c)
      <4>1. PICK z : Owners(children, obligations, c, o) = {z}
        BY <2>7 DEF OwnInv
      <4>2. Below(children, c) \subseteq Below(children, a)
        BY <1>a, <2>1, <2>7, BelowIsNested
      <4>3. QED
        BY <2>5, <4>1, <4>2 DEF Owners
    <3>2. ASSUME NEW y \in Owners(children', obligations', a, o) PROVE y = c \/ y \in kids
      <4>1. SUFFICES ASSUME y # c, y \notin kids PROVE FALSE
        OBVIOUS
      <4>2. y \in Below(children, a) \ Below(children, c)
        BY <2>3, <2>7, <4>1 DEF Owners
      <4>3. y \in Owners(children, obligations, a, o)
        BY <1>a, <2>4, <4>1, <4>2 DEF Owners
      <4>4. QED
        BY <2>5, <3>1, <4>2, <4>3
    <3>3. CASE kids = {}
      <4>1. c \in Owners(children', obligations', a, o)
        BY <1>a, <2>3, <2>7, <3>3 DEF Owners
      <4>2. Owners(children', obligations', a, o) = {c}
        BY <3>2, <3>3, <4>1
      <4>3. QED
        BY <4>2
    <3>4. CASE kids # {}
      <4>1. PICK k \in kids : o \in obligations'[k]
        BY <2>7, <3>4 DEF IsPartition
      <4>2. k \in Owners(children', obligations', a, o)
        BY <1>a, <1>b, <2>3, <2>7, <4>1 DEF Owners
      <4>3. ASSUME NEW y \in Owners(children', obligations', a, o) PROVE y = k
        <5>1. y # c
          BY <1>a, <3>4 DEF Owners
        <5>2. y \in kids /\ o \in obligations'[y]
          BY <3>2, <5>1 DEF Owners
        <5>3. QED
          BY <3>4, <4>1, <5>2 DEF IsPartition
      <4>4. Owners(children', obligations', a, o) = {k}
        BY <4>2, <4>3
      <4>5. QED
        BY <4>4
    <3>5. QED
      BY <3>3, <3>4
  <2>8. CASE c \in Below(children, a) /\ o \notin obligations[c]
    <3>1. x \in Below(children, a) /\ children[x] = {} /\ o \in obligations[x]
      BY <2>5 DEF Owners
    <3>2. x \notin Below(children, c)
      BY <2>8, <3>1, BelowOwnsPart
    <3>3. x # c /\ x \in Below(children', a)
      BY <1>a, <2>3, <2>8, <3>1, <3>2, BelowIsClosed
    <3>4. x \in Owners(children', obligations', a, o)
      BY <1>a, <2>4, <3>1, <3>3 DEF Owners
    <3>5. ASSUME NEW y \in Owners(children', obligations', a, o) PROVE y = x
      <4>1. y \notin kids
        <5>1. y \in kids => obligations'[y] \subseteq obligations[c]
          BY DEF IsPartition
        <5>2. QED
          BY <2>8, <5>1 DEF Owners
      <4>2. y # c
        BY <1>a, <2>8 DEF Owners
      <4>3. y \in Below(children, a)
        BY <2>3, <2>8, <4>1, <4>2 DEF Owners
      <4>4. y \in Owners(children, obligations, a, o)
        BY <1>a, <2>4, <4>1, <4>2, <4>3 DEF Owners
      <4>5. QED
        BY <2>5, <4>4
    <3>6. Owners(children', obligations', a, o) = {x}
      BY <3>4, <3>5
    <3>7. QED
      BY <3>6
  <2>9. QED
    BY <2>6, <2>7, <2>8
<1>4. QED
  BY <1>2, <1>3

LEMMA OwnStep == ASSUME TypeOK, TreeInv, OwnInv, [Next]_vars PROVE OwnInv'
<1>1. CASE TreeKept
  <2>1. children' = children /\ obligations' = obligations /\ Cells' = Cells
    BY <1>1 DEF TreeKept, treeVars
  <2>2. QED
    BY <2>1 DEF OwnInv
<1>2. CASE CreateRoot
  <2>1. children' = children /\ children[Root] = {} /\ Cells' = {Root}
    BY <1>2 DEF CreateRoot, TreeInv, TypeOK, Cells
  <2>2. {Root} \in SUBSET CellId /\ children \in [CellId -> SUBSET CellId]
    BY DEF TypeOK
  <2>3. Below(children, Root) = {Root}
    <3>1. Below(children, Root) \subseteq {Root}
      BY <2>1, <2>2, BelowIsLeast
    <3>2. QED
      BY <2>2, <3>1, BelowIsClosed
  <2>4. ASSUME NEW o \in obligations'[Root]
        PROVE  Owners(children', obligations', Root, o) = {Root}
    BY <2>1, <2>3 DEF Owners
  <2>5. QED
    BY <2>1, <2>4 DEF OwnInv
<1>3. ASSUME NEW c \in CellId, NEW kids \in SUBSET CellId,
             NEW share \in [kids -> SUBSET obligations[c]], Decompose(c, kids, share)
      PROVE  OwnInv'
  <2>1. /\ c \in Cells /\ kids \cap Cells = {} /\ Cells' = Cells \cup kids
        /\ children' = [children EXCEPT ![c] = kids]
        /\ \A x \in CellId \ kids : obligations'[x] = obligations[x]
        /\ \A k \in kids : obligations'[k] = share[k]
        /\ IsPartition(share, kids, obligations[c])
    BY <1>3 DEF TypeOK, Decompose, AreNew, Cells
  <2>2. IsPartition(obligations', kids, obligations[c])
    BY <2>1 DEF IsPartition
  <2>3. QED
    BY <2>1, <2>2, OwnersReplaced
<1>4. ASSUME NEW c \in CellId, NEW b \in Basis, NEW runnable \in BOOLEAN,
             ReviseTests(c, b, runnable)
      PROVE  OwnInv'
  <2>1. /\ c \in Cells /\ Cells' = Cells /\ obligations' = obligations
        /\ children' = [children EXCEPT ![c] = {}]
    BY <1>4 DEF TypeOK, ReviseTests, Transition, Cells
  <2>2. QED
    BY <2>1, OwnersReplaced
<1>5. QED
  BY <1>1, <1>2, <1>3, <1>4, TreeMoves

(* A root that is not there owns nothing.                                   *)
RootInv == Root \notin Cells => Cells = {} /\ obligations[Root] = {}

LEMMA RootStep == ASSUME TypeOK, RootInv, [Next]_vars PROVE RootInv'
<1>1. CASE TreeKept
  BY <1>1 DEF TreeKept, treeVars, RootInv
<1>2. CASE CreateRoot
  BY <1>2 DEF CreateRoot, RootInv, TypeOK, Cells
<1>3. ASSUME NEW c \in CellId, NEW kids \in SUBSET CellId,
             NEW share \in [kids -> SUBSET obligations[c]], Decompose(c, kids, share)
      PROVE  RootInv'
  BY <1>3 DEF Decompose, AreNew, RootInv, TypeOK, Cells
<1>4. ASSUME NEW c \in CellId, NEW b \in Basis, NEW runnable \in BOOLEAN,
             ReviseTests(c, b, runnable)
      PROVE  RootInv'
  BY <1>4 DEF ReviseTests, Transition, RootInv, TypeOK, Cells
<1>5. QED
  BY <1>1, <1>2, <1>3, <1>4, TreeMoves

LEMMA OwnCorrect == Spec => [](TypeOK /\ TreeInv /\ OwnInv /\ RootInv)
<1>1. Init => OwnInv
  BY DEF Init, OwnInv, Cells
<1>2. TypeOK /\ TreeInv /\ OwnInv /\ [Next]_vars => OwnInv'
  BY OwnStep
<1>3. Init => RootInv
  BY DEF Init, RootInv, Cells
<1>4. TypeOK /\ RootInv /\ [Next]_vars => RootInv'
  BY RootStep
<1>5. QED
  BY <1>1, <1>2, <1>3, <1>4, TreeCorrect, PTL DEF Spec

(* Attached is what is below the root.                                      *)
LEMMA AttachedIsBelow ==
    ASSUME TypeOK, TreeInv, Root \in Cells
    PROVE  Attached = Below(children, Root)
<1>1. children \in [CellId -> SUBSET CellId] /\ Cells \in SUBSET CellId
  BY DEF TypeOK, Cells
<1>2. Below(children, Root) \in SUBSET Cells
  BY BelowOwnsPart
<1>3. Attached \subseteq Below(children, Root)
  <2>1. /\ Root \in Below(children, Root)
        /\ \A x \in Below(children, Root) : children[x] \subseteq Below(children, Root)
    BY <1>1, BelowIsClosed
  <2>2. QED
    BY <1>2, <2>1 DEF Attached
<1>4. ASSUME NEW x \in Below(children, Root), NEW S \in SUBSET Cells,
             Root \in S, \A y \in S : children[y] \subseteq S
      PROVE  x \in S
  <2>1. S \in SUBSET CellId
    BY <1>1
  <2>2. QED
    BY <1>4, <2>1, BelowIsLeast
<1>5. Below(children, Root) \subseteq Attached
  BY <1>2, <1>4 DEF Attached
<1>6. QED
  BY <1>3, <1>5

(* Whatever is decomposed, decomposed again or revised, at any depth: every *)
(* obligation of the run is owned by exactly one undecomposed cell of the   *)
(* tree.                                                                    *)
THEOREM FrontierOwnsCorrect == Spec => []FrontierOwnsEveryObligationOnce
<1>1. ASSUME TypeOK, TreeInv, OwnInv, RootInv
      PROVE  FrontierOwnsEveryObligationOnce
  <2>1. SUFFICES ASSUME NEW o \in obligations[Root]
                 PROVE  Cardinality({c \in Attached : children[c] = {} /\ o \in obligations[c]}) = 1
    BY DEF FrontierOwnsEveryObligationOnce
  <2>2. Root \in Cells
    BY <1>1 DEF RootInv
  <2>3. PICK x : Owners(children, obligations, Root, o) = {x}
    BY <1>1, <2>2 DEF OwnInv
  <2>4. {c \in Attached : children[c] = {} /\ o \in obligations[c]} = {x}
    BY <1>1, <2>2, <2>3, AttachedIsBelow DEF Owners
  <2>5. QED
    BY <2>4, FS_Singleton
<1>2. QED
  BY <1>1, OwnCorrect, PTL

-----------------------------------------------------------------------------
(* Through the facade.                                                      *)

(* A cell only has children once it is reviewed as a composite; when it has *)
(* left the phase "children" they are closed, and what was integrated is    *)
(* what they were frozen with, since nothing moves a closed cell.           *)
FacadeInv ==
    \A c \in CellId :
        /\ phase[c] \notin {"children", "integration", "post_review", "closed"} =>
              children[c] = {}
        /\ phase[c] \in {"integration", "post_review", "closed"} => ChildrenClosed(c)
        /\ integration[c] =>
              /\ phase[c] \in {"post_review", "closed"}
              /\ \A k \in children[c] : seenBasis[c][k] = at[k]["freeze"]
        /\ phase[c] \in {"post_review", "closed"} /\ children[c] # {} => integration[c]

(* What most operations of the facade do: they move one cell that is not    *)
(* closed.                                                                  *)
Moves(c) ==
    /\ ~Closed(c) /\ children' = children
    /\ \A x \in CellId \ {c} :
          /\ phase'[x] = phase[x] /\ integration'[x] = integration[x]
          /\ seenBasis'[x] = seenBasis[x] /\ at'[x] = at[x]

(* Such an operation disturbs no other cell.                                *)
LEMMA MovesKeepOthers ==
    ASSUME TypeOK, FacadeInv, NEW c \in CellId, Moves(c), NEW x \in CellId, x # c
    PROVE  /\ phase'[x] \notin {"children", "integration", "post_review", "closed"} =>
                 children'[x] = {}
           /\ phase'[x] \in {"integration", "post_review", "closed"} => ChildrenClosed(x)'
           /\ integration'[x] =>
                 /\ phase'[x] \in {"post_review", "closed"}
                 /\ \A k \in children'[x] : seenBasis'[x][k] = at'[k]["freeze"]
           /\ phase'[x] \in {"post_review", "closed"} /\ children'[x] # {} => integration'[x]
<1>1. \A k \in children[x] : k \in CellId
  BY DEF TypeOK
<1>2. phase[x] \in {"integration", "post_review", "closed"} =>
          \A k \in children[x] : Closed(k) /\ k # c /\ Closed(k)'
  BY <1>1 DEF FacadeInv, ChildrenClosed, Moves, Closed
<1>3. QED
  BY <1>1, <1>2 DEF FacadeInv, ChildrenClosed, Moves

LEMMA FacadeStep == ASSUME TypeOK, TreeInv, FacadeInv, [FacadeNext]_vars PROVE FacadeInv'
<1> DEFINE Part(x) ==
      /\ phase[x] \notin {"children", "integration", "post_review", "closed"} =>
            children[x] = {}
      /\ phase[x] \in {"integration", "post_review", "closed"} => ChildrenClosed(x)
      /\ integration[x] =>
            /\ phase[x] \in {"post_review", "closed"}
            /\ \A k \in children[x] : seenBasis[x][k] = at[k]["freeze"]
      /\ phase[x] \in {"post_review", "closed"} /\ children[x] # {} => integration[x]
<1>a. \A x \in CellId : Part(x)
  BY DEF FacadeInv
<1>b. ASSUME NEW c \in CellId, Moves(c), Part(c)' PROVE FacadeInv'
  <2>1. ASSUME NEW x \in CellId, x # c PROVE Part(x)'
    BY <1>b, <2>1, MovesKeepOthers
  <2>2. QED
    BY <1>b, <2>1 DEF FacadeInv
<1> USE DEF Transition, Bump, Stamp, treeVars, testVars, reviewVars, resultVars, noteVars, histVars
<1>c. ASSUME NEW c \in CellId, Moves(c), ChildrenClosed(c) PROVE ChildrenClosed(c)'
  <2>1. \A k \in children[c] : k \in CellId /\ k # c
    BY <1>c DEF TypeOK, ChildrenClosed, Moves
  <2>2. QED
    BY <1>c, <2>1 DEF ChildrenClosed, Moves, Closed
<1>1. CASE CreateRoot
  <2>1. \A x \in CellId : children[x] = {} /\ phase[x] = "absent"
    BY <1>1 DEF CreateRoot, TreeInv, Cells
  <2>2. /\ children' = children /\ integration' = integration
        /\ \A x \in CellId : phase'[x] \in {"absent", "contract"}
    BY <1>1, <2>1 DEF CreateRoot, TypeOK
  <2>3. \A x \in CellId : ~integration[x]
    BY <1>a, <2>1
  <2>4. QED
    BY <2>1, <2>2, <2>3 DEF FacadeInv
<1>2. ASSUME NEW c \in CellId, AcceptContract(c) PROVE FacadeInv'
  <2>1. Moves(c)
    BY <1>2 DEF AcceptContract, Moves, Closed, TypeOK
  <2>2. Part(c)'
    BY <1>2, <1>a DEF AcceptContract, TypeOK
  <2>3. QED
    BY <1>b, <2>1, <2>2
<1>3. ASSUME NEW c \in CellId, NEW b \in Basis, NEW runnable \in BOOLEAN,
             FreezeTests(c, b, runnable)
      PROVE  FacadeInv'
  <2>1. Moves(c)
    BY <1>3 DEF FreezeTests, Moves, Closed, TypeOK
  <2>2. Part(c)'
    BY <1>3, <1>a DEF FreezeTests, TypeOK
  <2>3. QED
    BY <1>b, <2>1, <2>2
<1>4. ASSUME NEW c \in CellId, RecordPlan(c) PROVE FacadeInv'
  <2>1. Moves(c)
    BY <1>4 DEF RecordPlan, Moves, Closed, TypeOK
  <2>2. Part(c)'
    BY <1>4, <1>a DEF RecordPlan, TypeOK
  <2>3. QED
    BY <1>b, <2>1, <2>2
<1>5. ASSUME NEW c \in CellId, NEW isLeaf \in BOOLEAN, NEW open \in BOOLEAN,
             RecordPreReview(c, isLeaf, open)
      PROVE  FacadeInv'
  <2>1. Moves(c)
    BY <1>5 DEF RecordPreReview, Moves, Closed, TypeOK
  <2>2. Part(c)'
    BY <1>5, <1>a DEF RecordPreReview, TypeOK
  <2>3. QED
    BY <1>b, <2>1, <2>2
<1>6. ASSUME NEW c \in CellId, NEW kids \in SUBSET CellId,
             NEW share \in [kids -> SUBSET obligations[c]], Decompose(c, kids, share)
      PROVE  FacadeInv'
  <2>1. /\ phase[c] = "children" /\ c \in Cells /\ kids \cap Cells = {}
        /\ \A x \in CellId : phase'[x] = IF x \in kids THEN "contract" ELSE phase[x]
        /\ \A x \in CellId : children'[x] = IF x = c THEN kids ELSE children[x]
        /\ UNCHANGED <<integration, seenBasis, at>>
    BY <1>6 DEF TypeOK, Decompose, AreNew, Cells
  <2>2. ASSUME NEW x \in CellId PROVE Part(x)'
    <3>1. CASE x = c
      BY <1>a, <2>1, <3>1
    <3>2. CASE x \in kids
      <4>1. phase[x] = "absent" /\ children'[x] = {} /\ ~integration[x] /\ phase'[x] = "contract"
        BY <1>a, <2>1, <3>2 DEF Cells
      <4>2. QED
        BY <2>1, <4>1
    <3>3. CASE x # c /\ x \notin kids
      <4>1. phase'[x] = phase[x] /\ children'[x] = children[x]
        BY <2>1, <3>3
      <4>2. \A k \in children[x] : k \in CellId /\ phase'[k] = phase[k]
        BY <2>1 DEF TypeOK, TreeInv, ExactPartition, Cells
      <4>3. ChildrenClosed(x)' <=> ChildrenClosed(x)
        BY <4>1, <4>2 DEF ChildrenClosed, Closed
      <4>4. QED
        BY <1>a, <2>1, <4>1, <4>3
    <3>4. QED
      BY <3>1, <3>2, <3>3
  <2>3. QED
    BY <2>2 DEF FacadeInv
<1>7. ASSUME NEW c \in CellId, RecordVerification(c) PROVE FacadeInv'
  <2>1. Moves(c)
    BY <1>7 DEF RecordVerification, Moves, Closed, TypeOK
  <2>2. children[c] = {} /\ ~integration[c]
    BY <1>7, <1>a DEF RecordVerification
  <2>3. Part(c)'
    BY <1>7, <2>2 DEF RecordVerification, TypeOK, ChildrenClosed
  <2>4. QED
    BY <1>b, <2>1, <2>3
<1>8. ASSUME NEW c \in CellId, BeginIntegration(c) PROVE FacadeInv'
  <2>1. Moves(c)
    BY <1>8 DEF BeginIntegration, CanIntegrate, Moves, Closed, TypeOK
  <2>2. ChildrenClosed(c)' /\ ~integration[c] /\ phase'[c] = "integration"
    BY <1>8, <1>a, <1>c, <2>1 DEF BeginIntegration, CanIntegrate, TypeOK
  <2>3. Part(c)'
    BY <1>8, <2>2 DEF BeginIntegration
  <2>4. QED
    BY <1>b, <2>1, <2>3
<1>9. ASSUME NEW c \in CellId, NEW r, Integrate(c, r), ChildrenClosed(c),
             phase[c] \in {"children", "integration"}
      PROVE  FacadeInv'
  <2>1. Moves(c)
    BY <1>9 DEF Integrate, Moves, Closed, TypeOK
  <2>2. ChildrenClosed(c)'
    BY <1>9, <1>c, <2>1
  <2>3. \A k \in children[c] : k \in CellId /\ k # c
    BY <1>9 DEF TypeOK, ChildrenClosed, Closed
  <2>4. \A k \in children'[c] : seenBasis'[c][k] = at'[k]["freeze"]
    BY <1>9, <2>3 DEF Integrate, TypeOK
  <2>5. Part(c)'
    BY <1>9, <2>2, <2>4 DEF Integrate, TypeOK
  <2>6. QED
    BY <1>b, <2>1, <2>5
<1>10. ASSUME NEW c \in CellId, NEW green \in BOOLEAN, RecordIntegration(c, green)
       PROVE  FacadeInv'
  BY <1>10, <1>8, <1>9, <1>a DEF RecordIntegration, CanIntegrate
<1>11. ASSUME NEW c \in CellId, RecordPostReview(c) PROVE FacadeInv'
  <2>1. Moves(c) /\ phase[c] = "post_review" /\ phase' = phase /\ UNCHANGED <<integration, seenBasis, children>>
    BY <1>11 DEF RecordPostReview, Moves, Closed, TypeOK
  <2>2. ChildrenClosed(c)'
    BY <1>a, <1>c, <2>1
  <2>3. \A k \in children[c] : k # c
    BY <1>a, <2>1 DEF ChildrenClosed, Closed
  <2>4. \A k \in children[c] : at'[k]["freeze"] = at[k]["freeze"]
    BY <2>1, <2>3 DEF Moves, TypeOK
  <2>5. Part(c)'
    BY <1>a, <2>1, <2>2, <2>4
  <2>6. QED
    BY <1>b, <2>1, <2>5
<1>12. ASSUME NEW c \in CellId, Close(c) PROVE FacadeInv'
  <2>1. /\ Moves(c) /\ phase[c] = "post_review" /\ phase'[c] = "closed"
        /\ UNCHANGED <<integration, seenBasis, at, children>>
    BY <1>12 DEF Close, Moves, Closed, TypeOK
  <2>2. ChildrenClosed(c)'
    BY <1>a, <1>c, <2>1
  <2>3. Part(c)'
    BY <1>a, <2>1, <2>2
  <2>4. QED
    BY <1>b, <2>1, <2>3
<1>13. CASE UNCHANGED vars
  BY <1>13 DEF vars, FacadeInv, ChildrenClosed, Closed
<1>14. QED
  BY <1>1, <1>2, <1>3, <1>4, <1>5, <1>6, <1>7, <1>8, <1>10, <1>11, <1>12, <1>13 DEF FacadeNext

(* It holds until a call is made past the facade: a claim resolved changes  *)
(* nothing it speaks of.                                                    *)
LEMMA UntilDirect ==
    ASSUME TypeOK, TreeInv, direct = 0 => FacadeInv, [Next]_vars, direct' = 0
    PROVE  direct = 0 /\ FacadeInv'
<1>1. direct = 0 /\ (FacadeNext \/ Resolves \/ UNCHANGED vars)
  BY DirectAssumption DEF Next, Resolves, vars, TypeOK
<1>2. CASE FacadeNext
  BY <1>1, <1>2, FacadeStep
<1>3. CASE Resolves
  BY <1>1, <1>3 DEF Resolves, ResolveClaim, treeVars, resultVars, histVars, FacadeInv,
                    ChildrenClosed, Closed
<1>4. CASE UNCHANGED vars
  BY <1>1, <1>4 DEF vars, treeVars, resultVars, histVars, FacadeInv, ChildrenClosed, Closed
<1>5. QED
  BY <1>1, <1>2, <1>3, <1>4

LEMMA FacadeCorrect == Spec => [](TypeOK /\ TreeInv /\ OwnInv /\ (direct = 0 => FacadeInv))
<1>1. Init => (direct = 0 => FacadeInv)
  BY DEF Init, FacadeInv
<1>2. TypeOK /\ TreeInv /\ (direct = 0 => FacadeInv) /\ [Next]_vars => (direct = 0 => FacadeInv)'
  BY UntilDirect
<1>3. QED
  BY <1>1, <1>2, OwnCorrect, PTL DEF Spec

(* Before a direct call a closed root stands on a tree that is closed all the *)
(* way down, its leaves verified, and every obligation of the run is owned  *)
(* by exactly one of them.                                                  *)
THEOREM ClosedRootCorrect == Spec => []ClosedRootMeansEveryFrontierVerified
<1>1. ASSUME TypeOK, TreeInv, FacadeInv, ClosedHasEvidence, Closed(Root), NEW c \in Attached
      PROVE  Closed(c) /\ (children[c] = {} => verification[c])
  <2> DEFINE S == {x \in Cells : Closed(x)}
  <2>1. S \in SUBSET Cells /\ Root \in S
    BY <1>1 DEF Closed, Cells
  <2>2. ASSUME NEW x \in S, NEW k \in children[x] PROVE k \in S
    BY <1>1 DEF FacadeInv, ChildrenClosed, Closed, Cells, TypeOK
  <2>3. \A x \in S : children[x] \subseteq S
    BY <2>2
  <2>4. c \in S
    BY <2>1, <2>3 DEF Attached
  <2>5. QED
    BY <1>1, <2>4 DEF ClosedHasEvidence
<1>2. ASSUME TypeOK, TreeInv, direct = 0 => FacadeInv, ClosedHasEvidence,
             FrontierOwnsEveryObligationOnce
      PROVE  ClosedRootMeansEveryFrontierVerified
  BY <1>1, <1>2 DEF ClosedRootMeansEveryFrontierVerified
<1>3. QED
  BY <1>2, FacadeCorrect, ClosedHasEvidenceCorrect, FrontierOwnsCorrect, PTL

(* Nothing but Close closes a cell.                                         *)
LEMMA OnlyCloseCloses ==
    ASSUME TypeOK, [FacadeNext]_vars, NEW c \in CellId, ~Closed(c), Closed(c)'
    PROVE  Close(c)
<1> USE DEF TypeOK, Closed, Transition, Bump
<1>1. ~UNCHANGED phase
  OBVIOUS
<1>2. ~CreateRoot
  BY DEF CreateRoot
<1>3. ASSUME NEW x \in CellId
      PROVE  /\ ~AcceptContract(x) /\ ~RecordPlan(x) /\ ~RecordVerification(x)
             /\ ~BeginIntegration(x) /\ ~RecordPostReview(x) /\ (Close(x) => x = c)
  BY DEF AcceptContract, RecordPlan, RecordVerification, BeginIntegration, RecordPostReview,
     Close
<1>4. ASSUME NEW x \in CellId, NEW b \in Basis, NEW runnable \in BOOLEAN
      PROVE  ~FreezeTests(x, b, runnable)
  BY DEF FreezeTests
<1>5. ASSUME NEW x \in CellId, NEW isLeaf \in BOOLEAN, NEW open \in BOOLEAN
      PROVE  ~RecordPreReview(x, isLeaf, open)
  BY DEF RecordPreReview
<1>6. ASSUME NEW x \in CellId, NEW kids \in SUBSET CellId,
             NEW share \in [kids -> SUBSET obligations[x]]
      PROVE  ~Decompose(x, kids, share)
  BY DEF Decompose
<1>7. ASSUME NEW x \in CellId, NEW green \in BOOLEAN PROVE ~RecordIntegration(x, green)
  BY <1>3 DEF RecordIntegration, Integrate
<1>8. UNCHANGED vars => UNCHANGED phase
  BY DEF vars
<1>9. QED
  BY ONLY <1>1, <1>2, <1>3, <1>4, <1>5, <1>6, <1>7, <1>8, [FacadeNext]_vars, Zenon
     DEF FacadeNext

(* Before a direct call a composite closes on an integration of the tests   *)
(* its children have now.                                                   *)
THEOREM ClosesOnCurrentIntegrationCorrect == Spec => ClosesOnCurrentIntegration
<1> DEFINE Current == \A c \in CellId : direct' = 0 /\ ~Closed(c) /\ Closed(c)' =>
                        \A k \in children[c] : seenBasis[c][k] = at[k]["freeze"]
<1>1. ASSUME TypeOK, TreeInv, direct = 0 => FacadeInv, [Next]_vars, NEW c \in CellId,
             direct' = 0, ~Closed(c), Closed(c)', NEW k \in children[c]
      PROVE  seenBasis[c][k] = at[k]["freeze"]
  <2>1. direct = 0 /\ (FacadeNext \/ Resolves \/ UNCHANGED vars)
    BY <1>1, DirectAssumption DEF Next, Resolves, vars, TypeOK
  <2>2. CASE FacadeNext
    <3>1. Close(c)
      BY <1>1, <2>2, OnlyCloseCloses
    <3>2. integration[c]
      BY <1>1, <3>1 DEF Close
    <3>3. QED
      BY <1>1, <2>1, <3>2 DEF FacadeInv
  <2>3. ~Resolves /\ ~UNCHANGED vars
    <3>1. phase' # phase
      BY <1>1 DEF Closed
    <3>2. QED
      BY <3>1 DEF Resolves, ResolveClaim, vars
  <2>4. QED
    BY <2>1, <2>2, <2>3
<1>2. TypeOK /\ TreeInv /\ (direct = 0 => FacadeInv) /\ [Next]_vars => [Current]_vars
  BY <1>1
<1>3. QED
  BY <1>2, FacadeCorrect, PTL DEF Spec, ClosesOnCurrentIntegration

-----------------------------------------------------------------------------
(* Revisions.                                                               *)

\* An identifier that is not in the graph has had no revision and no claim.
AbsentInv ==
    \A c \in CellId : phase[c] = "absent" =>
        revision[c] = 0 /\ \A cl \in Claim : claims[c][cl] = "none"

\* A step moves the revision of one cell and touches no other,
Bumps(c) ==
    /\ revision'[c] > revision[c] /\ phase'[c] # "absent"
    /\ \A x \in CellId \ {c} : Material(x)' = Material(x) /\ revision'[x] = revision[x]

\* or leaves every cell what it was.
Rests == \A x \in CellId : Material(x)' = Material(x) /\ revision'[x] = revision[x]

LEMMA StepBumps ==
    ASSUME TypeOK, AbsentInv, [Next]_vars
    PROVE  \/ Rests
           \/ \E c \in CellId : Bumps(c)
           \/ \E c \in CellId, kids \in SUBSET CellId :
                 \E share \in [kids -> SUBSET obligations[c]] : Decompose(c, kids, share)
<1> USE DEF TypeOK, Material, Transition, Bump, treeVars, testVars, reviewVars, resultVars,
            noteVars, histVars, ForgetReview, ForgetResults, Closed, Cells
<1>1. CreateRoot => Bumps(Root)
  BY DEF CreateRoot, Bumps
<1>2. ASSUME NEW c \in CellId PROVE AcceptContract(c) => Bumps(c)
  BY DEF AcceptContract, Bumps
<1>3. ASSUME NEW c \in CellId, NEW b \in Basis, NEW runnable \in BOOLEAN
      PROVE  FreezeTests(c, b, runnable) \/ ReviseTests(c, b, runnable) => Bumps(c)
  BY DEF FreezeTests, ReviseTests, Bumps
<1>4. ASSUME NEW c \in CellId PROVE RecordPlan(c) => Bumps(c)
  BY DEF RecordPlan, Bumps
<1>5. ASSUME NEW c \in CellId, NEW isLeaf \in BOOLEAN, NEW open \in BOOLEAN
      PROVE  RecordPreReview(c, isLeaf, open) => Bumps(c)
  BY DEF RecordPreReview, Bumps
<1>6. ASSUME NEW c \in CellId PROVE RecordVerification(c) => Bumps(c)
  BY DEF RecordVerification, Bumps
<1>7. ASSUME NEW c \in CellId PROVE BeginIntegration(c) => Bumps(c)
  BY DEF BeginIntegration, Bumps
<1>8. ASSUME NEW c \in CellId, NEW r \in Nat, Integrate(c, r), revision[c] <= r,
             phase[c] \in {"children", "integration"}
      PROVE  Bumps(c)
  BY <1>8 DEF Integrate, Bumps
<1>9. ASSUME NEW c \in CellId, NEW green \in BOOLEAN PROVE RecordIntegration(c, green) => Bumps(c)
  <2>1. revision[c] \in Nat /\ revision[c] + 1 \in Nat /\ revision[c] <= revision[c] + 1
    OBVIOUS
  <2>2. QED
    BY <1>7, <1>8, <2>1 DEF RecordIntegration, CanIntegrate
<1>10. ASSUME NEW c \in CellId PROVE RecordPostReview(c) => Rests
  BY DEF RecordPostReview, Rests
<1>11. ASSUME NEW c \in CellId PROVE Close(c) \/ Reopen(c) => Bumps(c)
  BY DEF Close, Reopen, Bumps
<1>12. ASSUME NEW c \in CellId, NEW cl \in Claim, NEW status \in {"suspected", "verified"}
       PROVE  AddClaim(c, cl, status) => Bumps(c)
  BY DEF AddClaim, Bumps
<1>13. ASSUME NEW c \in CellId, NEW cl \in Claim PROVE ResolveClaim(c, cl) => Bumps(c)
  BY DEF ResolveClaim, Bumps, AbsentInv
<1>14. ASSUME NEW c \in CellId, NEW r \in Reviewer PROVE AddApproval(c, r) => Rests
  BY DEF AddApproval, Rests
<1>15. ASSUME NEW c \in CellId, NEW affected \in SUBSET Cells, NEW cl \in Claim
       PROVE  RouteVerifiedIssue(c, affected, cl) => Bumps(c)
  BY DEF RouteVerifiedIssue, Bumps
<1>16. UNCHANGED vars => Rests
  BY DEF vars, Rests
<1> DEFINE Splits == \E c \in CellId, kids \in SUBSET CellId :
                        \E share \in [kids -> SUBSET obligations[c]] : Decompose(c, kids, share)
<1>17. CASE FacadeNext
  <2>1. ASSUME NEW c \in CellId, NEW kids \in SUBSET CellId,
               NEW share \in [kids -> SUBSET obligations[c]]
        PROVE  Decompose(c, kids, share) => Splits
    OBVIOUS
  <2> HIDE DEF Splits
  <2>2. Rests \/ (\E c \in CellId : Bumps(c)) \/ Splits
    BY ONLY <1>17, CellAssumption, <1>1, <1>2, <1>3, <1>4, <1>5, <1>6, <1>7, <1>9, <1>10,
            <1>11, <2>1, Zenon DEF FacadeNext
  <2>3. QED
    BY <2>2 DEF Splits
<1>18. CASE DirectNext
  BY ONLY <1>18, <1>3, <1>11, <1>12, <1>14, <1>15, Zenon DEF DirectNext
<1>19. CASE Resolves
  BY ONLY <1>19, <1>13, Zenon DEF Resolves
<1>20. QED
  BY ONLY NextCases, [Next]_vars, <1>16, <1>17, <1>18, <1>19

\* What the only step that moves more than one cell does to their revisions.
LEMMA DecomposeBumps ==
    ASSUME TypeOK, AbsentInv, NEW c \in CellId, NEW kids \in SUBSET CellId,
           NEW share \in [kids -> SUBSET obligations[c]], Decompose(c, kids, share),
           NEW x \in CellId
    PROVE  /\ x \in kids \cup {c} => revision'[x] > revision[x] /\ phase'[x] # "absent"
           /\ x \notin kids \cup {c} =>
                 Material(x)' = Material(x) /\ revision'[x] = revision[x]
<1>1. x \in kids => phase[x] = "absent"
  BY DEF Decompose, AreNew, Cells
<1>2. c \notin kids
  BY DEF Decompose, AreNew, Cells
<1>3. QED
  BY <1>1, <1>2 DEF Decompose, TypeOK, AbsentInv, Material, testVars, reviewVars, resultVars,
                    noteVars, histVars

LEMMA AbsentStep == ASSUME TypeOK, AbsentInv, [Next]_vars PROVE AbsentInv'
<1> DEFINE Same(x) == phase'[x] = phase[x] /\ revision'[x] = revision[x] /\ claims'[x] = claims[x]
<1>0. ASSUME NEW x \in CellId, Material(x)' = Material(x), revision'[x] = revision[x]
      PROVE  Same(x)
  BY <1>0 DEF Material
<1>1. CASE Rests
  BY <1>0, <1>1 DEF Rests, AbsentInv
<1>2. ASSUME NEW c \in CellId, Bumps(c) PROVE AbsentInv'
  BY <1>0, <1>2 DEF Bumps, AbsentInv
<1>3. ASSUME NEW c \in CellId, NEW kids \in SUBSET CellId,
             NEW share \in [kids -> SUBSET obligations[c]], Decompose(c, kids, share)
      PROVE  AbsentInv'
  BY <1>0, <1>3, DecomposeBumps DEF AbsentInv
<1>4. QED
  BY <1>1, <1>2, <1>3, StepBumps

LEMMA AbsentCorrect == Spec => [](TypeOK /\ AbsentInv)
<1>1. Init => AbsentInv
  BY DEF Init, AbsentInv
<1>2. TypeOK /\ AbsentInv /\ [Next]_vars => AbsentInv'
  BY AbsentStep
<1>3. QED
  BY <1>1, <1>2, TypeCorrect, PTL DEF Spec

(* Whatever changes what a result was made for, in this cell or by what is  *)
(* done to another, moves the revision of the cell.                         *)
THEOREM MaterialChangeBumpsRevisionCorrect == Spec => MaterialChangeBumpsRevision
<1>1. TypeOK /\ AbsentInv /\ [Next]_vars
      => [\A c \in CellId : Material(c)' # Material(c) => revision'[c] > revision[c]]_vars
  <2> SUFFICES ASSUME TypeOK, AbsentInv, [Next]_vars, NEW x \in CellId,
                      Material(x)' # Material(x)
               PROVE  revision'[x] > revision[x]
    OBVIOUS
  <2>1. ~Rests
    BY DEF Rests
  <2>2. ASSUME NEW c \in CellId, Bumps(c) PROVE revision'[x] > revision[x]
    BY <2>2 DEF Bumps
  <2>3. ASSUME NEW c \in CellId, NEW kids \in SUBSET CellId,
               NEW share \in [kids -> SUBSET obligations[c]], Decompose(c, kids, share)
        PROVE  revision'[x] > revision[x]
    BY <2>3, DecomposeBumps
  <2>4. QED
    BY <2>1, <2>2, <2>3, StepBumps
<1>2. QED
  BY <1>1, AbsentCorrect, PTL DEF Spec, MaterialChangeBumpsRevision

=============================================================================

---------------------------- MODULE HarnessDriver ----------------------------
(***************************************************************************)
(* LoopDriver with harnesses behind it (loopstrap_core/driver.py): the     *)
(* driver asks its provider for the result of a cell's phase; the provider *)
(* dispatches a job for some roles of some cells, as HarnessRoleExecutor   *)
(* does for all of them, and answers the others itself.  What the result   *)
(* leads to is applied through the system, which wants to know more about  *)
(* a cell with jobs than the driver ever tells it.                         *)
(*                                                                         *)
(* The dispatch, the operations on a cell, crashes and recoveries are      *)
(* module Dispatch's actions.  Decoding a result is a choice of its        *)
(* outcome; the events and the intervention of a resume are LoopRun's.     *)
(***************************************************************************)
EXTENDS Dispatch, Sequences

CONSTANTS
    NoCell,
    Place,       \* the place of each cell in the order (-depth, cell_id)
    Provider,    \* the providers considered: the roles each one dispatches, by cell
    MaxResumes   \* bound

ASSUME PlaceAssumption ==
    /\ NoCell \notin CellId
    /\ Place \in [CellId -> Nat]
    /\ \A c, k \in CellId : Place[c] = Place[k] => c = k
ASSUME ProviderAssumption == Provider \subseteq [CellId -> SUBSET Role]
ASSUME ResumeAssumption == MaxResumes \in Nat

VARIABLES
    provider,    \* one of them, for good
    status,      \* run_status
    asked,       \* the cell whose result the driver waits for or applies
    todo,        \* the operations of the result that are still to come
    resumes

driverVars == <<provider, status, asked, todo, resumes>>
allVars == <<vars, driverVars>>

OperationName == {"prescribe", "pre_review", "decompose", "verify", "integrate",
                  "post_review", "close"}

DriverTypeOK ==
    /\ TypeOK
    /\ provider \in Provider
    /\ status \in {"active", "parked"}
    /\ asked \in CellId \cup {NoCell}
    /\ todo \in Seq(OperationName)
    /\ resumes \in 0..MaxResumes

DriverInit ==
    /\ Init
    /\ provider \in Provider
    /\ status = "active" /\ asked = NoCell /\ todo = << >>
    /\ resumes = 0

-----------------------------------------------------------------------------
\* An exception is caught and the run parked.
Park ==
    /\ status' = "parked"
    /\ asked' = NoCell /\ todo' = << >>
    /\ UNCHANGED <<provider, resumes>>

\* The provider has an answer for c.
Answered(c) ==
    /\ asked' = c
    /\ todo' = [contract |-> << "prescribe" >>, tests |-> << "prescribe" >>,
                plan |-> << "prescribe" >>,
                pre_review |-> IF Leaf(c) THEN << "pre_review" >>
                               ELSE << "pre_review", "decompose" >>,
                implementation |-> << "verify" >>, integration |-> << "integrate" >>,
                post_review |-> << "post_review", "close" >>][mem.phase[c]]
    /\ UNCHANGED <<provider, status, resumes>>

-----------------------------------------------------------------------------
(* Variants with a plausible mistake, one per property: each run shows that *)
(* its property would notice the mistake.  Nothing below uses them.         *)

\* The answer is taken without looking for the job.
TakeResultAnyway ==
    /\ pc = "idle" /\ asked # NoCell /\ todo = << >>
    /\ Answered(asked)
    /\ UNCHANGED vars
\* A composite with children is left to them for good.
WaitsForEver(c) == mem.phase[c] = "children" /\ \E k \in KidsOf[c] : mem.phase[k] # "absent"

-----------------------------------------------------------------------------
(* _next: the first of the deepest cells there is something to do for.      *)

Undecomposed(c) ==
    mem.phase[c] = "children" /\ \A k \in KidsOf[c] : mem.phase[k] = "absent"
Waits(c) ==
    /\ mem.phase[c] = "children" /\ ~Undecomposed(c)
    /\ \E k \in KidsOf[c] : mem.phase[k] # "closed"
Runnable == {c \in CellId : mem.phase[c] \notin {"absent", "closed"} /\ ~Waits(c)}

\* The top of the loop of run.
Chosen(c) ==
    /\ pc = "idle" /\ asked = NoCell
    /\ status = "active" /\ mem.phase[Root] # "closed"
    /\ c \in Runnable /\ \A k \in Runnable : Place[c] <= Place[k]

ParkUndecomposed(c) ==
    /\ Chosen(c) /\ Undecomposed(c)
    /\ Park /\ UNCHANGED vars

BeginIntegration(c) ==
    /\ Chosen(c) /\ mem.phase[c] = "children" /\ ~Undecomposed(c)
    /\ Integrate(c) /\ UNCHANGED driverVars

AnswerItself(c) ==
    /\ Chosen(c) /\ mem.phase[c] # "children"
    /\ RoleAt[mem.phase[c]] \notin provider[c]
    /\ Answered(c) /\ UNCHANGED vars

\* HarnessRoleExecutor.__call__, with what the two factories give it.  The
\* dispatch begins, returns a completed job or is refused.
Returned(c, a, lineage) ==
    \E j \in mem.jobs : j.key = KeyOf(c, a) /\ j.lineage = lineage
Delegate(c, a, lineage) ==
    /\ Chosen(c) /\ RoleAt[mem.phase[c]] \in provider[c]
    /\ Reserve(c, a, lineage)
    /\ \/ /\ pc' = "prepare" /\ asked' = c
          /\ UNCHANGED <<provider, status, todo, resumes>>
       \/ pc' = "idle" /\ Returned(c, a, lineage) /\ Answered(c)
       \/ pc' = "idle" /\ ~Returned(c, a, lineage) /\ Park

\* RoleRouter.resolve refuses before there is a reservation.
ParkUnresolved(c, lineage) ==
    /\ Chosen(c) /\ RoleAt[mem.phase[c]] \in provider[c]
    /\ \/ RoleAt[mem.phase[c]] \notin Configured
       \/ ~Independent(RoleAt[mem.phase[c]], lineage)
    /\ Park /\ UNCHANGED vars

Dispatches == Dispatching /\ UNCHANGED driverVars

\* dispatch has returned the job or raised; result_decoder may raise too.
TakeResult ==
    /\ pc = "idle" /\ asked # NoCell /\ todo = << >>
    /\ \/ current.key \in Keys(mem.jobs) /\ Answered(asked)
       \/ Park
    /\ UNCHANGED vars

-----------------------------------------------------------------------------
(* _apply, one operation of the system after the other.  No job is named in *)
(* any of them.                                                             *)

Refused(name, c) ==
    \/ name \in {"pre_review", "post_review"} /\ RoleAt[name] \in Configured
    \/ name = "post_review" /\ mem.accepted[c]
    \/ name = "close" /\ ~MayClose(c)

Perform(name, c) ==
    \/ name = "prescribe" /\ Prescribe(c)
    \/ name = "pre_review" /\ RecordPreReview(c, NoJob)
    \/ name = "decompose" /\ Decompose(c)
    \/ name = "verify" /\ VerifyResult(c)
    \/ name = "integrate" /\ Integrate(c)
    \/ name = "post_review" /\ RecordPostReview(c, NoJob)
    \/ name = "close" /\ Close(c)

Apply ==
    /\ pc = "idle" /\ todo # << >> /\ ~Refused(Head(todo), asked)
    /\ Perform(Head(todo), asked)
    /\ todo' = Tail(todo)
    /\ asked' = IF Tail(todo) = << >> THEN NoCell ELSE asked
    /\ UNCHANGED <<provider, status, resumes>>

ParkRefused ==
    /\ pc = "idle" /\ todo # << >> /\ Refused(Head(todo), asked)
    /\ Park /\ UNCHANGED vars

-----------------------------------------------------------------------------
Resume ==
    /\ pc = "idle" /\ status = "parked" /\ resumes < MaxResumes
    /\ status' = "active" /\ resumes' = resumes + 1
    /\ UNCHANGED <<vars, provider, asked, todo>>

Die ==
    /\ Crash
    /\ asked' = NoCell /\ todo' = << >>
    /\ UNCHANGED <<provider, status, resumes>>

Reopen == Open /\ UNCHANGED driverVars

Drive ==
    \/ \E c \in CellId :
          \/ ParkUndecomposed(c) \/ BeginIntegration(c) \/ AnswerItself(c)
          \/ \E lineage \in Lineage :
                \/ \E a \in Auth : Delegate(c, a, lineage)
                \/ ParkUnresolved(c, lineage)
    \/ Dispatches \/ TakeResult \/ Apply \/ ParkRefused

DriverNext == Drive \/ Resume \/ Die \/ Reopen

DriverSpec == DriverInit /\ [][DriverNext]_allVars

\* The process runs, a harness ends (run_bounded has a deadline), and the
\* operator reopens what died.
FairDriverSpec == DriverSpec /\ WF_allVars(Drive) /\ WF_allVars(Reopen)

-----------------------------------------------------------------------------
(* Claim READY-DRIVER-01, "recursively advances child Cells and integrates  *)
(* them into the root Cell", of a driver that "can bridge to configured      *)
(* harness dispatch" (tests/COVERAGE.md): when it comes to close a cell whose*)
(* post-review it has recorded, the cell can be closed.                     *)
DrivenCellCloses ==
    pc = "idle" /\ todo # << >> /\ Head(todo) = "close" => MayClose(asked)

(* Why not: closing asks for a promoted job, and the driver promotes none.  *)
(* The cells it closes are the ones its provider answered alone.            *)
OnlyJoblessCellsClose ==
    \A c \in CellId : mem.phase[c] = "closed" => JobsOf(c) = {}

(* Claim READY-DRIVER-03, "instead of guessing": where the provider has the *)
(* work done by harnesses, no cell moves on from a phase without a completed*)
(* job for just this revision, whatever failed or died under way.           *)
NoStepWithoutJob ==
    [][\A c \in CellId :
          /\ pc # "down" /\ RoleAt[mem.phase[c]] \in provider[c]
          /\ mem'.revision[c] # mem.revision[c]
          => \E j \in JobsOf(c) : j.key.revision = mem.revision[c]]_allVars

(* A call of run always comes to its end: refusals and deaths never have it *)
(* do the same over and over.                                               *)
DriveEnds ==
    status = "active" ~> (status = "parked" \/ mem.phase[Root] = "closed")
=============================================================================

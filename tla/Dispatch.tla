------------------------------- MODULE Dispatch -------------------------------
(***************************************************************************)
(* Work done by harnesses: LoopstrapSystem.dispatch, the acceptance of its *)
(* jobs by verify_job, the reviews, promote_job and close                  *)
(* (loopstrap_core/system.py), with DispatchJournal (recovery.py),         *)
(* RoleRouter.resolve (harness.py), WorkspaceManager.prepare               *)
(* (workspace.py) and UsageChargeLedger.charge (certification.py).         *)
(*                                                                         *)
(* A dispatch is bound to a cell, its revision, a role and an              *)
(* authorization; the four make its key, and the key names the job, its    *)
(* workspace and its events.  It leaves traces in four places one after    *)
(* the other: the ledger, the workspaces, the harness itself and the       *)
(* memory, which a checkpoint saves.  The process may die between any two. *)
(*                                                                         *)
(* An event and the checkpoint that follows it are one step.  The other    *)
(* operations change the memory only, and a crash before their checkpoint  *)
(* undoes them: each is one step here, its event left out (LoopRun has     *)
(* these steps apart, and the run's status).  Claims and evidence that     *)
(* only refuse an operation are RunGraph's.  The work of a job is named by *)
(* its key.  Authorizations that do not match the cell are refused and no  *)
(* step.                                                                   *)
(***************************************************************************)
EXTENDS Integers, FiniteSets

CONSTANTS
    CellId, Root,
    KidsOf,         \* the cells a composite is decomposed into
    Auth,           \* authorization identifiers
    Lineage,        \* context lineages (and prompts) an invocation can have
    Configured,     \* the roles the role policy names
    NoJob, Start,   \* no job; the snapshot the run started from
    MaxCalls, MaxCrashes, MaxRevisions   \* bounds

\* config/workflow.v1.json: the role of each phase (none for the rest), and
\* config/roles.v1.json: which role is independent of which.
RoleAt == [contract |-> "adversary", tests |-> "builder", plan |-> "planner",
           pre_review |-> "adversary", children |-> "none",
           implementation |-> "implementer", integration |-> "implementer",
           post_review |-> "reviewer", closed |-> "none", absent |-> "none"]
Phase == DOMAIN RoleAt
Role  == {"adversary", "builder", "planner", "implementer", "reviewer"}
Rules == {<<"implementer", "builder">>, <<"adversary", "planner">>,
          <<"reviewer", "implementer">>}

ASSUME TreeAssumption ==
    /\ Root \in CellId /\ KidsOf \in [CellId -> SUBSET (CellId \ {Root})]
ASSUME RoleAssumption == Configured \subseteq Role
ASSUME BoundAssumption ==
    /\ MaxCalls \in Nat /\ MaxCrashes \in Nat /\ MaxRevisions \in Nat

\* dispatch_key, and everything that is named after it
Key  == [cell : CellId, revision : Nat, role : Role, auth : Auth]
Work == Key \cup {Start}
Job  == [key : Key, lineage : Lineage, base : Work, verified : BOOLEAN, promoted : BOOLEAN]

ASSUME NameAssumption == NoJob \notin Key /\ Start \notin Key

VARIABLES
    mem,        \* the LoopstrapSystem object: graph, jobs, assignments
    saved,      \* the last state.checkpoint
    charged,    \* usage_ledger: the jobs whose usage is charged
    reserved,   \* the keys with a job.reserved event
    events,     \* <<type, key>> of the other events about jobs
    workspaces, \* the jobs that have a workspace directory
    pointer,    \* the work the candidate pointer names
    pc, current,\* where the process is in dispatch or promote_job, and for what
    ran, reran, \* history: the jobs the harness was run for, and run again for
    calls, crashes, revisions

diskVars  == <<reserved, events, workspaces, pointer>>
runVars   == <<ran, reran>>
boundVars == <<calls, crashes, revisions>>
vars == <<mem, saved, charged, diskVars, pc, current, runVars, boundVars>>

Memory ==
    [phase : [CellId -> Phase], revision : [CellId -> Nat],
     accepted : [CellId -> BOOLEAN],            \* post_review_accepted
     reviewer : [CellId -> Key \cup {NoJob}],   \* the job that review cites
     jobs : SUBSET Job, assignments : SUBSET (Role \X Lineage)]

Trace == {"started", "failed", "accepted", "completed", "conflict", "promoted"}

TypeOK ==
    /\ mem \in Memory /\ saved \in Memory
    /\ charged \subseteq Key /\ reserved \subseteq Key /\ workspaces \subseteq Key
    /\ events \subseteq Trace \X Key
    /\ pointer \in Work
    /\ pc \in {"idle", "prepare", "start", "harness", "failed", "charge", "accept",
               "keep", "complete", "landed", "down"}
    /\ current \in Job \cup {NoJob}
    /\ pc \notin {"idle", "down"} => current \in Job
    /\ ran \subseteq Key /\ reran \subseteq Key
    /\ calls \in 0..MaxCalls /\ crashes \in 0..MaxCrashes /\ revisions \in 0..MaxRevisions

Init ==
    /\ mem = [phase |-> [c \in CellId |-> IF c = Root THEN "contract" ELSE "absent"],
              revision |-> [c \in CellId |-> IF c = Root THEN 1 ELSE 0],
              accepted |-> [c \in CellId |-> FALSE],
              reviewer |-> [c \in CellId |-> NoJob],
              jobs |-> {}, assignments |-> {}]
    /\ saved = mem
    /\ charged = {} /\ reserved = {} /\ events = {} /\ workspaces = {}
    /\ pointer = Start
    /\ pc = "idle" /\ current = NoJob
    /\ ran = {} /\ reran = {}
    /\ calls = 0 /\ crashes = 0 /\ revisions = 0

-----------------------------------------------------------------------------
JobsOf(c)     == {j \in mem.jobs : j.key.cell = c}
VerifiedOf(c) == {j \in JobsOf(c) : j.verified}
Keys(jobs)    == {j.key : j \in jobs}

Leaf(c) == KidsOf[c] = {}

\* An operation that changes the memory, appends its event and checkpoints.
Saved(m) == mem' = m /\ saved' = m

\* A cell enters a phase, and the revision moves on.
Enter(m, c, phase) ==
    [m EXCEPT !.phase[c] = phase, !.revision[c] = @ + 1]

-----------------------------------------------------------------------------
(* Variants with a plausible mistake, one per property: each run shows that *)
(* its property would notice the mistake.  Nothing below uses them.         *)

\* Every dispatch on the candidate pointer; a workspace directory reused.
PointerBases(c) == {pointer}
PrepareAgain ==
    /\ pc = "prepare"
    /\ pc' = "start" /\ workspaces' = workspaces \cup {current.key}
    /\ UNCHANGED <<mem, saved, charged, reserved, events, pointer, current,
                   runVars, boundVars>>
\* The job kept before its response is accepted, or its assignment only after
\* the checkpoint.
ChargeAndKeep ==
    /\ pc = "charge"
    /\ charged' = charged \cup {current.key} /\ pc' = "keep"
    /\ UNCHANGED <<mem, saved, diskVars, current, runVars, boundVars>>
KeepThenAssign ==
    /\ pc = "keep"
    /\ saved' = [mem EXCEPT !.jobs = @ \cup {current}]
    /\ mem' = [saved' EXCEPT !.assignments = @ \cup {<<current.key.role, current.lineage>>}]
    /\ pc' = "complete"
    /\ UNCHANGED <<charged, diskVars, current, runVars, boundVars>>
\* A recovery that rebuilds the charges from nothing, or the graph alone.
OpenUncharged ==
    /\ pc = "down"
    /\ mem' = saved /\ charged' = {} /\ pc' = "idle"
    /\ UNCHANGED <<saved, diskVars, current, runVars, boundVars>>
OpenGraphOnly ==
    /\ pc = "down"
    /\ mem' = [saved EXCEPT !.jobs = {}] /\ charged' = {} /\ pc' = "idle"
    /\ UNCHANGED <<saved, diskVars, current, runVars, boundVars>>

-----------------------------------------------------------------------------
(* The dispatch.                                                           *)

\* RoleRouter.resolve: no completed invocation of a role this one must be
\* independent of had the same context.  (Their treatments always differ: a
\* treatment belongs to one role.)
Independent(role, lineage) ==
    \A rule \in Rules : rule[1] = role => <<rule[2], lineage>> \notin mem.assignments

KeyOf(c, a) == [cell |-> c, revision |-> mem.revision[c],
                role |-> RoleAt[mem.phase[c]], auth |-> a]

\* _dispatch_base_snapshot: the review of a leaf's result gets the result.
Reviewing(c) == mem.phase[c] = "post_review" /\ Leaf(c)
Bases(c) == IF Reviewing(c) THEN Keys(VerifiedOf(c)) ELSE {pointer}

\* DispatchJournal.reserve, which finds an earlier reservation under the key;
\* a job that is complete is returned (or refused, with other bindings).
Reserve(c, a, lineage) ==
    /\ pc = "idle" /\ calls < MaxCalls
    /\ RoleAt[mem.phase[c]] \in Configured
    /\ Independent(RoleAt[mem.phase[c]], lineage)
    /\ calls' = calls + 1
    /\ reserved' = reserved \cup {KeyOf(c, a)}
    /\ IF KeyOf(c, a) \in Keys(mem.jobs) \/ Cardinality(Bases(c)) # 1
         THEN UNCHANGED <<pc, current>>
         ELSE /\ pc' = "prepare"
              /\ \E base \in Bases(c) :
                   current' = [key |-> KeyOf(c, a), lineage |-> lineage, base |-> base,
                               verified |-> FALSE, promoted |-> FALSE]
    /\ UNCHANGED <<mem, saved, charged, events, workspaces, pointer, runVars,
                   crashes, revisions>>

\* WorkspaceManager.prepare refuses a directory that is there already.
Prepare ==
    /\ pc = "prepare"
    /\ IF current.key \in workspaces
         THEN pc' = "idle" /\ UNCHANGED workspaces
         ELSE pc' = "start" /\ workspaces' = workspaces \cup {current.key}
    /\ UNCHANGED <<mem, saved, charged, reserved, events, pointer, current,
                   runVars, boundVars>>

AppendStarted ==
    /\ pc = "start"
    /\ events' = events \cup {<<"started", current.key>>}
    /\ saved' = mem
    /\ pc' = "harness"
    /\ UNCHANGED <<mem, charged, reserved, workspaces, pointer, current, runVars, boundVars>>

\* HarnessDispatcher.dispatch: the process runs to an answer or a failure.
RunHarness ==
    /\ pc = "harness"
    /\ ran' = ran \cup {current.key}
    /\ reran' = reran \cup ({current.key} \cap ran)
    /\ pc' \in {"charge", "failed"}
    /\ UNCHANGED <<mem, saved, charged, diskVars, current, boundVars>>

AppendFailed ==
    /\ pc = "failed"
    /\ events' = events \cup {<<"failed", current.key>>}
    /\ saved' = mem
    /\ pc' = "idle"
    /\ UNCHANGED <<mem, charged, reserved, workspaces, pointer, current, runVars, boundVars>>

\* UsageChargeLedger.charge raises over a malformed usage report.
Charge ==
    /\ pc = "charge"
    /\ \/ pc' = "accept" /\ charged' = charged \cup {current.key}
       \/ pc' = "idle" /\ UNCHANGED charged
    /\ UNCHANGED <<mem, saved, diskVars, current, runVars, boundVars>>

\* accept_response: the revisions agree, nothing has moved the cell since.
Accept ==
    /\ pc = "accept"
    /\ events' = events \cup {<<"accepted", current.key>>}
    /\ pc' = "keep"
    /\ UNCHANGED <<mem, saved, charged, reserved, workspaces, pointer, current,
                   runVars, boundVars>>

\* The job and the assignment, and the checkpoint job.completed.
Keep ==
    /\ pc = "keep"
    /\ Saved([mem EXCEPT !.jobs = @ \cup {current},
                         !.assignments = @ \cup {<<current.key.role, current.lineage>>}])
    /\ pc' = "complete"
    /\ UNCHANGED <<charged, diskVars, current, runVars, boundVars>>

AppendCompleted ==
    /\ pc = "complete"
    /\ events' = events \cup {<<"completed", current.key>>}
    /\ saved' = mem
    /\ pc' = "idle"
    /\ UNCHANGED <<mem, charged, reserved, workspaces, pointer, current, runVars, boundVars>>

-----------------------------------------------------------------------------
(* The life of a cell.                                                     *)

Operation == pc = "idle" /\ UNCHANGED <<charged, diskVars, pc, current, runVars, boundVars>>

\* accept_contract, freeze_tests and record_plan ask for no job.
Prescribe(c) ==
    /\ Operation
    /\ mem.phase[c] \in {"contract", "tests", "plan"}
    /\ Saved(Enter(mem, c, [contract |-> "tests", tests |-> "plan",
                            plan |-> "pre_review"][mem.phase[c]]))

\* _require_review_job: with the role configured a review cites a job of the
\* cell's for this role and revision, otherwise it cites none.
ReviewBy(c, by) ==
    LET role == RoleAt[mem.phase[c]] IN
    IF role \notin Configured THEN by = NoJob
    ELSE /\ by \in Keys(JobsOf(c))
         /\ by.role = role /\ by.revision = mem.revision[c]

RecordPreReview(c, by) ==
    /\ Operation
    /\ mem.phase[c] = "pre_review" /\ ReviewBy(c, by)
    /\ Saved(Enter(mem, c, IF Leaf(c) THEN "implementation" ELSE "children"))

Decompose(c) ==
    /\ Operation
    /\ mem.phase[c] = "children"
    /\ \A k \in KidsOf[c] : mem.phase[k] = "absent"
    /\ Saved([mem EXCEPT
                !.phase = [k \in CellId |-> IF k \in KidsOf[c] THEN "contract" ELSE @[k]],
                !.revision = [k \in CellId |-> IF k \in KidsOf[c] THEN 1
                                               ELSE IF k = c THEN @[k] + 1 ELSE @[k]]])

Integrate(c) ==
    /\ Operation
    /\ \/ /\ mem.phase[c] = "children"
          /\ \A k \in KidsOf[c] : mem.phase[k] = "closed"
          /\ Saved(Enter(mem, c, "integration"))
       \/ /\ mem.phase[c] = "integration"
          /\ Saved(Enter(mem, c, "post_review"))

\* _accept_verified_job: the job has the role of the phase; its revision is
\* not looked at.
VerifyJob(j) ==
    /\ Operation
    /\ j \in mem.jobs /\ ~j.verified
    /\ mem.phase[j.key.cell] = "implementation" /\ j.key.role = "implementer"
    /\ LET m == Enter(mem, j.key.cell, "post_review")
       IN  Saved([m EXCEPT !.jobs = (@ \ {j}) \cup {[j EXCEPT !.verified = TRUE]}])

\* _record_orchestrated_verification: the driver's, without a job.
VerifyResult(c) ==
    /\ Operation
    /\ mem.phase[c] = "implementation"
    /\ Saved(Enter(mem, c, "post_review"))

\* A second review under the same revision is refused by the event of the first.
RecordPostReview(c, by) ==
    /\ Operation
    /\ mem.phase[c] = "post_review" /\ ~mem.accepted[c] /\ ReviewBy(c, by)
    /\ Saved([mem EXCEPT !.accepted[c] = TRUE, !.reviewer[c] = by])

\* promote_job: the compare-and-swap (module Promotion) ...
PromoteJob(j) ==
    /\ pc = "idle" /\ calls < MaxCalls
    /\ j \in mem.jobs /\ j.verified /\ mem.accepted[j.key.cell]
    /\ calls' = calls + 1
    /\ IF pointer = j.base
         THEN /\ pointer' = j.key /\ pc' = "landed" /\ current' = j
              /\ UNCHANGED <<saved, events>>
         ELSE /\ events' = events \cup {<<"conflict", j.key>>} /\ saved' = mem
              /\ UNCHANGED <<pointer, pc, current>>
    /\ UNCHANGED <<mem, charged, reserved, workspaces, runVars, crashes, revisions>>

\* ... and what is recorded of it afterwards.
RecordPromotion ==
    /\ pc = "landed"
    /\ Saved([mem EXCEPT !.jobs = (@ \ {current}) \cup {[current EXCEPT !.promoted = TRUE]}])
    /\ events' = events \cup {<<"promoted", current.key>>}
    /\ pc' = "idle"
    /\ UNCHANGED <<charged, reserved, workspaces, pointer, current, runVars, boundVars>>

\* A cell any job was made for closes when one of them is promoted.
MayClose(c) ==
    /\ mem.phase[c] = "post_review" /\ mem.accepted[c]
    /\ JobsOf(c) # {} => \E j \in JobsOf(c) : j.promoted
    /\ \A k \in KidsOf[c] : mem.phase[k] = "closed"

Close(c) == Operation /\ MayClose(c) /\ Saved(Enter(mem, c, "closed"))

\* graph.revise_tests, which only a holder of the graph can call: everything
\* decided about the cell goes, its jobs stay.  The revision is saved with
\* the next checkpoint.
ReviseTests(c) ==
    /\ pc = "idle" /\ revisions < MaxRevisions
    /\ Leaf(c) /\ mem.phase[c] \notin {"absent", "contract", "tests"}
    /\ revisions' = revisions + 1
    /\ mem' = [Enter(mem, c, "plan") EXCEPT !.accepted[c] = FALSE, !.reviewer[c] = NoJob]
    /\ UNCHANGED <<saved, charged, diskVars, pc, current, runVars, calls, crashes>>

-----------------------------------------------------------------------------
Crash ==
    /\ pc # "down" /\ crashes < MaxCrashes
    /\ crashes' = crashes + 1
    /\ pc' = "down" /\ current' = NoJob
    /\ UNCHANGED <<mem, saved, charged, diskVars, runVars, calls, revisions>>

\* LoopstrapSystem.open: the last checkpoint, and a charge for each of its jobs.
Open ==
    /\ pc = "down"
    /\ mem' = saved
    /\ charged' = Keys(saved.jobs)
    /\ pc' = "idle"
    /\ UNCHANGED <<saved, diskVars, current, runVars, boundVars>>

Dispatching ==
    \/ Prepare \/ AppendStarted \/ RunHarness \/ AppendFailed \/ Charge \/ Accept
    \/ Keep \/ AppendCompleted

CellStep(c) ==
    \/ \E a \in Auth, lineage \in Lineage : Reserve(c, a, lineage)
    \/ Prescribe(c) \/ Decompose(c) \/ Integrate(c) \/ VerifyResult(c) \/ Close(c)
    \/ \E by \in Keys(mem.jobs) \cup {NoJob} :
          RecordPreReview(c, by) \/ RecordPostReview(c, by)
    \/ ReviseTests(c)

Next ==
    \/ Dispatching
    \/ \E c \in CellId : CellStep(c)
    \/ \E j \in mem.jobs : VerifyJob(j) \/ PromoteJob(j)
    \/ RecordPromotion \/ Crash \/ Open

Spec == Init /\ [][Next]_vars

-----------------------------------------------------------------------------
(* Claim REC-01 and READY-RECOVERY-02: whatever crashes, is reopened and    *)
(* dispatched again, the harness is started at most once under one dispatch *)
(* key, so one authorization never pays for, or runs, the same work twice.  *)
HarnessRunsOnce == reran = {}

(* A job the run knows, in memory or recovered, is one the ledger tells of: *)
(* it was reserved, started and accepted there, in a workspace of its own,  *)
(* by a harness that ran (claims EVID-01 and REC-03, the ledger is the      *)
(* record everything else can be explained from).                           *)
JobsFollowTheLedger ==
    \A k \in Keys(mem.jobs) \cup Keys(saved.jobs) :
        /\ k \in reserved \cap workspaces \cap ran
        /\ <<"started", k>> \in events /\ <<"accepted", k>> \in events

(* Between calls the usage ledger has charged the completed jobs, each of   *)
(* them and nothing else, also after a recovery that rebuilt it.            *)
ChargesMatchJobs == pc = "idle" => charged = Keys(mem.jobs)

(* Claim READY-RECOVERY-01: a completed job is never lost again, whatever   *)
(* crashes and whichever checkpoints follow.                                *)
CompletedJobsStay == [][Keys(saved.jobs) \subseteq Keys(saved'.jobs)]_vars

(* Claims TREAT-03 and SYS-05: the accepted review of a result comes from   *)
(* another context than the work it reviewed, although the rule is looked   *)
(* at only once and against a list that is rebuilt after a crash.           *)
IndependentReview ==
    \A c \in CellId : \A review \in JobsOf(c), work \in VerifiedOf(c) :
        review.key = mem.reviewer[c] => review.lineage # work.lineage

(* Claim SYS-05, "the post-review workspace is based on the verified        *)
(* candidate": the review a leaf was accepted by saw the one verified work. *)
ReviewSeesCandidate ==
    \A c \in CellId : \A review \in JobsOf(c) :
        Leaf(c) /\ review.key = mem.reviewer[c] => Keys(VerifiedOf(c)) = {review.base}

(* Claim SYS-07, "the system facade supports recursive decomposition, child *)
(* execution, parent integration, and closure": a composite whose children  *)
(* are closed and whose integration is accepted can be closed.              *)
CompositeCanClose ==
    \A c \in CellId :
        /\ ~Leaf(c) /\ mem.phase[c] = "post_review" /\ mem.accepted[c]
        /\ \A k \in KidsOf[c] : mem.phase[k] = "closed"
        => MayClose(c)
=============================================================================

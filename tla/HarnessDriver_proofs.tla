------------------------ MODULE HarnessDriver_proofs ------------------------
(* What holds of Dispatch, for any tree, any authorizations, and any number  *)
(* of crashes and resumptions; and of the driver over it, for any roles      *)
(* behind harnesses.                                                         *)
EXTENDS HarnessDriver, FiniteSetTheorems, FunctionTheorems, TLAPS

(* The phases are the ones of config/workflow.v1.json.                       *)
LEMMA Phases ==
    Phase = {"contract", "tests", "plan", "pre_review", "children", "implementation",
             "integration", "post_review", "closed", "absent"}
BY DEF Phase, RoleAt

(* The parts of a memory.                                                    *)
LEMMA MemoryParts ==
    ASSUME NEW m \in Memory
    PROVE  /\ m.phase \in [CellId -> Phase] /\ m.revision \in [CellId -> Nat]
           /\ m.accepted \in [CellId -> BOOLEAN]
           /\ m.reviewer \in [CellId -> Key \cup {NoJob}]
           /\ m.jobs \subseteq Job /\ m.assignments \subseteq Role \X Lineage
BY DEF Memory

(* Only the jobs and the assignments, or the jobs, of a memory change.       *)
LEMMA JobsChange ==
    ASSUME NEW m \in Memory, NEW jobs \in SUBSET Job
    PROVE  /\ [m EXCEPT !.jobs = jobs] \in Memory
           /\ [m EXCEPT !.jobs = jobs].jobs = jobs
           /\ \A as \in SUBSET (Role \X Lineage) :
                 /\ [m EXCEPT !.jobs = jobs, !.assignments = as] \in Memory
                 /\ [m EXCEPT !.jobs = jobs, !.assignments = as].jobs = jobs
BY DEF Memory

(* Entering a phase keeps the types of the memory and touches no job.        *)
LEMMA EnterTypes ==
    ASSUME NEW m \in Memory, NEW c \in CellId, NEW phase \in Phase
    PROVE  /\ Enter(m, c, phase) \in Memory
           /\ Enter(m, c, phase).jobs = m.jobs
<1>1. /\ [m.phase EXCEPT ![c] = phase] \in [CellId -> Phase]
      /\ [m.revision EXCEPT ![c] = m.revision[c] + 1] \in [CellId -> Nat]
  BY MemoryParts
<1>2. Enter(m, c, phase) = [m EXCEPT !.phase = [m.phase EXCEPT ![c] = phase],
                                     !.revision = [m.revision EXCEPT ![c] = m.revision[c] + 1]]
  BY DEF Enter, Memory
<1>3. QED
  BY <1>1, <1>2 DEF Memory

-----------------------------------------------------------------------------
(* Types.                                                                    *)

(* The steps of a dispatch keep the types.                                   *)
LEMMA DispatchKeepsTypes == ASSUME TypeOK, Dispatching PROVE TypeOK'
<1> USE DEF TypeOK, diskVars, runVars, boundVars
<1>a. pc \notin {"idle", "down"} => current.key \in Key /\ current.key.role \in Role /\ current.lineage \in Lineage
  BY DEF Job, Key
<1>b. \A t \in Trace : pc \notin {"idle", "down"} => <<t, current.key>> \in Trace \X Key
  BY <1>a
<1>1. CASE Prepare
  BY <1>1, <1>a DEF Prepare
<1>2. CASE AppendStarted
  BY <1>2, <1>b DEF AppendStarted, Trace
<1>3. CASE RunHarness
  BY <1>3, <1>a DEF RunHarness
<1>4. CASE AppendFailed
  BY <1>4, <1>b DEF AppendFailed, Trace
<1>5. CASE Charge
  BY <1>5, <1>a DEF Charge
<1>6. CASE Accept
  BY <1>6, <1>b DEF Accept, Trace
<1>7. CASE Keep
  <2>1. /\ mem.jobs \cup {current} \in SUBSET Job
        /\ mem.assignments \cup {<<current.key.role, current.lineage>>} \in SUBSET (Role \X Lineage)
    BY <1>7, <1>a, MemoryParts DEF Keep
  <2>2. mem' \in Memory /\ saved' = mem'
    BY <1>7, <2>1, JobsChange DEF Keep, Saved
  <2>3. QED
    BY <1>7, <1>a, <2>2 DEF Keep
<1>8. CASE AppendCompleted
  BY <1>8, <1>b DEF AppendCompleted, Trace
<1>9. QED
  BY <1>1, <1>2, <1>3, <1>4, <1>5, <1>6, <1>7, <1>8 DEF Dispatching

(* What is said of a verified or promoted job is said of the job: the key    *)
(* stays.                                                                    *)
LEMMA JobUpdate ==
    ASSUME NEW j \in Job
    PROVE  /\ [j EXCEPT !.verified = TRUE] \in Job /\ [j EXCEPT !.verified = TRUE].key = j.key
           /\ [j EXCEPT !.promoted = TRUE] \in Job /\ [j EXCEPT !.promoted = TRUE].key = j.key
BY DEF Job

(* The operations on a cell keep the types of the memory and its jobs.       *)
LEMMA CellOperations ==
    ASSUME mem \in Memory, NEW c \in CellId, NEW by \in Keys(mem.jobs) \cup {NoJob},
           \/ Prescribe(c) \/ Decompose(c) \/ Integrate(c) \/ VerifyResult(c) \/ Close(c)
           \/ RecordPreReview(c, by) \/ RecordPostReview(c, by)
    PROVE  /\ Operation /\ mem' \in Memory /\ saved' = mem' /\ mem'.jobs = mem.jobs
<1> USE DEF Saved
<1>a. Keys(mem.jobs) \cup {NoJob} \subseteq Key \cup {NoJob}
  BY MemoryParts DEF Keys, Job
<1>1. CASE Prescribe(c)
  <2>1. [contract |-> "tests", tests |-> "plan", plan |-> "pre_review"][mem.phase[c]]
            \in Phase \ {"absent"}
    BY <1>1, Phases DEF Prescribe
  <2>2. QED
    BY <1>1, <2>1, EnterTypes DEF Prescribe
<1>2. CASE Decompose(c)
  <2> DEFINE phase == [k \in CellId |-> IF k \in KidsOf[c] THEN "contract" ELSE mem.phase[k]]
  <2> DEFINE revision == [k \in CellId |-> IF k \in KidsOf[c] THEN 1
                                           ELSE IF k = c THEN mem.revision[k] + 1
                                           ELSE mem.revision[k]]
  <2>1. phase \in [CellId -> Phase] /\ revision \in [CellId -> Nat]
    BY MemoryParts, Phases
  <2>2. mem' = [mem EXCEPT !.phase = phase, !.revision = revision]
    BY <1>2 DEF Decompose, Memory
  <2>3. QED
    BY <1>2, <2>1, <2>2 DEF Decompose, Memory
<1>3. CASE Integrate(c)
  <2>1. mem' = Enter(mem, c, "integration") \/ mem' = Enter(mem, c, "post_review")
    BY <1>3 DEF Integrate
  <2>2. "integration" \in Phase /\ "post_review" \in Phase
    BY Phases
  <2>3. mem' \in Memory /\ mem'.jobs = mem.jobs
    BY <2>1, <2>2, EnterTypes
  <2>4. QED
    BY <1>3, <2>3 DEF Integrate
<1>4. CASE VerifyResult(c)
  BY <1>4, EnterTypes, Phases DEF VerifyResult
<1>5. CASE Close(c)
  BY <1>5, EnterTypes, Phases DEF Close
<1>6. CASE RecordPreReview(c, by)
  BY <1>6, EnterTypes, Phases DEF RecordPreReview
<1>7. CASE RecordPostReview(c, by)
  <2>1. /\ [mem.accepted EXCEPT ![c] = TRUE] \in [CellId -> BOOLEAN]
        /\ [mem.reviewer EXCEPT ![c] = by] \in [CellId -> Key \cup {NoJob}]
    BY <1>a, MemoryParts
  <2>2. mem' = [mem EXCEPT !.accepted = [mem.accepted EXCEPT ![c] = TRUE],
                           !.reviewer = [mem.reviewer EXCEPT ![c] = by]]
    BY <1>7 DEF RecordPostReview, Memory
  <2>3. QED
    BY <1>7, <2>1, <2>2 DEF RecordPostReview, Memory
<1>8. QED
  BY <1>1, <1>2, <1>3, <1>4, <1>5, <1>6, <1>7

(* So do the test revision, which is not checkpointed, and the operations on *)
(* a job, which keep the keys.                                               *)
LEMMA ReviseOperation ==
    ASSUME mem \in Memory, NEW c \in CellId, ReviseTests(c)
    PROVE  mem' \in Memory /\ mem'.jobs = mem.jobs
<1> DEFINE m == Enter(mem, c, "plan")
<1>1. m \in Memory /\ m.jobs = mem.jobs
  BY EnterTypes, Phases
<1>2. /\ [m.accepted EXCEPT ![c] = FALSE] \in [CellId -> BOOLEAN]
      /\ [m.reviewer EXCEPT ![c] = NoJob] \in [CellId -> Key \cup {NoJob}]
  BY <1>1, MemoryParts
<1>3. mem' = [m EXCEPT !.accepted = [m.accepted EXCEPT ![c] = FALSE],
                       !.reviewer = [m.reviewer EXCEPT ![c] = NoJob]]
  BY <1>1 DEF ReviseTests, Memory
<1>4. QED
  BY <1>1, <1>2, <1>3 DEF Memory

(* One job in the place of another with its key.                             *)
LEMMA Replaced ==
    ASSUME NEW jobs \in SUBSET Job, NEW j \in jobs, NEW i \in Job, i.key = j.key
    PROVE  /\ (jobs \ {j}) \cup {i} \in SUBSET Job
           /\ Keys((jobs \ {j}) \cup {i}) = Keys(jobs)
<1> DEFINE new == (jobs \ {j}) \cup {i}
<1>1. ASSUME NEW k \in Keys(new) PROVE k \in Keys(jobs)
  <2>1. PICK x \in new : k = x.key
    BY <1>1 DEF Keys
  <2>2. CASE x = i
    BY <2>1, <2>2 DEF Keys
  <2>3. CASE x # i
    BY <2>1, <2>3 DEF Keys
  <2>4. QED
    BY <2>2, <2>3
<1>2. ASSUME NEW k \in Keys(jobs) PROVE k \in Keys(new)
  <2>1. PICK x \in jobs : k = x.key
    BY <1>2 DEF Keys
  <2>2. CASE x = j
    BY <2>1, <2>2 DEF Keys
  <2>3. CASE x # j
    BY <2>1, <2>3 DEF Keys
  <2>4. QED
    BY <2>2, <2>3
<1>3. QED
  BY <1>1, <1>2

LEMMA JobOperations ==
    ASSUME mem \in Memory, NEW j, j \in mem.jobs,
           VerifyJob(j) \/ (RecordPromotion /\ current = j)
    PROVE  mem' \in Memory /\ saved' = mem' /\ Keys(mem'.jobs) = Keys(mem.jobs)
<1>a. j \in Job
  BY MemoryParts
<1>1. CASE VerifyJob(j)
  <2> DEFINE m == Enter(mem, j.key.cell, "post_review")
  <2> DEFINE jobs == (mem.jobs \ {j}) \cup {[j EXCEPT !.verified = TRUE]}
  <2>1. j.key.cell \in CellId
    BY <1>a DEF Job, Key
  <2>2. m \in Memory /\ m.jobs = mem.jobs
    BY <2>1, EnterTypes, Phases
  <2>3. jobs \in SUBSET Job /\ Keys(jobs) = Keys(mem.jobs)
    BY <1>a, JobUpdate, MemoryParts, Replaced
  <2>4. mem' = [m EXCEPT !.jobs = jobs] /\ saved' = mem'
    BY <1>1, <2>2 DEF VerifyJob, Saved, Memory
  <2>5. mem' \in Memory /\ mem'.jobs = jobs
    BY <2>2, <2>3, <2>4, JobsChange
  <2>6. QED
    BY <2>3, <2>4, <2>5
<1>2. CASE RecordPromotion /\ current = j
  <2> DEFINE jobs == (mem.jobs \ {j}) \cup {[j EXCEPT !.promoted = TRUE]}
  <2>1. jobs \in SUBSET Job /\ Keys(jobs) = Keys(mem.jobs)
    BY <1>a, JobUpdate, MemoryParts, Replaced
  <2>2. mem' = [mem EXCEPT !.jobs = jobs] /\ saved' = mem'
    BY <1>2 DEF RecordPromotion, Saved, Memory
  <2>3. mem' \in Memory /\ mem'.jobs = jobs
    BY <2>1, <2>2, JobsChange
  <2>4. QED
    BY <2>1, <2>2, <2>3
<1>3. QED
  BY <1>1, <1>2

(* What a dispatch is reserved under, and for.                               *)
LEMMA ReserveTypes ==
    ASSUME mem \in Memory, pointer \in Work, NEW c \in CellId, NEW a \in Auth, NEW lineage \in Lineage,
           Reserve(c, a, lineage)
    PROVE  /\ KeyOf(c, a) \in Key
           /\ \/ UNCHANGED <<pc, current>>
              \/ pc' = "prepare" /\ current' \in Job /\ current'.key = KeyOf(c, a)
<1>1. KeyOf(c, a) \in Key
  <2>1. RoleAt[mem.phase[c]] \in Role /\ mem.revision[c] \in Nat
    BY RoleAssumption, MemoryParts DEF Reserve
  <2>2. QED
    BY <2>1 DEF KeyOf, Key
<1>2. Bases(c) \subseteq Work
  <2>1. Keys(VerifiedOf(c)) \subseteq Key
    BY MemoryParts DEF Keys, VerifiedOf, JobsOf, Job
  <2>2. QED
    BY <2>1 DEF Bases, Work
<1>3. CASE KeyOf(c, a) \in Keys(mem.jobs) \/ Cardinality(Bases(c)) # 1
  BY <1>1, <1>3 DEF Reserve
<1>4. CASE ~(KeyOf(c, a) \in Keys(mem.jobs) \/ Cardinality(Bases(c)) # 1)
  <2>1. PICK base \in Bases(c) :
          current' = [key |-> KeyOf(c, a), lineage |-> lineage, base |-> base,
                      verified |-> FALSE, promoted |-> FALSE]
    BY <1>4 DEF Reserve
  <2>2. QED
    BY <1>1, <1>2, <1>4, <2>1 DEF Job, Reserve
<1>5. QED
  BY <1>3, <1>4

(* No job is lost from a memory, or gained, but by Keep and Open.            *)
LEMMA StepKeepsTypes == ASSUME TypeOK, [Next]_vars PROVE TypeOK'
<1> USE DEF TypeOK
<1>1. CASE Dispatching
  BY <1>1, DispatchKeepsTypes
<1>2. ASSUME NEW c \in CellId, CellStep(c) PROVE TypeOK'
  <2>1. ASSUME NEW a \in Auth, NEW lineage \in Lineage, Reserve(c, a, lineage) PROVE TypeOK'
    <3>1. /\ KeyOf(c, a) \in Key
          /\ UNCHANGED <<pc, current>> \/ (pc' = "prepare" /\ current' \in Job)
      BY <2>1, ReserveTypes
    <3>2. calls' \in 0..MaxCalls
      BY <2>1, BoundAssumption DEF Reserve
    <3>3. QED
      BY <2>1, <3>1, <3>2 DEF Reserve, runVars
  <2>2. ASSUME NEW by \in Keys(mem.jobs) \cup {NoJob},
               \/ Prescribe(c) \/ Decompose(c) \/ Integrate(c) \/ VerifyResult(c) \/ Close(c)
               \/ RecordPreReview(c, by) \/ RecordPostReview(c, by)
        PROVE  TypeOK'
    <3>1. Operation /\ mem' \in Memory /\ saved' = mem'
      BY <2>2, CellOperations
    <3>2. QED
      BY <3>1 DEF Operation, diskVars, runVars, boundVars
  <2>3. CASE ReviseTests(c)
    <3>1. mem' \in Memory
      BY <2>3, ReviseOperation
    <3>2. revisions' \in 0..MaxRevisions
      BY <2>3, BoundAssumption DEF ReviseTests
    <3>3. QED
      BY <2>3, <3>1, <3>2 DEF ReviseTests, diskVars, runVars
  <2>4. QED
    BY <1>2, <2>1, <2>2, <2>3 DEF CellStep
<1>3. ASSUME NEW j \in mem.jobs, VerifyJob(j) PROVE TypeOK'
  <2>1. mem' \in Memory /\ saved' = mem'
    BY <1>3, JobOperations
  <2>2. QED
    BY <1>3, <2>1 DEF VerifyJob, Operation, diskVars, runVars, boundVars
<1>4. ASSUME NEW j \in mem.jobs, PromoteJob(j) PROVE TypeOK'
  <2>1. j \in Job /\ j.key \in Key /\ <<"conflict", j.key>> \in Trace \X Key
    BY MemoryParts DEF Job, Trace
  <2>2. calls' \in 0..MaxCalls
    BY <1>4, BoundAssumption DEF PromoteJob
  <2>3. QED
    BY <1>4, <2>1, <2>2 DEF PromoteJob, Work, runVars
<1>5. CASE RecordPromotion
  <2>1. current \in Job /\ current.key \in Key /\ <<"promoted", current.key>> \in Trace \X Key
    BY <1>5 DEF RecordPromotion, Job, Trace
  <2> DEFINE jobs == (mem.jobs \ {current}) \cup {[current EXCEPT !.promoted = TRUE]}
  <2>2. jobs \in SUBSET Job
    BY <2>1, JobUpdate, MemoryParts
  <2>3. mem' = [mem EXCEPT !.jobs = jobs] /\ saved' = mem'
    BY <1>5 DEF RecordPromotion, Saved
  <2>4. mem' \in Memory
    BY <2>2, <2>3, JobsChange
  <2>5. QED
    BY <1>5, <2>1, <2>3, <2>4 DEF RecordPromotion, runVars, boundVars
<1>6. CASE Crash
  BY <1>6, BoundAssumption DEF Crash, diskVars, runVars
<1>7. CASE Open
  <2>1. Keys(saved.jobs) \subseteq Key
    BY MemoryParts DEF Keys, Job
  <2>2. QED
    BY <1>7, <2>1 DEF Open, diskVars, runVars, boundVars
<1>8. CASE UNCHANGED vars
  BY <1>8 DEF vars, diskVars, runVars, boundVars
<1>9. QED
  BY <1>1, <1>2, <1>3, <1>4, <1>5, <1>6, <1>7, <1>8 DEF Next

(* TypeOK holds of every run.                                                *)
THEOREM TypeCorrect == Spec => []TypeOK
<1>1. Init => TypeOK
  <2>1. SUFFICES ASSUME Init PROVE TypeOK
    OBVIOUS
  <2>2. mem \in Memory
    BY <2>1, Phases DEF Init, Memory
  <2>3. QED
    BY <2>1, <2>2, BoundAssumption DEF Init, TypeOK, Work
<1>2. TypeOK /\ [Next]_vars => TypeOK'
  BY StepKeepsTypes
<1>3. QED
  BY <1>1, <1>2, PTL DEF Spec

-----------------------------------------------------------------------------
(* One run of the harness per key.                                           *)

(* A harness is only run in a workspace that the same dispatch made, and a   *)
(* workspace is never made twice.                                            *)
HarnessInv ==
    /\ reran = {} /\ ran \subseteq workspaces
    /\ pc \in {"start", "harness"} => current.key \in workspaces \ ran

LEMMA HarnessStep == ASSUME HarnessInv, [Next]_vars PROVE HarnessInv'
<1> USE DEF HarnessInv, diskVars, runVars, boundVars
<1>1. CASE Prepare
  BY <1>1 DEF Prepare
<1>2. CASE AppendStarted \/ AppendFailed \/ Charge \/ Accept \/ Keep \/ AppendCompleted
  BY <1>2 DEF AppendStarted, AppendFailed, Charge, Accept, Keep, AppendCompleted
<1>3. CASE RunHarness
  BY <1>3 DEF RunHarness
<1>4. ASSUME NEW c \in CellId, CellStep(c) PROVE HarnessInv'
  <2>1. CASE UNCHANGED <<pc, current, workspaces, ran, reran>>
    BY <2>1
  <2>2. ASSUME NEW a \in Auth, NEW lineage \in Lineage, Reserve(c, a, lineage)
        PROVE  HarnessInv'
    <3>1. UNCHANGED <<pc, current>> \/ pc' = "prepare"
      BY <2>2 DEF Reserve
    <3>2. QED
      BY <2>2, <3>1 DEF Reserve
  <2>3. CASE Operation \/ ReviseTests(c)
    BY <2>1, <2>3 DEF Operation, ReviseTests
  <2>4. QED
    BY <1>4, <2>2, <2>3 DEF CellStep, Prescribe, Decompose, Integrate, VerifyResult, Close,
       RecordPreReview, RecordPostReview
<1>5. ASSUME NEW j \in mem.jobs, VerifyJob(j) \/ PromoteJob(j) PROVE HarnessInv'
  BY <1>5 DEF VerifyJob, Operation, PromoteJob
<1>6. CASE RecordPromotion \/ Crash \/ Open
  BY <1>6 DEF RecordPromotion, Crash, Open
<1>7. CASE UNCHANGED vars
  BY <1>7 DEF vars
<1>8. QED
  BY <1>1, <1>2, <1>3, <1>4, <1>5, <1>6, <1>7 DEF Next, Dispatching

(* No dispatch key has the harness run for it twice, however many crashes,   *)
(* recoveries and further dispatches there are.                              *)
THEOREM HarnessRunsOnceCorrect == Spec => []HarnessRunsOnce
<1>1. Init => HarnessInv
  BY DEF Init, HarnessInv
<1>2. HarnessInv /\ [Next]_vars => HarnessInv'
  BY HarnessStep
<1>3. HarnessInv => HarnessRunsOnce
  BY DEF HarnessInv, HarnessRunsOnce
<1>4. QED
  BY <1>1, <1>2, <1>3, PTL DEF Spec

-----------------------------------------------------------------------------
(* The jobs, what the ledger tells of them and what is charged for them.     *)

(* Everything JobsFollowTheLedger asks of a job.                             *)
Told(k) ==
    /\ k \in reserved \cap workspaces \cap ran
    /\ <<"started", k>> \in events /\ <<"accepted", k>> \in events

(* The traces a dispatch has left at each step, ...                          *)
TraceInv ==
    LET k == current.key
        Since(step) == pc \in step
    IN  /\ pc \notin {"idle", "down"} => k \in reserved
        /\ Since({"start", "harness", "failed", "charge", "accept", "keep", "complete"})
              => k \in workspaces
        /\ Since({"harness", "failed", "charge", "accept", "keep", "complete"})
              => <<"started", k>> \in events
        /\ Since({"failed", "charge", "accept", "keep", "complete"}) => k \in ran
        /\ Since({"keep", "complete"}) => <<"accepted", k>> \in events
        /\ Since({"landed"}) => current \in mem.jobs

(* ... what is charged meanwhile, ...                                        *)
ChargeInv ==
    pc # "down" =>
        charged = Keys(mem.jobs) \cup (IF pc \in {"accept", "keep"} THEN {current.key} ELSE {})

(* ... and the checkpoint never ahead of the memory.                         *)
JobsInv ==
    /\ TraceInv /\ JobsFollowTheLedger
    /\ Keys(saved.jobs) \subseteq Keys(mem.jobs)
    /\ ChargeInv

(* Only Keep adds a job, and only Open takes a job away that was not saved.  *)
JobsKept ==
    /\ Keys(mem'.jobs) = Keys(mem.jobs)
    /\ Keys(saved'.jobs) \in {Keys(saved.jobs), Keys(mem.jobs)}
LEMMA JobsMove ==
    ASSUME TypeOK, pc = "landed" => current \in mem.jobs, [Next]_vars, ~Keep, ~Open
    PROVE  JobsKept
<1> USE DEF TypeOK, JobsKept
<1>1. CASE UNCHANGED <<mem, saved>> \/ (UNCHANGED mem /\ saved' = mem)
  BY <1>1
<1>2. CASE Dispatching
  BY <1>1, <1>2 DEF Dispatching, Prepare, AppendStarted, AppendFailed, RunHarness, Charge,
     Accept, AppendCompleted
<1>3. ASSUME NEW c \in CellId, CellStep(c) PROVE JobsKept
  <2>1. CASE ReviseTests(c)
    BY <2>1, ReviseOperation DEF ReviseTests
  <2>2. CASE \E a \in Auth, lineage \in Lineage : Reserve(c, a, lineage)
    BY <1>1, <2>2 DEF Reserve
  <2>3. ASSUME NEW by \in Keys(mem.jobs) \cup {NoJob},
               \/ Prescribe(c) \/ Decompose(c) \/ Integrate(c) \/ VerifyResult(c) \/ Close(c)
               \/ RecordPreReview(c, by) \/ RecordPostReview(c, by)
        PROVE  mem'.jobs = mem.jobs /\ saved' = mem'
    BY <2>3, CellOperations
  <2>4. QED
    BY <1>3, <2>1, <2>2, <2>3 DEF CellStep
<1>4. ASSUME NEW j \in mem.jobs, VerifyJob(j) PROVE JobsKept
  BY <1>4, JobOperations
<1>5. ASSUME NEW j \in mem.jobs, PromoteJob(j) PROVE JobsKept
  BY <1>1, <1>5 DEF PromoteJob
<1>6. CASE RecordPromotion
  BY <1>6, JobOperations DEF RecordPromotion
<1>7. CASE Crash \/ UNCHANGED vars
  BY <1>1, <1>7 DEF Crash, vars
<1> HIDE DEF JobsKept
<1>8. QED
  BY <1>2, <1>3, <1>4, <1>5, <1>6, <1>7 DEF Next

(* Keep adds the job the process is at.                                      *)
LEMMA KeepMoves ==
    ASSUME TypeOK, Keep
    PROVE  Keys(mem'.jobs) = Keys(mem.jobs) \cup {current.key} /\ saved' = mem'
<1> DEFINE jobs == mem.jobs \cup {current}
<1> DEFINE as == mem.assignments \cup {<<current.key.role, current.lineage>>}
<1>1. jobs \in SUBSET Job /\ as \in SUBSET (Role \X Lineage)
  BY MemoryParts DEF TypeOK, Keep, Job, Key
<1>2. mem' = [mem EXCEPT !.jobs = jobs, !.assignments = as] /\ saved' = mem'
  BY DEF Keep, Saved
<1> HIDE DEF jobs, as
<1>3. mem'.jobs = jobs
  BY <1>1, <1>2, JobsChange DEF TypeOK
<1>4. QED
  BY <1>2, <1>3 DEF Keys, jobs

(* Nothing in the ledger, the workspaces or the history goes away.           *)
Grown ==
    /\ reserved \subseteq reserved' /\ workspaces \subseteq workspaces'
    /\ ran \subseteq ran' /\ events \subseteq events'
LEMMA TracesStay == ASSUME [Next]_vars PROVE Grown
<1> USE DEF Grown, diskVars, runVars, boundVars
<1>1. CASE Dispatching
  BY <1>1 DEF Dispatching, Prepare, AppendStarted, AppendFailed, RunHarness, Charge, Accept,
     Keep, AppendCompleted
<1>2. ASSUME NEW c \in CellId, CellStep(c) PROVE Grown
  BY <1>2 DEF CellStep, Reserve, Operation, Prescribe, Decompose, Integrate, VerifyResult,
     Close, RecordPreReview, RecordPostReview, ReviseTests
<1>3. ASSUME NEW j \in mem.jobs, VerifyJob(j) \/ PromoteJob(j) PROVE Grown
  BY <1>3 DEF VerifyJob, Operation, PromoteJob
<1>4. CASE RecordPromotion \/ Crash \/ Open \/ UNCHANGED vars
  BY <1>4 DEF RecordPromotion, Crash, Open, vars
<1>5. QED
  BY <1>1, <1>2, <1>3, <1>4 DEF Next

(* A job that is told of stays so.                                           *)
LEMMA ToldStays == ASSUME Grown, NEW k, Told(k) PROVE Told(k)'
BY DEF Grown, Told

(* The traces of the dispatch the process is in.                             *)
LEMMA TraceStep ==
    ASSUME TypeOK, TraceInv, JobsFollowTheLedger, [Next]_vars
    PROVE  TraceInv'
<1> USE DEF TraceInv, diskVars, runVars, boundVars
<1>1. CASE Prepare
  BY <1>1 DEF Prepare
<1>2. CASE AppendStarted
  BY <1>2 DEF AppendStarted
<1>3. CASE RunHarness
  BY <1>3 DEF RunHarness
<1>4. CASE Charge
  BY <1>4 DEF Charge
<1>5. CASE Accept
  BY <1>5 DEF Accept
<1>6. CASE Keep
  BY <1>6 DEF Keep
<1>7. CASE AppendFailed \/ AppendCompleted \/ RecordPromotion \/ Crash \/ Open
  BY <1>7 DEF AppendFailed, AppendCompleted, RecordPromotion, Crash, Open
<1>8. ASSUME pc \in {"idle"}, pc' = "idle" PROVE TraceInv'
  BY <1>8
<1>9. ASSUME NEW c \in CellId, CellStep(c) PROVE TraceInv'
  <2>1. ASSUME NEW a \in Auth, NEW lineage \in Lineage, Reserve(c, a, lineage)
        PROVE  TraceInv'
    <3>1. \/ UNCHANGED <<pc, current>>
          \/ pc' = "prepare" /\ current'.key = KeyOf(c, a)
      BY <2>1, ReserveTypes DEF TypeOK
    <3>2. QED
      BY <2>1, <3>1 DEF Reserve
  <2>2. CASE Operation \/ ReviseTests(c)
    BY <1>8, <2>2 DEF Operation, ReviseTests
  <2>3. QED
    BY <1>9, <2>1, <2>2 DEF CellStep, Prescribe, Decompose, Integrate, VerifyResult, Close,
       RecordPreReview, RecordPostReview
<1>10. ASSUME NEW j \in mem.jobs, VerifyJob(j) PROVE TraceInv'
  BY <1>8, <1>10 DEF VerifyJob, Operation
<1>11. ASSUME NEW j \in mem.jobs, PromoteJob(j) PROVE TraceInv'
  BY <1>11 DEF PromoteJob, JobsFollowTheLedger, Keys
<1>12. CASE UNCHANGED vars
  BY <1>12 DEF vars
<1>13. QED
  BY <1>1, <1>2, <1>3, <1>4, <1>5, <1>6, <1>7, <1>9, <1>10, <1>11, <1>12 DEF Next, Dispatching

(* What is charged: a step other than Keep and Open changes nothing, or      *)
(* begins to accept a job.                                                   *)
LEMMA ChargeStep ==
    ASSUME TypeOK, ChargeInv, JobsKept, [Next]_vars, ~Keep, ~Open
    PROVE  ChargeInv'
<1> USE DEF ChargeInv, JobsKept, diskVars, runVars, boundVars
<1>1. CASE Prepare \/ AppendStarted \/ RunHarness \/ AppendFailed \/ AppendCompleted
  BY <1>1 DEF Prepare, AppendStarted, RunHarness, AppendFailed, AppendCompleted
<1>2. CASE Charge
  BY <1>2 DEF Charge
<1>3. CASE Accept
  BY <1>3 DEF Accept
<1>4. ASSUME pc = "idle", pc' \in {"idle", "prepare", "landed"}, UNCHANGED charged
      PROVE  ChargeInv'
  BY <1>4
<1>5. ASSUME NEW c \in CellId, CellStep(c) PROVE ChargeInv'
  <2>1. ASSUME NEW a \in Auth, NEW lineage \in Lineage, Reserve(c, a, lineage)
        PROVE  ChargeInv'
    BY <1>4, <2>1 DEF Reserve
  <2>2. CASE Operation \/ ReviseTests(c)
    BY <1>4, <2>2 DEF Operation, ReviseTests
  <2>3. QED
    BY <1>5, <2>1, <2>2 DEF CellStep, Prescribe, Decompose, Integrate, VerifyResult, Close,
       RecordPreReview, RecordPostReview
<1>6. ASSUME NEW j \in mem.jobs, VerifyJob(j) \/ PromoteJob(j) PROVE ChargeInv'
  BY <1>4, <1>6 DEF VerifyJob, Operation, PromoteJob
<1>7. CASE RecordPromotion \/ Crash \/ UNCHANGED vars
  BY <1>7 DEF RecordPromotion, Crash, vars
<1>8. QED
  BY <1>1, <1>2, <1>3, <1>5, <1>6, <1>7 DEF Next, Dispatching

(* The three facts about jobs hold at every step.                            *)
LEMMA JobsStep == ASSUME TypeOK, JobsInv, [Next]_vars PROVE JobsInv'
<1>1. TraceInv' /\ Grown
  BY TraceStep, TracesStay DEF JobsInv
<1>2. CASE Keep
  <2>1. Keys(mem'.jobs) = Keys(mem.jobs) \cup {current.key} /\ saved' = mem'
    BY <1>2, KeepMoves
  <2>2. Told(current.key)
    BY <1>2 DEF Keep, JobsInv, TraceInv, Told
  <2>3. \A k \in Keys(mem'.jobs) \cup Keys(saved'.jobs) : Told(k)
    BY <2>1, <2>2 DEF JobsInv, JobsFollowTheLedger, Told
  <2>4. JobsFollowTheLedger'
    BY <1>1, <2>3, ToldStays DEF JobsFollowTheLedger, Told
  <2>5. ChargeInv'
    BY <1>2, <2>1 DEF Keep, JobsInv, ChargeInv
  <2>6. QED
    BY <1>1, <2>1, <2>4, <2>5 DEF JobsInv
<1>3. CASE Open
  <2>1. \A k \in Keys(mem'.jobs) \cup Keys(saved'.jobs) : Told(k)
    BY <1>3 DEF Open, JobsInv, JobsFollowTheLedger, Told
  <2>2. JobsFollowTheLedger'
    BY <1>1, <2>1, ToldStays DEF JobsFollowTheLedger, Told
  <2>3. QED
    BY <1>1, <1>3, <2>2 DEF Open, JobsInv, ChargeInv
<1>4. CASE ~Keep /\ ~Open
  <2>1. JobsKept
    BY <1>4, JobsMove DEF JobsInv, TraceInv
  <2>2. \A k \in Keys(mem'.jobs) \cup Keys(saved'.jobs) : Told(k)
    BY <2>1 DEF JobsKept, JobsInv, JobsFollowTheLedger, Told
  <2>3. JobsFollowTheLedger'
    BY <1>1, <2>2, ToldStays DEF JobsFollowTheLedger, Told
  <2>4. ChargeInv'
    BY <1>4, <2>1, ChargeStep DEF JobsInv
  <2>5. QED
    BY <1>1, <2>1, <2>3, <2>4 DEF JobsInv, JobsKept
<1>5. QED
  BY <1>2, <1>3, <1>4

LEMMA JobsInitially == Init => JobsInv
BY DEF Init, JobsInv, TraceInv, ChargeInv, JobsFollowTheLedger, Keys

(* Every job in memory or in the checkpoint is accounted for in the ledger   *)
(* and the workspaces.                                                       *)
THEOREM JobsFollowTheLedgerCorrect == Spec => []JobsFollowTheLedger
<1>1. TypeOK /\ TypeOK' /\ JobsInv /\ [Next]_vars => JobsInv'
  BY JobsStep
<1>2. JobsInv => JobsFollowTheLedger
  BY DEF JobsInv
<1>3. QED
  BY <1>1, <1>2, JobsInitially, TypeCorrect, PTL DEF Spec

(* Between calls the charges are the completed jobs.                         *)
THEOREM ChargesMatchJobsCorrect == Spec => []ChargesMatchJobs
<1>1. TypeOK /\ TypeOK' /\ JobsInv /\ [Next]_vars => JobsInv'
  BY JobsStep
<1>2. JobsInv => ChargesMatchJobs
  BY DEF JobsInv, ChargeInv, ChargesMatchJobs
<1>3. QED
  BY <1>1, <1>2, JobsInitially, TypeCorrect, PTL DEF Spec

(* A completed job stays completed through crashes and recoveries: the       *)
(* memory a later checkpoint saves holds every job of the one before.        *)
THEOREM CompletedJobsStayCorrect == Spec => CompletedJobsStay
<1>1. TypeOK /\ TypeOK' /\ JobsInv /\ [Next]_vars => JobsInv'
  BY JobsStep
<1>2. TypeOK /\ JobsInv /\ [Next]_vars => [Keys(saved.jobs) \subseteq Keys(saved'.jobs)]_vars
  <2>1. SUFFICES ASSUME TypeOK, JobsInv, [Next]_vars
                 PROVE  Keys(saved.jobs) \subseteq Keys(saved'.jobs)
    OBVIOUS
  <2>2. CASE Keep
    BY <2>1, <2>2, KeepMoves DEF JobsInv
  <2>3. CASE Open
    BY <2>3 DEF Open
  <2>4. CASE ~Keep /\ ~Open
    BY <2>1, <2>4, JobsMove DEF JobsInv, TraceInv, JobsKept
  <2>5. QED
    BY <2>2, <2>3, <2>4
<1>3. QED
  BY <1>1, <1>2, JobsInitially, TypeCorrect, PTL DEF Spec, CompletedJobsStay
-----------------------------------------------------------------------------
(* The reviews.                                                              *)

VerifiedIn(m, c) == {j \in m.jobs : j.key.cell = c /\ j.verified}

(* What a review owes the verified work of its cell.                         *)
ReviewFits(m, c, review) ==
    /\ \A work \in VerifiedIn(m, c) : review.lineage # work.lineage
    /\ Leaf(c) => Keys(VerifiedIn(m, c)) = {review.base}

(* A job that may still be cited, since it has the revision of its cell, or  *)
(* that is cited, fits the work: a verification moves the revision on, and a *)
(* cell whose review is accepted has no verification to come.                *)
JobFacts(m, j) ==
    /\ j.key.revision <= m.revision[j.key.cell]
    /\ <<j.key.role, j.lineage>> \in m.assignments
    /\ j.verified => j.key.role = "implementer"
ReviewFacts(m, j) ==
    /\ j.key.role = "reviewer"
    /\ j.key.revision = m.revision[j.key.cell] \/ j.key = m.reviewer[j.key.cell]
    => ReviewFits(m, j.key.cell, j)
CellFacts(m, c) ==
    /\ m.reviewer[c] # NoJob =>
        m.phase[c] \in {"post_review", "closed"} /\ m.reviewer[c].role = "reviewer"
    /\ m.phase[c] = "absent" => m.revision[c] = 0
MemoryInv(m) ==
    /\ IsFiniteSet(m.jobs)
    /\ \A j \in m.jobs : JobFacts(m, j) /\ ReviewFacts(m, j)
    /\ \A c \in CellId : CellFacts(m, c)

(* The review being dispatched was reserved on the memory as it still is.    *)
CurrentInv ==
    pc \in {"prepare", "start", "harness", "failed", "charge", "accept", "keep"} =>
        /\ ~current.verified
        /\ current.key.revision <= mem.revision[current.key.cell]
        /\ current.key.role = "reviewer" => ReviewFits(mem, current.key.cell, current)

ReviewInv == MemoryInv(mem) /\ MemoryInv(saved) /\ CurrentInv

(* A memory with the same jobs, its cells at the same or later revisions.    *)
LEMMA GraphKeeps ==
    ASSUME NEW m \in Memory, NEW n \in Memory, MemoryInv(m),
           n.jobs = m.jobs, n.assignments = m.assignments,
           \A c \in CellId : n.revision[c] >= m.revision[c],
           \A c \in CellId : \/ n.reviewer[c] \in {NoJob, m.reviewer[c]}
                             \/ n.reviewer[c].revision = m.revision[c],
           \A c \in CellId : CellFacts(n, c)
    PROVE  MemoryInv(n)
<1>1. SUFFICES ASSUME NEW j \in m.jobs PROVE JobFacts(n, j) /\ ReviewFacts(n, j)
  BY DEF MemoryInv
<1>2. /\ j \in Job /\ j.key \in Key /\ j.key.cell \in CellId /\ j.key.revision \in Nat
      /\ j.key # NoJob
  BY MemoryParts, NameAssumption DEF Job, Key
<1>3. m.revision[j.key.cell] \in Nat /\ n.revision[j.key.cell] \in Nat
  BY <1>2, MemoryParts
<1>4. JobFacts(m, j) /\ ReviewFacts(m, j)
  BY DEF MemoryInv
<1>5. JobFacts(n, j)
  BY <1>2, <1>3, <1>4 DEF JobFacts
<1>6. ReviewFits(n, j.key.cell, j) <=> ReviewFits(m, j.key.cell, j)
  BY DEF ReviewFits, VerifiedIn
<1>7. ASSUME j.key.revision = n.revision[j.key.cell] \/ j.key = n.reviewer[j.key.cell]
      PROVE  j.key.revision = m.revision[j.key.cell] \/ j.key = m.reviewer[j.key.cell]
  BY <1>2, <1>3, <1>4, <1>7 DEF JobFacts
<1>8. QED
  BY <1>4, <1>5, <1>6, <1>7 DEF ReviewFacts

(* A cell enters a phase that no accepted review is in, or is closed.        *)
LEMMA EnterKeeps ==
    ASSUME NEW m \in Memory, MemoryInv(m), NEW c \in CellId, NEW phase \in Phase,
           m.phase[c] \notin {"post_review", "closed"} \/ phase = "closed",
           phase # "absent"
    PROVE  MemoryInv(Enter(m, c, phase))
<1> DEFINE n == Enter(m, c, phase)
<1>1. n \in Memory /\ n.jobs = m.jobs
  BY EnterTypes
<1>2. /\ n.assignments = m.assignments /\ n.reviewer = m.reviewer
      /\ n.phase = [m.phase EXCEPT ![c] = phase]
      /\ n.revision = [m.revision EXCEPT ![c] = m.revision[c] + 1]
  BY DEF Enter, Memory
<1> HIDE DEF n
<1>3. \A k \in CellId : n.revision[k] >= m.revision[k]
  BY <1>2, MemoryParts
<1>4. ASSUME NEW k \in CellId PROVE CellFacts(n, k)
  <2>1. CellFacts(m, k)
    BY DEF MemoryInv
  <2>2. n.phase[k] = IF k = c THEN phase ELSE m.phase[k]
    BY <1>2, MemoryParts
  <2>3. k # c => n.revision[k] = m.revision[k]
    BY <1>2, MemoryParts
  <2>4. QED
    BY <1>2, <2>1, <2>2, <2>3 DEF CellFacts
<1>5. MemoryInv(n)
  BY <1>1, <1>2, <1>3, <1>4, GraphKeeps
<1>6. QED
  BY <1>5 DEF n

(* The operations on a cell.                                                 *)
LEMMA OperationsKeepReviews ==
    ASSUME TypeOK, MemoryInv(mem), NEW c \in CellId, NEW by \in Keys(mem.jobs) \cup {NoJob},
           \/ Prescribe(c) \/ Decompose(c) \/ Integrate(c) \/ VerifyResult(c) \/ Close(c)
           \/ RecordPreReview(c, by) \/ RecordPostReview(c, by)
    PROVE  MemoryInv(mem')
<1> USE DEF Saved, TypeOK
<1>a. mem' \in Memory /\ mem'.jobs = mem.jobs
  BY CellOperations
<1>1. CASE Prescribe(c)
  <2>1. [contract |-> "tests", tests |-> "plan", plan |-> "pre_review"][mem.phase[c]] \in Phase
    BY <1>1, Phases DEF Prescribe
  <2>2. QED
    BY <1>1, <2>1, EnterKeeps DEF Prescribe
<1>2. CASE Decompose(c)
  <2>1. /\ mem'.assignments = mem.assignments /\ mem'.reviewer = mem.reviewer
        /\ mem'.phase = [k \in CellId |-> IF k \in KidsOf[c] THEN "contract" ELSE mem.phase[k]]
        /\ mem'.revision = [k \in CellId |-> IF k \in KidsOf[c] THEN 1
                                             ELSE IF k = c THEN mem.revision[k] + 1
                                             ELSE mem.revision[k]]
    BY <1>2 DEF Decompose, Memory
  <2>2. \A k \in CellId : mem'.revision[k] >= mem.revision[k]
    <3>1. \A k \in CellId : CellFacts(mem, k) /\ mem.revision[k] \in Nat
      BY MemoryParts DEF MemoryInv
    <3>2. \A k \in KidsOf[c] : mem.phase[k] = "absent"
      BY <1>2 DEF Decompose
    <3>3. QED
      BY <2>1, <3>1, <3>2 DEF CellFacts
  <2>3. ASSUME NEW k \in CellId PROVE CellFacts(mem', k)
    <3>1. CellFacts(mem, k)
      BY DEF MemoryInv
    <3>2. QED
      BY <1>2, <2>1, <3>1 DEF CellFacts, Decompose
  <2>4. QED
    BY <1>a, <2>1, <2>2, <2>3, GraphKeeps
<1>3. CASE Integrate(c)
  <2>1. /\ mem' = Enter(mem, c, "integration") \/ mem' = Enter(mem, c, "post_review")
        /\ mem.phase[c] \notin {"post_review", "closed"}
    BY <1>3 DEF Integrate
  <2>2. "integration" \in Phase /\ "post_review" \in Phase
    BY Phases
  <2>3. QED
    BY <2>1, <2>2, EnterKeeps
<1>4. CASE VerifyResult(c)
  BY <1>4, EnterKeeps, Phases DEF VerifyResult
<1>5. CASE Close(c)
  BY <1>5, EnterKeeps, Phases DEF Close
<1>6. CASE RecordPreReview(c, by)
  BY <1>6, EnterKeeps, Phases DEF RecordPreReview
<1>7. CASE RecordPostReview(c, by)
  <2>1. /\ mem'.assignments = mem.assignments /\ mem'.phase = mem.phase
        /\ mem'.revision = mem.revision
        /\ mem'.reviewer = [mem.reviewer EXCEPT ![c] = by]
    BY <1>7 DEF RecordPostReview, Memory
  <2>2. \A k \in CellId : mem'.revision[k] >= mem.revision[k]
    BY <2>1, MemoryParts
  <2>3. mem.phase[c] = "post_review"
    BY <1>7 DEF RecordPostReview
  <2>4. by # NoJob => by.role = "reviewer" /\ by.revision = mem.revision[c]
    BY <1>7, <2>3 DEF RecordPostReview, ReviewBy, RoleAt
  <2>5. mem'.reviewer[c] = by /\ \A k \in CellId \ {c} : mem'.reviewer[k] = mem.reviewer[k]
    BY <2>1, MemoryParts
  <2>6. ASSUME NEW k \in CellId PROVE CellFacts(mem', k)
    <3>1. CellFacts(mem, k)
      BY DEF MemoryInv
    <3>2. QED
      BY <2>1, <2>3, <2>4, <2>5, <3>1 DEF CellFacts
  <2>7. \A k \in CellId : \/ mem'.reviewer[k] \in {NoJob, mem.reviewer[k]}
                          \/ mem'.reviewer[k].revision = mem.revision[k]
    BY <2>4, <2>5
  <2>8. QED
    BY <1>a, <2>1, <2>2, <2>6, <2>7, GraphKeeps
<1>8. QED
  BY <1>1, <1>2, <1>3, <1>4, <1>5, <1>6, <1>7

LEMMA ReviseKeepsReviews ==
    ASSUME TypeOK, MemoryInv(mem), NEW c \in CellId, ReviseTests(c)
    PROVE  MemoryInv(mem')
<1>1. mem' \in Memory /\ mem'.jobs = mem.jobs
  BY ReviseOperation DEF TypeOK
<1>2. /\ mem'.assignments = mem.assignments
      /\ mem'.phase = [mem.phase EXCEPT ![c] = "plan"]
      /\ mem'.revision = [mem.revision EXCEPT ![c] = mem.revision[c] + 1]
      /\ mem'.reviewer = [mem.reviewer EXCEPT ![c] = NoJob]
  BY DEF ReviseTests, Enter, TypeOK, Memory
<1>3. \A k \in CellId : mem'.revision[k] >= mem.revision[k]
  BY <1>2, MemoryParts DEF TypeOK
<1>4. \A k \in CellId : /\ mem'.reviewer[k] = IF k = c THEN NoJob ELSE mem.reviewer[k]
                        /\ mem'.phase[k] = IF k = c THEN "plan" ELSE mem.phase[k]
                        /\ k # c => mem'.revision[k] = mem.revision[k]
  BY <1>2, MemoryParts DEF TypeOK
<1>5. ASSUME NEW k \in CellId PROVE CellFacts(mem', k)
  <2>1. CellFacts(mem, k)
    BY DEF MemoryInv
  <2>2. QED
    BY <1>4, <2>1 DEF CellFacts
<1>6. QED
  BY <1>1, <1>2, <1>3, <1>4, <1>5, GraphKeeps DEF TypeOK

(* A verification changes the work of a cell whose revision moves on and     *)
(* which nobody has reviewed.                                                *)
LEMMA VerifyKeepsReviews ==
    ASSUME TypeOK, MemoryInv(mem), NEW j \in mem.jobs, VerifyJob(j)
    PROVE  MemoryInv(mem')
<1> DEFINE c == j.key.cell
           m == Enter(mem, c, "post_review")
           i == [j EXCEPT !.verified = TRUE]
           jobs == (mem.jobs \ {j}) \cup {i}
<1>1. /\ j \in Job /\ c \in CellId /\ i \in Job /\ i.key = j.key
      /\ i.lineage = j.lineage /\ i.verified = TRUE /\ j.key.role = "implementer"
  BY MemoryParts, JobUpdate DEF TypeOK, Job, Key, VerifyJob
<1>2. mem.phase[c] = "implementation"
  BY DEF VerifyJob
<1>3. m \in Memory /\ m.jobs = mem.jobs /\ MemoryInv(m)
  BY <1>1, <1>2, EnterTypes, EnterKeeps, Phases DEF TypeOK
<1>4. /\ m.revision = [mem.revision EXCEPT ![c] = mem.revision[c] + 1]
      /\ m.reviewer = mem.reviewer
  BY DEF Enter, TypeOK, Memory
<1>5. m.revision[c] = mem.revision[c] + 1 /\ mem.revision[c] \in Nat
  BY <1>1, <1>4, MemoryParts DEF TypeOK
<1>6. m.reviewer[c] = NoJob
  BY <1>1, <1>2, <1>4 DEF MemoryInv, CellFacts
<1> HIDE DEF m
<1>7. mem' = [m EXCEPT !.jobs = jobs]
  BY <1>3 DEF VerifyJob, Saved, m, TypeOK, Memory
<1>8. /\ mem'.jobs = jobs /\ mem'.revision = m.revision /\ mem'.reviewer = m.reviewer
      /\ mem'.assignments = m.assignments /\ mem'.phase = m.phase
  BY <1>3, <1>7 DEF Memory
<1>9. IsFiniteSet(jobs)
  <2>1. IsFiniteSet(mem.jobs \ {j})
    BY FS_RemoveElement, Zenon DEF MemoryInv
  <2>2. QED
    BY <2>1, FS_AddElement, Zenon
<1>10. ASSUME NEW x \in jobs PROVE JobFacts(mem', x) /\ ReviewFacts(mem', x)
  <2>1. x.key.cell # c => x \in m.jobs
    BY <1>1, <1>3
  <2>2. JobFacts(mem', x)
    <3>1. \E y \in m.jobs : y.key = x.key /\ y.lineage = x.lineage
                              /\ (x.verified => y.verified \/ x.key.role = "implementer")
      BY <1>1, <1>3
    <3>2. QED
      BY <1>3, <1>8, <3>1 DEF MemoryInv, JobFacts
  <2>3. ReviewFacts(mem', x)
    <3>1. CASE x.key.cell = c
      <4>1. x.key # NoJob /\ x.key.revision <= mem.revision[c] /\ x.key.revision \in Nat
        <5>1. \E y \in mem.jobs : y.key = x.key
          BY <1>1
        <5>2. \A y \in mem.jobs : y.key \in Key /\ y.key # NoJob /\ y.key.revision \in Nat
          BY MemoryParts, NameAssumption DEF TypeOK, Job, Key
        <5>3. QED
          BY <3>1, <5>1, <5>2 DEF MemoryInv, JobFacts
      <4>2. QED
        BY <1>5, <1>6, <1>8, <3>1, <4>1 DEF ReviewFacts
    <3>2. CASE x.key.cell # c
      <4>1. ReviewFacts(m, x)
        BY <1>3, <2>1, <3>2 DEF MemoryInv
      <4>2. VerifiedIn(mem', x.key.cell) = VerifiedIn(m, x.key.cell)
        BY <1>1, <1>3, <1>8, <3>2 DEF VerifiedIn
      <4>3. QED
        BY <1>8, <4>1, <4>2 DEF ReviewFacts, ReviewFits
    <3>3. QED
      BY <3>1, <3>2
  <2>4. QED
    BY <2>2, <2>3
<1>11. \A k \in CellId : CellFacts(mem', k)
  BY <1>3, <1>8 DEF MemoryInv, CellFacts
<1>12. QED
  BY <1>8, <1>9, <1>10, <1>11 DEF MemoryInv

(* A promoted job is the verified job it was.                                *)
LEMMA PromotionKeepsReviews ==
    ASSUME TypeOK, MemoryInv(mem), RecordPromotion, current \in mem.jobs
    PROVE  MemoryInv(mem')
<1> DEFINE i == [current EXCEPT !.promoted = TRUE]
           jobs == (mem.jobs \ {current}) \cup {i}
<1>1. /\ current \in Job /\ i \in Job /\ i.key = current.key /\ i.lineage = current.lineage
      /\ i.verified = current.verified /\ i.base = current.base
  BY MemoryParts DEF TypeOK, Job
<1>2. mem' = [mem EXCEPT !.jobs = jobs]
  BY DEF RecordPromotion, Saved
<1>3. /\ mem'.jobs = jobs /\ mem'.revision = mem.revision /\ mem'.reviewer = mem.reviewer
      /\ mem'.assignments = mem.assignments /\ mem'.phase = mem.phase
  BY <1>2 DEF TypeOK, Memory
<1>4. IsFiniteSet(jobs)
  <2>1. IsFiniteSet(mem.jobs \ {current})
    BY FS_RemoveElement, Zenon DEF MemoryInv
  <2>2. QED
    BY <2>1, FS_AddElement, Zenon
<1> HIDE DEF i
<1>5. \A x \in jobs : \E y \in mem.jobs : /\ y.key = x.key /\ y.lineage = x.lineage
                                         /\ y.verified = x.verified /\ y.base = x.base
  BY <1>1
<1>6. \A y \in mem.jobs : \E x \in jobs : /\ y.key = x.key /\ y.lineage = x.lineage
                                         /\ y.verified = x.verified /\ y.base = x.base
  BY <1>1
<1> HIDE DEF jobs
<1>7. ASSUME NEW k
      PROVE  /\ Keys(VerifiedIn(mem', k)) = Keys(VerifiedIn(mem, k))
             /\ \A x \in VerifiedIn(mem', k) : \E y \in VerifiedIn(mem, k) : y.lineage = x.lineage
  <2>1. \A x \in VerifiedIn(mem', k) : \E y \in VerifiedIn(mem, k) :
            y.key = x.key /\ y.lineage = x.lineage
    BY <1>3, <1>5 DEF VerifiedIn
  <2>2. \A y \in VerifiedIn(mem, k) : \E x \in VerifiedIn(mem', k) : y.key = x.key
    BY <1>3, <1>6 DEF VerifiedIn
  <2>3. QED
    BY <2>1, <2>2 DEF Keys
<1>8. ASSUME NEW x \in jobs PROVE JobFacts(mem', x) /\ ReviewFacts(mem', x)
  <2>1. PICK y \in mem.jobs : /\ y.key = x.key /\ y.lineage = x.lineage
                              /\ y.verified = x.verified /\ y.base = x.base
    BY <1>5
  <2>2. JobFacts(mem, y) /\ ReviewFacts(mem, y)
    BY DEF MemoryInv
  <2>3. JobFacts(mem', x)
    BY <1>3, <2>1, <2>2 DEF JobFacts
  <2>4. ReviewFits(mem, y.key.cell, y) => ReviewFits(mem', x.key.cell, x)
    BY <1>7, <2>1 DEF ReviewFits
  <2>5. QED
    BY <1>3, <2>1, <2>2, <2>3, <2>4 DEF ReviewFacts
<1>9. \A k \in CellId : CellFacts(mem', k)
  BY <1>3 DEF MemoryInv, CellFacts
<1>10. QED
  BY <1>3, <1>4, <1>8, <1>9 DEF MemoryInv

(* A completed job is not verified yet, and fits if it is a review.          *)
LEMMA KeepKeepsReviews ==
    ASSUME TypeOK, MemoryInv(mem), CurrentInv, Keep
    PROVE  MemoryInv(mem')
<1> DEFINE jobs == mem.jobs \cup {current}
           as == mem.assignments \cup {<<current.key.role, current.lineage>>}
<1>1. mem' = [mem EXCEPT !.jobs = jobs, !.assignments = as]
  BY DEF Keep, Saved
<1>2. /\ mem'.jobs = jobs /\ mem'.revision = mem.revision /\ mem'.reviewer = mem.reviewer
      /\ mem'.assignments = as /\ mem'.phase = mem.phase
  BY <1>1 DEF TypeOK, Memory
<1>3. IsFiniteSet(jobs)
  BY FS_AddElement, Zenon DEF MemoryInv
<1>4. /\ ~current.verified
      /\ current.key.revision <= mem.revision[current.key.cell]
      /\ current.key.role = "reviewer" => ReviewFits(mem, current.key.cell, current)
  BY DEF CurrentInv, Keep
<1>5. \A k : VerifiedIn(mem', k) = VerifiedIn(mem, k)
  BY <1>2, <1>4 DEF VerifiedIn
<1>6. \A x, k : ReviewFits(mem', k, x) <=> ReviewFits(mem, k, x)
  BY <1>5 DEF ReviewFits
<1>7. ASSUME NEW x \in jobs PROVE JobFacts(mem', x) /\ ReviewFacts(mem', x)
  <2>1. CASE x = current
    BY <1>2, <1>4, <1>6, <2>1 DEF JobFacts, ReviewFacts
  <2>2. CASE x \in mem.jobs
    BY <1>2, <1>6, <2>2 DEF JobFacts, ReviewFacts, MemoryInv
  <2>3. QED
    BY <2>1, <2>2
<1>8. \A k \in CellId : CellFacts(mem', k)
  BY <1>2 DEF MemoryInv, CellFacts
<1>9. QED
  BY <1>2, <1>3, <1>7, <1>8 DEF MemoryInv

(* A reserved review is of the one verified candidate, if the cell is a leaf,*)
(* and from no context an implementer of it had.                             *)
LEMMA ReserveFits ==
    ASSUME TypeOK, MemoryInv(mem), CurrentInv, NEW c \in CellId, NEW a \in Auth,
           NEW lineage \in Lineage, Reserve(c, a, lineage)
    PROVE  CurrentInv'
<1>0. mem' = mem /\ pc = "idle" /\ Independent(RoleAt[mem.phase[c]], lineage)
  BY DEF Reserve
<1>1. CASE KeyOf(c, a) \in Keys(mem.jobs) \/ Cardinality(Bases(c)) # 1
  BY <1>0, <1>1 DEF Reserve, CurrentInv
<1>2. CASE ~(KeyOf(c, a) \in Keys(mem.jobs) \/ Cardinality(Bases(c)) # 1)
  <2>1. PICK base \in Bases(c) :
          current' = [key |-> KeyOf(c, a), lineage |-> lineage, base |-> base,
                      verified |-> FALSE, promoted |-> FALSE]
    BY <1>2 DEF Reserve
  <2>2. /\ current'.key.cell = c /\ current'.key.revision = mem.revision[c]
        /\ current'.key.role = RoleAt[mem.phase[c]] /\ current'.lineage = lineage
        /\ current'.base = base /\ current'.verified = FALSE
    BY <2>1 DEF KeyOf
  <2>3. mem.revision[c] \in Nat
    BY MemoryParts DEF TypeOK
  <2>4. ASSUME RoleAt[mem.phase[c]] = "reviewer" PROVE ReviewFits(mem, c, current')
    <3>1. mem.phase[c] = "post_review"
      BY <2>4, MemoryParts, Phases DEF TypeOK, RoleAt
    <3>2. <<"implementer", lineage>> \notin mem.assignments
      BY <1>0, <2>4 DEF Independent, Rules
    <3>3. \A work \in VerifiedIn(mem, c) : lineage # work.lineage
      BY <3>2 DEF VerifiedIn, MemoryInv, JobFacts
    <3>4. ASSUME Leaf(c) PROVE Keys(VerifiedIn(mem, c)) = {base}
      <4>1. Bases(c) = Keys(VerifiedIn(mem, c))
        BY <3>1, <3>4 DEF Bases, Reviewing, VerifiedOf, JobsOf, VerifiedIn
      <4>2. IsFiniteSet(VerifiedIn(mem, c))
        BY FS_Subset, Zenon DEF VerifiedIn, MemoryInv
      <4>3. IsFiniteSet(Bases(c))
        <5> DEFINE S == VerifiedIn(mem, c)
               key == [x \in S |-> x.key]
        <5>1. /\ key \in [S -> Keys(S)]
              /\ \A k \in Keys(S) : \E x \in S : key[x] = k
          BY DEF Keys
        <5> HIDE DEF S, key
        <5>2. key \in Surjection(S, Keys(S))
          BY <5>1, Fun_IsSurj, Zenon
        <5>3. IsFiniteSet(Keys(S))
          BY <4>2, <5>2, FS_Surjection, Zenon DEF S
        <5>4. QED
          BY <4>1, <5>3 DEF S
      <4>4. \E x : Bases(c) = {x}
        BY <1>2, <4>3, FS_Singleton
      <4>5. QED
        BY <4>1, <4>4
    <3>5. QED
      BY <2>2, <3>3, <3>4 DEF ReviewFits
  <2>5. QED
    BY <1>0, <2>2, <2>3, <2>4 DEF CurrentInv
<1>3. QED
  BY <1>1, <1>2

LEMMA ReviewStep == ASSUME TypeOK, TypeOK', TraceInv, ReviewInv, [Next]_vars PROVE ReviewInv'
<1> USE DEF ReviewInv, diskVars, runVars, boundVars
\* Outside Keep a dispatch leaves the memory as it is.
<1>1. CASE Dispatching /\ ~Keep
  <2>1. /\ mem' = mem /\ saved' \in {mem, saved} /\ current' = current
        /\ pc' \in {"prepare", "start", "harness", "failed", "charge", "accept", "keep"} =>
             pc \in {"prepare", "start", "harness", "failed", "charge", "accept", "keep"}
    BY <1>1 DEF Dispatching, Prepare, AppendStarted, RunHarness, AppendFailed, Charge, Accept,
       AppendCompleted
  <2>2. QED
    BY <2>1 DEF CurrentInv
<1>2. CASE Keep
  <2>1. MemoryInv(mem') /\ saved' = mem'
    BY <1>2, KeepKeepsReviews DEF Keep, Saved
  <2>2. pc' = "complete"
    BY <1>2 DEF Keep
  <2>3. QED
    BY <2>1, <2>2 DEF CurrentInv
\* The operations between calls.
<1>3. ASSUME pc' \in {"idle", "down", "landed"} PROVE CurrentInv'
  BY <1>3 DEF CurrentInv
<1>4. ASSUME NEW c \in CellId, CellStep(c) PROVE ReviewInv'
  <2>1. ASSUME NEW a \in Auth, NEW lineage \in Lineage, Reserve(c, a, lineage)
        PROVE  ReviewInv'
    <3>1. UNCHANGED <<mem, saved>>
      BY <2>1 DEF Reserve
    <3>2. CurrentInv'
      BY <2>1, ReserveFits
    <3>3. QED
      BY <3>1, <3>2
  <2>2. ASSUME NEW by \in Keys(mem.jobs) \cup {NoJob},
               \/ Prescribe(c) \/ Decompose(c) \/ Integrate(c) \/ VerifyResult(c) \/ Close(c)
               \/ RecordPreReview(c, by) \/ RecordPostReview(c, by)
        PROVE  ReviewInv'
    <3>1. MemoryInv(mem')
      BY <2>2, OperationsKeepReviews
    <3>2. Operation /\ saved' = mem'
      BY <2>2, CellOperations DEF TypeOK
    <3>3. QED
      BY <1>3, <3>1, <3>2 DEF Operation
  <2>3. CASE ReviseTests(c)
    <3>1. MemoryInv(mem')
      BY <2>3, ReviseKeepsReviews
    <3>2. QED
      BY <1>3, <2>3, <3>1 DEF ReviseTests
  <2>4. QED
    BY <1>4, <2>1, <2>2, <2>3 DEF CellStep
<1>5. ASSUME NEW j \in mem.jobs, VerifyJob(j) PROVE ReviewInv'
  <2>1. MemoryInv(mem') /\ saved' = mem'
    BY <1>5, VerifyKeepsReviews DEF VerifyJob, Saved
  <2>2. QED
    BY <1>3, <1>5, <2>1 DEF VerifyJob, Operation
<1>6. ASSUME NEW j \in mem.jobs, PromoteJob(j) PROVE ReviewInv'
  <2>1. mem' = mem /\ saved' \in {mem, saved} /\ pc' \in {"idle", "landed"}
    BY <1>6 DEF PromoteJob
  <2>2. QED
    BY <1>3, <2>1
<1>7. CASE RecordPromotion
  <2>1. current \in mem.jobs
    BY <1>7 DEF RecordPromotion, TraceInv
  <2>2. MemoryInv(mem') /\ saved' = mem'
    BY <1>7, <2>1, PromotionKeepsReviews DEF RecordPromotion, Saved
  <2>3. QED
    BY <1>3, <1>7, <2>2 DEF RecordPromotion
<1>8. CASE Crash \/ Open
  BY <1>3, <1>8 DEF Crash, Open
<1>9. CASE UNCHANGED vars
  BY <1>9 DEF vars, CurrentInv
<1>10. QED
  BY <1>1, <1>2, <1>4, <1>5, <1>6, <1>7, <1>8, <1>9 DEF Next

LEMMA ReviewsCorrect == Spec => [](TypeOK /\ ReviewInv)
<1>1. Init => ReviewInv
  <2>1. IsFiniteSet({})
    BY FS_EmptySet
  <2>2. QED
    BY <2>1 DEF Init, ReviewInv, MemoryInv, CellFacts, CurrentInv
<1>2. TypeOK /\ TypeOK' /\ JobsInv /\ [Next]_vars => JobsInv'
  BY JobsStep
<1>3. TypeOK /\ TypeOK' /\ JobsInv /\ ReviewInv /\ [Next]_vars => ReviewInv'
  BY ReviewStep DEF JobsInv
<1>4. QED
  BY <1>1, <1>2, <1>3, JobsInitially, TypeCorrect, PTL DEF Spec

(* An accepted review never has the context of the work it is about, in any  *)
(* order of dispatches, recoveries and test revisions.                       *)
THEOREM IndependentReviewCorrect == Spec => []IndependentReview
<1>1. TypeOK /\ ReviewInv => IndependentReview
  <2> SUFFICES ASSUME TypeOK, ReviewInv, NEW c \in CellId, NEW review \in JobsOf(c),
                      NEW work \in VerifiedOf(c), review.key = mem.reviewer[c]
               PROVE  review.lineage # work.lineage
    BY DEF IndependentReview
  <2>1. review.key # NoJob /\ review \in mem.jobs /\ review.key.cell = c
    BY MemoryParts, NameAssumption DEF TypeOK, JobsOf, Job
  <2>2. ReviewFits(mem, c, review)
    BY <2>1 DEF ReviewInv, MemoryInv, CellFacts, ReviewFacts
  <2>3. QED
    BY <2>2 DEF ReviewFits, VerifiedIn, VerifiedOf, JobsOf
<1>2. QED
  BY <1>1, ReviewsCorrect, PTL

(* The accepted review of a leaf was done on the one candidate it has.       *)
THEOREM ReviewSeesCandidateCorrect == Spec => []ReviewSeesCandidate
<1>1. TypeOK /\ ReviewInv => ReviewSeesCandidate
  <2> SUFFICES ASSUME TypeOK, ReviewInv, NEW c \in CellId, NEW review \in JobsOf(c),
                      Leaf(c), review.key = mem.reviewer[c]
               PROVE  Keys(VerifiedOf(c)) = {review.base}
    BY DEF ReviewSeesCandidate
  <2>1. review.key # NoJob /\ review \in mem.jobs /\ review.key.cell = c
    BY MemoryParts, NameAssumption DEF TypeOK, JobsOf, Job
  <2>2. ReviewFits(mem, c, review)
    BY <2>1 DEF ReviewInv, MemoryInv, CellFacts, ReviewFacts
  <2>3. VerifiedOf(c) = VerifiedIn(mem, c)
    BY DEF VerifiedIn, VerifiedOf, JobsOf
  <2>4. QED
    BY <2>2, <2>3 DEF ReviewFits
<1>2. QED
  BY <1>1, ReviewsCorrect, PTL

-----------------------------------------------------------------------------
(* The driver takes no step that Dispatch does not have.                     *)

(* The driver waits for the result of a cell, or applies one, while asked is *)
(* a cell; a dispatch only runs for a result it waits for.                   *)
AskInv ==
    /\ asked \in CellId \cup {NoCell}
    /\ todo # << >> => asked # NoCell /\ pc = "idle"
    /\ pc = "down" => asked = NoCell
    /\ pc \notin {"idle", "down"} => asked # NoCell

(* What each operation of _apply is in Dispatch.                             *)
LEMMA PerformIsCellStep ==
    ASSUME NEW name, NEW c \in CellId, Perform(name, c)
    PROVE  CellStep(c) /\ UNCHANGED <<pc, current>>
<1>1. NoJob \in Keys(mem.jobs) \cup {NoJob}
  OBVIOUS
<1>2. CellStep(c)
  BY <1>1 DEF Perform, CellStep
<1>3. Operation
  BY DEF Perform, Prescribe, RecordPreReview, Decompose, VerifyResult, Integrate,
     RecordPostReview, Close
<1>4. QED
  BY <1>2, <1>3 DEF Operation

(* The driver's steps keep its place.                                        *)
LEMMA AskStep == ASSUME AskInv, [DriverNext]_allVars PROVE AskInv'
<1> USE DEF AskInv, Park, Answered
<1>1. ASSUME NEW c \in CellId,
             ParkUndecomposed(c) \/ AnswerItself(c)
      PROVE  AskInv'
  <2>1. pc = "idle" /\ pc' = "idle"
    BY <1>1 DEF ParkUndecomposed, AnswerItself, Chosen, vars
  <2>2. asked' \in CellId \/ (asked' = NoCell /\ todo' = << >>)
    BY <1>1 DEF ParkUndecomposed, AnswerItself
  <2>3. QED
    BY <2>1, <2>2, PlaceAssumption
<1>2. ASSUME NEW c \in CellId, BeginIntegration(c) PROVE AskInv'
  BY <1>2 DEF BeginIntegration, Chosen, Integrate, Operation, driverVars
<1>3. ASSUME NEW c \in CellId, NEW a \in Auth, NEW lineage \in Lineage, Delegate(c, a, lineage)
      PROVE  AskInv'
  BY <1>3, PlaceAssumption DEF Delegate, Chosen
<1>4. ASSUME NEW c \in CellId, NEW lineage \in Lineage, ParkUnresolved(c, lineage)
      PROVE  AskInv'
  BY <1>4 DEF ParkUnresolved, Chosen, vars
<1>5. CASE Dispatches
  <2>1. pc \notin {"idle", "down"} /\ pc' # "down"
    BY <1>5 DEF Dispatches, Dispatching, Prepare, AppendStarted, RunHarness, AppendFailed,
       Charge, Accept, Keep, AppendCompleted
  <2>2. QED
    BY <1>5, <2>1 DEF Dispatches, driverVars
<1>6. CASE TakeResult \/ ParkRefused
  BY <1>6 DEF TakeResult, ParkRefused, vars
<1>7. CASE Apply
  <2>1. UNCHANGED pc
    BY <1>7, PerformIsCellStep DEF Apply
  <2>2. QED
    BY <1>7, <2>1 DEF Apply
<1>8. CASE Resume
  BY <1>8 DEF Resume, vars
<1>9. CASE Die \/ Reopen
  BY <1>9 DEF Die, Crash, Reopen, Open, driverVars
<1>10. CASE UNCHANGED allVars
  BY <1>10 DEF allVars, vars, driverVars
<1>11. QED
  BY <1>1, <1>2, <1>3, <1>4, <1>5, <1>6, <1>7, <1>8, <1>9, <1>10 DEF DriverNext, Drive

(* Every step of the driver is a step of Dispatch, or leaves it alone.       *)
LEMMA DriverStepIsDispatchStep ==
    ASSUME AskInv, [DriverNext]_allVars
    PROVE  [Next]_vars
<1>1. ASSUME NEW c \in CellId,
             ParkUndecomposed(c) \/ AnswerItself(c)
      PROVE  UNCHANGED vars
  BY <1>1 DEF ParkUndecomposed, AnswerItself
<1>2. ASSUME NEW c \in CellId, BeginIntegration(c) PROVE Next
  BY <1>2 DEF BeginIntegration, CellStep, Next
<1>3. ASSUME NEW c \in CellId, NEW a \in Auth, NEW lineage \in Lineage, Delegate(c, a, lineage)
      PROVE  Next
  BY <1>3 DEF Delegate, CellStep, Next
<1>4. ASSUME NEW c \in CellId, NEW lineage \in Lineage, ParkUnresolved(c, lineage)
      PROVE  UNCHANGED vars
  BY <1>4 DEF ParkUnresolved
<1>5. CASE Dispatches
  BY <1>5 DEF Dispatches, Next
<1>6. CASE TakeResult \/ ParkRefused \/ Resume \/ UNCHANGED allVars
  BY <1>6 DEF TakeResult, ParkRefused, Resume, allVars, vars
<1>7. CASE Apply
  <2>1. asked \in CellId /\ Perform(Head(todo), asked)
    BY <1>7 DEF Apply, AskInv
  <2>2. QED
    BY <2>1, PerformIsCellStep DEF Next
<1>8. CASE Die \/ Reopen
  BY <1>8 DEF Die, Reopen, Next
<1>9. QED
  BY <1>1, <1>2, <1>3, <1>4, <1>5, <1>6, <1>7, <1>8 DEF DriverNext, Drive

LEMMA AskInitially == DriverInit => AskInv
BY DEF DriverInit, Init, AskInv

(* The driver implements Dispatch: whatever is true of any caller of the     *)
(* system is true of this one.                                               *)
THEOREM ImplementsDispatch == DriverSpec => Spec
<1>1. DriverInit => Init
  BY DEF DriverInit
<1>2. AskInv /\ [DriverNext]_allVars => AskInv' /\ [Next]_vars
  BY AskStep, DriverStepIsDispatchStep
<1>3. QED
  BY <1>1, <1>2, AskInitially, PTL DEF DriverSpec, Spec

(* So a run the driver drives has its harnesses run once, its jobs explained *)
(* by the ledger, and no completed job lost.                                 *)
THEOREM DrivenDispatchCorrect ==
    DriverSpec => [](TypeOK /\ HarnessRunsOnce /\ JobsFollowTheLedger /\ ChargesMatchJobs)
                  /\ CompletedJobsStay
BY ImplementsDispatch, TypeCorrect, HarnessRunsOnceCorrect, JobsFollowTheLedgerCorrect,
   ChargesMatchJobsCorrect, CompletedJobsStayCorrect, PTL

-----------------------------------------------------------------------------
(* What an operation does to phases and revisions.                           *)

LEMMA EnterParts ==
    ASSUME NEW m \in Memory, NEW c \in CellId, NEW phase
    PROVE  /\ \A k \in CellId :
                 /\ Enter(m, c, phase).phase[k] = IF k = c THEN phase ELSE m.phase[k]
                 /\ k # c => Enter(m, c, phase).revision[k] = m.revision[k]
           /\ Enter(m, c, phase).jobs = m.jobs
<1>1. /\ Enter(m, c, phase).phase = [m.phase EXCEPT ![c] = phase]
      /\ Enter(m, c, phase).revision = [m.revision EXCEPT ![c] = m.revision[c] + 1]
      /\ Enter(m, c, phase).jobs = m.jobs
  BY DEF Enter, Memory
<1>2. QED
  BY <1>1, MemoryParts

(* An operation closes no cell but by Close, and only moves the revision of  *)
(* its cell and of cells that were not there.                                *)
OnlyMoves(c) ==
    \A k \in CellId :
        /\ mem'.phase[k] = "closed" => mem.phase[k] = "closed"
        /\ mem'.revision[k] # mem.revision[k] => k = c \/ mem.phase[k] = "absent"

LEMMA PerformMoves ==
    ASSUME mem \in Memory, NEW name, NEW c \in CellId, Perform(name, c)
    PROVE  /\ mem' \in Memory /\ saved' = mem' /\ mem'.jobs = mem.jobs
           /\ name # "close" => OnlyMoves(c)
           /\ name = "close" =>
                /\ MayClose(c)
                /\ \A k \in CellId \ {c} : /\ mem'.phase[k] = mem.phase[k]
                                           /\ mem'.revision[k] = mem.revision[k]
           /\ name = "post_review" =>
                mem'.phase = mem.phase /\ mem'.revision = mem.revision
           /\ name = "pre_review" /\ ~Leaf(c) => mem'.phase[c] = "children"
           /\ name = "decompose" => mem.phase[c] = "children"
<1>a. NoJob \in Keys(mem.jobs) \cup {NoJob}
  OBVIOUS
<1>b. mem' \in Memory /\ saved' = mem' /\ mem'.jobs = mem.jobs
  BY <1>a, CellOperations DEF Perform
<1>1. CASE name = "prescribe" /\ Prescribe(c)
  <2>1. PICK phase \in {"tests", "plan", "pre_review"} : mem' = Enter(mem, c, phase)
    <3>1. [contract |-> "tests", tests |-> "plan", plan |-> "pre_review"][mem.phase[c]]
            \in {"tests", "plan", "pre_review"}
      BY <1>1 DEF Prescribe
    <3>2. QED
      BY <1>1, <3>1 DEF Prescribe, Saved
  <2>2. OnlyMoves(c)
    BY <2>1, EnterParts DEF OnlyMoves
  <2>3. QED
    BY <1>1, <1>b, <2>2
<1>2. CASE name = "pre_review" /\ RecordPreReview(c, NoJob)
  <2>1. mem' = Enter(mem, c, IF Leaf(c) THEN "implementation" ELSE "children")
    BY <1>2 DEF RecordPreReview, Saved
  <2>2. OnlyMoves(c) /\ (~Leaf(c) => mem'.phase[c] = "children")
    BY <2>1, EnterParts DEF OnlyMoves
  <2>3. QED
    BY <1>2, <1>b, <2>2
<1>3. CASE name = "decompose" /\ Decompose(c)
  <2>1. /\ mem'.phase = [k \in CellId |-> IF k \in KidsOf[c] THEN "contract" ELSE mem.phase[k]]
        /\ mem'.revision = [k \in CellId |-> IF k \in KidsOf[c] THEN 1
                                             ELSE IF k = c THEN mem.revision[k] + 1
                                             ELSE mem.revision[k]]
    BY <1>3 DEF Decompose, Saved, Memory
  <2>2. OnlyMoves(c) /\ mem.phase[c] = "children"
    BY <1>3, <2>1 DEF OnlyMoves, Decompose
  <2>3. QED
    BY <1>3, <1>b, <2>2
<1>4. CASE name = "verify" /\ VerifyResult(c)
  <2>1. OnlyMoves(c)
    BY <1>4, EnterParts DEF OnlyMoves, VerifyResult, Saved
  <2>2. QED
    BY <1>4, <1>b, <2>1
<1>5. CASE name = "integrate" /\ Integrate(c)
  <2>1. mem' = Enter(mem, c, "integration") \/ mem' = Enter(mem, c, "post_review")
    BY <1>5 DEF Integrate, Saved
  <2>2. OnlyMoves(c)
    BY <2>1, EnterParts DEF OnlyMoves
  <2>3. QED
    BY <1>5, <1>b, <2>2
<1>6. CASE name = "post_review" /\ RecordPostReview(c, NoJob)
  <2>1. mem'.phase = mem.phase /\ mem'.revision = mem.revision
    BY <1>6 DEF RecordPostReview, Saved, Memory
  <2>2. QED
    BY <1>6, <1>b, <2>1 DEF OnlyMoves
<1>7. CASE name = "close" /\ Close(c)
  <2>1. mem' = Enter(mem, c, "closed") /\ MayClose(c)
    BY <1>7 DEF Close, Saved
  <2>2. QED
    BY <1>7, <1>b, <2>1, EnterParts
<1>8. QED
  BY <1>1, <1>2, <1>3, <1>4, <1>5, <1>6, <1>7 DEF Perform

-----------------------------------------------------------------------------
(* No step without its job.                                                  *)

(* What can be left to do of a result: one operation, or a decision with the *)
(* consequence that follows it.                                              *)
TodoInv ==
    \/ todo = << >>
    \/ \E name \in OperationName : todo = << name >>
    \/ todo = << "pre_review", "decompose" >> /\ ~Leaf(asked)
    \/ todo = << "post_review", "close" >>

(* A dispatch the driver waits for is one for the cell as it is.             *)
WaitInv ==
    asked # NoCell /\ todo = << >> =>
        /\ current \in Job /\ ~current.promoted
        /\ current.key.cell = asked /\ current.key.revision = mem.revision[asked]
        /\ mem.phase[asked] \notin {"children", "closed", "absent"}

(* While there is something to do for a delegated role, its job is there.    *)
HasJob(c) == \E j \in JobsOf(c) : j.key.revision = mem.revision[c]
AnswerInv ==
    todo # << >> /\ RoleAt[mem.phase[asked]] \in provider[asked] => HasJob(asked)

(* The driver promotes no job, and so closes no cell that has one.           *)
Jobless(m) ==
    \A j \in m.jobs : ~j.promoted /\ m.phase[j.key.cell] # "closed"
CloseInv == Jobless(mem) /\ Jobless(saved) /\ pc # "landed"

DriveInv == TodoInv /\ WaitInv /\ AnswerInv /\ CloseInv /\ provider \in Provider

(* Phases that belong to no role are never delegated.                        *)
LEMMA NoRole ==
    ASSUME provider \in Provider, NEW c \in CellId,
           mem.phase[c] \in {"children", "closed", "absent"}
    PROVE  RoleAt[mem.phase[c]] \notin provider[c]
<1>1. RoleAt[mem.phase[c]] = "none"
  BY DEF RoleAt
<1>2. provider[c] \subseteq Role
  BY ProviderAssumption
<1>3. QED
  BY <1>1, <1>2 DEF Role

(* Heads and tails of what there is to do.                                   *)
LEMMA Tails ==
    /\ \A x : Head(<< x >>) = x /\ Tail(<< x >>) = << >>
    /\ /\ Head(<< "pre_review", "decompose" >>) = "pre_review"
       /\ Tail(<< "pre_review", "decompose" >>) = << "decompose" >>
    /\ /\ Head(<< "post_review", "close" >>) = "post_review"
       /\ Tail(<< "post_review", "close" >>) = << "close" >>
    /\ \A x : << x >> # << >> /\ \A y : << x, y >> # << >>
OBVIOUS

(* Taking an answer, once the job it may need is there.                      *)
LEMMA AnsweredKeeps ==
    ASSUME DriveInv, NEW c \in CellId, Answered(c), UNCHANGED vars \/ UNCHANGED <<mem, saved, pc, current>>,
           mem \in Memory, mem.phase[c] \notin {"children", "closed", "absent"},
           RoleAt[mem.phase[c]] \in provider[c] => HasJob(c)
    PROVE  DriveInv'
<1> USE DEF DriveInv
<1>a. UNCHANGED <<mem, saved, pc, current, provider>>
  BY DEF vars, Answered
<1>1. asked' = c /\ todo' # << >> /\ TodoInv'
  <2>1. mem.phase[c] \in {"contract", "tests", "plan", "pre_review", "implementation",
                          "integration", "post_review"}
    BY Phases, MemoryParts
  <2>2. \/ \E name \in OperationName : todo' = << name >>
        \/ todo' = << "pre_review", "decompose" >> /\ ~Leaf(c)
        \/ todo' = << "post_review", "close" >>
    <3>1. CASE mem.phase[c] \in {"contract", "tests", "plan"}
      <4>1. todo' = << "prescribe" >>
        BY <3>1 DEF Answered
      <4>2. QED
        BY <4>1 DEF OperationName
    <3>2. CASE mem.phase[c] = "pre_review"
      <4>1. todo' = IF Leaf(c) THEN << "pre_review" >> ELSE << "pre_review", "decompose" >>
        BY <3>2 DEF Answered
      <4>2. QED
        BY <4>1 DEF OperationName
    <3>3. CASE mem.phase[c] \in {"implementation", "integration"}
      <4>1. todo' = << "verify" >> \/ todo' = << "integrate" >>
        BY <3>3 DEF Answered
      <4>2. QED
        BY <4>1 DEF OperationName
    <3>4. CASE mem.phase[c] = "post_review"
      BY <3>4 DEF Answered
    <3>5. QED
      BY <2>1, <3>1, <3>2, <3>3, <3>4
  <2>3. asked' = c
    BY DEF Answered
  <2>4. todo' # << >>
    BY <2>2, Tails
  <2>5. TodoInv'
    BY <2>2, <2>3 DEF TodoInv, Leaf
  <2>6. QED
    BY <2>3, <2>4, <2>5
<1>2. WaitInv'
  BY <1>1 DEF WaitInv
<1>3. AnswerInv'
  BY <1>a, <1>1 DEF AnswerInv, HasJob, JobsOf
<1>4. CloseInv'
  BY <1>a DEF CloseInv, Jobless
<1>5. QED
  BY <1>a, <1>1, <1>2, <1>3, <1>4

(* No operation closes a cell with jobs.                                     *)
LEMMA PerformKeepsJobless ==
    ASSUME mem \in Memory, Jobless(mem), NEW name, NEW c \in CellId, Perform(name, c)
    PROVE  Jobless(mem') /\ saved' = mem'
<1>1. mem'.jobs = mem.jobs /\ saved' = mem'
  BY PerformMoves
<1>2. SUFFICES ASSUME NEW j \in mem.jobs PROVE mem'.phase[j.key.cell] # "closed"
  BY <1>1 DEF Jobless
<1>3. j.key.cell \in CellId /\ ~j.promoted /\ mem.phase[j.key.cell] # "closed"
  BY MemoryParts DEF Jobless, Job, Key
<1>4. CASE name # "close"
  BY <1>3, <1>4, PerformMoves DEF OnlyMoves
<1>5. CASE name = "close"
  <2>1. MayClose(c)
    BY <1>5, PerformMoves
  <2>2. j.key.cell # c
    BY <2>1 DEF MayClose, JobsOf, Jobless
  <2>3. QED
    BY <1>3, <1>5, <2>2, PerformMoves
<1>6. QED
  BY <1>4, <1>5

(* One operation of a result.                                                *)
LEMMA ApplyKeeps == ASSUME TypeOK, AskInv, DriveInv, Apply PROVE DriveInv'
<1> DEFINE name == Head(todo)
<1>1. /\ asked \in CellId /\ Perform(name, asked) /\ mem \in Memory
      /\ todo # << >> /\ pc = "idle"
  BY DEF Apply, AskInv, TypeOK
<1>2. /\ mem' \in Memory /\ mem'.jobs = mem.jobs
      /\ name = "post_review" => mem'.phase = mem.phase /\ mem'.revision = mem.revision
      /\ name = "pre_review" /\ ~Leaf(asked) => mem'.phase[asked] = "children"
  BY <1>1, PerformMoves
<1>3. CloseInv'
  <2>1. UNCHANGED pc
    BY <1>1, PerformIsCellStep
  <2>2. QED
    BY <1>1, <2>1, PerformKeepsJobless DEF DriveInv, CloseInv
<1>4. provider' = provider /\ todo' = Tail(todo)
  BY DEF Apply
<1>5. CASE todo' = << >>
  <2>1. asked' = NoCell
    BY <1>4, <1>5 DEF Apply
  <2>2. TodoInv' /\ WaitInv' /\ AnswerInv'
    BY <1>5, <2>1 DEF TodoInv, WaitInv, AnswerInv
  <2>3. QED
    BY <1>3, <1>4, <2>2 DEF DriveInv
<1>6. CASE todo' # << >>
  <2>1. asked' = asked
    BY <1>4, <1>6 DEF Apply
  <2>2. WaitInv'
    BY <1>6 DEF WaitInv
  <2>3. CASE todo = << "pre_review", "decompose" >> /\ ~Leaf(asked)
    <3>1. todo' = << "decompose" >> /\ mem'.phase[asked] = "children"
      BY <1>2, <1>4, <2>3, Tails
    <3>2. TodoInv'
      BY <3>1 DEF TodoInv, OperationName
    <3>3. (RoleAt[mem.phase[asked]] \notin provider[asked])'
      <4>1. RoleAt[mem'.phase[asked]] = "none"
        BY <3>1 DEF RoleAt
      <4>2. provider[asked] \subseteq Role
        BY <1>1, ProviderAssumption DEF DriveInv
      <4>3. QED
        BY <1>4, <2>1, <4>1, <4>2 DEF Role
    <3>4. QED
      BY <1>3, <1>4, <2>2, <3>2, <3>3 DEF DriveInv, AnswerInv
  <2>4. CASE todo = << "post_review", "close" >>
    <3>1. todo' = << "close" >> /\ mem'.phase = mem.phase /\ mem'.revision = mem.revision
      BY <1>2, <1>4, <2>4, Tails
    <3>2. TodoInv'
      BY <3>1 DEF TodoInv, OperationName
    <3>3. AnswerInv'
      BY <1>1, <1>2, <1>4, <2>1, <3>1 DEF DriveInv, AnswerInv, HasJob, JobsOf
    <3>4. QED
      BY <1>3, <1>4, <2>2, <3>2, <3>3 DEF DriveInv
  <2>5. QED
    BY <1>1, <1>4, <1>6, <2>3, <2>4, Tails DEF DriveInv, TodoInv
<1>7. QED
  BY <1>5, <1>6

(* A dispatch begins, returns an earlier job, or is refused.                 *)
LEMMA DelegateKeeps ==
    ASSUME TypeOK, AskInv, DriveInv, NEW c \in CellId, NEW a \in Auth, NEW lineage \in Lineage,
           Delegate(c, a, lineage)
    PROVE  DriveInv'
<1>1. /\ Reserve(c, a, lineage) /\ pc = "idle" /\ asked = NoCell /\ todo = << >>
      /\ mem.phase[c] \notin {"absent", "closed"}
      /\ mem \in Memory /\ UNCHANGED <<mem, saved>>
  BY DEF Delegate, Chosen, Runnable, AskInv, TypeOK, Reserve
<1>2. mem.phase[c] \notin {"children", "closed", "absent"}
  BY <1>1, NoRole DEF Delegate, DriveInv
<1>3. provider' = provider
  BY DEF Delegate, Answered, Park
<1>4. CASE pc' = "prepare"
  <2>1. /\ current' \in Job /\ current'.key = KeyOf(c, a)
    BY <1>1, <1>4, ReserveTypes DEF TypeOK
  <2>2. ~current'.promoted
    BY <1>1, <1>4 DEF Reserve
  <2>3. asked' = c /\ todo' = << >>
    BY <1>1, <1>4 DEF Delegate
  <2>4. WaitInv'
    BY <1>1, <1>2, <2>1, <2>2, <2>3 DEF WaitInv, KeyOf
  <2>5. TodoInv' /\ AnswerInv' /\ CloseInv'
    BY <1>1, <1>4, <2>3 DEF TodoInv, AnswerInv, DriveInv, CloseInv, Jobless
  <2>6. QED
    BY <1>3, <2>4, <2>5 DEF DriveInv
<1>5. CASE pc' = "idle"
  <2>1. UNCHANGED <<mem, saved, pc, current>>
    BY <1>1, <1>5 DEF Reserve
  <2>2. CASE Answered(c)
    <3>1. Returned(c, a, lineage)
      BY <1>5, <2>2, PlaceAssumption DEF Delegate, Answered, Park
    <3>2. HasJob(c)
      BY <3>1 DEF Returned, HasJob, JobsOf, KeyOf
    <3>3. QED
      BY <1>1, <1>2, <2>1, <2>2, <3>2, AnsweredKeeps
  <2>3. CASE Park
    BY <1>3, <2>1, <2>3 DEF Park, DriveInv, TodoInv, WaitInv, AnswerInv, CloseInv, Jobless
  <2>4. QED
    BY <1>5, <2>2, <2>3 DEF Delegate
<1>6. QED
  BY <1>4, <1>5 DEF Delegate

(* A dispatch runs.                                                          *)
LEMMA DispatchKeepsDrive ==
    ASSUME TypeOK, AskInv, DriveInv, Dispatches
    PROVE  DriveInv' /\ mem'.revision = mem.revision
<1>1. pc \notin {"idle", "down"} /\ pc' # "landed"
  BY DEF Dispatches, Dispatching, Prepare, AppendStarted, RunHarness, AppendFailed,
     Charge, Accept, Keep, AppendCompleted
<1>2. asked \in CellId /\ todo = << >> /\ UNCHANGED <<provider, asked, todo>>
  BY <1>1 DEF AskInv, Dispatches, driverVars
<1>3. /\ current \in Job /\ ~current.promoted /\ current.key.cell = asked
      /\ current.key.revision = mem.revision[asked]
      /\ mem.phase[asked] \notin {"children", "closed", "absent"}
  BY <1>2, PlaceAssumption DEF DriveInv, WaitInv
<1>4. CASE ~Keep
  <2>1. mem' = mem /\ saved' \in {mem, saved} /\ current' = current
    BY <1>4 DEF Dispatches, Dispatching, Prepare, AppendStarted, RunHarness, AppendFailed,
       Charge, Accept, AppendCompleted
  <2>2. QED
    BY <1>1, <1>2, <2>1 DEF DriveInv, TodoInv, WaitInv, AnswerInv, CloseInv, Jobless
<1>5. CASE Keep
  <2> DEFINE jobs == mem.jobs \cup {current}
  <2> DEFINE as == mem.assignments \cup {<<current.key.role, current.lineage>>}
  <2>1. /\ mem' = [mem EXCEPT !.jobs = jobs, !.assignments = as]
        /\ saved' = mem' /\ current' = current
    BY <1>5 DEF Keep, Saved
  <2>2. /\ mem'.phase = mem.phase /\ mem'.revision = mem.revision /\ mem'.jobs = jobs
    BY <2>1 DEF TypeOK, Memory
  <2>3. Jobless(mem')
    BY <1>3, <2>2 DEF DriveInv, CloseInv, Jobless
  <2>4. WaitInv'
    BY <1>2, <1>3, <2>1, <2>2 DEF WaitInv
  <2>5. QED
    BY <1>1, <1>2, <2>1, <2>2, <2>3, <2>4 DEF DriveInv, TodoInv, AnswerInv, CloseInv
<1>6. QED
  BY <1>4, <1>5

(* Every step of the driver.                                                 *)
LEMMA DriveStep == ASSUME TypeOK, AskInv, DriveInv, [DriverNext]_allVars PROVE DriveInv'
<1>1. ASSUME Park, UNCHANGED vars PROVE DriveInv'
  BY <1>1 DEF Park, vars, DriveInv, TodoInv, WaitInv, AnswerInv, CloseInv, Jobless
<1>2. ASSUME UNCHANGED vars, UNCHANGED <<provider, asked, todo>> PROVE DriveInv'
  BY <1>2 DEF vars, DriveInv, TodoInv, WaitInv, AnswerInv, CloseInv, Jobless, HasJob, JobsOf
<1>3. ASSUME NEW c \in CellId, ParkUndecomposed(c) PROVE DriveInv'
  BY <1>1, <1>3 DEF ParkUndecomposed
<1>4. ASSUME NEW c \in CellId, BeginIntegration(c) PROVE DriveInv'
  <2>1. Perform("integrate", c) /\ mem \in Memory
    BY <1>4 DEF BeginIntegration, Perform, TypeOK
  <2>2. Jobless(mem') /\ saved' = mem' /\ UNCHANGED pc
    BY <2>1, PerformKeepsJobless, PerformIsCellStep DEF DriveInv, CloseInv
  <2>3. asked' = NoCell /\ todo' = << >> /\ provider' = provider
    BY <1>4 DEF BeginIntegration, Chosen, driverVars, AskInv
  <2>4. QED
    BY <2>2, <2>3 DEF DriveInv, TodoInv, WaitInv, AnswerInv, CloseInv
<1>5. ASSUME NEW c \in CellId, AnswerItself(c) PROVE DriveInv'
  <2>1. mem.phase[c] \notin {"children", "closed", "absent"}
    BY <1>5 DEF AnswerItself, Chosen, Runnable
  <2>2. QED
    BY <1>5, <2>1, AnsweredKeeps DEF AnswerItself, TypeOK
<1>6. ASSUME NEW c \in CellId, NEW a \in Auth, NEW lineage \in Lineage, Delegate(c, a, lineage)
      PROVE  DriveInv'
  BY <1>6, DelegateKeeps
<1>7. ASSUME NEW c \in CellId, NEW lineage \in Lineage, ParkUnresolved(c, lineage)
      PROVE  DriveInv'
  BY <1>1, <1>7 DEF ParkUnresolved
<1>8. CASE Dispatches
  BY <1>8, DispatchKeepsDrive
<1>9. CASE TakeResult
  <2>1. CASE Park
    BY <1>1, <1>9, <2>1 DEF TakeResult
  <2>2. CASE current.key \in Keys(mem.jobs) /\ Answered(asked)
    <3>1. /\ asked \in CellId /\ mem.phase[asked] \notin {"children", "closed", "absent"}
          /\ current.key.cell = asked /\ current.key.revision = mem.revision[asked]
      BY <1>9 DEF TakeResult, AskInv, DriveInv, WaitInv
    <3>2. HasJob(asked)
      BY <2>2, <3>1 DEF Keys, HasJob, JobsOf
    <3>3. QED
      BY <1>9, <2>2, <3>1, <3>2, AnsweredKeeps DEF TakeResult, TypeOK
  <2>3. QED
    BY <1>9, <2>1, <2>2 DEF TakeResult
<1>10. CASE Apply
  BY <1>10, ApplyKeeps
<1>11. CASE ParkRefused
  BY <1>1, <1>11 DEF ParkRefused
<1>12. CASE Resume
  BY <1>2, <1>12 DEF Resume
<1>13. CASE Die
  BY <1>13 DEF Die, Crash, DriveInv, TodoInv, WaitInv, AnswerInv, CloseInv, Jobless
<1>14. CASE Reopen
  <2>1. asked' = NoCell /\ todo' = << >> /\ provider' = provider
    BY <1>14 DEF Reopen, Open, driverVars, AskInv
  <2>2. mem' = saved /\ saved' = saved /\ pc' = "idle"
    BY <1>14 DEF Reopen, Open
  <2>3. QED
    BY <2>1, <2>2 DEF DriveInv, TodoInv, WaitInv, AnswerInv, CloseInv, Jobless
<1>15. CASE UNCHANGED allVars
  BY <1>2, <1>15 DEF allVars, driverVars
<1>16. QED
  BY <1>3, <1>4, <1>5, <1>6, <1>7, <1>8, <1>9, <1>10, <1>11, <1>12, <1>13, <1>14, <1>15
     DEF DriverNext, Drive

LEMMA DriveInitially == DriverInit => DriveInv
BY DEF DriverInit, Init, DriveInv, TodoInv, WaitInv, AnswerInv, CloseInv, Jobless

LEMMA DriverCorrect == DriverSpec => [](TypeOK /\ AskInv /\ DriveInv)
<1>1. AskInv /\ [DriverNext]_allVars => AskInv'
  BY AskStep
<1>2. TypeOK /\ AskInv /\ DriveInv /\ [DriverNext]_allVars => DriveInv'
  BY DriveStep
<1>3. DriverSpec => []TypeOK
  BY ImplementsDispatch, TypeCorrect, PTL
<1>4. QED
  BY <1>1, <1>2, <1>3, AskInitially, DriveInitially, PTL DEF DriverSpec

(* No cell with a job is ever closed by the driver, whatever its provider    *)
(* delegates, fails at or dies in: close, system.py, is why DrivenCellCloses *)
(* fails for every provider that has any work of a cell dispatched.          *)
THEOREM OnlyJoblessCellsCloseCorrect == DriverSpec => []OnlyJoblessCellsClose
<1>1. DriveInv => OnlyJoblessCellsClose
  BY DEF DriveInv, CloseInv, Jobless, OnlyJoblessCellsClose, JobsOf
<1>2. QED
  BY <1>1, DriverCorrect, PTL

(* A delegated cell never moves on without a job for its revision.           *)
THEOREM NoStepWithoutJobCorrect == DriverSpec => NoStepWithoutJob
<1> DEFINE Moved(c) == pc # "down" /\ RoleAt[mem.phase[c]] \in provider[c]
                       /\ mem'.revision[c] # mem.revision[c]
<1>1. ASSUME TypeOK, AskInv, DriveInv, [DriverNext]_allVars, NEW c \in CellId, Moved(c)
      PROVE  HasJob(c)
  <2>1. mem.phase[c] \notin {"children", "closed", "absent"}
    BY <1>1, NoRole DEF DriveInv
  <2>2. mem \in Memory
    BY <1>1 DEF TypeOK
  <2>3. CASE UNCHANGED mem
    BY <1>1, <2>3
  <2>4. ASSUME NEW k \in CellId, BeginIntegration(k) PROVE FALSE
    <3>1. Perform("integrate", k) /\ mem.phase[k] = "children"
      BY <2>4 DEF BeginIntegration, Perform
    <3>2. c = k \/ mem.phase[c] = "absent"
      BY <1>1, <2>2, <3>1, PerformMoves DEF OnlyMoves
    <3>3. QED
      BY <2>1, <3>1, <3>2
  <2>5. CASE Apply
    <3>1. /\ asked \in CellId /\ Perform(Head(todo), asked) /\ todo # << >>
      BY <2>5, <1>1 DEF Apply, AskInv
    <3>2. c = asked \/ mem.phase[c] = "absent"
      BY <1>1, <2>2, <3>1, PerformMoves DEF OnlyMoves
    <3>3. QED
      BY <1>1, <2>1, <3>1, <3>2 DEF DriveInv, AnswerInv
  <2>6. CASE Dispatches
    BY <1>1, <2>6, DispatchKeepsDrive
  <2>7. CASE Reopen
    BY <1>1, <2>7 DEF Reopen, Open
  <2>8. CASE TakeResult \/ ParkRefused \/ Resume \/ Die \/ UNCHANGED allVars
    BY <2>3, <2>8 DEF TakeResult, ParkRefused, Resume, Die, Crash, allVars, vars
  <2>9. ASSUME NEW k \in CellId,
               \/ ParkUndecomposed(k) \/ AnswerItself(k)
               \/ \E lineage \in Lineage :
                     \/ \E a \in Auth : Delegate(k, a, lineage)
                     \/ ParkUnresolved(k, lineage)
        PROVE  UNCHANGED mem
    BY <2>9 DEF ParkUndecomposed, AnswerItself, Delegate, Reserve, ParkUnresolved, vars
  <2>10. QED
    BY <1>1, <2>3, <2>4, <2>5, <2>6, <2>7, <2>8, <2>9 DEF DriverNext, Drive
<1>2. TypeOK /\ AskInv /\ DriveInv /\ [DriverNext]_allVars
      => [\A c \in CellId :
            /\ pc # "down" /\ RoleAt[mem.phase[c]] \in provider[c]
            /\ mem'.revision[c] # mem.revision[c]
            => \E j \in JobsOf(c) : j.key.revision = mem.revision[c]]_allVars
  BY <1>1 DEF HasJob
<1>3. QED
  BY <1>2, DriverCorrect, PTL DEF DriverSpec, NoStepWithoutJob
=============================================================================

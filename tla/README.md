# A TLA+ model of loopstrap

`src/loopstrap_core/` runs a tree of work *cells* through a fixed lifecycle. Each
cell is contracted, tested, planned and reviewed. It is then implemented by a
harness, or decomposed into children that are later integrated. Finally it is
reviewed again and closed. Everything the run decides goes to an append-only
ledger, from which a run that died is reopened.

This directory holds TLA+ modules that model that behaviour, TLC configurations
that check them on small instances, and TLAPS proofs of the most important
properties for every value of the constants. `PROJECT.json` maps each definition
to the source lines it stands for and lists the runs, hazards, findings and
theorems.

Paths below are relative to `src/`, and `core/` stands for
`src/loopstrap_core/`.

---

## 1. Inventory

### Parts with state and behaviour

| Part | State | Operations | What is hard | What makes it correct |
|---|---|---|---|---|
| **Work graph** `core/workflow.py`, `config/workflow.v1.json` | the cells: phase, revision, parent, children, obligations, test basis, plan, reviews, results, claims, approvals | `create_root`, `accept_contract`, `freeze_tests`, `revise_tests`, `record_plan`, `record_pre_review`, `decompose`, `record_verification`, `begin_/record_integration`, `record_post_review`, `add_/resolve_claim`, `add_approval`, `close`, `reopen`, `route_verified_issue` | long legal sequences; revisions, reopenings and second decompositions in the middle of a tree; a reset must clear ten fields | obligations stay exactly partitioned; evidence never outlives the basis it rests on; verified claims block; the revision moves with every material change |
| **Event ledger** `core/ledger.py` | `events.jsonl`, a lock file, quarantine files | `append`, `verify`, `quarantine_partial_tail` | several processes; a death in the middle of a line; repeated appends | one valid order, an event id at most once, nothing recorded is lost |
| **System facade** `core/system.py`, `state.py`, `atomic.py` | graph, jobs, assignments, run status, interventions, evidence, usage; checkpoints in the ledger | the lifecycle operations, `dispatch`, `verify_job`, `promote_job`, `close`, `pause`, `halt`, `park`, `record_intervention`, `resume`, `open`, evidence and acceptance | memory, event and checkpoint are three steps and a crash falls between any two; retries under stable keys | the recovered state is what the ledger tells; a repeated step has no second effect |
| **Driver** `core/driver.py` | none of its own; reads the graph | `_next`, `_apply`, `run` | one provider result leads to two checkpointed operations; refusals, pauses, resumptions | reaches the closed root; parks for a bad result only |
| **Workspaces, promotion** `core/workspace.py`, `executor.py` | snapshots, job workspaces, the candidate pointer and its lock | `initialize`, `prepare`, `capture_result`, `promote`; `capture`, `verify`, `materialize` | two promotions from one base; a death between the pointer and its record | compare-and-swap: no promotion is lost or invented |
| **Dispatch** `core/system.py:794`, `recovery.py`, `harness.py` | reservations and accepted responses in the ledger, jobs, assignments | `reserve`, `accept_response`, `resolve`, the harness process | a crash between reservation, start, run, charge, acceptance and checkpoint; independence of roles across all that | one harness run per key; jobs explained by the ledger; reviews independent and of the right work |
| **Usage** `core/certification.py` | charges by dispatch, totals | `charge`, `totals` | charges live in memory and are rebuilt | every completed job charged once |
| **Evidence, acceptance** `core/evidence.py`, `system.py:1392` | evidence and acceptance records, raw executions | `retain`, `record_evidence`, `evaluate_acceptance`, `require_acceptance` | records made at revisions that move on; a crash between artifact, memory, event and checkpoint; another record under an id already used | what the ledger cites can be read; an acceptance is green on current evidence only |
| **Authority, context** `core/authority.py`, `context.py` | none | `validate`, bundles | binding of cell, revision, role and treatment | an authorization is good for one state of one cell |
| **Bounded execution** `core/bounded.py` | one child process, its pipes and deadline | `run_bounded` | the child and what it starts do as they like: late output, floods, helpers that hold the pipes or leave the process group; an interruption anywhere; the request precedes the deadline | it comes back; bounded output; nothing of the child's process group outlives a failure |
| **Verification** `core/verification.py`, `system.py:1110` | none of its own | `DeterministicVerifier.run`, `verify_job_with_plan` | a command that never completes; a crash between the report and the acceptance | a verified job passed every command, visible and holdout, in the attempt that is on record |
| **Contract graph, specification** `core/contracts.py`, `specification.py` | an immutable graph; the run decomposes along it | containment, interfaces, decisions; `decompose` | cycles, boundaries at every depth, cells with two owners | what is wired outside fits inside; a run does not stop over an accepted design |
| **Certification** `core/certification.py` | probe results, external-state snapshots, certificates | probe, certify, guard | state changed behind a probe | a treatment is used as it was certified |
| **Telemetry** `core/telemetry.py` | a SQLite mirror of the ledger and of the bytes it refers to | `synchronize`, `verify` | several collectors, each mirroring one transaction at a time; deaths between two; a mirror deleted | a prefix of the ledger in its order; nothing is left half captured; no operation fails because of it |
| **Artifacts** `core/artifacts.py` | content-addressed files | `put_bytes`, `get_bytes` | a write cut short | a digest names its content |

### Parts without behaviour of interest to a model

| Part | What it is |
|---|---|
| `core/wrappers.py`, `profiles.py`, `corpus.py`, `cli.py` | construct arguments, parse, validate documents |
| `core/budget.py` | what one dispatcher has authorized, in its memory: sums and comparisons |
| `contract/`, `spec/` | CUE schemas and specification documents |
| `artifacts/instance/tools`, `ops/`, `launch-loop.sh`, `setup.sh` | tools that check a checkout or start a loop |
| `config/`, `tests/`, `probe/` | configuration and tests; `tests/*/claims.toml` states what the program promises and is quoted by claim id (FLOW-04, READY-RECOVERY-01, ...) in the comments |

### How they interact

The driver calls the facade. The facade changes the graph in memory, appends an
event to the ledger and then a checkpoint of its whole memory, also to the
ledger. A dispatch goes through the router, the journal (events in the ledger), a
workspace, the harness process, the usage ledger and the artifact store, and ends
with a checkpoint. Harness and verification commands run under `run_bounded`.
After every record it appends, and when a run is opened, the facade synchronizes
the telemetry mirror. Evidence is stored as artifacts and cited by events. A
promotion goes through the pointer file and its lock, then
through the ledger. `open` takes the last checkpoint and rebuilds the rest from
it. Nothing is multi-threaded. The interleavings are those of several processes
on the same files, and of a process with its own death.

---

## 2. Modules

| Module | Models | Lines |
|---|---|---|
| `RunGraph` | the work graph, one action per method | `workflow.py`, the lifecycle |
| `EventLedger` | the ledger file, its lock, and calls as steps of several processes | `ledger.py` |
| `IdempotentLog` | what the ledger promises: a growing log with unique ids | abstract |
| `LoopRun` | driver, operations, checkpoints, crash and recovery | `driver.py`, `system.py`, `state.py` |
| `Promotion` | `promote_job` down to the rename of the pointer | `system.py:1248`, `workspace.py`, `atomic.py` |
| `CandidateRegister` | what the pointer promises: compare-and-swap | abstract |
| `Dispatch` | dispatch, verification, reviews, promotion and closing of jobs | `system.py:794-1312`, `recovery.py`, `harness.py`, `certification.py` |
| `Telemetry` | collectors of several processes and their mirror, one step per SQLite transaction | `telemetry.py`, `system.py` where it feeds it |
| `Custody` | evidence, acceptance, the artifact store and snapshots as evidence | `system.py:1392`, `evidence.py`, `artifacts.py`, `workspace.py` |
| `BoundedProcess` | one call of `run_bounded` with its child and pipes | `bounded.py` |
| `Verification` | the commands of a plan, one `run_bounded` each, and what becomes of the report | `verification.py`, `system.py:1110` |
| `ContractGraph` | the compiler of a design and the run that decomposes along it | `contracts.py`, `decompose` |
| `HarnessDriver` | the driver with `HarnessRoleExecutor` behind it, over the steps of `Dispatch` | `driver.py`, `system.py:794` |
| `MC*` | values of the constants for TLC | |
| `RunGraph_proofs`, `EventLedger_proofs`, `LoopRun_proofs`, `ContractGraph_Promotion_proofs`, `HarnessDriver_proofs` (with those of `Dispatch`), `Telemetry_proofs`, `Custody_proofs`, `Verification_proofs` | theorems and their proofs | |

`EventLedger` implements `IdempotentLog`. `LoopRun` and `Dispatch` use the ledger
as that log, one atomic append per event (plus a torn line in `LoopRun`).
`Promotion` implements `CandidateRegister`. In `Dispatch` the promotion is one
compare-and-swap, and what is recorded of it is a second step. `Verification`
extends `BoundedProcess`. `Custody` and `Telemetry` use the ledger as an atomic
log too. `Custody` has the cells' revisions and verified claims of `RunGraph` and
nothing else of it, and `ContractGraph` has its decomposition. `HarnessDriver` extends `Dispatch` and adds the driver as the one
that takes its steps. Together with `LoopRun` it covers `driver.py` from both sides: `LoopRun` has
the events and checkpoints of each operation, `HarnessDriver` has the jobs.

### Correspondence

**RunGraph.** Each field of the dataclass `Cell` that a guard reads is a function
over the cells. A method is an action. Its guards are the `raise`s, which in all
methods but one come before any change. The exception is `record_integration`:
called in the phase `children` it begins the integration and may then refuse,
leaving the cell in `integration`. `FacadeNext` has the operations the facade
reaches, and `DirectNext` those only a holder of `system.graph` can call; `direct`
counts the latter, and `MaxDirect` bounds them. `ResolveClaim` is direct too, but
needs the claim another direct call made and is not counted. Test
digests are opaque `Basis` values. Scope is left out, because its prefix test
only rejects inputs.
`at` and `seenBasis` are history variables that no guard reads. They number when
each piece of evidence was recorded.

**EventLedger.** `pc` says where each process is between taking the lock, reading,
writing and unlocking. A write is two steps, and between them the file ends in a
partial line. `Die` can happen at every step, releases the lock and leaves the
line. The hash chain is represented by `seq`: `prev_hash` and `hash` are
functions of the records, and the same check covers all three.

**LoopRun.** `mem` is the `LoopstrapSystem` object, `ledger` the sequence of
events and checkpoints, `todo` the operations the result of one provider asks
for, and `emit` the events the current operation has yet to append. `Perform`,
`AppendEvent` and `AppendCheckpoint` are the three stages of an operation;
`Crash` falls between any two. `Open` is the last checkpoint. Keys of events are
the stable keys of the code, so a repeated operation meets its own event (`Put`).
A step done again may be answered differently (`Answer`, `FirstAnswer`): since answers
are compared with nothing but the event under the same key, a second answer is offered
where there is one (`IsAgain`). `disowned` is history: the operations
whose event the ledger refused.
The driver tries an operation out on a copy of the graph first. That trial has no
effect when it succeeds, and when it fails it leads to the same park as a
refusal.

**Promotion.** Each process has its own memory of the jobs and checkpoints it
whole (`Save`), as `_checkpoint` does. The lock, the comparison, the temporary
file, the rename, the flag, the event and the checkpoint are separate steps.

**Dispatch.** A job is named by its dispatch key (cell, revision, role,
authorization), of which the code's `job_id` is a digest. `pc` walks from the
reservation to `harness.completed`. The operations that change the memory only
are one step each. `ran` and `reran` are history. `RunHarness` ends in an answer or
a failure; `Charge` may raise over a malformed usage report. The comparison of
revisions in `accept_response` compares two reads of one unchanged cell, so it
never fails and has no refusing branch here. `_require_review_job`'s test of the job's
status is left out as well, because the dispatcher raises for every status but
`completed`.

**Telemetry.** A ledger record is the set of references `_walk` finds in it, and a
reference is an artifact or a snapshot with its parts. `pc` is a process's place in
`_append`, `open` and `synchronize`. `read` and `at` are the records
`ledger.verify()` returned and the one being mirrored, `rows` the references still
to be captured (a `SELECT` in the order of event identifiers, which are hashes:
`Rank`), and `todo` the transactions left for the current one. Each action of
`Ingest` and `Collect` is one `BEGIN IMMEDIATE`. `Raise` is every exception that
leaves `synchronize` but two: that of SQLite when it has waited for a lock too long, and
that of two treatments with one digest. What is stored under a reference is whole or damaged, as the
crashes in `Custody` leave it. `faults` bounds crashes, damage and deletions
together.

**Custody.** An artifact is named by its content, for which its digest stands.
`PutBytes` and `WriteBytes` are the two halves of `put_bytes`, `AppendEvent` changes
the memory and appends in that order, `AppendCheckpoint` ends the call. Guards are
those of `record_evidence`, `evaluate_acceptance` and `AcceptanceEngine.evaluate`,
evaluated when the call begins. The run has a piece of
evidence and a request with a finding, but no composite: what is evaluated of a
composite's scope rests on `GreenCorrect` alone. `Revise`, `Verify` and `Resolve` stand for the
operations of the graph that move a revision or a verified claim. A tree captured
while it changed is `drifted`: its bytes are not those of its manifest. `disowned` is
history: keys of events the ledger has refused.

**BoundedProcess and Verification.** The parent's steps follow the lines of
`run_bounded`: spawn, write the request, read both streams until both ends are
closed or the deadline, wait, terminate. The environment may read, write, close,
exit, start a helper and let it leave the child's process group, at any moment. A unit of output is
one `os.read`. `terminate` kills the process group and nothing else (`KillGroup`).
`Interrupt` is an exception in the parent (a signal), at any line: in a `try` its
handler terminates the child (`Guarded`); between `Popen`'s fork and the first `try`,
between the two and after the last there is no handler (`Unguarded`); in `terminate`
it falls before or after the kill (`InTerminate`). In
`Verification` a receipt is the exit of a completed command, `report` the event
`tests.executed` under its key of the job, and `fits` says whether the cell is still
where the job's work can be accepted. The verifier's own requests are empty; the
larger request of the run belongs to the harness dispatcher, which calls the same
function.

**ContractGraph.** `Compile` is `from_dict` (`Design`) and `ContractGraph.validate`, with
containment, interior boundaries and connections as predicates in the order of the code.
Its specification is named `CGSpec`, so that a module can extend it beside another.
`Decompose` creates the members of a cell's own composite. Of the graph's other
operations it has those that bring a cell back to a decomposition: `ReviseTests`, which
takes the children from a cell and leaves them in the run, and `RouteVerifiedIssue`,
which does not. `emptied` is history: the cells a revision took children from. A port is its position
in the list of its cell, as `zip` in the code compares positions.

**HarnessDriver.** `provider` says which roles of which cell are dispatched; the rest is
answered directly, and it never changes. `asked` is the cell whose result the driver
waits for, `todo` the operations `_apply` has yet to call for a result. Between them
are the steps of `Dispatch`. A result is good, or `result_decoder` or a check of
`_apply` raises (`TakeResult`). `Chosen` is the order of `_next`, with
`Place` for `(-depth, cell_id)`. `Refused` are the refusals of the operations that
the driver can meet; with them it parks. A death loses the call of `run`; reopening continues with the recovered
status.

### Variants

Each component module has a section of definitions with a plausible mistake in
them (`SomeChildClosed`, `LockShared`, `PrepareAgain`, ...). No specification uses
them. Each stands for a bug the corresponding code could have, and with it in
place TLC finds the named property violated (`PROJECT.json`, "mutants"). They
show that no property holds by the shape of the model.

---

## 3. Runs

The passing runs are exhaustive within their bounds. `CHECK_DEADLOCK FALSE` is set
throughout, because the systems really stop: a run is closed or halted, a design is
refused, or the calls allowed by a bound are used up.

| Run | Instance | Shows |
|---|---|---|
| `RunGraph` | root and 2 cells below it, in any shape, 2 obligations, 2 bases, a claim, a reviewer, the whole life of the tree with one direct operation anywhere, revisions to 11 and 9 | `ExactPartition`, `ClosedHasEvidence`, `EvidenceInOrder`, `MaterialChangeBumpsRevision` under a revision, a reopening, a claim or a routed issue, second decompositions included; `ClosedRootMeansEveryFrontierVerified` (with every obligation owned once below) and `ClosesOnCurrentIntegration` without one |
| `EventLedger` | 3 processes, 2 ids, 2 contents, 3 calls, 2 deaths | `OneValidOrder`, `NoSpuriousIntegrityError`, `EarlierRecordsStay`, `CallsReturn`, refinement `ImplementsLog` |
| `LoopRun` | root with two children, an intervention, and either a refusal and a pause or halt, or a crash, anywhere; a second answer for every step done again | `ReplayAgrees`, `LedgerExplainsCheckpoint`, `EveryOtherCrashIsHarmless`, liveness `Completes` |
| `Promotion` | 2 processes, 2 jobs, 3 snapshots, 3 calls, a crash | `PromotedMeansLanded`, `PromotionEnds`, refinement `ImplementsRegister` |
| `Dispatch` | a composite and its leaf, 2 authorizations, 2 contexts, 4 dispatches or promotions, a crash, a test revision | `HarnessRunsOnce`, `JobsFollowTheLedger`, `ChargesMatchJobs`, `IndependentReview`, `ReviewSeesCandidate`, `CompletedJobsStay` |
| `Telemetry` | 2 collectors, 3 records, an artifact and a snapshot that shares its bytes, one crash, damage or deletion | `LedgerOrder`, `CompleteWhenFinished`, `RaisesOnlyOverDamage`, liveness `RecordsReachMirror` |
| `Custody` | a cell, 2 revisions, 6 pieces of evidence under 3 ids, 2 requests under one id, 2 faults | `CustodyHolds`, `MemoryIsLedgers`, `GreenOnCurrentEvidence` |
| `Verification` | 2 attempts of 2 commands, a helper in the process group or out of it, 3 units of output against a limit and a pipe of 1, an interruption or crash anywhere | `EndsClean`, `VerifiedMeansAllPassed`, `ReportIsFinal`, liveness `ReturnsUnlessBlockedOnInput` |
| `ContractGraph` | every design within 2 edits of three nested composites over 4 cells, 2 names for the root, 2 obligations; decompositions, test revisions and routed issues in any order | `ConnectionsHoldToTheBottom`, `StuckOverSharedMember` |
| `HarnessDriver` | root and child, every mix of dispatching no role, the builder and the implementer, or the reviewer (who is not configured) for each of them, 2 authorizations, 2 contexts, a crash, a resumption | `NoStepWithoutJob`, liveness `DriveEnds` |
| `Dispatch_close` | as `Dispatch`, without crash and revision | `CompositeCanClose` is violated: a disagreement of the code with a documented promise, see 5 |
| `HarnessDriver_close` | as `HarnessDriver`, without crash and resumption | `DrivenCellCloses` is violated: another one, see 5 |

The largest (`Telemetry`, `Custody`) have up to four million states; every run takes
less than five minutes.

**Bounds and why they are enough.**

- *Revisions.* A leaf is at revision 7 when it closes and a composite at 9. Limits of 9
  for the cells and 11 for the root let a composite of the second level close, and let
  each life be extended by a second decomposition, a reopening and second close, a claim,
  or a revision or routed issue in its earlier phases (one late in a leaf's life too).
  What follows a late revision of a composite ends where its limit is reached.
- *Tree.* Three cells allow a tree of depth two, a split in two, and a second
  decomposition into the cell the first one left unused. Two obligations allow a
  shared and a lost one. One direct operation is what the properties can be broken by;
  several of them are left to the theorems, which have no bound on them.
  Of states that differ only in which basis a cell has and in the approvals one is kept
  (`View`): a basis is compared only with the one that replaces it in the same cell, and
  nothing reads the approvals.
- *Driver.* One crash with another answer behind it is every conflict with the ledger
  there is; the theorems have any number of both.
- *Ledger.* Three calls, one of them waiting, one reading and one writing, show
  every pair of steps in every order. Two deaths show a torn line that is met
  again during its repair.
- *Promotion.* Two jobs are a conflict, and three snapshots are a base and two
  results, which may coincide with an older one.
- *Dispatch.* A leaf that goes through its life takes three of the calls
  (implementation, review, promotion). The fourth is the repeated dispatch or the
  second candidate.
- *Telemetry.* Two collectors are two transactions in either order. Three records
  are one that a dead collector left, one that another is mirroring and one it has
  not read. Event identifiers sort against the ledger, which is the order
  a collector would not take by chance.
- *Custody.* Two revisions are a current and a past one, and two versions under an
  id a repeated and a contradicting call. The second fault is the crash after the
  crash whose trace it meets.
- *Verification.* A pipe of one unit is always full or empty, a limit of one is
  passed by the second read, and the third unit is lost or is not. One interruption
  falls at every line. A second command and a second attempt meet what the first left.
- *Contract graph.* Three nested composites have a boundary of a boundary. Two
  edits break a rule in one place and hide it in another.
- *Harness driver.* A composite and a leaf have every phase. A dispatched role that is
  configured, one that is not and none are the three cases of a phase. The second
  authorization is a dispatch repeated after the first left its workspace, the second
  call of `run` is the one that meets what the first left. `MaxCalls` is larger than
  any behaviour needs.
- *Crashes.* One crash is checked at every step (two in `Custody` and `EventLedger`).
  A crash between calls adds nothing, since there the last checkpoint is the memory
  (a part of `LedgerExplainsCheckpoint`). The theorems of section 4 hold for any
  number.

**Fairness.** `EventLedger` and `Promotion` assume weak fairness of each process's
own steps: a process in a call keeps running. `flock` promises waiters no order,
and none is assumed; `CallsReturn` and `PromotionEnds` hold because the calls
are finitely many. No call and no death is ever forced. `LoopRun` assumes
weak fairness of the running operation, of the driver, and of the owner's
intervention, resumption and reopening. That is what "unattended" leaves to the owner:
a parked run waits for the owner for ever, so without it nothing could be said.
Refusals, pauses and crashes are never forced. `Telemetry` assumes that a process
in an operation keeps running and that a run somebody closed is opened again:
only a process mirrors anything. `Verification` assumes the parent's own steps and
that time passes. The child owes nothing, and `ReturnsUnlessBlockedOnInput` is about
that. `HarnessDriver` assumes that the process of `run` keeps running, a harness
included, which `run_bounded` ends at its deadline, and that a run that died is
reopened. Nobody has to resume a parked one.

---

## 4. Proofs

All are checked by `tlapm`, for every value of the constants that satisfies the
named assumptions (names that stand for "none" are not members, bounds are
numbers, `Root` is a cell, event identifiers differ, a pipe holds something, a plan
has two commands). No bound on calls, crashes or cells is used but as an upper limit
of a counter, so they hold for any.

| Module | Theorem | Argument |
|---|---|---|
| `RunGraph_proofs` | `TypeCorrect`, `ExactPartitionCorrect` | types; then `TreeInv`, which adds that identifiers not in use have no children, so that a decomposition attaches new cells and nothing else |
| | `EvidenceInOrderCorrect` | the property is not inductive: an action may record evidence only since its phase says which evidence is already there. The invariant adds, for each phase, what the cell carries and that all numbers are below the next one |
| | `ClosedHasEvidenceCorrect`, `OneSortOfEvidenceCorrect` | the invariant that ties phases, the sort of a cell and its children together |
| | `FrontierOwnsCorrect` | what a cell owns is owned exactly once in the frontier below it. `Below` is a closure, so the proof never walks down the tree: it shows that the step that replaces one cell by its parts moves each obligation from the cell to one part |
| | `ClosedRootCorrect`, `ClosesOnCurrentIntegrationCorrect` | `FacadeInv`: while `direct` is 0 a child of a closed or integrated cell is closed and stays so. The set of closed cells is then closed under children and holds the root, so it holds all that is attached |
| | `MaterialChangeBumpsRevisionCorrect` | each action either leaves the material of every cell alone or ends in the bump; `AbsentInv` for a cell that only now comes into use |
| `EventLedger_proofs` | `LockCorrect` | who is in the critical section holds the lock, readers and a writer exclude each other |
| | `OneValidOrderCorrect` | what a writer has read is still the file: `seen[p] = lines` while it holds the lock |
| | `NoSpuriousIntegrityErrorCorrect`, `EarlierRecordsStayCorrect` | `TailInv`: a partial last line is being written by the holder of the lock or was left by a process that died, so a reader never meets one that is still growing |
| | `ImplementsLogCorrect` | `AnswerInv`: what an append is about to answer is what the file says; then each step maps to a step of `IdempotentLog` or to a stutter |
| `LoopRun_proofs` | `TypeCorrect` | with it, that there is always a checkpoint, and the two or three forms the queue of a result can have |
| | `ReplayAgreesCorrect` | the status events are numbered by the length of the ledger, so all their keys lie below the next one (`NumberInv`) and none is taken for a repetition; `ReplayInv`: the last of them says the status in memory, or is the one about to be appended |
| | `LedgerExplainsCheckpointCorrect` | `CheckpointInv`: checkpoints only grow, and a key in the ledger was reached by every checkpoint behind it. The operation under way is one its checkpoint has not reached (`FreshInv`). So an event that is already there was left by the same operation before a crash: it is the same record, or it is refused and the operation is `disowned`. A checkpoint decides nothing else |
| | `EveryOtherCrashIsHarmlessCorrect` | with that, an operation is refused only over another answer to its own step. `HarmlessInv`: the queue of a result holds only what its cell allows, and a composite without children is met only between `record_pre_review` and `decompose` |
| `ContractGraph_Promotion_proofs`, of `Promotion` | `TypeCorrect`, `PromotedMeansLandedCorrect`, `NoLostPromotionCorrect` | the pointer is the base from `Compare` to `Replace` because the process holds the lock; a process past `Replace` has landed its job |
| | `ImplementsRegisterCorrect` | each step maps to a step of `CandidateRegister` or to a stutter |
| `ContractGraph_Promotion_proofs`, of `ContractGraph` | `ConnectionsHoldToTheBottomCorrect` | `KidInv`, `DownInv`: a decomposed cell stands over the members of its own interior, so one step down keeps the schema (`BoundaryAgrees`); the ports of that schema are closed under the step, so they hold all a port goes through |
| | `StuckOverSharedMemberCorrect` | `TreeInv`: what holds of the root and goes from a cell to its children holds of all. If a member in the way were above its cell, or the root's composite the interior of a cell of the run, the cells between would be a set in which each has a member of its interior, which the compiler refused. A member of its own that a composite meets was made by it, and its children can have been taken by a revision only (`emptied`) |
| | `CGTypeCorrect` | what the compiler accepts is a design, whatever was submitted |
| `HarnessDriver_proofs`, of `Dispatch` | `TypeCorrect` | one lemma for the dispatch, one for the operations on a cell, one for those on a job |
| | `HarnessRunsOnceCorrect` | `HarnessInv`: a harness only runs in a workspace its own dispatch has made, and one that has been run in is never made again |
| | `JobsFollowTheLedgerCorrect`, `ChargesMatchJobsCorrect`, `CompletedJobsStayCorrect` | `JobsInv`: what each step of a dispatch has left behind, the charges meanwhile, and the checkpoint's jobs among the memory's |
| | `IndependentReviewCorrect`, `ReviewSeesCandidateCorrect` | `ReviewInv`: a review job that has the revision of its cell, or that the cell cites, fits the verified work. A verification moves the revision on, so no review that may still be cited is older than it |
| `Telemetry_proofs` | `TypeCorrect` | with it the types, that a collector's place is within what it read, and that the collection sequence is `1..n` (`InsertCounts`: the next number is one more than the rows) |
| | `LedgerOrderCorrect` | `OrderInv`: unless the mirror was deleted under a collector, every record behind the one a collector is at is mirrored. So the one it inserts is the first that is missing |
| | `CompleteWhenFinishedCorrect` | `SyncInv`: a reference a collector selected is still in its rows, or the transactions it has left for the current one end with its observation, or it is observed. The plan of a reference is made of the store as it is then, and nothing in the mirror is ever taken back |
| | `RaisesOnlyOverDamageCorrect` | `RaiseInv`: the only plan that ends in an error is the one of a damaged artifact, and the parts of a snapshot are inserted before it |
| `Custody_proofs` | `TypeCorrect` | |
| | `CustodyCorrect` | a call in progress keeps what was checked when it began: whole artifacts stay whole, snapshots stay as they are, and a record's own artifact is whole from `WriteBytes` on |
| | `MemoryCorrect` | what is in the memory or a checkpoint has its event, is the call between memory and event, or was refused; and without a crash nothing is refused because the memory is asked first |
| | `GreenCorrect` | the acceptance in `call` is still what its evaluation gave, since nothing else moves while a call runs |
| `Verification_proofs` | `TypeCorrect`, `EndsCleanCorrect` | `StreamInv`: what was read and what is in the pipe is what was written, and a stream that ended has no writer and nothing in its pipe; `ChildInv`: who of the child's process group may still be running at each step of the parent, and that a running child at the end takes an interruption |
| | `VerifiedMeansAllPassedCorrect`, `ReportIsFinalCorrect` | `ReportInv`: the receipts are the exits of this attempt, and the job is accepted only in the attempt that wrote the report |
| `HarnessDriver_proofs`, of `HarnessDriver` | `ImplementsDispatch`, `DrivenDispatchCorrect` | `AskInv`: a dispatch runs only for a cell the driver waits for. Each step of the driver is then a step of `Dispatch` or a stutter, and what is proved of `Dispatch` for any caller holds for this one |
| | `OnlyJoblessCellsCloseCorrect` | `CloseInv`: no job, in the memory or the checkpoint, is promoted or belongs to a closed cell |
| | `NoStepWithoutJobCorrect` | `WaitInv`: the dispatch waited for is for the cell as it is, since nothing else moves the cell meanwhile; `AnswerInv`: while there is something to apply for a delegated role, the job is there |

The type invariants of these components are theorems and not repeated in the runs;
a plain `tlc` run with `TypeOK` added agrees.

**A hypothesis of `LoopRun_proofs`.** `EveryOtherCrashIsHarmlessCorrect` states one condition
as a hypothesis of the theorem, not as an assumption of the module. `Forest`: no cell is
proposed as a child by two cells, and none proposes the root. Otherwise the second
`decompose` is refused and the driver parks, which is right. Nothing is assumed of what
providers and owner say when a step is done again. The invariants of the proof were
model-checked on two cells and three crashes before they were proved.

**Only model-checked.** Liveness under fairness (`CallsReturn`, `PromotionEnds`,
`Completes`, `RecordsReachMirror`, `ReturnsUnlessBlockedOnInput`, `DriveEnds`), which is out of the
prover's reach, as is induction over recursive data. Every invariant and every action
property of the passing runs is a theorem.

That `Terminates` says what the depth-first `descend` of the compiler finds is checked by
TLC, over every containment of three cells (`DescendFindsCycles` in `MCContractGraph`,
which has the recursion of the code). The proofs use the closed form, and so do
`Above` and `Ports`: the prover accepts no recursive operator.

---

## 5. Findings

Two runs look for the violation of something the repository says, and find it:

- **`Dispatch_close`** (`system.py:1300`). `close` counts reviews as candidates.
  A composite whose reviews were done by jobs, as configured roles require, can
  never close.
- **`HarnessDriver_close`** (`system.py:1300`, `driver.py:198`). A driver that "can bridge
  to configured harness dispatch" (`tests/COVERAGE.md:134`) brings a cell whose work was
  dispatched to its close and is refused there: `close` asks for a promoted job, and the
  driver verifies and promotes none. So it does not get to the closed root of
  READY-DRIVER-01 (`tests/readiness/claims.toml:54`). `COVERAGE.md` reserves that prompt and
  result adapters are not certified, and that acceptance evidence is not manufactured, not
  this. `OnlyJoblessCellsCloseCorrect` proves the cause for every tree: the cells
  the driver closes have no job.

Seen while modelling, on the modules here, and not kept as runs because no
sentence of the repository speaks of exactly that case:

*Crashes and repeated calls*

- `record_pre_review` and `decompose` belong to one provider result but are two
  checkpoints. A crash between them leaves a composite without children, over which
  the driver parks at every resume (`driver.py:78`). `EveryOtherCrashIsHarmless` names
  this state and the one of the next item as its exceptions.
- A post-review given differently after a crash conflicts with its own event for
  good, since the revision has not moved (`system.py:1229`).
- The memory changes before the event is accepted. After a crash between
  `tests.frozen` and its checkpoint, a different second answer is refused by the
  ledger but stays in memory, and the checkpoint of the park makes it the recovered
  state (`system.py:631`, compare FLOW-04). An intervention noted differently stays in
  memory until the next checkpoint. `LedgerExplainsCheckpoint` names these operations
  (`disowned`) as its one exception.
- With an authorization that depends on the cell, revision and role only, a harness that
  failed or died leaves a workspace that refuses every later dispatch of that
  phase (`workspace.py`, `prepare`). The driver parks at each resumption until the
  authorization differs.
- Evidence does the same: a record the ledger refused after a crash stays in memory
  and counts in evaluations until the next opening (`system.py:1434`).
- A promotion repeated after its pointer was replaced and before it was recorded
  finds its own work in the pointer and is ledgered as a conflict; the job can
  never be promoted (`system.py:1272`).
- A crash between `run.halted` and its checkpoint recovers an active run whose
  events replay to `halted` (`system.py:1325`, compare READY-RECOVERY-04).
- A crash in the middle of `decompose` loses the `cell.created` events that were
  still to come (`system.py:733`, compare SYS-07).
- A crash between the checkpoint `job.completed` and the event
  `harness.completed` leaves a completed job without that event
  (`system.py:972`, compare SYS-09).

*Jobs, verification and evidence*

- A role must be configured to be dispatched, and a review of a configured role must
  name its job (`system.py:1025`). The driver names none (`driver.py:198`), so a run
  whose roles are all dispatched parks at the first pre-review over a good result
  (compare `tests/COVERAGE.md:134`, the driver "can bridge to configured harness
  dispatch"). Where the review roles are not configured it goes on, to the
  finding above.
- A report holds the times its commands took, so a second run of a plan is refused
  under `tests.executed:<job>` whatever it found (`system.py:1134`). After a crash
  between that event and `verification.recorded` the job cannot be verified by a plan
  any more, although every command passed. `ReportIsFinal` states it.
- A completed call may leave processes of the child's process group running, if they
  closed their pipes (`bounded.py:225`). Only a failed one ends them, see
  `EndsClean`. Even then a process that left the group (`setpgid`, `setsid`) goes on,
  since `terminate` kills the group (`bounded.py:104`).
- An interruption leaves the child itself running, neither killed nor waited for, when it
  falls in `Popen` after the fork or in a line outside every `try` (`bounded.py:189-191`,
  `219-222`), or in a handler's own `terminate` before the kill. `EndsClean` names these.
- The request is written before there is a deadline (`bounded.py:193`): a child
  that fills an output pipe before it reads a large request is waited for without
  limit, see `ReturnsUnlessBlockedOnInput`.
- `verify_job` does not compare a job's revision, so a job made before
  `revise_tests` can be verified after it (`system.py:1049`, compare REC-02).
- A leaf that was verified, revised and verified again has two candidates, and no
  post-review of it can be dispatched any more (`system.py:1006`).
- An acceptance that was green stays required and satisfied when the revisions it
  was evaluated on move on (`system.py:1507`).
- Evidence recorded again under its id after other changes meets its own checkpoint
  with another state, and is refused there (`system.py:1434`).

*The graph and the design*

- `revise_tests` on a child that is already integrated leaves its parent's
  integration in place (`workflow.py:384`, compare FLOW-04). No facade operation
  reaches it, and `ClosesOnCurrentIntegration` holds for those.
- `route_verified_issue` puts a cell in the phase `pre_review`, even one without frozen
  tests (`workflow.py:708`, compare FLOW-02). This too is reachable through
  `system.graph` only.
- A decomposed cell whose tests are revised is refused its next decomposition for good.
  `revise_tests` takes its children from it but leaves them in the run
  (`workflow.py:413`), `decompose` asks for new names (`workflow.py:475`), and a
  compiled composite has just these members (`system.py:718`). `StuckOverSharedMember`
  names this case (`emptied`).
- The compiler accepts a design in which two composites share a member. The second
  of them cannot be decomposed by a run (`contracts.py:538`); see
  `StuckOverSharedMember` as well. Each member needs an obligation of its own as well, which
  the compiler does not look at, and `create_root` takes the name of a member.

*Telemetry*

- An observation of something unavailable has a NULL path, which is equal to
  nothing, so each synchronization inserts it again (`telemetry.py:796`, compare
  TEL-03).
- A mirror that is deleted under a running collector can begin in the middle of the
  ledger, and its collection sequence has no gap to show for it. It is made good when
  the run is opened next (`LedgerOrder`, `RecordsReachMirror`).

---

## 6. Not modelled, and the plan

Done, in this order: `RunGraph`, `EventLedger` with `IdempotentLog`, `LoopRun`,
`Promotion` with `CandidateRegister`, `Dispatch`, `Telemetry`, `Custody`,
`BoundedProcess` with `Verification`, `ContractGraph`, `HarnessDriver`.

Modules to come:

1. `Certification`: `ExternalStateGuard`, which compares state before and after a
   harness, and the certificates a router asks for. Its evaluators compare
   documents; only the guard has an order of steps.
2. `SnapshotStore.materialize` and the permit of `executor.py`, then `Dispatch` with
   several processes on one run.

No proof is missing of what the runs check, but for liveness.

Left out for good:

- parsing and validation of documents (`profiles.py`, `corpus.py`, the CUE schemas,
  the guarantees, exclusive responsibilities and dependencies of contracts), redaction,
  argument construction (`wrappers.py`), the command line and shell tools, which have
  no state a property here could be about;
- `BudgetLedger`, the sums of one process in its own memory;
- `TelemetryStore.verify` and the queries, which only read, and the columns a record is
  unfolded into;
- pure I/O such as `SnapshotStore`'s copying, except where a crash or a change in the
  middle matters;
- the hash functions, whose digests are taken as unique names.

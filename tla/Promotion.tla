------------------------------ MODULE Promotion ------------------------------
(***************************************************************************)
(* Promotion of verified work to the candidate tree of a run:              *)
(* LoopstrapSystem.promote_job (loopstrap_core/system.py) over             *)
(* WorkspaceManager.promote (workspace.py) and atomic_write_json           *)
(* (atomic.py).                                                            *)
(*                                                                         *)
(* Processes have the same run open.  They share files: the candidate      *)
(* pointer, replaced by os.replace under a flock, the job workspaces and   *)
(* the ledger.  Each has the jobs in a memory of its own, which it writes  *)
(* to the ledger as a checkpoint after every event it appends and reads    *)
(* back from the last checkpoint, whosever that is, when it is opened      *)
(* again.  A process may die at any step of a promotion.  Snapshots are    *)
(* content digests, so the work of a job may reproduce an older one.       *)
(***************************************************************************)
EXTENDS Integers, FiniteSets

CONSTANTS
    Process, Job, Snapshot,
    NoProcess, NoJob,
    MaxCrashes, MaxCalls   \* bounds, for all processes together

ASSUME NobodyAssumption == NoProcess \notin Process /\ NoJob \notin Job
ASSUME CallsAssumption  == MaxCrashes \in Nat /\ MaxCalls \in Nat

VARIABLES
    pointer,    \* the snapshot candidate.json names
    holder,     \* who holds the exclusive lock on .candidate.json.lock
    workspaces, \* the jobs that have a workspace directory
    base, work, \* base_snapshot and candidate_snapshot of a job
    pc, job,    \* where each process is in promote_job, and for which job
    mem,        \* the jobs in the memory of each process
    saved,      \* the jobs in the last checkpoint
    keys,       \* the stable keys a checkpoint was written under
    events,     \* the ledger: <<"promoted" or "conflict", job, current snapshot>>
    landed,     \* history: the jobs whose work was put into the pointer
    crashes, calls

jobVars == <<workspaces, base, work>>
ledgerVars == <<saved, keys, events>>
boundVars == <<crashes, calls>>
vars == <<pointer, holder, jobVars, pc, job, mem, ledgerVars, landed, boundVars>>

Label  == {"idle", "lock", "read", "stage", "replace", "unlock", "flag", "event",
           "checkpoint", "refused", "conflict", "conflicted", "down"}
Status == {"none", "dispatched", "reviewed", "promoted"}
Key    == {"verified", "promoted", "conflict"} \X Job

TypeOK ==
    /\ pointer \in Snapshot
    /\ holder \in Process \cup {NoProcess}
    /\ workspaces \subseteq Job
    /\ base \in [Job -> Snapshot] /\ work \in [Job -> Snapshot]
    /\ pc \in [Process -> Label]
    /\ job \in [Process -> Job \cup {NoJob}]
    /\ mem \in [Process -> [Job -> Status]]
    /\ saved \in [Job -> Status]
    /\ keys \subseteq Key
    /\ events \subseteq {"promoted", "conflict"} \X Job \X Snapshot
    /\ landed \subseteq Job
    /\ crashes \in 0..MaxCrashes /\ calls \in 0..MaxCalls

Init ==
    /\ pointer \in Snapshot
    /\ holder = NoProcess
    /\ workspaces = {}
    /\ base = [j \in Job |-> pointer] /\ work = [j \in Job |-> pointer]
    /\ pc = [p \in Process |-> "idle"] /\ job = [p \in Process |-> NoJob]
    /\ mem = [p \in Process |-> [j \in Job |-> "none"]]
    /\ saved = [j \in Job |-> "none"]
    /\ keys = {} /\ events = {} /\ landed = {}
    /\ crashes = 0 /\ calls = 0

Goto(p, label) == pc' = [pc EXCEPT ![p] = label]

\* _checkpoint: the whole memory, under a key; a key the ledger has already
\* writes nothing (the same state is accepted, another one raises).
Save(key, state) ==
    /\ keys' = keys \cup {key}
    /\ saved' = IF key \in keys THEN saved ELSE state

-----------------------------------------------------------------------------
(* Variants with a plausible mistake, one per property: each run shows that *)
(* its property would notice the mistake.  Nothing below uses them.         *)

\* Comparing with the candidate as well as the base, as a retry might want.
CompareWithWork(p) ==
    /\ pc[p] = "read"
    /\ Goto(p, IF pointer \in {base[job[p]], work[job[p]]} THEN "stage" ELSE "refused")
    /\ UNCHANGED <<pointer, holder, jobVars, job, mem, ledgerVars, landed, boundVars>>
\* Swallowing StaleResultError.
UnlockAlike(p) ==
    /\ pc[p] \in {"unlock", "refused"}
    /\ holder' = NoProcess /\ Goto(p, "flag")
    /\ UNCHANGED <<pointer, jobVars, job, mem, ledgerVars, landed, boundVars>>
\* Unlocking after the replacement instead of in a finally block.
UnlockOnSuccess(p) ==
    /\ pc[p] \in {"unlock", "refused"}
    /\ holder' = IF pc[p] = "unlock" THEN NoProcess ELSE holder
    /\ Goto(p, IF pc[p] = "unlock" THEN "flag" ELSE "conflict")
    /\ UNCHANGED <<pointer, jobVars, job, mem, ledgerVars, landed, boundVars>>

-----------------------------------------------------------------------------
\* dispatch: the workspace is a copy of what the pointer names, and the
\* harness leaves its work in it.  A workspace is made only once.
Dispatch(p, j) ==
    /\ pc[p] = "idle" /\ j \notin workspaces
    /\ workspaces' = workspaces \cup {j}
    /\ base' = [base EXCEPT ![j] = pointer]
    /\ \E s \in Snapshot : work' = [work EXCEPT ![j] = s]
    /\ mem' = [mem EXCEPT ![p][j] = "dispatched"]
    /\ saved' = mem'[p]
    /\ UNCHANGED <<pointer, holder, pc, job, keys, events, landed, boundVars>>

\* verify_job, which captures the workspace, and the accepted post-review.
Verify(p, j) ==
    /\ pc[p] = "idle" /\ mem[p][j] = "dispatched"
    /\ mem' = [mem EXCEPT ![p][j] = "reviewed"]
    /\ Save(<<"verified", j>>, mem'[p])
    /\ UNCHANGED <<pointer, holder, jobVars, pc, job, events, landed, boundVars>>

\* promote_job; nothing keeps a caller from promoting a job again.
Promote(p, j) ==
    /\ pc[p] = "idle" /\ mem[p][j] \in {"reviewed", "promoted"}
    /\ calls < MaxCalls /\ calls' = calls + 1
    /\ job' = [job EXCEPT ![p] = j]
    /\ Goto(p, "lock")
    /\ UNCHANGED <<pointer, holder, jobVars, mem, ledgerVars, landed, crashes>>

Lock(p) ==
    /\ pc[p] = "lock" /\ holder = NoProcess
    /\ holder' = p
    /\ Goto(p, "read")
    /\ UNCHANGED <<pointer, jobVars, job, mem, ledgerVars, landed, boundVars>>

\* The comparison, against the base the job was dispatched from.
Compare(p) ==
    /\ pc[p] = "read"
    /\ Goto(p, IF pointer = base[job[p]] THEN "stage" ELSE "refused")
    /\ UNCHANGED <<pointer, holder, jobVars, job, mem, ledgerVars, landed, boundVars>>

\* atomic_write_json: a temporary file of its own, written and synced ...
Stage(p) ==
    /\ pc[p] = "stage"
    /\ Goto(p, "replace")
    /\ UNCHANGED <<pointer, holder, jobVars, job, mem, ledgerVars, landed, boundVars>>

\* ... and renamed over the pointer.
Replace(p) ==
    /\ pc[p] = "replace"
    /\ pointer' = work[job[p]]
    /\ landed' = landed \cup {job[p]}
    /\ Goto(p, "unlock")
    /\ UNCHANGED <<holder, jobVars, job, mem, ledgerVars, boundVars>>

\* The finally block, on the way out of a promotion and of a refusal.
Unlock(p) ==
    /\ pc[p] \in {"unlock", "refused"}
    /\ holder' = NoProcess
    /\ Goto(p, IF pc[p] = "unlock" THEN "flag" ELSE "conflict")
    /\ UNCHANGED <<pointer, jobVars, job, mem, ledgerVars, landed, boundVars>>

SetFlag(p) ==
    /\ pc[p] = "flag"
    /\ mem' = [mem EXCEPT ![p][job[p]] = "promoted"]
    /\ Goto(p, "event")
    /\ UNCHANGED <<pointer, holder, jobVars, job, ledgerVars, landed, boundVars>>

\* _append under the key candidate.promoted:<job>; the exact event again is
\* accepted and not repeated.
AppendPromoted(p) ==
    /\ pc[p] = "event"
    /\ events' = events \cup {<<"promoted", job[p], work[job[p]]>>}
    /\ Goto(p, "checkpoint")
    /\ UNCHANGED <<pointer, holder, jobVars, job, mem, saved, keys, landed, boundVars>>

\* StaleResultError, caught: the event names the snapshot that is current
\* now, outside the lock.  Under the one key promotion.conflict:<job> a
\* second conflict with another current snapshot raises IdempotencyError.
AppendConflict(p) ==
    /\ pc[p] = "conflict"
    /\ IF \E s \in Snapshot \ {pointer} : <<"conflict", job[p], s>> \in events
         THEN Goto(p, "idle") /\ UNCHANGED events
         ELSE /\ events' = events \cup {<<"conflict", job[p], pointer>>}
              /\ Goto(p, "conflicted")
    /\ UNCHANGED <<pointer, holder, jobVars, job, mem, saved, keys, landed, boundVars>>

\* Every event is followed by a checkpoint, and the call ends.
Checkpoint(p) ==
    /\ pc[p] \in {"checkpoint", "conflicted"}
    /\ Save(<<IF pc[p] = "checkpoint" THEN "promoted" ELSE "conflict", job[p]>>, mem[p])
    /\ Goto(p, "idle")
    /\ UNCHANGED <<pointer, holder, jobVars, job, mem, events, landed, boundVars>>

\* A process dies in a promotion; the kernel drops its lock, and a temporary
\* file it leaves is nobody's.
Crash(p) ==
    /\ pc[p] \notin {"idle", "down"} /\ crashes < MaxCrashes
    /\ crashes' = crashes + 1
    /\ holder' = IF holder = p THEN NoProcess ELSE holder
    /\ Goto(p, "down")
    /\ UNCHANGED <<pointer, jobVars, job, mem, ledgerVars, landed, calls>>

\* LoopstrapSystem.open: the jobs as the last checkpoint has them.
Open(p) ==
    /\ pc[p] = "down"
    /\ mem' = [mem EXCEPT ![p] = saved]
    /\ Goto(p, "idle")
    /\ UNCHANGED <<pointer, holder, jobVars, job, ledgerVars, landed, boundVars>>

Step(p) ==
    \/ Lock(p) \/ Compare(p) \/ Stage(p) \/ Replace(p) \/ Unlock(p)
    \/ SetFlag(p) \/ AppendPromoted(p) \/ AppendConflict(p) \/ Checkpoint(p)

Call(p) == \E j \in Job : Dispatch(p, j) \/ Verify(p, j) \/ Promote(p, j)

Next == \E p \in Process : Call(p) \/ Step(p) \/ Crash(p) \/ Open(p)

Spec == Init /\ [][Next]_vars

\* A process in a call keeps running; flock promises no order among waiters.
FairSpec == Spec /\ \A p \in Process : WF_vars(Step(p))

-----------------------------------------------------------------------------
(* Claim WORK-03: the pointer moves only from a snapshot to work made from  *)
(* that very snapshot, so no promotion overwrites another one unseen.       *)
NoLostPromotion ==
    [][pointer' # pointer =>
          \E j \in Job : pointer = base[j] /\ pointer' = work[j]]_vars

(* What any process believes of a job is never more than what happened: the *)
(* flag that lets a cell close, in memory or recovered from a checkpoint,   *)
(* and the ledger's candidate.promoted event all follow the pointer.        *)
PromotedMeansLanded ==
    \A j \in Job :
        /\ saved[j] = "promoted" => j \in landed
        /\ \A p \in Process : mem[p][j] = "promoted" => j \in landed
        /\ (\E s \in Snapshot : <<"promoted", j, s>> \in events) => j \in landed

(* Promotions are serialized, not blocked: every call comes to its end, or  *)
(* to the end of its process, whoever else holds the lock or died with it.  *)
PromotionEnds ==
    \A p \in Process : pc[p] = "lock" ~> pc[p] \in {"idle", "down"}

(* The pointer implements the compare-and-swap register.  A call swaps when *)
(* it replaces the file and is rejected when it has compared.               *)
Unasked == CHOOSE s \in Snapshot : TRUE
Arguments(of) == [p \in Process |-> IF job[p] = NoJob THEN Unasked ELSE of[job[p]]]
Outcome ==
    [p \in Process |-> IF pc[p] \in {"unlock", "flag", "event"} THEN "swapped"
                       ELSE IF pc[p] \in {"refused", "conflict"} THEN "stale" ELSE "none"]
Register == INSTANCE CandidateRegister WITH
    Contender <- Process,
    expected <- Arguments(base), wanted <- Arguments(work), answer <- Outcome
ImplementsRegister == Register!Spec
=============================================================================

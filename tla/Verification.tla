----------------------------- MODULE Verification -----------------------------
(***************************************************************************)
(* LoopstrapSystem.verify_job_with_plan (loopstrap_core/system.py) and     *)
(* DeterministicVerifier.run (verification.py): the commands of a frozen   *)
(* plan run one after the other in the workspace of a job, each by         *)
(* run_bounded (BoundedProcess).  A command that does not complete ends    *)
(* the verification without a report.  A report is written to the ledger   *)
(* under a key of the job, and then the job is accepted.                   *)
(*                                                                         *)
(* A report holds the times its commands took, so no two runs of a plan    *)
(* make the same one; it is named here by the number of the attempt.  The  *)
(* cell of the job moves on and back by other operations, between calls.   *)
(* verify_job, which takes its caller's word, is not modelled here; what a *)
(* crash inside the acceptance leaves is in LoopRun.                       *)
(***************************************************************************)
EXTENDS BoundedProcess

CONSTANTS
    Commands,      \* how many commands the plan has, visible and holdout
    MaxAttempts    \* bound on calls of verify_job_with_plan

ASSUME PlanAssumption == Commands \in Nat /\ Commands >= 2 /\ MaxAttempts \in Nat

VARIABLES
    receipts,    \* the exits of the commands completed in this attempt
    report,      \* the event tests.executed of the job, or none
    verified,    \* the job's work is a verified candidate
    fits,        \* the cell is in the phase and wants the role of the job
    attempts,
    ran          \* history: the exits of all commands of each attempt

plan == <<receipts, report, verified, fits, attempts, ran>>
vars == <<callVars, plan>>

NoReport == [attempt |-> 0, passed |-> FALSE]

Init ==
    /\ Fresh /\ pc = "idle" /\ faults = 0
    /\ receipts = << >> /\ report = NoReport /\ verified = FALSE
    /\ fits = TRUE /\ attempts = 0 /\ ran = << >>

\* The next call begins with new pipes.  A helper that outlived the call
\* before it is still there, without a hold on them; a child that did is of
\* no more concern.
Renew(to) ==
    /\ pc' = to
    /\ unsent' = 0 /\ input' = 0 /\ child' = "none"
    /\ helper' = [helper EXCEPT !.holds = FALSE, !.grouped = FALSE]
    /\ buffer' = [s \in Stream |-> 0] /\ written' = [s \in Stream |-> 0]
    /\ got' = [s \in Stream |-> 0] /\ ended' = {}
    /\ late' = FALSE /\ outcome' = "none"

\* The plan has the digests of the cell's frozen tests.
VerifyJob ==
    /\ pc = "idle" /\ attempts < MaxAttempts
    /\ attempts' = attempts + 1
    /\ receipts' = << >> /\ ran' = Append(ran, << >>)
    /\ Renew("spawn")
    /\ UNCHANGED <<report, verified, fits, faults>>

Receipt ==
    /\ pc = "ended" /\ outcome = "completed"
    /\ receipts' = Append(receipts, child)
    /\ ran' = [ran EXCEPT ![attempts] = Append(@, child)]
    /\ Renew(IF Len(receipts') = Commands THEN "report" ELSE "spawn")
    /\ UNCHANGED <<report, verified, fits, attempts, faults>>

\* The exception of run_bounded passes through the verifier.
Abandon ==
    /\ pc = "ended" /\ outcome # "completed"
    /\ Renew("idle") /\ receipts' = << >>
    /\ UNCHANGED <<report, verified, fits, attempts, ran, faults>>

\* Variant: the last command decides.
PassedLast(r) == r[Len(r)] = "zero"
Passed(r) == \A i \in DOMAIN r : r[i] = "zero"

\* Variant: a job not yet verified is reported on again.
ReportTwice ==
    /\ pc = "report"
    /\ IF ~verified
         THEN /\ report' = [attempt |-> attempts, passed |-> Passed(receipts)]
              /\ pc' = IF Passed(receipts) THEN "accept" ELSE "idle"
         ELSE pc' = "idle" /\ UNCHANGED report
    /\ receipts' = << >>
    /\ UNCHANGED <<pipes, child, helper, late, outcome, faults, verified, fits, attempts, ran>>
\* The event is appended; another report of the same job is refused.
TestsExecuted ==
    /\ pc = "report"
    /\ IF report = NoReport
         THEN /\ report' = [attempt |-> attempts, passed |-> Passed(receipts)]
              /\ pc' = IF Passed(receipts) THEN "accept" ELSE "idle"
         ELSE pc' = "idle" /\ UNCHANGED report
    /\ receipts' = << >>
    /\ UNCHANGED <<pipes, child, helper, late, outcome, faults, verified, fits, attempts, ran>>

\* _accept_verified_job: the report is written by now, whatever is refused.
Accept ==
    /\ pc = "accept"
    /\ verified' = (verified \/ fits) /\ pc' = "idle"
    /\ UNCHANGED <<pipes, child, helper, late, outcome, faults,
                   receipts, report, fits, attempts, ran>>

\* Other operations on the cell, between two calls.
CellMoves ==
    /\ pc = "idle" /\ ~verified /\ fits' = ~fits
    /\ UNCHANGED <<callVars, receipts, report, verified, attempts, ran>>

\* The process dies; the child it leaves is nobody's concern any more.
Crash ==
    /\ pc # "idle" /\ faults < MaxFaults
    /\ faults' = faults + 1
    /\ Renew("idle") /\ receipts' = << >>
    /\ UNCHANGED <<report, verified, fits, attempts, ran>>

System == (Parent \/ Tick) /\ UNCHANGED plan

Next ==
    \/ VerifyJob \/ Receipt \/ Abandon \/ TestsExecuted \/ Accept \/ CellMoves \/ Crash
    \/ System
    \/ (Environment \/ Interrupt) /\ UNCHANGED plan

Spec == Init /\ [][Next]_vars

\* The parent runs and time passes; the child owes nothing.
FairSpec ==
    /\ Spec
    /\ WF_vars(Parent /\ UNCHANGED plan) /\ WF_vars(Tick /\ UNCHANGED plan)
    /\ WF_vars(Receipt \/ Abandon \/ TestsExecuted \/ Accept)

-----------------------------------------------------------------------------
\* The ends that come after a terminate.
Terminated ==
    {"input_interrupted", "interrupted", "HarnessTimeoutError", "HarnessOutputLimitError"}

(* The variables keep their types.                                          *)
TypeOK ==
    /\ pc \in {"idle", "spawn", "write", "select", "read", "wait", "terminate", "ended",
              "report", "accept"}
    /\ unsent \in Nat /\ input \in 0..Pipe
    /\ child \in {"none", "killed"} \cup Running \cup Exit
    /\ helper \in [alive : BOOLEAN, grouped : BOOLEAN, holds : BOOLEAN]
    /\ buffer \in [Stream -> 0..Pipe] /\ written \in [Stream -> 0..Output]
    /\ got \in [Stream -> 0..Output] /\ ended \subseteq Stream
    /\ late \in BOOLEAN /\ faults \in 0..MaxFaults
    /\ outcome \in {"none", "completed", "spawn_error", "raised"} \cup Terminated
    /\ receipts \in Seq(Exit) /\ ran \in Seq(Seq(Exit)) /\ Len(ran) = attempts
    /\ report \in [attempt : 0..MaxAttempts, passed : BOOLEAN]
    /\ verified \in BOOLEAN /\ fits \in BOOLEAN /\ attempts \in 0..MaxAttempts

(* How a call ends (claim CERT-CONFORM-02).  A completed one has all the    *)
(* output there ever will be, of the child and of whatever it left behind,  *)
(* within the limit, and the child's own exit.  One that ends in an error of*)
(* its own after the start has nothing of the child's process group running:*)
(* what still writes in the workspace has left the group.  A child is left  *)
(* running only by an interruption that falls outside the handlers, in or   *)
(* right after Popen, between writing and reading, or in a handler's own    *)
(* terminate.  No call has lost anything it read, nor holds more than the   *)
(* limit and one read of each stream.                                       *)
EndsClean ==
    pc = "ended" =>
        /\ outcome = "completed" =>
             got = written /\ child \in Exit /\ \A s \in Stream : got[s] <= Limit
        /\ outcome \in Terminated => child \notin Running /\ ~(helper.alive /\ helper.grouped)
        /\ child \in Running => outcome \in {"spawn_error", "raised"} /\ faults > 0
        /\ \A s \in Stream : got[s] <= Limit + 1 /\ got[s] + buffer[s] = written[s]

(* A call ends, by its deadline, whatever the child and its helpers do; but *)
(* that it may wait for ever with the request: there is no deadline yet, and*)
(* a child that fills an output pipe before it reads a request larger than  *)
(* a pipe waits for the parent as the parent waits for it.                  *)
BlockedOnInput == pc = "write" /\ unsent > 0 /\ input = Pipe
ReturnsUnlessBlockedOnInput ==
    (pc = "spawn") ~> (pc \in {"ended", "idle"} \/ []BlockedOnInput)

(* A job is a verified candidate only if every command of the plan, visible *)
(* and holdout, ran to its end with exit 0 in one attempt, and that attempt *)
(* is the one the ledger has the report of.                                 *)
VerifiedMeansAllPassed ==
    verified =>
        /\ report.passed /\ report.attempt \in DOMAIN ran
        /\ ran[report.attempt] = [i \in 1..Commands |-> "zero"]

(* The first report written is the last word of a plan on a job: a call that*)
(* has returned, or died, after writing it without verifying the job is not *)
(* made good by another, whether a command had failed (a plan is not run    *)
(* again until it passes), the cell was elsewhere, or the process crashed   *)
(* between the two events with every command passed.                        *)
ReportIsFinal ==
    [](report # NoReport /\ pc = "idle" /\ ~verified => []~verified)
=============================================================================

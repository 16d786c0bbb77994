-------------------------- MODULE Verification_proofs --------------------------
(* Theorems about Verification, for any size of the pipes, any limit, any     *)
(* number of commands and attempts, and whatever the child does.              *)
EXTENDS Verification, TLAPS

USE PipeAssumption, RequestAssumption, PlanAssumption

\* Labels of a call of run_bounded, before it has ended.
InCall == {"write", "select", "read", "wait"}

\* Nothing read is lost, and a stream that has ended stays empty, since the
\* holders of the pipes never come back.
StreamInv ==
    /\ \A s \in Stream : got[s] + buffer[s] = written[s]
    /\ \A s \in Stream : got[s] <= Limit + 1
    /\ pc \in {"spawn"} \cup InCall => \A s \in Stream : got[s] <= Limit
    /\ \A s \in ended : buffer[s] = 0 /\ Holders = {}
    /\ pc = "wait" => ended = Stream
    /\ pc = "spawn" => ended = {}

\* Where the child is, and what a call leaves of its process group.
ChildInv ==
    /\ pc = "spawn" => child = "none" /\ ~helper.grouped
    /\ pc \in InCall => child \in Running \cup Exit
    /\ pc = "terminate" => outcome \in Terminated
    /\ pc = "ended" =>
         /\ outcome = "completed" =>
              ended = Stream /\ child \in Exit /\ \A s \in Stream : got[s] <= Limit
         /\ outcome \in Terminated => child \notin Running /\ ~(helper.alive /\ helper.grouped)
         /\ child \in Running => outcome \in {"spawn_error", "raised"} /\ faults > 0

\* The receipts are those of this attempt, and a report is of an attempt that
\* is over.
AllZero(r) == r = [i \in 1..Commands |-> "zero"]
ReportInv ==
    /\ pc \in {"spawn", "terminate", "ended", "report"} \cup InCall =>
          attempts > 0 /\ receipts = ran[attempts] /\ report.attempt # attempts
    /\ pc \in {"spawn", "terminate", "ended"} \cup InCall => Len(receipts) < Commands
    /\ pc = "report" => Len(receipts) = Commands
    /\ report.attempt <= attempts
    /\ report.passed => report.attempt \in DOMAIN ran /\ AllZero(ran[report.attempt])
    /\ pc = "accept" \/ verified => report.passed

-----------------------------------------------------------------------------
(* Types.                                                                   *)

\* The two halves of the type invariant.
ProcessType ==
    /\ pc \in {"idle", "spawn", "write", "select", "read", "wait", "terminate", "ended",
              "report", "accept"}
    /\ unsent \in Nat /\ input \in 0..Pipe
    /\ child \in {"none", "killed"} \cup Running \cup Exit
    /\ helper \in [alive : BOOLEAN, grouped : BOOLEAN, holds : BOOLEAN]
    /\ buffer \in [Stream -> 0..Pipe] /\ written \in [Stream -> 0..Output]
    /\ got \in [Stream -> 0..Output] /\ ended \subseteq Stream
    /\ late \in BOOLEAN /\ faults \in 0..MaxFaults
    /\ outcome \in {"none", "completed", "spawn_error", "raised"} \cup Terminated
PlanType ==
    /\ receipts \in Seq(Exit) /\ ran \in Seq(Seq(Exit)) /\ Len(ran) = attempts
    /\ report \in [attempt : 0..MaxAttempts, passed : BOOLEAN]
    /\ verified \in BOOLEAN /\ fits \in BOOLEAN /\ attempts \in 0..MaxAttempts

LEMMA TypeParts == TypeOK <=> ProcessType /\ PlanType
BY DEF TypeOK, ProcessType, PlanType

LEMMA KillTypes ==
    ASSUME ProcessType, KillGroup
    PROVE  /\ child' \in {"none", "killed"} \cup Running \cup Exit
           /\ helper' \in [alive : BOOLEAN, grouped : BOOLEAN, holds : BOOLEAN]
BY DEF ProcessType, KillGroup, NoHelper

LEMMA HelperTypes ==
    ASSUME ProcessType, HelperMoves
    PROVE  helper' \in [alive : BOOLEAN, grouped : BOOLEAN, holds : BOOLEAN]
<1>1. helper \in [alive : BOOLEAN, grouped : BOOLEAN, holds : BOOLEAN]
    BY DEF ProcessType
<1>2. \/ helper' = NoHelper
      \/ helper' = [helper EXCEPT !.holds = FALSE]
      \/ helper' = [helper EXCEPT !.grouped = FALSE]
    BY DEF HelperMoves
<1>3. CASE helper' = NoHelper
    BY <1>3 DEF NoHelper
<1>4. CASE helper' = [helper EXCEPT !.holds = FALSE]
    BY <1>1, <1>4
<1>5. CASE helper' = [helper EXCEPT !.grouped = FALSE]
    BY <1>1, <1>5
<1> QED BY <1>2, <1>3, <1>4, <1>5

LEMMA ProcessKeepsTypes ==
    ASSUME ProcessType, StreamInv,
           Environment \/ Parent \/ Tick \/ Interrupt
    PROVE  ProcessType'
<1> USE DEF ProcessType, pipes
<1>1. CASE InputIsRead
    BY <1>1 DEF InputIsRead
<1>2. ASSUME NEW s \in Stream, ProcessWrites(s) PROVE ProcessType'
    <2>1. /\ buffer' \in [Stream -> 0..Pipe] /\ written' \in [Stream -> 0..Output]
        BY <1>2 DEF ProcessWrites
    <2> QED BY <1>2, <2>1 DEF ProcessWrites
<1>3. CASE ChildMoves
    BY <1>3 DEF ChildMoves, Running, Exit
<1>4. CASE ChildForks
    BY <1>4 DEF ChildForks
<1>5. CASE HelperMoves
    <2>1. helper' \in [alive : BOOLEAN, grouped : BOOLEAN, holds : BOOLEAN]
        BY <1>5, HelperTypes
    <2> QED BY <1>5, <2>1 DEF HelperMoves
<1>6. CASE Spawn
    BY <1>6 DEF Spawn, End, Running
<1>7. CASE WriteRequest
    BY <1>7 DEF WriteRequest
<1>8. CASE InputBroken
    BY <1>8 DEF InputBroken, Fail, Terminated
<1>9. CASE CloseInput
    BY <1>9 DEF CloseInput
<1>10. ASSUME NEW s \in Stream, Read(s) PROVE ProcessType'
    <2>1. got[s] + 1 \in 0..Output /\ buffer[s] - 1 \in 0..Pipe
        BY <1>10 DEF Read, StreamInv
    <2>2. got' \in [Stream -> 0..Output] /\ buffer' \in [Stream -> 0..Pipe]
        BY <1>10, <2>1 DEF Read
    <2>3. CASE got'[s] > Limit
        BY <1>10, <2>2, <2>3 DEF Read, Fail, Terminated
    <2>4. CASE ~(got'[s] > Limit)
        BY <1>10, <2>2, <2>4 DEF Read
    <2> QED BY <2>3, <2>4
<1>11. ASSUME NEW s \in Stream, StreamEnds(s) PROVE ProcessType'
    BY <1>11 DEF StreamEnds
<1>12. CASE AllEnded
    BY <1>12 DEF AllEnded
<1>13. CASE Timeout
    BY <1>13 DEF Timeout, Fail, Terminated
<1>14. CASE Complete
    BY <1>14 DEF Complete, End
<1>15. CASE Tick
    BY <1>15 DEF Tick
<1>16. CASE Interrupt
    <2>1. UNCHANGED <<pipes, late>> /\ faults' \in 0..MaxFaults
        BY <1>16 DEF Interrupt
    <2>2. CASE Unguarded
        BY <2>1, <2>2 DEF Unguarded, End, Running
    <2>3. CASE Guarded
        BY <2>1, <2>3 DEF Guarded, Fail, Terminated
    <2>4. CASE InTerminate
        BY <2>1, <2>4, KillTypes DEF InTerminate, Fail, End, Terminated
    <2> QED BY <1>16, <2>2, <2>3, <2>4 DEF Interrupt
<1>17. CASE Select
    BY <1>17 DEF Select
<1>18. CASE Terminate
    BY <1>18, KillTypes DEF Terminate, End
<1> QED BY <1>1, <1>2, <1>3, <1>4, <1>5, <1>6, <1>7, <1>8, <1>9, <1>10, <1>11, <1>12,
           <1>13, <1>14, <1>15, <1>16, <1>17, <1>18 DEF Environment, Parent

LEMMA RenewTypes ==
    ASSUME ProcessType, NEW to \in {"spawn", "report", "idle"}, Renew(to), faults' \in 0..MaxFaults
    PROVE  ProcessType'
<1>1. /\ buffer' \in [Stream -> 0..Pipe] /\ written' \in [Stream -> 0..Output]
      /\ got' \in [Stream -> 0..Output]
    BY DEF Renew
<1>2. helper' \in [alive : BOOLEAN, grouped : BOOLEAN, holds : BOOLEAN]
    <2>1. helper' = [helper EXCEPT !.holds = FALSE, !.grouped = FALSE]
        BY DEF Renew
    <2>2. helper \in [alive : BOOLEAN, grouped : BOOLEAN, holds : BOOLEAN]
        BY DEF ProcessType
    <2>3. [helper EXCEPT !.holds = FALSE, !.grouped = FALSE]
             \in [alive : BOOLEAN, grouped : BOOLEAN, holds : BOOLEAN]
        BY <2>2
    <2> QED BY <2>1, <2>3
<1>3. /\ pc' \in {"spawn", "report", "idle"} /\ unsent' = 0 /\ input' = 0
      /\ child' = "none" /\ ended' = {} /\ late' = FALSE /\ outcome' = "none"
    BY DEF Renew
<1>4. unsent' \in Nat /\ input' \in 0..Pipe /\ ended' \subseteq Stream /\ late' \in BOOLEAN
    <2>1. unsent' \in Nat /\ input' \in 0..Pipe
        <3>1. 0 \in Nat /\ 0 \in 0..Pipe
            OBVIOUS
        <3> QED BY <1>3, <3>1
    <2> QED BY <1>3, <2>1
<1>5. pc' \in {"idle", "spawn", "write", "select", "read", "wait", "terminate", "ended",
               "report", "accept"}
    BY <1>3
<1>6. child' \in {"none", "killed"} \cup Running \cup Exit
    BY <1>3
<1>7. outcome' \in {"none", "completed", "spawn_error", "raised"} \cup Terminated
    BY <1>3
<1> QED BY <1>1, <1>2, <1>4, <1>5, <1>6, <1>7 DEF ProcessType

LEMMA VerifierKeepsTypes ==
    ASSUME ProcessType, PlanType, ReportInv, ChildInv,
           \/ VerifyJob \/ Receipt \/ Abandon \/ TestsExecuted \/ Accept \/ CellMoves \/ Crash
    PROVE  ProcessType' /\ PlanType'
<1>0. << >> \in Seq(Exit) /\ faults \in 0..MaxFaults
    BY DEF ProcessType
<1>1. CASE VerifyJob
    <2>1. ProcessType'
        BY <1>0, <1>1, RenewTypes DEF VerifyJob
    <2>2. ran' \in Seq(Seq(Exit)) /\ Len(ran') = attempts' /\ attempts' \in 0..MaxAttempts
        BY <1>0, <1>1 DEF VerifyJob, PlanType
    <2> QED BY <1>0, <1>1, <2>1, <2>2 DEF VerifyJob, PlanType
<1>2. CASE Receipt
    <2>1. ProcessType'
        BY <1>0, <1>2, RenewTypes DEF Receipt
    <2>2. child \in Exit /\ attempts \in DOMAIN ran
        BY <1>2 DEF Receipt, ChildInv, ReportInv, PlanType
    <2>3. receipts' \in Seq(Exit)
        BY <1>2, <2>2 DEF Receipt, PlanType
    <2>4. ran' \in Seq(Seq(Exit)) /\ Len(ran') = Len(ran)
        <3>1. ran[attempts] \in Seq(Exit)
            BY <2>2 DEF PlanType
        <3>2. Append(ran[attempts], child) \in Seq(Exit)
            BY <2>2, <3>1
        <3>3. ran' = [ran EXCEPT ![attempts] = Append(ran[attempts], child)]
            BY <1>2 DEF Receipt
        <3> QED BY <2>2, <3>2, <3>3 DEF PlanType
    <2> QED BY <1>2, <2>1, <2>3, <2>4 DEF Receipt, PlanType
<1>3. CASE Abandon
    <2>1. ProcessType'
        BY <1>0, <1>3, RenewTypes DEF Abandon
    <2> QED BY <1>0, <1>3, <2>1 DEF Abandon, PlanType
<1>4. CASE TestsExecuted
    <2>1. report' \in [attempt : 0..MaxAttempts, passed : BOOLEAN]
        <3>1. Passed(receipts) \in BOOLEAN
            BY DEF Passed
        <3>2. attempts \in 0..MaxAttempts
            BY DEF PlanType
        <3>3. [attempt |-> attempts, passed |-> Passed(receipts)]
                \in [attempt : 0..MaxAttempts, passed : BOOLEAN]
            BY <3>1, <3>2
        <3> QED BY <1>4, <3>3 DEF TestsExecuted, PlanType
    <2>2. pc' \in {"accept", "idle"}
        BY <1>4 DEF TestsExecuted
    <2> QED BY <1>0, <1>4, <2>1, <2>2 DEF TestsExecuted, ProcessType, PlanType, pipes
<1>5. CASE Accept
    BY <1>5 DEF Accept, ProcessType, PlanType, pipes
<1>6. CASE CellMoves
    BY <1>6 DEF CellMoves, callVars, ProcessType, PlanType, pipes
<1>7. CASE Crash
    <2>1. faults' \in 0..MaxFaults
        BY <1>0, <1>7 DEF Crash
    <2>2. ProcessType'
        BY <1>7, <2>1, RenewTypes DEF Crash
    <2> QED BY <1>0, <1>7, <2>2 DEF Crash, PlanType
<1> QED BY <1>1, <1>2, <1>3, <1>4, <1>5, <1>6, <1>7

-----------------------------------------------------------------------------
(* The steps of a call of run_bounded, and of the processes it started.     *)

Step == Environment \/ Parent \/ Tick \/ Interrupt

LEMMA NoHolders ==
    Holders = {} <=> child # "alive" /\ ~(helper.alive /\ helper.holds)
BY DEF Holders

LEMMA NoHoldersNext ==
    Holders' = {} <=> child' # "alive" /\ ~(helper'.alive /\ helper'.holds)
BY DEF Holders

\* A kill leaves nothing of the process group, and adds no holder of the pipes.
LEMMA KillEnds ==
    ASSUME ProcessType, KillGroup
    PROVE  /\ child' \notin Running
           /\ child' # "alive"
           /\ ~(helper'.alive /\ helper'.grouped)
           /\ Holders = {} => Holders' = {}
<1>1. child' \notin Running /\ child' # "alive"
    BY DEF KillGroup, Running
<1>2. helper' = NoHelper \/ (helper' = helper /\ ~helper.grouped)
    BY DEF KillGroup, ProcessType
<1>3. ~NoHelper.alive
    BY DEF NoHelper
<1> QED BY <1>1, <1>2, <1>3, NoHolders, NoHoldersNext

\* The label moves on only inside a call.
LEMMA StepMoves ==
    ASSUME Step
    PROVE  \/ pc' = pc
           \/ /\ pc \in {"spawn", "terminate"} \cup InCall
              /\ pc' \in {"terminate", "ended"} \cup InCall
BY DEF Step, Environment, Parent, Tick, Interrupt, InputIsRead, ProcessWrites, ChildMoves,
       ChildForks, HelperMoves, Spawn, WriteRequest, InputBroken, CloseInput, Read,
       StreamEnds, AllEnded, Timeout, Complete, End, Fail, InCall, Select, Terminate,
       Unguarded, Guarded, InTerminate

LEMMA HelperLets ==
    ASSUME ProcessType, HelperMoves
    PROVE  /\ helper'.alive => helper.alive
           /\ helper'.holds => helper.holds
           /\ helper'.grouped => helper.grouped
           /\ Holders = {} => Holders' = {}
<1>1. helper \in [alive : BOOLEAN, grouped : BOOLEAN, holds : BOOLEAN]
    BY DEF ProcessType
<1>2. \/ helper' = NoHelper
      \/ helper' = [helper EXCEPT !.holds = FALSE]
      \/ helper' = [helper EXCEPT !.grouped = FALSE]
    BY DEF HelperMoves
<1>3. CASE helper' = NoHelper
    <2>1. ~helper'.alive /\ ~helper'.holds /\ ~helper'.grouped
        BY <1>3 DEF NoHelper
    <2> QED BY <2>1, NoHolders, NoHoldersNext DEF HelperMoves
<1>4. CASE helper' = [helper EXCEPT !.holds = FALSE]
    <2>1. helper'.alive = helper.alive /\ ~helper'.holds /\ helper'.grouped = helper.grouped
        BY <1>1, <1>4
    <2> QED BY <2>1, NoHolders, NoHoldersNext DEF HelperMoves
<1>5. CASE helper' = [helper EXCEPT !.grouped = FALSE]
    <2>1. helper'.alive = helper.alive /\ helper'.holds = helper.holds /\ ~helper'.grouped
        BY <1>1, <1>5
    <2> QED BY <2>1, NoHolders, NoHoldersNext DEF HelperMoves
<1> QED BY <1>2, <1>3, <1>4, <1>5

LEMMA StepKeepsStreams ==
    ASSUME ProcessType, StreamInv, ChildInv, Step
    PROVE  StreamInv'
<1> DEFINE Frame == UNCHANGED <<pc, buffer, written, got, ended>>
<1>1. ASSUME Frame, Holders = {} => Holders' = {} PROVE StreamInv'
    BY <1>1 DEF StreamInv, Stream
<1>2. CASE InputIsRead
    BY <1>1, <1>2, NoHolders, NoHoldersNext DEF InputIsRead
<1>3. ASSUME NEW s \in Stream, ProcessWrites(s) PROVE StreamInv'
    <2>1. ended = {} /\ Holders' # {}
        BY <1>3, NoHolders, NoHoldersNext DEF ProcessWrites, StreamInv
    <2>2. \A t \in Stream : got[t] \in Nat /\ buffer[t] \in Nat /\ written[t] \in Nat
        BY DEF ProcessType
    <2>3. \A t \in Stream : got'[t] + buffer'[t] = written'[t]
        BY <1>3, <2>2 DEF ProcessWrites, StreamInv, ProcessType
    <2> QED BY <1>3, <2>1, <2>3 DEF ProcessWrites, StreamInv
<1>4. CASE ChildMoves
    <2>1. Holders = {} => Holders' = {}
        BY <1>4, NoHolders, NoHoldersNext DEF ChildMoves, Exit
    <2> QED BY <1>1, <1>4, <2>1 DEF ChildMoves, pipes
<1>5. CASE ChildForks
    <2>1. Holders = {} => Holders' = {}
        <3>1. helper'.holds => child = "alive"
            BY <1>5 DEF ChildForks
        <3> QED BY <1>5, <3>1, NoHolders, NoHoldersNext DEF ChildForks
    <2> QED BY <1>1, <1>5, <2>1 DEF ChildForks, pipes
<1>6. CASE HelperMoves
    BY <1>1, <1>6, HelperLets DEF HelperMoves, pipes
<1>7. CASE Spawn
    <2>1. ended = {} /\ UNCHANGED <<buffer, written, got, ended>> /\ pc' \in {"write", "ended"}
        BY <1>7 DEF Spawn, End, StreamInv
    <2> QED BY <1>7, <2>1 DEF Spawn, StreamInv
<1>8. CASE WriteRequest
    BY <1>1, <1>8, NoHolders, NoHoldersNext DEF WriteRequest
\* The call fails or ends.
<1>9. ASSUME KillGroup \/ UNCHANGED <<child, helper>>, pc' \in {"terminate", "ended"},
             UNCHANGED pipes
      PROVE  StreamInv'
    <2>1. Holders = {} => Holders' = {}
        BY <1>9, KillEnds, NoHolders, NoHoldersNext
    <2>2. UNCHANGED <<buffer, written, got, ended>>
        BY <1>9 DEF pipes
    <2> QED BY <1>9, <2>1, <2>2 DEF StreamInv, InCall
<1>10. CASE InputBroken
    BY <1>9, <1>10 DEF InputBroken, Fail
<1>11. CASE CloseInput
    <2>1. Holders' = Holders /\ UNCHANGED <<buffer, written, got, ended>> /\ pc' = "select"
          /\ pc = "write"
        BY <1>11 DEF CloseInput, Holders, pipes
    <2> QED BY <2>1 DEF StreamInv, InCall
<1>12. ASSUME NEW s \in Stream, Read(s) PROVE StreamInv'
    <2>1. s \notin ended
        BY <1>12 DEF Read, StreamInv
    <2>2. \A t \in Stream : got[t] \in Nat /\ buffer[t] \in Nat /\ written[t] \in Nat
        BY DEF ProcessType
    <2>3. /\ \A t \in Stream : got'[t] + buffer'[t] = written'[t]
          /\ \A t \in Stream : got'[t] <= Limit + 1
        BY <1>12, <2>2 DEF Read, StreamInv, ProcessType, InCall
    <2>4. \A t \in ended' : buffer'[t] = 0
        BY <1>12, <2>1 DEF Read, StreamInv, ProcessType
    <2>5. Holders = {} => Holders' = {}
        BY <1>12, NoHolders, NoHoldersNext DEF Read
    <2>6. pc' \in InCall => \A t \in Stream : got'[t] <= Limit
        BY <1>12, <2>2 DEF Read, StreamInv, ProcessType, InCall, Fail
    <2>7. pc' \in {"read", "terminate"} /\ ended' = ended
        BY <1>12 DEF Read, Fail
    <2> QED BY <2>3, <2>4, <2>5, <2>6, <2>7 DEF StreamInv
<1>13. ASSUME NEW s \in Stream, StreamEnds(s) PROVE StreamInv'
    <2>1. Holders' = Holders
        BY <1>13 DEF StreamEnds, Holders
    <2> QED BY <1>13, <2>1 DEF StreamEnds, StreamInv
<1>14. CASE AllEnded
    <2>1. Holders' = Holders
        BY <1>14 DEF AllEnded, Holders
    <2> QED BY <1>14, <2>1 DEF AllEnded, StreamInv, pipes, InCall
<1>15. CASE Timeout
    BY <1>9, <1>15 DEF Timeout, Fail
<1>16. CASE Complete
    <2>1. Holders' = Holders
        BY <1>16 DEF Complete, Holders
    <2> QED BY <1>16, <2>1 DEF Complete, End, StreamInv, pipes, InCall
<1>17. CASE Tick
    <2>1. Holders' = Holders
        BY <1>17 DEF Tick, Holders
    <2> QED BY <1>1, <1>17, <2>1 DEF Tick, pipes
<1>18. CASE Interrupt
    <2>1. UNCHANGED <<buffer, written, got, ended>> /\ UNCHANGED pipes
        BY <1>18 DEF Interrupt, pipes
    <2>2. CASE Unguarded
        <3>1. pc = "spawn" => ended = {}
            BY DEF StreamInv
        <3>2. pc # "spawn" => UNCHANGED <<child, helper>>
            BY <2>2 DEF Unguarded
        <3>3. pc' = "ended"
            BY <2>2 DEF Unguarded, End
        <3>4. CASE pc = "spawn"
            BY <2>1, <3>1, <3>3, <3>4 DEF StreamInv, InCall
        <3>5. CASE pc # "spawn"
            BY <1>9, <2>1, <3>2, <3>3, <3>5
        <3> QED BY <3>4, <3>5
    <2>3. CASE Guarded
        BY <1>9, <2>1, <2>3 DEF Guarded, Fail
    <2>4. CASE InTerminate
        BY <1>9, <2>1, <2>4 DEF InTerminate, Fail, End
    <2> QED BY <1>18, <2>2, <2>3, <2>4 DEF Interrupt
<1>19. CASE Select
    <2>1. Holders' = Holders /\ UNCHANGED <<buffer, written, got, ended>>
        BY <1>19 DEF Select, Holders, pipes
    <2> QED BY <1>19, <2>1 DEF Select, StreamInv, InCall
<1>20. CASE Terminate
    BY <1>9, <1>20 DEF Terminate, End
<1> QED BY <1>2, <1>3, <1>4, <1>5, <1>6, <1>7, <1>8, <1>10, <1>11, <1>12, <1>13, <1>14,
           <1>15, <1>16, <1>17, <1>18, <1>19, <1>20 DEF Step, Environment, Parent

LEMMA StepKeepsChild ==
    ASSUME ProcessType, StreamInv, ChildInv, Step
    PROVE  ChildInv'
<1>1. ASSUME UNCHANGED <<pc, child, helper, outcome, got, ended, faults>> PROVE ChildInv'
    BY <1>1 DEF ChildInv
<1>2. CASE InputIsRead
    BY <1>1, <1>2 DEF InputIsRead
<1>3. ASSUME NEW s \in Stream, ProcessWrites(s) PROVE ChildInv'
    BY <1>1, <1>3 DEF ProcessWrites
<1>4. CASE ChildMoves
    BY <1>4 DEF ChildMoves, ChildInv, Running, Exit, pipes
<1>5. CASE ChildForks
    <2>1. UNCHANGED <<pc, child, outcome, got, ended, faults>> /\ child \in Running
        BY <1>5 DEF ChildForks, pipes
    <2>2. pc # "spawn"
        BY <2>1 DEF ChildInv, Running
    <2> QED BY <2>1, <2>2 DEF ChildInv
<1>6. CASE HelperMoves
    <2>1. UNCHANGED <<pc, child, outcome, got, ended, faults>>
        BY <1>6 DEF HelperMoves, pipes
    <2> QED BY <1>6, <2>1, HelperLets DEF ChildInv
<1>7. CASE Spawn
    <2>1. \/ pc' = "write" /\ child' = "alive"
          \/ pc' = "ended" /\ outcome' = "spawn_error" /\ child' = "none" /\ helper' = helper
             /\ ~helper.grouped
        BY <1>7 DEF Spawn, End, ChildInv
    <2> QED BY <2>1 DEF ChildInv, InCall, Running, Terminated
<1>8. CASE WriteRequest
    BY <1>1, <1>8 DEF WriteRequest
<1>9. ASSUME NEW how \in Terminated, Fail(how) PROVE ChildInv'
    BY <1>9 DEF ChildInv, InCall, Fail
<1>10. CASE InputBroken
    BY <1>9, <1>10 DEF InputBroken, Terminated
<1>11. CASE CloseInput
    BY <1>11 DEF CloseInput, ChildInv, InCall, pipes
<1>12. ASSUME NEW s \in Stream, Read(s) PROVE ChildInv'
    <2>1. CASE got'[s] > Limit
        BY <1>9, <1>12, <2>1 DEF Read, Terminated
    <2>2. CASE ~(got'[s] > Limit)
        BY <1>12, <2>2 DEF Read, ChildInv, InCall
    <2> QED BY <2>1, <2>2
<1>13. ASSUME NEW s \in Stream, StreamEnds(s) PROVE ChildInv'
    BY <1>13 DEF StreamEnds, ChildInv, InCall
<1>14. CASE AllEnded
    BY <1>14 DEF AllEnded, ChildInv, InCall, pipes
<1>15. CASE Timeout
    BY <1>9, <1>15 DEF Timeout, Terminated
<1>16. CASE Complete
    <2>1. child \in Exit /\ ended = Stream /\ \A s \in Stream : got[s] <= Limit
        BY <1>16 DEF Complete, ChildInv, StreamInv, InCall
    <2>2. /\ pc' = "ended" /\ outcome' = "completed" /\ child' = child /\ ended' = ended
          /\ got' = got /\ child \notin Running
        BY <1>16 DEF Complete, End, pipes
    <2> QED BY <2>1, <2>2 DEF ChildInv, InCall, Terminated
<1>17. CASE Tick
    BY <1>1, <1>17 DEF Tick, pipes
<1>18. CASE Interrupt
    <2>1. faults' > 0 /\ UNCHANGED <<got, ended>>
        BY <1>18 DEF Interrupt, ProcessType, pipes
    <2>2. CASE Unguarded
        <3>1. pc' = "ended" /\ outcome' \in {"spawn_error", "raised"}
            BY <2>2 DEF Unguarded, End
        <3> QED BY <2>1, <3>1 DEF ChildInv, InCall, Terminated
    <2>3. CASE Guarded
        BY <1>9, <2>3 DEF Guarded, Terminated
    <2>4. CASE InTerminate
        <3>1. CASE Fail("interrupted")
            BY <1>9, <3>1 DEF Terminated
        <3>2. CASE End("raised")
            BY <2>1, <3>2 DEF ChildInv, InCall, End, Terminated
        <3> QED BY <2>4, <3>1, <3>2 DEF InTerminate
    <2> QED BY <1>18, <2>2, <2>3, <2>4 DEF Interrupt
<1>19. CASE Select
    BY <1>19 DEF Select, ChildInv, InCall, pipes
\* The kill.
<1>20. CASE Terminate
    <2>1. outcome' \in Terminated /\ pc' = "ended"
        BY <1>20 DEF Terminate, End, ChildInv
    <2>2. child' \notin Running /\ ~(helper'.alive /\ helper'.grouped)
        BY <1>20, KillEnds DEF Terminate
    <2> QED BY <2>1, <2>2 DEF ChildInv, InCall, Terminated
<1> QED BY <1>2, <1>3, <1>4, <1>5, <1>6, <1>7, <1>8, <1>10, <1>11, <1>12, <1>13, <1>14,
           <1>15, <1>16, <1>17, <1>18, <1>19, <1>20 DEF Step, Environment, Parent

-----------------------------------------------------------------------------
(* The steps of the verifier.                                               *)

Verifier == VerifyJob \/ Receipt \/ Abandon \/ TestsExecuted \/ Accept \/ CellMoves \/ Crash

LEMMA RenewStarts ==
    ASSUME ProcessType, NEW to \in {"spawn", "report", "idle"}, Renew(to)
    PROVE  StreamInv' /\ ChildInv'
<1>1. /\ pc' = to /\ child' = "none" /\ ended' = {} /\ outcome' = "none"
      /\ \A s \in Stream : got'[s] = 0 /\ buffer'[s] = 0 /\ written'[s] = 0
    BY DEF Renew
<1>2. ~helper'.grouped
    <2>1. helper \in [alive : BOOLEAN, grouped : BOOLEAN, holds : BOOLEAN]
        BY DEF ProcessType
    <2> QED BY <2>1 DEF Renew
<1>3. StreamInv'
    BY <1>1 DEF StreamInv, InCall
<1>4. ChildInv'
    BY <1>1, <1>2 DEF ChildInv, InCall
<1> QED BY <1>3, <1>4

LEMMA VerifierKeepsCall ==
    ASSUME ProcessType, StreamInv, ChildInv, Verifier
    PROVE  StreamInv' /\ ChildInv'
<1>1. CASE VerifyJob
    BY <1>1, RenewStarts DEF VerifyJob
<1>2. CASE Receipt
    BY <1>2, RenewStarts DEF Receipt
<1>3. CASE Abandon
    BY <1>3, RenewStarts DEF Abandon
<1>4. CASE Crash
    BY <1>4, RenewStarts DEF Crash
<1>5. ASSUME UNCHANGED <<pipes, child, helper, outcome, faults>>,
             pc' = pc \/ (pc \in {"report", "accept"} /\ pc' \in {"accept", "idle"})
      PROVE  StreamInv' /\ ChildInv'
    <2>1. Holders' = Holders
        BY <1>5 DEF Holders
    <2>2. UNCHANGED <<buffer, written, got, ended>>
        BY <1>5 DEF pipes
    <2>3. StreamInv'
        BY <1>5, <2>1, <2>2 DEF StreamInv, InCall
    <2>4. ChildInv'
        BY <1>5, <2>2 DEF ChildInv, InCall
    <2> QED BY <2>3, <2>4
<1>6. CASE TestsExecuted
    BY <1>5, <1>6 DEF TestsExecuted
<1>7. CASE Accept
    BY <1>5, <1>7 DEF Accept
<1>8. CASE CellMoves
    BY <1>5, <1>8 DEF CellMoves, callVars
<1> QED BY <1>1, <1>2, <1>3, <1>4, <1>6, <1>7, <1>8 DEF Verifier

LEMMA StepKeepsReport ==
    ASSUME ReportInv, Step, UNCHANGED plan
    PROVE  ReportInv'
BY StepMoves DEF ReportInv, plan, InCall, AllZero

LEMMA VerifierKeepsReport ==
    ASSUME ProcessType, PlanType, ChildInv, ReportInv, Verifier
    PROVE  ReportInv'
<1>0. /\ ran \in Seq(Seq(Exit)) /\ Len(ran) = attempts /\ attempts \in Nat
      /\ report.attempt \in Nat /\ receipts \in Seq(Exit)
    BY DEF PlanType
<1>1. CASE VerifyJob
    <2>1. /\ attempts' = attempts + 1 /\ receipts' = << >> /\ ran' = Append(ran, << >>)
          /\ pc' = "spawn" /\ report' = report /\ verified' = verified
        BY <1>1 DEF VerifyJob, Renew
    <2>2. ran'[attempts'] = << >>
        BY <1>0, <2>1
    <2>3. \A i \in DOMAIN ran : i \in DOMAIN ran' /\ ran'[i] = ran[i]
        BY <1>0, <2>1
    <2>4. report'.attempt # attempts' /\ report'.attempt <= attempts' /\ attempts' > 0
        BY <1>0, <2>1 DEF ReportInv
    <2>5. Len(receipts') < Commands
        BY <2>1
    <2>6. receipts' = ran'[attempts'] /\ pc' = "spawn"
        BY <2>1, <2>2
    <2>7. report'.passed => report'.attempt \in DOMAIN ran' /\ AllZero(ran'[report'.attempt])
        BY <2>1, <2>3 DEF ReportInv, AllZero
    <2>8. verified' => report'.passed
        BY <2>1 DEF ReportInv
    <2> QED BY <2>4, <2>5, <2>6, <2>7, <2>8 DEF ReportInv, InCall, AllZero
<1>2. CASE Receipt
    <2>1. /\ receipts' = Append(receipts, child) /\ attempts' = attempts
          /\ ran' = [ran EXCEPT ![attempts] = Append(ran[attempts], child)]
          /\ report' = report /\ verified' = verified
          /\ pc = "ended" /\ outcome = "completed"
        BY <1>2 DEF Receipt
    <2>2. /\ attempts > 0 /\ receipts = ran[attempts] /\ report.attempt # attempts
          /\ Len(receipts) < Commands /\ child \in Exit
        BY <2>1 DEF ReportInv, ChildInv
    <2>3. attempts \in DOMAIN ran
        BY <1>0, <2>2
    <2>4. ran'[attempts] = receipts' /\ DOMAIN ran' = DOMAIN ran
        BY <1>0, <2>1, <2>2, <2>3
    <2>5. \A i \in DOMAIN ran : i # attempts => ran'[i] = ran[i]
        BY <1>0, <2>1
    <2>6. Len(receipts') = Len(receipts) + 1 /\ Len(receipts) \in Nat
        BY <1>0, <2>1, <2>2
    <2>7. \/ pc' = "report" /\ Len(receipts') = Commands
          \/ pc' = "spawn" /\ Len(receipts') # Commands
        BY <1>2 DEF Receipt, Renew
    <2>8. pc' = "spawn" => Len(receipts') < Commands
        BY <2>2, <2>6, <2>7
    <2> QED BY <2>1, <2>2, <2>4, <2>5, <2>7, <2>8 DEF ReportInv, InCall, AllZero
<1>3. CASE Abandon
    BY <1>3 DEF Abandon, Renew, ReportInv, InCall, AllZero
<1>4. CASE TestsExecuted
    <2>1. /\ pc = "report" /\ UNCHANGED <<verified, attempts, ran>>
          /\ attempts > 0 /\ receipts = ran[attempts] /\ Len(receipts) = Commands
        BY <1>4 DEF TestsExecuted, ReportInv
    <2>2. CASE report = NoReport
        <3>1. report' = [attempt |-> attempts, passed |-> Passed(receipts)]
            BY <1>4, <2>2 DEF TestsExecuted
        <3>2. ~verified
            BY <2>2 DEF ReportInv, NoReport
        <3>3. pc' = "accept" \/ pc' = "idle"
            BY <1>4 DEF TestsExecuted
        <3>4. pc' = "accept" => Passed(receipts)
            BY <1>4, <2>2 DEF TestsExecuted
        <3>5. ASSUME Passed(receipts) PROVE AllZero(ran[attempts])
            BY <1>0, <2>1, <3>5 DEF Passed, AllZero
        <3>6. attempts \in DOMAIN ran
            BY <1>0, <2>1
        <3>7. report'.attempt = attempts /\ (report'.passed <=> Passed(receipts))
            BY <3>1
        <3> QED BY <1>0, <2>1, <3>2, <3>3, <3>4, <3>5, <3>6, <3>7 DEF ReportInv, InCall, AllZero
    <2>3. CASE report # NoReport
        BY <1>4, <2>1, <2>3 DEF TestsExecuted, ReportInv, InCall, AllZero
    <2> QED BY <2>2, <2>3
<1>5. CASE Accept
    BY <1>5 DEF Accept, ReportInv, InCall, AllZero
<1>6. CASE CellMoves
    BY <1>6 DEF CellMoves, callVars, ReportInv, InCall, AllZero
<1>7. CASE Crash
    BY <1>7 DEF Crash, Renew, ReportInv, InCall, AllZero
<1> QED BY <1>1, <1>2, <1>3, <1>4, <1>5, <1>6, <1>7 DEF Verifier

-----------------------------------------------------------------------------
(* Theorems.                                                                *)

IInv == ProcessType /\ PlanType /\ StreamInv /\ ChildInv /\ ReportInv

LEMMA Initial == Init => IInv
<1> SUFFICES ASSUME Init PROVE IInv
    OBVIOUS
<1>1. ProcessType
    <2>1. /\ buffer \in [Stream -> 0..Pipe] /\ written \in [Stream -> 0..Output]
          /\ got \in [Stream -> 0..Output]
        BY DEF Init, Fresh
    <2>2. helper \in [alive : BOOLEAN, grouped : BOOLEAN, holds : BOOLEAN]
        BY DEF Init, Fresh, NoHelper
    <2>3. unsent \in Nat /\ input \in 0..Pipe /\ faults \in 0..MaxFaults
        BY DEF Init, Fresh
    <2>4. ended \subseteq Stream /\ late \in BOOLEAN
        BY DEF Init, Fresh
    <2>5. pc = "idle" /\ child = "none" /\ outcome = "none"
        BY DEF Init, Fresh
    <2> QED BY <2>1, <2>2, <2>3, <2>4, <2>5 DEF ProcessType
<1>2. PlanType
    <2>1. receipts \in Seq(Exit) /\ ran \in Seq(Seq(Exit)) /\ Len(ran) = attempts
        BY DEF Init
    <2>2. report \in [attempt : 0..MaxAttempts, passed : BOOLEAN]
        <3>1. 0 \in 0..MaxAttempts
            OBVIOUS
        <3> QED BY <3>1 DEF Init, NoReport
    <2>3. verified \in BOOLEAN /\ fits \in BOOLEAN /\ attempts \in 0..MaxAttempts
        <3>1. verified = FALSE /\ fits = TRUE /\ attempts = 0
            BY DEF Init
        <3>2. 0 \in 0..MaxAttempts
            OBVIOUS
        <3> QED BY <3>1, <3>2
    <2> QED BY <2>1, <2>2, <2>3 DEF PlanType
<1>3. StreamInv /\ ChildInv
    BY DEF Init, Fresh, StreamInv, ChildInv, InCall
<1>4. ReportInv
    BY DEF Init, ReportInv, InCall, NoReport, AllZero
<1> QED BY <1>1, <1>2, <1>3, <1>4 DEF IInv

LEMMA NextSteps == Next => (Step /\ UNCHANGED plan) \/ Verifier
BY DEF Next, Step, Verifier, System

LEMMA Inductive == IInv /\ [Next]_vars => IInv'
<1> SUFFICES ASSUME IInv, [Next]_vars PROVE IInv'
    OBVIOUS
<1> USE DEF IInv
<1>1. CASE Step /\ UNCHANGED plan
    <2>1. ProcessType'
        BY <1>1, ProcessKeepsTypes DEF Step
    <2>2. PlanType'
        BY <1>1 DEF plan, PlanType
    <2> QED BY <1>1, <2>1, <2>2, StepKeepsStreams, StepKeepsChild, StepKeepsReport
<1>2. CASE Verifier
    <2>1. ProcessType' /\ PlanType'
        BY <1>2, VerifierKeepsTypes DEF Verifier
    <2> QED BY <1>2, <2>1, VerifierKeepsCall, VerifierKeepsReport
<1>3. CASE UNCHANGED vars
    <2>1. ProcessType' /\ PlanType'
        BY <1>3 DEF vars, callVars, pipes, plan, ProcessType, PlanType
    <2>2. Holders' = Holders
        BY <1>3 DEF vars, callVars, Holders
    <2>3. StreamInv'
        BY <1>3, <2>2 DEF vars, callVars, pipes, StreamInv
    <2>4. ChildInv' /\ ReportInv'
        BY <1>3 DEF vars, callVars, pipes, plan, ChildInv, ReportInv, AllZero
    <2> QED BY <2>1, <2>3, <2>4
<1> QED BY <1>1, <1>2, <1>3, NextSteps

LEMMA AlwaysIInv == Spec => []IInv
BY Initial, Inductive, PTL DEF Spec

(* Every variable of a call, and of the verification around it, keeps its    *)
(* type: the output the parent holds is bounded whatever the child writes.   *)
THEOREM TypeCorrect == Spec => []TypeOK
<1>1. IInv => TypeOK
    BY TypeParts DEF IInv
<1> QED BY <1>1, AlwaysIInv, PTL

(* A completed call has all the output and the child's own exit; one that   *)
(* ends in an error of run_bounded after the start leaves nothing of the     *)
(* child's process group; and a child is left running only by an             *)
(* interruption outside the handlers (run_bounded, terminate).               *)
THEOREM EndsCleanCorrect == Spec => []EndsClean
<1>1. ASSUME IInv PROVE EndsClean
    <2> SUFFICES ASSUME pc = "ended" PROVE EndsClean
        BY DEF EndsClean
    <2>1. \A s \in Stream : got[s] <= Limit + 1 /\ got[s] + buffer[s] = written[s]
        BY <1>1 DEF IInv, StreamInv
    <2>2. CASE outcome = "completed"
        <3>1. ended = Stream /\ child \in Exit /\ \A s \in Stream : got[s] <= Limit
            BY <1>1, <2>2 DEF IInv, ChildInv
        <3>2. \A s \in Stream : buffer[s] = 0 /\ got[s] \in Nat /\ written[s] \in Nat
            BY <1>1, <3>1 DEF IInv, StreamInv, ProcessType
        <3>3. \A s \in Stream : got[s] = written[s]
            BY <2>1, <3>2
        <3>4. got = written
            BY <1>1, <3>3 DEF IInv, ProcessType
        <3> QED BY <2>1, <2>2, <3>1, <3>4 DEF EndsClean, Terminated, Exit, Running
    <2>3. CASE outcome # "completed"
        BY <1>1, <2>1, <2>3 DEF IInv, ChildInv, EndsClean
    <2> QED BY <2>2, <2>3
<1> QED BY <1>1, AlwaysIInv, PTL

(* A job is verified only on an attempt whose every command exited with 0,   *)
(* and the ledger's report is of that attempt (verify_job_with_plan).        *)
THEOREM VerifiedMeansAllPassedCorrect == Spec => []VerifiedMeansAllPassed
<1>1. IInv => VerifiedMeansAllPassed
    BY DEF IInv, ReportInv, VerifiedMeansAllPassed, AllZero
<1> QED BY <1>1, AlwaysIInv, PTL

(* A report that did not verify its job when its call was over never does:   *)
(* no later run of the plan can (verify_job_with_plan).                      *)
THEOREM ReportIsFinalCorrect == Spec => ReportIsFinal
<1> DEFINE Missed == report # NoReport /\ pc # "accept" /\ ~verified
           Over   == report # NoReport /\ pc = "idle" /\ ~verified
<1>1. Over => Missed
    OBVIOUS
<1>2. Missed /\ [Next]_vars => Missed'
    <2> SUFFICES ASSUME Missed, [Next]_vars PROVE Missed'
        OBVIOUS
    <2>1. CASE Step /\ UNCHANGED plan
        BY <2>1, StepMoves DEF plan, InCall
    <2>2. CASE Verifier
        BY <2>2 DEF Verifier, VerifyJob, Receipt, Abandon, TestsExecuted, Accept, CellMoves,
                    Crash, Renew, callVars
    <2>3. CASE UNCHANGED vars
        BY <2>3 DEF vars, callVars, plan
    <2> QED BY <2>1, <2>2, <2>3, NextSteps
<1>3. Missed => ~verified
    OBVIOUS
<1>4. Spec => [](Over => []~verified)
    <2> HIDE DEF Missed, Over
    <2> QED BY <1>1, <1>2, <1>3, PTL DEF Spec
<1> QED BY <1>4 DEF ReportIsFinal
=============================================================================

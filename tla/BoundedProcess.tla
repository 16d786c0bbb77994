---------------------------- MODULE BoundedProcess ----------------------------
(***************************************************************************)
(* run_bounded (loopstrap_core/bounded.py): one subprocess under a deadline*)
(* and an output limit.  The parent writes the request to the child's      *)
(* standard input, then sets the deadline and reads both output streams    *)
(* until every holder has closed them, then waits for the child.           *)
(*                                                                         *)
(* The child is not ours: it may read or not, write on either stream, close*)
(* its pipes, exit at any moment or never, and start a helper that holds on*)
(* to the pipes or closes them, and stays in the child's process group or  *)
(* leaves it (setpgid, setsid); the child leads the session and the group  *)
(* it was started in, and cannot leave.                                    *)
(* A pipe holds Pipe units, a unit being what one os.read takes; a full one*)
(* blocks its writer.                                                      *)
(***************************************************************************)
EXTENDS Integers, Sequences, FiniteSets

CONSTANTS
    Pipe,        \* what a pipe holds
    Limit,       \* max_output_bytes
    Output,      \* bound on what is written to one stream
    Request,     \* the sizes of the requests
    MaxFaults    \* bound on interruptions (and on crashes, in Verification)

ASSUME PipeAssumption == Pipe \in Nat \ {0} /\ Limit \in Nat /\ Output \in Nat
ASSUME RequestAssumption == Request \subseteq Nat /\ Request # {} /\ MaxFaults \in Nat

VARIABLES
    pc,          \* what the call is doing
    unsent,      \* what is left of the request
    input,       \* in the child's standard input pipe
    child,       \* "none", "alive", "silent" (alive, its pipes closed), how
                 \* it exited, or "killed"
    helper,      \* [alive, grouped, holds]: a process the child started, whether
                 \* it is in the child's process group and holds the pipes
    buffer,      \* in each output pipe
    written,     \* history: all that was written to each stream
    got,         \* what the parent has of it: output and errors
    ended,       \* the streams the selector has unregistered
    late,        \* the deadline has passed
    outcome,     \* how the call ended, as in its trace
    faults

pipes == <<unsent, input, buffer, written, got, ended>>
callVars == <<pc, pipes, child, helper, late, outcome, faults>>

Stream == {"stdout", "stderr"}
Exit   == {"zero", "nonzero"}
Running == {"alive", "silent"}

NoHelper == [alive |-> FALSE, grouped |-> FALSE, holds |-> FALSE]

\* A call that has not begun.
Fresh ==
    /\ unsent = 0 /\ input = 0 /\ child = "none" /\ helper = NoHelper
    /\ buffer = [s \in Stream |-> 0] /\ written = [s \in Stream |-> 0]
    /\ got = [s \in Stream |-> 0] /\ ended = {}
    /\ late = FALSE /\ outcome = "none"

-----------------------------------------------------------------------------
(* The child and its helper.                                               *)

\* Who has the other ends of the pipes.
Holders == (IF child = "alive" THEN {"child"} ELSE {})
             \cup (IF helper.alive /\ helper.holds THEN {"helper"} ELSE {})

InputIsRead ==
    /\ Holders # {} /\ input > 0
    /\ input' = input - 1
    /\ UNCHANGED <<pc, unsent, buffer, written, got, ended, child, helper, late, outcome, faults>>

ProcessWrites(s) ==
    /\ Holders # {} /\ buffer[s] < Pipe /\ written[s] < Output
    /\ buffer' = [buffer EXCEPT ![s] = @ + 1]
    /\ written' = [written EXCEPT ![s] = @ + 1]
    /\ UNCHANGED <<pc, unsent, input, got, ended, child, helper, late, outcome, faults>>

ChildMoves ==
    /\ \/ child = "alive" /\ child' = "silent"
       \/ child \in Running /\ child' \in Exit
    /\ UNCHANGED <<pc, pipes, helper, late, outcome, faults>>

ChildForks ==
    /\ child \in Running /\ ~helper.alive
    /\ helper' \in [alive : {TRUE}, grouped : BOOLEAN, holds : {FALSE, child = "alive"}]
    /\ UNCHANGED <<pc, pipes, child, late, outcome, faults>>

HelperMoves ==
    /\ helper.alive
    /\ helper' \in {NoHelper, [helper EXCEPT !.holds = FALSE], [helper EXCEPT !.grouped = FALSE]}
    /\ UNCHANGED <<pc, pipes, child, late, outcome, faults>>

Environment ==
    InputIsRead \/ ChildMoves \/ ChildForks \/ HelperMoves \/ \E s \in Stream : ProcessWrites(s)

-----------------------------------------------------------------------------
(* The parent.                                                             *)

\* os.killpg: SIGKILL to everything in the child's process group.
KillGroup ==
    /\ child' = IF child \in Running THEN "killed" ELSE child
    /\ helper' = IF helper.grouped THEN NoHelper ELSE helper

End(how) == pc' = "ended" /\ outcome' = how

\* The call will end in this exception, when it has terminated the child.
Fail(how) == pc' = "terminate" /\ outcome' = how
Watched == {"HarnessTimeoutError", "HarnessOutputLimitError"}

Terminate ==
    /\ pc = "terminate"
    /\ KillGroup /\ End(outcome)
    /\ UNCHANGED <<pipes, late, faults>>

Spawn ==
    /\ pc = "spawn"
    /\ \/ /\ child' = "alive" /\ pc' = "write"
          /\ unsent' \in Request
          /\ UNCHANGED outcome
       \/ /\ End("spawn_error") /\ UNCHANGED <<child, unsent>>
    /\ UNCHANGED <<input, buffer, written, got, ended, helper, late, faults>>

\* stdin.write blocks while the pipe is full; nothing is read meanwhile and
\* there is no deadline yet.
WriteRequest ==
    /\ pc = "write" /\ unsent > 0 /\ Holders # {} /\ input < Pipe
    /\ unsent' = unsent - 1 /\ input' = input + 1
    /\ UNCHANGED <<pc, buffer, written, got, ended, child, helper, late, outcome, faults>>

\* Nobody is there to read the request.
InputBroken ==
    /\ pc = "write" /\ unsent > 0 /\ Holders = {}
    /\ Fail("input_interrupted")
    /\ UNCHANGED <<pipes, child, helper, late, faults>>

CloseInput ==
    /\ pc = "write" /\ unsent = 0
    /\ pc' = "select"
    /\ UNCHANGED <<pipes, child, helper, late, outcome, faults>>

\* The selector is made and the deadline is set, outside every try.
Select ==
    /\ pc = "select"
    /\ pc' = "read"
    /\ UNCHANGED <<pipes, child, helper, late, outcome, faults>>

\* Time passes, from where the deadline is set.
Tick ==
    /\ pc \in {"read", "wait"} /\ ~late
    /\ late' = TRUE
    /\ UNCHANGED <<pc, pipes, child, helper, outcome, faults>>

Read(s) ==
    /\ pc = "read" /\ ~late /\ buffer[s] > 0
    /\ got' = [got EXCEPT ![s] = @ + 1]
    /\ buffer' = [buffer EXCEPT ![s] = @ - 1]
    /\ IF got'[s] > Limit
         THEN Fail("HarnessOutputLimitError")
         ELSE UNCHANGED <<pc, outcome>>
    /\ UNCHANGED <<unsent, input, written, ended, child, helper, late, faults>>

\* Variant: a stream is done with when the child has exited.
StreamEndsOnExit(s) ==
    /\ pc = "read" /\ ~late /\ s \notin ended /\ child \notin Running
    /\ ended' = ended \cup {s}
    /\ UNCHANGED <<pc, unsent, input, buffer, written, got, child, helper, late, outcome, faults>>
\* A stream ends when it is empty and nobody holds its other end.
StreamEnds(s) ==
    /\ pc = "read" /\ ~late /\ s \notin ended
    /\ buffer[s] = 0 /\ Holders = {}
    /\ ended' = ended \cup {s}
    /\ UNCHANGED <<pc, unsent, input, buffer, written, got, child, helper, late, outcome, faults>>

AllEnded ==
    /\ pc = "read" /\ ended = Stream
    /\ pc' = "wait"
    /\ UNCHANGED <<pipes, child, helper, late, outcome, faults>>

\* Variant: the deadline is for the reading only.
TimeoutReading ==
    /\ pc = "read" /\ late /\ ended # Stream
    /\ Fail("HarnessTimeoutError")
    /\ UNCHANGED <<pipes, child, helper, late, faults>>
Timeout ==
    /\ late
    /\ \/ pc = "read" /\ ended # Stream
       \/ pc = "wait" /\ child \in Running
    /\ Fail("HarnessTimeoutError")
    /\ UNCHANGED <<pipes, child, helper, late, faults>>

Complete ==
    /\ pc = "wait" /\ child \notin Running
    /\ End("completed")
    /\ UNCHANGED <<pipes, child, helper, late, faults>>

\* Any other exception, a KeyboardInterrupt among them, wherever it falls:
\* within Popen when the child is there already, or before the first try;
Unguarded ==
    \/ /\ pc = "spawn" /\ child' = "alive" /\ UNCHANGED helper
       /\ End("spawn_error") \/ End("raised")
\* between the two tries, or after the last;
    \/ pc = "select" /\ End("raised") /\ UNCHANGED <<child, helper>>
    \/ pc = "wait" /\ child \notin Running /\ End("raised") /\ UNCHANGED <<child, helper>>
\* within a try, whose handler terminates the child;
Guarded ==
    /\ \/ pc = "write" /\ Fail("input_interrupted")
       \/ pc \in {"read", "wait"} /\ Fail("interrupted")
    /\ UNCHANGED <<child, helper>>
\* or within terminate, before or after the kill: called in the try, its
\* handler terminates again; called in a handler, the call is over.
InTerminate ==
    /\ pc = "terminate"
    /\ IF outcome \in Watched THEN Fail("interrupted") ELSE End("raised")
    /\ KillGroup \/ UNCHANGED <<child, helper>>

Interrupt ==
    /\ faults < MaxFaults
    /\ faults' = faults + 1
    /\ Unguarded \/ Guarded \/ InTerminate
    /\ UNCHANGED <<pipes, late>>

Parent ==
    \/ Spawn \/ WriteRequest \/ InputBroken \/ CloseInput \/ Select
    \/ (\E s \in Stream : Read(s) \/ StreamEnds(s))
    \/ AllEnded \/ Timeout \/ Complete \/ Terminate
=============================================================================

----------------------------- MODULE EventLedger -----------------------------
(***************************************************************************)
(* The event ledger: loopstrap_core/ledger.py, class EventLedger, as used  *)
(* by several processes that share one file and one flock'ed lock file.    *)
(*                                                                         *)
(* append takes the lock, reads and checks the whole file, and only then   *)
(* writes; the read and the write are separate steps here, so that it is   *)
(* the lock, and not the model, that makes them one.  A write is visible   *)
(* to others while it is in progress (a last line without its newline) and *)
(* a process may die at any step, which releases its lock.                 *)
(*                                                                         *)
(* The hash chain is left out: prev_hash and hash are functions of the     *)
(* records, and seq, which the same checks cover, stands for both.         *)
(***************************************************************************)
EXTENDS Integers, Sequences, FiniteSets

CONSTANTS
    Process,     \* processes with the ledger open
    EventId, Content,
    NoRequest,   \* the request of a process that is not in append
    NoProcess,   \* nobody holds the exclusive lock
    MaxCalls,    \* bound on the calls of append, verify and quarantine
    MaxCrashes   \* bound on the processes that die inside a call

Record  == [seq : Nat, id : EventId, content : Content]
Request == [id : EventId, content : Content]

ASSUME ProcessAssumption == NoProcess \notin Process
ASSUME RequestAssumption == NoRequest \notin Request
ASSUME BoundAssumption   == MaxCalls \in Nat /\ MaxCrashes \in Nat

VARIABLES
    lines,      \* the complete lines of the file
    tail,       \* what follows the last newline: nothing, part of a record, or
                \* (two writers in one line) a line that is not a record
    exclusive,  \* the process holding LOCK_EX
    shared,     \* the processes holding LOCK_SH
    pc, call,   \* where each process is, and its current or last method
    request,    \* the arguments of its append
    seen,       \* what it read from the file
    answer,     \* how its last call ended
    saved,      \* the current partial tail has been copied to a side file
    calls, crashes

file  == <<lines, tail>>
locks == <<exclusive, shared>>
vars  == <<file, locks, pc, call, request, seen, answer, saved, calls, crashes>>

Answer  == {"none", "accepted", "refused", "verified", "quarantined",
            "integrity_error", "died"}

TypeOK ==
    /\ lines \in Seq(Record)
    /\ tail \in {"clean", "partial", "malformed"}
    /\ exclusive \in Process \cup {NoProcess}
    /\ shared \subseteq Process
    /\ pc \in [Process -> {"idle", "lock", "read", "write", "writing", "copied", "unlock"}]
    /\ call \in [Process -> {"none", "append", "verify", "quarantine"}]
    /\ request \in [Process -> Request \cup {NoRequest}]
    /\ seen \in [Process -> Seq(Record)]
    /\ answer \in [Process -> Answer]
    /\ saved \in BOOLEAN
    /\ calls \in 0..MaxCalls
    /\ crashes \in 0..MaxCrashes

Init ==
    /\ lines = << >> /\ tail = "clean"
    /\ exclusive = NoProcess /\ shared = {}
    /\ pc = [p \in Process |-> "idle"]
    /\ call = [p \in Process |-> "none"]
    /\ request = [p \in Process |-> NoRequest]
    /\ seen = [p \in Process |-> << >>]
    /\ answer = [p \in Process |-> "none"]
    /\ saved = FALSE
    /\ calls = 0 /\ crashes = 0

-----------------------------------------------------------------------------
Goto(p, label)  == pc' = [pc EXCEPT ![p] = label]
Answered(p, a)  == answer' = [answer EXCEPT ![p] = a]

Enter(p, method, r) ==
    /\ pc[p] = "idle" /\ calls < MaxCalls
    /\ calls' = calls + 1
    /\ call' = [call EXCEPT ![p] = method]
    /\ request' = [request EXCEPT ![p] = r]
    /\ Answered(p, "none") /\ Goto(p, "lock")
    /\ UNCHANGED <<file, locks, seen, saved, crashes>>

CallAppend(p)     == \E r \in Request : Enter(p, "append", r)
CallVerify(p)     == Enter(p, "verify", NoRequest)
CallQuarantine(p) == Enter(p, "quarantine", NoRequest)

(* Variants with a plausible mistake, one per property: each run shows that *)
(* its property would notice the mistake.  Nothing below uses them.         *)

\* LOCK_SH for every method.
LockShared(p) ==
    /\ pc[p] = "lock" /\ exclusive = NoProcess
    /\ shared' = shared \cup {p} /\ UNCHANGED exclusive
    /\ Goto(p, "read")
    /\ UNCHANGED <<file, call, request, seen, answer, saved, calls, crashes>>
\* verify reads without a lock.
LockToWrite(p) ==
    /\ pc[p] = "lock"
    /\ \/ call[p] = "verify" /\ UNCHANGED locks
       \/ /\ call[p] # "verify" /\ exclusive = NoProcess /\ shared = {}
          /\ exclusive' = p /\ UNCHANGED shared
    /\ Goto(p, "read")
    /\ UNCHANGED <<file, call, request, seen, answer, saved, calls, crashes>>
\* Raising from outside the try block.
ReadFailsLocked(p) ==
    /\ pc[p] = "read" /\ call[p] # "quarantine" /\ tail # "clean"
    /\ Answered(p, "integrity_error") /\ Goto(p, "idle")
    /\ UNCHANGED <<file, locks, call, request, seen, saved, calls, crashes>>
\* An id already there ends the call, whatever it was recorded for.
AppendReadById(p) ==
    /\ pc[p] = "read" /\ call[p] = "append" /\ tail = "clean"
    /\ seen' = [seen EXCEPT ![p] = lines]
    /\ IF \E i \in DOMAIN lines : lines[i].id = request[p].id
         THEN Answered(p, "accepted") /\ Goto(p, "unlock")
         ELSE Goto(p, "write") /\ UNCHANGED answer
    /\ UNCHANGED <<file, locks, call, request, saved, calls, crashes>>
\* The tail is cut off without a copy.
QuarantineUncopied(p) ==
    /\ pc[p] = "read" /\ call[p] = "quarantine" /\ tail = "partial"
    /\ Goto(p, "copied")
    /\ UNCHANGED <<file, locks, call, request, seen, answer, saved, calls, crashes>>

-----------------------------------------------------------------------------
\* flock: LOCK_SH for verify, LOCK_EX for the two methods that write.
Lock(p) ==
    /\ pc[p] = "lock"
    /\ exclusive = NoProcess
    /\ IF call[p] = "verify"
         THEN shared' = shared \cup {p} /\ UNCHANGED exclusive
         ELSE shared = {} /\ exclusive' = p /\ UNCHANGED shared
    /\ Goto(p, "read")
    /\ UNCHANGED <<file, call, request, seen, answer, saved, calls, crashes>>

\* _read_unlocked: it refuses a file with a partial or malformed last line,
\* with sequence numbers that do not count the lines, or with an id twice.
Readable ==
    /\ tail = "clean"
    /\ \A i \in DOMAIN lines : lines[i].seq = i
    /\ \A i, j \in DOMAIN lines : lines[i].id = lines[j].id => i = j

ReadFails(p) ==
    /\ pc[p] = "read" /\ call[p] # "quarantine" /\ ~Readable
    /\ Answered(p, "integrity_error") /\ Goto(p, "unlock")
    /\ UNCHANGED <<file, locks, call, request, seen, saved, calls, crashes>>

VerifyRead(p) ==
    /\ pc[p] = "read" /\ call[p] = "verify" /\ Readable
    /\ seen' = [seen EXCEPT ![p] = lines]
    /\ Answered(p, "verified") /\ Goto(p, "unlock")
    /\ UNCHANGED <<file, locks, call, request, saved, calls, crashes>>

\* An id already in the ledger ends the call: the exact event again is its
\* own retry, anything else under the same id is refused.
AppendRead(p) ==
    /\ pc[p] = "read" /\ call[p] = "append" /\ Readable
    /\ seen' = [seen EXCEPT ![p] = lines]
    /\ LET matching == {i \in DOMAIN lines : lines[i].id = request[p].id} IN
         IF matching = {}
           THEN Goto(p, "write") /\ UNCHANGED answer
           ELSE /\ Goto(p, "unlock")
                /\ IF \A i \in matching : lines[i].content = request[p].content
                     THEN Answered(p, "accepted") ELSE Answered(p, "refused")
    /\ UNCHANGED <<file, locks, call, request, saved, calls, crashes>>

\* The line grows at the end of the file, whoever else is writing there.
StartWrite(p) ==
    /\ pc[p] = "write"
    /\ tail' = IF tail = "clean" THEN "partial" ELSE "malformed"
    /\ saved' = FALSE
    /\ Goto(p, "writing")
    /\ UNCHANGED <<lines, locks, call, request, seen, answer, calls, crashes>>

FinishWrite(p) ==
    /\ pc[p] = "writing"
    /\ IF tail = "partial"
         THEN /\ lines' = Append(lines, [seq |-> Len(seen[p]) + 1,
                                         id |-> request[p].id,
                                         content |-> request[p].content])
              /\ tail' = "clean"
         ELSE UNCHANGED file
    /\ Answered(p, "accepted") /\ Goto(p, "unlock")
    /\ UNCHANGED <<locks, call, request, seen, saved, calls, crashes>>

\* quarantine_partial_tail: the tail is first copied to a file of its own ...
QuarantineCopy(p) ==
    /\ pc[p] = "read" /\ call[p] = "quarantine"
    /\ IF tail = "partial"
         THEN saved' = TRUE /\ Goto(p, "copied") /\ UNCHANGED answer
         ELSE Answered(p, "integrity_error") /\ Goto(p, "unlock") /\ UNCHANGED saved
    /\ UNCHANGED <<file, locks, call, request, seen, calls, crashes>>

\* ... and then cut off the ledger.
QuarantineTruncate(p) ==
    /\ pc[p] = "copied"
    /\ tail' = "clean"
    /\ Answered(p, "quarantined") /\ Goto(p, "unlock")
    /\ UNCHANGED <<lines, locks, call, request, seen, saved, calls, crashes>>

\* The finally blocks: every way out of a method unlocks.
Release(p) ==
    /\ exclusive' = IF exclusive = p THEN NoProcess ELSE exclusive
    /\ shared' = shared \ {p}
    /\ Goto(p, "idle")
    /\ request' = [request EXCEPT ![p] = NoRequest]
    /\ UNCHANGED <<file, call, seen, saved, calls>>

Unlock(p) == pc[p] = "unlock" /\ Release(p) /\ UNCHANGED <<answer, crashes>>

\* The process dies; the kernel drops its lock and a line it was writing
\* stays as it is.
Die(p) ==
    /\ pc[p] # "idle" /\ crashes < MaxCrashes
    /\ crashes' = crashes + 1
    /\ Release(p) /\ Answered(p, "died")

Step(p) ==
    \/ Lock(p) \/ ReadFails(p) \/ VerifyRead(p) \/ AppendRead(p)
    \/ StartWrite(p) \/ FinishWrite(p)
    \/ QuarantineCopy(p) \/ QuarantineTruncate(p) \/ Unlock(p)

Next == \E p \in Process :
    CallAppend(p) \/ CallVerify(p) \/ CallQuarantine(p) \/ Step(p) \/ Die(p)

Spec == Init /\ [][Next]_vars

\* A process in a call keeps running; flock promises no order among waiters.
FairSpec == Spec /\ \A p \in Process : WF_vars(Step(p))

-----------------------------------------------------------------------------
(* Claims EVID-01 and EVID-04: however the calls interleave and whoever     *)
(* dies, the complete lines are numbered 1, 2, ... and no id occurs twice,  *)
(* and two writers never end up in one line, which no call could repair.    *)
OneValidOrder ==
    /\ \A i \in DOMAIN lines : lines[i].seq = i
    /\ \A i, j \in DOMAIN lines : lines[i].id = lines[j].id => i = j
    /\ tail # "malformed"

(* A file that cannot be read is always the mark of a process that died: no *)
(* reader or writer trips over a line somebody is still writing.            *)
NoSpuriousIntegrityError ==
    \A p \in Process :
        answer[p] = "integrity_error" /\ pc[p] = "unlock" /\ call[p] # "quarantine"
            => crashes > 0 /\ tail = "partial"

(* Claim EVID-03: records that were once in the ledger stay, whatever is    *)
(* written, quarantined or left half written, and what a quarantine cuts    *)
(* off has been copied away first.                                          *)
EarlierRecordsStay ==
    [][/\ Len(lines') >= Len(lines) /\ SubSeq(lines', 1, Len(lines)) = lines
       /\ tail = "partial" /\ tail' = "clean" /\ lines' = lines => saved]_vars

(* No lock is leaked on any way out of a call, the ones that raise          *)
(* included: a process that enters a call comes out of it.                  *)
CallsReturn == \A p \in Process : pc[p] # "idle" ~> pc[p] = "idle"

\* The records of the abstract log, and what a call of append has answered:
\* one that raised IntegrityError or died is one that failed.
Entries == [i \in DOMAIN lines |-> [id |-> lines[i].id, content |-> lines[i].content]]
Outcome == [p \in Process |->
              IF pc[p] # "idle" \/ call[p] # "append" THEN "none"
              ELSE IF answer[p] \in {"accepted", "refused"} THEN answer[p] ELSE "failed"]

(* The ledger implements the abstract log, through any interleaving, deaths *)
(* and torn lines included.                                                 *)
Log == INSTANCE IdempotentLog WITH log <- Entries, answer <- Outcome
ImplementsLog == Log!Spec
=============================================================================

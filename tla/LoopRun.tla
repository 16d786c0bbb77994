------------------------------- MODULE LoopRun -------------------------------
(***************************************************************************)
(* An unattended run: LoopDriver (loopstrap_core/driver.py) advancing the  *)
(* cells through LoopstrapSystem (loopstrap_core/system.py).               *)
(*                                                                         *)
(* Every operation of the system changes the state in memory first, then   *)
(* appends an event to the ledger under an idempotency key, and then a     *)
(* checkpoint of the whole memory under a key made from the event's.  The  *)
(* process may die between any two of these; LoopstrapSystem.open then     *)
(* takes the last checkpoint for the state of the run.                     *)
(*                                                                         *)
(* The tree the providers propose is fixed (KidsOf); what they answer in   *)
(* the other phases is an Answer.  The ledger is the sequence of records   *)
(* EventLedger shows it to be, with a torn last line after a crash.  The   *)
(* run starts where LoopDriver.run does: create and create_root are done.  *)
(***************************************************************************)
EXTENDS Integers, Sequences, FiniteSets

CONSTANTS
    CellId,      \* numbers, in the order of the identifiers they stand for
    Root,
    KidsOf,      \* the children a composite pre-review proposes, in order
    Answer,      \* what a provider (or the owner) can say
    FirstAnswer, \* bound: what is said where no event of the step is there yet
    NoAnswer,
    Run,         \* the subject of the events that belong to no cell
    MaxCrashes, MaxRefusals,
    MaxStops,    \* bound on pauses and halts
    MaxNotes,    \* bound on interventions
    MaxLedger    \* the length of ledger from which the owner no longer resumes

ASSUME TreeAssumption ==
    /\ CellId \subseteq Nat /\ Root \in CellId /\ Run \notin CellId
    /\ KidsOf \in [CellId -> Seq(CellId)]
ASSUME AnswerAssumption == NoAnswer \notin Answer /\ FirstAnswer \subseteq Answer
ASSUME LimitAssumption ==
    /\ MaxCrashes \in Nat /\ MaxRefusals \in Nat /\ MaxNotes \in Nat
    /\ MaxStops \in Nat /\ MaxLedger \in Nat

VARIABLES
    mem,       \* the LoopstrapSystem object: graph, run_status, interventions
    ledger,    \* the complete records of events.jsonl
    torn,      \* events.jsonl ends in part of a record
    up,        \* the process is running
    todo,      \* operations the current call still has to make
    emit,      \* events the current operation still has to append
    half,      \* the first of them is appended, its checkpoint is not
    refused,   \* the last park was caused by the provider's answer
    disowned,  \* history: the operations whose event the ledger has refused
    crashes, refusals, stops

vars == <<mem, ledger, torn, up, todo, emit, half, refused, disowned,
          crashes, refusals, stops>>
\* Bound: a run has crashes in it, or refusals, pauses and halts, but not both.
MayCrash == crashes < MaxCrashes /\ refusals = 0 /\ stops = 0
MayRefuse == refusals < MaxRefusals /\ crashes = 0
MayStop == stops < MaxStops /\ crashes = 0

Phase == {"absent", "contract", "tests", "plan", "pre_review", "children",
          "implementation", "integration", "post_review", "closed"}

\* The operations on a cell, and the lifecycle edge each one takes.
From == [accept_contract |-> "contract", freeze_tests |-> "tests",
         record_plan |-> "plan", record_pre_review |-> "pre_review",
         decompose |-> "children", begin_integration |-> "children",
         record_verification |-> "implementation",
         record_integration |-> "integration",
         record_post_review |-> "post_review", close |-> "post_review"]
To(name, c) ==
    IF name = "record_pre_review"
      THEN IF KidsOf[c] = << >> THEN "implementation" ELSE "children"
      ELSE [accept_contract |-> "tests", freeze_tests |-> "plan",
            record_plan |-> "pre_review", decompose |-> "children",
            begin_integration |-> "integration",
            record_verification |-> "post_review",
            record_integration |-> "post_review",
            record_post_review |-> "post_review", close |-> "closed"][name]
CellOp == DOMAIN From

\* The operations on the run, and the status each one sets.
StatusAfter == [park |-> "parked", pause |-> "paused", halt |-> "halted",
                resume |-> "active"]
RunOp  == (DOMAIN StatusAfter) \cup {"record_intervention", "quarantine"}
Status == {"active", "parked", "paused", "halted"}

Op(name, subject, answer) == [name |-> name, subject |-> subject, answer |-> answer]
Park == Op("park", Run, NoAnswer)

Kids(m, c) == {m.kids[c][i] : i \in DOMAIN m.kids[c]}

Init ==
    LET start == [phase |-> [c \in CellId |-> IF c = Root THEN "contract" ELSE "absent"],
                  rev |-> [c \in CellId |-> IF c = Root THEN 1 ELSE 0],
                  depth |-> [c \in CellId |-> 0],
                  kids |-> [c \in CellId |-> << >>],
                  decided |-> [c \in CellId |-> [n \in CellOp |-> NoAnswer]],
                  length |-> 1, status |-> "active", notes |-> << >>]
        key == [op |-> "created", subject |-> Root, at |-> 1]
    IN  /\ mem = start
        /\ ledger = <<[type |-> "event", key |-> key, body |-> NoAnswer],
                      [type |-> "checkpoint", key |-> key, body |-> start]>>
        /\ torn = FALSE /\ up = TRUE
        /\ todo = << >> /\ emit = << >> /\ half = FALSE /\ refused = FALSE
        /\ disowned = {} /\ crashes = 0 /\ refusals = 0 /\ stops = 0

-----------------------------------------------------------------------------
(* One operation: what it changes in memory, and the events it appends.    *)

\* The checks an operation makes before it changes anything.
Allowed(m, o) ==
    IF o.name \in CellOp
      THEN /\ m.status = "active"
           /\ m.phase[o.subject] = From[o.name]
           /\ o.name = "decompose" =>
                \A i \in DOMAIN KidsOf[o.subject] :
                    m.phase[KidsOf[o.subject][i]] = "absent"
           /\ o.name = "begin_integration" =>
                \A k \in Kids(m, o.subject) : m.phase[k] = "closed"
           /\ o.name = "close" =>
                m.decided[o.subject]["record_post_review"] # NoAnswer
      ELSE /\ o.name \in {"park", "pause"} => m.status = "active"
           /\ o.name = "halt" => m.status # "halted"
           /\ o.name = "resume" => m.status \in {"paused", "parked"} /\ m.notes # << >>

\* graph.events grows with every operation on the graph, and is part of the
\* checkpoint.  record_post_review alone leaves the revision as it is.
CellEffect(m, o) ==
    LET c == o.subject
        new == IF o.name # "decompose" THEN {}
               ELSE {KidsOf[c][i] : i \in DOMAIN KidsOf[c]}
    IN  [m EXCEPT
          !.phase = [k \in CellId |-> IF k \in new THEN "contract"
                                      ELSE IF k = c THEN To(o.name, c) ELSE @[k]],
          !.rev = [k \in CellId |->
                     IF k \in new THEN 1
                     ELSE IF k = c /\ o.name # "record_post_review" THEN @[k] + 1
                     ELSE @[k]],
          !.depth = [k \in CellId |-> IF k \in new THEN @[c] + 1 ELSE @[k]],
          !.kids[c] = IF o.name = "decompose" THEN KidsOf[c] ELSE @,
          !.decided[c][o.name] = o.answer,
          !.length = @ + 1]

Effect(m, o) ==
    IF o.name \in CellOp THEN CellEffect(m, o)
    ELSE IF o.name = "record_intervention" THEN [m EXCEPT !.notes = Append(@, o.answer)]
    ELSE IF o.name \in DOMAIN StatusAfter THEN [m EXCEPT !.status = StatusAfter[o.name]]
    ELSE m

\* The stable keys: a cell's events are numbered by its revision, a run's by
\* the length of the ledger, an intervention's by how many there are.
RunKeyFixed(m, o) == 0   \* a variant: one key for every park, resume, ...
RunKeyNumber(m, o) ==
    IF o.name = "record_intervention" THEN Len(m.notes)
    ELSE IF o.name = "quarantine" THEN crashes
    ELSE Len(ledger)

Event(op, subject, at, answer) ==
    [key |-> [op |-> op, subject |-> subject, at |-> at], body |-> answer]

\* m is the memory after the operation.
Events(m, o) ==
    IF o.name \in RunOp
      THEN << Event(o.name, Run, RunKeyNumber(m, o), o.answer) >>
      ELSE (IF o.name # "decompose" THEN << >>
            ELSE [i \in DOMAIN KidsOf[o.subject] |->
                    Event("created", KidsOf[o.subject][i], 1, NoAnswer)])
           \o << Event(o.name, o.subject, m.rev[o.subject], o.answer) >>

-----------------------------------------------------------------------------
(* Executing the operations of a call, step by step.                       *)

Idle == up /\ todo = << >> /\ emit = << >>

\* An exception in the driver is caught, and the driver parks the run; the
\* owner's calls raise it to the owner.
Abandon(name, answer) ==
    /\ todo' = IF name \in CellOp THEN << Park >> ELSE << >>
    /\ emit' = << >> /\ half' = FALSE
    /\ refused' = IF name \in CellOp THEN answer ELSE refused

Perform ==
    /\ up /\ todo # << >> /\ emit = << >>
    /\ LET o == Head(todo) IN
         IF Allowed(mem, o)
           THEN /\ mem' = Effect(mem, o)
                /\ emit' = Events(mem', o)
                /\ todo' = Tail(todo)
                /\ UNCHANGED <<half, refused>>
           ELSE Abandon(o.name, FALSE) /\ UNCHANGED mem
    /\ UNCHANGED <<ledger, torn, up, crashes, refusals, stops, disowned>>

\* The records of the ledger under a key (EventLedger: at most one).
Under(type, key) ==
    {i \in DOMAIN ledger : ledger[i].type = type /\ ledger[i].key = key}

\* A variant: the exact record again is refused like any other.
PutOnce(type, key, body, done) ==
    \/ /\ Under(type, key) = {}
       /\ ledger' = Append(ledger, [type |-> type, key |-> key, body |-> body])
       /\ done
    \/ /\ Under(type, key) # {}
       /\ UNCHANGED ledger
       /\ Abandon(IF key.op = "created" THEN "decompose" ELSE key.op, FALSE)
\* EventLedger.append: new, the exact record again, or IdempotencyError, which
\* for an event means that the answer is not the one the ledger has.
Put(type, key, body, done) ==
    LET same == Under(type, key) IN
    \/ /\ same = {}
       /\ ledger' = Append(ledger, [type |-> type, key |-> key, body |-> body])
       /\ done
    \/ /\ same # {} /\ \A i \in same : ledger[i].body = body
       /\ UNCHANGED ledger /\ done
    \/ /\ \E i \in same : ledger[i].body # body
       /\ UNCHANGED ledger
       /\ Abandon(IF key.op = "created" THEN "decompose" ELSE key.op, type = "event")

\* A variant: the event is left in a buffer.
AppendEventBuffered ==
    /\ up /\ emit # << >> /\ ~half
    /\ half' = TRUE
    /\ UNCHANGED <<mem, ledger, torn, up, todo, emit, refused, crashes, refusals, stops, disowned>>
Denied(key, body) == \E i \in Under("event", key) : ledger[i].body # body
AppendEvent ==
    /\ up /\ emit # << >> /\ ~half
    /\ disowned' = IF Denied(Head(emit).key, Head(emit).body)
                     THEN disowned \cup {<<Head(emit).key.op, Head(emit).key.subject>>}
                     ELSE disowned
    /\ Put("event", Head(emit).key, Head(emit).body,
           half' = TRUE /\ UNCHANGED <<todo, emit, refused>>)
    /\ UNCHANGED <<mem, torn, up, crashes, refusals, stops>>

AppendCheckpoint ==
    /\ up /\ half
    /\ Put("checkpoint", Head(emit).key, mem,
           half' = FALSE /\ emit' = Tail(emit) /\ UNCHANGED <<todo, refused>>)
    /\ UNCHANGED <<mem, torn, up, crashes, refusals, stops, disowned>>

\* The process dies, possibly in the middle of a line of the ledger.
Crash ==
    /\ up /\ MayCrash
    /\ up' = FALSE /\ crashes' = crashes + 1
    /\ torn' \in IF emit = << >> THEN {FALSE} ELSE BOOLEAN
    /\ todo' = << >> /\ emit' = << >> /\ half' = FALSE
    /\ UNCHANGED <<mem, ledger, refused, refusals, stops, disowned>>

LastCheckpoint ==
    LET IsCheckpoint(i) == ledger[i].type = "checkpoint"
        last == CHOOSE i \in DOMAIN ledger :
                    IsCheckpoint(i) /\ \A j \in (i + 1)..Len(ledger) : ~IsCheckpoint(j)
    IN  ledger[last].body

\* A torn tail is quarantined first, which is itself an event of the run.
Open ==
    /\ ~up
    /\ up' = TRUE /\ torn' = FALSE
    /\ mem' = LastCheckpoint
    /\ emit' = IF torn THEN Events(mem', Op("quarantine", Run, NoAnswer)) ELSE << >>
    /\ UNCHANGED <<ledger, todo, half, refused, crashes, refusals, stops, disowned>>

-----------------------------------------------------------------------------
(* LoopDriver.run, and the owner's calls while it is not running.          *)

\* A variant: a cell that has children is left to them.
WaitingForEver(c) == mem.phase[c] = "children" /\ mem.kids[c] # << >>
Waiting(c) ==
    /\ mem.phase[c] = "children" /\ mem.kids[c] # << >>
    /\ \E k \in Kids(mem, c) : mem.phase[k] # "closed"

Runnable == {c \in CellId : mem.phase[c] \notin {"absent", "closed"} /\ ~Waiting(c)}

\* _next: the first of the deepest cells there is something to do for.
IsNext(c) ==
    /\ c \in Runnable
    /\ \A k \in Runnable \ {c} :
          \/ mem.depth[k] < mem.depth[c]
          \/ mem.depth[k] = mem.depth[c] /\ c < k

\* _apply: the operations one result of the provider leads to.
Operations(c, a) ==
    LET op(name) == Op(name, c, a)
        plain(name) == Op(name, c, NoAnswer)
    IN  IF mem.phase[c] = "pre_review" /\ KidsOf[c] # << >>
          THEN << op("record_pre_review"), plain("decompose") >>
          ELSE [contract       |-> << plain("accept_contract") >>,
                tests          |-> << op("freeze_tests") >>,
                plan           |-> << op("record_plan") >>,
                pre_review     |-> << op("record_pre_review") >>,
                children       |-> << plain("begin_integration") >>,
                implementation |-> << op("record_verification") >>,
                integration    |-> << op("record_integration") >>,
                post_review    |-> << op("record_post_review"), plain("close") >>
               ][mem.phase[c]]

\* Bound: answers are compared with what the ledger has under the same key and
\* nowhere else, so a second one is of interest only where an event is there.
IsAgain(name, subject) ==
    \E i \in DOMAIN ledger : /\ ledger[i].type = "event" /\ ledger[i].key.op = name
                             /\ ledger[i].key.subject = subject

Driving == Idle /\ mem.status = "active" /\ mem.phase[Root] # "closed"

Advance ==
    /\ Driving
    /\ \E c \in CellId, a \in Answer :
         /\ IsNext(c)
         /\ ~(mem.phase[c] = "children" /\ mem.kids[c] = << >>)
         /\ a \in FirstAnswer \/ IsAgain(Head(Operations(c, a)).name, c)
         /\ todo' = Operations(c, a)
    /\ UNCHANGED <<mem, ledger, torn, up, emit, half, refused, crashes, refusals, stops, disowned>>

\* A composite without children is an error of the driver's.
ParkUndecomposed ==
    /\ Driving
    /\ \E c \in CellId :
         IsNext(c) /\ mem.phase[c] = "children" /\ mem.kids[c] = << >>
    /\ todo' = << Park >> /\ refused' = FALSE
    /\ UNCHANGED <<mem, ledger, torn, up, emit, half, crashes, refusals, stops, disowned>>

\* The provider's result is missing or malformed.
ParkRefused ==
    /\ Driving /\ MayRefuse
    /\ \E c \in CellId : IsNext(c) /\ mem.phase[c] # "children"
    /\ refusals' = refusals + 1
    /\ todo' = << Park >> /\ refused' = TRUE
    /\ UNCHANGED <<mem, ledger, torn, up, emit, half, crashes, stops, disowned>>

Stop ==
    /\ Idle /\ MayStop
    /\ stops' = stops + 1
    /\ \E name \in {"pause", "halt"} :
         /\ Allowed(mem, Op(name, Run, NoAnswer))
         /\ todo' = << Op(name, Run, NoAnswer) >>
    /\ UNCHANGED <<mem, ledger, torn, up, emit, half, refused, crashes, refusals, disowned>>

\* The owner authorizes going on (action "continue") ...
Intervene ==
    /\ Idle /\ Len(mem.notes) < MaxNotes
    /\ \E a \in Answer :
         /\ a \in FirstAnswer \/ IsAgain("record_intervention", Run)
         /\ todo' = << Op("record_intervention", Run, a) >>
    /\ UNCHANGED <<mem, ledger, torn, up, emit, half, refused, crashes, refusals, stops, disowned>>

\* ... and resumes a run that is parked or paused.
Resume ==
    /\ Idle /\ Len(ledger) < MaxLedger
    /\ Allowed(mem, Op("resume", Run, NoAnswer))
    /\ todo' = << Op("resume", Run, NoAnswer) >>
    /\ UNCHANGED <<mem, ledger, torn, up, emit, half, refused, crashes, refusals, stops, disowned>>

Execute == Perform \/ AppendEvent \/ AppendCheckpoint
Driver  == Advance \/ ParkUndecomposed \/ ParkRefused
Owner   == Stop \/ Intervene \/ Resume

Next == Execute \/ Driver \/ Owner \/ Crash \/ Open

Spec == Init /\ [][Next]_vars

\* The process runs, the providers answer, and the operator reopens, allows
\* and resumes a run that waits for it.
FairSpec ==
    /\ Spec
    /\ WF_vars(Execute) /\ WF_vars(Advance \/ ParkUndecomposed)
    /\ WF_vars(Intervene) /\ WF_vars(Resume) /\ WF_vars(Open)

-----------------------------------------------------------------------------
(* The variables keep their types: the two kinds of ledger record, and the  *)
(* memory as the object open rebuilds.                                      *)
Memory == [phase : [CellId -> Phase], rev : [CellId -> Nat],
           depth : [CellId -> Nat], kids : [CellId -> Seq(CellId)],
           decided : [CellId -> [CellOp -> Answer \cup {NoAnswer}]],
           length : Nat, status : Status, notes : Seq(Answer)]
Key == [op : CellOp \cup RunOp \cup {"created"}, subject : CellId \cup {Run}, at : Nat]
TypeOK ==
    /\ mem \in Memory
    /\ \A i \in DOMAIN ledger :
          /\ ledger[i].key \in Key
          /\ \/ ledger[i].type = "event" /\ ledger[i].body \in Answer \cup {NoAnswer}
             \/ ledger[i].type = "checkpoint" /\ ledger[i].body \in Memory
    /\ \A i \in DOMAIN todo : todo[i] \in
          [name : CellOp \cup RunOp, subject : CellId \cup {Run}, answer : Answer \cup {NoAnswer}]
    /\ \A i \in DOMAIN emit : emit[i] \in [key : Key, body : Answer \cup {NoAnswer}]
    /\ torn \in BOOLEAN /\ up \in BOOLEAN /\ refused \in BOOLEAN
    /\ half \in BOOLEAN /\ (half => emit # << >>)
    /\ disowned \subseteq (CellOp \cup RunOp \cup {"created"}) \X (CellId \cup {Run})
    /\ crashes \in 0..MaxCrashes /\ refusals \in 0..MaxRefusals /\ stops \in 0..MaxStops

(* What a recovered run is.  Between two calls nothing is only in memory, so*)
(* a crash there, or a second one after a recovery, loses nothing (claim    *)
(* READY-RECOVERY-01): redoing a step whose event is there does not skip its*)
(* checkpoint, and a checkpoint that is there already is the last one.  And *)
(* every decision a checkpoint carries is the one the ledger's own event    *)
(* records: no crash, recovery and repeated answer puts a decision into the *)
(* recovered state that the event history denies.  There is one way to do   *)
(* that, and it takes a crash: a step interrupted between its event and its *)
(* checkpoint is answered differently when it is done again.  The ledger    *)
(* refuses the second event, but the memory has the second answer, and the  *)
(* park that follows writes it into a checkpoint (system.py:631); a note of *)
(* the owner's stays in memory until the next one.  disowned names those    *)
(* operations, and no other decision is denied by the ledger.               *)
DurableWhenIdle ==
    Idle => \/ LastCheckpoint = mem
            \/ /\ <<"record_intervention", Run>> \in disowned
               /\ LastCheckpoint = [mem EXCEPT !.notes = LastCheckpoint.notes]
LedgerExplainsCheckpoint ==
  /\ DurableWhenIdle
  /\ crashes = 0 => disowned = {}
  /\ LET decided == LastCheckpoint.decided IN
     \A c \in CellId, n \in CellOp :
        decided[c][n] # NoAnswer /\ <<n, c>> \notin disowned =>
            \E i \in DOMAIN ledger :
                /\ ledger[i].type = "event" /\ ledger[i].body = decided[c][n]
                /\ ledger[i].key.op = n /\ ledger[i].key.subject = c

\* StateReducer.replay: the run status the events alone give
ReplayedStatus ==
    LET at == {i \in DOMAIN ledger : /\ ledger[i].type = "event"
                                     /\ ledger[i].key.op \in DOMAIN StatusAfter}
        last == CHOOSE i \in at : \A j \in at : j <= i
    IN  IF at = {} THEN "active" ELSE StatusAfter[ledger[last].key.op]

(* Claim READY-RECOVERY-04, "pause, halt ... are explicit replayable run    *)
(* states": between calls the run is in the status its events say it is in. *)
(* A crash between such an event and its checkpoint breaks it.              *)
ReplayAgrees == Idle /\ crashes = 0 => ReplayedStatus = mem.status

(* The two states between the operations of one result that the driver      *)
(* cannot go on from when it finds them after a crash.                      *)
HalfDone(m, c) ==
    \/ m.phase[c] = "children" /\ m.kids[c] = << >>
    \/ m.phase[c] = "post_review" /\ m.decided[c]["record_post_review"] # NoAnswer

(* The driver parks a run only over a missing or malformed result (claim    *)
(* READY-DRIVER-03) or one that differs from what the ledger already has of *)
(* the same step: no other event key of its own operations ever collides,   *)
(* no cell gets into a phase it cannot go on from, and a crash is made good *)
(* by doing the same step again.  The one exception is a crash between the  *)
(* two operations of one result.                                            *)
EveryOtherCrashIsHarmless ==
    mem.status = "parked" => refused \/ (crashes > 0 /\ \E c \in CellId : HalfDone(mem, c))

(* Claim READY-DRIVER-01: the driver advances the children and integrates   *)
(* them into the root until it is closed, over refusals, pauses and crashes,*)
(* as long as the owner reopens and resumes the run and does not halt it.   *)
(* Only the crash between two operations of one result keeps it from that.  *)
Completes ==
    <>(\/ mem.phase[Root] = "closed" \/ mem.status = "halted"
       \/ crashes > 0 /\ mem.status = "parked" /\ \E c \in CellId : HalfDone(mem, c))
=============================================================================

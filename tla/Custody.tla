------------------------------- MODULE Custody -------------------------------
(***************************************************************************)
(* Evidence, acceptance and the bytes they rest on: record_evidence,       *)
(* evaluate_acceptance and require_acceptance of LoopstrapSystem           *)
(* (loopstrap_core/system.py), AcceptanceEngine and RawExecutionCustodian  *)
(* (evidence.py), ArtifactStore (artifacts.py) and SnapshotStore.capture   *)
(* (workspace.py).                                                         *)
(*                                                                         *)
(* An artifact is written in place under the digest of its bytes, so it is *)
(* named here by its content: a raw execution, an evidence record or an    *)
(* acceptance record.  An operation writes the artifact, changes the       *)
(* memory, appends its event and appends a checkpoint; the process may die *)
(* between any two, and opens again with the memory of the last            *)
(* checkpoint.  The operations on the work graph matter here through the   *)
(* cells' revisions and their verified claims only (see RunGraph).         *)
(***************************************************************************)
EXTENDS Integers, FiniteSets

CONSTANTS
    Cell, Root, Composite,   \* cells, and the composites of the contract graph
    Raw,                     \* raw executions the custodian retains
    Tree,                    \* snapshots evidence refers to
    Template,                \* evidence records, but for their cell revision
    Request,                 \* [id, obligations, findings]: acceptance requests
    Specification,           \* the digest the run is bound to
    MaxRevision, MaxFaults   \* bounds

ASSUME CellInGraph == Root \in Cell
ASSUME TemplateAssumption == \A r \in Template : {"id", "rev"} \subseteq DOMAIN r
ASSUME CustodyLimits == MaxRevision \in Nat \ {0} /\ MaxFaults \in Nat

VARIABLES
    mem,          \* the LoopstrapSystem object
    checkpoint,   \* the state in the last checkpoint of the ledger
    events,       \* [key, body]: the events of the ledger
    saved,        \* the keys of its checkpoints
    whole,        \* artifacts whose bytes have their digest
    partial,      \* artifacts that have less
    captured,     \* snapshots in the store
    drifted,      \* those whose tree is not the one in their manifest
    pc, call,     \* the call being executed
    disowned,     \* keys of events the ledger refused
    faults

store == <<whole, partial, captured, drifted>>
log   == <<checkpoint, events, saved>>
vars  == <<mem, log, store, pc, call, disowned, faults>>

NoCall == [kind |-> "none", key |-> "none", body |-> "none"]

\* The ids of the records in memory, and the record under an id.
Ids(S) == {x.id : x \in S}
Put(S, x) == {y \in S : y.id # x.id} \cup {x}

\* What the artifacts can hold.
Result == UNION {[id : {q.id}, accepted : BOOLEAN, satisfied : SUBSET Ids(q.obligations),
                  unsatisfied : SUBSET Ids(q.obligations), qualifying : SUBSET Ids(Template),
                  unresolved : SUBSET (Cell \cup q.findings)] : q \in Request}
Evidence == {[r EXCEPT !.rev = n] : r \in Template, n \in 1..MaxRevision}
Content == Raw \cup Result \cup Evidence

Init ==
    /\ mem = [rev |-> [c \in Cell |-> 1], blocking |-> {}, evidence |-> {}, acceptance |-> {}]
    /\ checkpoint = mem /\ events = {} /\ saved = {}
    /\ whole = {} /\ partial = {} /\ captured = {} /\ drifted = {}
    /\ pc = "idle" /\ call = NoCall /\ disowned = {} /\ faults = 0

Fault == faults < MaxFaults /\ faults' = faults + 1

-----------------------------------------------------------------------------
(* Operations on the work graph, each an event and a checkpoint of its own.*)

Graph(m) ==
    /\ pc = "idle"
    /\ mem' = m /\ checkpoint' = m
    /\ UNCHANGED <<events, saved, store, pc, call, disowned, faults>>

Revise(c) == mem.rev[c] < MaxRevision /\ Graph([mem EXCEPT !.rev[c] = @ + 1])
Verify(c)  == c \notin mem.blocking /\ Graph([mem EXCEPT !.blocking = @ \cup {c}])
Resolve(c) == c \in mem.blocking /\ Graph([mem EXCEPT !.blocking = @ \ {c}])

-----------------------------------------------------------------------------
(* The stores.                                                             *)

\* ArtifactStore.get_bytes and SnapshotStore.verify succeed.
Retrievable(x) == x \in whole
Intact(t) == t \in captured \ drifted

\* put_bytes: what is there must be the same bytes; else the file is created
\* under its name, empty, and then written.
Start(kind, key, body) ==
    /\ call' = [kind |-> kind, key |-> key, body |-> body]
    /\ pc' = "put"

\* Variant: what is there is taken for what it should be.
PutTrusting ==
    /\ pc = "put"
    /\ IF call.body \in whole \cup partial
         THEN pc' = "record" /\ UNCHANGED <<partial, call>>
         ELSE partial' = partial \cup {call.body} /\ pc' = "write" /\ UNCHANGED call
    /\ UNCHANGED <<mem, log, whole, captured, drifted, disowned, faults>>
PutBytes ==
    /\ pc = "put"
    /\ \/ call.body \in whole /\ pc' = "record" /\ UNCHANGED <<partial, call>>
       \/ call.body \in partial /\ pc' = "idle" /\ call' = NoCall /\ UNCHANGED partial
       \/ /\ call.body \notin whole \cup partial
          /\ partial' = partial \cup {call.body} /\ pc' = "write" /\ UNCHANGED call
    /\ UNCHANGED <<mem, log, whole, captured, drifted, disowned, faults>>

WriteBytes ==
    /\ pc = "write"
    /\ partial' = partial \ {call.body} /\ whole' = whole \cup {call.body}
    /\ pc' = "record"
    /\ UNCHANGED <<mem, log, captured, drifted, call, disowned, faults>>

\* RawExecutionCustodian.retain: the artifact is all there is to it.
Retain(x) ==
    /\ pc = "idle" /\ x \notin whole
    /\ Start("raw", "none", x)
    /\ UNCHANGED <<mem, log, store, disowned, faults>>

\* SnapshotStore.capture builds the tree beside its place and renames it; the
\* inventory is taken before the copy, and the source may change in between.
CaptureTree(t) ==
    /\ pc = "idle" /\ t \notin captured
    /\ captured' = captured \cup {t}
    /\ \/ UNCHANGED <<drifted, faults>>
       \/ drifted' = drifted \cup {t} /\ Fault
    /\ UNCHANGED <<mem, log, whole, partial, pc, call, disowned>>

-----------------------------------------------------------------------------
(* record_evidence.                                                        *)

ScopeKnown(r) ==
    \/ r.scope.kind = "cell" /\ r.scope.of = r.cell
    \/ r.scope.kind = "composite" /\ r.scope.of \in Composite
    \/ r.scope.kind = "root" /\ r.scope.of = Root

\* The checks of record_evidence, in memory and in the stores.
Admits(r) ==
    /\ r.specification = Specification
    /\ r.rev = mem.rev[r.cell]
    /\ ScopeKnown(r)
    /\ Retrievable(r.execution)
    /\ \A t \in r.artifacts : Retrievable(t) \/ Intact(t)
    /\ \A e \in mem.evidence : e.id = r.id => e = r

RecordEvidence(r) ==
    /\ pc = "idle" /\ Admits(r)
    /\ Start("evidence", <<"evidence.recorded", r.id>>, r)
    /\ UNCHANGED <<mem, log, store, disowned, faults>>

-----------------------------------------------------------------------------
(* evaluate_acceptance.                                                    *)

\* Variant: evidence of any revision.
QualifiesStale(e, o, rev) ==
    /\ e.specification = Specification /\ e.scope = o.scope
    /\ o.id \in e.obligations /\ e.class \in o.classes /\ e.findings = {}
    /\ o.independent => e.producer \notin e.subjects
\* AcceptanceEngine._qualifies
Qualifies(e, o, rev) ==
    /\ e.specification = Specification
    /\ e.scope = o.scope
    /\ o.id \in e.obligations
    /\ e.class \in o.classes
    /\ rev[e.cell] = e.rev
    /\ e.findings = {}
    /\ o.independent => e.producer \notin e.subjects

Evaluate(m, q) ==
    LET matches(o) == {e \in m.evidence : Qualifies(e, o, m.rev)}
        met == {o \in q.obligations : Cardinality(matches(o)) >= o.minimum}
    IN  [id |-> q.id,
         accepted |-> met = q.obligations /\ m.blocking \cup q.findings = {},
         satisfied |-> Ids(met), unsatisfied |-> Ids(q.obligations \ met),
         qualifying |-> Ids(UNION {matches(o) : o \in met}),
         unresolved |-> m.blocking \cup q.findings]

EvaluateAcceptance(q) ==
    LET result == Evaluate(mem, q) IN
    /\ pc = "idle" /\ q.obligations # {}
    /\ Cardinality(Ids(q.obligations)) = Cardinality(q.obligations)
    /\ \A a \in mem.acceptance : a.id = q.id => a = result
    /\ Start("acceptance", <<"acceptance.evaluated", q.id>>, result)
    /\ UNCHANGED <<mem, log, store, disowned, faults>>

\* require_acceptance returns the record.
Required(a) == a \in mem.acceptance /\ a.accepted

-----------------------------------------------------------------------------
(* Memory, event and checkpoint.                                           *)

Remembered(c) ==
    IF c.kind = "evidence" THEN [mem EXCEPT !.evidence = Put(@, c.body)]
    ELSE [mem EXCEPT !.acceptance = Put(@, c.body)]

Return == pc' = "idle" /\ call' = NoCall

ReturnRaw ==
    /\ pc = "record" /\ call.kind = "raw" /\ Return
    /\ UNCHANGED <<mem, log, store, disowned, faults>>

Row == [key |-> call.key, body |-> call.body]

\* A variant: an event that is there already is left as it is.
AppendEventIgnoring ==
    /\ pc = "record" /\ call.kind # "raw"
    /\ mem' = Remembered(call)
    /\ events' = IF \E e \in events : e.key = call.key THEN events ELSE events \cup {Row}
    /\ pc' = "checkpoint"
    /\ UNCHANGED <<checkpoint, saved, store, call, disowned, faults>>
\* The memory changes first; then _append offers the event to the ledger,
\* which refuses another content under the same key and takes the same again.
AppendEvent ==
    /\ pc = "record" /\ call.kind # "raw"
    /\ mem' = Remembered(call)
    /\ IF \E e \in events : e.key = call.key /\ e.body # call.body
         THEN Return /\ disowned' = disowned \cup {call.key} /\ UNCHANGED events
         ELSE /\ events' = events \cup {Row}
              /\ pc' = "checkpoint" /\ UNCHANGED <<call, disowned>>
    /\ UNCHANGED <<checkpoint, saved, store, faults>>

\* The same call again meets its own checkpoint: the same state, or refused.
AppendCheckpoint ==
    /\ pc = "checkpoint" /\ Return
    /\ IF call.key \in saved
         THEN UNCHANGED <<checkpoint, saved>>
         ELSE saved' = saved \cup {call.key} /\ checkpoint' = mem
    /\ UNCHANGED <<mem, events, store, disowned, faults>>

\* The process dies; LoopstrapSystem.open takes the last checkpoint.
Crash ==
    /\ pc # "idle" /\ Fault /\ Return
    /\ mem' = checkpoint
    /\ UNCHANGED <<log, store, disowned>>

Execute == PutBytes \/ WriteBytes \/ ReturnRaw \/ AppendEvent \/ AppendCheckpoint

Next ==
    \/ Execute \/ Crash
    \/ \E c \in Cell : Revise(c) \/ Verify(c) \/ Resolve(c)
    \/ \E x \in Raw : Retain(x)
    \/ \E t \in Tree : CaptureTree(t)
    \/ \E r \in Evidence : RecordEvidence(r)
    \/ \E q \in Request : EvaluateAcceptance(q)

Spec == Init /\ [][Next]_vars

-----------------------------------------------------------------------------
(* The variables keep their types: the memory and every checkpoint hold     *)
(* records, and an artifact is whole or partial.                            *)
State    == [rev : [Cell -> 1..MaxRevision], blocking : SUBSET Cell,
             evidence : SUBSET Evidence, acceptance : SUBSET Result]
Key      == ({"evidence.recorded"} \X Ids(Template))
              \cup ({"acceptance.evaluated"} \X Ids(Request))
TypeOK ==
    /\ mem \in State /\ checkpoint \in State
    /\ \A e \in events : e.key \in Key /\ e.body \in Evidence \cup Result
    /\ saved \subseteq Key
    /\ whole \subseteq Content /\ partial \subseteq Content /\ whole \cap partial = {}
    /\ captured \subseteq Tree /\ drifted \subseteq captured
    /\ pc \in {"idle", "put", "write", "record", "checkpoint"}
    /\ (pc = "idle") = (call = NoCall)
    /\ disowned \subseteq Key /\ faults \in 0..MaxFaults

(* Claims READY-EVIDENCE-01 and -04: whatever an event of the ledger cites  *)
(* can be read and has its digest: its own record, the raw execution and    *)
(* the implementation.  A file a crash left half written, and a snapshot of *)
(* a tree that changed under the copy, never become evidence.               *)
CustodyHolds ==
    \A e \in events :
        /\ Retrievable(e.body)
        /\ e.key[1] = "evidence.recorded" =>
              /\ Retrievable(e.body.execution)
              /\ \A t \in e.body.artifacts : Retrievable(t) \/ Intact(t)

(* What the memory answers with, to an evaluation or to require_acceptance, *)
(* is what the ledger says under the same id, after any crash and repeated  *)
(* call, but for the records the ledger refused after the memory had them;  *)
(* and it refuses one only after a crash: without, the checks against the   *)
(* memory refuse first, and nothing refused stays in memory.                *)
KeyOf(x, type) == <<type, x.id>>
MemoryIsLedgers ==
    /\ \A x \in (mem.evidence \X {"evidence.recorded"})
                   \cup (mem.acceptance \X {"acceptance.evaluated"}) :
          \/ KeyOf(x[1], x[2]) \in disowned
          \/ [key |-> KeyOf(x[1], x[2]), body |-> x[1]] \in events
    /\ disowned # {} => faults > 0

(* Claims READY-EVIDENCE-02, -03 and -05: an acceptance is written as green *)
(* only while no verified claim blocks, and on evidence of the specification*)
(* and of the cells' revisions at that moment, that nobody has a finding on *)
(* and that its producer did not give on its own work.                      *)
GreenOnCurrentEvidence ==
    [][\A e \in events' \ events, q \in Request :
          e.key = <<"acceptance.evaluated", q.id>> /\ e.body.accepted =>
              /\ mem.blocking = {}
              /\ \A id \in e.body.qualifying : \E r \in mem.evidence :
                    /\ r.id = id /\ r.rev = mem.rev[r.cell] /\ r.findings = {}
                    /\ r.specification = Specification
                    /\ \E o \in UNION {p.obligations : p \in Request} :
                          /\ o.id \in e.body.satisfied \cap r.obligations
                          /\ o.scope = r.scope
                          /\ o.independent => r.producer \notin r.subjects]_vars
=============================================================================

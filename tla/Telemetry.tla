------------------------------ MODULE Telemetry ------------------------------
(***************************************************************************)
(* The observation mirror of a run: TelemetryStore                         *)
(* (loopstrap_core/telemetry.py) and the places where LoopstrapSystem      *)
(* feeds it (_append, open and _sync_telemetry in loopstrap_core/system.py)*)
(*                                                                         *)
(* Every process that has the run open is a collector.  After each record  *)
(* it writes it synchronizes: it reads the ledger, mirrors the records one *)
(* SQLite transaction at a time, and then copies what is stored under the  *)
(* references the mirror holds.  Collectors interleave between their       *)
(* transactions (BEGIN IMMEDIATE serializes those), may die between any    *)
(* two, and somebody may delete the mirror.                                *)
(*                                                                         *)
(* A ledger record is the set of the references _walk finds in it.  What   *)
(* is stored under a reference has its own bytes ("whole") or not          *)
(* ("damaged": a short write, a tree that changed while it was copied).    *)
(***************************************************************************)
EXTENDS Integers, Sequences, FiniteSets, FiniteSetsExt

CONSTANTS
    Process,      \* the processes that open the run
    Artifact,     \* references to artifacts
    Snapshot,     \* references to snapshots
    File,         \* blobs that only snapshots hold
    PartsOf,      \* the manifest of a snapshot and its files, in order
    Rank,         \* the order of the event identifiers, which are hashes
    Relation,     \* the paths observed with every record, in order
    MaxLedger,
    MaxFaults     \* bound on crashes, damaged files and deletions of the mirror

Ref    == Artifact \cup Snapshot
Blob   == Artifact \cup File
Record == 1..MaxLedger

ASSUME RefAssumption ==
    /\ Artifact \cap Snapshot = {} /\ PartsOf \in [Snapshot -> Seq(Blob)]
    /\ \A s \in Snapshot : PartsOf[s] # << >>
ASSUME RankAssumption ==
    /\ Rank \in [Record -> Int]
    /\ \A i, j \in Record : Rank[i] = Rank[j] => i = j
ASSUME PathAssumption == Relation \in Seq(STRING) /\ Relation # << >>
ASSUME MirrorLimitAssumption ==
    MaxLedger \in Nat /\ MaxFaults \in Nat

VARIABLES
    ledger,      \* the references in each complete record of events.jsonl
    store,       \* what is stored under each reference
    mirror,      \* telemetry.sqlite3: its tables
    pc,          \* what each process is doing
    opening,     \* ... and whether in open
    read, at,    \* the records ledger.verify() returned; the one being mirrored
    paths,       \* how many of its paths are observed
    rows,        \* references still to be captured
    todo,        \* transactions left for the reference being captured
    faults,
    deleted,     \* the mirror was deleted,
    cutShort     \* and under a collector

sync    == <<read, at, paths, rows, todo>>
control == <<pc, opening, sync>>
vars    == <<ledger, store, mirror, control, faults, deleted, cutShort>>

\* events: <<number of the ledger record, collection sequence>>;
\* unresolved: the references a row says are unavailable, with the record.
Empty == [tables |-> FALSE, events |-> {}, refs |-> {}, paths |-> {},
          blobs |-> {}, snapshots |-> {}, captured |-> {},
          unresolved |-> {}]

Mirrored(m)  == {e[1] : e \in m.events}
Sequences(m) == {e[2] : e \in m.events}

Init ==
    /\ ledger = << >>
    /\ store = [r \in Ref |-> "absent"]
    /\ mirror = Empty
    /\ pc = [p \in Process |-> "down"] /\ opening = [p \in Process |-> FALSE]
    /\ read = [p \in Process |-> 0] /\ at = [p \in Process |-> 1]
    /\ paths = [p \in Process |-> 0]
    /\ rows = [p \in Process |-> {}] /\ todo = [p \in Process |-> << >>]
    /\ faults = 0 /\ deleted = FALSE /\ cutShort = FALSE

-----------------------------------------------------------------------------
(* The run: artifacts, records, processes.                                 *)

\* The call that synchronizes is over, and its local variables with it.
Leave(p, to) ==
    /\ pc' = [pc EXCEPT ![p] = to] /\ opening' = [opening EXCEPT ![p] = FALSE]
    /\ read' = [read EXCEPT ![p] = 0] /\ at' = [at EXCEPT ![p] = 1]
    /\ paths' = [paths EXCEPT ![p] = 0]
    /\ rows' = [rows EXCEPT ![p] = {}] /\ todo' = [todo EXCEPT ![p] = << >>]

Fault == faults < MaxFaults /\ faults' = faults + 1

\* A process stores what a later record will refer to.
Store(p, r) ==
    /\ pc[p] = "idle" /\ store[r] = "absent"
    /\ \E s \in {"whole", "damaged"} :
         /\ store' = [store EXCEPT ![r] = s]
         /\ IF s = "damaged" THEN Fault ELSE UNCHANGED faults
    /\ UNCHANGED <<ledger, mirror, control, deleted, cutShort>>

\* _append: the record of the operation ...
AppendRecord(p, refs) ==
    /\ pc[p] = "idle" /\ Len(ledger) + 2 <= MaxLedger
    /\ ledger' = Append(ledger, refs)
    /\ pc' = [pc EXCEPT ![p] = "checkpoint"]
    /\ UNCHANGED <<store, mirror, opening, sync, faults, deleted, cutShort>>

\* ... and its checkpoint, which repeats the references of the state.
Checkpoint(p) ==
    /\ pc[p] = "checkpoint" /\ Len(ledger) < MaxLedger
    /\ ledger' = Append(ledger, UNION {ledger[i] : i \in DOMAIN ledger})
    /\ pc' = [pc EXCEPT ![p] = "verify"]
    /\ UNCHANGED <<store, mirror, opening, sync, faults, deleted, cutShort>>

\* A variant: the synchronization is left to the first operation.
OpenNoSync(p) ==
    /\ pc[p] = "down"
    /\ mirror' = [mirror EXCEPT !.tables = TRUE]
    /\ pc' = [pc EXCEPT ![p] = "idle"]
    /\ UNCHANGED <<ledger, store, opening, sync, faults, deleted, cutShort>>
\* TelemetryStore._initialize creates what is missing; open then synchronizes.
Open(p) ==
    /\ pc[p] = "down"
    /\ mirror' = [mirror EXCEPT !.tables = TRUE]
    /\ pc' = [pc EXCEPT ![p] = "verify"] /\ opening' = [opening EXCEPT ![p] = TRUE]
    /\ UNCHANGED <<ledger, store, sync, faults, deleted, cutShort>>

\* SQLite rolls back the transaction a process dies in.
Crash(p) ==
    /\ pc[p] # "down" /\ Fault
    /\ Leave(p, "down")
    /\ UNCHANGED <<ledger, store, mirror, deleted, cutShort>>

Busy(p) == pc[p] \in {"ingest", "capture"}

Delete ==
    /\ mirror.tables /\ Fault
    /\ deleted' = TRUE
    /\ mirror' = Empty
    /\ cutShort' = (cutShort \/ \E p \in Process : Busy(p))
    /\ UNCHANGED <<ledger, store, control>>

-----------------------------------------------------------------------------
(* _sync_telemetry: ledger.verify, ingest_ledger_events and                *)
(* capture_available_references.                                           *)

\* A variant: a process mirrors what it wrote itself, the newest record.
ReadLedgerNewest(p) ==
    /\ pc[p] = "verify"
    /\ read' = [read EXCEPT ![p] = Len(ledger)]
    /\ at' = [at EXCEPT ![p] = IF opening[p] \/ Len(ledger) = 0 THEN 1 ELSE Len(ledger)]
    /\ paths' = [paths EXCEPT ![p] = 0]
    /\ pc' = [pc EXCEPT ![p] = "ingest"]
    /\ UNCHANGED <<ledger, store, mirror, opening, rows, todo, faults, deleted, cutShort>>
ReadLedger(p) ==
    /\ pc[p] = "verify"
    /\ read' = [read EXCEPT ![p] = Len(ledger)] /\ at' = [at EXCEPT ![p] = 1]
    /\ paths' = [paths EXCEPT ![p] = 0]
    /\ pc' = [pc EXCEPT ![p] = "ingest"]
    /\ UNCHANGED <<ledger, store, mirror, opening, rows, todo, faults, deleted, cutShort>>

\* What record_event inserts in its one transaction: the event, under the next
\* collection sequence of the run, with all the rows that hang on it.  The
\* record is the same whenever it is read, so its digest never conflicts.
NextSequence(m) == 1 + Max(Sequences(m) \cup {0})
InsertEvent(m, n) ==
    IF n \in Mirrored(m) THEN m
    ELSE [m EXCEPT !.events = @ \cup {<<n, NextSequence(m)>>},
                   !.refs = @ \cup {<<n, r>> : r \in ledger[n]}]

RecordEvent(p) ==
    /\ pc[p] = "ingest" /\ mirror.tables
    /\ at[p] <= read[p] /\ paths[p] = 0
    /\ mirror' = InsertEvent(mirror, at[p])
    /\ paths' = [paths EXCEPT ![p] = 1]
    /\ UNCHANGED <<ledger, store, pc, opening, read, at, rows, todo, faults, deleted, cutShort>>

ObservePath(p) ==
    /\ pc[p] = "ingest" /\ at[p] \in Mirrored(mirror)
    /\ paths[p] \in 1..Len(Relation)
    /\ mirror' = [mirror EXCEPT !.paths = @ \cup {<<at[p], Relation[paths[p]]>>}]
    /\ IF paths[p] < Len(Relation)
         THEN paths' = [paths EXCEPT ![p] = @ + 1] /\ UNCHANGED at
         ELSE paths' = [paths EXCEPT ![p] = 0] /\ at' = [at EXCEPT ![p] = @ + 1]
    /\ UNCHANGED <<ledger, store, pc, opening, read, rows, todo, faults, deleted, cutShort>>

\* SELECT reference,MIN(event_id) ... GROUP BY reference
SelectReferences(p) ==
    /\ pc[p] = "ingest" /\ mirror.tables
    /\ at[p] > read[p] /\ paths[p] = 0
    /\ rows' = [rows EXCEPT ![p] =
         {<<x[2], x[1]>> : x \in {y \in mirror.refs :
            \A z \in mirror.refs : z[2] = y[2] => Rank[y[1]] <= Rank[z[1]]}}]
    /\ pc' = [pc EXCEPT ![p] = "capture"]
    /\ todo' = [todo EXCEPT ![p] = << >>]
    /\ UNCHANGED <<ledger, store, mirror, opening, read, at, paths, faults, deleted, cutShort>>

\* The transactions one reference takes: capture_blob is two, a snapshot is
\* its manifest, its files and itself.  Damage raises before the blob.
Tx(kind, of, n) == [kind |-> kind, of |-> of, record |-> n]
BlobTxs(b, n)   == << Tx("blob", b, n), Tx("observe", b, n) >>
PartTxs(r, n)   ==
    [i \in 1..(2 * Len(PartsOf[r])) |->
        Tx(IF i % 2 = 1 THEN "blob" ELSE "observe", PartsOf[r][(i + 1) \div 2], n)]
\* Variants: the snapshot's own row first; nothing said of what is missing.
CaptureRowFirst(r, n) ==
    IF r \in Snapshot /\ store[r] = "whole"
      THEN << Tx("snapshot", r, n) >> \o PartTxs(r, n) \o << Tx("observe", r, n) >>
      ELSE << Tx("unavailable", r, n) >>
CaptureSilent(r, n) ==
    IF store[r] # "whole" THEN << >>
    ELSE IF r \in Artifact THEN BlobTxs(r, n)
    ELSE PartTxs(r, n) \o << Tx("snapshot", r, n), Tx("observe", r, n) >>
Capture(r, n) ==
    IF store[r] = "absent" THEN << Tx("unavailable", r, n) >>
    ELSE IF r \in Artifact
      THEN IF store[r] = "whole" THEN BlobTxs(r, n) ELSE << Tx("raise", r, n) >>
    ELSE IF store[r] = "whole"
      THEN PartTxs(r, n) \o << Tx("snapshot", r, n), Tx("observe", r, n) >>
      ELSE BlobTxs(Head(PartsOf[r]), n) \o << Tx("raise", r, n) >>

CaptureNext(p) ==
    /\ pc[p] = "capture" /\ todo[p] = << >>
    /\ \E row \in rows[p] :
         /\ rows' = [rows EXCEPT ![p] = @ \ {row}]
         /\ todo' = [todo EXCEPT ![p] = Capture(row[1], row[2])]
    /\ UNCHANGED <<ledger, store, mirror, pc, opening, read, at, paths, faults, deleted, cutShort>>

\* A snapshot's row refers to the blobs of its parts.
ForeignKeys(t) ==
    t.kind = "snapshot" =>
        \A i \in DOMAIN PartsOf[t.of] : PartsOf[t.of][i] \in mirror.blobs

Commit(p, kind, m) ==
    /\ pc[p] = "capture" /\ mirror.tables
    /\ todo[p] # << >> /\ Head(todo[p]).kind = kind
    /\ ForeignKeys(Head(todo[p]))
    /\ mirror' = m
    /\ todo' = [todo EXCEPT ![p] = Tail(@)]
    /\ UNCHANGED <<ledger, store, pc, opening, read, at, paths, rows, faults, deleted, cutShort>>

CaptureBlob(p) ==
    Commit(p, "blob", [mirror EXCEPT !.blobs = @ \cup {Head(todo[p]).of}])
CaptureSnapshot(p) ==
    Commit(p, "snapshot", [mirror EXCEPT !.snapshots = @ \cup {Head(todo[p]).of}])

\* observe_reference inserts or ignores by (reference, event, status, kind,
\* path); a NULL path is equal to nothing, so that row is inserted
\* again each time; here it is in the set once.
ObserveCaptured(p) ==
    Commit(p, "observe",
           [mirror EXCEPT !.captured = @ \cup {<<Head(todo[p]).of, Head(todo[p]).record>>}])
ObserveUnavailable(p) ==
    Commit(p, "unavailable",
           [mirror EXCEPT !.unresolved = @ \cup {<<Head(todo[p]).of, Head(todo[p]).record>>}])

Finish(p) ==
    /\ pc[p] = "capture" /\ todo[p] = << >> /\ rows[p] = {}
    /\ Leave(p, "idle")
    /\ UNCHANGED <<ledger, store, mirror, faults, deleted, cutShort>>

\* The tables are gone, a row refers to one that is not there, or what is
\* stored does not have its digest: the exception leaves _append, although
\* the record and the checkpoint are written, or open, and then there is no
\* system to use.
Raise(p) ==
    /\ \/ /\ pc[p] = "ingest"
          /\ IF paths[p] = 0 THEN ~mirror.tables ELSE at[p] \notin Mirrored(mirror)
       \/ /\ pc[p] = "capture" /\ todo[p] # << >>
          /\ \/ ~mirror.tables
             \/ Head(todo[p]).kind = "raise"
             \/ ~ForeignKeys(Head(todo[p]))
    /\ Leave(p, IF opening[p] THEN "down" ELSE "idle")
    /\ UNCHANGED <<ledger, store, mirror, faults, deleted, cutShort>>

Ingest(p)     == ReadLedger(p) \/ RecordEvent(p) \/ ObservePath(p) \/ SelectReferences(p)
Collect(p)    == CaptureNext(p) \/ CaptureBlob(p) \/ CaptureSnapshot(p)
                   \/ ObserveCaptured(p) \/ ObserveUnavailable(p) \/ Finish(p)
Synchronize(p) == Ingest(p) \/ Collect(p) \/ Raise(p)

Next ==
    \/ Delete
    \/ \E p \in Process :
         \/ \E r \in Ref : Store(p, r)
         \/ \E refs \in SUBSET Ref : AppendRecord(p, refs)
         \/ Checkpoint(p) \/ Open(p) \/ Crash(p) \/ Synchronize(p)

Spec == Init /\ [][Next]_vars

\* A call runs to its end, and a run is opened again.
FairSpec == Spec /\ \A p \in Process :
                      WF_vars(Checkpoint(p) \/ Synchronize(p)) /\ WF_vars(Open(p))

-----------------------------------------------------------------------------
(* The variables keep their types: the mirror holds only rows of records    *)
(* the ledger has, and bytes that are somebody's.                           *)
Mirror == [tables : BOOLEAN, events : SUBSET (Record \X Nat),
           refs : SUBSET (Record \X Ref),
           paths : SUBSET (Record \X {Relation[i] : i \in DOMAIN Relation}),
           blobs : SUBSET Blob, snapshots : SUBSET Snapshot,
           captured : SUBSET ((Ref \cup Blob) \X Record), unresolved : SUBSET (Ref \X Record)]
Transaction ==
    UNION {[kind : {"blob"}, of : Blob, record : Record],
           [kind : {"observe"}, of : Ref \cup Blob, record : Record],
           [kind : {"snapshot"}, of : Snapshot, record : Record],
           [kind : {"unavailable", "raise"}, of : Ref, record : Record]}
TypeOK ==
    /\ ledger \in Seq(SUBSET Ref) /\ Len(ledger) <= MaxLedger
    /\ store \in [Ref -> {"absent", "whole", "damaged"}]
    /\ mirror \in Mirror /\ Mirrored(mirror) \subseteq DOMAIN ledger
    /\ pc \in [Process -> {"down", "idle", "checkpoint", "verify", "ingest", "capture"}]
    /\ opening \in [Process -> BOOLEAN]
    /\ read \in [Process -> 0..MaxLedger] /\ at \in [Process -> 1..(MaxLedger + 1)]
    /\ paths \in [Process -> 0..Len(Relation)]
    /\ rows \in [Process -> SUBSET (Ref \X Record)]
    /\ todo \in [Process -> Seq(Transaction)]
    /\ faults \in 0..MaxFaults /\ deleted \in BOOLEAN /\ cutShort \in BOOLEAN

(* Claims TEL-07 and TEL-09, "mirrors every complete control-ledger record  *)
(* in ledger order": whatever collectors do at the same time and wherever   *)
(* one dies, the mirror holds the first records of the ledger in its order. *)
(* Only a mirror deleted under a collector can begin in the middle; its     *)
(* collection sequence has no gap for TelemetryStore.verify to find either. *)
LedgerOrder ==
    /\ Sequences(mirror) = 1..Cardinality(mirror.events)
    /\ ~cutShort => mirror.events = {<<n, n>> : n \in 1..Cardinality(mirror.events)}

(* Claims TEL-06 and TEL-10: a synchronization that comes to its end, the   *)
(* first one after the mirror was deleted included, has mirrored every      *)
(* record it read with its paths, and has said of every reference in them   *)
(* that it is unavailable, or that it is captured, and then its bytes and   *)
(* all parts of a snapshot are there.                                       *)
Held(r) == IF r \in Artifact THEN r \in mirror.blobs
           ELSE /\ r \in mirror.snapshots
                /\ \A i \in DOMAIN PartsOf[r] : PartsOf[r][i] \in mirror.blobs
CompleteWhenFinished ==
    \A p \in Process :
        pc[p] = "capture" /\ rows[p] = {} /\ todo[p] = << >> /\ ~cutShort =>
            \A n \in 1..read[p] :
                /\ n \in Mirrored(mirror)
                /\ \A i \in DOMAIN Relation : <<n, Relation[i]>> \in mirror.paths
                /\ \A r \in ledger[n] :
                      \/ \E k \in Record : <<r, k>> \in mirror.unresolved
                      \/ Held(r) /\ \E k \in Record : <<r, k>> \in mirror.captured

(* Claim TEL-01, no authority over execution: the mirror makes an operation *)
(* whose record is written, or an open, fail only over bytes that do not    *)
(* have their digest or a mirror deleted under a live process.  No order of *)
(* the transactions of two collectors breaks a foreign key.                 *)
RaisesOnlyOverDamage ==
    [][\A p \in Process :
          Raise(p) => deleted \/ \E r \in Ref : store[r] = "damaged"]_vars

(* Claim TEL-09: every record of the ledger reaches the mirror, when its    *)
(* writer dies first, and when damaged bytes make every synchronization     *)
(* fail in the end; but for a mirror deleted and never opened again.        *)
Lags == DOMAIN ledger # Mirrored(mirror)
RecordsReachMirror == Lags ~> (~Lags \/ ~mirror.tables)
=============================================================================

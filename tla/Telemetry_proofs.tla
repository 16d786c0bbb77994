--------------------------- MODULE Telemetry_proofs ---------------------------
(* Theorems about Telemetry, for any number of collectors, records, artifacts *)
(* and snapshots, and any number of faults.                                   *)
EXTENDS Telemetry, FiniteSetTheorems, SequenceTheorems, TLAPS

USE RefAssumption, RankAssumption, PathAssumption, MirrorLimitAssumption

Count == Cardinality(mirror.events)

\* A collector that is not mirroring is at the start of the ledger.
RestInv == \A p \in Process : ~Busy(p) => at[p] = 1 /\ paths[p] = 0

\* The collection sequence has no gap.
SequenceInv == IsFiniteSet(mirror.events) /\ Sequences(mirror) = 1..Count

\* Unless the mirror went away under a collector, it holds the first records
\* in their order, and every collector has mirrored what is behind it.
OrderInv ==
    ~cutShort =>
        /\ mirror.events = {<<n, n>> : n \in 1..Count}
        /\ \A p \in Process :
              /\ at[p] - 1 <= Count
              /\ paths[p] # 0 => at[p] <= Count

\* What was read is still in the ledger.
ReadInv == \A p \in Process : read[p] <= Len(ledger)

LEMMA MaxOfInterval == \A k \in Nat : Max((1..k) \cup {0}) = k
<1> SUFFICES ASSUME NEW k \in Nat PROVE Max((1..k) \cup {0}) = k
    OBVIOUS
<1> DEFINE S == (1..k) \cup {0}
<1>1. k \in S /\ \A y \in S : k >= y
    OBVIOUS
<1>2. ASSUME NEW x \in S, \A y \in S : x >= y PROVE x = k
    <2>1. x >= k /\ k >= x /\ x \in Int
        BY <1>1, <1>2
    <2> QED BY <2>1
<1> HIDE DEF S
<1> QED BY <1>1, <1>2 DEF Max, S

(* The two ways a transaction leaves the events of the mirror.              *)
LEMMA InsertCounts ==
    ASSUME NEW E, IsFiniteSet(E), {e[2] : e \in E} = 1..Cardinality(E),
           NEW n, \A e \in E : e[1] # n
    PROVE  LET k == Cardinality(E)
               F == E \cup {<<n, k + 1>>}
           IN  /\ IsFiniteSet(F) /\ Cardinality(F) = k + 1 /\ k \in Nat
               /\ {e[2] : e \in F} = 1..(k + 1)
<1> DEFINE k == Cardinality(E)
           F == E \cup {<<n, k + 1>>}
<1>1. k \in Nat
    BY FS_CardinalityType
<1>2. <<n, k + 1>> \notin E
    OBVIOUS
<1>3. IsFiniteSet(F) /\ Cardinality(F) = k + 1
    BY <1>2, FS_AddElement
<1>4. \A j : j \in {e[2] : e \in F} <=> j \in {e[2] : e \in E} \/ j = k + 1
    <2>1. <<n, k + 1>>[2] = k + 1 /\ <<n, k + 1>> \in F /\ E \subseteq F
        OBVIOUS
    <2>2. \A e \in F : e \in E \/ e = <<n, k + 1>>
        OBVIOUS
    <2> HIDE DEF F
    <2> QED BY <2>1, <2>2
<1>5. {e[2] : e \in F} = 1..(k + 1)
    <2>1. \A j : j \in {e[2] : e \in F} <=> j \in 1..k \/ j = k + 1
        BY <1>4
    <2>2. \A j : j \in 1..k \/ j = k + 1 <=> j \in 1..(k + 1)
        BY <1>1
    <2> HIDE DEF F
    <2> QED BY <2>1, <2>2
<1> QED BY <1>1, <1>3, <1>5

-----------------------------------------------------------------------------
(* Types.                                                                   *)

LEMMA MirrorUpdates ==
    ASSUME NEW m \in Mirror
    PROVE  /\ Empty \in Mirror
           /\ [m EXCEPT !.tables = TRUE] \in Mirror
           /\ \A E \in SUBSET (Record \X Nat), R \in SUBSET (Record \X Ref) :
                 [m EXCEPT !.events = E, !.refs = R] \in Mirror
           /\ \A P \in SUBSET (Record \X {Relation[i] : i \in DOMAIN Relation}) :
                 [m EXCEPT !.paths = P] \in Mirror
           /\ \A B \in SUBSET Blob : [m EXCEPT !.blobs = B] \in Mirror
           /\ \A S \in SUBSET Snapshot : [m EXCEPT !.snapshots = S] \in Mirror
           /\ \A C \in SUBSET ((Ref \cup Blob) \X Record) :
                 [m EXCEPT !.captured = C] \in Mirror
           /\ \A U \in SUBSET (Ref \X Record) : [m EXCEPT !.unresolved = U] \in Mirror
BY DEF Mirror, Empty

LEMMA CaptureType ==
    ASSUME TypeOK, NEW r \in Ref, NEW n \in Record
    PROVE  Capture(r, n) \in Seq(Transaction)
<1>1. \A b \in Blob : BlobTxs(b, n) \in Seq(Transaction)
    BY DEF BlobTxs, Tx, Transaction, Blob
<1>2. ASSUME r \in Snapshot PROVE PartTxs(r, n) \in Seq(Transaction)
    <2>1. PartsOf[r] \in Seq(Blob)
        BY <1>2
    <2>2. ASSUME NEW i \in 1..(2 * Len(PartsOf[r]))
          PROVE  Tx(IF i % 2 = 1 THEN "blob" ELSE "observe", PartsOf[r][(i + 1) \div 2], n)
                    \in Transaction
        <3>1. (i + 1) \div 2 \in 1..Len(PartsOf[r])
            BY <2>1
        <3>2. PartsOf[r][(i + 1) \div 2] \in Blob
            BY <2>1, <3>1
        <3> QED BY <3>2 DEF Tx, Transaction, Blob
    <2>3. 2 * Len(PartsOf[r]) \in Nat
        BY <2>1
    <2> QED BY <2>2, <2>3 DEF PartTxs
<1>3. ASSUME r \in Snapshot
      PROVE  << Tx("snapshot", r, n), Tx("observe", r, n) >> \in Seq(Transaction)
    BY <1>3 DEF Tx, Transaction, Ref
<1>4. << Tx("unavailable", r, n) >> \in Seq(Transaction) /\ << Tx("raise", r, n) >> \in Seq(Transaction)
    BY DEF Tx, Transaction
<1>5. ASSUME r \in Snapshot PROVE Head(PartsOf[r]) \in Blob
    BY <1>5
<1> QED BY <1>1, <1>2, <1>3, <1>4, <1>5 DEF Capture, Blob, Ref

(* What Leave does to the control of a collector.                           *)
LEMMA LeaveKeepsTypes ==
    ASSUME TypeOK, ReadInv, NEW p \in Process, NEW to \in {"down", "idle"}, Leave(p, to)
    PROVE  /\ pc' \in [Process -> {"down", "idle", "checkpoint", "verify", "ingest", "capture"}]
           /\ opening' \in [Process -> BOOLEAN]
           /\ read' \in [Process -> 0..MaxLedger]
           /\ at' \in [Process -> 1..(MaxLedger + 1)]
           /\ paths' \in [Process -> 0..Len(Relation)]
           /\ rows' \in [Process -> SUBSET (Ref \X Record)]
           /\ todo' \in [Process -> Seq(Transaction)]
           /\ \A q \in Process : read'[q] <= Len(ledger)
<1>1. Len(ledger) \in Nat /\ Len(Relation) \in Nat
    BY DEF TypeOK
<1>2. /\ pc' \in [Process -> {"down", "idle", "checkpoint", "verify", "ingest", "capture"}]
      /\ opening' \in [Process -> BOOLEAN]
      /\ rows' \in [Process -> SUBSET (Ref \X Record)]
    BY DEF TypeOK, Leave
<1>3. /\ read' \in [Process -> 0..MaxLedger] /\ at' \in [Process -> 1..(MaxLedger + 1)]
      /\ paths' \in [Process -> 0..Len(Relation)]
    BY <1>1, MirrorLimitAssumption DEF TypeOK, Leave
<1>4. todo' \in [Process -> Seq(Transaction)]
    BY DEF TypeOK, Leave
<1>5. \A q \in Process : read'[q] <= Len(ledger)
    BY <1>1 DEF TypeOK, ReadInv, Leave
<1> QED BY <1>2, <1>3, <1>4, <1>5

(* The steps of the run and of its processes.                               *)
LEMMA RunKeepsTypes ==
    ASSUME TypeOK, ReadInv, NEW p \in Process,
           \/ \E r \in Ref : Store(p, r)
           \/ \E refs \in SUBSET Ref : AppendRecord(p, refs)
           \/ Checkpoint(p) \/ Open(p) \/ Crash(p)
    PROVE  TypeOK' /\ ReadInv'
<1>0. Len(ledger) \in Nat
    BY DEF TypeOK
<1>1. ASSUME NEW r \in Ref, Store(p, r) PROVE TypeOK' /\ ReadInv'
    <2>1. PICK x \in {"whole", "damaged"} :
             /\ store' = [store EXCEPT ![r] = x]
             /\ IF x = "damaged" THEN Fault ELSE UNCHANGED faults
        BY <1>1 DEF Store
    <2>2. store' \in [Ref -> {"absent", "whole", "damaged"}] /\ faults' \in 0..MaxFaults
        BY <2>1 DEF Fault, TypeOK
    <2> QED BY <1>1, <2>2 DEF Store, control, sync, TypeOK, ReadInv, Mirrored
<1>2. ASSUME NEW x \in SUBSET Ref, ledger' = Append(ledger, x), Len(ledger) < MaxLedger
      PROVE  /\ ledger' \in Seq(SUBSET Ref) /\ Len(ledger') <= MaxLedger
             /\ DOMAIN ledger \subseteq DOMAIN ledger' /\ Len(ledger) <= Len(ledger')
    BY <1>0, <1>2 DEF TypeOK
<1>3. ASSUME NEW refs \in SUBSET Ref, AppendRecord(p, refs) PROVE TypeOK' /\ ReadInv'
    <2>1. Len(ledger) < MaxLedger
        BY <1>0, <1>3 DEF AppendRecord
    <2>2. /\ ledger' \in Seq(SUBSET Ref) /\ Len(ledger') <= MaxLedger
          /\ DOMAIN ledger \subseteq DOMAIN ledger' /\ Len(ledger) <= Len(ledger')
        BY <1>2, <1>3, <2>1 DEF AppendRecord
    <2>3. TypeOK'
        BY <1>3, <2>2, <1>0 DEF AppendRecord, sync, TypeOK
    <2>4. ReadInv'
        <3>1. read' = read /\ \A q \in Process : read[q] <= Len(ledger)
            BY <1>3, <1>0 DEF AppendRecord, sync, ReadInv
        <3>2. /\ \A q \in Process : read[q] \in Nat
              /\ Len(ledger) \in Nat /\ Len(ledger') \in Nat
            BY <1>0, <2>3, <3>1 DEF TypeOK
        <3> QED BY <2>2, <3>1, <3>2 DEF ReadInv
    <2> QED BY <2>3, <2>4
<1>4. ASSUME Checkpoint(p) PROVE TypeOK' /\ ReadInv'
    <2>1. UNION {ledger[i] : i \in DOMAIN ledger} \in SUBSET Ref
        BY DEF TypeOK
    <2>2. /\ ledger' \in Seq(SUBSET Ref) /\ Len(ledger') <= MaxLedger
          /\ DOMAIN ledger \subseteq DOMAIN ledger' /\ Len(ledger) <= Len(ledger')
        BY <1>2, <1>4, <2>1 DEF Checkpoint
    <2> QED BY <1>4, <2>2, <1>0 DEF Checkpoint, sync, TypeOK, ReadInv, Mirrored
<1>5. ASSUME Open(p) PROVE TypeOK' /\ ReadInv'
    <2>1. mirror' \in Mirror
        BY <1>5, MirrorUpdates DEF Open, TypeOK
    <2>2. mirror'.events = mirror.events
        BY <1>5 DEF Open, TypeOK, Mirror
    <2> QED BY <1>5, <2>1, <2>2 DEF Open, sync, TypeOK, ReadInv, Mirrored
<1>6. ASSUME Crash(p) PROVE TypeOK' /\ ReadInv'
    <2>1. Leave(p, "down")
        BY <1>6 DEF Crash
    <2>2. faults' \in 0..MaxFaults
        BY <1>6 DEF Crash, Fault, TypeOK
    <2> QED BY <1>6, <2>1, <2>2, LeaveKeepsTypes DEF Crash, TypeOK, ReadInv, Mirrored
<1> QED BY <1>1, <1>3, <1>4, <1>5, <1>6

LEMMA DeleteKeepsTypes ==
    ASSUME TypeOK, ReadInv, Delete PROVE TypeOK' /\ ReadInv'
<1>1. mirror' \in Mirror /\ Mirrored(mirror') = {}
    BY MirrorUpdates DEF Delete, TypeOK, Mirrored, Empty
<1>2. faults' \in 0..MaxFaults /\ deleted' \in BOOLEAN /\ cutShort' \in BOOLEAN
    BY DEF Delete, Fault, TypeOK
<1> QED BY <1>1, <1>2 DEF Delete, control, sync, TypeOK, ReadInv

(* The steps of a synchronization.                                          *)
LEMMA SynchronizeKeepsTypes ==
    ASSUME TypeOK, ReadInv, SequenceInv, NEW p \in Process, Synchronize(p)
    PROVE  TypeOK' /\ ReadInv'
<1>0. Len(ledger) \in Nat /\ Len(Relation) \in Nat \ {0} /\ Len(ledger) <= MaxLedger
    BY DEF TypeOK
<1>1. ASSUME ReadLedger(p) PROVE TypeOK' /\ ReadInv'
    BY <1>1, <1>0 DEF ReadLedger, TypeOK, ReadInv, Mirrored
<1>2. ASSUME RecordEvent(p) PROVE TypeOK' /\ ReadInv'
    <2>1. at[p] \in Record /\ at[p] \in DOMAIN ledger
        BY <1>2, <1>0 DEF RecordEvent, TypeOK, ReadInv, Record
    <2>2. ASSUME at[p] \notin Mirrored(mirror)
          PROVE  mirror' \in Mirror /\ Mirrored(mirror') \subseteq DOMAIN ledger
        <3> DEFINE E == mirror.events \cup {<<at[p], NextSequence(mirror)>>}
                   R == mirror.refs \cup {<<at[p], r>> : r \in ledger[at[p]]}
        <3>1. NextSequence(mirror) \in Nat
            BY MaxOfInterval, FS_CardinalityType DEF SequenceInv, NextSequence, Count
        <3>2. E \in SUBSET (Record \X Nat)
            BY <2>1, <3>1 DEF TypeOK, Mirror
        <3>3. R \in SUBSET (Record \X Ref)
            BY <2>1 DEF TypeOK, Mirror
        <3>4. mirror' = [mirror EXCEPT !.events = E, !.refs = R]
            BY <1>2, <2>2 DEF RecordEvent, InsertEvent
        <3>5. mirror'.events = E
            BY <3>4 DEF TypeOK, Mirror
        <3>6. Mirrored(mirror') \subseteq DOMAIN ledger
            BY <3>5, <2>1 DEF Mirrored, TypeOK
        <3> HIDE DEF E, R
        <3> QED BY <3>2, <3>3, <3>4, <3>6, MirrorUpdates DEF TypeOK
    <2>3. mirror' \in Mirror /\ Mirrored(mirror') \subseteq DOMAIN ledger
        BY <1>2, <2>2 DEF RecordEvent, InsertEvent, TypeOK
    <2> QED BY <1>2, <2>3, <1>0 DEF RecordEvent, TypeOK, ReadInv
<1>3. ASSUME ObservePath(p) PROVE TypeOK' /\ ReadInv'
    <2>1. at[p] \in Record /\ at[p] \in DOMAIN ledger
        BY <1>3, <1>0 DEF ObservePath, TypeOK, Record
    <2>2. mirror' \in Mirror /\ mirror'.events = mirror.events
        <3> DEFINE P == mirror.paths \cup {<<at[p], Relation[paths[p]]>>}
        <3>1. P \in SUBSET (Record \X {Relation[i] : i \in DOMAIN Relation})
            BY <1>3, <2>1, <1>0 DEF ObservePath, TypeOK, Mirror
        <3>2. mirror' = [mirror EXCEPT !.paths = P]
            BY <1>3 DEF ObservePath
        <3> HIDE DEF P
        <3>3. mirror'.events = mirror.events
            BY <3>2 DEF TypeOK, Mirror
        <3> QED BY <3>1, <3>2, <3>3, MirrorUpdates DEF TypeOK
    <2>3. paths' \in [Process -> 0..Len(Relation)] /\ at' \in [Process -> 1..(MaxLedger + 1)]
        <3>1. paths[p] \in 1..Len(Relation) /\ at[p] + 1 \in 1..(MaxLedger + 1)
            BY <1>3, <2>1 DEF ObservePath, Record
        <3>2. CASE paths[p] < Len(Relation)
            <4>1. paths[p] + 1 \in 0..Len(Relation)
                BY <3>1, <3>2, <1>0
            <4>2. paths' = [paths EXCEPT ![p] = paths[p] + 1] /\ at' = at
                BY <1>3, <3>2 DEF ObservePath
            <4> QED BY <4>1, <4>2 DEF TypeOK
        <3>3. CASE ~(paths[p] < Len(Relation))
            <4>1. 0 \in 0..Len(Relation)
                BY <1>0
            <4>2. paths' = [paths EXCEPT ![p] = 0] /\ at' = [at EXCEPT ![p] = at[p] + 1]
                BY <1>3, <3>3 DEF ObservePath
            <4> QED BY <3>1, <4>1, <4>2 DEF TypeOK
        <3> QED BY <3>2, <3>3
    <2> QED BY <1>3, <2>2, <2>3 DEF ObservePath, TypeOK, ReadInv, Mirrored
<1>4. ASSUME SelectReferences(p) PROVE TypeOK' /\ ReadInv'
    <2>1. {<<x[2], x[1]>> : x \in {y \in mirror.refs :
             \A z \in mirror.refs : z[2] = y[2] => Rank[y[1]] <= Rank[z[1]]}}
             \in SUBSET (Ref \X Record)
        BY DEF TypeOK, Mirror
    <2>2. rows' \in [Process -> SUBSET (Ref \X Record)]
        BY <1>4, <2>1 DEF SelectReferences, TypeOK
    <2>3. todo' \in [Process -> Seq(Transaction)]
        BY <1>4 DEF SelectReferences, TypeOK
    <2> QED BY <1>4, <2>2, <2>3 DEF SelectReferences, TypeOK, ReadInv, Mirrored
<1>5. ASSUME CaptureNext(p) PROVE TypeOK' /\ ReadInv'
    <2>1. PICK row \in rows[p] : /\ rows' = [rows EXCEPT ![p] = @ \ {row}]
                                 /\ todo' = [todo EXCEPT ![p] = Capture(row[1], row[2])]
        BY <1>5 DEF CaptureNext
    <2>2. row[1] \in Ref /\ row[2] \in Record
        BY DEF TypeOK
    <2>3. rows' \in [Process -> SUBSET (Ref \X Record)] /\ todo' \in [Process -> Seq(Transaction)]
        BY <2>1, <2>2, CaptureType DEF TypeOK
    <2> QED BY <1>5, <2>3 DEF CaptureNext, TypeOK, ReadInv, Mirrored
<1>6. ASSUME NEW kind, NEW m \in Mirror, m.events = mirror.events, Commit(p, kind, m)
      PROVE  TypeOK' /\ ReadInv'
    <2>1. todo' \in [Process -> Seq(Transaction)]
        BY <1>6 DEF Commit, TypeOK
    <2> QED BY <1>6, <2>1 DEF Commit, TypeOK, ReadInv, Mirrored
<1>7. ASSUME todo[p] # << >> PROVE Head(todo[p]) \in Transaction
    BY <1>7 DEF TypeOK
<1>8. ASSUME CaptureBlob(p) PROVE TypeOK' /\ ReadInv'
    <2>1. Head(todo[p]).of \in Blob
        BY <1>7, <1>8 DEF CaptureBlob, Commit, Transaction
    <2> DEFINE m == [mirror EXCEPT !.blobs = @ \cup {Head(todo[p]).of}]
    <2>2. m.events = mirror.events
        BY DEF TypeOK, Mirror
    <2>3. m \in Mirror
        <3> mirror \in Mirror
            BY DEF TypeOK
        <3> mirror.blobs \cup {Head(todo[p]).of} \in SUBSET Blob
            BY <2>1 DEF Mirror
        <3> QED BY MirrorUpdates
    <2> HIDE DEF m
    <2> QED BY <1>6, <2>2, <2>3, <1>8 DEF CaptureBlob, m
<1>9. ASSUME CaptureSnapshot(p) PROVE TypeOK' /\ ReadInv'
    <2>1. Head(todo[p]).of \in Snapshot
        BY <1>7, <1>9 DEF CaptureSnapshot, Commit, Transaction
    <2> DEFINE m == [mirror EXCEPT !.snapshots = @ \cup {Head(todo[p]).of}]
    <2>2. m.events = mirror.events
        BY DEF TypeOK, Mirror
    <2>3. m \in Mirror
        <3> mirror \in Mirror
            BY DEF TypeOK
        <3> mirror.snapshots \cup {Head(todo[p]).of} \in SUBSET Snapshot
            BY <2>1 DEF Mirror
        <3> QED BY MirrorUpdates
    <2> HIDE DEF m
    <2> QED BY <1>6, <2>2, <2>3, <1>9 DEF CaptureSnapshot, m
<1>10. ASSUME ObserveCaptured(p) PROVE TypeOK' /\ ReadInv'
    <2>1. Head(todo[p]).of \in Ref \cup Blob /\ Head(todo[p]).record \in Record
        BY <1>7, <1>10 DEF ObserveCaptured, Commit, Transaction
    <2> DEFINE m == [mirror EXCEPT !.captured = @ \cup {<<Head(todo[p]).of, Head(todo[p]).record>>}]
    <2>2. m.events = mirror.events
        BY DEF TypeOK, Mirror
    <2>3. m \in Mirror
        <3> mirror \in Mirror
            BY DEF TypeOK
        <3> mirror.captured \cup {<<Head(todo[p]).of, Head(todo[p]).record>>} \in SUBSET ((Ref \cup Blob) \X Record)
            BY <2>1 DEF Mirror
        <3> QED BY MirrorUpdates
    <2> HIDE DEF m
    <2> QED BY <1>6, <2>2, <2>3, <1>10 DEF ObserveCaptured, m
<1>11. ASSUME ObserveUnavailable(p) PROVE TypeOK' /\ ReadInv'
    <2>1. Head(todo[p]).of \in Ref /\ Head(todo[p]).record \in Record
        BY <1>7, <1>11 DEF ObserveUnavailable, Commit, Transaction
    <2> DEFINE m == [mirror EXCEPT !.unresolved = @ \cup {<<Head(todo[p]).of, Head(todo[p]).record>>}]
    <2>2. m.events = mirror.events
        BY DEF TypeOK, Mirror
    <2>3. m \in Mirror
        <3> mirror \in Mirror
            BY DEF TypeOK
        <3> mirror.unresolved \cup {<<Head(todo[p]).of, Head(todo[p]).record>>} \in SUBSET (Ref \X Record)
            BY <2>1 DEF Mirror
        <3> QED BY MirrorUpdates
    <2> HIDE DEF m
    <2> QED BY <1>6, <2>2, <2>3, <1>11 DEF ObserveUnavailable, m
<1>12. ASSUME Finish(p) \/ Raise(p) PROVE TypeOK' /\ ReadInv'
    <2>1. \E to \in {"down", "idle"} : Leave(p, to)
        BY <1>12 DEF Finish, Raise
    <2> QED BY <1>12, <2>1, LeaveKeepsTypes DEF Finish, Raise, TypeOK, ReadInv, Mirrored
<1> QED BY <1>1, <1>2, <1>3, <1>4, <1>5, <1>8, <1>9, <1>10, <1>11, <1>12
        DEF Synchronize, Ingest, Collect

(* A step leaves the events of the mirror, drops them all, or adds one.     *)
LEMMA EventsChange ==
    ASSUME TypeOK, SequenceInv, [Next]_vars
    PROVE  \/ mirror'.events = mirror.events
           \/ mirror'.events = {} /\ Delete
           \/ \E p \in Process :
                /\ RecordEvent(p) /\ at[p] \notin Mirrored(mirror)
                /\ mirror'.events = mirror.events \cup {<<at[p], Count + 1>>}
<1> DEFINE Same == mirror'.events = mirror.events
<1>0. mirror \in Mirror
    BY DEF TypeOK
<1>1. CASE UNCHANGED vars
    BY <1>1 DEF vars
<1>2. CASE Delete
    BY <1>2 DEF Delete, Empty
<1>3. ASSUME NEW p \in Process, Open(p) PROVE Same
    BY <1>0, <1>3 DEF Open, Mirror
<1>4. ASSUME NEW p \in Process,
             \/ \E r \in Ref : Store(p, r)
             \/ \E refs \in SUBSET Ref : AppendRecord(p, refs)
             \/ Checkpoint(p) \/ Crash(p) \/ ReadLedger(p) \/ SelectReferences(p)
             \/ CaptureNext(p) \/ Finish(p) \/ Raise(p)
      PROVE  Same
    BY <1>4 DEF Store, AppendRecord, Checkpoint, Crash, ReadLedger, SelectReferences,
                CaptureNext, Finish, Raise
<1>5. ASSUME NEW p \in Process, ObservePath(p) PROVE Same
    BY <1>0, <1>5 DEF ObservePath, Mirror
<1>6. ASSUME NEW p \in Process,
             CaptureBlob(p) \/ CaptureSnapshot(p) \/ ObserveCaptured(p) \/ ObserveUnavailable(p)
      PROVE  Same
    BY <1>0, <1>6 DEF CaptureBlob, CaptureSnapshot, ObserveCaptured, ObserveUnavailable,
                      Commit, Mirror
<1>7. ASSUME NEW p \in Process, RecordEvent(p)
      PROVE  \/ Same
             \/ /\ at[p] \notin Mirrored(mirror)
                /\ mirror'.events = mirror.events \cup {<<at[p], Count + 1>>}
    <2>1. CASE at[p] \in Mirrored(mirror)
        BY <1>7, <2>1 DEF RecordEvent, InsertEvent
    <2>2. CASE at[p] \notin Mirrored(mirror)
        <3>1. NextSequence(mirror) = Count + 1
            BY MaxOfInterval, FS_CardinalityType DEF SequenceInv, NextSequence, Count
        <3>2. mirror' = [mirror EXCEPT !.events = @ \cup {<<at[p], NextSequence(mirror)>>},
                                       !.refs = @ \cup {<<at[p], r>> : r \in ledger[at[p]]}]
            BY <1>7, <2>2 DEF RecordEvent, InsertEvent
        <3>3. mirror'.events = mirror.events \cup {<<at[p], NextSequence(mirror)>>}
            BY <1>0, <3>2 DEF Mirror
        <3> QED BY <2>2, <3>1, <3>3
    <2> QED BY <2>1, <2>2
<1> QED BY <1>1, <1>2, <1>3, <1>4, <1>5, <1>6, <1>7 DEF Next, Synchronize, Ingest, Collect

LEMMA StepKeepsSequence ==
    ASSUME TypeOK, SequenceInv, [Next]_vars PROVE SequenceInv'
<1>1. CASE mirror'.events = mirror.events
    BY <1>1 DEF SequenceInv, Sequences, Count
<1>2. CASE mirror'.events = {}
    <2>1. Cardinality({}) = 0 /\ IsFiniteSet({})
        BY FS_EmptySet
    <2> QED BY <1>2, <2>1 DEF SequenceInv, Sequences, Count
<1>3. ASSUME NEW p \in Process, at[p] \notin Mirrored(mirror),
             mirror'.events = mirror.events \cup {<<at[p], Count + 1>>}
      PROVE  SequenceInv'
    <2>1. \A e \in mirror.events : e[1] # at[p]
        BY <1>3 DEF Mirrored
    <2>2. IsFiniteSet(mirror.events) /\ {e[2] : e \in mirror.events} = 1..Cardinality(mirror.events)
        BY DEF SequenceInv, Sequences, Count
    <2> DEFINE F == mirror.events \cup {<<at[p], Cardinality(mirror.events) + 1>>}
    <2>3. /\ IsFiniteSet(F) /\ Cardinality(F) = Cardinality(mirror.events) + 1
          /\ {e[2] : e \in F} = 1..(Cardinality(mirror.events) + 1)
        BY <2>1, <2>2, InsertCounts
    <2>4. mirror'.events = F
        BY <1>3 DEF Count
    <2> HIDE DEF F
    <2> QED BY <2>3, <2>4 DEF SequenceInv, Sequences, Count
<1> QED BY <1>1, <1>2, <1>3, EventsChange

(* The mirror and the collectors keep their types, the collection sequence  *)
(* of the mirror has no gap, and what a collector has read is still in the  *)
(* ledger.                                                                  *)
THEOREM TypeCorrect == Spec => [](TypeOK /\ ReadInv /\ SequenceInv)
<1>1. Init => TypeOK /\ ReadInv /\ SequenceInv
    <2> SUFFICES ASSUME Init PROVE TypeOK /\ ReadInv /\ SequenceInv
        OBVIOUS
    <2>1. mirror \in Mirror /\ mirror.events = {}
        BY DEF Init, Mirror, Empty
    <2>2. SequenceInv
        BY <2>1, FS_EmptySet DEF SequenceInv, Sequences, Count
    <2>3. ledger = << >> /\ Len(ledger) = 0
        BY DEF Init
    <2>4. todo \in [Process -> Seq(Transaction)] /\ Len(Relation) \in Nat
        BY DEF Init
    <2>5. ledger \in Seq(SUBSET Ref) /\ Len(ledger) <= MaxLedger /\ Mirrored(mirror) = {}
        BY <2>1, <2>3 DEF Mirrored
    <2>6. 0 \in 0..MaxLedger /\ 1 \in 1..(MaxLedger + 1) /\ 0 \in 0..Len(Relation) /\ 0 \in 0..MaxFaults
        BY <2>4
    <2>7. ReadInv
        BY <2>3 DEF Init, ReadInv
    <2> QED BY <2>1, <2>2, <2>4, <2>5, <2>6, <2>7 DEF Init, TypeOK
<1>2. TypeOK /\ ReadInv /\ SequenceInv /\ [Next]_vars => (TypeOK /\ ReadInv /\ SequenceInv)'
    <2> SUFFICES ASSUME TypeOK, ReadInv, SequenceInv, [Next]_vars
                 PROVE  TypeOK' /\ ReadInv' /\ SequenceInv'
        OBVIOUS
    <2>1. SequenceInv'
        BY StepKeepsSequence
    <2>2. CASE UNCHANGED vars
        BY <2>1, <2>2 DEF vars, control, sync, TypeOK, ReadInv, Mirrored
    <2> QED BY <2>1, <2>2, DeleteKeepsTypes, RunKeepsTypes, SynchronizeKeepsTypes DEF Next
<1> QED BY <1>1, <1>2, PTL DEF Spec

-----------------------------------------------------------------------------
(* The order of the mirror.                                                 *)

LEMMA MirroredInOrder ==
    ASSUME NEW m, NEW k, m.events = {<<n, n>> : n \in 1..k}
    PROVE  Mirrored(m) = 1..k
<1>1. \A e \in m.events : e[1] \in 1..k
    OBVIOUS
<1>2. \A n \in 1..k : <<n, n>> \in m.events /\ <<n, n>>[1] = n
    OBVIOUS
<1> DEFINE S == {e[1] : e \in m.events}
<1>3. S \subseteq 1..k
    BY <1>1
<1>4. 1..k \subseteq S
    <2> SUFFICES ASSUME NEW n \in 1..k PROVE \E e \in m.events : e[1] = n
        OBVIOUS
    <2> WITNESS <<n, n>> \in m.events
    <2> QED BY <1>2
<1> QED BY <1>3, <1>4 DEF Mirrored

\* Where a step leaves a collector: there, at the start, past a record that
\* is mirrored, or at one that is mirrored now.
Position(q) ==
    \/ at'[q] = at[q] /\ paths'[q] = paths[q]
    \/ at'[q] = 1 /\ paths'[q] = 0
    \/ at'[q] = at[q] + 1 /\ paths'[q] = 0 /\ at[q] \in Mirrored(mirror)
    \/ at'[q] = at[q] /\ at[q] \in Mirrored(mirror')

LEMMA PositionsChange ==
    ASSUME TypeOK, [Next]_vars, NEW q \in Process
    PROVE  Position(q)
<1>0. at \in [Process -> 1..(MaxLedger + 1)] /\ paths \in [Process -> 0..Len(Relation)]
    BY DEF TypeOK
<1>1. CASE UNCHANGED <<at, paths>>
    BY <1>1 DEF Position
<1>2. ASSUME NEW p \in Process, NEW to, Leave(p, to) PROVE Position(q)
    BY <1>0, <1>2 DEF Leave, Position
<1>3. ASSUME NEW p \in Process, Crash(p) \/ Finish(p) \/ Raise(p) PROVE Position(q)
    BY <1>2, <1>3 DEF Crash, Finish, Raise
<1>4. ASSUME NEW p \in Process, ReadLedger(p) PROVE Position(q)
    BY <1>0, <1>4 DEF ReadLedger, Position
<1>5. ASSUME NEW p \in Process, RecordEvent(p) PROVE Position(q)
    <2>1. at[p] \in Mirrored(mirror')
        <3>1. CASE at[p] \in Mirrored(mirror)
            BY <1>5, <3>1 DEF RecordEvent, InsertEvent
        <3>2. CASE at[p] \notin Mirrored(mirror)
            <4>1. mirror' = [mirror EXCEPT !.events = @ \cup {<<at[p], NextSequence(mirror)>>},
                                           !.refs = @ \cup {<<at[p], r>> : r \in ledger[at[p]]}]
                BY <1>5, <3>2 DEF RecordEvent, InsertEvent
            <4>2. <<at[p], NextSequence(mirror)>> \in mirror'.events
                BY <4>1 DEF TypeOK, Mirror
            <4>3. at[p] = <<at[p], NextSequence(mirror)>>[1]
                OBVIOUS
            <4> QED BY <4>2, <4>3 DEF Mirrored
        <3> QED BY <3>1, <3>2
    <2> QED BY <1>0, <1>5, <2>1 DEF RecordEvent, Position
<1>6. ASSUME NEW p \in Process, ObservePath(p) PROVE Position(q)
    <2>1. CASE q # p
        BY <1>0, <1>6, <2>1 DEF ObservePath, Position
    <2>2. CASE q = p /\ paths[p] < Len(Relation)
        <3>1. at' = at
            BY <1>6, <2>2 DEF ObservePath
        <3>2. at[p] \in Mirrored(mirror')
            <4>1. mirror'.events = mirror.events
                BY <1>6 DEF ObservePath, TypeOK, Mirror
            <4> QED BY <1>6, <4>1 DEF ObservePath, Mirrored
        <3> QED BY <2>2, <3>1, <3>2 DEF Position
    <2>3. CASE q = p /\ ~(paths[p] < Len(Relation))
        BY <1>0, <1>6, <2>3 DEF ObservePath, Position
    <2> QED BY <2>1, <2>2, <2>3
<1>7. ASSUME NEW p \in Process,
             \/ \E r \in Ref : Store(p, r)
             \/ \E refs \in SUBSET Ref : AppendRecord(p, refs)
             \/ Checkpoint(p) \/ Open(p) \/ Delete
      PROVE  UNCHANGED <<at, paths>>
    BY <1>7 DEF Store, AppendRecord, Checkpoint, Open, Delete, control, sync
<1>8. ASSUME NEW p \in Process,
             \/ SelectReferences(p) \/ CaptureNext(p) \/ CaptureBlob(p) \/ CaptureSnapshot(p)
             \/ ObserveCaptured(p) \/ ObserveUnavailable(p)
      PROVE  UNCHANGED <<at, paths>>
    BY <1>8 DEF SelectReferences, CaptureNext, CaptureBlob, CaptureSnapshot,
                ObserveCaptured, ObserveUnavailable, Commit
<1>9. CASE UNCHANGED vars
    BY <1>1, <1>9 DEF vars, control, sync
<1> QED BY <1>1, <1>3, <1>4, <1>5, <1>6, <1>7, <1>8, <1>9 DEF Next, Synchronize, Ingest, Collect

LEMMA StepKeepsRest ==
    ASSUME TypeOK, RestInv, [Next]_vars PROVE RestInv'
<1>0. /\ at \in [Process -> 1..(MaxLedger + 1)] /\ paths \in [Process -> 0..Len(Relation)]
      /\ pc \in [Process -> {"down", "idle", "checkpoint", "verify", "ingest", "capture"}]
    BY DEF TypeOK
<1>1. CASE UNCHANGED <<pc, at, paths>>
    BY <1>1 DEF RestInv, Busy
<1>2. ASSUME NEW p \in Process, NEW to \in {"down", "idle"}, Leave(p, to) PROVE RestInv'
    BY <1>0, <1>2 DEF Leave, RestInv, Busy
<1>3. ASSUME NEW p \in Process, Crash(p) \/ Finish(p) \/ Raise(p) PROVE RestInv'
    BY <1>2, <1>3 DEF Crash, Finish, Raise
<1>4. ASSUME NEW p \in Process,
             \/ \E refs \in SUBSET Ref : AppendRecord(p, refs)
             \/ Checkpoint(p) \/ Open(p)
      PROVE  RestInv'
    BY <1>0, <1>4 DEF AppendRecord, Checkpoint, Open, sync, RestInv, Busy
<1>5. ASSUME NEW p \in Process, ReadLedger(p) \/ SelectReferences(p) PROVE RestInv'
    BY <1>0, <1>5 DEF ReadLedger, SelectReferences, RestInv, Busy
<1>6. ASSUME NEW p \in Process, RecordEvent(p) \/ ObservePath(p) PROVE RestInv'
    BY <1>0, <1>6 DEF RecordEvent, ObservePath, RestInv, Busy
<1>7. ASSUME NEW p \in Process,
             \/ \E r \in Ref : Store(p, r)
             \/ CaptureNext(p) \/ CaptureBlob(p) \/ CaptureSnapshot(p)
             \/ ObserveCaptured(p) \/ ObserveUnavailable(p)
      PROVE  UNCHANGED <<pc, at, paths>>
    BY <1>7 DEF Store, control, sync, CaptureNext, CaptureBlob, CaptureSnapshot,
                ObserveCaptured, ObserveUnavailable, Commit
<1>8. CASE Delete \/ UNCHANGED vars
    BY <1>1, <1>8 DEF Delete, vars, control, sync
<1> QED BY <1>1, <1>3, <1>4, <1>5, <1>6, <1>7, <1>8 DEF Next, Synchronize, Ingest, Collect

LEMMA CutShortStays ==
    ASSUME [Next]_vars
    PROVE  \/ cutShort' = cutShort
           \/ Delete /\ cutShort' = (cutShort \/ \E p \in Process : Busy(p))
BY DEF Next, vars, Delete, Store, AppendRecord, Checkpoint, Open, Crash, Synchronize, Ingest,
       Collect, ReadLedger, RecordEvent, ObservePath, SelectReferences, CaptureNext, CaptureBlob,
       CaptureSnapshot, ObserveCaptured, ObserveUnavailable, Commit, Finish, Raise

LEMMA StepKeepsOrder ==
    ASSUME TypeOK, SequenceInv, SequenceInv', RestInv, OrderInv, [Next]_vars
    PROVE  OrderInv'
<1> SUFFICES ASSUME ~cutShort'
             PROVE  /\ mirror'.events = {<<n, n>> : n \in 1..Count'}
                    /\ \A q \in Process : /\ at'[q] - 1 <= Count'
                                          /\ paths'[q] # 0 => at'[q] <= Count'
    BY DEF OrderInv
<1>0. Count \in Nat /\ Count' \in Nat /\ at \in [Process -> 1..(MaxLedger + 1)]
    BY FS_CardinalityType DEF SequenceInv, Count, TypeOK
<1>1. ~cutShort
    BY CutShortStays
<1>2. /\ mirror.events = {<<n, n>> : n \in 1..Count}
      /\ \A q \in Process : at[q] - 1 <= Count /\ (paths[q] # 0 => at[q] <= Count)
    BY <1>1 DEF OrderInv
<1>3. Mirrored(mirror) = 1..Count
    BY <1>2, MirroredInOrder
\* What the collectors' positions follow from.
<1>4. ASSUME mirror'.events = {<<n, n>> : n \in 1..Count'}, Count <= Count', NEW q \in Process
      PROVE  at'[q] - 1 <= Count' /\ (paths'[q] # 0 => at'[q] <= Count')
    <2>1. Mirrored(mirror') = 1..Count'
        BY <1>4, MirroredInOrder
    <2>2. Position(q)
        BY PositionsChange
    <2> QED BY <1>0, <1>2, <1>3, <1>4, <2>1, <2>2 DEF Position
<1>5. CASE mirror'.events = mirror.events
    <2>1. Count' = Count
        BY <1>5 DEF Count
    <2> QED BY <1>0, <1>2, <1>4, <1>5, <2>1
<1>6. CASE Delete /\ mirror'.events = {}
    <2>1. Count' = 0
        BY <1>6, FS_EmptySet DEF Count
    <2>2. \A q \in Process : ~Busy(q)
        BY <1>6 DEF Delete
    <2>3. UNCHANGED <<at, paths>>
        BY <1>6 DEF Delete, control, sync
    <2> QED BY <1>6, <2>1, <2>2, <2>3 DEF RestInv
<1>7. ASSUME NEW p \in Process, at[p] \notin Mirrored(mirror),
             mirror'.events = mirror.events \cup {<<at[p], Count + 1>>}
      PROVE  /\ mirror'.events = {<<n, n>> : n \in 1..Count'}
             /\ Count <= Count'
    <2>1. at[p] = Count + 1
        BY <1>0, <1>2, <1>3, <1>7
    <2>2. <<at[p], Count + 1>> \notin mirror.events
        BY <1>7 DEF Mirrored
    <2>3. Count' = Count + 1
        <3>1. Cardinality(mirror.events \cup {<<at[p], Count + 1>>}) = Cardinality(mirror.events) + 1
            BY <2>2, FS_AddElement DEF SequenceInv
        <3> QED BY <1>7, <3>1 DEF Count
    <2>4. \A e : e \in mirror'.events <=> \E n \in 1..(Count + 1) : e = <<n, n>>
        BY <1>0, <1>2, <1>7, <2>1
    <2> QED BY <1>0, <2>3, <2>4
<1> QED BY <1>4, <1>5, <1>6, <1>7, EventsChange

(* LedgerOrder holds of every run: the mirror holds the first records of the*)
(* ledger in its order, unless it was deleted under a collector, and its    *)
(* collection sequence never has a gap.                                     *)
THEOREM LedgerOrderCorrect == Spec => []LedgerOrder
<1>1. Init => RestInv /\ OrderInv
    <2> SUFFICES ASSUME Init PROVE RestInv /\ OrderInv
        OBVIOUS
    <2>1. mirror.events = {} /\ Count = 0
        BY FS_EmptySet DEF Init, Empty, Count
    <2> QED BY <2>1 DEF Init, RestInv, OrderInv
<1>2. /\ TypeOK /\ ReadInv /\ SequenceInv /\ RestInv /\ OrderInv /\ SequenceInv' /\ [Next]_vars
      => RestInv' /\ OrderInv'
    BY StepKeepsRest, StepKeepsOrder
<1>3. SequenceInv /\ OrderInv => LedgerOrder
    BY DEF SequenceInv, OrderInv, LedgerOrder, Count
<1>4. Spec => [](TypeOK /\ ReadInv /\ SequenceInv)
    BY TypeCorrect
<1> QED BY <1>1, <1>2, <1>3, <1>4, PTL DEF Spec

-----------------------------------------------------------------------------
(* What a finished synchronization has told.  The induction follows every   *)
(* reference of every record that was read: it is among the rows still to   *)
(* be captured, or the transactions left for the current one end by telling *)
(* what became of it, or that is told already.                              *)

\* Only a collector that captures has something left to capture.
QuietInv == \A p \in Process : pc[p] # "capture" => rows[p] = {} /\ todo[p] = << >>

\* Only a deletion takes the tables away from a process that is up.
TablesInv ==
    /\ cutShort => deleted
    /\ ~deleted => \A p \in Process : pc[p] # "down" => mirror.tables

\* A mirrored record has its references with it.
RefsInv == \A n \in Mirrored(mirror) : \A r \in ledger[n] : <<n, r>> \in mirror.refs

\* A collector has observed all paths behind it.
PathsInv ==
    ~cutShort => \A p \in Process :
        /\ \A n \in 1..(at[p] - 1) : \A i \in DOMAIN Relation :
              <<n, Relation[i]>> \in mirror.paths
        /\ \A i \in 1..(paths[p] - 1) : <<at[p], Relation[i]>> \in mirror.paths
        /\ pc[p] = "capture" => at[p] > read[p]

\* Only damage makes a capture fail.
RaiseInv ==
    \A p \in Process : \A i \in DOMAIN todo[p] :
        todo[p][i].kind = "raise" => store[todo[p][i].of] = "damaged"

\* The blobs that have to be there for a reference to be held.
PartsOfRef(r) == IF r \in Artifact THEN {r} ELSE {PartsOf[r][i] : i \in DOMAIN PartsOf[r]}

\* The row of a snapshot comes after the blobs it refers to.
ForeignInv ==
    ~cutShort => \A p \in Process : \A i \in DOMAIN todo[p] :
        todo[p][i].kind = "snapshot" =>
            \A b \in PartsOfRef(todo[p][i].of) :
                \/ b \in mirror.blobs
                \/ \E j \in 1..(i - 1) : todo[p][j].kind = "blob" /\ todo[p][j].of = b

Plans(t, kind, x) == \E i \in DOMAIN t : t[i].kind = kind /\ t[i].of = x
Ends(t, x) == t # << >> /\ t[Len(t)] = x
Captures(t, m, r, k) ==
    \/ Ends(t, Tx("unavailable", r, k)) \/ Ends(t, Tx("raise", r, k))
    \/ /\ Ends(t, Tx("observe", r, k))
       /\ \A b \in PartsOfRef(r) : b \in m.blobs \/ Plans(t, "blob", b)
       /\ r \in Snapshot => r \in m.snapshots \/ Plans(t, "snapshot", r)
Told(m, r, k) ==
    \/ <<r, k>> \in m.unresolved
    \/ /\ <<r, k>> \in m.captured
       /\ PartsOfRef(r) \subseteq m.blobs /\ (r \in Snapshot => r \in m.snapshots)

CaptureInv ==
    ~cutShort => \A p \in Process : pc[p] = "capture" =>
        \A n \in 1..read[p] : \A r \in ledger[n] : \E k \in Record :
            <<r, k>> \in rows[p] \/ Captures(todo[p], mirror, r, k) \/ Told(mirror, r, k)

\* What no step but a deletion takes away.
Grown ==
    /\ mirror.tables => mirror'.tables
    /\ mirror.blobs \subseteq mirror'.blobs /\ mirror.snapshots \subseteq mirror'.snapshots
    /\ mirror.captured \subseteq mirror'.captured
    /\ mirror.unresolved \subseteq mirror'.unresolved
    /\ mirror.paths \subseteq mirror'.paths
    /\ \A n \in DOMAIN ledger : n \in DOMAIN ledger' /\ ledger'[n] = ledger[n]
    /\ \A r \in Ref : store[r] = "damaged" => store'[r] = "damaged"
    /\ cutShort' = cutShort /\ deleted' = deleted

LEMMA StepGrows ==
    ASSUME TypeOK, [Next]_vars PROVE Grown \/ Delete
<1>0. mirror \in Mirror /\ Len(ledger) \in Nat /\ ledger \in Seq(SUBSET Ref)
    BY DEF TypeOK
<1>1. ASSUME NEW p \in Process, \E r \in Ref : Store(p, r) PROVE Grown
    <2>1. PICK r \in Ref : Store(p, r)
        BY <1>1
    <2>2. \A x \in Ref : store[x] = "damaged" => store'[x] = "damaged"
        BY <2>1 DEF Store, TypeOK
    <2> QED BY <2>1, <2>2 DEF Store, Grown
<1>2. ASSUME NEW p \in Process, \E refs \in SUBSET Ref : AppendRecord(p, refs) PROVE Grown
    <2>1. PICK refs \in SUBSET Ref : AppendRecord(p, refs)
        BY <1>2
    <2>2. \A n \in DOMAIN ledger : n \in DOMAIN ledger' /\ ledger'[n] = ledger[n]
        BY <1>0, <2>1 DEF AppendRecord
    <2> QED BY <2>1, <2>2 DEF AppendRecord, Grown
<1>3. ASSUME NEW p \in Process, Checkpoint(p) PROVE Grown
    <2>1. UNION {ledger[i] : i \in DOMAIN ledger} \in SUBSET Ref
        BY DEF TypeOK
    <2>2. \A n \in DOMAIN ledger : n \in DOMAIN ledger' /\ ledger'[n] = ledger[n]
        BY <1>0, <1>3, <2>1 DEF Checkpoint
    <2> QED BY <1>3, <2>2 DEF Checkpoint, Grown
<1>4. ASSUME NEW p \in Process, Open(p) PROVE Grown
    BY <1>0, <1>4 DEF Open, Grown, Mirror
<1>5. ASSUME NEW p \in Process,
             \/ Crash(p) \/ ReadLedger(p) \/ SelectReferences(p) \/ CaptureNext(p) \/ Finish(p)
             \/ Raise(p)
      PROVE  Grown
    BY <1>5 DEF Crash, ReadLedger, SelectReferences, CaptureNext, Finish, Raise, Grown
<1>6. ASSUME NEW p \in Process, RecordEvent(p) PROVE Grown
    BY <1>0, <1>6 DEF RecordEvent, InsertEvent, Grown, Mirror
<1>7. ASSUME NEW p \in Process, ObservePath(p) PROVE Grown
    BY <1>0, <1>7 DEF ObservePath, Grown, Mirror
<1>8. ASSUME NEW p \in Process,
             CaptureBlob(p) \/ CaptureSnapshot(p) \/ ObserveCaptured(p) \/ ObserveUnavailable(p)
      PROVE  Grown
    <2> DEFINE Larger == /\ mirror.tables => mirror'.tables
                         /\ mirror.blobs \subseteq mirror'.blobs
                         /\ mirror.snapshots \subseteq mirror'.snapshots
                         /\ mirror.captured \subseteq mirror'.captured
                         /\ mirror.unresolved \subseteq mirror'.unresolved
                         /\ mirror.paths \subseteq mirror'.paths
    <2>1. ASSUME CaptureBlob(p) PROVE Larger
        BY <1>0, <2>1 DEF CaptureBlob, Commit, Mirror
    <2>2. ASSUME CaptureSnapshot(p) PROVE Larger
        BY <1>0, <2>2 DEF CaptureSnapshot, Commit, Mirror
    <2>3. ASSUME ObserveCaptured(p) PROVE Larger
        BY <1>0, <2>3 DEF ObserveCaptured, Commit, Mirror
    <2>4. ASSUME ObserveUnavailable(p) PROVE Larger
        BY <1>0, <2>4 DEF ObserveUnavailable, Commit, Mirror
    <2>5. Larger
        BY <1>8, <2>1, <2>2, <2>3, <2>4
    <2> QED BY <1>8, <2>5 DEF CaptureBlob, CaptureSnapshot, ObserveCaptured, ObserveUnavailable,
                              Commit, Grown
<1>9. CASE UNCHANGED vars
    BY <1>9 DEF vars, Grown
<1> QED BY <1>1, <1>2, <1>3, <1>4, <1>5, <1>6, <1>7, <1>8, <1>9
        DEF Next, Synchronize, Ingest, Collect

\* What a step does to one collector: nothing, the end of its call, a call
\* that has not begun to mirror, or a step of its synchronization.
Stays(q) == /\ pc'[q] = pc[q] /\ read'[q] = read[q] /\ at'[q] = at[q] /\ paths'[q] = paths[q]
            /\ rows'[q] = rows[q] /\ todo'[q] = todo[q]
Leaves(q) == /\ pc[q] # "down" /\ pc'[q] \in {"down", "idle"} /\ at'[q] = 1 /\ paths'[q] = 0
            /\ rows'[q] = {} /\ todo'[q] = << >>
Waits(q) == /\ pc[q] \notin {"ingest", "capture"} /\ pc'[q] \in {"checkpoint", "verify"}
            /\ at'[q] = at[q] /\ paths'[q] = paths[q]
            /\ rows'[q] = rows[q] /\ todo'[q] = todo[q]
Works(q) == \/ ReadLedger(q) \/ RecordEvent(q) \/ ObservePath(q) \/ SelectReferences(q)
            \/ CaptureNext(q) \/ CaptureBlob(q) \/ CaptureSnapshot(q)
            \/ ObserveCaptured(q) \/ ObserveUnavailable(q)

LEMMA CollectorMoves ==
    ASSUME TypeOK, [Next]_vars, NEW q \in Process
    PROVE  \/ Stays(q) \/ Leaves(q) \/ Works(q)
           \/ Waits(q) /\ (pc[q] = "down" => mirror'.tables)
<1>0. /\ at \in [Process -> 1..(MaxLedger + 1)] /\ paths \in [Process -> 0..Len(Relation)]
      /\ pc \in [Process -> {"down", "idle", "checkpoint", "verify", "ingest", "capture"}]
      /\ read \in [Process -> 0..MaxLedger]
      /\ rows \in [Process -> SUBSET (Ref \X Record)]
      /\ todo \in [Process -> Seq(Transaction)] /\ mirror \in Mirror
    BY DEF TypeOK
<1>1. CASE UNCHANGED <<pc, read, at, paths, rows, todo>>
    BY <1>1 DEF Stays
<1>2. ASSUME NEW p \in Process, NEW to \in {"down", "idle"}, Leave(p, to), pc[p] # "down"
      PROVE  Stays(q) \/ Leaves(q)
    BY <1>0, <1>2 DEF Leave, Stays, Leaves
<1>3. ASSUME NEW p \in Process, Crash(p) \/ Finish(p) \/ Raise(p) PROVE Stays(q) \/ Leaves(q)
    BY <1>2, <1>3 DEF Crash, Finish, Raise
<1>4. ASSUME NEW p \in Process,
             \/ \E refs \in SUBSET Ref : AppendRecord(p, refs)
             \/ Checkpoint(p)
      PROVE  Stays(q) \/ (Waits(q) /\ pc[q] # "down")
    BY <1>0, <1>4 DEF AppendRecord, Checkpoint, sync, Stays, Waits
<1>5. ASSUME NEW p \in Process, Open(p) PROVE Stays(q) \/ (Waits(q) /\ mirror'.tables)
    BY <1>0, <1>5 DEF Open, sync, Stays, Waits, Mirror
<1>6. ASSUME NEW p \in Process, Works(p), p # q PROVE Stays(q)
    BY <1>0, <1>6 DEF Works, Stays, ReadLedger, RecordEvent, ObservePath, SelectReferences,
                      CaptureNext, CaptureBlob, CaptureSnapshot, ObserveCaptured,
                      ObserveUnavailable, Commit
<1>7. ASSUME NEW p \in Process, \E r \in Ref : Store(p, r)
      PROVE  UNCHANGED <<pc, read, at, paths, rows, todo>>
    BY <1>7 DEF Store, control, sync
<1>8. CASE Delete \/ UNCHANGED vars
    BY <1>1, <1>8 DEF Delete, vars, control, sync
<1> QED BY <1>1, <1>3, <1>4, <1>5, <1>6, <1>7, <1>8
        DEF Next, Synchronize, Ingest, Collect, Works

LEMMA StepKeepsQuiet ==
    ASSUME TypeOK, QuietInv, [Next]_vars PROVE QuietInv'
<1> SUFFICES ASSUME NEW q \in Process, pc'[q] # "capture"
             PROVE  rows'[q] = {} /\ todo'[q] = << >>
    BY DEF QuietInv
<1>0. /\ pc \in [Process -> {"down", "idle", "checkpoint", "verify", "ingest", "capture"}]
      /\ pc[q] # "capture" => rows[q] = {} /\ todo[q] = << >>
    BY DEF TypeOK, QuietInv
<1>1. CASE Stays(q) \/ Leaves(q) \/ Waits(q)
    BY <1>0, <1>1 DEF Stays, Leaves, Waits
<1>2. CASE Works(q)
    BY <1>0, <1>2 DEF Works, ReadLedger, RecordEvent, ObservePath, SelectReferences,
                      CaptureNext, CaptureBlob, CaptureSnapshot, ObserveCaptured,
                      ObserveUnavailable, Commit
<1> QED BY <1>1, <1>2, CollectorMoves

LEMMA StepKeepsTables ==
    ASSUME TypeOK, TablesInv, [Next]_vars PROVE TablesInv'
<1>1. CASE Delete
    BY <1>1 DEF Delete, TablesInv
<1>2. CASE Grown
    <2>1. ASSUME ~deleted', NEW q \in Process, pc'[q] # "down", pc[q] = "down"
          PROVE  mirror'.tables
        <3>1. ~Stays(q) /\ ~Works(q)
            BY <2>1 DEF Stays, Works, ReadLedger, RecordEvent, ObservePath, SelectReferences,
                        CaptureNext, CaptureBlob, CaptureSnapshot, ObserveCaptured,
                        ObserveUnavailable, Commit
        <3>2. ~Leaves(q)
            BY <2>1 DEF Leaves
        <3> QED BY <2>1, <3>1, <3>2, CollectorMoves
    <2> QED BY <1>2, <2>1 DEF Grown, TablesInv
<1> QED BY <1>1, <1>2, StepGrows

\* What recording an event adds to the mirror.
LEMMA RecordEventAdds ==
    ASSUME TypeOK, NEW p \in Process, RecordEvent(p)
    PROVE  /\ Mirrored(mirror') = Mirrored(mirror) \cup {at[p]}
           /\ mirror.refs \subseteq mirror'.refs
           /\ at[p] \notin Mirrored(mirror) => \A r \in ledger[at[p]] : <<at[p], r>> \in mirror'.refs
<1>0. mirror \in Mirror
    BY DEF TypeOK
<1>1. CASE at[p] \in Mirrored(mirror)
    <2>1. mirror' = mirror
        BY <1>1 DEF RecordEvent, InsertEvent
    <2> QED BY <1>1, <2>1
<1>2. CASE at[p] \notin Mirrored(mirror)
    <2> DEFINE e == <<at[p], NextSequence(mirror)>>
    <2>1. mirror' = [mirror EXCEPT !.events = @ \cup {e},
                                   !.refs = @ \cup {<<at[p], r>> : r \in ledger[at[p]]}]
        BY <1>2 DEF RecordEvent, InsertEvent
    <2>2. /\ mirror'.events = mirror.events \cup {e}
          /\ mirror'.refs = mirror.refs \cup {<<at[p], r>> : r \in ledger[at[p]]}
        BY <1>0, <2>1 DEF Mirror
    <2>3. e[1] = at[p]
        OBVIOUS
    <2> HIDE DEF e
    <2>4. \A n : n \in Mirrored(mirror') <=> n \in Mirrored(mirror) \/ n = at[p]
        BY <2>2, <2>3 DEF Mirrored
    <2>5. Mirrored(mirror') = Mirrored(mirror) \cup {at[p]}
        BY <2>4
    <2> QED BY <2>2, <2>5
<1> QED BY <1>1, <1>2

LEMMA RefsChange ==
    ASSUME TypeOK, [Next]_vars
    PROVE  \/ Delete
           \/ mirror'.events = mirror.events /\ mirror'.refs = mirror.refs
           \/ \E p \in Process : RecordEvent(p)
<1>0. mirror \in Mirror
    BY DEF TypeOK
<1> DEFINE Same == mirror'.events = mirror.events /\ mirror'.refs = mirror.refs
<1>1. ASSUME NEW p \in Process, Open(p) PROVE Same
    BY <1>0, <1>1 DEF Open, Mirror
<1>2. ASSUME NEW p \in Process,
             \/ \E r \in Ref : Store(p, r)
             \/ \E refs \in SUBSET Ref : AppendRecord(p, refs)
             \/ Checkpoint(p) \/ Crash(p) \/ ReadLedger(p) \/ SelectReferences(p)
             \/ CaptureNext(p) \/ Finish(p) \/ Raise(p)
      PROVE  Same
    BY <1>2 DEF Store, AppendRecord, Checkpoint, Crash, ReadLedger, SelectReferences,
                CaptureNext, Finish, Raise
<1>3. ASSUME NEW p \in Process, ObservePath(p) PROVE Same
    BY <1>0, <1>3 DEF ObservePath, Mirror
<1>4. ASSUME NEW p \in Process, CaptureBlob(p) PROVE Same
    BY <1>0, <1>4 DEF CaptureBlob, Commit, Mirror
<1>5. ASSUME NEW p \in Process, CaptureSnapshot(p) PROVE Same
    BY <1>0, <1>5 DEF CaptureSnapshot, Commit, Mirror
<1>6. ASSUME NEW p \in Process, ObserveCaptured(p) PROVE Same
    BY <1>0, <1>6 DEF ObserveCaptured, Commit, Mirror
<1>7. ASSUME NEW p \in Process, ObserveUnavailable(p) PROVE Same
    BY <1>0, <1>7 DEF ObserveUnavailable, Commit, Mirror
<1>8. CASE UNCHANGED vars
    BY <1>8 DEF vars
<1> QED BY <1>1, <1>2, <1>3, <1>4, <1>5, <1>6, <1>7, <1>8 DEF Next, Synchronize, Ingest, Collect

LEMMA StepKeepsRefs ==
    ASSUME TypeOK, RefsInv, [Next]_vars PROVE RefsInv'
<1>0. Mirrored(mirror) \subseteq DOMAIN ledger
    BY DEF TypeOK
<1>1. CASE Delete
    <2>1. Mirrored(mirror') = {}
        BY <1>1 DEF Delete, Empty, Mirrored
    <2> QED BY <2>1 DEF RefsInv
<1>2. CASE Grown /\ mirror'.events = mirror.events /\ mirror'.refs = mirror.refs
    BY <1>0, <1>2 DEF RefsInv, Grown, Mirrored
<1>3. ASSUME NEW p \in Process, RecordEvent(p) PROVE RefsInv'
    <2>1. ledger' = ledger
        BY <1>3 DEF RecordEvent
    <2> QED BY <1>3, <2>1, RecordEventAdds DEF RefsInv
<1> QED BY <1>1, <1>2, <1>3, RefsChange, StepGrows

\* What happens when the mirror is deleted and nobody is cut short by it.
LEMMA DeletedAtRest ==
    ASSUME Delete, ~cutShort', QuietInv, RestInv
    PROVE  \A q \in Process : /\ pc'[q] = pc[q] /\ pc[q] # "capture" /\ todo'[q] = << >>
                              /\ at'[q] = 1 /\ paths'[q] = 0
<1>1. \A q \in Process : ~Busy(q)
    BY DEF Delete
<1> QED BY <1>1 DEF Delete, control, sync, Busy, RestInv, QuietInv

LEMMA StepKeepsPaths ==
    ASSUME TypeOK, QuietInv, RestInv, PathsInv, [Next]_vars PROVE PathsInv'
<1> SUFFICES ASSUME ~cutShort', NEW q \in Process
             PROVE  /\ \A n \in 1..(at'[q] - 1) : \A i \in DOMAIN Relation :
                          <<n, Relation[i]>> \in mirror'.paths
                    /\ \A i \in 1..(paths'[q] - 1) : <<at'[q], Relation[i]>> \in mirror'.paths
                    /\ pc'[q] = "capture" => at'[q] > read'[q]
    BY DEF PathsInv
<1>0. /\ at \in [Process -> 1..(MaxLedger + 1)] /\ paths \in [Process -> 0..Len(Relation)]
      /\ read \in [Process -> 0..MaxLedger] /\ Len(Relation) \in Nat
      /\ pc \in [Process -> {"down", "idle", "checkpoint", "verify", "ingest", "capture"}]
      /\ mirror \in Mirror
    BY DEF TypeOK
<1>1. CASE Delete
    BY <1>1, DeletedAtRest
<1>2. CASE Grown
    <2>1. /\ \A n \in 1..(at[q] - 1) : \A i \in DOMAIN Relation :
                <<n, Relation[i]>> \in mirror'.paths
          /\ \A i \in 1..(paths[q] - 1) : <<at[q], Relation[i]>> \in mirror'.paths
          /\ pc[q] = "capture" => at[q] > read[q]
        BY <1>2 DEF Grown, PathsInv
    <2>2. CASE Stays(q) \/ Leaves(q) \/ Waits(q)
        BY <1>0, <2>1, <2>2 DEF Stays, Leaves, Waits
    <2>3. CASE ReadLedger(q)
        BY <1>0, <2>3 DEF ReadLedger
    <2>4. CASE RecordEvent(q)
        BY <1>0, <2>1, <2>4 DEF RecordEvent
    <2>5. CASE ObservePath(q)
        <3>1. mirror'.paths = mirror.paths \cup {<<at[q], Relation[paths[q]]>>}
            BY <1>0, <2>5 DEF ObservePath, Mirror
        <3>2. \A i \in 1..paths[q] : <<at[q], Relation[i]>> \in mirror'.paths
            BY <1>0, <2>1, <2>5, <3>1 DEF ObservePath
        <3>3. CASE paths[q] < Len(Relation)
            <4>1. at'[q] = at[q] /\ paths'[q] = paths[q] + 1 /\ pc'[q] = "ingest"
                BY <1>0, <2>5, <3>3 DEF ObservePath
            <4>2. paths[q] \in Nat
                BY ONLY <1>0
            <4>3. (paths[q] + 1) - 1 = paths[q]
                BY ONLY <4>2
            <4> QED BY ONLY <2>1, <3>2, <4>1, <4>3
        <3>4. CASE ~(paths[q] < Len(Relation))
            <4>1. at'[q] = at[q] + 1 /\ paths'[q] = 0 /\ pc'[q] = "ingest"
                BY <1>0, <2>5, <3>4 DEF ObservePath
            <4>2. paths[q] = Len(Relation) /\ DOMAIN Relation = 1..paths[q]
                BY <1>0, <2>5, <3>4 DEF ObservePath
            <4> QED BY <1>0, <2>1, <3>2, <4>1, <4>2
        <3> QED BY <3>3, <3>4
    <2>6. CASE SelectReferences(q)
        BY <1>0, <2>1, <2>6 DEF SelectReferences
    <2>7. CASE \/ CaptureNext(q) \/ CaptureBlob(q) \/ CaptureSnapshot(q)
               \/ ObserveCaptured(q) \/ ObserveUnavailable(q)
        BY <2>1, <2>7 DEF CaptureNext, CaptureBlob, CaptureSnapshot, ObserveCaptured,
                          ObserveUnavailable, Commit
    <2> QED BY <2>2, <2>3, <2>4, <2>5, <2>6, <2>7, CollectorMoves DEF Works
<1> QED BY <1>1, <1>2, StepGrows

LEMMA TwoMore ==
    ASSUME NEW S, NEW q \in Seq(S), NEW x \in S, NEW y \in S
    PROVE  LET t == q \o <<x, y>> IN
           /\ t \in Seq(S) /\ Len(t) = Len(q) + 2 /\ Len(q) \in Nat /\ DOMAIN t = 1..(Len(q) + 2)
           /\ \A i \in 1..Len(q) : t[i] = q[i]
           /\ t[Len(q) + 1] = x /\ t[Len(q) + 2] = y
<1>1. <<x, y>> \in Seq(S) /\ Len(<<x, y>>) = 2 /\ <<x, y>>[1] = x /\ <<x, y>>[2] = y
    OBVIOUS
<1> DEFINE t == q \o <<x, y>>
<1>2. /\ t \in Seq(S) /\ Len(t) = Len(q) + Len(<<x, y>>)
      /\ \A i \in 1..(Len(q) + Len(<<x, y>>)) :
            t[i] = IF i <= Len(q) THEN q[i] ELSE <<x, y>>[i - Len(q)]
    BY <1>1, ConcatProperties
<1> HIDE DEF t
<1>3. Len(q) \in Nat /\ DOMAIN t = 1..(Len(q) + 2) /\ Len(t) = Len(q) + 2
    BY <1>1, <1>2, LenProperties
<1>4. \A i \in 1..Len(q) : t[i] = q[i]
    BY <1>1, <1>2, <1>3
<1>5. t[Len(q) + 1] = <<x, y>>[1] /\ t[Len(q) + 2] = <<x, y>>[2]
    <2>1. (Len(q) + 1) - Len(q) = 1 /\ (Len(q) + 2) - Len(q) = 2
        BY <1>3
    <2>2. /\ Len(q) + 1 \in 1..(Len(q) + Len(<<x, y>>)) /\ ~(Len(q) + 1 <= Len(q))
          /\ Len(q) + 2 \in 1..(Len(q) + Len(<<x, y>>)) /\ ~(Len(q) + 2 <= Len(q))
        BY <1>1, <1>3
    <2> QED BY <1>2, <2>1, <2>2
<1> QED BY <1>1, <1>2, <1>3, <1>4, <1>5 DEF t

\* The transactions for the parts of a snapshot insert the blob of each.
LEMMA PartTxsInsertParts ==
    ASSUME NEW r \in Snapshot, NEW n \in Record
    PROVE  /\ PartTxs(r, n) \in Seq(Transaction)
           /\ \A i \in DOMAIN PartTxs(r, n) : PartTxs(r, n)[i].kind \in {"blob", "observe"}
           /\ \A b \in PartsOfRef(r) : \E i \in DOMAIN PartTxs(r, n) :
                 PartTxs(r, n)[i].kind = "blob" /\ PartTxs(r, n)[i].of = b
<1>1. PartsOf[r] \in Seq(Blob) /\ Len(PartsOf[r]) \in Nat /\ 2 * Len(PartsOf[r]) \in Nat
    OBVIOUS
<1> DEFINE k == 2 * Len(PartsOf[r])
           entry(i) == Tx(IF i % 2 = 1 THEN "blob" ELSE "observe", PartsOf[r][(i + 1) \div 2], n)
<1>2. ASSUME NEW i \in 1..k PROVE entry(i) \in Transaction /\ entry(i).kind \in {"blob", "observe"}
    <2>1. (i + 1) \div 2 \in 1..Len(PartsOf[r])
        BY <1>1
    <2>2. PartsOf[r][(i + 1) \div 2] \in Blob
        BY <1>1, <2>1
    <2> QED BY <2>2 DEF Tx, Transaction, Blob
<1>3. PartTxs(r, n) = [i \in 1..k |-> entry(i)]
    BY DEF PartTxs
<1>4. PartTxs(r, n) \in Seq(Transaction) /\ DOMAIN PartTxs(r, n) = 1..k
    <2> HIDE DEF entry
    <2> QED BY <1>1, <1>2, <1>3
<1>5. ASSUME NEW b \in PartsOfRef(r)
      PROVE  \E i \in 1..k : entry(i).kind = "blob" /\ entry(i).of = b
    <2>1. PICK j \in 1..Len(PartsOf[r]) : PartsOf[r][j] = b
        BY <1>1, RefAssumption DEF PartsOfRef
    <2>2. 2 * j - 1 \in 1..k /\ (2 * j - 1) % 2 = 1 /\ ((2 * j - 1) + 1) \div 2 = j
        BY <1>1
    <2>3. entry(2 * j - 1).kind = "blob" /\ entry(2 * j - 1).of = b
        BY <2>1, <2>2 DEF Tx
    <2> HIDE DEF entry, k
    <2> QED BY <2>2, <2>3
<1>6. \A i \in 1..k : PartTxs(r, n)[i] = entry(i)
    BY <1>3
<1> HIDE DEF entry, k
<1>7. \A i \in 1..k : PartTxs(r, n)[i].kind \in {"blob", "observe"}
    BY <1>2, <1>6
<1>8. \A b \in PartsOfRef(r) : \E i \in 1..k :
         PartTxs(r, n)[i].kind = "blob" /\ PartTxs(r, n)[i].of = b
    BY <1>5, <1>6
<1> QED BY <1>4, <1>7, <1>8

\* What a capture does about the reference: it fails over damage only, puts
\* the row of a snapshot after its blobs, and ends by telling.
LEMMA CapturePlans ==
    ASSUME TypeOK, NEW r \in Ref, NEW n \in Record
    PROVE  LET t == Capture(r, n) IN
           /\ \A i \in DOMAIN t : t[i].kind = "raise" => store[t[i].of] = "damaged"
           /\ \A i \in DOMAIN t : t[i].kind = "snapshot" =>
                 \A b \in PartsOfRef(t[i].of) :
                    \E j \in 1..(i - 1) : t[j].kind = "blob" /\ t[j].of = b
           /\ Captures(t, mirror, r, n)
<1> DEFINE t == Capture(r, n)
<1>0. store[r] \in {"absent", "whole", "damaged"}
    BY DEF TypeOK
<1>1. CASE store[r] = "absent"
    BY <1>1 DEF Capture, Tx, Captures, Ends
<1>2. CASE r \in Artifact /\ store[r] = "whole"
    <2>1. t = << Tx("blob", r, n), Tx("observe", r, n) >>
        BY <1>2 DEF Capture, BlobTxs
    <2>2. PartsOfRef(r) = {r} /\ r \notin Snapshot
        BY <1>2, RefAssumption DEF PartsOfRef
    <2>3. /\ DOMAIN t = 1..2 /\ Len(t) = 2 /\ t # << >> /\ t[2] = Tx("observe", r, n)
          /\ t[1].kind = "blob" /\ t[1].of = r /\ t[2].kind = "observe"
        BY <2>1 DEF Tx
    <2> HIDE DEF t
    <2>4. Plans(t, "blob", r) /\ Ends(t, Tx("observe", r, n))
        BY <2>3 DEF Plans, Ends
    <2>5. \A i \in DOMAIN t : t[i].kind \in {"blob", "observe"}
        BY <2>3
    <2> QED BY <2>2, <2>4, <2>5 DEF Captures, t
<1>3. CASE r \in Artifact /\ store[r] = "damaged"
    BY <1>3 DEF Capture, Tx, Captures, Ends
<1>4. CASE r \in Snapshot /\ store[r] = "whole"
    <2> DEFINE q == PartTxs(r, n)
    <2>1. /\ q \in Seq(Transaction) /\ Len(q) \in Nat /\ DOMAIN q = 1..Len(q)
          /\ \A i \in DOMAIN q : q[i].kind \in {"blob", "observe"}
          /\ \A b \in PartsOfRef(r) : \E i \in DOMAIN q : q[i].kind = "blob" /\ q[i].of = b
        BY <1>4, PartTxsInsertParts
    <2>2. t = q \o << Tx("snapshot", r, n), Tx("observe", r, n) >>
        BY <1>4, RefAssumption DEF Capture
    <2> HIDE DEF q, t
    <2>3. /\ Len(t) = Len(q) + 2 /\ DOMAIN t = 1..(Len(q) + 2)
          /\ \A i \in 1..Len(q) : t[i] = q[i]
          /\ t[Len(q) + 1] = Tx("snapshot", r, n) /\ t[Len(q) + 2] = Tx("observe", r, n)
        <3>1. Tx("snapshot", r, n) \in Transaction /\ Tx("observe", r, n) \in Transaction
            BY <1>4 DEF Tx, Transaction, Ref
        <3> QED BY <2>1, <2>2, <3>1, TwoMore
    <2>4. ASSUME NEW i \in DOMAIN t, t[i].kind \in {"raise", "snapshot"} PROVE i = Len(q) + 1
        <3>1. Tx("observe", r, n).kind = "observe" /\ (i \in 1..Len(q) => t[i].kind \in {"blob", "observe"})
            BY <2>1, <2>3 DEF Tx
        <3>2. i \in 1..(Len(q) + 2) /\ i # Len(q) + 2 /\ i \notin 1..Len(q)
            BY <2>3, <2>4, <3>1
        <3>3. Len(q) \in Nat
            BY <2>1
        <3> QED BY ONLY <3>2, <3>3
    <2>5. t[Len(q) + 1].kind = "snapshot" /\ t[Len(q) + 1].of = r
        BY <2>3 DEF Tx
    <2>6. Ends(t, Tx("observe", r, n))
        BY <2>1, <2>3 DEF Ends
    <2>7. Plans(t, "snapshot", r) /\ \A b \in PartsOfRef(r) : Plans(t, "blob", b)
        <3>1. Len(q) + 1 \in DOMAIN t /\ \A i \in DOMAIN q : i \in DOMAIN t /\ t[i] = q[i]
            BY <2>1, <2>3
        <3>2. ASSUME NEW b \in PartsOfRef(r)
              PROVE  \E i \in DOMAIN t : t[i].kind = "blob" /\ t[i].of = b
            <4>1. PICK i \in DOMAIN q : q[i].kind = "blob" /\ q[i].of = b
                BY <2>1
            <4> QED BY <3>1, <4>1
        <3> QED BY <2>5, <3>1, <3>2 DEF Plans
    <2>8. \A b \in PartsOfRef(r) : \E j \in 1..((Len(q) + 1) - 1) : t[j].kind = "blob" /\ t[j].of = b
        BY <2>1, <2>3
    <2>9. \A i \in DOMAIN t : t[i].kind # "raise"
        BY <2>4, <2>5
    <2>10. \A i \in DOMAIN t : t[i].kind = "snapshot" =>
                 \A b \in PartsOfRef(t[i].of) :
                    \E j \in 1..(i - 1) : t[j].kind = "blob" /\ t[j].of = b
        <3> SUFFICES ASSUME NEW i \in DOMAIN t, t[i].kind = "snapshot"
                     PROVE  \A b \in PartsOfRef(t[i].of) :
                               \E j \in 1..(i - 1) : t[j].kind = "blob" /\ t[j].of = b
            OBVIOUS
        <3>1. i = Len(q) + 1 /\ t[i].of = r
            BY <2>4, <2>5
        <3> QED BY <2>8, <3>1
    <2> QED BY <2>6, <2>7, <2>9, <2>10 DEF Captures, t
<1>5. CASE r \in Snapshot /\ store[r] = "damaged"
    <2> DEFINE b == Head(PartsOf[r])
               x == Tx("blob", b, n)
               y == Tx("observe", b, n)
               z == Tx("raise", r, n)
    <2>1. t = <<x, y>> \o <<z>>
        BY <1>5, RefAssumption DEF Capture, BlobTxs
    <2>2. x.kind = "blob" /\ y.kind = "observe" /\ z.kind = "raise" /\ z.of = r
        BY DEF Tx
    <2> HIDE DEF x, y, z, t
    <2>3. /\ <<x, y>> \in Seq({x, y, z}) /\ Len(<<x, y>>) = 2 /\ <<x, y>>[1] = x /\ <<x, y>>[2] = y
          /\ <<z>> \in Seq({x, y, z}) /\ Len(<<z>>) = 1 /\ <<z>>[1] = z
        OBVIOUS
    <2>4. DOMAIN t = 1..3 /\ Len(t) = 3 /\ t # << >> /\ t[1] = x /\ t[2] = y /\ t[3] = z
        <3>1. /\ t \in Seq({x, y, z}) /\ Len(t) = 3
              /\ \A i \in 1..3 : t[i] = IF i <= 2 THEN <<x, y>>[i] ELSE <<z>>[i - 2]
            BY <2>1, <2>3, ConcatProperties
        <3>2. DOMAIN t = 1..3 /\ t # << >>
            <4>1. DOMAIN t = 1..Len(t)
                BY <3>1, LenProperties
            <4>2. Len(t) = 3
                BY <3>1
            <4>3. t # << >>
                BY ONLY <4>2
            <4> QED BY ONLY <4>1, <4>2, <4>3
        <3>3. t[1] = <<x, y>>[1] /\ t[2] = <<x, y>>[2] /\ t[3] = <<z>>[3 - 2] /\ 3 - 2 = 1
            BY <3>1
        <3> QED BY <2>3, <3>1, <3>2, <3>3
    <2>5. Ends(t, z) /\ \A i \in DOMAIN t : t[i] = z \/ t[i].kind \in {"blob", "observe"}
        BY <2>2, <2>4 DEF Ends
    <2> QED BY <1>5, <2>2, <2>5 DEF Captures, t, z
<1> QED BY <1>0, <1>1, <1>2, <1>3, <1>4, <1>5 DEF Ref

\* A transaction is taken off the list and has its effect.
CommitsOne(q) == \/ CaptureBlob(q) \/ CaptureSnapshot(q)
                 \/ ObserveCaptured(q) \/ ObserveUnavailable(q)

LEMMA CommitPops ==
    ASSUME TypeOK, NEW q \in Process, CommitsOne(q)
    PROVE  LET t == todo[q]
               u == todo'[q]
           IN  /\ Len(t) \in Nat \ {0} /\ DOMAIN t = 1..Len(t)
               /\ Len(u) = Len(t) - 1 /\ DOMAIN u = 1..(Len(t) - 1)
               /\ \A i \in 1..(Len(t) - 1) : u[i] = t[i + 1]
               /\ pc[q] = "capture" /\ read'[q] = read[q] /\ rows'[q] = rows[q]
               /\ t[1].kind # "raise"
               /\ t[1].kind = "blob" => t[1].of \in mirror'.blobs
               /\ t[1].kind = "snapshot" => t[1].of \in mirror'.snapshots
               /\ t[1].kind = "observe" => <<t[1].of, t[1].record>> \in mirror'.captured
               /\ t[1].kind = "unavailable" => <<t[1].of, t[1].record>> \in mirror'.unresolved
<1> DEFINE t == todo[q]
<1>0. mirror \in Mirror /\ t \in Seq(Transaction) /\ todo \in [Process -> Seq(Transaction)]
    BY DEF TypeOK
<1>1. /\ t # << >> /\ todo'[q] = Tail(t)
      /\ pc[q] = "capture" /\ read'[q] = read[q] /\ rows'[q] = rows[q]
    BY <1>0 DEF CommitsOne, CaptureBlob, CaptureSnapshot, ObserveCaptured, ObserveUnavailable,
                Commit
<1>2. /\ Len(t) \in Nat \ {0} /\ DOMAIN t = 1..Len(t)
      /\ Tail(t) \in Seq(Transaction) /\ Len(Tail(t)) = Len(t) - 1
      /\ \A i \in 1..(Len(t) - 1) : Tail(t)[i] = t[i + 1]
    BY <1>0, <1>1, EmptySeq, LenProperties, HeadTailProperties
<1>3. DOMAIN Tail(t) = 1..(Len(t) - 1)
    BY <1>2, LenProperties
<1>4. Head(t) = t[1]
    BY <1>0, <1>1
<1> DEFINE Done == /\ t[1].kind # "raise"
                   /\ t[1].kind = "blob" => t[1].of \in mirror'.blobs
                   /\ t[1].kind = "snapshot" => t[1].of \in mirror'.snapshots
                   /\ t[1].kind = "observe" => <<t[1].of, t[1].record>> \in mirror'.captured
                   /\ t[1].kind = "unavailable" => <<t[1].of, t[1].record>> \in mirror'.unresolved
<1>5. ASSUME CaptureBlob(q) PROVE Done
    BY <1>0, <1>4, <1>5 DEF CaptureBlob, Commit, Mirror
<1>6. ASSUME CaptureSnapshot(q) PROVE Done
    BY <1>0, <1>4, <1>6 DEF CaptureSnapshot, Commit, Mirror
<1>7. ASSUME ObserveCaptured(q) PROVE Done
    BY <1>0, <1>4, <1>7 DEF ObserveCaptured, Commit, Mirror
<1>8. ASSUME ObserveUnavailable(q) PROVE Done
    BY <1>0, <1>4, <1>8 DEF ObserveUnavailable, Commit, Mirror
<1>9. Done
    BY <1>5, <1>6, <1>7, <1>8 DEF CommitsOne
<1> HIDE DEF Done
<1>10. todo'[q] = Tail(t) /\ pc[q] = "capture" /\ read'[q] = read[q] /\ rows'[q] = rows[q]
    BY <1>1
<1> QED BY <1>2, <1>3, <1>9, <1>10 DEF Done

\* What the other steps of a synchronization do to the list.
LEMMA ListMoves ==
    ASSUME TypeOK, QuietInv, NEW q \in Process, Works(q)
    PROVE  \/ CommitsOne(q)
           \/ todo'[q] = << >>
           \/ /\ CaptureNext(q) /\ pc[q] = "capture" /\ todo[q] = << >>
              /\ \E row \in rows[q] :
                    /\ row[1] \in Ref /\ row[2] \in Record
                    /\ rows'[q] = rows[q] \ {row}
                    /\ todo'[q] = Capture(row[1], row[2])
<1>0. /\ todo \in [Process -> Seq(Transaction)] /\ rows \in [Process -> SUBSET (Ref \X Record)]
    BY DEF TypeOK
<1>1. CASE ReadLedger(q) \/ RecordEvent(q) \/ ObservePath(q)
    BY <1>1 DEF ReadLedger, RecordEvent, ObservePath, QuietInv
<1>2. CASE SelectReferences(q)
    BY <1>0, <1>2 DEF SelectReferences
<1>3. CASE CaptureNext(q)
    <2>1. PICK row \in rows[q] : /\ rows' = [rows EXCEPT ![q] = @ \ {row}]
                                 /\ todo' = [todo EXCEPT ![q] = Capture(row[1], row[2])]
        BY <1>3 DEF CaptureNext
    <2>2. row[1] \in Ref /\ row[2] \in Record
        BY <1>0
    <2>3. rows'[q] = rows[q] \ {row} /\ todo'[q] = Capture(row[1], row[2])
        BY <1>0, <2>1
    <2> QED BY <1>3, <2>2, <2>3 DEF CaptureNext
<1> QED BY <1>1, <1>2, <1>3 DEF Works, CommitsOne

LEMMA StepKeepsRaise ==
    ASSUME TypeOK, QuietInv, RaiseInv, [Next]_vars PROVE RaiseInv'
<1> SUFFICES ASSUME NEW q \in Process, NEW i \in DOMAIN todo'[q], todo'[q][i].kind = "raise"
             PROVE  store'[todo'[q][i].of] = "damaged"
    BY DEF RaiseInv
<1>0. todo \in [Process -> Seq(Transaction)]
    BY DEF TypeOK
<1>1. ASSUME NEW k \in DOMAIN todo[q], todo[q][k].kind = "raise"
      PROVE  store[todo[q][k].of] = "damaged" /\ todo[q][k].of \in Ref
    <2>1. todo[q][k] \in Transaction
        BY <1>0
    <2> QED BY <1>1, <2>1 DEF RaiseInv, Transaction
<1>2. \A r \in Ref : store[r] = "damaged" => store'[r] = "damaged"
    BY StepGrows DEF Grown, Delete
<1>3. CASE todo'[q] = << >>
    BY <1>3
<1>4. CASE todo'[q] = todo[q]
    BY <1>1, <1>2, <1>4
<1>5. CASE CommitsOne(q)
    <2>1. i + 1 \in DOMAIN todo[q] /\ todo'[q][i] = todo[q][i + 1]
        <3>1. /\ Len(todo[q]) \in Nat \ {0} /\ DOMAIN todo[q] = 1..Len(todo[q])
              /\ DOMAIN todo'[q] = 1..(Len(todo[q]) - 1)
              /\ \A j \in 1..(Len(todo[q]) - 1) : todo'[q][j] = todo[q][j + 1]
            BY <1>5, CommitPops
        <3> QED BY <3>1
    <2> QED BY <1>1, <1>2, <2>1
<1>6. ASSUME NEW r \in Ref, NEW n \in Record, todo'[q] = Capture(r, n), CaptureNext(q)
      PROVE  store'[todo'[q][i].of] = "damaged"
    <2>1. store' = store
        BY <1>6 DEF CaptureNext
    <2>2. \A j \in DOMAIN Capture(r, n) :
             Capture(r, n)[j].kind = "raise" => store[Capture(r, n)[j].of] = "damaged"
        BY CapturePlans
    <2> QED BY <1>6, <2>1, <2>2
<1> QED BY <1>3, <1>4, <1>5, <1>6, ListMoves, CollectorMoves DEF Stays, Leaves, Waits

LEMMA StepKeepsForeign ==
    ASSUME TypeOK, QuietInv, RestInv, ForeignInv, [Next]_vars PROVE ForeignInv'
<1> SUFFICES ASSUME ~cutShort', NEW q \in Process, NEW i \in DOMAIN todo'[q],
                    todo'[q][i].kind = "snapshot", NEW b \in PartsOfRef(todo'[q][i].of)
             PROVE  \/ b \in mirror'.blobs
                    \/ \E j \in 1..(i - 1) : todo'[q][j].kind = "blob" /\ todo'[q][j].of = b
    BY DEF ForeignInv
<1>1. CASE todo'[q] = << >>
    BY <1>1
<1>2. CASE Delete
    BY <1>1, <1>2, DeletedAtRest
<1>3. CASE Grown
    <2>1. ASSUME NEW k \in DOMAIN todo[q], todo[q][k].kind = "snapshot", b \in PartsOfRef(todo[q][k].of)
          PROVE  \/ b \in mirror'.blobs
                 \/ \E j \in 1..(k - 1) : todo[q][j].kind = "blob" /\ todo[q][j].of = b
        <3>1. ~cutShort /\ mirror.blobs \subseteq mirror'.blobs
            BY <1>3 DEF Grown
        <3>2. \A x \in PartsOfRef(todo[q][k].of) :
                 \/ x \in mirror.blobs
                 \/ \E j \in 1..(k - 1) : todo[q][j].kind = "blob" /\ todo[q][j].of = x
            BY <2>1, <3>1 DEF ForeignInv
        <3> QED BY <2>1, <3>1, <3>2
    <2>2. CASE todo'[q] = todo[q]
        BY <2>1, <2>2
    <2>3. CASE CommitsOne(q)
        <3>1. /\ Len(todo[q]) \in Nat \ {0} /\ DOMAIN todo[q] = 1..Len(todo[q])
              /\ DOMAIN todo'[q] = 1..(Len(todo[q]) - 1)
              /\ \A j \in 1..(Len(todo[q]) - 1) : todo'[q][j] = todo[q][j + 1]
              /\ todo[q][1].kind = "blob" => todo[q][1].of \in mirror'.blobs
            BY <2>3, CommitPops
        <3>2. i + 1 \in DOMAIN todo[q] /\ todo'[q][i] = todo[q][i + 1]
            BY <3>1
        <3>3. \/ b \in mirror'.blobs
              \/ \E j \in 1..((i + 1) - 1) : todo[q][j].kind = "blob" /\ todo[q][j].of = b
            BY <2>1, <3>2
        <3>4. ASSUME NEW j \in 1..i, todo[q][j].kind = "blob", todo[q][j].of = b
              PROVE  \/ b \in mirror'.blobs
                     \/ \E x \in 1..(i - 1) : todo'[q][x].kind = "blob" /\ todo'[q][x].of = b
            <4>1. CASE j = 1
                BY <3>1, <3>4, <4>1
            <4>2. CASE j # 1
                <5>1. j - 1 \in 1..(i - 1) /\ j - 1 \in 1..(Len(todo[q]) - 1) /\ (j - 1) + 1 = j
                    BY <3>1, <4>2
                <5>2. todo'[q][j - 1] = todo[q][j]
                    BY <3>1, <5>1
                <5> QED BY <3>4, <5>1, <5>2
            <4> QED BY <4>1, <4>2
        <3>5. (i + 1) - 1 = i
            BY <3>1
        <3> QED BY <3>3, <3>4, <3>5
    <2>4. ASSUME NEW r \in Ref, NEW n \in Record, todo'[q] = Capture(r, n)
          PROVE  \E j \in 1..(i - 1) : todo'[q][j].kind = "blob" /\ todo'[q][j].of = b
        <3>0. TypeOK
            OBVIOUS
        <3>1. \A k \in DOMAIN Capture(r, n) : Capture(r, n)[k].kind = "snapshot" =>
                 \A x \in PartsOfRef(Capture(r, n)[k].of) :
                    \E j \in 1..(k - 1) : Capture(r, n)[j].kind = "blob" /\ Capture(r, n)[j].of = x
            BY ONLY <3>0, r \in Ref, n \in Record, CapturePlans
        <3>2. /\ i \in DOMAIN Capture(r, n) /\ Capture(r, n)[i].kind = "snapshot"
              /\ b \in PartsOfRef(Capture(r, n)[i].of)
            BY <2>4
        <3>3. \E j \in 1..(i - 1) : Capture(r, n)[j].kind = "blob" /\ Capture(r, n)[j].of = b
            BY <3>1, <3>2
        <3> QED BY <2>4, <3>3
    <2> QED BY <1>1, <2>2, <2>3, <2>4, ListMoves, CollectorMoves DEF Stays, Leaves, Waits
<1> QED BY <1>2, <1>3, StepGrows

(* Of the records a reference is in, one comes first in the order of their  *)
(* identifiers.                                                             *)
LEMMA FirstByRank ==
    ASSUME NEW S \in SUBSET Record, S # {}
    PROVE  \E n \in S : \A k \in S : Rank[n] <= Rank[k]
<1> DEFINE before(n) == {k \in S : Rank[k] < Rank[n]}
           T == {before(n) : n \in S}
<1>1. IsFiniteSet(S)
    <2>1. IsFiniteSet(Record)
        BY FS_Interval DEF Record
    <2> QED BY <2>1, FS_Subset
<1>2. ASSUME NEW n \in S PROVE before(n) \in FiniteSubsetsOf(S)
    <2>1. before(n) \in SUBSET S
        OBVIOUS
    <2> HIDE DEF before
    <2> QED BY <1>1, <2>1, FS_Subset DEF FiniteSubsetsOf
<1>3. T \subseteq FiniteSubsetsOf(S) /\ T # {}
    <2> HIDE DEF before
    <2> QED BY <1>2
<1>4. PICK x \in T : \A y \in T : ~(<<y, x>> \in StrictSubsetOrdering(S))
    <2> HIDE DEF T
    <2> QED BY <1>3, FS_StrictSubsetOrderingWellFounded, WFMin
<1>5. PICK n \in S : x = before(n)
    OBVIOUS
<1>6. ASSUME NEW k \in S, Rank[k] < Rank[n] PROVE FALSE
    <2>0. \A m \in S : Rank[m] \in Int
        BY RankAssumption
    <2>1. k \in before(n) /\ k \notin before(k) /\ \A m \in before(k) : m \in before(n)
        BY <1>6, <2>0
    <2>2. before(k) \in T /\ before(k) \in SUBSET S /\ before(n) \in SUBSET S
        OBVIOUS
    <2> HIDE DEF before, T
    <2> QED BY <1>4, <1>5, <2>1, <2>2 DEF StrictSubsetOrdering
<1>7. \A k \in S : Rank[n] <= Rank[k]
    BY <1>6, RankAssumption
<1> QED BY <1>7

\* A reference that is told stays told, and one whose list is not begun stays so.
LEMMA GrownKeeps ==
    ASSUME Grown, NEW t, NEW r, NEW k
    PROVE  /\ Captures(t, mirror, r, k) => Captures(t, mirror', r, k)
           /\ Told(mirror, r, k) => Told(mirror', r, k)
BY DEF Grown, Captures, Told

\* One transaction later the list still ends by telling, or it is told.
LEMMA CommitTells ==
    ASSUME TypeOK, Grown, NEW q \in Process, CommitsOne(q), NEW r \in Ref, NEW k \in Record,
           Captures(todo[q], mirror, r, k)
    PROVE  Captures(todo'[q], mirror', r, k) \/ Told(mirror', r, k)
<1> DEFINE t == todo[q]
           u == todo'[q]
<1>1. /\ Len(t) \in Nat \ {0} /\ DOMAIN t = 1..Len(t)
      /\ Len(u) = Len(t) - 1 /\ DOMAIN u = 1..(Len(t) - 1)
      /\ \A i \in 1..(Len(t) - 1) : u[i] = t[i + 1]
      /\ t[1].kind # "raise"
      /\ t[1].kind = "blob" => t[1].of \in mirror'.blobs
      /\ t[1].kind = "snapshot" => t[1].of \in mirror'.snapshots
      /\ t[1].kind = "observe" => <<t[1].of, t[1].record>> \in mirror'.captured
      /\ t[1].kind = "unavailable" => <<t[1].of, t[1].record>> \in mirror'.unresolved
    BY CommitPops
<1>2. Captures(t, mirror', r, k)
    BY GrownKeeps
<1> HIDE DEF t, u
<1>3. CASE Len(t) = 1
    <2>1. CASE Ends(t, Tx("unavailable", r, k)) \/ Ends(t, Tx("raise", r, k))
        <3>1. t[1].of = r /\ t[1].record = k /\ t[1].kind \in {"unavailable", "raise"}
            BY <1>3, <2>1 DEF Ends, Tx
        <3> QED BY <1>1, <3>1 DEF Told
    <2>2. CASE Ends(t, Tx("observe", r, k)) /\ ~Ends(t, Tx("unavailable", r, k))
               /\ ~Ends(t, Tx("raise", r, k))
        <3>1. t[1].kind = "observe" /\ t[1].of = r /\ t[1].record = k
            BY <1>3, <2>2 DEF Ends, Tx
        <3>2. \A i \in DOMAIN t : t[i].kind = "observe"
            BY <1>1, <1>3, <3>1
        <3>3. \A b : ~Plans(t, "blob", b) /\ ~Plans(t, "snapshot", b)
            BY <3>2 DEF Plans
        <3>4. PartsOfRef(r) \subseteq mirror'.blobs /\ (r \in Snapshot => r \in mirror'.snapshots)
            BY <1>2, <2>2, <3>3 DEF Captures
        <3> QED BY <1>1, <3>1, <3>4 DEF Told
    <2> QED BY <1>2, <2>1, <2>2 DEF Captures
<1>4. CASE Len(t) # 1
    <2>1. Len(u) \in 1..(Len(t) - 1) /\ Len(u) + 1 = Len(t) /\ u # << >>
        <3>1. Len(u) # 0 /\ Len(u) \in 1..(Len(t) - 1) /\ Len(u) + 1 = Len(t)
            BY <1>1, <1>4
        <3>2. u # << >>
            BY ONLY <3>1
        <3> QED BY <3>1, <3>2
    <2>2. u[Len(u)] = t[Len(t)]
        BY <1>1, <2>1
    <2>3. \A x : Ends(t, x) => Ends(u, x)
        BY <2>1, <2>2 DEF Ends
    <2>4. ASSUME NEW kind, NEW x, Plans(t, kind, x)
          PROVE  (t[1].kind = kind /\ t[1].of = x) \/ Plans(u, kind, x)
        <3>1. PICK i \in DOMAIN t : t[i].kind = kind /\ t[i].of = x
            BY <2>4 DEF Plans
        <3>2. CASE i # 1
            <4>1. i - 1 \in DOMAIN u /\ u[i - 1] = t[i]
                <5>1. i - 1 \in 1..(Len(t) - 1) /\ (i - 1) + 1 = i
                    BY <1>1, <3>2
                <5> QED BY <1>1, <5>1
            <4> QED BY <3>1, <4>1 DEF Plans
        <3> QED BY <3>1, <3>2
    <2>5. \A b : Plans(t, "blob", b) => b \in mirror'.blobs \/ Plans(u, "blob", b)
        BY <1>1, <2>4
    <2>6. \A b : Plans(t, "snapshot", b) => b \in mirror'.snapshots \/ Plans(u, "snapshot", b)
        BY <1>1, <2>4
    <2>7. Captures(u, mirror', r, k)
        BY <1>2, <2>3, <2>5, <2>6 DEF Captures
    <2> QED BY <2>7 DEF u
<1> QED BY <1>3, <1>4

LEMMA StepKeepsCapture ==
    ASSUME TypeOK, ReadInv, SequenceInv, RestInv, QuietInv, RefsInv, OrderInv, CaptureInv,
           [Next]_vars
    PROVE  CaptureInv'
<1> DEFINE After(q, r, k) == \/ <<r, k>> \in rows'[q]
                             \/ Captures(todo'[q], mirror', r, k) \/ Told(mirror', r, k)
<1> SUFFICES ASSUME ~cutShort', NEW q \in Process, pc'[q] = "capture",
                    NEW n \in 1..read'[q], NEW r \in ledger'[n]
             PROVE  \E k \in Record : After(q, r, k)
    BY DEF CaptureInv
<1>0. /\ pc \in [Process -> {"down", "idle", "checkpoint", "verify", "ingest", "capture"}]
      /\ read[q] \in Nat /\ Len(ledger) \in Nat /\ DOMAIN ledger = 1..Len(ledger)
      /\ read[q] <= Len(ledger) /\ Len(ledger) <= MaxLedger
      /\ \A i \in DOMAIN ledger : ledger[i] \subseteq Ref
      /\ rows \in [Process -> SUBSET (Ref \X Record)] /\ at[q] \in Nat
    BY DEF TypeOK, ReadInv
<1>1. ~Delete
    BY DeletedAtRest
<1>2. Grown
    BY <1>1, StepGrows
<1>3. ~cutShort
    BY <1>2 DEF Grown
\* The record was read before this step.
<1>4. ASSUME read'[q] = read[q]
      PROVE  n \in 1..read[q] /\ n \in DOMAIN ledger /\ r \in ledger[n] /\ r \in Ref
    <2>1. n \in 1..read[q] /\ n \in 1..Len(ledger)
        BY <1>0, <1>4
    <2>2. ledger'[n] = ledger[n]
        BY <1>0, <1>2, <2>1 DEF Grown
    <2> QED BY <1>0, <2>1, <2>2
<1>5. ASSUME read'[q] = read[q], pc[q] = "capture"
      PROVE  \E k \in Record :
                <<r, k>> \in rows[q] \/ Captures(todo[q], mirror, r, k) \/ Told(mirror, r, k)
    BY <1>3, <1>4, <1>5 DEF CaptureInv
<1>6. CASE Stays(q)
    <2>1. PICK k \in Record :
             <<r, k>> \in rows[q] \/ Captures(todo[q], mirror, r, k) \/ Told(mirror, r, k)
        BY <1>5, <1>6 DEF Stays
    <2>2. After(q, r, k)
        BY <1>2, <1>6, <2>1, GrownKeeps DEF Stays
    <2> QED BY <2>2
<1>7. CASE SelectReferences(q)
    <2>1. read'[q] = read[q] /\ at[q] > read[q] /\ mirror' = mirror
        BY <1>7 DEF SelectReferences
    <2>2. Count \in Nat /\ Mirrored(mirror) = 1..Count /\ at[q] - 1 <= Count
        BY <1>3, MirroredInOrder, FS_CardinalityType DEF OrderInv, SequenceInv, Count
    <2>3. n \in Mirrored(mirror)
        BY <1>0, <1>4, <2>1, <2>2
    <2>4. <<n, r>> \in mirror.refs
        BY <1>4, <2>1, <2>3 DEF RefsInv
    <2> DEFINE S == {k \in Record : <<k, r>> \in mirror.refs}
    <2>5. mirror.refs \in SUBSET (Record \X Ref) /\ n \in S
        BY <1>0, <1>4, <2>1, <2>4 DEF TypeOK, Mirror, Record
    <2>6. PICK k \in S : \A j \in S : Rank[k] <= Rank[j]
        BY <2>5, FirstByRank
    <2>7. ASSUME NEW z \in mirror.refs, z[2] = r PROVE Rank[k] <= Rank[z[1]]
        <3>1. z[1] \in Record /\ <<z[1], r>> = z
            BY <2>5, <2>7
        <3> QED BY <2>6, <3>1
    <2> DEFINE x == <<k, r>>
    <2>8. x \in mirror.refs /\ x[1] = k /\ x[2] = r
        BY <2>6
    <2>9. <<x[2], x[1]>> \in rows'[q]
        <3>1. rows'[q] = {<<y[2], y[1]>> : y \in {v \in mirror.refs :
                             \A z \in mirror.refs : z[2] = v[2] => Rank[v[1]] <= Rank[z[1]]}}
            BY <1>0, <1>7 DEF SelectReferences
        <3>2. x \in {v \in mirror.refs :
                        \A z \in mirror.refs : z[2] = v[2] => Rank[v[1]] <= Rank[z[1]]}
            BY <2>7, <2>8
        <3> HIDE DEF x
        <3> QED BY <3>1, <3>2
    <2> QED BY <2>6, <2>8, <2>9
<1>8. CASE CaptureNext(q)
    <2>1. read'[q] = read[q] /\ pc[q] = "capture" /\ todo[q] = << >> /\ mirror' = mirror
        BY <1>8 DEF CaptureNext
    <2>2. PICK row \in rows[q] : /\ rows'[q] = rows[q] \ {row}
                                 /\ todo'[q] = Capture(row[1], row[2])
        BY <1>0, <1>8 DEF CaptureNext, TypeOK
    <2>3. PICK k \in Record :
             <<r, k>> \in rows[q] \/ Captures(todo[q], mirror, r, k) \/ Told(mirror, r, k)
        BY <1>5, <2>1
    <2>4. ~Captures(todo[q], mirror, r, k)
        BY <2>1 DEF Captures, Ends
    <2>5. CASE row = <<r, k>>
        <3>1. todo'[q] = Capture(r, k)
            BY <2>2, <2>5
        <3>2. Captures(Capture(r, k), mirror, r, k)
            BY <1>4, <2>1, CapturePlans
        <3> QED BY <2>1, <3>1, <3>2
    <2>6. CASE row # <<r, k>>
        BY <2>1, <2>2, <2>3, <2>4, <2>6
    <2> QED BY <2>5, <2>6
<1>9. CASE CommitsOne(q)
    <2>1. pc[q] = "capture" /\ read'[q] = read[q] /\ rows'[q] = rows[q]
        BY <1>9, CommitPops
    <2>2. PICK k \in Record :
             <<r, k>> \in rows[q] \/ Captures(todo[q], mirror, r, k) \/ Told(mirror, r, k)
        BY <1>5, <2>1
    <2>3. r \in Ref
        BY <1>4, <2>1
    <2>4. After(q, r, k)
        BY <1>2, <1>9, <2>1, <2>2, <2>3, CommitTells, GrownKeeps
    <2> QED BY <2>4
<1>10. ~Leaves(q) /\ ~Waits(q)
    BY DEF Leaves, Waits
<1>11. ~ReadLedger(q) /\ ~RecordEvent(q) /\ ~ObservePath(q)
    BY <1>0 DEF ReadLedger, RecordEvent, ObservePath
<1> QED BY <1>6, <1>7, <1>8, <1>9, <1>10, <1>11, CollectorMoves DEF Works, CommitsOne

\* All of it together.
SyncInv == /\ TypeOK /\ ReadInv /\ SequenceInv /\ RestInv /\ OrderInv
           /\ QuietInv /\ TablesInv /\ RefsInv /\ PathsInv /\ RaiseInv /\ ForeignInv /\ CaptureInv

LEMMA SyncCorrect == Spec => []SyncInv
<1>1. Init => RestInv /\ OrderInv
    <2> SUFFICES ASSUME Init PROVE RestInv /\ OrderInv
        OBVIOUS
    <2>1. mirror.events = {} /\ Count = 0
        BY FS_EmptySet DEF Init, Empty, Count
    <2> QED BY <2>1 DEF Init, RestInv, OrderInv
<1>2. Init => /\ QuietInv /\ TablesInv /\ RefsInv /\ PathsInv /\ RaiseInv /\ ForeignInv
              /\ CaptureInv
    <2> SUFFICES ASSUME Init
                 PROVE  /\ QuietInv /\ TablesInv /\ RefsInv /\ PathsInv /\ RaiseInv /\ ForeignInv
                        /\ CaptureInv
        OBVIOUS
    <2>1. Mirrored(mirror) = {}
        BY DEF Init, Empty, Mirrored
    <2>2. QuietInv /\ TablesInv /\ PathsInv /\ CaptureInv
        BY DEF Init, QuietInv, TablesInv, PathsInv, CaptureInv
    <2>3. \A p \in Process : DOMAIN todo[p] = {}
        BY DEF Init
    <2> QED BY <2>1, <2>2, <2>3 DEF RefsInv, RaiseInv, ForeignInv
<1>3. /\ SyncInv /\ TypeOK' /\ ReadInv' /\ SequenceInv' /\ [Next]_vars
      => /\ RestInv' /\ OrderInv' /\ QuietInv' /\ TablesInv' /\ RefsInv' /\ PathsInv'
         /\ RaiseInv' /\ ForeignInv' /\ CaptureInv'
    BY StepKeepsRest, StepKeepsOrder, StepKeepsQuiet, StepKeepsTables, StepKeepsRefs,
       StepKeepsPaths, StepKeepsRaise, StepKeepsForeign, StepKeepsCapture DEF SyncInv
<1> QED BY <1>1, <1>2, <1>3, TypeCorrect, PTL DEF Spec, SyncInv

(* A synchronization that comes to its end has mirrored every record it     *)
(* read, with its paths, and told of every reference in them what became of *)
(* it; what is said to be captured is there.                                *)
THEOREM CompleteWhenFinishedCorrect == Spec => []CompleteWhenFinished
<1>1. ASSUME SyncInv, ~cutShort, NEW p \in Process, pc[p] = "capture", rows[p] = {},
             todo[p] = << >>, NEW n \in 1..read[p]
      PROVE  /\ n \in Mirrored(mirror)
             /\ \A i \in DOMAIN Relation : <<n, Relation[i]>> \in mirror.paths
             /\ \A r \in ledger[n] :
                   \/ \E k \in Record : <<r, k>> \in mirror.unresolved
                   \/ Held(r) /\ \E k \in Record : <<r, k>> \in mirror.captured
    <2>1. at[p] \in Nat /\ read[p] \in Nat /\ at[p] > read[p] /\ n \in DOMAIN ledger
        BY <1>1 DEF SyncInv, PathsInv, TypeOK, ReadInv
    <2>2. Count \in Nat /\ Mirrored(mirror) = 1..Count /\ at[p] - 1 <= Count
        BY <1>1, MirroredInOrder, FS_CardinalityType DEF SyncInv, OrderInv, SequenceInv, Count
    <2>3. n \in Mirrored(mirror) /\ n \in 1..(at[p] - 1)
        BY <2>1, <2>2
    <2>4. \A i \in DOMAIN Relation : <<n, Relation[i]>> \in mirror.paths
        BY <1>1, <2>3 DEF SyncInv, PathsInv
    <2>5. ASSUME NEW r \in ledger[n]
          PROVE  \/ \E k \in Record : <<r, k>> \in mirror.unresolved
                 \/ Held(r) /\ \E k \in Record : <<r, k>> \in mirror.captured
        <3>1. PICK k \in Record :
                 <<r, k>> \in rows[p] \/ Captures(todo[p], mirror, r, k) \/ Told(mirror, r, k)
            BY <1>1 DEF SyncInv, CaptureInv
        <3>2. Told(mirror, r, k)
            BY <1>1, <3>1 DEF Captures, Ends
        <3>3. r \in Ref
            BY <1>1, <2>1 DEF SyncInv, TypeOK
        <3> QED BY <3>2, <3>3 DEF Told, Held, PartsOfRef, Ref
    <2> QED BY <2>3, <2>4, <2>5
<1>2. SyncInv => CompleteWhenFinished
    BY <1>1 DEF CompleteWhenFinished
<1> QED BY <1>2, SyncCorrect, PTL

(* No order of the transactions of two collectors makes an operation or an  *)
(* open fail: only damaged bytes and a deleted mirror do.                   *)
THEOREM RaisesOnlyOverDamageCorrect == Spec => RaisesOnlyOverDamage
<1>1. ASSUME SyncInv, NEW p \in Process, Raise(p), ~deleted
      PROVE  \E r \in Ref : store[r] = "damaged"
    <2>1. mirror.tables /\ ~cutShort
        BY <1>1 DEF SyncInv, TablesInv, Raise
    <2>2. CASE pc[p] = "ingest"
        <3>1. paths[p] # 0 /\ at[p] \notin Mirrored(mirror)
            BY <1>1, <2>1, <2>2 DEF Raise
        <3>2. Count \in Nat /\ Mirrored(mirror) = 1..Count /\ at[p] <= Count
            BY <1>1, <2>1, <3>1, MirroredInOrder, FS_CardinalityType
               DEF SyncInv, OrderInv, SequenceInv, Count
        <3> QED BY <1>1, <3>1, <3>2 DEF SyncInv, TypeOK
    <2>3. CASE pc[p] = "capture"
        <3> DEFINE h == Head(todo[p])
        <3>1. todo[p] # << >> /\ (h.kind = "raise" \/ ~ForeignKeys(h))
            BY <1>1, <2>1, <2>3 DEF Raise
        <3>2. todo[p] \in Seq(Transaction) /\ 1 \in DOMAIN todo[p] /\ h = todo[p][1] /\ h \in Transaction
            BY <1>1, <3>1 DEF SyncInv, TypeOK
        <3>3. CASE h.kind = "raise"
            <4>1. h.of \in Ref
                BY <3>2, <3>3 DEF Transaction
            <4> QED BY <1>1, <3>2, <3>3, <4>1 DEF SyncInv, RaiseInv
        <3>4. CASE h.kind = "snapshot" /\ ~ForeignKeys(h)
            <4>1. h.of \in Snapshot
                BY <3>2, <3>4 DEF Transaction
            <4>2. PartsOfRef(h.of) \subseteq mirror.blobs
                BY <1>1, <2>1, <3>2, <3>4 DEF SyncInv, ForeignInv
            <4> QED BY <3>4, <4>1, <4>2, RefAssumption DEF PartsOfRef, ForeignKeys
        <3> QED BY <3>1, <3>3, <3>4 DEF ForeignKeys
    <2> QED BY <1>1, <2>2, <2>3 DEF Raise
<1>2. SyncInv /\ [Next]_vars
      => [\A p \in Process : Raise(p) => deleted \/ \E r \in Ref : store[r] = "damaged"]_vars
    BY <1>1
<1> QED BY <1>2, SyncCorrect, PTL DEF Spec, RaisesOnlyOverDamage
=============================================================================

--------------------------- MODULE LoopRun_proofs ---------------------------
(***************************************************************************)
(* Proofs about LoopRun.  What makes a crashed run recoverable is a fact   *)
(* about keys: the key of a checkpoint says something of its body (Stands),*)
(* every checkpoint has grown from the one before it, and an operation     *)
(* makes a key whose statement no earlier checkpoint satisfies.  So a      *)
(* checkpoint found under the key of an event still to append was made     *)
(* from the memory there is now, with record_post_review, which leaves the *)
(* revision its key is made from, the one exception.                       *)
(***************************************************************************)
EXTENDS LoopRun, SequenceTheorems, TLAPS

StatusOp == {"park", "pause", "halt", "resume"}

\* The operations that carry what a provider or the owner said.
Answered == {"freeze_tests", "record_plan", "record_pre_review", "record_verification",
             "record_integration", "record_post_review", "record_intervention"}
Said(op) == IF op \in Answered THEN Answer ELSE {NoAnswer}

\* Keys, events, operations and records whose parts belong together.
FitKey == {k \in Key : IF k.op \in RunOp THEN k.subject = Run ELSE k.subject \in CellId}
FitEvent == {e \in [key : FitKey, body : Answer \cup {NoAnswer}] : e.body \in Said(e.key.op)}
FitOp == {o \in [name : CellOp \cup RunOp, subject : CellId \cup {Run},
                 answer : Answer \cup {NoAnswer}] :
            /\ IF o.name \in RunOp THEN o.subject = Run ELSE o.subject \in CellId
            /\ o.answer \in Said(o.name)}
EventRecord == {r \in [type : {"event"}, key : FitKey, body : Answer \cup {NoAnswer}] :
                  r.body \in Said(r.key.op)}
CheckpointRecord == [type : {"checkpoint"}, key : FitKey, body : Memory]
Record == EventRecord \cup CheckpointRecord

Typed ==
    /\ mem \in Memory
    /\ ledger \in Seq(Record) /\ todo \in Seq(FitOp) /\ emit \in Seq(FitEvent)
    /\ torn \in BOOLEAN /\ up \in BOOLEAN /\ refused \in BOOLEAN
    /\ half \in BOOLEAN /\ (half => emit # << >>)
    /\ disowned \subseteq (CellOp \cup RunOp \cup {"created"}) \X (CellId \cup {Run})
    /\ crashes \in 0..MaxCrashes /\ refusals \in 0..MaxRefusals /\ stops \in 0..MaxStops

IsLast(l, i) ==
    /\ i \in DOMAIN l /\ l[i].type = "checkpoint"
    /\ \A j \in (i + 1)..Len(l) : ~(l[j].type = "checkpoint")
HasLast == \E i \in DOMAIN ledger : IsLast(ledger, i)

\* What a call can still have to do: one operation, or the second of two.
Pairs(o, q) ==
    /\ o.subject = q.subject
    /\ \/ o.name = "record_pre_review" /\ q.name = "decompose" /\ KidsOf[o.subject] # << >>
       \/ o.name = "record_post_review" /\ q.name = "close"
Alone(o) ==
    /\ o.name \notin {"quarantine", "record_post_review"}
    /\ o.name = "record_pre_review" => KidsOf[o.subject] = << >>
Shaped(t) ==
    \/ t = << >>
    \/ \E o \in FitOp : t = << o >> /\ Alone(o)
    \/ \E o, q \in FitOp : t = << o, q >> /\ Pairs(o, q)

\* Only decompose appends more than one event.
Few(es) ==
    \/ \E e \in FitEvent : es = << e >>
    \/ \A j \in DOMAIN es : es[j].key.op \in {"created", "decompose"}

(* The first stratum: types, the last checkpoint exists, a process that is *)
(* down has crashed and holds nothing.                                     *)
BaseInv ==
    /\ Typed /\ HasLast /\ Shaped(todo) /\ Few(emit)
    /\ emit # << >> => todo = << >> \/ Head(todo).name \in CellOp
    /\ ~up => crashes > 0 /\ todo = << >> /\ emit = << >>

-----------------------------------------------------------------------------
(* The names, and which are which.                                         *)

LEMMA Names ==
    /\ CellOp = {"accept_contract", "freeze_tests", "record_plan", "record_pre_review",
                 "decompose", "begin_integration", "record_verification",
                 "record_integration", "record_post_review", "close"}
    /\ RunOp = {"park", "pause", "halt", "resume", "record_intervention", "quarantine"}
    /\ DOMAIN StatusAfter = StatusOp
    /\ CellOp \cap RunOp = {}
    /\ "created" \notin CellOp \cup RunOp /\ "created" \notin Answered
<1>1. CellOp = {"accept_contract", "freeze_tests", "record_plan", "record_pre_review",
                "decompose", "begin_integration", "record_verification",
                "record_integration", "record_post_review", "close"}
  BY DEF CellOp, From
<1>2. DOMAIN StatusAfter = StatusOp
  BY DEF StatusAfter, StatusOp
<1>3. RunOp = {"park", "pause", "halt", "resume", "record_intervention", "quarantine"}
  BY <1>2 DEF RunOp, StatusOp
<1> QED
  BY <1>1, <1>2, <1>3 DEF Answered

LEMMA Destinations ==
    ASSUME NEW n \in CellOp, NEW c \in CellId
    PROVE  To(n, c) \in Phase /\ To(n, c) # "absent" /\ From[n] \in Phase
           /\ From[n] # "absent"
  BY Names DEF To, From, Phase

(* The last checkpoint: an event does not replace it, a checkpoint does.   *)
LEMMA LastIs ==
    ASSUME NEW l \in Seq(Record), NEW i, IsLast(l, i)
    PROVE  /\ (CHOOSE k \in DOMAIN l :
                   /\ l[k].type = "checkpoint"
                   /\ \A j \in (k + 1)..Len(l) : ~(l[j].type = "checkpoint")) = i
           /\ l[i].body \in Memory
<1>1. Len(l) \in Nat /\ DOMAIN l = 1..Len(l)
  BY LenProperties
<1> DEFINE P(k) == /\ l[k].type = "checkpoint"
                   /\ \A j \in (k + 1)..Len(l) : ~(l[j].type = "checkpoint")
<1>2. i \in DOMAIN l /\ P(i)
  BY DEF IsLast
<1>3. ASSUME NEW k \in DOMAIN l, P(k)
      PROVE  k = i
  BY <1>1, <1>2, <1>3
<1>4. (CHOOSE k \in DOMAIN l : P(k)) = i
  <2> HIDE DEF P
  <2> QED
    BY <1>2, <1>3
<1>5. l[i] \in Record
  BY <1>2
<1>6. l[i].body \in Memory
  BY <1>5, <1>2 DEF Record, EventRecord, CheckpointRecord
<1> QED
  BY <1>4, <1>6

LEMMA LastNow ==
    ASSUME NEW i, ledger \in Seq(Record), IsLast(ledger, i)
    PROVE  LastCheckpoint = ledger[i].body /\ LastCheckpoint \in Memory
  BY LastIs DEF LastCheckpoint

LEMMA LastThen ==
    ASSUME NEW i, ledger' \in Seq(Record), IsLast(ledger', i)
    PROVE  LastCheckpoint' = ledger'[i].body
  BY LastIs DEF LastCheckpoint

LEMMA LastStays ==
    ASSUME ledger \in Seq(Record), HasLast, NEW r \in EventRecord,
           ledger' = Append(ledger, r)
    PROVE  LastCheckpoint' = LastCheckpoint /\ HasLast' /\ ledger' \in Seq(Record)
<1>1. PICK i \in DOMAIN ledger : IsLast(ledger, i)
  BY DEF HasLast
<1>2. r \in Record /\ r.type = "event"
  BY DEF Record, EventRecord
<1>3. /\ ledger' \in Seq(Record) /\ Len(ledger') = Len(ledger) + 1
      /\ \A j \in 1..Len(ledger) : ledger'[j] = ledger[j]
      /\ ledger'[Len(ledger) + 1] = r
      /\ Len(ledger) \in Nat /\ DOMAIN ledger = 1..Len(ledger)
      /\ DOMAIN ledger' = 1..(Len(ledger) + 1)
  BY <1>2, AppendProperties, LenProperties
<1>4. IsLast(ledger', i) /\ ledger'[i] = ledger[i]
  BY <1>1, <1>2, <1>3 DEF IsLast
<1>5. LastCheckpoint' = ledger'[i].body
  BY <1>3, <1>4, LastThen
<1>6. LastCheckpoint = ledger[i].body
  BY <1>1, LastNow
<1>7. HasLast'
  BY <1>1, <1>3, <1>4 DEF HasLast
<1> QED
  BY <1>3, <1>4, <1>5, <1>6, <1>7

LEMMA LastReplaced ==
    ASSUME ledger \in Seq(Record), NEW r \in CheckpointRecord,
           ledger' = Append(ledger, r)
    PROVE  LastCheckpoint' = r.body /\ HasLast' /\ ledger' \in Seq(Record)
<1>2. r \in Record /\ r.type = "checkpoint"
  BY DEF Record, CheckpointRecord
<1>3. /\ ledger' \in Seq(Record) /\ Len(ledger') = Len(ledger) + 1
      /\ ledger'[Len(ledger) + 1] = r
      /\ Len(ledger) \in Nat
      /\ DOMAIN ledger' = 1..(Len(ledger) + 1)
  BY <1>2, AppendProperties, LenProperties
<1>4. IsLast(ledger', Len(ledger) + 1)
  BY <1>2, <1>3 DEF IsLast
<1>5. LastCheckpoint' = r.body
  BY <1>3, <1>4, LastThen
<1>7. HasLast'
  BY <1>3, <1>4 DEF HasLast
<1> QED
  BY <1>3, <1>5, <1>7

-----------------------------------------------------------------------------
(* What an operation does to the memory, field by field.                   *)

\* The cells an operation makes.
Makes(o) == IF o.name # "decompose" THEN {}
            ELSE {KidsOf[o.subject][i] : i \in DOMAIN KidsOf[o.subject]}

LEMMA MakesKids ==
    ASSUME NEW o, NEW k
    PROVE  k \in Makes(o) <=> /\ o.name = "decompose"
                              /\ \E i \in DOMAIN KidsOf[o.subject] : KidsOf[o.subject][i] = k
  BY DEF Makes

LEMMA CellEffectFields ==
    ASSUME TreeAssumption, NEW m \in Memory, NEW o \in FitOp, o.name \in CellOp
    PROVE  /\ Effect(m, o) \in Memory /\ o.subject \in CellId
           /\ Effect(m, o).status = m.status /\ Effect(m, o).notes = m.notes
           /\ Effect(m, o).length = m.length + 1
           /\ \A k \in CellId :
                /\ Effect(m, o).phase[k] =
                      IF k \in Makes(o) THEN "contract"
                      ELSE IF k = o.subject THEN To(o.name, o.subject) ELSE m.phase[k]
                /\ Effect(m, o).rev[k] =
                      IF k \in Makes(o) THEN 1
                      ELSE IF k = o.subject /\ o.name # "record_post_review"
                           THEN m.rev[k] + 1 ELSE m.rev[k]
                /\ Effect(m, o).kids[k] =
                      IF k = o.subject /\ o.name = "decompose" THEN KidsOf[o.subject]
                      ELSE m.kids[k]
                /\ \A n \in CellOp :
                     Effect(m, o).decided[k][n] =
                        IF k = o.subject /\ n = o.name THEN o.answer ELSE m.decided[k][n]
<1> DEFINE c == o.subject
           new == Makes(o)
           e == CellEffect(m, o)
<1>1. c \in CellId /\ o.answer \in Answer \cup {NoAnswer}
  BY Names DEF FitOp
<1>2. m = [phase |-> m.phase, rev |-> m.rev, depth |-> m.depth, kids |-> m.kids,
           decided |-> m.decided, length |-> m.length, status |-> m.status,
           notes |-> m.notes]
  BY DEF Memory
<1> DEFINE p == [k \in CellId |-> IF k \in new THEN "contract"
                                  ELSE IF k = c THEN To(o.name, c) ELSE m.phase[k]]
           r == [k \in CellId |->
                     IF k \in new THEN 1
                     ELSE IF k = c /\ o.name # "record_post_review" THEN m.rev[k] + 1
                     ELSE m.rev[k]]
           d == [k \in CellId |-> IF k \in new THEN m.depth[c] + 1 ELSE m.depth[k]]
           s == [m.kids EXCEPT ![c] = IF o.name = "decompose" THEN KidsOf[c] ELSE @]
           a == [m.decided EXCEPT ![c][o.name] = o.answer]
<1>3. e = [phase |-> p, rev |-> r, depth |-> d, kids |-> s, decided |-> a,
           length |-> m.length + 1, status |-> m.status, notes |-> m.notes]
  <2>1. e = [m EXCEPT !.phase = p, !.rev = r, !.depth = d, !.kids = s, !.decided = a,
                      !.length = m.length + 1]
    BY <1>2 DEF CellEffect, Makes
  <2> HIDE DEF p, r, d, s, a, e
  <2> QED
    BY <1>2, <2>1
<1>4. /\ m.phase \in [CellId -> Phase] /\ m.rev \in [CellId -> Nat]
      /\ m.depth \in [CellId -> Nat] /\ m.kids \in [CellId -> Seq(CellId)]
      /\ m.decided \in [CellId -> [CellOp -> Answer \cup {NoAnswer}]]
      /\ m.length \in Nat /\ m.status \in Status /\ m.notes \in Seq(Answer)
  BY DEF Memory
<1>5. KidsOf[c] \in Seq(CellId) /\ To(o.name, c) \in Phase /\ "contract" \in Phase
  BY <1>1, Destinations DEF TreeAssumption, Phase
<1>16. e.phase = p /\ e.rev = r /\ e.depth = d /\ e.kids = s /\ e.decided = a
       /\ e.length = m.length + 1
  <2> HIDE DEF p, r, d, s, a, e
  <2> QED
    BY <1>3
<1>6. p \in [CellId -> Phase]
  <2> HIDE DEF new
  <2> QED
    BY ONLY <1>4, <1>5
<1>7. r \in [CellId -> Nat] /\ d \in [CellId -> Nat] /\ m.length + 1 \in Nat
  <2> HIDE DEF new
  <2>1. \A k \in CellId : m.rev[k] \in Nat /\ m.rev[k] + 1 \in Nat /\ m.depth[k] \in Nat
    BY ONLY <1>4
  <2>2. m.depth[c] + 1 \in Nat
    BY ONLY <2>1, <1>1
  <2> QED
    BY ONLY <1>4, <2>1, <2>2
<1>8. s \in [CellId -> Seq(CellId)]
  BY ONLY <1>1, <1>4, <1>5
<1>9. a \in [CellId -> [CellOp -> Answer \cup {NoAnswer}]]
  BY <1>1, <1>4
<1>11. e \in Memory
  <2> HIDE DEF p, r, d, s, a, e
  <2> QED
    BY ONLY <1>3, <1>4, <1>6, <1>7, <1>8, <1>9 DEF Memory
<1>12. \A k \in CellId :
          /\ e.phase[k] = IF k \in new THEN "contract"
                          ELSE IF k = c THEN To(o.name, c) ELSE m.phase[k]
          /\ e.rev[k] = IF k \in new THEN 1
                        ELSE IF k = c /\ o.name # "record_post_review"
                             THEN m.rev[k] + 1 ELSE m.rev[k]
          /\ e.kids[k] = IF k = c /\ o.name = "decompose" THEN KidsOf[c] ELSE m.kids[k]
  <2> HIDE DEF new, e
  <2> QED
    BY ONLY <1>1, <1>16, <1>4
<1>13. \A k \in CellId : \A n \in CellOp :
          e.decided[k][n] = IF k = c /\ n = o.name THEN o.answer ELSE m.decided[k][n]
  <2> HIDE DEF e
  <2> QED
    BY ONLY <1>1, <1>16, <1>4
<1>14. e.status = m.status /\ e.notes = m.notes /\ e.length = m.length + 1
  BY <1>3
<1>15. Effect(m, o) = e
  BY DEF Effect
<1> HIDE DEF e
<1> QED
  BY ONLY <1>1, <1>11, <1>12, <1>13, <1>14, <1>15

\* The same, one field at a time: what a leaf about one field cites.
LEMMA CellEffectShape ==
    ASSUME TreeAssumption, NEW m \in Memory, NEW o \in FitOp, o.name \in CellOp
    PROVE  /\ Effect(m, o) \in Memory /\ o.subject \in CellId
           /\ Effect(m, o).status = m.status /\ Effect(m, o).notes = m.notes
           /\ Effect(m, o).length = m.length + 1
  BY CellEffectFields

LEMMA CellEffectPhase ==
    ASSUME TreeAssumption, NEW m \in Memory, NEW o \in FitOp, o.name \in CellOp,
           NEW k \in CellId
    PROVE  Effect(m, o).phase[k] =
              IF k \in Makes(o) THEN "contract"
              ELSE IF k = o.subject THEN To(o.name, o.subject) ELSE m.phase[k]
  BY CellEffectFields

LEMMA CellEffectRev ==
    ASSUME TreeAssumption, NEW m \in Memory, NEW o \in FitOp, o.name \in CellOp,
           NEW k \in CellId
    PROVE  Effect(m, o).rev[k] =
              IF k \in Makes(o) THEN 1
              ELSE IF k = o.subject /\ o.name # "record_post_review"
                   THEN m.rev[k] + 1 ELSE m.rev[k]
  BY CellEffectFields

LEMMA CellEffectKids ==
    ASSUME TreeAssumption, NEW m \in Memory, NEW o \in FitOp, o.name \in CellOp,
           NEW k \in CellId
    PROVE  Effect(m, o).kids[k] =
              IF k = o.subject /\ o.name = "decompose" THEN KidsOf[o.subject] ELSE m.kids[k]
<1> DEFINE e == Effect(m, o)
<1>1. \A k1 \in CellId :
         e.kids[k1] = IF k1 = o.subject /\ o.name = "decompose" THEN KidsOf[o.subject]
                      ELSE m.kids[k1]
  BY CellEffectFields
<1> HIDE DEF e
<1>2. e.kids[k] = IF k = o.subject /\ o.name = "decompose" THEN KidsOf[o.subject]
                  ELSE m.kids[k]
  BY ONLY <1>1, k \in CellId
<1> QED
  BY ONLY <1>2 DEF e

LEMMA CellEffectDecided ==
    ASSUME TreeAssumption, NEW m \in Memory, NEW o \in FitOp, o.name \in CellOp,
           NEW k \in CellId, NEW n \in CellOp
    PROVE  Effect(m, o).decided[k][n] =
              IF k = o.subject /\ n = o.name THEN o.answer ELSE m.decided[k][n]
  BY CellEffectFields

\* An operation on the run leaves the cells as they are.
Alike(m, n) ==
    /\ n.phase = m.phase /\ n.rev = m.rev /\ n.depth = m.depth /\ n.kids = m.kids
    /\ n.decided = m.decided /\ n.length = m.length

LEMMA RunEffectFields ==
    ASSUME NEW m \in Memory, NEW o \in FitOp, o.name \in RunOp
    PROVE  LET e == Effect(m, o) IN
           /\ e \in Memory /\ Alike(m, e)
           /\ e.status = IF o.name \in StatusOp THEN StatusAfter[o.name] ELSE m.status
           /\ e.notes = IF o.name = "record_intervention" THEN Append(m.notes, o.answer)
                        ELSE m.notes
<1> DEFINE e == Effect(m, o)
<1>1. o.name \notin CellOp /\ DOMAIN StatusAfter = StatusOp
  BY Names
<1>2. m = [phase |-> m.phase, rev |-> m.rev, depth |-> m.depth, kids |-> m.kids,
           decided |-> m.decided, length |-> m.length, status |-> m.status,
           notes |-> m.notes]
  BY DEF Memory
<1>3. CASE o.name = "record_intervention"
  <2>1. e = [m EXCEPT !.notes = Append(@, o.answer)]
    BY <1>1, <1>3 DEF Effect
  <2>2. o.answer \in Answer
    BY <1>3 DEF FitOp, Said, Answered
  <2>3. e = [phase |-> m.phase, rev |-> m.rev, depth |-> m.depth, kids |-> m.kids,
           decided |-> m.decided, length |-> m.length, status |-> m.status,
           notes |-> Append(m.notes, o.answer)]
    BY <1>2, <2>1
  <2>4. Append(m.notes, o.answer) \in Seq(Answer)
    BY <2>2, AppendProperties DEF Memory
  <2> QED
    BY <1>3, <2>3, <2>4 DEF Memory, Alike, StatusOp
<1>4. CASE o.name \in StatusOp
  <2>1. e = [m EXCEPT !.status = StatusAfter[o.name]]
    BY <1>1, <1>4 DEF Effect, StatusOp
  <2>2. StatusAfter[o.name] \in Status
    BY <1>4 DEF StatusOp, StatusAfter, Status
  <2>3. e = [phase |-> m.phase, rev |-> m.rev, depth |-> m.depth, kids |-> m.kids,
           decided |-> m.decided, length |-> m.length, status |-> StatusAfter[o.name],
           notes |-> m.notes]
    BY <1>2, <2>1
  <2> QED
    BY <1>4, <2>2, <2>3 DEF Memory, Alike, StatusOp
<1>5. CASE o.name = "quarantine"
  <2>1. e = m
    BY <1>1, <1>5 DEF Effect, StatusOp
  <2> QED
    BY <1>5, <2>1 DEF Memory, Alike, StatusOp
<1> QED
  BY <1>3, <1>4, <1>5, Names DEF StatusOp

(* The events of an operation: its own, after those of the cells it makes. *)
Main(m, o) == Event(o.name, o.subject,
                    IF o.name \in RunOp THEN RunKeyNumber(m, o) ELSE m.rev[o.subject],
                    o.answer)
Created(k) == Event("created", k, 1, NoAnswer)

LEMMA EventsAre ==
    ASSUME TreeAssumption, Typed, NEW m \in Memory, NEW o \in FitOp
    PROVE  LET es == Events(m, o) IN
           /\ es \in Seq(FitEvent) /\ es # << >>
           /\ o.name # "decompose" => es = << Main(m, o) >>
           /\ \A j \in DOMAIN es :
                 \/ es[j] = Main(m, o)
                 \/ /\ o.name = "decompose"
                    /\ \E i \in DOMAIN KidsOf[o.subject] : es[j] = Created(KidsOf[o.subject][i])
           /\ \E j \in DOMAIN es : es[j] = Main(m, o)
           /\ Few(es)
<1> DEFINE es == Events(m, o)
<1>1. Main(m, o) \in FitEvent
  <2>1. (IF o.name \in RunOp THEN RunKeyNumber(m, o) ELSE m.rev[o.subject]) \in Nat
    <3>1. crashes \in Nat /\ Len(ledger) \in Nat /\ Len(m.notes) \in Nat
      BY LenProperties DEF Typed, Memory
    <3>2. CASE o.name \in RunOp
      BY <3>1, <3>2 DEF RunKeyNumber
    <3>3. CASE o.name \notin RunOp
      BY <3>3 DEF FitOp, Memory
    <3> QED
      BY <3>2, <3>3
  <2> QED
    BY <2>1 DEF Main, Event, FitEvent, FitKey, Key, FitOp
<1>2. CASE o.name # "decompose"
  <2>1. es = << Main(m, o) >>
    <3>1. CASE o.name \in RunOp
      <4>1. es = << Event(o.name, Run, RunKeyNumber(m, o), o.answer) >>
        BY <3>1 DEF Events
      <4>2. o.subject = Run
        BY <3>1 DEF FitOp
      <4> QED
        BY <3>1, <4>1, <4>2 DEF Main
    <3>2. CASE o.name \notin RunOp
      <4>1. es = << >> \o << Main(m, o) >>
        BY <1>2, <3>2 DEF Events, Main
      <4>2. << Main(m, o) >> \in Seq(FitEvent)
        BY <1>1
      <4> QED
        BY <4>1, <4>2, ConcatEmptySeq
    <3> QED
      BY <3>1, <3>2
  <2> QED
    BY <1>1, <1>2, <2>1 DEF Few
<1>3. CASE o.name = "decompose"
  <2> DEFINE ks == KidsOf[o.subject]
             made == [i \in DOMAIN ks |-> Created(ks[i])]
  <2>1. o.subject \in CellId /\ o.name \notin RunOp
    BY <1>3, Names DEF FitOp
  <2>2. ks \in Seq(CellId) /\ DOMAIN ks = 1..Len(ks) /\ Len(ks) \in Nat
    BY <2>1, LenProperties DEF TreeAssumption
  <2>3. \A k \in CellId : Created(k) \in FitEvent
    BY Names DEF Created, Event, FitEvent, FitKey, Key, Said
  <2>4. \A i \in 1..Len(ks) : ks[i] \in CellId
    BY <2>2
  <2>5. made \in Seq(FitEvent) /\ Len(made) = Len(ks)
    <3>1. made = [i \in 1..Len(ks) |-> Created(ks[i])]
      BY <2>2
    <3>2. \A i \in 1..Len(ks) : Created(ks[i]) \in FitEvent
      BY <2>3, <2>4
    <3> HIDE DEF ks
    <3> QED
      BY <2>2, <3>1, <3>2
  <2>6. es = made \o << Main(m, o) >>
    BY <1>3, <2>1 DEF Events, Main, Created
  <2>7. << Main(m, o) >> \in Seq(FitEvent) /\ Len(<< Main(m, o) >>) = 1
        /\ << Main(m, o) >>[1] = Main(m, o)
    BY <1>1
  <2> DEFINE one == << Main(m, o) >>
  <2> HIDE DEF made, ks, one
  <2>8. /\ es \in Seq(FitEvent) /\ Len(es) = Len(ks) + 1
        /\ \A j \in 1..Len(es) : es[j] = IF j <= Len(ks) THEN made[j] ELSE one[j - Len(ks)]
    BY <2>5, <2>6, <2>7, ConcatProperties DEF one
  <2>9. \A j \in 1..Len(es) : es[j] = IF j <= Len(ks) THEN Created(ks[j]) ELSE Main(m, o)
    BY <2>2, <2>7, <2>8 DEF made, one
  <2>10. DOMAIN es = 1..Len(es)
    BY <2>8, LenProperties
  <2>11. es # << >>
    BY <2>8, <2>2, EmptySeq
  <2>12. \E j \in DOMAIN es : es[j] = Main(m, o)
    <3>1. Len(ks) + 1 \in DOMAIN es /\ es[Len(ks) + 1] = Main(m, o)
      BY <2>2, <2>8, <2>9, <2>10
    <3> QED
      BY <3>1
  <2>13. \A j \in DOMAIN es : \/ es[j] = Main(m, o)
                             \/ \E i \in DOMAIN ks : es[j] = Created(ks[i])
    BY <2>2, <2>8, <2>9, <2>10
  <2>14. \A j \in DOMAIN es : es[j].key.op \in {"created", "decompose"}
    BY <1>3, <2>13 DEF Main, Created, Event
  <2> QED
    BY <1>3, <2>8, <2>11, <2>12, <2>13, <2>14 DEF ks, Few
<1> QED
  BY <1>2, <1>3

-----------------------------------------------------------------------------
(* The types.  The steps are taken apart once, into what the other proofs  *)
(* need of them.                                                           *)

\* What an abandoned operation leaves.
Abandoned(name, answer) ==
    /\ todo' = IF name \in CellOp THEN << Park >> ELSE << >>
    /\ emit' = << >> /\ half' = FALSE
    /\ refused' = IF name \in CellOp THEN answer ELSE refused

Performs(o) ==
    /\ up /\ todo # << >> /\ emit = << >> /\ ~half
    /\ o = Head(todo) /\ o \in FitOp /\ Allowed(mem, o)
    /\ mem' = Effect(mem, o) /\ emit' = Events(mem', o) /\ todo' = Tail(todo)
    /\ UNCHANGED <<half, refused, ledger, torn, up, crashes, refusals, stops, disowned>>
Fails(o) ==
    /\ up /\ todo # << >> /\ emit = << >> /\ ~half
    /\ o = Head(todo) /\ o \in FitOp /\ ~Allowed(mem, o)
    /\ Abandoned(o.name, FALSE)
    /\ UNCHANGED <<mem, ledger, torn, up, crashes, refusals, stops, disowned>>

\* Appending a record: it is new, it is there, or another one is there.
Appends(r) ==
    /\ ledger' = Append(ledger, r)
    /\ \A i \in DOMAIN ledger : ~(ledger[i].type = r.type /\ ledger[i].key = r.key)
Repeats(r) ==
    /\ ledger' = ledger
    /\ \E i \in DOMAIN ledger : /\ ledger[i].type = r.type /\ ledger[i].key = r.key
                                /\ ledger[i].body = r.body
Collides(r) ==
    /\ ledger' = ledger
    /\ \E i \in DOMAIN ledger : /\ ledger[i].type = r.type /\ ledger[i].key = r.key
                                /\ ledger[i].body # r.body
    /\ Abandoned(IF r.key.op = "created" THEN "decompose" ELSE r.key.op, r.type = "event")

EventToAppend == [type |-> "event", key |-> emit[1].key, body |-> emit[1].body]
CheckpointToAppend == [type |-> "checkpoint", key |-> emit[1].key, body |-> mem]

Keeps == UNCHANGED <<mem, torn, up, crashes, refusals, stops>>
DeniedNow == Denied(emit[1].key, emit[1].body)
Disowns ==
    disowned' = IF DeniedNow THEN disowned \cup {<<emit[1].key.op, emit[1].key.subject>>}
                ELSE disowned
EventStep ==
    /\ up /\ emit # << >> /\ ~half /\ Keeps /\ Disowns
    /\ \/ Appends(EventToAppend) /\ half' = TRUE /\ UNCHANGED <<todo, emit, refused>>
       \/ Repeats(EventToAppend) /\ half' = TRUE /\ UNCHANGED <<todo, emit, refused>>
       \/ Collides(EventToAppend)
CheckpointStep ==
    /\ up /\ half /\ emit # << >> /\ Keeps /\ UNCHANGED disowned
    /\ \/ Appends(CheckpointToAppend) /\ half' = FALSE /\ emit' = Tail(emit) /\ UNCHANGED <<todo, refused>>
       \/ Repeats(CheckpointToAppend) /\ half' = FALSE /\ emit' = Tail(emit) /\ UNCHANGED <<todo, refused>>
       \/ Collides(CheckpointToAppend)

LEMMA PutIs ==
    ASSUME NEW type, NEW key, NEW body, NEW done, Put(type, key, body, done)
    PROVE  LET r == [type |-> type, key |-> key, body |-> body] IN
           \/ Appends(r) /\ done
           \/ Repeats(r) /\ done
           \/ Collides(r)
<1> DEFINE r == [type |-> type, key |-> key, body |-> body]
<1>1. r.type = type /\ r.key = key /\ r.body = body
  OBVIOUS
<1>2. \A i : i \in Under(type, key) <=>
             i \in DOMAIN ledger /\ ledger[i].type = type /\ ledger[i].key = key
  BY DEF Under
<1>3. CASE /\ Under(type, key) = {}
           /\ ledger' = Append(ledger, [type |-> type, key |-> key, body |-> body])
           /\ done
  BY <1>1, <1>2, <1>3 DEF Appends
<1>4. CASE /\ Under(type, key) # {} /\ \A i \in Under(type, key) : ledger[i].body = body
           /\ UNCHANGED ledger /\ done
  BY <1>1, <1>2, <1>4 DEF Repeats
<1>5. CASE /\ \E i \in Under(type, key) : ledger[i].body # body
           /\ UNCHANGED ledger
           /\ Abandon(IF key.op = "created" THEN "decompose" ELSE key.op, type = "event")
  BY <1>1, <1>2, <1>5 DEF Collides, Abandon, Abandoned
<1> QED
  BY <1>3, <1>4, <1>5 DEF Put

LEMMA PerformIs ==
    ASSUME Typed, Perform
    PROVE  \E o \in FitOp : Performs(o) \/ Fails(o)
<1>1. todo # << >> /\ emit = << >> /\ todo \in Seq(FitOp)
  BY DEF Perform, Typed
<1>2. Head(todo) \in FitOp
  BY <1>1
<1>3. ~half
  BY <1>1 DEF Typed
<1> QED
  BY <1>1, <1>2, <1>3 DEF Perform, Performs, Fails, Abandon, Abandoned

LEMMA AppendsAre ==
    ASSUME Typed
    PROVE  /\ AppendEvent => EventStep
           /\ AppendCheckpoint => CheckpointStep
<1>1. emit # << >> => Head(emit) = emit[1]
  BY HeadTailProperties DEF Typed
<1>2. ASSUME AppendEvent
      PROVE  EventStep
  <2>1. Put("event", Head(emit).key, Head(emit).body,
            half' = TRUE /\ UNCHANGED <<todo, emit, refused>>)
        /\ up /\ emit # << >> /\ ~half /\ Keeps
    BY <1>2 DEF AppendEvent, Keeps
  <2>3. Disowns
    BY <1>1, <1>2 DEF AppendEvent, Disowns, DeniedNow
  <2>2. Put("event", emit[1].key, emit[1].body,
            half' = TRUE /\ UNCHANGED <<todo, emit, refused>>)
    BY <1>1, <2>1
  <2> QED
    BY <2>1, <2>2, <2>3, PutIs DEF EventStep, EventToAppend
<1>3. ASSUME AppendCheckpoint
      PROVE  CheckpointStep
  <2>1. Put("checkpoint", Head(emit).key, mem,
            half' = FALSE /\ emit' = Tail(emit) /\ UNCHANGED <<todo, refused>>)
        /\ up /\ half /\ Keeps /\ emit # << >> /\ UNCHANGED disowned
    BY <1>3 DEF AppendCheckpoint, Keeps, Typed
  <2>2. Put("checkpoint", emit[1].key, mem,
            half' = FALSE /\ emit' = Tail(emit) /\ UNCHANGED <<todo, refused>>)
    BY <1>1, <2>1
  <2> QED
    BY <2>1, <2>2, PutIs DEF CheckpointStep, CheckpointToAppend
<1> QED
  BY <1>2, <1>3

\* A call begins: the driver's next step, or one of the owner's.
Calls(o) ==
    /\ Idle /\ o \in FitOp /\ Shaped(todo') /\ todo' # << >> /\ o = Head(todo')
    /\ Allowed(mem, o)
    /\ UNCHANGED <<mem, ledger, torn, up, emit, half, crashes, disowned>>
    /\ refused' \in BOOLEAN /\ refusals' \in 0..MaxRefusals /\ stops' \in 0..MaxStops
    /\ o.name # "park" => refused' = refused
    /\ o.name = "park" => \/ refused' /\ crashes = 0 /\ refusals' > 0
                          \/ ~refused' /\ \E c \in CellId : HalfDone(mem, c)
    /\ refusals' = refusals \/ (crashes = 0 /\ refusals' > 0)

LEMMA OneOrTwo ==
    ASSUME NEW S, NEW a \in S, NEW b \in S
    PROVE  /\ << a >> \in Seq(S) /\ << a, b >> \in Seq(S)
           /\ << a >> # << >> /\ << a, b >> # << >>
           /\ Head(<< a >>) = a /\ Head(<< a, b >>) = a
           /\ Tail(<< a >>) = << >> /\ Tail(<< a, b >>) = << b >>
  OBVIOUS

LEMMA ParkFits ==
    ASSUME TreeAssumption
    PROVE  Park \in FitOp /\ Shaped(<< Park >>) /\ Park.name = "park"
<1>1. Park \in FitOp /\ Park.name = "park" /\ Alone(Park)
  BY Names DEF Park, Op, FitOp, Said, Answered, Alone
<1> QED
  BY <1>1 DEF Shaped

LEMMA AdvanceCalls ==
    ASSUME TreeAssumption, Typed, NEW c \in CellId, NEW a \in Answer, IsNext(c), Driving,
           ~(mem.phase[c] = "children" /\ mem.kids[c] = << >>)
    PROVE  LET t == Operations(c, a) IN
           /\ Shaped(t) /\ t # << >> /\ Head(t) \in FitOp /\ Head(t).name \in CellOp
           /\ Allowed(mem, Head(t))
<1> DEFINE op(n) == Op(n, c, a)
           plain(n) == Op(n, c, NoAnswer)
           t == Operations(c, a)
<1>1. \A n \in CellOp :
         /\ n \in Answered => op(n) \in FitOp
         /\ n \notin Answered => plain(n) \in FitOp
  BY Names DEF Op, FitOp, Said
<1>2. /\ mem.phase[c] \in Phase /\ mem.phase[c] \notin {"absent", "closed"}
      /\ mem.status = "active" /\ ~Waiting(c)
  BY DEF IsNext, Runnable, Driving, Typed, Memory
<1>3. \A n \in CellOp \ {"decompose", "begin_integration", "close"} :
         /\ op(n).name = n /\ op(n).subject = c /\ plain(n).name = n /\ plain(n).subject = c
         /\ mem.phase[c] = From[n] => Allowed(mem, op(n)) /\ Allowed(mem, plain(n))
  BY <1>2 DEF Op, Allowed
<1>4. CASE mem.phase[c] = "pre_review" /\ KidsOf[c] # << >>
  <2>1. t = << op("record_pre_review"), plain("decompose") >>
    BY <1>4 DEF Operations
  <2>2. op("record_pre_review") \in FitOp /\ plain("decompose") \in FitOp
    BY <1>1, Names DEF Answered
  <2>3. Pairs(op("record_pre_review"), plain("decompose"))
    BY <1>4 DEF Pairs, Op
  <2>4. Head(t) = op("record_pre_review") /\ t # << >>
    BY <2>1, <2>2
  <2>5. Allowed(mem, op("record_pre_review")) /\ op("record_pre_review").name = "record_pre_review"
    BY <1>3, <1>4, Names DEF From
  <2> QED
    BY <2>1, <2>2, <2>3, <2>4, <2>5, Names DEF Shaped
<1>5. CASE mem.phase[c] = "post_review"
  <2>1. t = << op("record_post_review"), plain("close") >>
    BY <1>5 DEF Operations
  <2>2. op("record_post_review") \in FitOp /\ plain("close") \in FitOp
    BY <1>1, Names DEF Answered
  <2>3. Pairs(op("record_post_review"), plain("close"))
    BY DEF Pairs, Op
  <2>4. Head(t) = op("record_post_review") /\ t # << >>
    BY <2>1, <2>2
  <2>5. Allowed(mem, op("record_post_review")) /\ op("record_post_review").name = "record_post_review"
    BY <1>3, <1>5, Names DEF From
  <2> QED
    BY <2>1, <2>2, <2>3, <2>4, <2>5, Names DEF Shaped
<1>6. CASE mem.phase[c] = "children"
  <2>1. t = << plain("begin_integration") >>
    BY <1>6 DEF Operations
  <2>2. plain("begin_integration") \in FitOp /\ Alone(plain("begin_integration"))
        /\ plain("begin_integration").name = "begin_integration"
    BY <1>1, Names DEF Answered, Alone, Op
  <2>3. \A k \in Kids(mem, c) : mem.phase[k] = "closed"
    BY <1>2, <1>6 DEF Waiting
  <2>4. Allowed(mem, plain("begin_integration"))
    BY <1>2, <1>6, <2>3 DEF Allowed, Op, From, CellOp
  <2> QED
    BY <2>1, <2>2, <2>4, Names DEF Shaped
<1>7. ASSUME NEW n \in {"accept_contract", "freeze_tests", "record_plan", "record_verification",
                        "record_integration"}, NEW q \in {op(n), plain(n)},
             t = << q >>, q \in FitOp, mem.phase[c] = From[n]
      PROVE  Shaped(t) /\ t # << >> /\ Head(t) \in FitOp /\ Head(t).name \in CellOp
             /\ Allowed(mem, Head(t))
  <2>1. q.name = n /\ Allowed(mem, q) /\ n \in CellOp
    BY <1>3, <1>7, Names
  <2>2. Alone(q)
    BY <2>1 DEF Alone
  <2> QED
    BY <1>7, <2>1, <2>2 DEF Shaped
<1>8. CASE mem.phase[c] = "contract"
  <2>1. t = << plain("accept_contract") >> /\ plain("accept_contract") \in FitOp
        /\ From["accept_contract"] = "contract"
    BY <1>1, <1>8, Names DEF Operations, Answered, From
  <2> QED
    BY <1>7, <1>8, <2>1
<1>9. CASE mem.phase[c] = "tests"
  <2>1. t = << op("freeze_tests") >> /\ op("freeze_tests") \in FitOp
        /\ From["freeze_tests"] = "tests"
    BY <1>1, <1>9, Names DEF Operations, Answered, From
  <2> QED
    BY <1>7, <1>9, <2>1
<1>10. CASE mem.phase[c] = "plan"
  <2>1. t = << op("record_plan") >> /\ op("record_plan") \in FitOp
        /\ From["record_plan"] = "plan"
    BY <1>1, <1>10, Names DEF Operations, Answered, From
  <2> QED
    BY <1>7, <1>10, <2>1
<1>11. CASE mem.phase[c] = "implementation"
  <2>1. t = << op("record_verification") >> /\ op("record_verification") \in FitOp
        /\ From["record_verification"] = "implementation"
    BY <1>1, <1>11, Names DEF Operations, Answered, From
  <2> QED
    BY <1>7, <1>11, <2>1
<1>12. CASE mem.phase[c] = "integration"
  <2>1. t = << op("record_integration") >> /\ op("record_integration") \in FitOp
        /\ From["record_integration"] = "integration"
    BY <1>1, <1>12, Names DEF Operations, Answered, From
  <2> QED
    BY <1>7, <1>12, <2>1
<1>13. CASE mem.phase[c] = "pre_review" /\ KidsOf[c] = << >>
  <2>1. t = << op("record_pre_review") >> /\ op("record_pre_review") \in FitOp
        /\ From["record_pre_review"] = "pre_review"
    BY <1>1, <1>13, Names DEF Operations, Answered, From
  <2>2. Alone(op("record_pre_review")) /\ op("record_pre_review").name = "record_pre_review"
    BY <1>13 DEF Alone, Op
  <2>3. Allowed(mem, op("record_pre_review"))
    BY <1>3, <1>13, <2>1, Names
  <2> QED
    BY <2>1, <2>2, <2>3, Names DEF Shaped
<1> QED
  BY <1>2, <1>4, <1>5, <1>6, <1>8, <1>9, <1>10, <1>11, <1>12, <1>13 DEF Phase

LEMMA CallsAre ==
    ASSUME TreeAssumption, LimitAssumption, Typed, Driver \/ Owner
    PROVE  \E o \in FitOp : Calls(o)
<1> USE DEF Driving
<1>1. CASE Advance
  <2>1. PICK c \in CellId, a \in Answer :
            /\ IsNext(c) /\ ~(mem.phase[c] = "children" /\ mem.kids[c] = << >>)
            /\ todo' = Operations(c, a)
    BY <1>1 DEF Advance
  <2>2. /\ Shaped(todo') /\ todo' # << >> /\ Head(todo') \in FitOp
        /\ Head(todo').name \in CellOp /\ Allowed(mem, Head(todo'))
    BY <1>1, <2>1, AdvanceCalls DEF Advance
  <2>3. Head(todo').name # "park"
    BY <2>2, Names
  <2> QED
    BY <1>1, <2>2, <2>3 DEF Advance, Calls, Typed
<1>2. CASE ParkUndecomposed
  <2>1. \E c \in CellId : HalfDone(mem, c)
    BY <1>2 DEF ParkUndecomposed, HalfDone
  <2>2. Head(todo') = Park /\ Shaped(todo') /\ todo' # << >> /\ Park \in FitOp
    BY <1>2, ParkFits DEF ParkUndecomposed
  <2>3. Allowed(mem, Park) /\ Park.name = "park"
    BY <1>2, Names DEF ParkUndecomposed, Allowed, Park, Op
  <2> QED
    BY <1>2, <2>1, <2>2, <2>3 DEF ParkUndecomposed, Calls, Typed
<1>3. CASE ParkRefused
  <2>2. Head(todo') = Park /\ Shaped(todo') /\ todo' # << >> /\ Park \in FitOp
    BY <1>3, ParkFits DEF ParkRefused
  <2>3. Allowed(mem, Park) /\ Park.name = "park"
    BY <1>3, Names DEF ParkRefused, Allowed, Park, Op
  <2>4. refusals' \in 0..MaxRefusals /\ refusals' > 0 /\ crashes = 0
    BY <1>3 DEF ParkRefused, MayRefuse, Typed, LimitAssumption
  <2> QED
    BY <1>3, <2>2, <2>3, <2>4 DEF ParkRefused, Calls, Typed
<1>4. CASE Stop
  <2>1. PICK name \in {"pause", "halt"} : /\ Allowed(mem, Op(name, Run, NoAnswer))
                                          /\ todo' = << Op(name, Run, NoAnswer) >>
    BY <1>4 DEF Stop
  <2>2. Op(name, Run, NoAnswer) \in FitOp /\ Alone(Op(name, Run, NoAnswer))
        /\ Op(name, Run, NoAnswer).name # "park"
    BY Names DEF Op, FitOp, Said, Answered, Alone
  <2>3. Shaped(todo') /\ todo' # << >> /\ Head(todo') = Op(name, Run, NoAnswer)
    BY <2>1, <2>2 DEF Shaped
  <2>4. stops' \in 0..MaxStops
    BY <1>4 DEF Stop, MayStop, Typed, LimitAssumption
  <2> QED
    BY <1>4, <2>1, <2>2, <2>3, <2>4 DEF Stop, Calls, Typed
<1>5. CASE Intervene
  <2>1. PICK a \in Answer : todo' = << Op("record_intervention", Run, a) >>
    BY <1>5 DEF Intervene
  <2> DEFINE o == Op("record_intervention", Run, a)
  <2>2. o \in FitOp /\ Alone(o) /\ o.name # "park" /\ Allowed(mem, o)
    BY Names DEF Op, FitOp, Said, Answered, Alone, Allowed
  <2>3. Shaped(todo') /\ todo' # << >> /\ Head(todo') = o
    BY <2>1, <2>2 DEF Shaped
  <2> QED
    BY <1>5, <2>1, <2>2, <2>3 DEF Intervene, Calls, Typed
<1>6. CASE Resume
  <2> DEFINE o == Op("resume", Run, NoAnswer)
  <2>2. o \in FitOp /\ Alone(o) /\ o.name # "park"
    BY Names DEF Op, FitOp, Said, Answered, Alone
  <2>3. Shaped(todo') /\ todo' # << >> /\ Head(todo') = o
    BY <1>6, <2>2 DEF Resume, Shaped
  <2> QED
    BY <1>6, <2>2, <2>3 DEF Resume, Calls, Typed
<1> QED
  BY <1>1, <1>2, <1>3, <1>4, <1>5, <1>6 DEF Driver, Owner

\* The process dies, and is opened again from the last checkpoint.
Opens ==
    /\ ~up /\ up' = TRUE /\ torn' = FALSE
    /\ mem' = LastCheckpoint
    /\ emit' = IF torn THEN Events(mem', Op("quarantine", Run, NoAnswer)) ELSE << >>
    /\ UNCHANGED <<ledger, todo, half, refused, crashes, refusals, stops, disowned>>

(* A step of the specification is one of these.                            *)
Kind ==
    \/ \E o \in FitOp : Performs(o) \/ Fails(o) \/ Calls(o)
    \/ EventStep \/ CheckpointStep \/ Crash \/ Opens
    \/ UNCHANGED vars

LEMMA StepIs ==
    ASSUME TreeAssumption, LimitAssumption, Typed, [Next]_vars
    PROVE  Kind
  BY PerformIs, AppendsAre, CallsAre DEF Next, Execute, Open, Opens, Kind

LEMMA RecordsFit ==
    ASSUME Typed, emit # << >>
    PROVE  /\ EventToAppend \in EventRecord /\ CheckpointToAppend \in CheckpointRecord
           /\ emit[1] \in FitEvent /\ 1 \in DOMAIN emit
<1>1. emit[1] \in FitEvent /\ 1 \in DOMAIN emit
  BY DEF Typed
<1> QED
  BY <1>1 DEF Typed, EventToAppend, CheckpointToAppend, EventRecord, CheckpointRecord, FitEvent

LEMMA TailFew ==
    ASSUME emit \in Seq(FitEvent), emit # << >>, Few(emit)
    PROVE  Few(Tail(emit)) /\ Tail(emit) \in Seq(FitEvent)
           /\ \A j \in DOMAIN Tail(emit) :
                 /\ j + 1 \in DOMAIN emit /\ Tail(emit)[j] = emit[j + 1]
                 /\ Tail(emit)[j].key.op \in {"created", "decompose"}
<1>1. /\ Tail(emit) \in Seq(FitEvent) /\ Len(Tail(emit)) = Len(emit) - 1
      /\ \A j \in 1..Len(Tail(emit)) : Tail(emit)[j] = emit[j + 1]
      /\ DOMAIN Tail(emit) = 1..Len(Tail(emit)) /\ DOMAIN emit = 1..Len(emit)
      /\ Len(emit) \in Nat /\ Len(emit) > 0
  BY HeadTailProperties, LenProperties, EmptySeq
<1>2. \A j \in DOMAIN Tail(emit) : j + 1 \in DOMAIN emit /\ Tail(emit)[j] = emit[j + 1]
  BY <1>1
<1>3. CASE \E e \in FitEvent : emit = << e >>
  <2>1. Len(emit) = 1
    BY <1>3
  <2>3. Len(Tail(emit)) = 0 /\ \A j : j \notin 1..0
    BY <1>1, <2>1
  <2>2. \A j : j \notin DOMAIN Tail(emit)
    BY <1>1, <2>3
  <2> QED
    BY ONLY <1>1, <2>2 DEF Few
<1>4. CASE \A j \in DOMAIN emit : emit[j].key.op \in {"created", "decompose"}
  BY <1>1, <1>2, <1>4 DEF Few
<1> QED
  BY <1>3, <1>4 DEF Few

LEMMA AbandonedFits ==
    ASSUME TreeAssumption, NEW name, NEW answer \in BOOLEAN, refused \in BOOLEAN,
           Abandoned(name, answer)
    PROVE  /\ todo' \in Seq(FitOp) /\ emit' \in Seq(FitEvent) /\ refused' \in BOOLEAN
           /\ half' = FALSE /\ Shaped(todo') /\ emit' = << >> /\ Few(emit')
  BY ParkFits DEF Abandoned, Shaped, Few

LEMMA QuarantineFits ==
    ASSUME TreeAssumption
    PROVE  /\ Op("quarantine", Run, NoAnswer) \in FitOp
           /\ Op("quarantine", Run, NoAnswer).name = "quarantine"
  BY Names DEF Op, FitOp, Said, Answered

LEMMA TailShaped ==
    ASSUME Shaped(todo), todo \in Seq(FitOp), todo # << >>
    PROVE  /\ Shaped(Tail(todo)) /\ Tail(todo) \in Seq(FitOp)
           /\ Tail(todo) # << >> => /\ Pairs(Head(todo), Head(Tail(todo)))
                                    /\ Head(Tail(todo)).name \in {"decompose", "close"}
                                    /\ Head(Tail(todo)) \in FitOp
           /\ Tail(todo) = << >> => Alone(Head(todo))
<1>1. ASSUME NEW o \in FitOp, todo = << o >>, Alone(o)
      PROVE  Tail(todo) = << >> /\ Head(todo) = o
  BY <1>1
<1>2. ASSUME NEW o \in FitOp, NEW q \in FitOp, todo = << o, q >>, Pairs(o, q)
      PROVE  /\ Tail(todo) = << q >> /\ Head(todo) = o /\ << q >> # << >> /\ Head(<< q >>) = q
             /\ q.name \in {"decompose", "close"} /\ Alone(q)
  BY <1>2 DEF Pairs, Alone
<1>3. Shaped(<< >>) /\ << >> \in Seq(FitOp)
  BY DEF Shaped
<1>4. ASSUME NEW q \in FitOp, Alone(q)
      PROVE  Shaped(<< q >>) /\ << q >> \in Seq(FitOp)
  BY <1>4 DEF Shaped
<1> QED
  BY <1>1, <1>2, <1>3, <1>4 DEF Shaped

LEMMA BaseInit ==
    ASSUME TreeAssumption, LimitAssumption, Init
    PROVE  BaseInv
<1> DEFINE start == [phase |-> [c \in CellId |-> IF c = Root THEN "contract" ELSE "absent"],
                  rev |-> [c \in CellId |-> IF c = Root THEN 1 ELSE 0],
                  depth |-> [c \in CellId |-> 0],
                  kids |-> [c \in CellId |-> << >>],
                  decided |-> [c \in CellId |-> [n \in CellOp |-> NoAnswer]],
                  length |-> 1, status |-> "active", notes |-> << >>]
           key == [op |-> "created", subject |-> Root, at |-> 1]
           one == [type |-> "event", key |-> key, body |-> NoAnswer]
           two == [type |-> "checkpoint", key |-> key, body |-> start]
<1>1. start \in Memory
  <2>1. << >> \in Seq(CellId) /\ << >> \in Seq(Answer)
    OBVIOUS
  <2> QED
    BY <2>1 DEF Memory, Phase, Status
<1>2. key \in FitKey /\ key.op = "created"
  BY Names DEF FitKey, Key, TreeAssumption
<1>3. one \in EventRecord
  BY <1>2, Names DEF EventRecord, Said
<1>4. two \in CheckpointRecord
  BY <1>1, <1>2 DEF CheckpointRecord
<1>5. ledger = << one, two >> /\ mem = start
  BY DEF Init
<1> HIDE DEF start, key
<1>6. ledger \in Seq(Record) /\ Len(ledger) = 2 /\ ledger[2].type = "checkpoint"
      /\ DOMAIN ledger = 1..2
  BY <1>3, <1>4, <1>5 DEF Record
<1>7. IsLast(ledger, 2)
  BY <1>6 DEF IsLast
<1>8. HasLast
  BY <1>6, <1>7 DEF HasLast
<1>9. /\ todo = << >> /\ emit = << >> /\ torn = FALSE /\ up = TRUE /\ half = FALSE
      /\ refused = FALSE /\ disowned = {} /\ crashes = 0 /\ refusals = 0 /\ stops = 0
  BY DEF Init
<1>10. todo \in Seq(FitOp) /\ emit \in Seq(FitEvent) /\ Shaped(todo) /\ Few(emit)
  BY <1>9 DEF Shaped, Few
<1>12. crashes \in 0..MaxCrashes /\ refusals \in 0..MaxRefusals /\ stops \in 0..MaxStops
  BY ONLY <1>9, LimitAssumption DEF LimitAssumption
<1>11. Typed
  BY ONLY <1>1, <1>5, <1>6, <1>9, <1>10, <1>12 DEF Typed
<1> QED
  BY <1>8, <1>9, <1>10, <1>11 DEF BaseInv

LEMMA BaseStep ==
    ASSUME TreeAssumption, LimitAssumption, BaseInv, [Next]_vars
    PROVE  BaseInv'
<1>1. Typed /\ HasLast /\ Shaped(todo) /\ Few(emit) /\ Kind
  BY StepIs DEF BaseInv
<1>2. ASSUME NEW o \in FitOp, Performs(o)
      PROVE  BaseInv'
  <2>1. mem' \in Memory
    BY <1>1, <1>2, CellEffectShape, RunEffectFields DEF Performs, Typed, FitOp
  <2>2. emit' \in Seq(FitEvent) /\ emit' # << >> /\ Few(emit')
    BY <1>1, <1>2, <2>1, EventsAre DEF Performs
  <2>3. todo' \in Seq(FitOp) /\ Shaped(todo')
    BY <1>1, <1>2, TailShaped DEF Performs, Typed
  <2>4. todo' = << >> \/ Head(todo').name \in CellOp
    BY <1>1, <1>2, TailShaped, Names DEF Performs, Typed
  <2>5. HasLast' /\ Typed'
    BY <1>1, <1>2, <2>1, <2>2, <2>3 DEF Performs, Typed, HasLast, IsLast
  <2> QED
    BY <1>2, <2>2, <2>3, <2>4, <2>5 DEF BaseInv, Performs
<1>3. ASSUME NEW o \in FitOp, Fails(o)
      PROVE  BaseInv'
  <2>1. todo' \in Seq(FitOp) /\ emit' \in Seq(FitEvent) /\ refused' \in BOOLEAN
        /\ half' = FALSE /\ Shaped(todo') /\ emit' = << >> /\ Few(emit')
    BY <1>1, <1>3, AbandonedFits DEF Fails, Typed
  <2> QED
    BY <1>1, <1>3, <2>1 DEF Fails, BaseInv, Typed, HasLast, IsLast
<1>4. ASSUME NEW o \in FitOp, Calls(o)
      PROVE  BaseInv'
  <2>1. todo' \in Seq(FitOp)
    <3>1. Shaped(todo')
      BY <1>4 DEF Calls
    <3>2. << >> \in Seq(FitOp)
      OBVIOUS
    <3>3. CASE \E q \in FitOp : todo' = << q >> /\ Alone(q)
      BY <3>3
    <3>4. CASE \E q, r \in FitOp : todo' = << q, r >> /\ Pairs(q, r)
      BY <3>4
    <3> QED
      BY <3>1, <3>2, <3>3, <3>4 DEF Shaped
  <2>2. emit' = << >>
    BY <1>4 DEF Calls, Idle
  <2>3. up'
    BY <1>4 DEF Calls, Idle
  <2>4. Typed'
    BY <1>1, <1>4, <2>1 DEF Calls, Typed
  <2>5. HasLast'
    BY <1>1, <1>4 DEF Calls, HasLast, IsLast
  <2>6. Shaped(todo') /\ Few(emit')
    BY <1>1, <1>4 DEF Calls
  <2> QED
    BY <2>2, <2>3, <2>4, <2>5, <2>6 DEF BaseInv
<1>5. ASSUME NEW r \in Record, Appends(r)
      PROVE  ledger' \in Seq(Record) /\ HasLast'
  BY <1>1, <1>5, LastStays, LastReplaced DEF Appends, Record, Typed
<1>6. ASSUME ledger' = ledger
      PROVE  ledger' \in Seq(Record) /\ HasLast'
  BY <1>1, <1>6 DEF Typed, HasLast, IsLast
<1>7. CASE EventStep
  <2>1. EventToAppend \in Record
    BY <1>1, <1>7, RecordsFit DEF EventStep, Record
  <2>2. ledger' \in Seq(Record) /\ HasLast'
    BY <1>5, <1>6, <1>7, <2>1 DEF EventStep, Repeats, Collides
  <2>5. disowned' \subseteq (CellOp \cup RunOp \cup {"created"}) \X (CellId \cup {Run})
    <3>1. emit[1].key \in Key
      BY <1>1, <1>7, RecordsFit DEF EventStep, FitEvent, FitKey
    <3>2. <<emit[1].key.op, emit[1].key.subject>>
            \in (CellOp \cup RunOp \cup {"created"}) \X (CellId \cup {Run})
      BY <3>1 DEF Key
    <3> QED
      BY <1>1, <1>7, <3>2 DEF EventStep, Disowns, Typed
  <2>3. CASE half' = TRUE /\ UNCHANGED <<todo, emit, refused>>
    <3>1. Typed'
      BY <1>1, <1>7, <2>2, <2>3, <2>5 DEF EventStep, Keeps, Typed
    <3>2. Shaped(todo') /\ (emit' # << >> => todo' = << >> \/ Head(todo').name \in CellOp)
          /\ Few(emit')
      BY <1>1, <2>3 DEF BaseInv
    <3>3. up'
      BY <1>7 DEF EventStep, Keeps
    <3> QED
      BY <2>2, <3>1, <3>2, <3>3 DEF BaseInv
  <2>4. CASE Collides(EventToAppend)
    <3>1. todo' \in Seq(FitOp) /\ emit' \in Seq(FitEvent) /\ refused' \in BOOLEAN
          /\ half' = FALSE /\ Shaped(todo') /\ emit' = << >> /\ Few(emit')
      BY <1>1, <2>4, AbandonedFits DEF Collides, Typed
    <3> QED
      BY <1>1, <1>7, <2>2, <2>5, <3>1 DEF EventStep, Keeps, BaseInv, Typed
  <2> QED
    BY <1>7, <2>3, <2>4 DEF EventStep
<1>8. CASE CheckpointStep
  <2>1. CheckpointToAppend \in Record
    BY <1>1, <1>8, RecordsFit DEF CheckpointStep, Record
  <2>2. ledger' \in Seq(Record) /\ HasLast'
    BY <1>5, <1>6, <1>8, <2>1 DEF CheckpointStep, Repeats, Collides
  <2>3. CASE half' = FALSE /\ emit' = Tail(emit) /\ UNCHANGED <<todo, refused>>
    <3>1. emit' \in Seq(FitEvent) /\ Few(emit')
      BY <1>1, <1>8, <2>3, TailFew DEF CheckpointStep, Typed
    <3>2. Typed'
      BY <1>1, <1>8, <2>2, <2>3, <3>1 DEF CheckpointStep, Keeps, Typed
    <3>3. Shaped(todo') /\ (todo' = << >> \/ Head(todo').name \in CellOp)
      BY <1>1, <1>8, <2>3 DEF BaseInv, CheckpointStep
    <3>4. up'
      BY <1>8 DEF CheckpointStep, Keeps
    <3> QED
      BY <2>2, <3>1, <3>2, <3>3, <3>4 DEF BaseInv
  <2>4. CASE Collides(CheckpointToAppend)
    <3>1. todo' \in Seq(FitOp) /\ emit' \in Seq(FitEvent) /\ refused' \in BOOLEAN
          /\ half' = FALSE /\ Shaped(todo') /\ emit' = << >> /\ Few(emit')
      BY <1>1, <2>4, AbandonedFits DEF Collides, Typed
    <3> QED
      BY <1>1, <1>8, <2>2, <3>1 DEF CheckpointStep, Keeps, BaseInv, Typed
  <2> QED
    BY <1>8, <2>3, <2>4 DEF CheckpointStep
<1>9. CASE Crash
  <2>4. torn' \in BOOLEAN
    BY <1>9 DEF Crash
  <2>5. crashes \in 0..MaxCrashes /\ crashes < MaxCrashes /\ crashes' = crashes + 1
    BY <1>1, <1>9 DEF Crash, MayCrash, Typed
  <2>1. torn' \in BOOLEAN /\ crashes' \in 0..MaxCrashes /\ crashes' > 0
    BY ONLY <2>4, <2>5, LimitAssumption DEF LimitAssumption
  <2>2. << >> \in Seq(FitOp) /\ << >> \in Seq(FitEvent) /\ Shaped(<< >>)
        /\ Few(<< >>)
    BY DEF Shaped, Few
  <2>3. ledger' = ledger
    BY <1>9 DEF Crash
  <2> QED
    BY <1>1, <1>6, <1>9, <2>1, <2>2, <2>3 DEF Crash, BaseInv, Typed
<1>10. CASE Opens
  <2>1. LastCheckpoint \in Memory
    BY <1>1, LastNow DEF HasLast, Typed
  <2>2. emit' \in Seq(FitEvent) /\ Few(emit')
    <3>1. mem' \in Memory
      BY <1>10, <2>1 DEF Opens
    <3>2. Events(mem', Op("quarantine", Run, NoAnswer)) \in Seq(FitEvent)
          /\ Few(Events(mem', Op("quarantine", Run, NoAnswer)))
      BY <1>1, <3>1, QuarantineFits, EventsAre
    <3>3. << >> \in Seq(FitEvent) /\ Few(<< >>)
      BY DEF Few
    <3> QED
      BY <1>10, <3>2, <3>3 DEF Opens
  <2>3. todo' = << >> /\ Shaped(todo') /\ half' = FALSE
    BY <1>10 DEF Opens, BaseInv, Typed, Shaped
  <2>4. ledger' = ledger
    BY <1>10 DEF Opens
  <2> QED
    BY <1>1, <1>6, <1>10, <2>1, <2>2, <2>3, <2>4 DEF Opens, BaseInv, Typed
<1>11. CASE UNCHANGED vars
  BY <1>1, <1>11 DEF vars, BaseInv, Typed, HasLast, IsLast, Shaped, Few
<1> QED
  BY <1>1, <1>2, <1>3, <1>4, <1>7, <1>8, <1>9, <1>10, <1>11 DEF Kind

-----------------------------------------------------------------------------
(* The status of the run.  The events that set it are numbered by the      *)
(* length of the ledger they are appended to, so no two of them share a    *)
(* key and none is ever refused or passed over.                            *)

NumberInv ==
    /\ \A i \in DOMAIN ledger : ledger[i].key.op \in StatusOp =>
          ledger[i].key.at < IF ledger[i].type = "event" THEN i ELSE i - 1
    /\ \A j \in DOMAIN emit : emit[j].key.op \in StatusOp =>
          emit[j].key.at = Len(ledger) - (IF half THEN 1 ELSE 0)

StatusEvents(l) == {i \in DOMAIN l : l[i].type = "event" /\ l[i].key.op \in StatusOp}
Says(l, s) ==
    \/ StatusEvents(l) = {} /\ s = "active"
    \/ \E i \in StatusEvents(l) : /\ \A j \in StatusEvents(l) : j <= i
                                  /\ s = StatusAfter[l[i].key.op]

(* The events say what the memory says, or are just about to.              *)
StatusToSay == \E j \in DOMAIN emit : emit[j].key.op \in StatusOp
ReplayInv ==
    crashes = 0 =>
        /\ \A j \in DOMAIN emit : emit[j].key.op \in StatusOp =>
              mem.status = StatusAfter[emit[j].key.op]
        /\ Says(ledger, mem.status) \/ (~half /\ StatusToSay)

StatusInv == BaseInv /\ NumberInv /\ ReplayInv

LEMMA StatusOps ==
    /\ StatusOp \subseteq RunOp /\ StatusOp \cap CellOp = {}
    /\ "created" \notin StatusOp /\ "decompose" \notin StatusOp /\ "quarantine" \notin StatusOp
    /\ "record_intervention" \notin StatusOp
  BY Names DEF StatusOp

\* What is in the ledger after a record is appended.
LEMMA Grown1 ==
    ASSUME NEW r \in Record, ledger \in Seq(Record), ledger' = Append(ledger, r)
    PROVE  /\ Len(ledger) \in Nat /\ Len(ledger') = Len(ledger) + 1
           /\ DOMAIN ledger = 1..Len(ledger) /\ DOMAIN ledger' = 1..(Len(ledger) + 1)
           /\ \A i \in DOMAIN ledger : ledger'[i] = ledger[i]
           /\ ledger'[Len(ledger) + 1] = r
           /\ \A i \in DOMAIN ledger' : i \in DOMAIN ledger \/ i = Len(ledger) + 1
  BY AppendProperties, LenProperties

(* A status event is appended, and its checkpoint: both keys are new.      *)
LEMMA StatusIsFresh ==
    ASSUME Typed, NumberInv, emit # << >>, emit[1].key.op \in StatusOp
    PROVE  /\ ~half => ~Repeats(EventToAppend) /\ ~Collides(EventToAppend)
           /\ half => ~Repeats(CheckpointToAppend) /\ ~Collides(CheckpointToAppend)
<1>1. 1 \in DOMAIN emit /\ Len(ledger) \in Nat /\ DOMAIN ledger = 1..Len(ledger)
  BY RecordsFit, LenProperties DEF Typed
<1>2. emit[1].key.at = Len(ledger) - (IF half THEN 1 ELSE 0)
  BY <1>1 DEF NumberInv
<1>3. ASSUME NEW i \in DOMAIN ledger, ledger[i].key = emit[1].key
      PROVE  emit[1].key.at < IF ledger[i].type = "event" THEN i ELSE i - 1
  BY <1>3 DEF NumberInv
<1>4. CASE ~half
  BY <1>1, <1>2, <1>3, <1>4 DEF Repeats, Collides, EventToAppend
<1>5. CASE half
  BY <1>1, <1>2, <1>3, <1>5 DEF Repeats, Collides, CheckpointToAppend
<1> QED
  BY <1>4, <1>5

LEMMA NumberStep ==
    ASSUME TreeAssumption, LimitAssumption, BaseInv, BaseInv', NumberInv, [Next]_vars
    PROVE  NumberInv'
<1>1. Typed /\ Few(emit) /\ Kind /\ (emit # << >> => up) /\ Typed'
  BY StepIs DEF BaseInv
<1> USE DEF NumberInv
<1>2. ASSUME NEW o \in FitOp, Performs(o)
      PROVE  NumberInv'
  <2>1. mem' \in Memory
    BY <1>1, <1>2 DEF Performs, Typed
  <2>2. \A j \in DOMAIN emit' : emit'[j].key.op \in StatusOp =>
            emit'[j] = Main(mem', o)
    BY <1>1, <1>2, <2>1, EventsAre, StatusOps DEF Performs, Created, Event
  <2>3. o.name \in StatusOp => Main(mem', o).key.at = Len(ledger)
    BY StatusOps DEF Main, Event, RunKeyNumber
  <2>4. Main(mem', o).key.op = o.name
    BY DEF Main, Event
  <2>5. half' = FALSE /\ ledger' = ledger /\ Len(ledger) \in Nat
    BY <1>1, <1>2, LenProperties DEF Performs, Typed
  <2> QED
    BY <2>2, <2>3, <2>4, <2>5
<1>3. ASSUME emit' = << >>, ledger' = ledger
      PROVE  NumberInv'
  BY <1>3
<1>4. ASSUME NEW o \in FitOp, Fails(o) \/ Calls(o)
      PROVE  NumberInv'
  BY <1>3, <1>4 DEF Fails, Calls, Abandoned, Idle
<1>5. CASE EventStep
  <2>1. EventToAppend \in Record /\ EventToAppend.type = "event"
        /\ EventToAppend.key = emit[1].key /\ 1 \in DOMAIN emit
    BY <1>1, <1>5, RecordsFit DEF EventStep, Record, EventToAppend
  <2>2. CASE Appends(EventToAppend) /\ half' = TRUE /\ UNCHANGED <<todo, emit, refused>>
    <3>1. ledger' = Append(ledger, EventToAppend) /\ ~half
      BY <1>5, <2>2 DEF Appends, EventStep
    <3>2. /\ Len(ledger) \in Nat /\ Len(ledger') = Len(ledger) + 1
          /\ DOMAIN ledger = 1..Len(ledger) /\ DOMAIN ledger' = 1..(Len(ledger) + 1)
          /\ \A i \in DOMAIN ledger : ledger'[i] = ledger[i]
          /\ ledger'[Len(ledger) + 1] = EventToAppend
          /\ \A i \in DOMAIN ledger' : i \in DOMAIN ledger \/ i = Len(ledger) + 1
      BY <1>1, <2>1, <3>1, Grown1 DEF Typed
    <3> HIDE DEF NumberInv
    <3>3. NumberInv
      OBVIOUS
    <3> QED
      BY ONLY <2>1, <2>2, <3>1, <3>2, <3>3 DEF NumberInv
  <2>3. CASE Repeats(EventToAppend) /\ half' = TRUE /\ UNCHANGED <<todo, emit, refused>>
    <3>1. emit[1].key.op \notin StatusOp
      BY <1>1, <1>5, <2>3, StatusIsFresh DEF EventStep
    <3>2. \A j \in DOMAIN emit : emit[j].key.op \notin StatusOp
      BY <1>1, <3>1, StatusOps DEF Few
    <3> QED
      BY <2>3, <3>2 DEF Repeats
  <2>4. CASE Collides(EventToAppend)
    BY <1>3, <2>4 DEF Collides, Abandoned
  <2> QED
    BY <1>5, <2>2, <2>3, <2>4 DEF EventStep
<1>6. CASE CheckpointStep
  <2>1. CheckpointToAppend \in Record /\ CheckpointToAppend.type = "checkpoint"
        /\ CheckpointToAppend.key = emit[1].key /\ 1 \in DOMAIN emit /\ half
    BY <1>1, <1>6, RecordsFit DEF CheckpointStep, Record, CheckpointToAppend
  <2>5. \A j \in DOMAIN Tail(emit) : Tail(emit)[j].key.op \notin StatusOp
    BY <1>1, <1>6, TailFew, StatusOps DEF CheckpointStep, Typed
  <2>2. CASE Appends(CheckpointToAppend) /\ half' = FALSE /\ emit' = Tail(emit) /\ UNCHANGED <<todo, refused>>
    <3>1. ledger' = Append(ledger, CheckpointToAppend)
      BY <2>2 DEF Appends
    <3>2. emit[1].key.op \in StatusOp => emit[1].key.at = Len(ledger) - 1
      BY <2>1
    <3>3. /\ DOMAIN ledger' = 1..(Len(ledger) + 1) /\ Len(ledger) \in Nat
          /\ \A i \in DOMAIN ledger : ledger'[i] = ledger[i]
          /\ ledger'[Len(ledger) + 1] = CheckpointToAppend
          /\ DOMAIN ledger = 1..Len(ledger)
      BY <1>1, <2>1, <3>1, Grown1 DEF Typed
    <3>4. ASSUME NEW i \in DOMAIN ledger', ledger'[i].key.op \in StatusOp
          PROVE  ledger'[i].key.at < IF ledger'[i].type = "event" THEN i ELSE i - 1
      <4>1. CASE i \in DOMAIN ledger
        BY <3>3, <3>4, <4>1
      <4>2. CASE i = Len(ledger) + 1
        <5>1. ledger'[i].key.at = Len(ledger) - 1 /\ ledger'[i].type = "checkpoint"
          BY <2>1, <3>2, <3>3, <3>4, <4>2
        <5> QED
          BY ONLY <3>3, <4>2, <5>1
      <4> QED
        BY <3>3, <4>1, <4>2
    <3> QED
      BY <2>2, <2>5, <3>4
  <2>3. CASE Repeats(CheckpointToAppend) /\ half' = FALSE /\ emit' = Tail(emit) /\ UNCHANGED <<todo, refused>>
    BY <2>3, <2>5 DEF Repeats
  <2>4. CASE Collides(CheckpointToAppend)
    BY <1>3, <2>4 DEF Collides, Abandoned
  <2> QED
    BY <1>6, <2>2, <2>3, <2>4 DEF CheckpointStep
<1>7. CASE Crash
  BY <1>3, <1>7 DEF Crash
<1>8. CASE Opens
  <2>1. mem' \in Memory
    BY <1>1 DEF Typed
  <2>2. \A j \in DOMAIN emit' : emit'[j].key.op \notin StatusOp
    <3>1. CASE torn
      <4> DEFINE o == Op("quarantine", Run, NoAnswer)
      <4>1. o \in FitOp /\ o.name = "quarantine" /\ emit' = Events(mem', o)
        BY <1>8, <3>1, QuarantineFits DEF Opens
      <4>2. \A j \in DOMAIN emit' : emit'[j] = Main(mem', o)
        BY <1>1, <2>1, <4>1, EventsAre
      <4> QED
        BY <4>1, <4>2, StatusOps DEF Main, Event
    <3>2. CASE ~torn
      BY <1>8, <3>2 DEF Opens
    <3> QED
      BY <3>1, <3>2
  <2> QED
    BY <1>8, <2>2 DEF Opens
<1>9. CASE UNCHANGED vars
  BY <1>9 DEF vars
<1> QED
  BY <1>1, <1>2, <1>4, <1>5, <1>6, <1>7, <1>8, <1>9 DEF Kind

LEMMA ReplayStep ==
    ASSUME TreeAssumption, LimitAssumption, BaseInv, BaseInv', NumberInv, ReplayInv, [Next]_vars
    PROVE  ReplayInv'
<1>1. Typed /\ Few(emit) /\ Kind /\ (emit # << >> => up) /\ Typed'
  BY StepIs DEF BaseInv
<1>11. (~up => crashes > 0) /\ crashes \in Nat
  BY <1>1 DEF BaseInv, Typed
<1> USE DEF ReplayInv
<1>2. ASSUME NEW o \in FitOp, Performs(o)
      PROVE  ReplayInv'
  <2>1. mem' \in Memory /\ mem \in Memory
    BY <1>1, <1>2 DEF Performs, Typed
  <2>2. \A j \in DOMAIN emit' : emit'[j].key.op \in StatusOp =>
            emit'[j] = Main(mem', o)
    BY <1>1, <1>2, <2>1, EventsAre, StatusOps DEF Performs, Created, Event
  <2>4. Main(mem', o).key.op = o.name
    BY DEF Main, Event
  <2>5. half' = FALSE /\ ledger' = ledger /\ crashes' = crashes /\ emit = << >>
    BY <1>2 DEF Performs
  <2>6. CASE o.name \in StatusOp
    <3>1. mem'.status = StatusAfter[o.name]
      BY <1>2, <2>1, <2>6, RunEffectFields, StatusOps DEF Performs
    <3>2. StatusToSay'
      <4>1. \E j \in DOMAIN Events(mem', o) : Events(mem', o)[j] = Main(mem', o)
        BY <1>1, <2>1, EventsAre
      <4> QED
        BY <1>2, <2>4, <2>6, <4>1 DEF Performs, StatusToSay
    <3> QED
      BY <2>2, <2>4, <2>5, <3>1, <3>2
  <2>7. CASE o.name \notin StatusOp
    <3>1. mem'.status = mem.status
      BY <1>1, <1>2, <2>1, <2>7, RunEffectFields, CellEffectShape DEF Performs, FitOp
    <3>2. crashes = 0 => Says(ledger, mem.status)
      BY <2>5 DEF StatusToSay
    <3> QED
      BY <2>2, <2>4, <2>5, <2>7, <3>1, <3>2
  <2> QED
    BY <2>6, <2>7
<1>3. ASSUME emit' = << >>, ledger' = ledger, mem' = mem, crashes' = crashes,
             crashes = 0 => Says(ledger, mem.status)
      PROVE  ReplayInv'
  BY <1>3
<1>4. ASSUME NEW o \in FitOp, Fails(o) \/ Calls(o)
      PROVE  ReplayInv'
  <2>1. emit = << >> /\ emit' = << >> /\ ledger' = ledger /\ mem' = mem /\ crashes' = crashes
    BY <1>4 DEF Fails, Calls, Abandoned, Idle
  <2>2. crashes = 0 => Says(ledger, mem.status)
    BY <2>1 DEF StatusToSay
  <2> QED
    BY <1>3, <2>1, <2>2
<1>5. CASE EventStep
  <2>1. EventToAppend \in Record /\ EventToAppend.type = "event"
        /\ EventToAppend.key = emit[1].key /\ 1 \in DOMAIN emit
        /\ mem' = mem /\ crashes' = crashes /\ ~half
    BY <1>1, <1>5, RecordsFit DEF EventStep, Keeps, Record, EventToAppend
  <2>6. emit[1].key.op \notin StatusOp => ~StatusToSay
    BY <1>1, StatusOps DEF Few, StatusToSay
  <2>2. CASE Appends(EventToAppend) /\ half' = TRUE /\ UNCHANGED <<todo, emit, refused>>
    <3>1. ledger' = Append(ledger, EventToAppend)
      BY <2>2 DEF Appends
    <3>2. /\ Len(ledger) \in Nat /\ DOMAIN ledger' = 1..(Len(ledger) + 1)
          /\ DOMAIN ledger = 1..Len(ledger)
          /\ \A i \in DOMAIN ledger : ledger'[i] = ledger[i]
          /\ ledger'[Len(ledger) + 1] = EventToAppend
      BY <1>1, <2>1, <3>1, Grown1 DEF Typed
    <3>3. CASE emit[1].key.op \in StatusOp
      <4>1. Len(ledger) + 1 \in StatusEvents(ledger')
        BY <2>1, <3>2, <3>3 DEF StatusEvents
      <4>2. \A j \in StatusEvents(ledger') : j <= Len(ledger) + 1
        BY <3>2 DEF StatusEvents
      <4>3. crashes = 0 => mem.status = StatusAfter[ledger'[Len(ledger) + 1].key.op]
        BY <2>1, <3>2, <3>3
      <4>4. crashes = 0 => Says(ledger', mem.status)
        BY <4>1, <4>2, <4>3 DEF Says
      <4> QED
        BY <2>1, <2>2, <4>4
    <3>4. CASE emit[1].key.op \notin StatusOp
      <4>1. StatusEvents(ledger') = StatusEvents(ledger)
        BY <2>1, <3>2, <3>4 DEF StatusEvents
      <4>2. \A s : Says(ledger, s) => Says(ledger', s)
        BY <3>2, <4>1 DEF Says, StatusEvents
      <4> QED
        BY <2>1, <2>2, <2>6, <3>4, <4>2 DEF StatusToSay
    <3> QED
      BY <3>3, <3>4
  <2>3. CASE Repeats(EventToAppend) /\ half' = TRUE /\ UNCHANGED <<todo, emit, refused>>
    <3>1. ~StatusToSay
      BY <1>1, <1>5, <2>3, <2>6, StatusIsFresh DEF EventStep
    <3> QED
      BY <2>1, <2>3, <3>1 DEF Repeats, StatusToSay
  <2>4. CASE Collides(EventToAppend)
    <3>1. ~StatusToSay
      BY <1>1, <1>5, <2>4, <2>6, StatusIsFresh DEF EventStep
    <3> QED
      BY <1>3, <2>1, <2>4, <3>1 DEF Collides, Abandoned
  <2> QED
    BY <1>5, <2>2, <2>3, <2>4 DEF EventStep
<1>6. CASE CheckpointStep
  <2>1. CheckpointToAppend \in Record /\ CheckpointToAppend.type = "checkpoint"
        /\ mem' = mem /\ crashes' = crashes /\ half
    BY <1>1, <1>6, RecordsFit DEF CheckpointStep, Keeps, Record, CheckpointToAppend
  <2>5. \A j \in DOMAIN Tail(emit) : Tail(emit)[j].key.op \notin StatusOp
    BY <1>1, <1>6, TailFew, StatusOps DEF CheckpointStep, Typed
  <2>6. crashes = 0 => Says(ledger, mem.status)
    BY <2>1
  <2>2. CASE Appends(CheckpointToAppend) /\ half' = FALSE /\ emit' = Tail(emit) /\ UNCHANGED <<todo, refused>>
    <3>1. ledger' = Append(ledger, CheckpointToAppend)
      BY <2>2 DEF Appends
    <3>2. /\ Len(ledger) \in Nat /\ DOMAIN ledger' = 1..(Len(ledger) + 1)
          /\ DOMAIN ledger = 1..Len(ledger)
          /\ \A i \in DOMAIN ledger : ledger'[i] = ledger[i]
          /\ ledger'[Len(ledger) + 1] = CheckpointToAppend
      BY <1>1, <2>1, <3>1, Grown1 DEF Typed
    <3>3. StatusEvents(ledger') = StatusEvents(ledger)
      BY <2>1, <3>2 DEF StatusEvents
    <3>4. \A s : Says(ledger, s) => Says(ledger', s)
      BY <3>2, <3>3 DEF Says, StatusEvents
    <3> QED
      BY <2>1, <2>2, <2>5, <2>6, <3>4
  <2>3. CASE Repeats(CheckpointToAppend) /\ half' = FALSE /\ emit' = Tail(emit) /\ UNCHANGED <<todo, refused>>
    BY <2>1, <2>3, <2>5, <2>6 DEF Repeats
  <2>4. CASE Collides(CheckpointToAppend)
    BY <1>3, <2>1, <2>4, <2>6 DEF Collides, Abandoned
  <2> QED
    BY <1>6, <2>2, <2>3, <2>4 DEF CheckpointStep
<1>7. CASE Crash
  BY <1>7, <1>11 DEF Crash
<1>8. CASE Opens
  BY <1>8, <1>11 DEF Opens
<1>9. CASE UNCHANGED vars
  BY <1>9 DEF vars, StatusToSay
<1> QED
  BY <1>1, <1>2, <1>4, <1>5, <1>6, <1>7, <1>8, <1>9 DEF Kind

LEMMA StatusInit ==
    ASSUME TreeAssumption, LimitAssumption, Init
    PROVE  StatusInv
<1>1. BaseInv
  BY BaseInit
<1>2. emit = << >> /\ mem.status = "active"
  BY DEF Init
<1>3. \A i \in DOMAIN ledger : ledger[i].key.op = "created"
  BY DEF Init
<1>4. NumberInv
  BY <1>2, <1>3, StatusOps DEF NumberInv
<1>5. StatusEvents(ledger) = {}
  BY <1>3, StatusOps DEF StatusEvents
<1>6. ReplayInv
  BY <1>2, <1>5 DEF ReplayInv, Says
<1> QED
  BY <1>1, <1>4, <1>6 DEF StatusInv

(* The variables keep their types.                                         *)
THEOREM TypeCorrect ==
    ASSUME TreeAssumption, LimitAssumption
    PROVE  Spec => []TypeOK
<1>1. Init => BaseInv
  BY BaseInit
<1>2. BaseInv /\ [Next]_vars => BaseInv'
  BY BaseStep
<1>3. BaseInv => TypeOK
  <2> SUFFICES ASSUME BaseInv PROVE TypeOK
    OBVIOUS
  <2>1. Typed
    BY DEF BaseInv
  <2>2. \A i \in DOMAIN ledger : ledger[i] \in Record
    BY <2>1 DEF Typed
  <2>3. \A i \in DOMAIN todo : todo[i] \in FitOp
    BY <2>1 DEF Typed
  <2>4. \A i \in DOMAIN emit : emit[i] \in FitEvent
    BY <2>1 DEF Typed
  <2>5. \A i \in DOMAIN ledger :
          /\ ledger[i].key \in Key
          /\ \/ ledger[i].type = "event" /\ ledger[i].body \in Answer \cup {NoAnswer}
             \/ ledger[i].type = "checkpoint" /\ ledger[i].body \in Memory
    BY <2>2 DEF Record, EventRecord, CheckpointRecord, FitKey
  <2>6. \A i \in DOMAIN todo : todo[i] \in
          [name : CellOp \cup RunOp, subject : CellId \cup {Run}, answer : Answer \cup {NoAnswer}]
    BY <2>3 DEF FitOp
  <2>7. \A i \in DOMAIN emit : emit[i] \in [key : Key, body : Answer \cup {NoAnswer}]
    BY <2>4 DEF FitEvent, FitKey
  <2> QED
    BY <2>1, <2>5, <2>6, <2>7 DEF Typed, TypeOK
<1> QED
  BY <1>1, <1>2, <1>3, PTL DEF Spec

(* Claim READY-RECOVERY-04: between the calls of a run that has not        *)
(* crashed, the status replayed from the events is the status in memory,   *)
(* for every tree, every answer and every sequence of refusals, pauses,    *)
(* halts and resumptions.                                                  *)
THEOREM ReplayAgreesCorrect ==
    ASSUME TreeAssumption, LimitAssumption
    PROVE  Spec => []ReplayAgrees
<1>1. Init => StatusInv
  BY StatusInit
<1>2. StatusInv /\ [Next]_vars => StatusInv'
  BY BaseStep, NumberStep, ReplayStep DEF StatusInv
<1>3. StatusInv => ReplayAgrees
  <2> SUFFICES ASSUME StatusInv, Idle, crashes = 0
               PROVE  ReplayedStatus = mem.status
    BY DEF ReplayAgrees
  <2>1. Says(ledger, mem.status)
    BY DEF StatusInv, ReplayInv, Idle, StatusToSay
  <2> DEFINE at == StatusEvents(ledger)
  <2> DEFINE raw == {i \in DOMAIN ledger : /\ ledger[i].type = "event"
                                          /\ ledger[i].key.op \in DOMAIN StatusAfter}
  <2>2. raw = at
    BY Names DEF StatusEvents
  <2>8. ReplayedStatus = IF raw = {} THEN "active"
                         ELSE StatusAfter[ledger[CHOOSE i \in raw : \A j \in raw : j <= i].key.op]
    BY DEF ReplayedStatus
  <2>3. at \subseteq Nat
    BY LenProperties DEF StatusInv, BaseInv, Typed, StatusEvents
  <2>4. ReplayedStatus = IF at = {} THEN "active"
                         ELSE StatusAfter[ledger[CHOOSE i \in at : \A j \in at : j <= i].key.op]
    <3> HIDE DEF raw, at
    <3> QED
      BY <2>2, <2>8
  <2> HIDE DEF at
  <2>5. ASSUME NEW i \in at, \A j \in at : j <= i
        PROVE  (CHOOSE k \in at : \A j \in at : j <= k) = i
    <3>1. \A k \in at : (\A j \in at : j <= k) => k = i
      BY <2>3, <2>5
    <3> DEFINE Q(k) == \A j \in at : j <= k
    <3>2. Q(i) /\ \A k \in at : Q(k) => k = i
      BY <2>5, <3>1
    <3> HIDE DEF Q
    <3>3. (CHOOSE k \in at : Q(k)) = i
      BY <2>5, <3>2
    <3> QED
      BY <3>3 DEF Q
  <2>6. CASE at = {} /\ mem.status = "active"
    BY <2>4, <2>6
  <2>7. CASE \E i \in at : (\A j \in at : j <= i) /\ mem.status = StatusAfter[ledger[i].key.op]
    <3>1. PICK i \in at : (\A j \in at : j <= i) /\ mem.status = StatusAfter[ledger[i].key.op]
      BY <2>7
    <3> QED
      BY <2>4, <2>5, <3>1
  <2> QED
    BY <2>1, <2>6, <2>7 DEF Says, at
<1> QED
  BY <1>1, <1>2, <1>3, PTL DEF Spec

-----------------------------------------------------------------------------
(* Recovery.  A checkpoint says of the memory it was made from what its    *)
(* key says, and every checkpoint has grown from the ones before it.       *)

Reviewed == "record_post_review"

Grows(b, m) ==
    /\ \A c \in CellId :
          /\ b.rev[c] <= m.rev[c]
          /\ b.phase[c] # "absent" => m.phase[c] # "absent"
          /\ b.decided[c][Reviewed] # NoAnswer => m.decided[c][Reviewed] # NoAnswer
    /\ Len(b.notes) <= Len(m.notes) /\ b.length <= m.length

\* What a key says of the memory its operation has made.
Reached(k, m) ==
    /\ k.op \in CellOp => k.at <= m.rev[k.subject]
    /\ k.op = Reviewed => m.decided[k.subject][Reviewed] # NoAnswer
    /\ k.op = "created" => m.phase[k.subject] # "absent"
    /\ k.op = "record_intervention" => k.at <= Len(m.notes)

\* Between two operations only a note that the ledger has refused is in memory.
SameButNotes(b, m) == b = [m EXCEPT !.notes = b.notes]
AtRest ==
    \/ LastCheckpoint = mem
    \/ <<"record_intervention", Run>> \in disowned /\ SameButNotes(LastCheckpoint, mem)

NewCells(m) == \A c \in CellId : m.phase[c] = "absent" => m.rev[c] = 0

CheckpointInv ==
    /\ \A i \in DOMAIN ledger : ledger[i].type = "checkpoint" =>
          Grows(ledger[i].body, LastCheckpoint) /\ Reached(ledger[i].key, ledger[i].body)
    /\ \A i \in DOMAIN ledger : ledger[i].key.op = "quarantine" =>
          ledger[i].key.at <= crashes /\ (~up => ledger[i].key.at < crashes)
    /\ Grows(LastCheckpoint, mem)
    /\ NewCells(mem) /\ NewCells(LastCheckpoint)

EmitInv ==
    /\ half => \E i \in DOMAIN ledger : /\ ledger[i].type = "event"
                                        /\ ledger[i].key = emit[1].key
                                        /\ ledger[i].body = emit[1].body
    /\ \A j \in DOMAIN emit :
          /\ Reached(emit[j].key, mem)
          /\ emit[j].key.op = "quarantine" => emit[j].key.at = crashes
          /\ emit[j].key.op \in CellOp \cup {"created"} =>
                mem.status = "active" /\ LastCheckpoint.status = "active"
          /\ emit[j].key.op = Reviewed =>
                /\ mem.length > LastCheckpoint.length
                /\ mem.phase[emit[j].key.subject] = "post_review"
          /\ emit[j].key.op = "record_intervention" => SameButNotes(LastCheckpoint, mem)
    /\ \A j \in DOMAIN emit : \A i \in DOMAIN ledger :
          ledger[i].type = "checkpoint" /\ ledger[i].key = emit[j].key =>
             \/ crashes > 0 /\ emit[j].key.op = Reviewed
             \/ ledger[i].body = mem /\ LastCheckpoint = mem

TodoInv ==
    /\ todo # << >> /\ Head(todo).name \in CellOp \cup {"park"} => mem.status = "active"
    /\ up /\ emit = << >> /\ (todo = << >> \/ Head(todo).name # "park") => AtRest

\* While nothing has crashed, no event of an answer is found in the ledger
\* before it is appended.
FreshInv ==
    crashes = 0 =>
        /\ disowned = {}
        /\ \A i \in DOMAIN ledger : ledger[i].type = "event" => Reached(ledger[i].key, mem)
        /\ \A i \in DOMAIN ledger, j \in DOMAIN emit :
              ledger[i].type = "event" /\ ledger[i].key = emit[j].key
              /\ emit[j].key.op \in Answered => half
        /\ \A c \in CellId : mem.decided[c][Reviewed] # NoAnswer =>
              /\ mem.phase[c] \in {"post_review", "closed"}
              /\ mem.phase[c] = "post_review" =>
                    todo # << >> /\ Head(todo).name = "close" /\ Head(todo).subject = c

RecoverInv == CheckpointInv /\ EmitInv /\ TodoInv /\ FreshInv

LEMMA AtRestFields ==
    ASSUME NEW b \in Memory, NEW m \in Memory, b = m \/ SameButNotes(b, m)
    PROVE  /\ b.status = m.status /\ b.length = m.length /\ b.decided = m.decided
           /\ b.phase = m.phase /\ b.kids = m.kids /\ SameButNotes(b, m)
  BY DEF SameButNotes, Memory

LEMMA GrowsItself ==
    ASSUME NEW m \in Memory
    PROVE  Grows(m, m)
  BY LenProperties DEF Grows, Memory

LEMMA GrowsOn ==
    ASSUME NEW a \in Memory, NEW b \in Memory, NEW m \in Memory, Grows(a, b), Grows(b, m)
    PROVE  Grows(a, m)
<1>1. \A c \in CellId : a.rev[c] \in Nat /\ b.rev[c] \in Nat /\ m.rev[c] \in Nat
  BY DEF Memory
<1>2. /\ Len(a.notes) \in Nat /\ Len(b.notes) \in Nat /\ Len(m.notes) \in Nat
      /\ a.length \in Nat /\ b.length \in Nat /\ m.length \in Nat
  BY LenProperties DEF Memory
<1> QED
  BY <1>1, <1>2 DEF Grows

LEMMA ReachedOn ==
    ASSUME NEW k \in FitKey, NEW a \in Memory, NEW b \in Memory, Grows(a, b), Reached(k, a)
    PROVE  Reached(k, b)
<1>1. k.at \in Nat /\ (k.op \notin RunOp => k.subject \in CellId)
  BY DEF FitKey, Key
<1>2. \A c \in CellId : a.rev[c] \in Nat /\ b.rev[c] \in Nat
  BY DEF Memory
<1>3. Len(a.notes) \in Nat /\ Len(b.notes) \in Nat
  BY LenProperties DEF Memory
<1>4. k.op \in CellOp \cup {"created"} => k.subject \in CellId
  BY <1>1, Names
<1>5. Reviewed \in CellOp
  BY Names DEF Reviewed
<1> QED
  BY <1>1, <1>2, <1>3, <1>4, <1>5 DEF Grows, Reached

(* An operation that is allowed only adds to the memory.                   *)
LEMMA EffectGrows ==
    ASSUME TreeAssumption, AnswerAssumption, NEW m \in Memory, NEW o \in FitOp,
           NewCells(m), Allowed(m, o)
    PROVE  Grows(m, Effect(m, o)) /\ NewCells(Effect(m, o))
<1> DEFINE e == Effect(m, o)
<1>1. CASE o.name \in RunOp
  <2>1. e \in Memory /\ Alike(m, e)
        /\ e.notes = IF o.name = "record_intervention" THEN Append(m.notes, o.answer)
                     ELSE m.notes
    BY <1>1, RunEffectFields
  <2>2. Len(m.notes) <= Len(e.notes)
    <3>1. m.notes \in Seq(Answer) /\ Len(m.notes) \in Nat
      BY LenProperties DEF Memory
    <3>2. o.name = "record_intervention" => o.answer \in Answer
      BY DEF FitOp, Said, Answered
    <3>3. o.name = "record_intervention" => Len(e.notes) = Len(m.notes) + 1
      BY <2>1, <3>1, <3>2, AppendProperties
    <3> QED
      BY <2>1, <3>1, <3>3
  <2> HIDE DEF e
  <2>3. Grows(m, m)
    BY GrowsItself
  <2> QED
    BY <2>1, <2>2, <2>3 DEF Grows, NewCells, Alike, e
<1>2. CASE o.name \in CellOp
  <2> DEFINE c == o.subject
             new == Makes(o)
  <2>1. /\ e \in Memory /\ c \in CellId /\ e.notes = m.notes /\ e.length = m.length + 1
        /\ \A k \in CellId :
             /\ e.phase[k] = IF k \in new THEN "contract"
                             ELSE IF k = c THEN To(o.name, c) ELSE m.phase[k]
             /\ e.rev[k] = IF k \in new THEN 1
                           ELSE IF k = c /\ o.name # "record_post_review"
                                THEN m.rev[k] + 1 ELSE m.rev[k]
             /\ \A n \in CellOp :
                  e.decided[k][n] = IF k = c /\ n = o.name THEN o.answer
                                    ELSE m.decided[k][n]
    <3>1. e \in Memory /\ c \in CellId /\ e.notes = m.notes /\ e.length = m.length + 1
      BY <1>2, CellEffectShape
    <3>2. \A k \in CellId : e.phase[k] = IF k \in new THEN "contract"
                                         ELSE IF k = c THEN To(o.name, c) ELSE m.phase[k]
      BY <1>2, CellEffectPhase
    <3>3. \A k \in CellId : e.rev[k] = IF k \in new THEN 1
                                       ELSE IF k = c /\ o.name # "record_post_review"
                                            THEN m.rev[k] + 1 ELSE m.rev[k]
      BY <1>2, CellEffectRev
    <3>4. \A k \in CellId : \A n \in CellOp :
             e.decided[k][n] = IF k = c /\ n = o.name THEN o.answer ELSE m.decided[k][n]
      BY <1>2, CellEffectDecided
    <3> HIDE DEF e, new
    <3> QED
      BY ONLY <3>1, <3>2, <3>3, <3>4
  <2>2. \A k \in new : m.phase[k] = "absent"
    BY <1>2, MakesKids DEF Allowed
  <2>3. To(o.name, c) # "absent"
    BY ONLY <1>2, <2>1, Destinations
  <2>4. \A k \in CellId : m.rev[k] \in Nat
    BY DEF Memory
  <2>5. o.name = Reviewed => o.answer # NoAnswer
    BY DEF Reviewed, FitOp, Said, Answered, AnswerAssumption
  <2>6. Reviewed \in CellOp
    BY Names DEF Reviewed
  <2>7. Len(m.notes) \in Nat /\ m.length \in Nat
    BY LenProperties DEF Memory
  <2> HIDE DEF e, new, c
  <2>8. \A k \in CellId : m.rev[k] <= e.rev[k]
    BY <2>1, <2>2, <2>4 DEF NewCells
  <2>9. \A k \in CellId : /\ m.phase[k] # "absent" => e.phase[k] # "absent"
                          /\ e.phase[k] = "absent" => e.rev[k] = 0
    BY <2>1, <2>3 DEF NewCells
  <2>10. \A k \in CellId : m.decided[k][Reviewed] # NoAnswer => e.decided[k][Reviewed] # NoAnswer
    BY <2>1, <2>5, <2>6
  <2>11. Len(m.notes) <= Len(e.notes) /\ m.length <= e.length
    BY <2>1, <2>7
  <2> QED
    BY <2>8, <2>9, <2>10, <2>11 DEF Grows, NewCells, e
<1> QED
  BY <1>1, <1>2 DEF FitOp

(* The keys of an operation's events say what the memory after it shows,   *)
(* and what the memory before it did not, except for a second post-review. *)
LEMMA EventsReached ==
    ASSUME TreeAssumption, AnswerAssumption, Typed, NEW o \in FitOp, mem' = Effect(mem, o),
           NewCells(mem), Allowed(mem, o), o.name # "quarantine",
           NEW j \in DOMAIN Events(mem', o)
    PROVE  LET k == Events(mem', o)[j].key IN
           /\ k \in FitKey /\ Reached(k, mem')
           /\ o.name \notin StatusOp \cup {Reviewed} => ~Reached(k, mem)
           /\ o.name = Reviewed => k.op = Reviewed /\ k.subject = o.subject
           /\ k.op \in {o.name, "created"} /\ k.op \notin {"quarantine"}
           /\ o.name \in RunOp => k.op = o.name
<1> DEFINE k == Events(mem', o)[j].key
<1>1. mem \in Memory /\ mem' \in Memory
  BY CellEffectShape, RunEffectFields DEF Typed, FitOp
<1>2. \/ Events(mem', o)[j] = Main(mem', o)
      \/ /\ o.name = "decompose"
         /\ \E i \in DOMAIN KidsOf[o.subject] :
               Events(mem', o)[j] = Created(KidsOf[o.subject][i])
  BY <1>1, EventsAre
<1>3. Events(mem', o) \in Seq(FitEvent)
  BY <1>1, EventsAre
<1>4. k \in FitKey
  BY <1>3 DEF FitEvent
<1>5. CASE Events(mem', o)[j] = Main(mem', o)
  <2>1. /\ k.op = o.name /\ k.subject = o.subject
        /\ k.at = IF o.name \in RunOp THEN RunKeyNumber(mem', o) ELSE mem'.rev[o.subject]
    BY <1>5 DEF Main, Event
  <2>2. CASE o.name \in CellOp
    <3>1. /\ o.subject \in CellId /\ o.name \notin RunOp
          /\ mem.rev[o.subject] \in Nat /\ mem'.rev[o.subject] \in Nat
      BY <1>1, <2>2, Names DEF FitOp, Memory
    <3>2. /\ o.name \notin {Reviewed} =>
                \/ mem'.rev[o.subject] = mem.rev[o.subject] + 1
                \/ o.name = "decompose" /\ \E i \in DOMAIN KidsOf[o.subject] :
                                              KidsOf[o.subject][i] = o.subject
          /\ mem'.decided[o.subject][o.name] = o.answer
      <4>1. Reviewed = "record_post_review"
        BY DEF Reviewed
      <4>2. mem'.rev[o.subject] = IF o.subject \in Makes(o) THEN 1
                                  ELSE IF o.name # "record_post_review"
                                       THEN mem.rev[o.subject] + 1 ELSE mem.rev[o.subject]
        <5>1. \A k1 \in CellId :
                 mem'.rev[k1] = IF k1 \in Makes(o) THEN 1
                                ELSE IF k1 = o.subject /\ o.name # "record_post_review"
                                     THEN mem.rev[k1] + 1 ELSE mem.rev[k1]
          BY <1>1, <2>2, CellEffectRev
        <5> QED
          BY ONLY <3>1, <5>1
      <4>3. mem'.decided[o.subject][o.name] = o.answer
        BY <1>1, <2>2, <3>1, CellEffectDecided
      <4> QED
        BY <4>1, <4>2, <4>3, MakesKids
    <3>3. o.name = "decompose" => mem.phase[o.subject] = "children"
      BY <2>2, Names DEF Allowed, From
    <3>4. ~(o.name = "decompose" /\ \E i \in DOMAIN KidsOf[o.subject] :
                                              KidsOf[o.subject][i] = o.subject)
      BY <2>2, <3>3 DEF Allowed
    <3>5. o.name = Reviewed => o.answer # NoAnswer
      BY DEF Reviewed, FitOp, Said, Answered, AnswerAssumption
    <3>6. Reached(k, mem')
      BY <2>1, <2>2, <3>1, <3>2, <3>5, Names DEF Reached
    <3>7. o.name # Reviewed => ~Reached(k, mem)
      BY <2>1, <2>2, <3>1, <3>2, <3>4 DEF Reached
    <3> QED
      BY <1>4, <2>1, <2>2, <3>1, <3>6, <3>7, Names
  <2>3. CASE o.name \in RunOp
    <3>1. o.name \notin CellOp /\ o.name # Reviewed /\ o.name # "created"
      BY <2>3, Names DEF Reviewed
    <3>2. CASE o.name = "record_intervention"
      <4>1. o.answer \in Answer /\ mem.notes \in Seq(Answer) /\ Len(mem.notes) \in Nat
        BY <1>1, <3>2, LenProperties DEF FitOp, Said, Answered, Memory
      <4>2. mem'.notes = Append(mem.notes, o.answer)
        BY <1>1, <2>3, <3>2, RunEffectFields
      <4>3. Len(mem'.notes) = Len(mem.notes) + 1
        BY <4>1, <4>2, AppendProperties
      <4>4. k.at = Len(mem'.notes)
        BY <2>1, <2>3, <3>2 DEF RunKeyNumber
      <4> QED
        BY <1>4, <2>1, <3>1, <3>2, <4>1, <4>3, <4>4 DEF Reached
    <3>3. CASE o.name # "record_intervention"
      BY <1>4, <2>1, <2>3, <3>1, <3>3, Names DEF Reached, StatusOp
    <3> QED
      BY <3>2, <3>3
  <2> QED
    BY <2>2, <2>3 DEF FitOp
<1>6. ASSUME o.name = "decompose", NEW i \in DOMAIN KidsOf[o.subject],
             Events(mem', o)[j] = Created(KidsOf[o.subject][i])
      PROVE  /\ Reached(k, mem') /\ ~Reached(k, mem) /\ k.op = "created"
  <2>1. k.op = "created" /\ k.subject = KidsOf[o.subject][i]
    BY <1>6 DEF Created, Event
  <2>2. o.subject \in CellId /\ KidsOf[o.subject][i] \in CellId /\ o.name \in CellOp
    <3>1. o.subject \in CellId /\ o.name \in CellOp
      BY <1>6, Names DEF FitOp
    <3>2. KidsOf[o.subject] \in Seq(CellId)
      BY <3>1 DEF TreeAssumption
    <3> QED
      BY <1>6, <3>1, <3>2
  <2>3. mem.phase[KidsOf[o.subject][i]] = "absent"
    BY <1>6, <2>2 DEF Allowed
  <2>4. mem'.phase[KidsOf[o.subject][i]] = "contract"
    <3>1. KidsOf[o.subject][i] \in Makes(o)
      BY <1>6, MakesKids
    <3>2. \A k1 \in CellId : k1 \in Makes(o) => mem'.phase[k1] = "contract"
      BY <1>1, <2>2, CellEffectPhase
    <3> QED
      BY <2>2, <3>1, <3>2
  <2> QED
    BY <2>1, <2>3, <2>4, Names DEF Reached, Reviewed
<1> QED
  BY <1>2, <1>4, <1>5, <1>6, Names DEF Reviewed, StatusOp

LEMMA LastFollows ==
    ASSUME ledger' = ledger
    PROVE  LastCheckpoint' = LastCheckpoint
  BY DEF LastCheckpoint

LEMMA LastFits ==
    ASSUME BaseInv
    PROVE  LastCheckpoint \in Memory
  BY LastNow DEF BaseInv, HasLast, Typed

\* The kinds of records, and of keys, told apart.
LEMMA RecordFits ==
    ASSUME Typed, NEW i \in DOMAIN ledger
    PROVE  /\ ledger[i] \in Record /\ ledger[i].key \in FitKey
           /\ ledger[i].type = "checkpoint" => ledger[i].body \in Memory
           /\ ledger[i].type = "event" => ledger[i].body \in Said(ledger[i].key.op)
<1>1. ledger[i] \in Record
  BY DEF Typed
<1> QED
  BY <1>1 DEF Record, EventRecord, CheckpointRecord

\* A key that a checkpoint has been made under is one its body has reached,
\* and so one the memory has.
LEMMA UsedIsReached ==
    ASSUME BaseInv, CheckpointInv, NEW i \in DOMAIN ledger, ledger[i].type = "checkpoint"
    PROVE  Reached(ledger[i].key, mem)
<1>1. ledger[i].key \in FitKey /\ ledger[i].body \in Memory
  BY RecordFits DEF BaseInv
<1>2. LastCheckpoint \in Memory /\ mem \in Memory
  BY LastFits DEF BaseInv, Typed
<1>3. /\ Grows(ledger[i].body, LastCheckpoint) /\ Reached(ledger[i].key, ledger[i].body)
      /\ Grows(LastCheckpoint, mem)
  BY DEF CheckpointInv
<1> QED
  BY <1>1, <1>2, <1>3, ReachedOn

LEMMA HeadIsNoQuarantine ==
    ASSUME BaseInv, todo # << >>
    PROVE  /\ Head(todo) \in FitOp /\ Head(todo).name # "quarantine"
           /\ Tail(todo) # << >> => /\ Pairs(Head(todo), Head(Tail(todo)))
                                    /\ Head(todo).name \in CellOp
           /\ Head(todo).name = Reviewed => Tail(todo) # << >>
<1>1. Shaped(todo) /\ todo \in Seq(FitOp)
  BY DEF BaseInv, Typed
<1>2. Head(todo) \in FitOp
  BY <1>1
<1> QED
  BY <1>1, <1>2, TailShaped, Names DEF Alone, Pairs, Reviewed

LEMMA PerformsRecovers ==
    ASSUME TreeAssumption, AnswerAssumption, BaseInv, BaseInv', NumberInv, NumberInv',
           RecoverInv, NEW o \in FitOp, Performs(o)
    PROVE  RecoverInv'
<1> USE DEF RecoverInv
<1>1. /\ Typed /\ mem \in Memory /\ mem' \in Memory /\ o = Head(todo) /\ todo # << >>
      /\ Allowed(mem, o) /\ mem' = Effect(mem, o) /\ emit' = Events(mem', o)
      /\ ledger' = ledger /\ emit = << >> /\ half = FALSE /\ half' = FALSE /\ todo' = Tail(todo)
      /\ crashes' = crashes /\ up /\ up'
  BY DEF BaseInv, Typed, Performs
<1>2. LastCheckpoint' = LastCheckpoint /\ LastCheckpoint \in Memory
  BY <1>1, LastFollows, LastFits
<1>3. o.name # "park" => /\ LastCheckpoint.status = mem.status
                         /\ LastCheckpoint.length = mem.length
                         /\ SameButNotes(LastCheckpoint, mem)
  BY <1>1, <1>2, AtRestFields DEF TodoInv, AtRest
<1>4. o.name # "quarantine" /\ (todo' # << >> => /\ Pairs(o, Head(todo')) /\ o.name \in CellOp)
      /\ (o.name = Reviewed => todo' # << >>)
  BY <1>1, HeadIsNoQuarantine
<1>5. Grows(mem, mem') /\ NewCells(mem')
  BY <1>1, EffectGrows DEF CheckpointInv
<1>6. CheckpointInv'
  <2>1. Grows(LastCheckpoint, mem')
    BY <1>1, <1>2, <1>5, GrowsOn DEF CheckpointInv
  <2> QED
    BY <1>1, <1>2, <1>5, <2>1 DEF CheckpointInv
<1>7. \A j \in DOMAIN emit' :
         LET k == emit'[j].key IN
         /\ k \in FitKey /\ Reached(k, mem')
         /\ o.name \notin StatusOp \cup {Reviewed} => ~Reached(k, mem)
         /\ o.name = Reviewed => k.op = Reviewed /\ k.subject = o.subject
         /\ k.op \in {o.name, "created"} /\ k.op \notin {"quarantine"}
         /\ o.name \in RunOp => k.op = o.name
  BY <1>1, <1>4, EventsReached DEF CheckpointInv
<1>8. o.name \in CellOp => mem.status = "active" /\ mem'.status = "active"
                           /\ mem'.length = mem.length + 1
  BY <1>1, CellEffectShape DEF Allowed
<1>9. o.name = Reviewed => /\ mem.phase[o.subject] = "post_review"
                           /\ mem'.phase[o.subject] = "post_review" /\ o.subject \in CellId
  <2>1. SUFFICES ASSUME o.name = Reviewed
                 PROVE  /\ mem.phase[o.subject] = "post_review"
                        /\ mem'.phase[o.subject] = "post_review" /\ o.subject \in CellId
    OBVIOUS
  <2>2. o.name \in CellOp /\ From[o.name] = "post_review" /\ To(o.name, o.subject) = "post_review"
        /\ o.name # "decompose"
    BY <2>1, Names DEF Reviewed, From, To
  <2>3. mem.phase[o.subject] = "post_review"
    BY <1>1, <2>2 DEF Allowed
  <2>4. o.subject \in CellId /\ mem'.phase[o.subject] = To(o.name, o.subject)
    <3>1. o.subject \notin Makes(o)
      BY <2>2, MakesKids
    <3> QED
      <4>1. o.subject \in CellId
        BY <1>1, <2>2, CellEffectShape
      <4>2. \A k1 \in CellId :
               mem'.phase[k1] = IF k1 \in Makes(o) THEN "contract"
                                ELSE IF k1 = o.subject THEN To(o.name, o.subject)
                                ELSE mem.phase[k1]
        BY <1>1, <2>2, CellEffectPhase
      <4> QED
        BY ONLY <3>1, <4>1, <4>2
  <2> QED
    BY <2>2, <2>3, <2>4
\* While nothing has crashed, a post-review is never repeated.
<1>10. ASSUME crashes = 0, o.name = Reviewed, NEW j \in DOMAIN emit', Reached(emit'[j].key, mem)
       PROVE  FALSE
  <2>1. mem.decided[o.subject][Reviewed] # NoAnswer
    BY <1>7, <1>10 DEF Reached
  <2>2. Head(todo).name = "close"
    BY <1>9, <1>10, <2>1 DEF FreshInv
  <2> QED
    BY <1>1, <1>10, <2>2 DEF Reviewed
<1>11. ASSUME NEW j \in DOMAIN emit', NEW i \in DOMAIN ledger,
              ledger[i].type = "checkpoint", ledger[i].key = emit'[j].key
       PROVE  crashes > 0 /\ emit'[j].key.op = Reviewed
  <2>1. Reached(emit'[j].key, mem)
    BY <1>11, UsedIsReached
  <2>2. o.name \notin StatusOp
    <3>1. SUFFICES ASSUME o.name \in StatusOp PROVE FALSE
      OBVIOUS
    <3>2. emit'[j].key.op \in StatusOp
      BY <1>7, <3>1, StatusOps
    <3>3. emit'[j].key.at = Len(ledger)
      BY <1>1, <3>2 DEF NumberInv
    <3>4. emit'[j].key.at < i - 1
      BY <1>11, <3>2 DEF NumberInv
    <3>5. i \in 1..Len(ledger) /\ Len(ledger) \in Nat
      BY <1>1, LenProperties DEF Typed
    <3> QED
      BY ONLY <3>3, <3>4, <3>5
  <2>3. o.name = Reviewed
    BY <1>7, <2>1, <2>2
  <2>4. crashes > 0
    <3>1. crashes \in Nat
      BY <1>1 DEF Typed
    <3> QED
      BY <1>10, <2>1, <2>3, <3>1
  <2> QED
    BY <1>7, <2>3, <2>4
<1>12. EmitInv'
  <2>1. ASSUME NEW j \in DOMAIN emit', emit'[j].key.op \in CellOp \cup {"created"}
        PROVE  mem'.status = "active" /\ LastCheckpoint.status = "active"
    <3>1. o.name \in CellOp
      BY <1>7, <2>1, Names DEF FitOp
    <3> QED
      BY <1>3, <1>8, <3>1, Names
  <2>2. ASSUME NEW j \in DOMAIN emit', emit'[j].key.op = Reviewed
        PROVE  /\ mem'.length > LastCheckpoint.length
               /\ mem'.phase[emit'[j].key.subject] = "post_review"
    <3>1. o.name = Reviewed /\ o.name \in CellOp /\ o.name # "park"
      BY <1>7, <2>2, Names DEF Reviewed
    <3>2. mem.length \in Nat
      BY <1>1 DEF Memory
    <3> QED
      BY <1>3, <1>7, <1>8, <1>9, <3>1, <3>2
  <2>3. ASSUME NEW j \in DOMAIN emit', emit'[j].key.op = "record_intervention"
        PROVE  SameButNotes(LastCheckpoint, mem')
    <3>1. o.name = "record_intervention"
      BY <1>7, <2>3
    <3>2. mem' = [mem EXCEPT !.notes = Append(@, o.answer)]
      BY <1>1, <3>1, Names DEF Effect
    <3>3. mem' = [mem EXCEPT !.notes = mem'.notes]
      BY <1>1, <3>2 DEF Memory
    <3> QED
      BY <1>1, <1>2, <1>3, <3>1, <3>3 DEF SameButNotes, Memory
  <2> QED
    BY <1>1, <1>2, <1>7, <1>11, <2>1, <2>2, <2>3 DEF EmitInv
<1>13. TodoInv'
  <2>1. todo' # << >> => mem'.status = "active"
    BY <1>4, <1>8
  <2>2. emit' # << >>
    BY <1>1, EventsAre
  <2> QED
    BY <2>1, <2>2 DEF TodoInv
<1>14. FreshInv'
  <2>1. SUFFICES ASSUME crashes = 0 PROVE FreshInv'
    BY <1>1 DEF FreshInv
  <2>5. disowned' = {}
    BY <2>1 DEF FreshInv, Performs
  <2>2. \A i \in DOMAIN ledger : ledger[i].type = "event" =>
            Reached(ledger[i].key, mem) /\ Reached(ledger[i].key, mem')
    BY <1>1, <1>5, <2>1, RecordFits, ReachedOn DEF FreshInv
  <2>3. ASSUME NEW i \in DOMAIN ledger, NEW j \in DOMAIN emit', ledger[i].type = "event",
               ledger[i].key = emit'[j].key, emit'[j].key.op \in Answered
        PROVE  FALSE
    <3>1. Reached(emit'[j].key, mem)
      BY <2>2, <2>3
    <3>2. emit'[j].key.op = o.name /\ o.name \notin StatusOp
      BY <1>7, <2>3, Names DEF StatusOp, Answered
    <3> QED
      BY <1>7, <1>10, <2>1, <3>1, <3>2
  <2>4. ASSUME NEW c \in CellId, mem'.decided[c][Reviewed] # NoAnswer
        PROVE  /\ mem'.phase[c] \in {"post_review", "closed"}
               /\ mem'.phase[c] = "post_review" =>
                     todo' # << >> /\ Head(todo').name = "close" /\ Head(todo').subject = c
    <3>1. CASE o.name = Reviewed /\ o.subject = c
      BY <1>4, <1>9, <3>1 DEF Pairs, Reviewed
    <3>2. CASE ~(o.name = Reviewed /\ o.subject = c)
      <4>1. mem.decided[c][Reviewed] # NoAnswer
        <5>1. CASE o.name \in RunOp
          BY <1>1, <2>4, <5>1, RunEffectFields DEF Alike
        <5>2. CASE o.name \in CellOp
          <6>1. Reviewed \in CellOp
            BY Names DEF Reviewed
          <6>2. mem'.decided[c][Reviewed] =
                  IF c = o.subject /\ Reviewed = o.name THEN o.answer ELSE mem.decided[c][Reviewed]
            <7>1. \A k \in CellId : \A n \in CellOp :
                     mem'.decided[k][n] =
                       IF k = o.subject /\ n = o.name THEN o.answer ELSE mem.decided[k][n]
              <8>1. mem \in Memory /\ mem' = Effect(mem, o)
                BY <1>1
              <8>2. o \in FitOp
                OBVIOUS
              <8> QED
                BY ONLY <8>1, <8>2, <5>2, TreeAssumption, CellEffectDecided
            <7> QED
              BY <2>4, <6>1, <7>1
          <6> QED
            BY <2>4, <3>2, <6>2
        <5> QED
          BY <5>1, <5>2 DEF FitOp
      <4>2. /\ mem.phase[c] \in {"post_review", "closed"}
            /\ mem.phase[c] = "post_review" => o.name = "close" /\ o.subject = c
        BY <1>1, <2>1, <4>1 DEF FreshInv
      <4>3. CASE o.name \in RunOp
        <5>1. mem'.phase = mem.phase
          BY <1>1, <4>3, RunEffectFields DEF Alike
        <5> QED
          BY <4>2, <4>3, <5>1, Names
      <4>4. CASE o.name \in CellOp
        <5>1. mem.phase[o.subject] = From[o.name] /\ o.subject \in CellId
          BY <1>1, <4>4, CellEffectShape DEF Allowed
        <5>2. o.subject = c => o.name = "close"
          <6>1. SUFFICES ASSUME o.subject = c PROVE o.name = "close"
            OBVIOUS
          <6>2. From[o.name] \in {"post_review", "closed"}
            BY <4>2, <5>1, <6>1
          <6> QED
            BY <3>2, <4>4, <6>1, <6>2, Names DEF From, Reviewed
        <5>3. o.subject = c => To(o.name, c) = "closed"
          BY <5>2 DEF To
        <5>4. c \notin Makes(o)
          BY <1>1, <4>2, <4>4, MakesKids DEF Allowed
        <5>6. mem'.phase[c] = IF c \in Makes(o) THEN "contract"
                              ELSE IF c = o.subject THEN To(o.name, o.subject) ELSE mem.phase[c]
          BY <1>1, <4>4, CellEffectPhase
        <5>5. mem'.phase[c] = IF c = o.subject THEN To(o.name, c) ELSE mem.phase[c]
          BY <5>4, <5>6
        <5> QED
          BY <4>2, <5>3, <5>5
      <4> QED
        BY <4>3, <4>4 DEF FitOp
    <3> QED
      BY <3>1, <3>2
  <2> QED
    BY <1>1, <2>2, <2>3, <2>4, <2>5 DEF FreshInv
<1> QED
  BY <1>6, <1>12, <1>13, <1>14

LEMMA FailsRecovers ==
    ASSUME TreeAssumption, AnswerAssumption, BaseInv, RecoverInv, NEW o \in FitOp, Fails(o)
    PROVE  RecoverInv'
<1> USE DEF RecoverInv
<1>1. /\ o = Head(todo) /\ todo # << >> /\ ~Allowed(mem, o) /\ mem' = mem /\ ledger' = ledger
      /\ emit = << >> /\ emit' = << >> /\ half' = FALSE /\ up /\ up' /\ crashes' = crashes
      /\ todo' = (IF o.name \in CellOp THEN << Park >> ELSE << >>) /\ disowned' = disowned
  BY DEF Fails, Abandoned
<1>2. LastCheckpoint' = LastCheckpoint
  BY <1>1, LastFollows
<1>3. CheckpointInv' /\ EmitInv'
  BY <1>1, <1>2 DEF CheckpointInv, EmitInv
<1>4. o.name # "park"
  BY <1>1, Names DEF TodoInv, Allowed
<1>5. AtRest'
  BY <1>1, <1>2, <1>4 DEF TodoInv, AtRest
<1>6. TodoInv'
  <2>1. << Park >> # << >> /\ Head(<< Park >>).name = "park"
    BY ParkFits
  <2> QED
    BY <1>1, <1>2, <1>5, <2>1 DEF TodoInv
<1>7. FreshInv'
  <2>1. ASSUME crashes = 0, NEW c \in CellId, mem.decided[c][Reviewed] # NoAnswer,
               mem.phase[c] = "post_review"
        PROVE  FALSE
    <3>1. o.name = "close" /\ o.subject = c
      BY <1>1, <2>1 DEF FreshInv
    <3>2. mem.status = "active" /\ o.name \in CellOp
      BY <1>1, <3>1, Names DEF TodoInv
    <3> QED
      BY <1>1, <2>1, <3>1, <3>2 DEF Allowed, From, Reviewed
  <2> QED
    BY <1>1, <2>1 DEF FreshInv
<1> QED
  BY <1>3, <1>6, <1>7

LEMMA CallsRecovers ==
    ASSUME TreeAssumption, BaseInv, RecoverInv, NEW o \in FitOp, Calls(o)
    PROVE  RecoverInv'
<1> USE DEF RecoverInv
<1>1. /\ o = Head(todo') /\ todo = << >> /\ Allowed(mem, o) /\ mem' = mem /\ ledger' = ledger
      /\ emit = << >> /\ emit' = << >> /\ up /\ up' /\ half' = half /\ crashes' = crashes
      /\ disowned' = disowned
  BY DEF Calls, Idle
<1>2. LastCheckpoint' = LastCheckpoint /\ half = FALSE
  BY <1>1, LastFollows DEF BaseInv, Typed
<1>3. CheckpointInv' /\ EmitInv'
  BY <1>1, <1>2 DEF CheckpointInv, EmitInv
<1>4. TodoInv'
  <2>1. o.name \in CellOp \cup {"park"} => mem.status = "active"
    BY <1>1 DEF Allowed
  <2>2. AtRest'
    BY <1>1, <1>2 DEF TodoInv, AtRest
  <2> QED
    BY <1>1, <1>2, <2>1, <2>2 DEF TodoInv
<1>5. FreshInv'
  BY <1>1, <1>2 DEF FreshInv
<1> QED
  BY <1>3, <1>4, <1>5

(* An event that the ledger has with another answer carries an answer, and *)
(* is of a step done again after a crash.                                  *)
LEMMA EventsAgree ==
    ASSUME BaseInv, FreshInv, EventStep, DeniedNow
    PROVE  emit[1].key.op \in Answered /\ crashes > 0
<1>1. Typed /\ emit # << >> /\ ~half
  BY DEF BaseInv, EventStep
<1>2. PICK i \in DOMAIN ledger : ledger[i].type = "event" /\ ledger[i].key = emit[1].key
                                 /\ ledger[i].body # emit[1].body
  BY DEF DeniedNow, Denied, Under
<1>3. 1 \in DOMAIN emit /\ emit[1].body \in Said(emit[1].key.op)
      /\ ledger[i].body \in Said(emit[1].key.op)
  BY <1>1, <1>2, RecordsFit, RecordFits DEF FitEvent
<1>4. emit[1].key.op \in Answered
  BY <1>2, <1>3 DEF Said
<1>5. crashes # 0
  BY <1>1, <1>2, <1>3, <1>4 DEF FreshInv
<1> QED
  BY <1>1, <1>4, <1>5 DEF Typed

LEMMA CollidesIsDenied ==
    ASSUME Collides(EventToAppend)
    PROVE  DeniedNow
  BY DEF Collides, EventToAppend, DeniedNow, Denied, Under

LEMMA EventRecovers ==
    ASSUME TreeAssumption, BaseInv, RecoverInv, EventStep
    PROVE  RecoverInv'
<1> USE DEF RecoverInv
<1>1. /\ Typed /\ emit # << >> /\ ~half /\ up /\ up' /\ mem' = mem /\ crashes' = crashes
  BY DEF BaseInv, EventStep, Keeps
<1>6. crashes = 0 => disowned' = {}
  <2>1. ASSUME crashes = 0
        PROVE  ~DeniedNow /\ disowned = {}
    BY <2>1, EventsAgree DEF FreshInv
  <2> QED
    BY <2>1 DEF EventStep, Disowns
<1>2. EventToAppend \in EventRecord /\ EventToAppend \in Record /\ 1 \in DOMAIN emit
      /\ EventToAppend.type = "event" /\ EventToAppend.key = emit[1].key
      /\ EventToAppend.body = emit[1].body
  BY <1>1, RecordsFit DEF EventToAppend, Record
<1>3. CASE Appends(EventToAppend) /\ half' = TRUE /\ UNCHANGED <<todo, emit, refused>>
  <2>1. ledger' = Append(ledger, EventToAppend)
    BY <1>3 DEF Appends
  <2>2. LastCheckpoint' = LastCheckpoint
    BY <1>1, <1>2, <2>1, LastStays DEF BaseInv, Typed
  <2>3. /\ Len(ledger) \in Nat
        /\ DOMAIN ledger = 1..Len(ledger) /\ DOMAIN ledger' = 1..(Len(ledger) + 1)
        /\ \A i \in DOMAIN ledger : ledger'[i] = ledger[i]
        /\ ledger'[Len(ledger) + 1] = EventToAppend
        /\ \A i \in DOMAIN ledger' : i \in DOMAIN ledger \/ i = Len(ledger) + 1
    BY <1>1, <1>2, <2>1, Grown1 DEF Typed
  <2>4. Len(ledger) + 1 \in DOMAIN ledger' /\ \A i \in DOMAIN ledger : i \in DOMAIN ledger'
    BY <2>3
  <2>5. \A i \in DOMAIN ledger' : ledger'[i].type = "checkpoint" =>
            i \in DOMAIN ledger /\ ledger[i].type = "checkpoint" /\ ledger'[i] = ledger[i]
    BY <1>2, <2>3
  <2>6. CheckpointInv'
    <3>1. \A i \in DOMAIN ledger' : ledger'[i].key.op = "quarantine" => ledger'[i].key.at <= crashes
      <4>1. emit[1].key.op = "quarantine" => emit[1].key.at = crashes /\ crashes \in Nat
        BY <1>1, <1>2 DEF EmitInv, Typed
      <4> QED
        BY <1>2, <2>3, <4>1 DEF CheckpointInv
    <3> QED
      BY <1>1, <2>2, <2>5, <3>1 DEF CheckpointInv
  <2>7. EmitInv'
    BY <1>1, <1>2, <1>3, <2>2, <2>3, <2>4, <2>5 DEF EmitInv
  <2>8. TodoInv'
    BY <1>1, <1>3 DEF TodoInv
  <2>9. FreshInv'
    BY <1>1, <1>2, <1>3, <1>6, <2>3 DEF FreshInv, EmitInv
  <2> QED
    BY <2>6, <2>7, <2>8, <2>9
<1>4. CASE Repeats(EventToAppend) /\ half' = TRUE /\ UNCHANGED <<todo, emit, refused>>
  <2>1. ledger' = ledger /\ LastCheckpoint' = LastCheckpoint
    BY <1>4, LastFollows DEF Repeats
  <2>2. CheckpointInv'
    BY <1>1, <2>1 DEF CheckpointInv
  <2>3. EmitInv'
    BY <1>1, <1>2, <1>4, <2>1 DEF EmitInv, Repeats
  <2>4. TodoInv'
    BY <1>1, <1>4 DEF TodoInv
  <2>5. FreshInv'
    BY <1>1, <1>4, <1>6, <2>1 DEF FreshInv
  <2> QED
    BY <2>2, <2>3, <2>4, <2>5
<1>5. CASE Collides(EventToAppend)
  <2>1. emit[1].key.op \in Answered /\ crashes > 0 /\ emit[1].key \in FitKey
        /\ <<emit[1].key.op, emit[1].key.subject>> \in disowned'
    BY <1>1, <1>5, EventsAgree, CollidesIsDenied, RecordsFit DEF EventStep, Disowns, FitEvent
  <2>2. /\ ledger' = ledger /\ LastCheckpoint' = LastCheckpoint
        /\ emit' = << >> /\ half' = FALSE
        /\ todo' = IF emit[1].key.op \in CellOp THEN << Park >> ELSE << >>
    <3>1. emit[1].key.op # "created"
      BY <2>1, Names
    <3> QED
      BY <1>2, <1>5, <3>1, LastFollows DEF Collides, Abandoned
  <2>3. CheckpointInv' /\ EmitInv'
    BY <1>1, <2>2 DEF CheckpointInv, EmitInv
  <2>4. FreshInv'
    BY <1>1, <2>1 DEF FreshInv, Typed
  <2>5. CASE emit[1].key.op \in CellOp
    <3>1. mem.status = "active"
      BY <1>2, <2>5 DEF EmitInv
    <3>2. << Park >> # << >> /\ Head(<< Park >>).name = "park"
      BY ParkFits
    <3>3. TodoInv'
      BY <1>1, <2>2, <2>5, <3>1, <3>2 DEF TodoInv
    <3> QED
      BY <2>3, <2>4, <3>3
  <2>6. CASE emit[1].key.op \notin CellOp
    <3>1. emit[1].key.op = "record_intervention" /\ emit[1].key.subject = Run
      BY <2>1, <2>6, Names DEF Answered, FitKey
    <3>2. AtRest'
      BY <1>1, <1>2, <2>1, <2>2, <3>1 DEF EmitInv, AtRest
    <3>3. TodoInv'
      BY <2>2, <2>6, <3>2 DEF TodoInv
    <3> QED
      BY <2>3, <2>4, <3>3
  <2> QED
    BY <2>5, <2>6
<1> QED
  BY <1>3, <1>4, <1>5 DEF EventStep

(* A checkpoint that is there already is the last one; one that is refused *)
(* is a second post-review's.                                              *)
LEMMA CheckpointsAgree ==
    ASSUME TreeAssumption, BaseInv, RecoverInv, CheckpointStep
    PROVE  /\ Repeats(CheckpointToAppend) => LastCheckpoint = mem
           /\ Collides(CheckpointToAppend) =>
                 /\ crashes > 0 /\ emit[1].key.op = Reviewed
                 /\ mem.status = "active" /\ LastCheckpoint.status = "active"
                 /\ \E c \in CellId : mem.phase[c] = "post_review"
                                      /\ mem.decided[c][Reviewed] # NoAnswer
<1> USE DEF RecoverInv
<1>1. Typed /\ emit # << >> /\ 1 \in DOMAIN emit /\ emit[1].key \in FitKey
  BY RecordsFit DEF BaseInv, CheckpointStep, FitEvent
<1>2. ASSUME NEW i \in DOMAIN ledger, ledger[i].type = "checkpoint", ledger[i].key = emit[1].key
      PROVE  \/ crashes > 0 /\ emit[1].key.op = Reviewed
             \/ ledger[i].body = mem /\ LastCheckpoint = mem
  BY <1>1, <1>2 DEF EmitInv
<1>3. ASSUME Repeats(CheckpointToAppend)
      PROVE  LastCheckpoint = mem
  <2>1. PICK i \in DOMAIN ledger : ledger[i].type = "checkpoint" /\ ledger[i].key = emit[1].key
                                   /\ ledger[i].body = mem
    BY <1>3 DEF Repeats, CheckpointToAppend
  <2>2. emit[1].key.op # Reviewed
    <3>1. mem.length <= LastCheckpoint.length
      BY <2>1 DEF CheckpointInv, Grows
    <3>2. mem.length \in Nat /\ LastCheckpoint.length \in Nat
      BY <1>1, LastFits DEF Typed, Memory
    <3>3. emit[1].key.op = Reviewed => mem.length > LastCheckpoint.length
      BY <1>1 DEF EmitInv
    <3> QED
      BY ONLY <3>1, <3>2, <3>3
  <2> QED
    BY <1>2, <2>1, <2>2
<1>4. ASSUME Collides(CheckpointToAppend)
      PROVE  /\ crashes > 0 /\ emit[1].key.op = Reviewed
             /\ mem.status = "active" /\ LastCheckpoint.status = "active"
             /\ \E c \in CellId : mem.phase[c] = "post_review"
                                      /\ mem.decided[c][Reviewed] # NoAnswer
  <2>1. PICK i \in DOMAIN ledger : ledger[i].type = "checkpoint" /\ ledger[i].key = emit[1].key
                                   /\ ledger[i].body # mem
    BY <1>4 DEF Collides, CheckpointToAppend
  <2>2. crashes > 0 /\ emit[1].key.op = Reviewed
    BY <1>2, <2>1
  <2>3. Reviewed \in CellOp /\ emit[1].key.subject \in CellId
    BY <1>1, <2>2, Names DEF Reviewed, FitKey
  <2> QED
    BY <1>1, <2>2, <2>3 DEF EmitInv, Reached
<1> QED
  BY <1>3, <1>4

LEMMA CheckpointRecovers ==
    ASSUME TreeAssumption, BaseInv, RecoverInv, CheckpointStep
    PROVE  RecoverInv'
<1> USE DEF RecoverInv
<1>1. /\ Typed /\ Few(emit) /\ emit # << >> /\ half /\ up /\ up' /\ mem' = mem /\ crashes' = crashes
      /\ disowned' = disowned /\ mem \in Memory /\ LastCheckpoint \in Memory
  BY LastFits DEF BaseInv, Typed, CheckpointStep, Keeps
<1>2. CheckpointToAppend \in CheckpointRecord /\ CheckpointToAppend \in Record /\ 1 \in DOMAIN emit
      /\ CheckpointToAppend.type = "checkpoint" /\ CheckpointToAppend.key = emit[1].key
      /\ CheckpointToAppend.body = mem
  BY <1>1, RecordsFit DEF CheckpointToAppend, Record
<1>3. \A j \in DOMAIN Tail(emit) :
        /\ j + 1 \in DOMAIN emit /\ Tail(emit)[j] = emit[j + 1]
        /\ Tail(emit)[j].key.op \in {"created", "decompose"}
  BY <1>1, TailFew DEF Typed
<1>4. {"created", "decompose"} \subseteq CellOp \cup {"created"}
      /\ \A n \in {"created", "decompose"} :
            n \notin Answered \cup {"quarantine", "record_intervention", Reviewed}
  BY Names DEF Reviewed, Answered
<1>5. CASE Appends(CheckpointToAppend) /\ half' = FALSE /\ emit' = Tail(emit) /\ UNCHANGED <<todo, refused>>
  <2>1. ledger' = Append(ledger, CheckpointToAppend)
    BY <1>5 DEF Appends
  <2>2. LastCheckpoint' = mem
    BY <1>1, <1>2, <2>1, LastReplaced DEF Typed
  <2>3. /\ Len(ledger) \in Nat
        /\ DOMAIN ledger = 1..Len(ledger) /\ DOMAIN ledger' = 1..(Len(ledger) + 1)
        /\ \A i \in DOMAIN ledger : ledger'[i] = ledger[i]
        /\ ledger'[Len(ledger) + 1] = CheckpointToAppend
        /\ \A i \in DOMAIN ledger' : i \in DOMAIN ledger \/ i = Len(ledger) + 1
    BY <1>1, <1>2, <2>1, Grown1 DEF Typed
  <2>4. CheckpointInv'
    <3>1. Grows(mem, mem)
      BY <1>1, GrowsItself
    <3>2. \A i \in DOMAIN ledger : ledger[i].type = "checkpoint" => Grows(ledger[i].body, mem)
      BY <1>1, RecordFits, GrowsOn DEF CheckpointInv
    <3>3. Reached(emit[1].key, mem)
      BY <1>2 DEF EmitInv
    <3>4. \A i \in DOMAIN ledger' : ledger'[i].key.op = "quarantine" => ledger'[i].key.at <= crashes
      <4>1. emit[1].key.op = "quarantine" => emit[1].key.at = crashes /\ crashes \in Nat
        BY <1>1, <1>2 DEF EmitInv, Typed
      <4> QED
        BY <1>2, <2>3, <4>1 DEF CheckpointInv
    <3>5. \A i \in DOMAIN ledger' : ledger'[i].type = "checkpoint" =>
              Grows(ledger'[i].body, mem) /\ Reached(ledger'[i].key, ledger'[i].body)
      BY <1>2, <2>3, <3>1, <3>2, <3>3 DEF CheckpointInv
    <3> QED
      BY <1>1, <2>2, <3>1, <3>4, <3>5 DEF CheckpointInv
  <2>5. EmitInv'
    <3>1. \A j \in DOMAIN emit' :
             /\ Reached(emit'[j].key, mem)
             /\ emit'[j].key.op \in {"created", "decompose"}
             /\ mem.status = "active"
             /\ \A i \in DOMAIN ledger :
                   ledger[i].type = "checkpoint" /\ ledger[i].key = emit'[j].key =>
                      ledger[i].body = mem
      BY <1>3, <1>4, <1>5 DEF EmitInv
    <3>2. \A j \in DOMAIN emit' : \A i \in DOMAIN ledger' :
                   ledger'[i].type = "checkpoint" /\ ledger'[i].key = emit'[j].key =>
                      ledger'[i].body = mem
      BY <1>2, <2>3, <3>1
    <3> QED
      BY <1>1, <1>4, <1>5, <2>2, <3>1, <3>2 DEF EmitInv
  <2>6. TodoInv'
    BY <1>1, <1>5, <2>2 DEF TodoInv, AtRest
  <2>7. FreshInv'
    <3>1. \A i \in DOMAIN ledger' : ledger'[i].type = "event" =>
              i \in DOMAIN ledger /\ ledger'[i] = ledger[i]
      BY <1>2, <2>3
    <3>2. \A j \in DOMAIN emit' : emit'[j].key.op \notin Answered
      BY <1>3, <1>4, <1>5
    <3> QED
      BY <1>1, <1>5, <3>1, <3>2 DEF FreshInv
  <2> QED
    BY <2>4, <2>5, <2>6, <2>7
<1>6. CASE Repeats(CheckpointToAppend) /\ half' = FALSE /\ emit' = Tail(emit) /\ UNCHANGED <<todo, refused>>
  <2>1. ledger' = ledger /\ LastCheckpoint' = LastCheckpoint /\ LastCheckpoint = mem
    BY <1>6, LastFollows, CheckpointsAgree DEF Repeats
  <2>2. CheckpointInv'
    BY <1>1, <2>1 DEF CheckpointInv
  <2>3. EmitInv'
    <3>1. \A j \in DOMAIN emit' :
             /\ Reached(emit'[j].key, mem)
             /\ emit'[j].key.op \in {"created", "decompose"}
             /\ mem.status = "active"
             /\ \A i \in DOMAIN ledger :
                   ledger[i].type = "checkpoint" /\ ledger[i].key = emit'[j].key =>
                      ledger[i].body = mem
      BY <1>3, <1>4, <1>6 DEF EmitInv
    <3> QED
      BY <1>1, <1>4, <1>6, <2>1, <3>1 DEF EmitInv
  <2>4. TodoInv'
    BY <1>1, <1>6, <2>1 DEF TodoInv, AtRest
  <2>5. FreshInv'
    BY <1>1, <1>3, <1>4, <1>6, <2>1 DEF FreshInv
  <2> QED
    BY <2>2, <2>3, <2>4, <2>5
<1>7. CASE Collides(CheckpointToAppend)
  <2>1. crashes > 0 /\ emit[1].key.op = Reviewed /\ mem.status = "active"
    BY <1>7, CheckpointsAgree
  <2>2. todo' = << Park >> /\ emit' = << >> /\ half' = FALSE
    BY <1>2, <1>7, <2>1, Names DEF Collides, Abandoned, Reviewed
  <2>3. ledger' = ledger /\ LastCheckpoint' = LastCheckpoint
    BY <1>7, LastFollows DEF Collides
  <2>4. << Park >> # << >> /\ Head(<< Park >>).name = "park"
    BY ParkFits
  <2>5. CheckpointInv' /\ EmitInv'
    BY <1>1, <2>2, <2>3 DEF CheckpointInv, EmitInv
  <2>6. TodoInv'
    BY <1>1, <2>1, <2>2, <2>4 DEF TodoInv
  <2>7. FreshInv'
    BY <1>1, <2>1 DEF FreshInv, Typed
  <2> QED
    BY <2>5, <2>6, <2>7
<1> QED
  BY <1>5, <1>6, <1>7 DEF CheckpointStep

LEMMA CrashRecovers ==
    ASSUME BaseInv, RecoverInv, Crash
    PROVE  RecoverInv'
<1>1. /\ mem' = mem /\ ledger' = ledger /\ todo' = << >> /\ emit' = << >> /\ half' = FALSE
      /\ ~up' /\ crashes' = crashes + 1 /\ crashes \in Nat /\ Typed
  BY DEF BaseInv, Typed, Crash
<1>2. LastCheckpoint' = LastCheckpoint
  BY <1>1, LastFollows
<1>3. \A i \in DOMAIN ledger : ledger[i].key.at \in Nat
  BY <1>1, RecordFits DEF FitKey, Key
<1>4. CheckpointInv'
  BY <1>1, <1>2, <1>3 DEF RecoverInv, CheckpointInv
<1>5. EmitInv' /\ TodoInv' /\ FreshInv'
  BY <1>1 DEF EmitInv, TodoInv, FreshInv
<1> QED
  BY <1>4, <1>5 DEF RecoverInv

LEMMA OpensRecovers ==
    ASSUME TreeAssumption, BaseInv, RecoverInv, Opens
    PROVE  RecoverInv'
<1>1. /\ mem' = LastCheckpoint /\ ledger' = ledger /\ todo' = << >> /\ emit = << >>
      /\ half' = FALSE /\ ~up /\ up' /\ crashes' = crashes /\ crashes > 0 /\ crashes \in Nat /\ Typed
  BY DEF BaseInv, Typed, Opens
<1>2. LastCheckpoint' = LastCheckpoint /\ LastCheckpoint \in Memory
  BY <1>1, LastFollows, LastFits
<1>3. \A j \in DOMAIN emit' : emit'[j].key.op = "quarantine" /\ emit'[j].key.at = crashes
  <2>1. CASE torn
    <3> DEFINE o == Op("quarantine", Run, NoAnswer)
    <3>1. o \in FitOp /\ o.name = "quarantine" /\ emit' = Events(mem', o) /\ mem' \in Memory
      BY <1>1, <1>2, <2>1, QuarantineFits DEF Opens
    <3>2. \A j \in DOMAIN emit' : emit'[j] = Main(mem', o)
      BY <1>1, <3>1, EventsAre
    <3>3. o.name \in RunOp
      BY <3>1, Names
    <3>4. Main(mem', o).key.op = "quarantine" /\ Main(mem', o).key.at = crashes
      BY <3>1, <3>3 DEF Main, Event, RunKeyNumber
    <3> QED
      BY <3>2, <3>4
  <2>2. CASE ~torn
    BY <2>2 DEF Opens
  <2> QED
    BY <2>1, <2>2
<1>4. CheckpointInv'
  <2>1. Grows(LastCheckpoint, LastCheckpoint)
    BY <1>2, GrowsItself
  <2> QED
    BY <1>1, <1>2, <2>1 DEF RecoverInv, CheckpointInv
<1>5. EmitInv'
  <2>1. \A j \in DOMAIN emit' : \A i \in DOMAIN ledger : ledger[i].key # emit'[j].key
    <3>1. \A i \in DOMAIN ledger : ledger[i].key.op = "quarantine" => ledger[i].key.at < crashes
      BY <1>1 DEF RecoverInv, CheckpointInv
    <3> QED
      BY <1>1, <1>3, <3>1
  <2>2. \A j \in DOMAIN emit' : Reached(emit'[j].key, mem')
    BY <1>3, Names DEF Reached, Reviewed
  <2>3. "quarantine" \notin CellOp \cup {"created", Reviewed}
    BY Names DEF Reviewed
  <2> QED
    BY <1>1, <1>3, <2>1, <2>2, <2>3 DEF EmitInv
<1>6. TodoInv' /\ FreshInv'
  BY <1>1, <1>2 DEF TodoInv, AtRest, FreshInv
<1> QED
  BY <1>4, <1>5, <1>6 DEF RecoverInv

LEMMA RecoverInit ==
    ASSUME TreeAssumption, LimitAssumption, Init
    PROVE  RecoverInv
<1>1. BaseInv
  BY BaseInit
<1>2. /\ todo = << >> /\ emit = << >> /\ half = FALSE /\ up = TRUE /\ crashes = 0 /\ disowned = {}
      /\ Len(ledger) = 2 /\ ledger[2].type = "checkpoint" /\ ledger[2].body = mem
      /\ ledger[1].type = "event"
      /\ ledger[1].key = ledger[2].key /\ ledger[1].key.op = "created"
      /\ ledger[1].key.subject = Root
      /\ mem.phase = [c \in CellId |-> IF c = Root THEN "contract" ELSE "absent"]
      /\ mem.rev = [c \in CellId |-> IF c = Root THEN 1 ELSE 0]
      /\ mem.decided = [c \in CellId |-> [n \in CellOp |-> NoAnswer]]
  BY DEF Init
<1>3. ledger \in Seq(Record) /\ DOMAIN ledger = 1..2 /\ mem \in Memory
  BY <1>1, <1>2, LenProperties DEF BaseInv, Typed
<1>4. IsLast(ledger, 2)
  BY <1>2, <1>3 DEF IsLast
<1>5. LastCheckpoint = mem
  BY <1>2, <1>3, <1>4, LastNow
<1>6. Reviewed \in CellOp
  BY Names DEF Reviewed
<1>7. Reached(ledger[1].key, mem)
  BY <1>2, Names DEF Reached, Reviewed, TreeAssumption
<1>8. Grows(mem, mem) /\ NewCells(mem)
  BY <1>2, <1>3, GrowsItself DEF NewCells
<1>9. CheckpointInv
  BY <1>2, <1>3, <1>5, <1>7, <1>8 DEF CheckpointInv
<1>10. EmitInv /\ TodoInv
  BY <1>2, <1>5 DEF EmitInv, TodoInv, AtRest
<1>11. \A c \in CellId : mem.decided[c][Reviewed] = NoAnswer
  BY <1>2, <1>6
<1>12. FreshInv
  BY <1>2, <1>3, <1>7, <1>11 DEF FreshInv
<1> QED
  BY <1>9, <1>10, <1>12 DEF RecoverInv

LEMMA RecoverStep ==
    ASSUME TreeAssumption, LimitAssumption, AnswerAssumption,
           BaseInv, BaseInv', NumberInv, NumberInv', RecoverInv, [Next]_vars
    PROVE  RecoverInv'
<1>1. Kind
  BY StepIs DEF BaseInv
<1>2. CASE UNCHANGED vars
  <2>1. LastCheckpoint' = LastCheckpoint
    BY <1>2, LastFollows DEF vars
  <2> QED
    BY <1>2, <2>1 DEF vars, RecoverInv, CheckpointInv, EmitInv, TodoInv, AtRest, FreshInv
<1> QED
  BY <1>1, <1>2, PerformsRecovers, FailsRecovers, CallsRecovers, EventRecovers,
     CheckpointRecovers, CrashRecovers, OpensRecovers DEF Kind

-----------------------------------------------------------------------------
(* Every decision is the one the events record, or of an operation whose   *)
(* event the ledger has refused.                                           *)

Explained(l, d, c, n, a) ==
    \/ <<n, c>> \in d
    \/ \E i \in DOMAIN l :
          /\ l[i].type = "event" /\ l[i].body = a
          /\ l[i].key.op = n /\ l[i].key.subject = c
Pending(es, c, n, a) ==
    \E j \in DOMAIN es : es[j].key.op = n /\ es[j].key.subject = c /\ es[j].body = a
DecidedInv ==
    \A c \in CellId, n \in CellOp :
        /\ LastCheckpoint.decided[c][n] # NoAnswer =>
              Explained(ledger, disowned, c, n, LastCheckpoint.decided[c][n])
        /\ up /\ mem.decided[c][n] # NoAnswer =>
              \/ Explained(ledger, disowned, c, n, mem.decided[c][n])
              \/ ~half /\ Pending(emit, c, n, mem.decided[c][n])

DecisionInv == BaseInv /\ NumberInv /\ RecoverInv /\ DecidedInv

LEMMA ExplainedStays ==
    ASSUME BaseInv, NEW r \in Record, ledger' = ledger \/ ledger' = Append(ledger, r),
           disowned \subseteq disowned', NEW c, NEW n, NEW a, Explained(ledger, disowned, c, n, a)
    PROVE  Explained(ledger', disowned', c, n, a)
<1>1. CASE ledger' = ledger
  BY <1>1 DEF Explained
<1>2. CASE ledger' = Append(ledger, r)
  <2>1. \A i \in DOMAIN ledger : i \in DOMAIN ledger' /\ ledger'[i] = ledger[i]
    BY <1>2, Grown1 DEF BaseInv, Typed
  <2> QED
    BY <2>1 DEF Explained
<1> QED
  BY <1>1, <1>2

LEMMA DecidedStep ==
    ASSUME TreeAssumption, LimitAssumption, AnswerAssumption,
           BaseInv, RecoverInv, DecidedInv, [Next]_vars
    PROVE  DecidedInv'
<1>1. Kind /\ Typed /\ mem \in Memory /\ Few(emit) /\ LastCheckpoint \in Memory
  BY StepIs, LastFits DEF BaseInv, Typed
<1>2. ASSUME ledger' = ledger, mem' = mem, emit = << >> \/ emit' = emit, half' = half \/ emit = << >>,
             up' => up, disowned' = disowned
      PROVE  DecidedInv'
  <2>1. LastCheckpoint' = LastCheckpoint
    BY <1>2, LastFollows
  <2>2. \A c, n, a : ~half /\ Pending(emit, c, n, a) => ~half' /\ Pending(emit', c, n, a)
    BY <1>2 DEF Pending
  <2> QED
    BY <1>2, <2>1, <2>2 DEF DecidedInv
<1>3. ASSUME NEW o \in FitOp, Performs(o)
      PROVE  DecidedInv'
  <2>1. /\ ledger' = ledger /\ emit = << >> /\ up /\ half' = FALSE /\ mem' = Effect(mem, o)
        /\ emit' = Events(mem', o) /\ LastCheckpoint' = LastCheckpoint /\ disowned' = disowned
    BY <1>3, LastFollows DEF Performs
  <2>2. \A c, n, a : /\ Explained(ledger, disowned, c, n, a) => Explained(ledger', disowned', c, n, a)
                     /\ ~Pending(emit, c, n, a)
    BY <2>1 DEF Explained, Pending
  <2>3. ASSUME NEW c \in CellId, NEW n \in CellOp, mem'.decided[c][n] # NoAnswer
        PROVE  \/ Explained(ledger', disowned', c, n, mem'.decided[c][n])
               \/ Pending(emit', c, n, mem'.decided[c][n])
    <3>1. CASE o.name = n /\ o.subject = c
      <4>1. mem' \in Memory /\ mem'.decided[c][n] = o.answer
        <5>1. o.name \in CellOp
          BY <3>1
        <5> QED
          BY <1>1, <2>1, <3>1, <5>1, CellEffectShape, CellEffectDecided
      <4>2. PICK j \in DOMAIN emit' : emit'[j] = Main(mem', o)
        BY <1>1, <2>1, <4>1, EventsAre
      <4>3. emit'[j].key.op = n /\ emit'[j].key.subject = c /\ emit'[j].body = mem'.decided[c][n]
        BY <3>1, <4>1, <4>2 DEF Main, Event
      <4> QED
        BY <2>1, <4>3 DEF Pending
    <3>2. CASE ~(o.name = n /\ o.subject = c)
      <4>1. mem'.decided[c][n] = mem.decided[c][n]
        <5>1. CASE o.name \in CellOp
          BY <1>1, <2>1, <3>2, <5>1, CellEffectDecided
        <5>2. CASE o.name \in RunOp
          BY <1>1, <2>1, <5>2, RunEffectFields DEF Alike
        <5> QED
          BY <5>1, <5>2 DEF FitOp
      <4> QED
        BY <2>1, <2>2, <2>3, <4>1 DEF DecidedInv
    <3> QED
      BY <3>1, <3>2
  <2> QED
    BY <2>1, <2>2, <2>3 DEF DecidedInv
<1>4. ASSUME NEW o \in FitOp, Fails(o) \/ Calls(o)
      PROVE  DecidedInv'
  BY <1>2, <1>4 DEF Fails, Calls, Idle
<1>5. CASE EventStep
  <2>1. /\ emit # << >> /\ ~half /\ mem' = mem /\ up /\ disowned \subseteq disowned'
        /\ Appends(EventToAppend) \/ Repeats(EventToAppend) \/ Collides(EventToAppend)
    BY <1>5 DEF EventStep, Keeps, Disowns
  <2>2. EventToAppend \in EventRecord /\ EventToAppend \in Record /\ 1 \in DOMAIN emit
        /\ emit[1] \in FitEvent /\ EventToAppend.type = "event" /\ EventToAppend.key = emit[1].key
        /\ EventToAppend.body = emit[1].body
    BY <1>1, <2>1, RecordsFit DEF EventToAppend, Record
  <2>3. ledger' = ledger \/ ledger' = Append(ledger, EventToAppend)
    BY <2>1 DEF Appends, Repeats, Collides
  <2>4. LastCheckpoint' = LastCheckpoint
    BY <1>1, <2>2, <2>3, LastFollows, LastStays DEF BaseInv, Typed
  <2>5. \A c, n, a : Explained(ledger, disowned, c, n, a) => Explained(ledger', disowned', c, n, a)
    BY <2>1, <2>2, <2>3, ExplainedStays
  <2>6. Explained(ledger', disowned', emit[1].key.subject, emit[1].key.op, emit[1].body)
    <3>1. CASE Appends(EventToAppend)
      <4>1. Len(ledger) + 1 \in DOMAIN ledger' /\ ledger'[Len(ledger) + 1] = EventToAppend
        BY <1>1, <2>2, <3>1, Grown1 DEF Appends, Typed
      <4>2. /\ ledger'[Len(ledger) + 1].type = "event"
            /\ ledger'[Len(ledger) + 1].key = emit[1].key
            /\ ledger'[Len(ledger) + 1].body = emit[1].body
        BY <2>2, <4>1
      <4> QED
        BY <4>1, <4>2 DEF Explained
    <3>2. CASE Repeats(EventToAppend)
      BY <2>2, <3>2 DEF Explained, Repeats
    <3>3. CASE Collides(EventToAppend)
      BY <1>5, <3>3, CollidesIsDenied DEF EventStep, Disowns, Explained
    <3> QED
      BY <2>1, <3>1, <3>2, <3>3
  <2>7. ASSUME NEW c, NEW n, NEW a, a # NoAnswer, Pending(emit, c, n, a)
        PROVE  c = emit[1].key.subject /\ n = emit[1].key.op /\ a = emit[1].body
    <3>1. PICK j \in DOMAIN emit : emit[j].key.op = n /\ emit[j].key.subject = c /\ emit[j].body = a
      BY <2>7 DEF Pending
    <3>2. emit[j] \in FitEvent
      BY <1>1 DEF Typed
    <3>3. n \in Answered
      BY <2>7, <3>1, <3>2 DEF FitEvent, Said
    <3>4. emit[j].key.op \notin {"created", "decompose"}
      BY <3>1, <3>3 DEF Answered
    <3>5. PICK e \in FitEvent : emit = << e >>
      BY <1>1, <3>4 DEF Few
    <3>6. j = 1
      BY <3>5
    <3> QED
      BY <3>1, <3>6
  <2>8. \A c, n, a : a # NoAnswer /\ Pending(emit, c, n, a) =>
            c = emit[1].key.subject /\ n = emit[1].key.op /\ a = emit[1].body
    BY <2>7
  <2>10. ASSUME NEW c \in CellId, NEW n \in CellOp, mem.decided[c][n] # NoAnswer
         PROVE  Explained(ledger', disowned', c, n, mem.decided[c][n])
    <3>1. CASE Explained(ledger, disowned, c, n, mem.decided[c][n])
      BY <2>1, <2>5, <3>1
    <3>2. CASE Pending(emit, c, n, mem.decided[c][n])
      <4>1. c = emit[1].key.subject /\ n = emit[1].key.op /\ mem.decided[c][n] = emit[1].body
        BY <2>8, <2>10, <3>2
      <4> QED
        BY <2>6, <4>1
    <3> QED
      BY <2>1, <2>10, <3>1, <3>2 DEF DecidedInv
  <2> QED
    BY <2>1, <2>4, <2>5, <2>10 DEF DecidedInv
<1>6. CASE CheckpointStep
  <2>1. /\ emit # << >> /\ half /\ mem' = mem /\ up /\ disowned' = disowned
        /\ Appends(CheckpointToAppend) \/ ledger' = ledger
    BY <1>6 DEF CheckpointStep, Keeps, Repeats, Collides
  <2>2. CheckpointToAppend \in CheckpointRecord /\ CheckpointToAppend \in Record
        /\ CheckpointToAppend.body = mem
    BY <1>1, <2>1, RecordsFit DEF CheckpointToAppend, Record
  <2>3. ledger' = ledger \/ ledger' = Append(ledger, CheckpointToAppend)
    BY <2>1 DEF Appends
  <2>4. LastCheckpoint' = LastCheckpoint \/ LastCheckpoint' = mem
    BY <1>1, <2>2, <2>3, LastFollows, LastReplaced DEF Typed
  <2>5. \A c, n, a : Explained(ledger, disowned, c, n, a) => Explained(ledger', disowned', c, n, a)
    BY <2>1, <2>2, <2>3, ExplainedStays
  <2>6. \A c \in CellId, n \in CellOp : mem.decided[c][n] # NoAnswer =>
            Explained(ledger, disowned, c, n, mem.decided[c][n])
    BY <2>1 DEF DecidedInv
  <2>7. \A c \in CellId, n \in CellOp :
            /\ mem.decided[c][n] # NoAnswer => Explained(ledger', disowned', c, n, mem.decided[c][n])
            /\ LastCheckpoint.decided[c][n] # NoAnswer => Explained(ledger', disowned', c, n, LastCheckpoint.decided[c][n])
    BY <2>4, <2>5, <2>6, <2>1 DEF DecidedInv
  <2> QED
    BY <2>1, <2>4, <2>7 DEF DecidedInv
<1>7. CASE Crash
  <2>1. ledger' = ledger /\ ~up' /\ LastCheckpoint' = LastCheckpoint /\ disowned' = disowned
    BY <1>7, LastFollows DEF Crash
  <2> QED
    BY <2>1 DEF DecidedInv
<1>8. CASE Opens
  <2>1. ledger' = ledger /\ LastCheckpoint' = LastCheckpoint /\ mem' = LastCheckpoint
        /\ disowned' = disowned
    BY <1>8, LastFollows DEF Opens
  <2> QED
    BY <2>1 DEF DecidedInv
<1>9. CASE UNCHANGED vars
  BY <1>2, <1>9 DEF vars
<1> QED
  BY <1>1, <1>3, <1>4, <1>5, <1>6, <1>7, <1>8, <1>9 DEF Kind

LEMMA DecisionInit ==
    ASSUME TreeAssumption, LimitAssumption, Init
    PROVE  DecisionInv
<1>1. BaseInv /\ NumberInv /\ RecoverInv
  BY StatusInit, RecoverInit DEF StatusInv
<1>2. LastCheckpoint = mem
  BY <1>1 DEF RecoverInv, TodoInv, AtRest, Init
<1>3. mem.decided = [c \in CellId |-> [n \in CellOp |-> NoAnswer]]
  BY DEF Init
<1> QED
  BY <1>1, <1>2, <1>3 DEF DecisionInv, DecidedInv

LEMMA DecisionStep ==
    ASSUME TreeAssumption, LimitAssumption, AnswerAssumption, DecisionInv, [Next]_vars
    PROVE  DecisionInv'
<1>1. BaseInv /\ BaseInv' /\ NumberInv
  BY BaseStep DEF DecisionInv
<1>2. NumberInv'
  BY <1>1, NumberStep
<1> QED
  BY <1>1, <1>2, RecoverStep, DecidedStep DEF DecisionInv

(* Claim READY-RECOVERY-01: between two calls nothing is only in memory,   *)
(* and every decision of the recovered state is the one the ledger's event *)
(* records, over any crashes and recoveries and whatever is said again     *)
(* after them, but for the operations whose event the ledger has refused   *)
(* (system.py:631), of which a run that has not crashed has none.          *)
THEOREM LedgerExplainsCheckpointCorrect ==
    ASSUME TreeAssumption, LimitAssumption, AnswerAssumption
    PROVE  Spec => []LedgerExplainsCheckpoint
<1>1. Init => DecisionInv
  BY DecisionInit
<1>2. DecisionInv /\ [Next]_vars => DecisionInv'
  BY DecisionStep
<1>3. DecisionInv => LedgerExplainsCheckpoint
  <2> SUFFICES ASSUME DecisionInv PROVE LedgerExplainsCheckpoint
    OBVIOUS
  <2>1. DurableWhenIdle
    BY DEF DecisionInv, RecoverInv, TodoInv, AtRest, SameButNotes, DurableWhenIdle, Idle
  <2>2. \A c \in CellId, n \in CellOp :
          LastCheckpoint.decided[c][n] # NoAnswer /\ <<n, c>> \notin disowned =>
            \E i \in DOMAIN ledger :
                /\ ledger[i].type = "event" /\ ledger[i].body = LastCheckpoint.decided[c][n]
                /\ ledger[i].key.op = n /\ ledger[i].key.subject = c
    BY DEF DecisionInv, DecidedInv, Explained
  <2>3. crashes = 0 => disowned = {}
    BY DEF DecisionInv, RecoverInv, FreshInv
  <2> QED
    BY <2>1, <2>2, <2>3 DEF LedgerExplainsCheckpoint
<1> QED
  BY <1>1, <1>2, <1>3, PTL DEF Spec

-----------------------------------------------------------------------------
(* What the driver parks a run for.                                        *)

\* The children proposed make a tree: the root is nobody's child, and no
\* cell is proposed by two.
Forest ==
    /\ \A p \in CellId : \A i \in DOMAIN KidsOf[p] : KidsOf[p][i] # Root
    /\ \A p, q \in CellId : \A i \in DOMAIN KidsOf[p], j \in DOMAIN KidsOf[q] :
          KidsOf[p][i] = KidsOf[q][j] => p = q

Tree(m) ==
    \A c \in CellId :
       /\ m.phase[c] # "absent" /\ c # Root =>
             \E p \in CellId : /\ m.kids[p] = KidsOf[p]
                               /\ \E i \in DOMAIN KidsOf[p] : KidsOf[p][i] = c
       /\ m.phase[c] = "children" => KidsOf[c] # << >>
       /\ m.phase[c] \in {"absent", "contract", "tests", "plan", "pre_review"} =>
             m.kids[c] = << >>

Excused(m) == refused \/ (crashes > 0 /\ \E c \in CellId : HalfDone(m, c))

HarmlessInv ==
    /\ Tree(mem) /\ Tree(LastCheckpoint)
    /\ todo # << >> => Allowed(mem, Head(todo))
    /\ todo # << >> /\ Head(todo).name = "park" => Excused(mem)
    /\ mem.status = "parked" => Excused(mem)
    /\ LastCheckpoint.status = "parked" => Excused(LastCheckpoint)
    /\ crashes = 0 => \A c \in CellId :
          mem.phase[c] = "children" /\ mem.kids[c] = << >> =>
             todo # << >> /\ Head(todo).name = "decompose" /\ Head(todo).subject = c

ParkInv == BaseInv /\ NumberInv /\ RecoverInv /\ HarmlessInv

LEMMA TreeEffect ==
    ASSUME TreeAssumption, NEW m \in Memory, NEW o \in FitOp, Tree(m), Allowed(m, o)
    PROVE  Tree(Effect(m, o))
<1> DEFINE e == Effect(m, o)
<1>1. CASE o.name \in RunOp
  <2>1. Alike(m, e)
    BY <1>1, RunEffectFields
  <2>2. Tree(m)
    OBVIOUS
  <2> HIDE DEF e
  <2>3. Tree(e)
    BY ONLY <2>1, <2>2 DEF Alike, Tree
  <2> QED
    BY ONLY <2>3 DEF e
<1>2. CASE o.name \in CellOp
  <2> DEFINE s == o.subject
             new == Makes(o)
  <2>1. /\ s \in CellId
        /\ \A k \in CellId :
             /\ e.phase[k] = IF k \in new THEN "contract"
                             ELSE IF k = s THEN To(o.name, s) ELSE m.phase[k]
             /\ e.kids[k] = IF k = s /\ o.name = "decompose" THEN KidsOf[s] ELSE m.kids[k]
    <3>1. \A k \in CellId : e.phase[k] = IF k \in new THEN "contract"
                                         ELSE IF k = s THEN To(o.name, s) ELSE m.phase[k]
      BY <1>2, CellEffectPhase
    <3>2. \A k \in CellId :
             e.kids[k] = IF k = s /\ o.name = "decompose" THEN KidsOf[s] ELSE m.kids[k]
      BY <1>2, CellEffectKids
    <3>3. s \in CellId
      BY <1>2, CellEffectShape
    <3> HIDE DEF e, new
    <3> QED
      BY ONLY <3>1, <3>2, <3>3
  <2>2. \A k \in new : m.phase[k] = "absent" /\ o.name = "decompose"
                       /\ \E i \in DOMAIN KidsOf[s] : KidsOf[s][i] = k
    BY <1>2, MakesKids DEF Allowed
  <2>3. m.phase[s] = From[o.name] /\ m.phase[s] # "absent"
    BY <1>2, <2>1, Destinations DEF Allowed
  <2>4. o.name = "decompose" => m.phase[s] = "children"
    BY <2>3 DEF From
  <2>5. To(o.name, s) = "children" => KidsOf[s] # << >>
    <3>1. o.name \notin {"decompose", "record_pre_review"} => To(o.name, s) # "children"
      BY <1>2, Names DEF To
    <3>2. o.name = "record_pre_review" => (To(o.name, s) = "children" => KidsOf[s] # << >>)
      BY DEF To
    <3>3. o.name = "decompose" => KidsOf[s] # << >>
      BY <2>1, <2>4 DEF Tree
    <3> QED
      BY <3>1, <3>2, <3>3
  <2>6. To(o.name, s) \in {"absent", "contract", "tests", "plan", "pre_review"} =>
          m.phase[s] \in {"absent", "contract", "tests", "plan", "pre_review"}
    BY <1>2, <2>3, Names DEF To, From
  <2>10. new = {} \/ o.name = "decompose"
    BY DEF Makes
  <2> HIDE DEF e, new, s
  <2>7. ASSUME NEW c \in CellId, e.phase[c] # "absent", c # Root
        PROVE  \E p \in CellId : /\ e.kids[p] = KidsOf[p]
                                 /\ \E i \in DOMAIN KidsOf[p] : KidsOf[p][i] = c
    <3>1. CASE c \in new
      BY <2>1, <2>2, <3>1
    <3>2. CASE c \notin new
      <4>1. m.phase[c] # "absent"
        BY <2>1, <2>3, <2>7, <3>2
      <4>2. PICK p \in CellId : /\ m.kids[p] = KidsOf[p]
                                /\ \E i \in DOMAIN KidsOf[p] : KidsOf[p][i] = c
        BY <2>7, <4>1 DEF Tree
      <4>3. e.kids[p] = KidsOf[p]
        BY <2>1, <4>2
      <4> QED
        BY <4>2, <4>3
    <3> QED
      BY <3>1, <3>2
  <2>8. ASSUME NEW c \in CellId, e.phase[c] = "children"
        PROVE  KidsOf[c] # << >>
    BY <2>1, <2>5, <2>8 DEF Tree
  <2>9. ASSUME NEW c \in CellId,
               e.phase[c] \in {"absent", "contract", "tests", "plan", "pre_review"}
        PROVE  e.kids[c] = << >>
    <3>1. CASE c \in new
      <4>1. m.phase[c] = "absent" /\ c # s
        BY <2>2, <2>3, <3>1
      <4> QED
        BY <2>1, <4>1 DEF Tree
    <3>2. CASE c = s /\ c \notin new
      <4>1. m.phase[s] \in {"absent", "contract", "tests", "plan", "pre_review"}
        BY <2>1, <2>6, <2>9, <3>2
      <4>2. o.name # "decompose" /\ m.kids[c] = << >>
        BY <2>1, <2>4, <3>2, <4>1 DEF Tree
      <4> QED
        BY <2>1, <4>2
    <3>3. CASE c # s /\ c \notin new
      BY <2>1, <2>9, <3>3 DEF Tree
    <3> QED
      BY <3>1, <3>2, <3>3
  <2> QED
    BY <2>7, <2>8, <2>9 DEF Tree, e
<1> QED
  BY <1>1, <1>2 DEF FitOp

(* The second operation of a result is allowed after the first.            *)
LEMMA SecondIsAllowed ==
    ASSUME TreeAssumption, AnswerAssumption, Forest, NEW m \in Memory, NEW o \in FitOp,
           NEW q \in FitOp, Tree(m), Allowed(m, o), Pairs(o, q)
    PROVE  Allowed(Effect(m, o), q)
<1> DEFINE e == Effect(m, o)
<1>1. o.name \in CellOp /\ q.name \in CellOp /\ q.subject = o.subject
      /\ o.name # "decompose"
  BY Names DEF Pairs
<1>2. /\ o.subject \in CellId /\ e.status = m.status
      /\ \A k \in CellId : e.phase[k] = IF k = o.subject THEN To(o.name, k) ELSE m.phase[k]
      /\ e.decided[o.subject][o.name] = o.answer
  <2>1. o.subject \in CellId /\ e.status = m.status
    BY <1>1, CellEffectShape
  <2>2. \A k \in CellId : \A n \in CellOp :
           e.decided[k][n] = IF k = o.subject /\ n = o.name THEN o.answer ELSE m.decided[k][n]
    BY <1>1, CellEffectDecided
  <2>3. \A k \in CellId : e.phase[k] = IF k = o.subject THEN To(o.name, o.subject) ELSE m.phase[k]
    <3>1. \A k \in CellId : e.phase[k] = IF k \in Makes(o) THEN "contract"
                                         ELSE IF k = o.subject THEN To(o.name, o.subject)
                                         ELSE m.phase[k]
      BY <1>1, CellEffectPhase
    <3>2. Makes(o) = {}
      BY <1>1 DEF Makes
    <3> HIDE DEF e
    <3> QED
      BY <3>1, <3>2
  <2> HIDE DEF e
  <2> QED
    BY <1>1, <2>1, <2>2, <2>3
<1>3. m.status = "active" /\ m.phase[o.subject] = From[o.name]
  BY <1>1 DEF Allowed
<1> HIDE DEF e
<1>4. CASE o.name = "record_pre_review" /\ q.name = "decompose" /\ KidsOf[o.subject] # << >>
  <2>1. To(o.name, o.subject) = "children" /\ m.phase[o.subject] = "pre_review"
        /\ From[q.name] = "children"
    BY <1>3, <1>4 DEF To, From
  <2>2. ASSUME NEW i \in DOMAIN KidsOf[o.subject]
        PROVE  e.phase[KidsOf[o.subject][i]] = "absent"
    <3> DEFINE k == KidsOf[o.subject][i]
    <3>1. k \in CellId /\ k # Root
      <4>1. KidsOf[o.subject] \in Seq(CellId)
        BY <1>2 DEF TreeAssumption
      <4>2. k \in CellId
        BY <4>1
      <4>3. k # Root
        BY <1>2 DEF Forest
      <4> QED
        BY <4>2, <4>3
    <3>2. m.phase[k] = "absent"
      <4>1. SUFFICES ASSUME m.phase[k] # "absent" PROVE FALSE
        OBVIOUS
      <4>2. PICK p \in CellId : /\ m.kids[p] = KidsOf[p]
                                /\ \E j \in DOMAIN KidsOf[p] : KidsOf[p][j] = k
        BY <3>1, <4>1 DEF Tree
      <4>3. p = o.subject
        BY <1>2, <4>2 DEF Forest
      <4>4. m.kids[o.subject] = << >>
        BY <1>2, <2>1 DEF Tree
      <4> QED
        BY <1>4, <4>2, <4>3, <4>4
    <3>3. k # o.subject
      BY <2>1, <3>2
    <3> QED
      BY <1>2, <3>1, <3>2, <3>3
  <2>3. e.phase[q.subject] = From[q.name] /\ e.status = "active"
    BY <1>1, <1>2, <1>3, <2>1
  <2> QED
    BY <1>1, <1>4, <2>2, <2>3 DEF Allowed, e
<1>5. CASE o.name = "record_post_review" /\ q.name = "close"
  <2>1. To(o.name, o.subject) = "post_review" /\ From[q.name] = "post_review"
    BY <1>5 DEF To, From
  <2>2. o.answer # NoAnswer
    BY <1>5 DEF FitOp, Said, Answered, AnswerAssumption
  <2>3. e.phase[q.subject] = From[q.name] /\ e.status = "active"
        /\ e.decided[q.subject]["record_post_review"] # NoAnswer
    BY <1>1, <1>2, <1>3, <1>5, <2>1, <2>2
  <2> QED
    BY <1>1, <1>5, <2>3 DEF Allowed, e
<1> QED
  BY <1>4, <1>5 DEF Pairs

LEMMA HarmlessInit ==
    ASSUME TreeAssumption, LimitAssumption, Init
    PROVE  HarmlessInv
<1>1. LastCheckpoint = mem
  BY RecoverInit DEF RecoverInv, TodoInv, AtRest, Init
<1>2. /\ mem.phase = [c \in CellId |-> IF c = Root THEN "contract" ELSE "absent"]
      /\ mem.kids = [c \in CellId |-> << >>] /\ mem.status = "active"
      /\ todo = << >> /\ refused = FALSE /\ crashes = 0 /\ refusals = 0
  BY DEF Init
<1>3. Tree(mem)
  BY <1>2 DEF Tree
<1> QED
  BY <1>1, <1>2, <1>3 DEF HarmlessInv

LEMMA PerformsHarmless ==
    ASSUME TreeAssumption, AnswerAssumption, Forest, BaseInv, RecoverInv, HarmlessInv,
           NEW o \in FitOp, Performs(o)
    PROVE  HarmlessInv'
<1>1. /\ Typed /\ mem \in Memory /\ o = Head(todo) /\ todo # << >>
      /\ Allowed(mem, o) /\ mem' = Effect(mem, o) /\ emit = << >>
      /\ ledger' = ledger /\ todo' = Tail(todo) /\ refused' = refused
      /\ refusals' = refusals /\ crashes' = crashes /\ up
  BY DEF BaseInv, Typed, Performs
<1>2. LastCheckpoint' = LastCheckpoint
  BY <1>1, LastFollows
<1>3. Tree(mem')
  BY <1>1, TreeEffect DEF HarmlessInv
<1>4. Tail(todo) # << >> => /\ Pairs(o, Head(todo')) /\ Head(todo').name \in {"decompose", "close"}
                            /\ Head(todo') \in FitOp
  BY <1>1, TailShaped DEF BaseInv, Typed
<1>5. Tail(todo) = << >> => Alone(o)
  BY <1>1, TailShaped DEF BaseInv, Typed
<1>6. todo' # << >> => Allowed(mem', Head(todo')) /\ Head(todo').name # "park"
  BY <1>1, <1>4, SecondIsAllowed DEF HarmlessInv
<1>7. mem'.status = "parked" => Excused(mem)'
  <2>1. CASE o.name \in CellOp
    <3>1. mem'.status = "active"
      BY <1>1, <2>1, CellEffectShape DEF Allowed
    <3> QED
      BY <3>1
  <2>2. CASE o.name \in RunOp
    <3>1. /\ Alike(mem, mem')
          /\ mem'.status = IF o.name \in StatusOp THEN StatusAfter[o.name] ELSE mem.status
      BY <1>1, <2>2, RunEffectFields
    <3>2. mem'.status = "parked" => o.name = "park" \/ mem.status = "parked"
      BY <3>1 DEF StatusOp, StatusAfter
    <3>3. Excused(mem) => refused \/ (crashes > 0 /\ \E c \in CellId : HalfDone(mem', c))
      BY <3>1 DEF Excused, HalfDone, Alike
    <3>4. o.name = "park" \/ mem.status = "parked" => Excused(mem)
      BY <1>1 DEF HarmlessInv
    <3> QED
      BY <1>1, <3>2, <3>3, <3>4 DEF Excused
  <2> QED
    BY <2>1, <2>2 DEF FitOp
<1>8. LastCheckpoint.status = "parked" => Excused(LastCheckpoint)'
  BY <1>1, <1>2 DEF HarmlessInv, Excused, HalfDone
<1>9. ASSUME crashes = 0, NEW c \in CellId, mem'.phase[c] = "children", mem'.kids[c] = << >>
      PROVE  todo' # << >> /\ Head(todo').name = "decompose" /\ Head(todo').subject = c
  <2>1. \/ o.name = "decompose" /\ o.subject = c
        \/ ~(mem.phase[c] = "children" /\ mem.kids[c] = << >>)
    BY <1>1, <1>9 DEF HarmlessInv
  <2>2. CASE o.name \in RunOp
    <3>1. Alike(mem, mem')
      BY <1>1, <2>2, RunEffectFields
    <3>2. o.name # "decompose"
      BY <2>2, Names
    <3> QED
      BY <1>9, <2>1, <3>1, <3>2 DEF Alike
  <2>3. CASE o.name \in CellOp
    <3> DEFINE new == Makes(o)
    <3>1. /\ o.subject \in CellId
          /\ mem'.phase[c] = IF c \in new THEN "contract"
                             ELSE IF c = o.subject THEN To(o.name, o.subject) ELSE mem.phase[c]
          /\ mem'.kids[c] = IF c = o.subject /\ o.name = "decompose" THEN KidsOf[o.subject]
                            ELSE mem.kids[c]
      <4>1. o.subject \in CellId /\ c \in CellId
        BY <1>1, <1>9, <2>3, CellEffectShape
      <4>2. mem'.phase[c] = IF c \in new THEN "contract"
                            ELSE IF c = o.subject THEN To(o.name, o.subject) ELSE mem.phase[c]
        BY <1>1, <1>9, <2>3, CellEffectPhase
      <4>3. mem'.kids[c] = IF c = o.subject /\ o.name = "decompose" THEN KidsOf[o.subject]
                           ELSE mem.kids[c]
        BY <1>1, <1>9, <2>3, CellEffectKids
      <4> QED
        BY ONLY <4>1, <4>2, <4>3
    <3>2. mem.phase[o.subject] = From[o.name]
      BY <1>1, <2>3 DEF Allowed
    <3>3. ~(o.name = "decompose" /\ o.subject = c)
      <4>1. SUFFICES ASSUME o.name = "decompose", o.subject = c PROVE FALSE
        OBVIOUS
      <4>2. mem.phase[c] = "children"
        BY <3>2, <4>1 DEF From
      <4>3. KidsOf[c] # << >>
        BY <4>2 DEF HarmlessInv, Tree
      <4> QED
        BY <1>9, <3>1, <4>1, <4>3
    <3> HIDE DEF new
    <3>4. c = o.subject /\ To(o.name, c) = "children"
      BY <1>9, <2>1, <3>1, <3>3
    <3>5. o.name = "record_pre_review" /\ KidsOf[c] # << >>
      BY <2>3, <3>3, <3>4, Names DEF To
    <3>6. ~Alone(o)
      BY <3>4, <3>5 DEF Alone
    <3> QED
      BY <1>1, <1>4, <1>5, <3>4, <3>5, <3>6 DEF Pairs
  <2> QED
    BY <2>2, <2>3 DEF FitOp
<1>10. Tree(LastCheckpoint)
  BY DEF HarmlessInv
<1> QED
  BY <1>1, <1>2, <1>3, <1>6, <1>7, <1>8, <1>9, <1>10 DEF HarmlessInv

LEMMA CallsHarmless ==
    ASSUME BaseInv, RecoverInv, HarmlessInv, NEW o \in FitOp, Calls(o)
    PROVE  HarmlessInv'
<1>1. /\ o = Head(todo') /\ todo' # << >> /\ todo = << >> /\ Allowed(mem, o) /\ mem' = mem
      /\ ledger' = ledger /\ emit = << >> /\ up /\ crashes' = crashes /\ crashes \in Nat
  BY DEF Calls, Idle, BaseInv, Typed
<1>2. LastCheckpoint' = LastCheckpoint /\ LastCheckpoint.status = mem.status
  <2>1. LastCheckpoint \in Memory /\ mem \in Memory
    BY LastFits DEF BaseInv, Typed
  <2> QED
    BY <1>1, <2>1, LastFollows, AtRestFields DEF RecoverInv, TodoInv, AtRest
<1>4. CASE o.name = "park"
  <2>1. mem.status = "active"
    BY <1>1, <1>4, Names DEF Allowed
  <2>2. Excused(mem)'
    <3>1. CASE refused'
      BY <3>1 DEF Excused
    <3>2. CASE ~refused'
      <4>1. PICK c \in CellId : HalfDone(mem, c)
        BY <1>4, <3>2 DEF Calls
      <4>2. crashes # 0
        <5>1. SUFFICES ASSUME crashes = 0 PROVE FALSE
          OBVIOUS
        <5>2. ~(mem.phase[c] = "children" /\ mem.kids[c] = << >>)
          BY <1>1, <5>1 DEF HarmlessInv
        <5>3. ~(mem.phase[c] = "post_review" /\ mem.decided[c]["record_post_review"] # NoAnswer)
          BY <1>1, <5>1 DEF RecoverInv, FreshInv, Reviewed
        <5> QED
          BY <4>1, <5>2, <5>3 DEF HalfDone
      <4> QED
        BY <1>1, <4>1, <4>2 DEF Excused, HalfDone
    <3> QED
      BY <3>1, <3>2
  <2> QED
    BY <1>1, <1>2, <1>4, <2>1, <2>2 DEF HarmlessInv
<1>5. CASE o.name # "park"
  <2>1. refused' = refused
    BY <1>5 DEF Calls
  <2>2. Excused(mem) => Excused(mem)'
    BY <1>1, <2>1 DEF Excused, HalfDone
  <2>3. LastCheckpoint.status = "parked" => Excused(LastCheckpoint)'
    BY <1>1, <1>2, <2>1 DEF HarmlessInv, Excused, HalfDone
  <2> QED
    BY <1>1, <1>2, <1>5, <2>2, <2>3 DEF HarmlessInv
<1> QED
  BY <1>4, <1>5

LEMMA HarmlessStep ==
    ASSUME TreeAssumption, LimitAssumption, AnswerAssumption, Forest,
           BaseInv, RecoverInv, HarmlessInv, [Next]_vars
    PROVE  HarmlessInv'
<1>1. Kind /\ Typed /\ LastCheckpoint \in Memory /\ crashes \in Nat /\ refusals \in Nat
  BY StepIs, LastFits DEF BaseInv, Typed
<1>2. ASSUME NEW o \in FitOp
      PROVE  ~Fails(o)
  BY DEF Fails, HarmlessInv
<1>3. ASSUME UNCHANGED <<mem, todo, refused, crashes>>,
             LastCheckpoint' \in {LastCheckpoint, mem}
      PROVE  HarmlessInv'
  <2>1. CASE LastCheckpoint' = LastCheckpoint
    BY <1>3, <2>1 DEF HarmlessInv, Excused, HalfDone
  <2>2. CASE LastCheckpoint' = mem
    BY <1>3, <2>2 DEF HarmlessInv, Excused, HalfDone
  <2> QED
    BY <1>3, <2>1, <2>2
<1>4. CASE EventStep
  <2>1. /\ emit # << >> /\ UNCHANGED <<mem, crashes>> /\ EventToAppend.key = emit[1].key
        /\ 1 \in DOMAIN emit /\ EventToAppend \in EventRecord /\ EventToAppend.type = "event"
    BY <1>1, <1>4, RecordsFit DEF EventStep, Keeps, EventToAppend
  <2>2. LastCheckpoint' = LastCheckpoint
    BY <1>1, <1>4, <2>1, LastFollows, LastStays
       DEF BaseInv, Typed, EventStep, Appends, Repeats, Collides
  <2>3. CASE UNCHANGED <<todo, refused>>
    BY <1>3, <2>1, <2>2, <2>3
  <2>4. CASE Collides(EventToAppend)
    <3>1. emit[1].key.op \in Answered
      BY <1>4, <2>4, EventsAgree, CollidesIsDenied DEF RecoverInv
    <3>2. emit[1].key.op # "created"
      BY <3>1, Names
    <3>3. CASE emit[1].key.op \in CellOp
      <4>1. todo' = << Park >> /\ refused' = TRUE
        BY <2>1, <2>4, <3>2, <3>3 DEF Collides, Abandoned
      <4>2. << Park >> # << >> /\ Head(<< Park >>) = Park /\ Park.name = "park"
        BY ParkFits
      <4>3. mem.status = "active"
        BY <2>1, <3>3 DEF RecoverInv, EmitInv
      <4>4. Allowed(mem, Park)
        BY <4>2, <4>3, Names DEF Allowed
      <4>5. crashes # 0
        BY <1>4, <2>4, EventsAgree, CollidesIsDenied DEF RecoverInv
      <4> QED
        BY <2>1, <2>2, <4>1, <4>2, <4>4, <4>5 DEF HarmlessInv, Excused
    <3>4. CASE emit[1].key.op \notin CellOp
      <4>1. todo' = << >> /\ refused' = refused
        BY <2>1, <2>4, <3>2, <3>4 DEF Collides, Abandoned
      <4>2. crashes # 0
        BY <1>4, <2>4, EventsAgree, CollidesIsDenied DEF RecoverInv
      <4> QED
        BY <2>1, <2>2, <4>1, <4>2 DEF HarmlessInv, Excused, HalfDone
    <3> QED
      BY <3>3, <3>4
  <2> QED
    BY <1>4, <2>3, <2>4 DEF EventStep
<1>5. CASE CheckpointStep
  <2>1. emit # << >> /\ CheckpointToAppend \in CheckpointRecord /\ CheckpointToAppend.body = mem
        /\ CheckpointToAppend.key = emit[1].key /\ CheckpointToAppend.type = "checkpoint"
    BY <1>1, <1>5, RecordsFit DEF CheckpointStep, CheckpointToAppend
  <2>2. CASE Appends(CheckpointToAppend) /\ UNCHANGED <<todo, refused>>
    <3>1. LastCheckpoint' = mem
      BY <1>1, <2>1, <2>2, LastReplaced DEF Appends, Typed
    <3> QED
      BY <1>3, <1>5, <2>2, <3>1 DEF CheckpointStep, Keeps
  <2>3. CASE Repeats(CheckpointToAppend) /\ UNCHANGED <<todo, refused>>
    <3>1. LastCheckpoint' = LastCheckpoint
      BY <2>3, LastFollows DEF Repeats
    <3> QED
      BY <1>3, <1>5, <2>3, <3>1 DEF CheckpointStep, Keeps
  <2>4. CASE Collides(CheckpointToAppend)
    <3>1. /\ crashes > 0 /\ emit[1].key.op = Reviewed
          /\ mem.status = "active" /\ LastCheckpoint.status = "active"
          /\ \E c \in CellId : mem.phase[c] = "post_review"
                               /\ mem.decided[c][Reviewed] # NoAnswer
      BY <1>5, <2>4, CheckpointsAgree
    <3>2. todo' = << Park >> /\ refused' = FALSE /\ ledger' = ledger
      BY <2>1, <2>4, <3>1, Names DEF Collides, Abandoned, Reviewed
    <3>3. UNCHANGED <<mem, refusals, crashes>> /\ LastCheckpoint' = LastCheckpoint
      BY <1>5, <3>2, LastFollows DEF CheckpointStep, Keeps
    <3>4. << Park >> # << >> /\ Head(<< Park >>) = Park /\ Park.name = "park"
      BY ParkFits
    <3>5. Allowed(mem, Park)
      BY <3>1, <3>4, Names DEF Allowed
    <3>6. Excused(mem)'
      BY <3>1, <3>3 DEF Excused, HalfDone, Reviewed
    <3> QED
      BY <3>1, <3>2, <3>3, <3>4, <3>5, <3>6 DEF HarmlessInv
  <2> QED
    BY <1>5, <2>2, <2>3, <2>4 DEF CheckpointStep
<1>6. CASE Crash
  <2>1. /\ UNCHANGED <<mem, ledger, refused>> /\ todo' = << >> /\ crashes' = crashes + 1
    BY <1>6 DEF Crash
  <2>2. LastCheckpoint' = LastCheckpoint /\ crashes' > 0
    BY <1>1, <2>1, LastFollows
  <2>3. Excused(mem) => Excused(mem)'
    BY <1>1, <2>1, <2>2 DEF Excused, HalfDone
  <2>4. LastCheckpoint.status = "parked" => Excused(LastCheckpoint)'
    BY <1>1, <2>1, <2>2 DEF HarmlessInv, Excused, HalfDone
  <2> QED
    BY <1>1, <2>1, <2>2, <2>3, <2>4 DEF HarmlessInv
<1>7. CASE Opens
  <2>1. /\ mem' = LastCheckpoint /\ UNCHANGED <<ledger, refused, crashes>>
        /\ todo' = << >> /\ crashes > 0
    BY <1>7 DEF Opens, BaseInv
  <2>2. LastCheckpoint' = LastCheckpoint
    BY <2>1, LastFollows
  <2>3. LastCheckpoint.status = "parked" => Excused(LastCheckpoint)'
    BY <2>1, <2>2 DEF HarmlessInv, Excused, HalfDone
  <2>4. LastCheckpoint.status = "parked" => Excused(mem)'
    BY <2>1 DEF HarmlessInv, Excused, HalfDone
  <2> QED
    BY <2>1, <2>2, <2>3, <2>4 DEF HarmlessInv
<1>8. CASE UNCHANGED vars
  BY <1>3, <1>8, LastFollows DEF vars
<1> QED
  BY <1>1, <1>2, <1>4, <1>5, <1>6, <1>7, <1>8, PerformsHarmless, CallsHarmless DEF Kind

(* Claim READY-DRIVER-03: the driver parks a run only over a result that   *)
(* is missing or malformed or differs from the one the ledger already has  *)
(* of the same step, or over a crash between the two operations of one     *)
(* result.  No key of its own operations collides otherwise, no operation  *)
(* of a call is refused, and no cell is left in a phase it cannot go on    *)
(* from, whatever the tree.                                                *)
THEOREM EveryOtherCrashIsHarmlessCorrect ==
    ASSUME TreeAssumption, LimitAssumption, AnswerAssumption, Forest
    PROVE  Spec => []EveryOtherCrashIsHarmless
<1>1. Init => ParkInv
  BY StatusInit, RecoverInit, HarmlessInit DEF StatusInv, ParkInv
<1>2. ParkInv /\ [Next]_vars => ParkInv'
  <2> SUFFICES ASSUME ParkInv, [Next]_vars PROVE ParkInv'
    OBVIOUS
  <2>1. BaseInv /\ BaseInv' /\ NumberInv
    BY BaseStep DEF ParkInv
  <2>2. NumberInv'
    BY <2>1, NumberStep
  <2> QED
    BY <2>1, <2>2, RecoverStep, HarmlessStep DEF ParkInv
<1>3. ParkInv => EveryOtherCrashIsHarmless
  BY DEF ParkInv, HarmlessInv, Excused, EveryOtherCrashIsHarmless
<1> QED
  BY <1>1, <1>2, <1>3, PTL DEF Spec
=============================================================================

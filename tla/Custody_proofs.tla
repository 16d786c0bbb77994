---------------------------- MODULE Custody_proofs ----------------------------
(* Theorems about Custody, for any cells, evidence, requests and faults.      *)
EXTENDS Custody, TLAPS

USE TemplateAssumption, CustodyLimits

\* All that evidence cites can be read.
Cited(r) ==
    /\ Retrievable(r.execution)
    /\ \A t \in r.artifacts : Retrievable(t) \/ Intact(t)

\* The call being executed: its record has the key it will be filed under, and
\* what was checked when it began holds until the event is appended, since
\* nothing else happens in between.
EvidenceCall ==
    call.kind = "evidence" =>
        /\ call.body \in Evidence /\ Cited(call.body)
        /\ call.key = KeyOf(call.body, "evidence.recorded")
        /\ pc # "checkpoint" =>
              \A x \in mem.evidence : x.id = call.body.id => x = call.body
AcceptanceCall ==
    call.kind = "acceptance" =>
        /\ call.body \in Result
        /\ call.key = KeyOf(call.body, "acceptance.evaluated")
        /\ pc # "checkpoint" =>
              /\ \E q \in Request : call.body = Evaluate(mem, q)
              /\ \A x \in mem.acceptance : x.id = call.body.id => x = call.body
CallInv ==
    /\ pc # "idle" => call.kind \in {"raw", "evidence", "acceptance"} /\ call.body \in Content
    /\ pc = "idle" => call.kind = "none"
    /\ pc \in {"record", "checkpoint"} => call.body \in whole
    /\ pc = "checkpoint" => call.kind # "raw"
    /\ EvidenceCall
    /\ AcceptanceCall

\* A state agrees with the ledger, but for what the ledger refused.
Agrees(m) ==
    /\ \A x \in m.evidence :
          KeyOf(x, "evidence.recorded") \in disowned
            \/ [key |-> KeyOf(x, "evidence.recorded"), body |-> x] \in events
    /\ \A x \in m.acceptance :
          KeyOf(x, "acceptance.evaluated") \in disowned
            \/ [key |-> KeyOf(x, "acceptance.evaluated"), body |-> x] \in events

\* Without a fault the memory has all the ledger has.
Remembers ==
    \A e \in events :
        \/ e.body \in mem.evidence /\ e.key = KeyOf(e.body, "evidence.recorded")
        \/ e.body \in mem.acceptance /\ e.key = KeyOf(e.body, "acceptance.evaluated")

MemoryInv ==
    /\ Agrees(mem) /\ Agrees(checkpoint)
    /\ faults = 0 => Remembers /\ disowned = {}

IInv == TypeOK /\ CallInv /\ CustodyHolds /\ MemoryInv

-----------------------------------------------------------------------------
(* Operators.                                                               *)

LEMMA EvidenceId ==
    ASSUME NEW e \in Evidence
    PROVE  e.id \in Ids(Template)
BY DEF Evidence, Ids

LEMMA ResultRecord ==
    ASSUME NEW id, NEW a \in BOOLEAN, NEW O, NEW s \in SUBSET O, NEW u \in SUBSET O,
           NEW T, NEW g \in SUBSET T, NEW C, NEW b \in SUBSET C
    PROVE  [id |-> id, accepted |-> a, satisfied |-> s, unsatisfied |-> u,
            qualifying |-> g, unresolved |-> b]
             \in [id : {id}, accepted : BOOLEAN, satisfied : SUBSET O, unsatisfied : SUBSET O,
                  qualifying : SUBSET T, unresolved : SUBSET C]
OBVIOUS

LEMMA EvaluateResult ==
    ASSUME NEW m \in State, NEW q \in Request
    PROVE  Evaluate(m, q) \in Result /\ Evaluate(m, q).id = q.id
<1> DEFINE matches(o) == {e \in m.evidence : Qualifies(e, o, m.rev)}
           met == {o \in q.obligations : Cardinality(matches(o)) >= o.minimum}
           green == met = q.obligations /\ m.blocking \cup q.findings = {}
<1>1. Evaluate(m, q) =
        [id |-> q.id, accepted |-> green,
         satisfied |-> Ids(met), unsatisfied |-> Ids(q.obligations \ met),
         qualifying |-> Ids(UNION {matches(o) : o \in met}),
         unresolved |-> m.blocking \cup q.findings]
    BY DEF Evaluate
<1>2. met \subseteq q.obligations /\ m.evidence \subseteq Evidence /\ m.blocking \subseteq Cell
    BY DEF State
<1>3. green \in BOOLEAN
    OBVIOUS
<1>4. /\ Ids(met) \in SUBSET Ids(q.obligations)
      /\ Ids(q.obligations \ met) \in SUBSET Ids(q.obligations)
    BY <1>2 DEF Ids
<1>5. UNION {matches(o) : o \in met} \subseteq Evidence
    BY <1>2
<1>6. Ids(UNION {matches(o) : o \in met}) \in SUBSET Ids(Template)
    BY <1>5, EvidenceId DEF Ids
<1>7. m.blocking \cup q.findings \in SUBSET (Cell \cup q.findings)
    BY <1>2
<1> HIDE DEF met, green
<1>8. Evaluate(m, q) \in
        [id : {q.id}, accepted : BOOLEAN, satisfied : SUBSET Ids(q.obligations),
         unsatisfied : SUBSET Ids(q.obligations), qualifying : SUBSET Ids(Template),
         unresolved : SUBSET (Cell \cup q.findings)]
    <2> DEFINE sat == Ids(met)
               unsat == Ids(q.obligations \ met)
               all == Ids(UNION {matches(o) : o \in met})
               open == m.blocking \cup q.findings
               O == Ids(q.obligations)
               T == Ids(Template)
               C == Cell \cup q.findings
    <2>1. /\ green \in BOOLEAN /\ sat \in SUBSET O /\ unsat \in SUBSET O /\ all \in SUBSET T
          /\ open \in SUBSET C
        BY <1>3, <1>4, <1>6, <1>7
    <2>2. Evaluate(m, q) = [id |-> q.id, accepted |-> green, satisfied |-> sat,
                            unsatisfied |-> unsat, qualifying |-> all, unresolved |-> open]
        BY <1>1
    <2>3. Evaluate(m, q) \in
            [id : {q.id}, accepted : BOOLEAN, satisfied : SUBSET O, unsatisfied : SUBSET O,
             qualifying : SUBSET T, unresolved : SUBSET C]
        <3> HIDE DEF sat, unsat, all, open, O, T, C
        <3> QED BY <2>1, <2>2, ResultRecord
    <2> QED BY <2>3
<1>9. Evaluate(m, q).id = q.id
    BY <1>1
<1> QED BY <1>8, <1>9 DEF Result

LEMMA ResultId ==
    ASSUME NEW a \in Result
    PROVE  a.id \in Ids(Request)
BY DEF Result, Ids

-----------------------------------------------------------------------------
(* Steps.  Three groups: those that begin nothing, those that begin a call,  *)
(* and those of a call that is under way.                                    *)

LEMMA GraphKeeps ==
    ASSUME IInv, NEW m, Graph(m), m \in State,
           m.evidence = mem.evidence, m.acceptance = mem.acceptance
    PROVE  IInv'
<1>1. UNCHANGED <<events, saved, store, pc, call, disowned, faults>> /\ mem' = m
      /\ checkpoint' = m /\ pc = "idle"
    BY DEF Graph
<1>2. TypeOK'
    BY <1>1 DEF IInv, TypeOK, store
<1>3. CallInv'
    BY <1>1 DEF IInv, CallInv, EvidenceCall, AcceptanceCall
<1>4. CustodyHolds'
    BY <1>1 DEF IInv, CustodyHolds, Retrievable, Intact, store
<1>5. MemoryInv'
    BY <1>1 DEF IInv, MemoryInv, Agrees, Remembers
<1> QED BY <1>2, <1>3, <1>4, <1>5 DEF IInv

\* The states the operations make of a state.
LEMMA ReviseState ==
    ASSUME NEW m \in State, NEW c \in Cell, NEW n \in 1..MaxRevision
    PROVE  LET k == [m EXCEPT !.rev[c] = n]
           IN  k \in State /\ k.evidence = m.evidence /\ k.acceptance = m.acceptance
<1>1. [m.rev EXCEPT ![c] = n] \in [Cell -> 1..MaxRevision]
    BY DEF State
<1>2. [m EXCEPT !.rev[c] = n] = [m EXCEPT !.rev = [m.rev EXCEPT ![c] = n]]
    BY DEF State
<1> QED BY <1>1, <1>2 DEF State

LEMMA BlockingState ==
    ASSUME NEW m \in State, NEW B \in SUBSET Cell
    PROVE  LET k == [m EXCEPT !.blocking = B]
           IN  k \in State /\ k.evidence = m.evidence /\ k.acceptance = m.acceptance
BY DEF State

LEMMA EvidenceState ==
    ASSUME NEW m \in State, NEW E \in SUBSET Evidence
    PROVE  LET k == [m EXCEPT !.evidence = E]
           IN  k \in State /\ k.evidence = E /\ k.acceptance = m.acceptance
BY DEF State

LEMMA AcceptanceState ==
    ASSUME NEW m \in State, NEW A \in SUBSET Result
    PROVE  LET k == [m EXCEPT !.acceptance = A]
           IN  k \in State /\ k.evidence = m.evidence /\ k.acceptance = A
BY DEF State

LEMMA OperationsKeep ==
    ASSUME IInv, NEW c \in Cell, Revise(c) \/ Verify(c) \/ Resolve(c)
    PROVE  IInv'
<1>1. mem \in State
    BY DEF IInv, TypeOK
<1>2. CASE Revise(c)
    <2>1. mem.rev[c] + 1 \in 1..MaxRevision
        BY <1>1, <1>2 DEF Revise, State
    <2> DEFINE m == [mem EXCEPT !.rev[c] = mem.rev[c] + 1]
    <2>2. Graph(m)
        BY <1>2 DEF Revise
    <2>3. m \in State /\ m.evidence = mem.evidence /\ m.acceptance = mem.acceptance
        BY <1>1, <2>1, ReviseState
    <2> HIDE DEF m
    <2> QED BY <2>2, <2>3, GraphKeeps
<1>3. CASE Verify(c)
    <2>1. mem.blocking \cup {c} \in SUBSET Cell
        BY <1>1 DEF State
    <2> DEFINE m == [mem EXCEPT !.blocking = mem.blocking \cup {c}]
    <2>2. Graph(m)
        BY <1>3 DEF Verify
    <2>3. m \in State /\ m.evidence = mem.evidence /\ m.acceptance = mem.acceptance
        BY <1>1, <2>1, BlockingState
    <2> HIDE DEF m
    <2> QED BY <2>2, <2>3, GraphKeeps
<1>4. CASE Resolve(c)
    <2>1. mem.blocking \ {c} \in SUBSET Cell
        BY <1>1 DEF State
    <2> DEFINE m == [mem EXCEPT !.blocking = mem.blocking \ {c}]
    <2>2. Graph(m)
        BY <1>4 DEF Resolve
    <2>3. m \in State /\ m.evidence = mem.evidence /\ m.acceptance = mem.acceptance
        BY <1>1, <2>1, BlockingState
    <2> HIDE DEF m
    <2> QED BY <2>2, <2>3, GraphKeeps
<1> QED BY <1>2, <1>3, <1>4

LEMMA CaptureKeeps ==
    ASSUME IInv, NEW t \in Tree, CaptureTree(t)
    PROVE  IInv'
<1>1. /\ pc = "idle" /\ t \notin captured /\ captured' = captured \cup {t}
      /\ drifted \subseteq drifted' /\ drifted' \subseteq drifted \cup {t}
      /\ faults' \in 0..MaxFaults /\ (faults' = 0 => faults = 0)
      /\ UNCHANGED <<mem, checkpoint, events, saved, whole, partial, pc, call, disowned>>
    BY DEF CaptureTree, Fault, log, IInv, TypeOK
<1>2. TypeOK'
    BY <1>1 DEF IInv, TypeOK
<1>3. \A x : Retrievable(x)' = Retrievable(x)
    BY <1>1 DEF Retrievable
<1>4. \A x : Intact(x) => Intact(x)'
    BY <1>1 DEF Intact
<1>5. CallInv'
    BY <1>1 DEF IInv, CallInv, EvidenceCall, AcceptanceCall
<1>6. CustodyHolds'
    BY <1>1, <1>3, <1>4 DEF IInv, CustodyHolds
<1>7. MemoryInv'
    BY <1>1 DEF IInv, MemoryInv, Agrees, Remembers
<1> QED BY <1>2, <1>5, <1>6, <1>7 DEF IInv

\* A call begins.
LEMMA StartKeeps ==
    ASSUME IInv, pc = "idle", NEW kind \in {"raw", "evidence", "acceptance"}, NEW key, NEW body,
           Start(kind, key, body), UNCHANGED <<mem, log, store, disowned, faults>>,
           body \in Content, EvidenceCall', AcceptanceCall'
    PROVE  IInv'
<1>1. /\ call' = [kind |-> kind, key |-> key, body |-> body] /\ pc' = "put"
      /\ UNCHANGED <<mem, checkpoint, events, saved, whole, partial, captured, drifted,
                     disowned, faults>>
    BY DEF Start, log, store
<1>2. call'.kind = kind /\ call'.body = body /\ call' # NoCall
    BY <1>1 DEF NoCall
<1>3. TypeOK'
    BY <1>1, <1>2 DEF IInv, TypeOK
<1>4. CallInv'
    BY <1>1, <1>2 DEF CallInv
<1>5. CustodyHolds' /\ MemoryInv'
    BY <1>1 DEF IInv, CustodyHolds, Retrievable, Intact, MemoryInv, Agrees, Remembers
<1> QED BY <1>3, <1>4, <1>5 DEF IInv

LEMMA BeginKeeps ==
    ASSUME IInv,
           \/ \E x \in Raw : Retain(x)
           \/ \E r \in Evidence : RecordEvidence(r)
           \/ \E q \in Request : EvaluateAcceptance(q)
    PROVE  IInv'
<1>1. ASSUME NEW x \in Raw, Retain(x) PROVE IInv'
    <2>1. call'.kind = "raw" /\ pc = "idle" /\ Start("raw", "none", x)
          /\ UNCHANGED <<mem, log, store, disowned, faults>>
        BY <1>1 DEF Retain, Start
    <2>2. EvidenceCall' /\ AcceptanceCall'
        BY <2>1 DEF EvidenceCall, AcceptanceCall
    <2> QED BY <2>1, <2>2, StartKeeps DEF Content
<1>2. ASSUME NEW r \in Evidence, RecordEvidence(r) PROVE IInv'
    <2>1. /\ pc = "idle" /\ Start("evidence", <<"evidence.recorded", r.id>>, r)
          /\ UNCHANGED <<mem, log, store, disowned, faults>> /\ Admits(r)
        BY <1>2 DEF RecordEvidence
    <2>2. call'.kind = "evidence" /\ call'.body = r
          /\ call'.key = <<"evidence.recorded", r.id>>
        BY <2>1 DEF Start
    <2>3. Cited(r)'
        BY <2>1 DEF Cited, Admits, Retrievable, Intact, store
    <2>4. EvidenceCall' /\ AcceptanceCall'
        BY <2>1, <2>2, <2>3 DEF EvidenceCall, AcceptanceCall, Admits, KeyOf
    <2> QED BY <2>1, <2>4, StartKeeps DEF Content
<1>3. ASSUME NEW q \in Request, EvaluateAcceptance(q) PROVE IInv'
    <2> DEFINE result == Evaluate(mem, q)
    <2>1. /\ pc = "idle" /\ Start("acceptance", <<"acceptance.evaluated", q.id>>, result)
          /\ UNCHANGED <<mem, log, store, disowned, faults>>
          /\ \A a \in mem.acceptance : a.id = q.id => a = result
        BY <1>3 DEF EvaluateAcceptance
    <2>2. result \in Result /\ result.id = q.id
        BY EvaluateResult DEF IInv, TypeOK
    <2>3. call'.kind = "acceptance" /\ call'.body = result
          /\ call'.key = <<"acceptance.evaluated", q.id>>
        BY <2>1 DEF Start
    <2>4. \E p \in Request : call'.body = Evaluate(mem', p)
        BY <2>1, <2>3
    <2> HIDE DEF result
    <2>5. EvidenceCall' /\ AcceptanceCall'
        BY <2>1, <2>2, <2>3, <2>4 DEF EvidenceCall, AcceptanceCall, KeyOf
    <2> QED BY <2>1, <2>2, <2>5, StartKeeps DEF Content
<1> QED BY <1>1, <1>2, <1>3

\* A call that is over leaves the stores and the ledger.
LEMMA IdleCall ==
    ASSUME Return
    PROVE  CallInv' /\ (pc' = "idle") = (call' = NoCall) /\ pc' = "idle"
BY DEF Return, NoCall, CallInv, EvidenceCall, AcceptanceCall

\* An artifact is written: what was whole stays so.
LEMMA BytesKeep ==
    ASSUME IInv, PutBytes \/ WriteBytes
    PROVE  IInv'
<1>1. /\ UNCHANGED <<mem, checkpoint, events, saved, captured, drifted, disowned, faults>>
      /\ whole \subseteq whole' /\ pc # "idle" /\ pc # "checkpoint"
    BY DEF PutBytes, WriteBytes, log
<1>2. \/ call' = NoCall /\ pc' = "idle"
      \/ /\ call' = call /\ pc' \in {"write", "record"}
         /\ pc' = "record" => call.body \in whole'
    BY DEF PutBytes, WriteBytes
<1>3. call # NoCall /\ call.body \in Content
    BY <1>1 DEF IInv, CallInv, TypeOK
<1>4. TypeOK'
    <2>1. whole' \subseteq Content /\ partial' \subseteq Content /\ whole' \cap partial' = {}
        BY <1>3 DEF PutBytes, WriteBytes, IInv, TypeOK
    <2> QED BY <1>1, <1>2, <1>3, <2>1 DEF IInv, TypeOK
<1>5. \A x : (Retrievable(x) => Retrievable(x)') /\ Intact(x)' = Intact(x)
    BY <1>1 DEF Retrievable, Intact
<1>6. CallInv'
    <2>1. CASE call' = NoCall /\ pc' = "idle"
        BY <2>1, IdleCall DEF Return
    <2>2. CASE call' = call /\ pc' \in {"write", "record"} /\ (pc' = "record" => call.body \in whole')
        <3>1. EvidenceCall'
            BY <1>1, <1>5, <2>2 DEF IInv, CallInv, EvidenceCall, Cited
        <3>2. AcceptanceCall'
            BY <1>1, <2>2 DEF IInv, CallInv, AcceptanceCall
        <3> QED BY <1>1, <2>2, <3>1, <3>2 DEF IInv, CallInv
    <2> QED BY <1>2, <2>1, <2>2
<1>7. CustodyHolds'
    BY <1>1, <1>5 DEF IInv, CustodyHolds
<1>8. MemoryInv'
    BY <1>1 DEF IInv, MemoryInv, Agrees, Remembers
<1> QED BY <1>4, <1>6, <1>7, <1>8 DEF IInv

LEMMA ReturnKeeps ==
    ASSUME IInv, ReturnRaw
    PROVE  IInv'
<1>1. UNCHANGED <<mem, checkpoint, events, saved, store, disowned, faults>> /\ Return
    BY DEF ReturnRaw, log
<1>2. CallInv' /\ TypeOK'
    BY <1>1, IdleCall DEF IInv, TypeOK, store
<1>3. CustodyHolds' /\ MemoryInv'
    BY <1>1 DEF IInv, CustodyHolds, Retrievable, Intact, store, MemoryInv, Agrees, Remembers
<1> QED BY <1>2, <1>3 DEF IInv

LEMMA CallKey ==
    ASSUME CallInv, call.kind \in {"evidence", "acceptance"}
    PROVE  call.key \in Key
<1>1. CASE call.kind = "evidence"
    BY <1>1, EvidenceId DEF CallInv, EvidenceCall, KeyOf, Key
<1>2. CASE call.kind = "acceptance"
    BY <1>2, ResultId DEF CallInv, AcceptanceCall, KeyOf, Key
<1> QED BY <1>1, <1>2

LEMMA CheckpointKeeps ==
    ASSUME IInv, AppendCheckpoint
    PROVE  IInv'
<1>1. UNCHANGED <<mem, events, store, disowned, faults>> /\ Return
      /\ pc = "checkpoint" /\ checkpoint' \in {checkpoint, mem}
    BY DEF AppendCheckpoint
<1>2. call.key \in Key
    <2>1. call.kind \in {"evidence", "acceptance"}
        BY <1>1 DEF IInv, CallInv
    <2> QED BY <2>1, CallKey DEF IInv
<1>3. saved' \subseteq Key
    BY <1>2 DEF AppendCheckpoint, IInv, TypeOK
<1>4. CallInv' /\ TypeOK'
    BY <1>1, <1>3, IdleCall DEF IInv, TypeOK, store
<1>5. CustodyHolds' /\ MemoryInv'
    BY <1>1 DEF IInv, CustodyHolds, Retrievable, Intact, store, MemoryInv, Agrees, Remembers
<1> QED BY <1>4, <1>5 DEF IInv

LEMMA CrashKeeps ==
    ASSUME IInv, Crash
    PROVE  IInv'
<1>1. /\ UNCHANGED <<checkpoint, events, saved, store, disowned>> /\ Return
      /\ mem' = checkpoint /\ faults' = faults + 1 /\ faults < MaxFaults
    BY DEF Crash, Fault, log
<1>2. faults' \in 0..MaxFaults /\ faults' # 0
    BY <1>1 DEF IInv, TypeOK
<1>3. CallInv' /\ TypeOK'
    BY <1>1, <1>2, IdleCall DEF IInv, TypeOK, store
<1>4. CustodyHolds'
    BY <1>1 DEF IInv, CustodyHolds, Retrievable, Intact, store
<1>5. MemoryInv'
    BY <1>1, <1>2 DEF IInv, MemoryInv, Agrees
<1> QED BY <1>3, <1>4, <1>5 DEF IInv

\* The memory takes a record: those under other ids stay.
LEMMA PutKeeps ==
    ASSUME NEW S, NEW x
    PROVE  /\ x \in Put(S, x)
           /\ \A y \in Put(S, x) : y = x \/ y \in S
           /\ (\A y \in S : y.id = x.id => y = x) => S \subseteq Put(S, x)
BY DEF Put

LEMMA RememberedState ==
    ASSUME IInv, call.kind \in {"evidence", "acceptance"}
    PROVE  LET m == Remembered(call)
           IN  /\ m \in State
               /\ call.kind = "evidence" =>
                     m.evidence = Put(mem.evidence, call.body) /\ m.acceptance = mem.acceptance
               /\ call.kind = "acceptance" =>
                     m.acceptance = Put(mem.acceptance, call.body) /\ m.evidence = mem.evidence
<1>1. mem \in State /\ mem.evidence \subseteq Evidence /\ mem.acceptance \subseteq Result
    BY DEF IInv, TypeOK, State
<1>2. CASE call.kind = "evidence"
    <2> DEFINE E == Put(mem.evidence, call.body)
    <2>1. E \in SUBSET Evidence
        BY <1>1, <1>2 DEF Put, IInv, CallInv, EvidenceCall
    <2>2. Remembered(call) = [mem EXCEPT !.evidence = E]
        BY <1>2 DEF Remembered
    <2> HIDE DEF E
    <2>3. Remembered(call) \in State /\ Remembered(call).evidence = E
          /\ Remembered(call).acceptance = mem.acceptance
        BY <1>1, <2>1, <2>2, EvidenceState
    <2> QED BY <1>2, <2>3 DEF E
<1>3. CASE call.kind = "acceptance"
    <2> DEFINE A == Put(mem.acceptance, call.body)
    <2>1. A \in SUBSET Result
        BY <1>1, <1>3 DEF Put, IInv, CallInv, AcceptanceCall
    <2>2. Remembered(call) = [mem EXCEPT !.acceptance = A]
        BY <1>3 DEF Remembered
    <2> HIDE DEF A
    <2>3. Remembered(call) \in State /\ Remembered(call).acceptance = A
          /\ Remembered(call).evidence = mem.evidence
        BY <1>1, <2>1, <2>2, AcceptanceState
    <2> QED BY <1>3, <2>3 DEF A
<1> QED BY <1>2, <1>3

LEMMA AppendKeeps ==
    ASSUME IInv, AppendEvent
    PROVE  IInv'
<1> DEFINE refused == \E e \in events : e.key = call.key /\ e.body # call.body
<1>1. /\ pc = "record" /\ call.kind \in {"evidence", "acceptance"} /\ call.body \in whole
      /\ mem' = Remembered(call)
      /\ UNCHANGED <<checkpoint, saved, whole, partial, captured, drifted, faults>>
    BY DEF AppendEvent, store, IInv, CallInv
<1>2. /\ mem' \in State
      /\ call.kind = "evidence" =>
            mem'.evidence = Put(mem.evidence, call.body) /\ mem'.acceptance = mem.acceptance
      /\ call.kind = "acceptance" =>
            mem'.acceptance = Put(mem.acceptance, call.body) /\ mem'.evidence = mem.evidence
    BY <1>1, RememberedState
<1>3. /\ call.kind = "evidence" => call.body \in Evidence /\ Cited(call.body)
                                     /\ call.key = KeyOf(call.body, "evidence.recorded")
      /\ call.kind = "acceptance" => call.body \in Result
                                       /\ call.key = KeyOf(call.body, "acceptance.evaluated")
    BY DEF IInv, CallInv, EvidenceCall, AcceptanceCall
<1>4. call.key \in Key
    BY <1>1, CallKey DEF IInv
<1>5. /\ refused => Return /\ disowned' = disowned \cup {call.key} /\ events' = events
      /\ ~refused => /\ events' = events \cup {Row} /\ pc' = "checkpoint"
                     /\ call' = call /\ disowned' = disowned
    BY DEF AppendEvent
<1>6. Row.key = call.key /\ Row.body = call.body
    BY DEF Row
<1>7. TypeOK'
    <2>1. \A e \in events' : e.key \in Key /\ e.body \in Evidence \cup Result
        BY <1>1, <1>3, <1>4, <1>5, <1>6 DEF IInv, TypeOK
    <2>2. (pc' = "idle") = (call' = NoCall) /\ pc' \in {"idle", "checkpoint"}
        BY <1>1, <1>5, IdleCall DEF NoCall
    <2>3. disowned' \subseteq Key
        BY <1>4, <1>5 DEF IInv, TypeOK
    <2> QED BY <1>1, <1>2, <2>1, <2>2, <2>3 DEF IInv, TypeOK
<1>8. CallInv'
    <2>1. CASE refused
        BY <1>5, <2>1, IdleCall
    <2>2. CASE ~refused
        <3>1. EvidenceCall' /\ AcceptanceCall'
            BY <1>1, <1>3, <1>5, <2>2 DEF EvidenceCall, AcceptanceCall, Cited, Retrievable, Intact
        <3>2. call'.body \in Content
            BY <1>1, <1>5, <2>2 DEF IInv, CallInv
        <3> QED BY <1>1, <1>5, <2>2, <3>1, <3>2 DEF CallInv
    <2> QED BY <2>1, <2>2
<1>9. CustodyHolds'
    <2>1. \A x : Retrievable(x)' = Retrievable(x) /\ Intact(x)' = Intact(x)
        BY <1>1 DEF Retrievable, Intact
    <2>2. Retrievable(Row.body)
        BY <1>1, <1>6 DEF Retrievable
    <2>3. Row.key[1] = "evidence.recorded" => Cited(Row.body)
        BY <1>1, <1>3, <1>6 DEF KeyOf
    <2>4. \A e \in events' : e \in events \/ e = Row
        BY <1>5
    <2> QED BY <2>1, <2>2, <2>3, <2>4 DEF IInv, CustodyHolds, Cited
<1>10. Agrees(mem)' /\ Agrees(checkpoint)'
    <2>1. events \subseteq events' /\ disowned \subseteq disowned'
        BY <1>5
    <2>2. call.key \in disowned' \/ [key |-> call.key, body |-> call.body] \in events'
        BY <1>5 DEF Row
    <2>3. Agrees(checkpoint)'
        BY <1>1, <2>1 DEF IInv, MemoryInv, Agrees
    <2>4. CASE call.kind = "evidence"
        BY <1>2, <1>3, <2>1, <2>2, <2>3, <2>4, PutKeeps DEF IInv, MemoryInv, Agrees
    <2>5. CASE call.kind = "acceptance"
        BY <1>2, <1>3, <2>1, <2>2, <2>3, <2>5, PutKeeps DEF IInv, MemoryInv, Agrees
    <2> QED BY <1>1, <2>4, <2>5
<1>11. ASSUME faults' = 0 PROVE Remembers' /\ disowned' = {}
    <2>1. Remembers /\ disowned = {}
        BY <1>1, <1>11 DEF IInv, MemoryInv
    <2>2. mem.evidence \subseteq mem'.evidence /\ mem.acceptance \subseteq mem'.acceptance
        BY <1>1, <1>2, PutKeeps DEF IInv, CallInv, EvidenceCall, AcceptanceCall
    <2>3. ~refused
        <3> SUFFICES ASSUME NEW e \in events, e.key = call.key PROVE e.body = call.body
            OBVIOUS
        <3>1. CASE e.body \in mem.evidence /\ e.key = KeyOf(e.body, "evidence.recorded")
            BY <1>1, <1>3, <3>1 DEF KeyOf, IInv, CallInv, EvidenceCall
        <3>2. CASE e.body \in mem.acceptance /\ e.key = KeyOf(e.body, "acceptance.evaluated")
            BY <1>1, <1>3, <3>2 DEF KeyOf, IInv, CallInv, AcceptanceCall
        <3> QED BY <2>1, <3>1, <3>2 DEF Remembers
    <2>4. \/ call.body \in mem'.evidence /\ call.key = KeyOf(call.body, "evidence.recorded")
          \/ call.body \in mem'.acceptance /\ call.key = KeyOf(call.body, "acceptance.evaluated")
        BY <1>1, <1>2, <1>3, PutKeeps
    <2>5. Remembers'
        BY <1>5, <1>6, <2>1, <2>2, <2>3, <2>4 DEF Remembers
    <2> QED BY <1>5, <2>1, <2>3, <2>5
<1>12. MemoryInv'
    BY <1>10, <1>11 DEF MemoryInv
<1> QED BY <1>7, <1>8, <1>9, <1>12 DEF IInv

-----------------------------------------------------------------------------
(* Theorems.                                                                *)

LEMMA Initial == Init => IInv
<1> SUFFICES ASSUME Init PROVE IInv
    OBVIOUS
<1>1. mem \in State
    <2>1. 1 \in 1..MaxRevision
        OBVIOUS
    <2>2. [c \in Cell |-> 1] \in [Cell -> 1..MaxRevision]
        BY <2>1
    <2> QED BY <2>2 DEF Init, State
<1>2. TypeOK
    BY <1>1 DEF Init, TypeOK
<1>3. CallInv
    BY DEF Init, NoCall, CallInv, EvidenceCall, AcceptanceCall
<1>4. CustodyHolds /\ MemoryInv
    BY DEF Init, CustodyHolds, MemoryInv, Agrees, Remembers
<1> QED BY <1>2, <1>3, <1>4 DEF IInv

LEMMA Inductive == IInv /\ [Next]_vars => IInv'
<1> SUFFICES ASSUME IInv, [Next]_vars PROVE IInv'
    OBVIOUS
<1>1. CASE Execute
    BY <1>1, BytesKeep, ReturnKeeps, AppendKeeps, CheckpointKeeps DEF Execute
<1>2. CASE Crash
    BY <1>2, CrashKeeps
<1>3. ASSUME NEW c \in Cell, Revise(c) \/ Verify(c) \/ Resolve(c) PROVE IInv'
    BY <1>3, OperationsKeep
<1>4. CASE (\E x \in Raw : Retain(x)) \/ (\E r \in Evidence : RecordEvidence(r))
             \/ \E q \in Request : EvaluateAcceptance(q)
    BY <1>4, BeginKeeps
<1>5. ASSUME NEW t \in Tree, CaptureTree(t) PROVE IInv'
    BY <1>5, CaptureKeeps
<1>6. CASE UNCHANGED vars
    BY <1>6 DEF vars, log, store, IInv, TypeOK, CallInv, EvidenceCall, AcceptanceCall, Cited,
                CustodyHolds, Retrievable, Intact, MemoryInv, Agrees, Remembers
<1> QED BY <1>1, <1>2, <1>3, <1>4, <1>5, <1>6 DEF Next

LEMMA AlwaysIInv == Spec => []IInv
BY Initial, Inductive, PTL DEF Spec

(* The memory, the checkpoint and the ledger hold records of their kinds.     *)
THEOREM TypeCorrect == Spec => []TypeOK
<1>1. IInv => TypeOK
    BY DEF IInv
<1> QED BY <1>1, AlwaysIInv, PTL

(* Whatever the ledger's evidence and acceptances cite can be read, after any *)
(* crash (record_evidence, put_bytes, SnapshotStore.capture).                 *)
THEOREM CustodyCorrect == Spec => []CustodyHolds
<1>1. IInv => CustodyHolds
    BY DEF IInv
<1> QED BY <1>1, AlwaysIInv, PTL

(* The memory never answers with what the ledger does not have, but for what  *)
(* the ledger refused after a crash (_append, open).                          *)
THEOREM MemoryCorrect == Spec => []MemoryIsLedgers
<1>1. ASSUME IInv PROVE MemoryIsLedgers
    <2>1. disowned # {} => faults > 0
        BY <1>1 DEF IInv, TypeOK, MemoryInv
    <2>2. ASSUME NEW x \in (mem.evidence \X {"evidence.recorded"})
                              \cup (mem.acceptance \X {"acceptance.evaluated"})
          PROVE  KeyOf(x[1], x[2]) \in disowned
                   \/ [key |-> KeyOf(x[1], x[2]), body |-> x[1]] \in events
        <3>1. \/ x[1] \in mem.evidence /\ x[2] = "evidence.recorded"
              \/ x[1] \in mem.acceptance /\ x[2] = "acceptance.evaluated"
            BY <2>2
        <3> QED BY <1>1, <3>1 DEF IInv, MemoryInv, Agrees
    <2> QED BY <2>1, <2>2 DEF MemoryIsLedgers
<1> QED BY <1>1, AlwaysIInv, PTL

\* The steps that append no event, but for those on the graph.
BeginsOrEnds ==
    \/ \E x \in Raw : Retain(x)
    \/ \E t \in Tree : CaptureTree(t)
    \/ \E r \in Evidence : RecordEvidence(r)
    \/ \E q \in Request : EvaluateAcceptance(q)
    \/ Crash \/ PutBytes \/ WriteBytes \/ ReturnRaw \/ AppendCheckpoint

(* What is written as accepted is accepted at that moment: no claim blocks,   *)
(* and the evidence named is of the current revisions (evaluate, _qualifies). *)
THEOREM GreenCorrect == Spec => GreenOnCurrentEvidence
<1> DEFINE Current(e) ==
        /\ mem.blocking = {}
        /\ \A id \in e.body.qualifying : \E r \in mem.evidence :
              /\ r.id = id /\ r.rev = mem.rev[r.cell] /\ r.findings = {}
              /\ r.specification = Specification
              /\ \E o \in UNION {p.obligations : p \in Request} :
                    /\ o.id \in e.body.satisfied \cap r.obligations
                    /\ o.scope = r.scope
                    /\ o.independent => r.producer \notin r.subjects
           Green == \A e \in events' \ events, q \in Request :
                       e.key = <<"acceptance.evaluated", q.id>> /\ e.body.accepted => Current(e)
<1>1. ASSUME IInv, [Next]_vars PROVE Green
    <2> SUFFICES ASSUME NEW e \in events' \ events, NEW q \in Request,
                        e.key = <<"acceptance.evaluated", q.id>>, e.body.accepted
                 PROVE  Current(e)
        BY Zenon DEF Green
    <2>1. AppendEvent
        <3>1. events' # events
            OBVIOUS
        <3>2. ~(\E c \in Cell : Revise(c) \/ Verify(c) \/ Resolve(c))
            BY <3>1 DEF Revise, Verify, Resolve, Graph
        <3>3. ~BeginsOrEnds
            BY <3>1 DEF BeginsOrEnds, Retain, RecordEvidence, EvaluateAcceptance, CaptureTree,
                        Crash, PutBytes, WriteBytes, ReturnRaw, AppendCheckpoint, log
        <3> QED BY <1>1, <3>1, <3>2, <3>3 DEF Next, Execute, BeginsOrEnds, vars, log
    <2>2. e = Row
        BY <2>1 DEF AppendEvent
    <2>3. call.key = e.key /\ call.body = e.body /\ pc = "record"
        BY <2>1, <2>2 DEF Row, AppendEvent
    <2>4. call.kind = "acceptance"
        <3>1. call.kind \in {"evidence", "acceptance"}
            BY <1>1, <2>1 DEF AppendEvent, IInv, CallInv
        <3>2. call.kind # "evidence"
            BY <1>1, <2>3 DEF IInv, CallInv, EvidenceCall, KeyOf
        <3> QED BY <3>1, <3>2
    <2>5. PICK p \in Request : e.body = Evaluate(mem, p)
        BY <1>1, <2>3, <2>4 DEF IInv, CallInv, AcceptanceCall
    <2> DEFINE matches(o) == {r \in mem.evidence : Qualifies(r, o, mem.rev)}
               met == {o \in p.obligations : Cardinality(matches(o)) >= o.minimum}
    <2>6. /\ e.body.accepted = (met = p.obligations /\ mem.blocking \cup p.findings = {})
          /\ e.body.satisfied = Ids(met)
          /\ e.body.qualifying = Ids(UNION {matches(o) : o \in met})
        <3> DEFINE green == met = p.obligations /\ mem.blocking \cup p.findings = {}
                   sat == Ids(met)
                   all == Ids(UNION {matches(o) : o \in met})
        <3>1. Evaluate(mem, p) =
                [id |-> p.id, accepted |-> green, satisfied |-> sat,
                 unsatisfied |-> Ids(p.obligations \ met), qualifying |-> all,
                 unresolved |-> mem.blocking \cup p.findings]
            BY DEF Evaluate
        <3>2. e.body.accepted = green /\ e.body.satisfied = sat /\ e.body.qualifying = all
            <4> HIDE DEF green, sat, all, met
            <4> QED BY <2>5, <3>1
        <3> QED BY <3>2
    <2>7. mem.blocking = {}
        BY <2>6
    <2>8. ASSUME NEW id \in e.body.qualifying
          PROVE  \E r \in mem.evidence :
                    /\ r.id = id /\ r.rev = mem.rev[r.cell] /\ r.findings = {}
                    /\ r.specification = Specification
                    /\ \E o \in UNION {k.obligations : k \in Request} :
                          /\ o.id \in e.body.satisfied \cap r.obligations
                          /\ o.scope = r.scope
                          /\ o.independent => r.producer \notin r.subjects
        <3>1. PICK r \in UNION {matches(o) : o \in met} : r.id = id
            <4> HIDE DEF met, matches
            <4>1. id \in Ids(UNION {matches(o) : o \in met})
                BY ONLY <2>6, id \in e.body.qualifying
            <4> QED BY ONLY <4>1 DEF Ids
        <3>2. PICK o \in met : r \in matches(o)
            <4> HIDE DEF met, matches
            <4> QED BY ONLY r \in UNION {matches(o) : o \in met}
        <3>3. r \in mem.evidence /\ Qualifies(r, o, mem.rev)
            BY <3>2
        <3>4. o \in UNION {k.obligations : k \in Request}
            BY o \in met
        <3>5. o.id \in e.body.satisfied
            <4>1. o.id \in Ids(met)
                BY o \in met DEF Ids
            <4> QED BY ONLY <4>1, <2>6
        <3> QED BY <3>1, <3>3, <3>4, <3>5 DEF Qualifies
    <2> QED BY <2>7, <2>8
<1>2. Spec => [][Green]_vars
    <2>1. IInv /\ [Next]_vars => [Green]_vars
        BY <1>1
    <2> HIDE DEF Green
    <2> QED BY <2>1, AlwaysIInv, PTL DEF Spec
<1> QED BY <1>2 DEF GreenOnCurrentEvidence
=============================================================================

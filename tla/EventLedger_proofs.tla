------------------------- MODULE EventLedger_proofs -------------------------
(* Theorems about EventLedger, for any number of processes, calls and       *)
(* deaths, and that it implements IdempotentLog.                            *)
EXTENDS EventLedger, TLAPS

USE ProcessAssumption, BoundAssumption

(* Who may be where.  The lock separates the writer from everybody else, so *)
(* what a writer has read is still the file when it writes, and the one     *)
(* line in progress is its own.                                             *)
LockInv ==
    /\ exclusive # NoProcess => shared = {}
    /\ \A p \in Process :
        /\ pc[p] \in {"idle", "lock"} => exclusive # p /\ p \notin shared
        /\ pc[p] = "lock" => call[p] \in {"append", "verify", "quarantine"}
        /\ pc[p] \in {"read", "unlock"} =>
              IF call[p] = "verify" THEN p \in shared ELSE exclusive = p
        /\ pc[p] = "read" => call[p] \in {"append", "verify", "quarantine"}
        /\ pc[p] \in {"write", "writing", "copied"} => exclusive = p
        /\ pc[p] \in {"write", "writing"} => call[p] = "append"
        /\ pc[p] = "copied" => call[p] = "quarantine"
        /\ pc[p] # "idle" /\ call[p] = "append" => request[p] \in Request
        /\ pc[p] = "idle" \/ call[p] # "append" => request[p] = NoRequest

FileInv ==
    /\ \A i \in DOMAIN lines : lines[i].seq = i
    /\ \A i, j \in DOMAIN lines : lines[i].id = lines[j].id => i = j
    /\ tail # "malformed"
    /\ \A p \in Process :
        /\ pc[p] \in {"write", "writing"} =>
              /\ seen[p] = lines
              /\ \A i \in DOMAIN lines : lines[i].id # request[p].id
        /\ pc[p] = "write" => tail = "clean"
        /\ pc[p] = "writing" => tail = "partial"

Inv == TypeOK /\ LockInv

(* The types hold of the empty ledger.                                      *)
LEMMA InitTypeOK == Init => TypeOK
<1> SUFFICES ASSUME Init PROVE TypeOK
  OBVIOUS
<1>1. lines \in Seq(Record) /\ seen \in [Process -> Seq(Record)]
  BY DEF Init
<1>2. /\ tail \in {"clean", "partial", "malformed"} /\ saved \in BOOLEAN
      /\ exclusive \in Process \cup {NoProcess} /\ shared \subseteq Process
  BY DEF Init
<1>3. calls \in 0..MaxCalls /\ crashes \in 0..MaxCrashes
  BY DEF Init
<1>4. /\ pc \in [Process -> {"idle", "lock", "read", "write", "writing", "copied", "unlock"}]
      /\ call \in [Process -> {"none", "append", "verify", "quarantine"}]
      /\ request \in [Process -> Request \cup {NoRequest}]
      /\ answer \in [Process -> Answer]
  BY DEF Init, Answer
<1>5. QED
  BY <1>1, <1>2, <1>3, <1>4 DEF TypeOK

(* The variables keep their types, and the lock is held by those, and only  *)
(* those, that are past flock in a call.                                    *)
THEOREM LockCorrect == Spec => []Inv
<1> USE DEF Inv, LockInv, TypeOK, Answer, Goto, Answered, file, locks
<1>1. Init => Inv
  <2>1. Init => TypeOK
    BY ONLY InitTypeOK
  <2>2. Init => LockInv
    BY DEF Init
  <2>3. QED
    BY <2>1, <2>2
<1>2. Inv /\ [Next]_vars => Inv'
  <2> SUFFICES ASSUME Inv, [Next]_vars PROVE Inv'
    OBVIOUS
  <2>1. ASSUME NEW p \in Process, NEW method \in {"append", "verify", "quarantine"},
               NEW r \in Request \cup {NoRequest}, Enter(p, method, r),
               IF method = "append" THEN r \in Request ELSE r = NoRequest
        PROVE  Inv'
    <3>1. TypeOK'
      BY <2>1 DEF Enter
    <3>2. LockInv'
      BY <2>1 DEF Enter
    <3>3. QED
      BY <3>1, <3>2
  <2>2. ASSUME NEW p \in Process, CallAppend(p) \/ CallVerify(p) \/ CallQuarantine(p)
        PROVE  Inv'
    BY <2>1, <2>2 DEF CallAppend, CallVerify, CallQuarantine
  <2>3. ASSUME NEW p \in Process, Lock(p) PROVE Inv'
    BY <2>3 DEF Lock
  <2>4. ASSUME NEW p \in Process, ReadFails(p) PROVE Inv'
    BY <2>4 DEF ReadFails
  <2>5. ASSUME NEW p \in Process, VerifyRead(p) PROVE Inv'
    BY <2>5 DEF VerifyRead
  <2>6. ASSUME NEW p \in Process, AppendRead(p) PROVE Inv'
    <3>1. seen' \in [Process -> Seq(Record)]
      BY <2>6 DEF AppendRead
    <3>2. CASE Goto(p, "write") /\ UNCHANGED answer
      BY <2>6, <3>1, <3>2 DEF AppendRead
    <3>3. CASE /\ Goto(p, "unlock")
               /\ Answered(p, "accepted") \/ Answered(p, "refused")
      BY <2>6, <3>1, <3>3 DEF AppendRead
    <3>4. QED
      BY <2>6, <3>2, <3>3 DEF AppendRead
  <2>7. ASSUME NEW p \in Process, StartWrite(p) PROVE Inv'
    BY <2>7 DEF StartWrite
  <2>8. ASSUME NEW p \in Process, FinishWrite(p) PROVE Inv'
    <3>1. request[p] \in Request
      BY <2>8 DEF FinishWrite
    <3>2. [seq |-> Len(seen[p]) + 1, id |-> request[p].id,
           content |-> request[p].content] \in Record
      BY <3>1 DEF Record, Request
    <3>3. lines \in Seq(Record)
      OBVIOUS
    <3>4. lines' \in Seq(Record) /\ tail' \in {"clean", "partial", "malformed"}
      <4>1. CASE tail = "partial"
        <5>1. lines' = Append(lines, [seq |-> Len(seen[p]) + 1, id |-> request[p].id,
                                      content |-> request[p].content])
          BY <2>8, <4>1 DEF FinishWrite
        <5>2. tail' = "clean"
          BY <2>8, <4>1 DEF FinishWrite
        <5>3. QED
          BY ONLY <5>1, <5>2, <3>2, <3>3
      <4>2. CASE tail # "partial"
        BY <2>8, <3>3, <4>2 DEF FinishWrite
      <4>3. QED
        BY <4>1, <4>2
    <3>5. QED
      BY <2>8, <3>4 DEF FinishWrite
  <2>9. ASSUME NEW p \in Process, QuarantineCopy(p) PROVE Inv'
    <3>1. TypeOK'
      BY <2>9 DEF QuarantineCopy
    <3>2. pc[p] = "read" /\ call[p] = "quarantine" /\ UNCHANGED <<exclusive, shared, call, request>>
      BY <2>9 DEF QuarantineCopy
    <3>3. pc' = [pc EXCEPT ![p] = "copied"] \/ pc' = [pc EXCEPT ![p] = "unlock"]
      BY <2>9 DEF QuarantineCopy
    <3>4. LockInv'
      BY <3>2, <3>3
    <3>5. QED
      BY <3>1, <3>4
  <2>10. ASSUME NEW p \in Process, QuarantineTruncate(p) PROVE Inv'
    BY <2>10 DEF QuarantineTruncate
  <2>11. ASSUME NEW p \in Process, Unlock(p) PROVE Inv'
    BY <2>11 DEF Unlock, Release
  <2>12. ASSUME NEW p \in Process, Die(p) PROVE Inv'
    BY <2>12 DEF Die, Release
  <2>13. CASE UNCHANGED vars
    BY <2>13 DEF vars
  <2>14. QED
    BY ONLY <2>2, <2>3, <2>4, <2>5, <2>6, <2>7, <2>8, <2>9, <2>10, <2>11,
            <2>12, <2>13, [Next]_vars, Zenon DEF Next, Step
<1>3. QED
  BY <1>1, <1>2, PTL DEF Spec

-----------------------------------------------------------------------------
(* Under the lock, what a writer has read is still what the file holds, so  *)
(* every step keeps the order.                                              *)
LEMMA FileInvStep == Inv /\ Inv' /\ FileInv /\ [Next]_vars => FileInv'
<1> SUFFICES ASSUME Inv, Inv', FileInv, [Next]_vars PROVE FileInv'
  OBVIOUS
<1> USE DEF Inv, LockInv, FileInv, TypeOK, Goto, Answered, file, locks
\* Steps that leave the file alone and put nobody where it could write.
<1>1. ASSUME UNCHANGED <<file, seen, request>>,
             \A q \in Process : pc'[q] \in {"write", "writing"} => pc'[q] = pc[q]
      PROVE  FileInv'
  BY <1>1
<1>2. ASSUME NEW p \in Process, CallAppend(p) \/ CallVerify(p) \/ CallQuarantine(p)
      PROVE  FileInv'
  <2>1. ASSUME NEW method, NEW r, Enter(p, method, r) PROVE FileInv'
    BY <2>1 DEF Enter
  <2>2. QED
    BY <1>2, <2>1 DEF CallAppend, CallVerify, CallQuarantine
<1>3. ASSUME NEW p \in Process, Lock(p) PROVE FileInv'
  BY <1>1, <1>3 DEF Lock
<1>4. ASSUME NEW p \in Process, ReadFails(p) PROVE FileInv'
  BY <1>1, <1>4 DEF ReadFails
<1>5. ASSUME NEW p \in Process, VerifyRead(p) PROVE FileInv'
  BY <1>5 DEF VerifyRead
<1>6. ASSUME NEW p \in Process, AppendRead(p) PROVE FileInv'
  <2>1. \A q \in Process : q # p => pc[q] \notin {"write", "writing"} /\ pc'[q] = pc[q]
    BY <1>6 DEF AppendRead
  <2>2. UNCHANGED <<lines, tail, request>> /\ tail = "clean" /\ seen'[p] = lines
    BY <1>6 DEF AppendRead, Readable
  <2>3. \/ pc'[p] = "unlock"
        \/ pc'[p] = "write" /\ \A i \in DOMAIN lines : lines[i].id # request[p].id
    BY <1>6 DEF AppendRead
  <2>4. QED
    BY <2>1, <2>2, <2>3
<1>7. ASSUME NEW p \in Process, StartWrite(p) PROVE FileInv'
  BY <1>7 DEF StartWrite
<1>8. ASSUME NEW p \in Process, FinishWrite(p) PROVE FileInv'
  <2>1. /\ \A q \in Process : q # p => pc[q] \notin {"write", "writing"} /\ pc'[q] = pc[q]
        /\ pc'[p] = "unlock"
    BY <1>8 DEF FinishWrite
  <2>2. /\ lines' = Append(lines, [seq |-> Len(lines) + 1, id |-> request[p].id,
                                   content |-> request[p].content])
        /\ tail' = "clean"
        /\ \A i \in DOMAIN lines : lines[i].id # request[p].id
    BY <1>8 DEF FinishWrite
  <2>3. /\ \A i \in DOMAIN lines' : lines'[i].seq = i
        /\ \A i, j \in DOMAIN lines' : lines'[i].id = lines'[j].id => i = j
    <3>1. lines \in Seq(Record) /\ Len(lines) \in Nat
      OBVIOUS
    <3>2. /\ DOMAIN lines = 1..Len(lines) /\ DOMAIN lines' = 1..(Len(lines) + 1)
          /\ \A i \in 1..Len(lines) : lines'[i] = lines[i]
      BY ONLY <2>2, <3>1
    <3>3. /\ lines'[Len(lines) + 1].seq = Len(lines) + 1
          /\ lines'[Len(lines) + 1].id = request[p].id
      BY ONLY <2>2, <3>1
    <3>4. \A i \in DOMAIN lines' : i \in DOMAIN lines \/ i = Len(lines) + 1
      BY ONLY <3>1, <3>2
    <3>5. /\ \A i \in DOMAIN lines : lines[i].seq = i
          /\ \A i, j \in DOMAIN lines : lines[i].id = lines[j].id => i = j
      OBVIOUS
    <3>6. QED
      BY ONLY <2>2, <3>1, <3>2, <3>3, <3>4, <3>5
  <2>4. QED
    BY <2>1, <2>2, <2>3
<1>9. ASSUME NEW p \in Process, QuarantineCopy(p) PROVE FileInv'
  BY <1>1, <1>9 DEF QuarantineCopy
<1>10. ASSUME NEW p \in Process, QuarantineTruncate(p) PROVE FileInv'
  BY <1>10 DEF QuarantineTruncate
<1>11. ASSUME NEW p \in Process, Unlock(p) \/ Die(p) PROVE FileInv'
  BY <1>11 DEF Unlock, Die, Release
<1>12. CASE UNCHANGED vars
  BY <1>1, <1>12 DEF vars
<1>13. QED
  BY ONLY <1>2, <1>3, <1>4, <1>5, <1>6, <1>7, <1>8, <1>9, <1>10, <1>11, <1>12,
          [Next]_vars, Zenon DEF Next, Step

LEMMA FileCorrect == Spec => []FileInv
<1>1. Init => FileInv
  BY DEF Init, FileInv
<1>2. QED
  BY <1>1, LockCorrect, FileInvStep, PTL DEF Spec

(* One valid total order whatever interleaves and whoever dies, for any     *)
(* number of processes, calls and deaths.                                   *)
THEOREM OneValidOrderCorrect == Spec => []OneValidOrder
<1>1. FileInv => OneValidOrder
  BY DEF FileInv, OneValidOrder
<1>2. QED
  BY <1>1, FileCorrect, PTL

-----------------------------------------------------------------------------
(* A partial line is being written by the holder of the lock or was left by *)
(* the dead; a copy that a quarantine is about to act on is of this tail;   *)
(* and what a finished append answers is what the file says.                *)
TailInv ==
    /\ tail = "partial" => crashes > 0 \/ \E p \in Process : pc[p] = "writing"
    /\ \A p \in Process : pc[p] = "copied" => saved /\ tail = "partial"

Holds(s, r)  == \E i \in DOMAIN s : s[i].id = r.id /\ s[i].content = r.content
Taken(s, id) == \E i \in DOMAIN s : s[i].id = id

AnswerInv ==
    \A p \in Process :
        pc[p] = "unlock" =>
            /\ call[p] = "append" /\ answer[p] = "accepted" => Holds(lines, request[p])
            /\ call[p] = "append" /\ answer[p] = "refused" =>
                  Taken(lines, request[p].id) /\ ~Holds(lines, request[p])
            /\ call[p] # "quarantine" /\ answer[p] = "integrity_error" =>
                  crashes > 0 /\ tail = "partial"

CallInv == Inv /\ FileInv /\ TailInv /\ AnswerInv

\* Nobody but the holder of the exclusive lock touches the file, and it
\* does so from there only.
LEMMA OthersAreOut ==
  ASSUME LockInv, NEW p \in Process, pc[p] \in {"write", "writing", "copied"}
  PROVE  \A q \in Process : q # p => pc[q] \notin {"read", "write", "writing", "copied", "unlock"}
BY DEF LockInv

LEMMA TailInvStep == Inv /\ FileInv /\ TailInv /\ [Next]_vars => TailInv'
<1> SUFFICES ASSUME Inv, FileInv, TailInv, [Next]_vars PROVE TailInv'
  OBVIOUS
<1> USE DEF Inv, LockInv, TypeOK, FileInv, TailInv, Goto, Answered, file, locks
<1>1. ASSUME NEW p \in Process, CallAppend(p) \/ CallVerify(p) \/ CallQuarantine(p)
      PROVE  TailInv'
  <2>1. ASSUME NEW method, NEW r, Enter(p, method, r) PROVE TailInv'
    BY <2>1 DEF Enter
  <2>2. QED
    BY <1>1, <2>1 DEF CallAppend, CallVerify, CallQuarantine
<1>2. ASSUME NEW p \in Process, Lock(p) \/ ReadFails(p) \/ VerifyRead(p) PROVE TailInv'
  BY <1>2 DEF Lock, ReadFails, VerifyRead
<1>3. ASSUME NEW p \in Process, AppendRead(p) PROVE TailInv'
  <2>1. /\ UNCHANGED <<tail, saved, crashes>> /\ pc[p] = "read"
        /\ pc' = [pc EXCEPT ![p] = "write"] \/ pc' = [pc EXCEPT ![p] = "unlock"]
    BY <1>3 DEF AppendRead
  <2>2. QED
    BY <2>1
<1>4. ASSUME NEW p \in Process, StartWrite(p) PROVE TailInv'
  BY <1>4 DEF StartWrite
<1>5. ASSUME NEW p \in Process, FinishWrite(p) PROVE TailInv'
  <2>1. tail' = "clean" /\ UNCHANGED <<saved, crashes>> /\ pc' = [pc EXCEPT ![p] = "unlock"]
    BY <1>5 DEF FinishWrite
  <2>2. \A q \in Process : pc'[q] # "copied"
    BY <1>5, <2>1, OthersAreOut DEF FinishWrite
  <2>3. QED
    BY <2>1, <2>2
<1>6. ASSUME NEW p \in Process, QuarantineCopy(p) PROVE TailInv'
  BY <1>6 DEF QuarantineCopy
<1>7. ASSUME NEW p \in Process, QuarantineTruncate(p) PROVE TailInv'
  BY <1>7, OthersAreOut DEF QuarantineTruncate
<1>8. ASSUME NEW p \in Process, Unlock(p) \/ Die(p) PROVE TailInv'
  BY <1>8 DEF Unlock, Die, Release
<1>9. CASE UNCHANGED vars
  BY <1>9 DEF vars
<1>10. QED
  BY ONLY <1>1, <1>2, <1>3, <1>4, <1>5, <1>6, <1>7, <1>8, <1>9,
          [Next]_vars, Zenon DEF Next, Step

\* Readable only fails over a line somebody died in.
LEMMA UnreadableTail ==
  ASSUME Inv, FileInv, TailInv, NEW p \in Process, ReadFails(p)
  PROVE  crashes > 0 /\ tail = "partial"
<1>1. tail = "partial"
  BY DEF ReadFails, Readable, FileInv, Inv, TypeOK
<1>2. ASSUME NEW q \in Process, pc[q] = "writing" PROVE FALSE
  BY <1>2, OthersAreOut DEF ReadFails, Inv
<1>3. QED
  BY <1>1, <1>2 DEF TailInv

LEMMA AnswerInvStep == CallInv /\ [Next]_vars => AnswerInv'
<1> SUFFICES ASSUME CallInv, [Next]_vars PROVE AnswerInv'
  OBVIOUS
<1> USE DEF CallInv, Inv, LockInv, TypeOK, AnswerInv, Goto, Answered, file, locks
\* Steps that leave the file alone and finish no method.
<1>1. ASSUME UNCHANGED <<file, crashes>>, NEW p \in Process,
             \A q \in Process : q # p => /\ pc'[q] = pc[q] /\ call'[q] = call[q]
                                         /\ answer'[q] = answer[q] /\ request'[q] = request[q],
             pc'[p] # "unlock"
      PROVE  AnswerInv'
  BY ONLY CallInv, <1>1 DEF CallInv, AnswerInv, file
<1>2. ASSUME NEW p \in Process, CallAppend(p) \/ CallVerify(p) \/ CallQuarantine(p)
      PROVE  AnswerInv'
  <2>1. ASSUME NEW method, NEW r, Enter(p, method, r) PROVE AnswerInv'
    BY <1>1, <2>1 DEF Enter
  <2>2. QED
    BY <1>2, <2>1 DEF CallAppend, CallVerify, CallQuarantine
<1>3. ASSUME NEW p \in Process, Lock(p) PROVE AnswerInv'
  BY <1>1, <1>3 DEF Lock
<1>4. ASSUME NEW p \in Process, ReadFails(p) PROVE AnswerInv'
  <2>1. crashes > 0 /\ tail = "partial"
    BY <1>4, UnreadableTail
  <2>2. QED
    BY <1>4, <2>1 DEF ReadFails
<1>5. ASSUME NEW p \in Process, VerifyRead(p) PROVE AnswerInv'
  BY <1>5 DEF VerifyRead
<1>6. ASSUME NEW p \in Process, AppendRead(p) PROVE AnswerInv'
  <2>1. CASE Goto(p, "write")
    BY <1>1, <1>6, <2>1 DEF AppendRead
  <2>2. CASE Goto(p, "unlock")
    <3>1. \A i, j \in DOMAIN lines : lines[i].id = lines[j].id => i = j
      BY DEF FileInv
    <3>2. /\ UNCHANGED <<lines, tail, crashes, call, request>>
          /\ pc' = [pc EXCEPT ![p] = "unlock"] /\ call[p] = "append"
          /\ Taken(lines, request[p].id)
      BY <1>6, <2>2 DEF AppendRead, Taken
    <3>3. \/ answer' = [answer EXCEPT ![p] = "accepted"] /\ Holds(lines, request[p])
          \/ answer' = [answer EXCEPT ![p] = "refused"] /\ ~Holds(lines, request[p])
      <4>1. PICK i \in DOMAIN lines : lines[i].id = request[p].id
        BY <3>2 DEF Taken
      <4>2. \A j \in DOMAIN lines : lines[j].id = request[p].id => j = i
        BY <3>1, <4>1
      <4>3. Holds(lines, request[p]) <=> lines[i].content = request[p].content
        BY ONLY <4>1, <4>2 DEF Holds
      <4>4. IF \A j \in {k \in DOMAIN lines : lines[k].id = request[p].id} :
                     lines[j].content = request[p].content
              THEN Answered(p, "accepted") ELSE Answered(p, "refused")
        BY <1>6, <2>2 DEF AppendRead
      <4>5. QED
        BY <4>1, <4>2, <4>3, <4>4
    <3>4. QED
      BY <3>2, <3>3
  <2>3. QED
    BY <1>6, <2>1, <2>2 DEF AppendRead
<1>7. ASSUME NEW p \in Process, pc[p] \in {"write", "writing", "copied"},
             \A q \in Process : q # p => pc'[q] = pc[q],
             pc'[p] = "unlock" => call'[p] = "quarantine"
      PROVE  AnswerInv'
  BY <1>7, OthersAreOut
<1>8. ASSUME NEW p \in Process, StartWrite(p) PROVE AnswerInv'
  BY <1>7, <1>8 DEF StartWrite
<1>9. ASSUME NEW p \in Process, FinishWrite(p) PROVE AnswerInv'
  <2>1. /\ lines' = Append(lines, [seq |-> Len(lines) + 1, id |-> request[p].id,
                                   content |-> request[p].content])
        /\ request' = request /\ pc[p] = "writing"
    BY <1>9 DEF FinishWrite, FileInv
  <2>2. Len(lines) + 1 \in DOMAIN lines' /\ lines'[Len(lines) + 1].id = request[p].id
           /\ lines'[Len(lines) + 1].content = request[p].content
    BY <2>1
  <2>3. Holds(lines, request[p])'
    BY <2>1, <2>2 DEF Holds
  <2>4. \A q \in Process : q # p => pc[q] # "unlock" /\ pc'[q] = pc[q]
    BY <1>9, OthersAreOut DEF FinishWrite
  <2>5. answer'[p] = "accepted"
    BY <1>9 DEF FinishWrite
  <2>6. QED
    BY ONLY <2>3, <2>4, <2>5 DEF AnswerInv
<1>10. ASSUME NEW p \in Process, QuarantineCopy(p) PROVE AnswerInv'
  BY <1>10 DEF QuarantineCopy
<1>11. ASSUME NEW p \in Process, QuarantineTruncate(p) PROVE AnswerInv'
  BY <1>7, <1>11 DEF QuarantineTruncate
<1>12. ASSUME NEW p \in Process, Unlock(p) PROVE AnswerInv'
  BY <1>1, <1>12 DEF Unlock, Release
<1>13. ASSUME NEW p \in Process, Die(p) PROVE AnswerInv'
  BY <1>13 DEF Die, Release
<1>14. CASE UNCHANGED vars
  BY <1>14 DEF vars
<1>15. QED
  BY ONLY <1>2, <1>3, <1>4, <1>5, <1>6, <1>8, <1>9, <1>10, <1>11, <1>12, <1>13, <1>14,
          [Next]_vars, Zenon DEF Next, Step

LEMMA CallCorrect == Spec => []CallInv
<1>1. Init => TailInv /\ AnswerInv
  BY DEF Init, TailInv, AnswerInv
<1>2. QED
  BY <1>1, LockCorrect, FileCorrect, TailInvStep, AnswerInvStep, PTL DEF Spec, CallInv

(* A call fails over a file it cannot read only if somebody died in a line. *)
THEOREM NoSpuriousIntegrityErrorCorrect == Spec => []NoSpuriousIntegrityError
<1>1. CallInv => NoSpuriousIntegrityError
  BY DEF CallInv, AnswerInv, NoSpuriousIntegrityError
<1>2. QED
  BY <1>1, CallCorrect, PTL

(* Records stay: the file only grows, and a tail is cut off only after it   *)
(* was copied.                                                              *)
THEOREM EarlierRecordsStayCorrect == Spec => EarlierRecordsStay
<1> DEFINE Stays == /\ Len(lines') >= Len(lines) /\ SubSeq(lines', 1, Len(lines)) = lines
                    /\ tail = "partial" /\ tail' = "clean" /\ lines' = lines => saved
<1>1. CallInv /\ Next => Stays
  <2> SUFFICES ASSUME CallInv, Next PROVE Stays
    OBVIOUS
  <2> USE DEF CallInv, Inv, TypeOK
  <2>1. \/ UNCHANGED <<lines, tail>>
        \/ \E p \in Process : StartWrite(p) \/ FinishWrite(p) \/ QuarantineTruncate(p)
    BY Zenon DEF Next, Step, CallAppend, CallVerify, CallQuarantine, Enter, Lock, ReadFails,
        VerifyRead, AppendRead, QuarantineCopy, Unlock, Die, Release, file
  <2>2. lines \in Seq(Record) /\ Len(lines) \in Nat
    OBVIOUS
  <2>3. ASSUME lines' = lines PROVE Len(lines') >= Len(lines) /\ SubSeq(lines', 1, Len(lines)) = lines
    BY ONLY <2>2, <2>3
  <2>4. CASE UNCHANGED <<lines, tail>>
    BY ONLY <2>3, <2>4
  <2>5. ASSUME NEW p \in Process, StartWrite(p) PROVE Stays
    <3>1. lines' = lines /\ tail' # "clean"
      BY <2>5 DEF StartWrite
    <3>2. QED
      BY ONLY <3>1, <2>3
  <2>6. ASSUME NEW p \in Process, QuarantineTruncate(p) PROVE Stays
    <3>1. lines' = lines /\ saved
      BY <2>6 DEF QuarantineTruncate, TailInv
    <3>2. QED
      BY ONLY <3>1, <2>3
  <2>7. ASSUME NEW p \in Process, FinishWrite(p) PROVE Stays
    <3> DEFINE e == [seq |-> Len(seen[p]) + 1, id |-> request[p].id,
                     content |-> request[p].content]
    <3> HIDE DEF e
    <3>1. lines' = Append(lines, e)
      BY <2>7 DEF FinishWrite, FileInv, e
    <3>2. Len(lines') = Len(lines) + 1 /\ lines' # lines
      BY ONLY <2>2, <3>1
    <3>3. SubSeq(lines', 1, Len(lines)) = lines
      BY ONLY <2>2, <3>1
    <3>4. QED
      BY ONLY <2>2, <3>2, <3>3
  <2>8. QED
    BY ONLY <2>1, <2>4, <2>5, <2>6, <2>7, Zenon
<1>2. CallInv /\ UNCHANGED vars => UNCHANGED <<lines, tail>>
  BY DEF vars, file
<1>3. QED
  BY <1>1, CallCorrect, PTL DEF Spec, EarlierRecordsStay

-----------------------------------------------------------------------------
(* The refinement.                                                          *)

LEMMA EntriesSame == lines' = lines => Entries' = Entries
BY DEF Entries

\* What p does shows in its own outcome only.
LEMMA OutcomeOf ==
  ASSUME NEW p \in Process,
         \A q \in Process : q # p => /\ pc'[q] = pc[q] /\ call'[q] = call[q]
                                     /\ answer'[q] = answer[q]
  PROVE  Outcome' = [Outcome EXCEPT ![p] = Outcome'[p]]
<1> DEFINE new == [Outcome EXCEPT ![p] = Outcome'[p]]
<1>1. Outcome' = [q \in Process |-> Outcome'[q]]
  BY DEF Outcome
<1>2. new = [q \in Process |-> IF q = p THEN Outcome'[p] ELSE Outcome[q]]
  BY DEF Outcome
<1>3. \A q \in Process : q # p => Outcome'[q] = Outcome[q]
  BY DEF Outcome
<1> HIDE DEF new
<1>4. Outcome' = new
  BY <1>1, <1>2, <1>3, Zenon
<1>5. QED
  BY <1>4 DEF new

LEMMA StepSimulates ==
  ASSUME CallInv, NEW p \in Process,
         CallAppend(p) \/ CallVerify(p) \/ CallQuarantine(p) \/ Step(p) \/ Die(p)
  PROVE  Log!Next \/ UNCHANGED Log!logVars
<1> USE DEF CallInv, Inv, TypeOK, LockInv, Goto, Answered, file, locks
<1>1. CASE CallAppend(p)
  <2>1. PICK r \in Request : Enter(p, "append", r)
    BY <1>1 DEF CallAppend
  <2>2. request[p] = NoRequest /\ request' = [request EXCEPT ![p] = r]
    BY <2>1 DEF Enter
  <2>3. Outcome' = [Outcome EXCEPT ![p] = "none"]
    BY <2>1 DEF Enter, Outcome
  <2>4. Entries' = Entries
    BY <2>1, EntriesSame DEF Enter
  <2>5. Log!Call(p)
    BY <2>2, <2>3, <2>4 DEF Log!Call, Log!Request, Request
  <2>6. QED
    BY <2>5 DEF Log!Next
<1>2. CASE CallVerify(p) \/ CallQuarantine(p)
  <2>1. PICK m \in {"verify", "quarantine"} : Enter(p, m, NoRequest)
    BY <1>2 DEF CallVerify, CallQuarantine
  <2>2. request' = request
    BY <2>1 DEF Enter
  <2>3. Outcome' = [Outcome EXCEPT ![p] = "none"]
    BY <2>1 DEF Enter, Outcome
  <2>4. Entries' = Entries
    BY <2>1, EntriesSame DEF Enter
  <2>5. Log!Forget(p)
    BY <2>2, <2>3, <2>4 DEF Log!Forget
  <2>6. QED
    BY <2>5 DEF Log!Next
<1>3. CASE \/ Lock(p) \/ ReadFails(p) \/ VerifyRead(p) \/ AppendRead(p)
           \/ StartWrite(p) \/ QuarantineCopy(p) \/ QuarantineTruncate(p)
  <2>1. /\ UNCHANGED <<lines, request, call>> /\ pc[p] # "idle" /\ pc'[p] # "idle"
        /\ \A q \in Process : q # p => pc'[q] = pc[q] /\ answer'[q] = answer[q]
    BY <1>3 DEF Lock, ReadFails, VerifyRead, AppendRead, StartWrite, QuarantineCopy,
                QuarantineTruncate
  <2>2. Outcome' = Outcome
    BY <2>1 DEF Outcome
  <2>3. QED
    BY <2>1, <2>2, EntriesSame DEF Log!logVars
<1>4. CASE FinishWrite(p)
  <2> DEFINE r == [id |-> request[p].id, content |-> request[p].content]
             e == [seq |-> Len(seen[p]) + 1, id |-> request[p].id, content |-> request[p].content]
  <2>1. /\ lines' = Append(lines, e) /\ request' = request
        /\ request[p] \in Request /\ \A i \in DOMAIN lines : lines[i].id # request[p].id
        /\ pc[p] = "writing" /\ pc' = [pc EXCEPT ![p] = "unlock"] /\ call' = call
        /\ answer' = [answer EXCEPT ![p] = "accepted"]
    BY <1>4 DEF FinishWrite, FileInv
  <2>2. Outcome' = Outcome
    BY <2>1 DEF Outcome
  <2>3. request[p] = r /\ request[p] # NoRequest
    BY <2>1, RequestAssumption DEF Request
  <2>4. Entries' = Append(Entries, request[p])
    <3>1. lines \in Seq(Record) /\ Len(lines) \in Nat
      OBVIOUS
    <3> HIDE DEF e
    <3>2. /\ DOMAIN lines = 1..Len(lines) /\ DOMAIN lines' = 1..(Len(lines) + 1)
          /\ \A i \in 1..Len(lines) : lines'[i] = lines[i]
          /\ lines'[Len(lines) + 1] = e
      BY ONLY <2>1, <3>1
    <3>3. Entries \in Seq(Request) /\ Len(Entries) = Len(lines)
      <4>1. \A i \in 1..Len(lines) : lines[i] \in Record
        BY ONLY <3>1
      <4>2. \A i \in 1..Len(lines) : [id |-> lines[i].id, content |-> lines[i].content] \in Request
        BY ONLY <4>1 DEF Record, Request
      <4>3. QED
        BY ONLY <3>1, <3>2, <4>2 DEF Entries
    <3>4. /\ Append(Entries, request[p]) \in Seq(Request)
          /\ Len(Append(Entries, request[p])) = Len(lines) + 1
          /\ \A i \in 1..Len(lines) : Append(Entries, request[p])[i] = Entries[i]
          /\ Append(Entries, request[p])[Len(lines) + 1] = request[p]
      BY ONLY <2>1, <3>1, <3>3
    <3>5. \A i \in 1..(Len(lines) + 1) :
            [id |-> lines'[i].id, content |-> lines'[i].content] = Append(Entries, request[p])[i]
      <4> SUFFICES ASSUME NEW i \in 1..(Len(lines) + 1)
                   PROVE  [id |-> lines'[i].id, content |-> lines'[i].content]
                             = Append(Entries, request[p])[i]
        OBVIOUS
      <4>1. i \in 1..Len(lines) \/ i = Len(lines) + 1
        BY ONLY <3>1, i \in 1..(Len(lines) + 1)
      <4>2. CASE i \in 1..Len(lines)
        BY ONLY <4>2, <3>2, <3>4 DEF Entries
      <4>3. CASE i = Len(lines) + 1
        BY ONLY <4>3, <2>3, <3>2, <3>4 DEF e
      <4>4. QED
        BY ONLY <4>1, <4>2, <4>3
    <3>6. Entries' = [i \in 1..(Len(lines) + 1) |->
                        [id |-> lines'[i].id, content |-> lines'[i].content]]
      BY ONLY <3>2 DEF Entries
    <3>7. QED
      BY ONLY <3>1, <3>4, <3>5, <3>6
  <2>5. ~Log!IdTaken(request[p].id)
    BY <2>1 DEF Log!IdTaken, Entries
  <2>6. Log!Record(p)
    BY <2>1, <2>2, <2>3, <2>4, <2>5 DEF Log!Record
  <2>7. QED
    BY <2>6 DEF Log!Next
<1>5. CASE Unlock(p) \/ Die(p)
  <2>1. /\ lines' = lines /\ call' = call /\ pc[p] # "idle" /\ pc' = [pc EXCEPT ![p] = "idle"]
        /\ request' = [request EXCEPT ![p] = NoRequest]
        /\ \A q \in Process : q # p => answer'[q] = answer[q]
        /\ \/ answer' = answer /\ pc[p] = "unlock"
           \/ answer'[p] = "died"
    BY <1>5 DEF Unlock, Die, Release
  <2>2. Entries' = Entries
    BY <2>1, EntriesSame
  <2>3. Outcome' = [Outcome EXCEPT ![p] = Outcome'[p]]
    BY <2>1, OutcomeOf
  <2>4. CASE call[p] # "append"
    <3>1. request' = request
      BY <2>1, <2>4
    <3>2. Outcome'[p] = "none" /\ Outcome[p] = "none"
      BY <2>1, <2>4 DEF Outcome
    <3>3. Outcome' = Outcome
      <4>1. Outcome = [Outcome EXCEPT ![p] = Outcome[p]]
        BY DEF Outcome
      <4>2. QED
        BY ONLY <2>3, <3>2, <4>1
    <3>4. QED
      BY <2>2, <3>1, <3>3 DEF Log!logVars
  <2>5. CASE call[p] = "append"
    <3> DEFINE a == Outcome'[p]
    <3>1. request[p] \in Request /\ request[p] # NoRequest
      BY <2>1, <2>5, RequestAssumption
    <3>2. a = IF answer'[p] \in {"accepted", "refused"} THEN answer'[p] ELSE "failed"
      BY <2>1, <2>5 DEF Outcome
    <3>3. Log!Recorded(request[p]) <=> Holds(lines, request[p])
      BY <3>1 DEF Log!Recorded, Holds, Entries, Request
    <3>4. Log!IdTaken(request[p].id) <=> Taken(lines, request[p].id)
      BY DEF Log!IdTaken, Taken, Entries
    <3>5. /\ a = "accepted" => Holds(lines, request[p])
          /\ a = "refused" => Taken(lines, request[p].id) /\ ~Holds(lines, request[p])
      BY <2>1, <2>5, <3>2 DEF AnswerInv
    <3> HIDE DEF a
    <3>6. Log!Return(p, a)
      BY <2>1, <2>2, <2>3, <3>1, <3>3, <3>4, <3>5 DEF Log!Return, a
    <3>7. QED
      BY <3>2, <3>6 DEF Log!Next
  <2>6. QED
    BY <2>4, <2>5
<1>6. QED
  BY <1>1, <1>2, <1>3, <1>4, <1>5 DEF Step

(* EventLedger implements the abstract log, for any number of processes,    *)
(* calls and deaths.                                                        *)
THEOREM ImplementsLogCorrect == Spec => ImplementsLog
<1>1. Init => Log!Init
  BY DEF Init, Log!Init, Entries, Outcome
<1>2. CallInv /\ [Next]_vars => [Log!Next]_(Log!logVars)
  <2>1. CallInv /\ Next => Log!Next \/ UNCHANGED Log!logVars
    BY StepSimulates DEF Next
  <2>2. UNCHANGED vars => UNCHANGED Log!logVars
    BY DEF vars, file, Log!logVars, Entries, Outcome
  <2>3. QED
    BY <2>1, <2>2
<1>3. QED
  BY <1>1, <1>2, CallCorrect, PTL DEF Spec, ImplementsLog, Log!Spec
=============================================================================

-------------------- MODULE ContractGraph_Promotion_proofs --------------------
(* Theorems about the first decision on a run and the last.                 *)
(*                                                                          *)
(* Promotion, for any number of processes, jobs, snapshots, calls and       *)
(* crashes.  ContractGraph, for any cells, designs, edits, names of the     *)
(* root and decisions of the reviewers.  The two share no variable.         *)
EXTENDS Promotion, ContractGraph, TLAPS

USE NobodyAssumption, CallsAssumption

InCall == Label \ {"idle", "down"}

\* A job somebody knows of has a workspace, so its base never changes again.
JobInv ==
    /\ \A p \in Process :
          /\ pc[p] \in InCall => job[p] \in Job
          /\ job[p] \in Job => job[p] \in workspaces
    /\ \A p \in Process, j \in Job : mem[p][j] # "none" => j \in workspaces
    /\ \A j \in Job : saved[j] # "none" => j \in workspaces

\* The lock belongs to the one process between Lock and Unlock, and what
\* that process compared still holds when it replaces the file.
LockInv ==
    \A p \in Process :
        /\ pc[p] \in {"read", "stage", "replace", "unlock", "refused"} => holder = p
        /\ pc[p] \in {"stage", "replace"} => pointer = base[job[p]]

\* After the replacement, and whenever a flag or the event says so, the work
\* is in the history of the pointer.
LandedInv ==
    /\ \A p \in Process : pc[p] \in {"unlock", "flag", "event"} => job[p] \in landed
    /\ \A p \in Process, j \in Job : mem[p][j] = "promoted" => j \in landed
    /\ \A j \in Job : saved[j] = "promoted" => j \in landed
    /\ \A j \in Job, s \in Snapshot : <<"promoted", j, s>> \in events => j \in landed

Inv == TypeOK /\ JobInv /\ LockInv /\ LandedInv

(* Every step keeps the types.                                              *)
LEMMA StepKeepsTypes ==
    ASSUME TypeOK, JobInv, NEW p \in Process,
           Call(p) \/ Step(p) \/ Crash(p) \/ Open(p)
    PROVE  TypeOK'
<1> USE DEF TypeOK, Label, Status, Key, JobInv, InCall, Goto, Save, jobVars, ledgerVars, boundVars
<1>1. ASSUME NEW j \in Job, Dispatch(p, j)
      PROVE  TypeOK'
  <2>1. /\ mem' \in [Process -> [Job -> Status]] /\ saved' \in [Job -> Status]
        /\ base' \in [Job -> Snapshot] /\ work' \in [Job -> Snapshot]
    BY <1>1 DEF Dispatch
  <2>2. QED
    BY <1>1, <2>1 DEF Dispatch
<1>2. ASSUME NEW j \in Job, Verify(p, j)
      PROVE  TypeOK'
  <2>1. mem' \in [Process -> [Job -> Status]] /\ saved' \in [Job -> Status]
    BY <1>2 DEF Verify
  <2>2. keys' \subseteq Key
    BY <1>2 DEF Verify
  <2>3. QED
    BY <1>2, <2>1, <2>2 DEF Verify
<1>3. ASSUME NEW j \in Job, Promote(p, j)
      PROVE  TypeOK'
  BY <1>3 DEF Promote
<1>4. CASE Lock(p)
  BY <1>4 DEF Lock
<1>5. CASE Compare(p) \/ Stage(p)
  BY <1>5 DEF Compare, Stage
<1>6. CASE Replace(p)
  BY <1>6 DEF Replace
<1>7. CASE Unlock(p)
  BY <1>7 DEF Unlock
<1>8. CASE SetFlag(p)
  <2>1. mem' \in [Process -> [Job -> Status]]
    BY <1>8 DEF SetFlag
  <2>2. QED
    BY <1>8, <2>1 DEF SetFlag
<1>9. CASE AppendPromoted(p)
  <2>1. job[p] \in Job /\ work[job[p]] \in Snapshot
    BY <1>9 DEF AppendPromoted
  <2>2. events' \subseteq {"promoted", "conflict"} \X Job \X Snapshot
    BY <1>9, <2>1 DEF AppendPromoted
  <2>3. QED
    BY <1>9, <2>2 DEF AppendPromoted
<1>10. CASE AppendConflict(p)
  <2>1. job[p] \in Job /\ pointer \in Snapshot
    BY <1>10 DEF AppendConflict
  <2>2. \/ events' = events \cup {<<"conflict", job[p], pointer>>}
        \/ events' = events
    BY <1>10 DEF AppendConflict
  <2>3. events' \subseteq {"promoted", "conflict"} \X Job \X Snapshot
    BY <2>1, <2>2
  <2>4. pc' \in [Process -> Label]
    BY <1>10 DEF AppendConflict
  <2>5. QED
    BY <1>10, <2>3, <2>4 DEF AppendConflict
<1>11. CASE Checkpoint(p)
  <2>1. job[p] \in Job
    BY <1>11 DEF Checkpoint
  <2>2. saved' \in [Job -> Status] /\ keys' \subseteq Key /\ pc' \in [Process -> Label]
    BY <1>11, <2>1 DEF Checkpoint
  <2>3. QED
    BY <1>11, <2>2 DEF Checkpoint
<1>12. CASE Crash(p)
  BY <1>12 DEF Crash
<1>13. CASE Open(p)
  BY <1>13 DEF Open
<1>14. QED
  BY <1>1, <1>2, <1>3, <1>4, <1>5, <1>6, <1>7, <1>8, <1>9, <1>10, <1>11,
     <1>12, <1>13 DEF Call, Step

(* No step loses the workspace of a job that is still in somebody's memory. *)
LEMMA StepKeepsJobs ==
    ASSUME TypeOK, JobInv, NEW p \in Process,
           Call(p) \/ Step(p) \/ Crash(p) \/ Open(p)
    PROVE  JobInv'
<1> USE DEF TypeOK, Label, JobInv, InCall, Goto, Save, jobVars, ledgerVars, boundVars
<1>1. ASSUME NEW j \in Job, Dispatch(p, j)
      PROVE  JobInv'
  BY <1>1 DEF Dispatch
<1>2. ASSUME NEW j \in Job, Verify(p, j)
      PROVE  JobInv'
  BY <1>2 DEF Verify
<1>3. ASSUME NEW j \in Job, Promote(p, j)
      PROVE  JobInv'
  BY <1>3 DEF Promote
<1>4. CASE Lock(p) \/ Compare(p) \/ Stage(p) \/ Replace(p) \/ Unlock(p)
  BY <1>4 DEF Lock, Compare, Stage, Replace, Unlock
<1>5. CASE SetFlag(p)
  BY <1>5 DEF SetFlag
<1>6. CASE AppendPromoted(p) \/ AppendConflict(p)
  BY <1>6 DEF AppendPromoted, AppendConflict
<1>7. CASE Checkpoint(p)
  BY <1>7 DEF Checkpoint
<1>8. CASE Crash(p) \/ Open(p)
  BY <1>8 DEF Crash, Open
<1>9. QED
  BY <1>1, <1>2, <1>3, <1>4, <1>5, <1>6, <1>7, <1>8 DEF Call, Step

(* No step breaks the critical section: only the holder of the lock moves   *)
(* the pointer, and the base it compared with stays what it was.            *)
LEMMA StepKeepsLock ==
    ASSUME TypeOK, JobInv, LockInv, NEW p \in Process,
           Call(p) \/ Step(p) \/ Crash(p) \/ Open(p)
    PROVE  LockInv'
<1> USE DEF TypeOK, Label, JobInv, InCall, LockInv, Goto, Save, jobVars, ledgerVars, boundVars
<1>1. ASSUME NEW j \in Job, Dispatch(p, j)
      PROVE  LockInv'
  <2>1. \A q \in Process : pc[q] \in {"stage", "replace"} => base'[job[q]] = base[job[q]]
    BY <1>1 DEF Dispatch
  <2>2. QED
    BY <1>1, <2>1 DEF Dispatch
<1>2. ASSUME NEW j \in Job, Verify(p, j) \/ Promote(p, j)
      PROVE  LockInv'
  BY <1>2 DEF Verify, Promote
<1>3. CASE Lock(p) \/ Compare(p) \/ Stage(p)
  BY <1>3 DEF Lock, Compare, Stage
<1>4. CASE Replace(p)
  BY <1>4 DEF Replace
<1>5. CASE Unlock(p)
  BY <1>5 DEF Unlock
<1>6. CASE SetFlag(p) \/ AppendPromoted(p) \/ AppendConflict(p) \/ Checkpoint(p)
  <2>1. CASE SetFlag(p) \/ Checkpoint(p)
    BY <2>1 DEF SetFlag, Checkpoint
  <2>2. CASE AppendPromoted(p)
    BY <2>2 DEF AppendPromoted
  <2>3. CASE AppendConflict(p)
    BY <2>3 DEF AppendConflict
  <2>4. QED
    BY <1>6, <2>1, <2>2, <2>3
<1>7. CASE Crash(p) \/ Open(p)
  BY <1>7 DEF Crash, Open
<1>8. QED
  BY <1>1, <1>2, <1>3, <1>4, <1>5, <1>6, <1>7 DEF Call, Step

(* No step lets a flag or the event run ahead of the pointer.               *)
LEMMA StepKeepsLanded ==
    ASSUME TypeOK, JobInv, LandedInv, NEW p \in Process,
           Call(p) \/ Step(p) \/ Crash(p) \/ Open(p)
    PROVE  LandedInv'
<1> USE DEF TypeOK, Label, JobInv, InCall, LandedInv, Goto, Save, jobVars, ledgerVars, boundVars
<1>1. ASSUME NEW j \in Job, Dispatch(p, j) \/ Verify(p, j) \/ Promote(p, j)
      PROVE  LandedInv'
  <2>1. CASE Dispatch(p, j)
    BY <2>1 DEF Dispatch
  <2>2. CASE Verify(p, j)
    BY <2>2 DEF Verify
  <2>3. CASE Promote(p, j)
    BY <2>3 DEF Promote
  <2>4. QED
    BY <1>1, <2>1, <2>2, <2>3
<1>2. CASE Lock(p) \/ Compare(p) \/ Stage(p)
  BY <1>2 DEF Lock, Compare, Stage
<1>3. CASE Replace(p)
  BY <1>3 DEF Replace
<1>4. CASE Unlock(p) \/ SetFlag(p)
  BY <1>4 DEF Unlock, SetFlag
<1>5. CASE AppendPromoted(p)
  BY <1>5 DEF AppendPromoted
<1>6. CASE AppendConflict(p)
  <2>1. \/ events' = events \cup {<<"conflict", job[p], pointer>>}
        \/ events' = events
    BY <1>6 DEF AppendConflict
  <2>2. \A j \in Job, s \in Snapshot :
           <<"promoted", j, s>> \in events' => <<"promoted", j, s>> \in events
    BY <2>1
  <2>3. /\ UNCHANGED <<mem, saved, landed, job>>
        /\ \A q \in Process : pc'[q] \in {"unlock", "flag", "event"} => pc'[q] = pc[q]
    BY <1>6 DEF AppendConflict
  <2>4. QED
    BY <2>2, <2>3
<1>7. CASE Checkpoint(p)
  BY <1>7 DEF Checkpoint
<1>8. CASE Crash(p) \/ Open(p)
  BY <1>8 DEF Crash, Open
<1>9. QED
  BY <1>1, <1>2, <1>3, <1>4, <1>5, <1>6, <1>7, <1>8 DEF Call, Step

(* The invariant holds however the calls of the processes interleave and    *)
(* whoever dies between two steps.                                          *)
THEOREM InvCorrect == Spec => []Inv
<1>1. Init => Inv
  BY DEF Init, Inv, TypeOK, Label, Status, Key, JobInv, InCall, LockInv, LandedInv
<1>2. Inv /\ [Next]_vars => Inv'
  <2>1. Inv /\ Next => Inv'
    BY StepKeepsTypes, StepKeepsJobs, StepKeepsLock, StepKeepsLanded DEF Next, Inv
  <2>2. Inv /\ UNCHANGED vars => Inv'
    BY DEF Inv, TypeOK, JobInv, LockInv, LandedInv, vars, jobVars, ledgerVars, boundVars
  <2>3. QED
    BY <2>1, <2>2
<1>3. QED
  BY <1>1, <1>2, PTL DEF Spec

(* The variables keep their types.                                          *)
THEOREM TypeCorrect == Spec => []TypeOK
<1>1. Inv => TypeOK
  BY DEF Inv
<1>2. QED
  BY <1>1, InvCorrect, PTL

(* Neither the flag that lets a cell close nor the candidate.promoted event *)
(* ever runs ahead of the pointer, through crashes and recoveries.          *)
THEOREM PromotedMeansLandedCorrect == Spec => []PromotedMeansLanded
<1>1. Inv => PromotedMeansLanded
  BY DEF Inv, LandedInv, PromotedMeansLanded
<1>2. QED
  BY <1>1, InvCorrect, PTL

(* No promotion overwrites another one: the pointer only moves from the     *)
(* snapshot the promoted work was made from.                                *)
THEOREM NoLostPromotionCorrect == Spec => NoLostPromotion
<1> DEFINE A == pointer' # pointer =>
                  \E j \in Job : pointer = base[j] /\ pointer' = work[j]
<1>1. Inv /\ [Next]_vars => [A]_vars
  <2> SUFFICES ASSUME Inv, Next, pointer' # pointer
               PROVE  \E j \in Job : pointer = base[j] /\ pointer' = work[j]
    OBVIOUS
  <2>1. PICK p \in Process : Replace(p)
    BY DEF Next, Call, Step, Dispatch, Verify, Promote, Lock, Compare, Stage, Unlock,
           SetFlag, AppendPromoted, AppendConflict, Checkpoint, Crash, Open
  <2>2. job[p] \in Job
    BY <2>1 DEF Inv, TypeOK, JobInv, InCall, Label, Replace
  <2>3. pointer = base[job[p]] /\ pointer' = work[job[p]]
    BY <2>1 DEF Inv, LockInv, Replace
  <2>4. QED
    BY <2>2, <2>3
<1>2. QED
  BY <1>1, InvCorrect, PTL DEF Spec, NoLostPromotion

-----------------------------------------------------------------------------
(* The refinement: the replacement is the register's swap, the failed       *)
(* comparison its rejection, and every other step leaves the register as it *)
(* is, starts a call or ends one.                                           *)

Expected == Arguments(base)
Wanted   == Arguments(work)

(* The arguments of a call are snapshots, and those of the process' job.    *)
LEMMA ArgumentTypes ==
    ASSUME TypeOK
    PROVE  /\ Expected \in [Process -> Snapshot] /\ Wanted \in [Process -> Snapshot]
           /\ \A p \in Process : job[p] \in Job =>
                 Expected[p] = base[job[p]] /\ Wanted[p] = work[job[p]]
<1>1. Unasked \in Snapshot
  BY DEF TypeOK, Unasked
<1>2. QED
  BY <1>1 DEF TypeOK, Expected, Wanted, Arguments

(* One step of the code is one step of the register, or none.               *)
LEMMA StepSimulates ==
    ASSUME Inv, Inv', NEW p \in Process,
           Call(p) \/ Step(p) \/ Crash(p) \/ Open(p)
    PROVE  \/ Register!Next
           \/ UNCHANGED <<pointer, Expected, Wanted, Outcome>>
<1> USE DEF Inv, TypeOK, Goto, jobVars, ledgerVars, boundVars
<1>1. ASSUME NEW j \in Job, Dispatch(p, j)
      PROVE  UNCHANGED <<pointer, Expected, Wanted, Outcome>>
  <2>1. \A q \in Process : job[q] # NoJob => job[q] # j
    BY <1>1 DEF Dispatch, JobInv
  <2>2. UNCHANGED <<pointer, pc, job>>
        /\ \A i \in Job : i # j => base'[i] = base[i] /\ work'[i] = work[i]
    BY <1>1 DEF Dispatch
  <2>3. QED
    BY <2>1, <2>2 DEF Expected, Wanted, Arguments, Outcome
<1>2. ASSUME NEW j \in Job, Verify(p, j)
      PROVE  UNCHANGED <<pointer, Expected, Wanted, Outcome>>
  BY <1>2 DEF Verify, Expected, Wanted, Arguments, Outcome
<1>3. ASSUME NEW j \in Job, Promote(p, j)
      PROVE  Register!Next
  <2>1. /\ Outcome[p] = "none" /\ Outcome' = Outcome /\ UNCHANGED pointer
        /\ job' = [job EXCEPT ![p] = j] /\ UNCHANGED <<base, work>>
    BY <1>3 DEF Promote, Outcome
  <2>2. Expected' = [Expected EXCEPT ![p] = base[j]] /\ Wanted' = [Wanted EXCEPT ![p] = work[j]]
    <3>1. j # NoJob /\ base' = base /\ work' = work
          /\ \A q \in Process : job'[q] = IF q = p THEN j ELSE job[q]
      BY <2>1
    <3>2. Expected' = [Expected EXCEPT ![p] = base[j]]
      BY ONLY <3>1 DEF Expected, Arguments
    <3>3. Wanted' = [Wanted EXCEPT ![p] = work[j]]
      BY ONLY <3>1 DEF Wanted, Arguments
    <3>4. QED
      BY <3>2, <3>3
  <2>3. base[j] \in Snapshot /\ work[j] \in Snapshot
    OBVIOUS
  <2>4. Register!Ask(p)
    BY <2>1, <2>2, <2>3 DEF Register!Ask, Expected, Wanted
  <2>5. QED
    BY <2>4 DEF Register!Next
<1>4. CASE Lock(p) \/ Stage(p) \/ SetFlag(p) \/ Checkpoint(p) \/ Open(p)
  BY <1>4 DEF Lock, Stage, SetFlag, Checkpoint, Open, Expected, Wanted, Arguments, Outcome
<1>5. CASE Compare(p)
  <2>1. UNCHANGED <<pointer, Expected, Wanted>>
    BY <1>5 DEF Compare, Expected, Wanted, Arguments
  <2>2. job[p] \in Job
    BY <1>5 DEF Compare, JobInv, InCall, Label
  <2>3. CASE pointer = base[job[p]]
    BY <1>5, <2>1, <2>3 DEF Compare, Outcome
  <2>4. CASE pointer # base[job[p]]
    <3>1. Outcome[p] = "none" /\ Outcome' = [Outcome EXCEPT ![p] = "stale"]
      BY <1>5, <2>4 DEF Compare, Outcome
    <3>2. pointer # Expected[p]
      BY <2>2, <2>4, ArgumentTypes
    <3>3. Register!Reject(p)
      BY <2>1, <3>1, <3>2 DEF Register!Reject, Expected, Wanted
    <3>4. QED
      BY <3>3 DEF Register!Next
  <2>5. QED
    BY <2>3, <2>4
<1>6. CASE Replace(p)
  <2>1. job[p] \in Job
    BY <1>6 DEF Replace, JobInv, InCall, Label
  <2>2. /\ UNCHANGED <<Expected, Wanted>>
        /\ Outcome[p] = "none" /\ Outcome' = [Outcome EXCEPT ![p] = "swapped"]
    <3>1. UNCHANGED <<base, work, job>> /\ pc[p] = "replace" /\ Goto(p, "unlock")
      BY <1>6 DEF Replace
    <3>2. Outcome[p] = "none" /\ Outcome' = [Outcome EXCEPT ![p] = "swapped"]
      BY <3>1 DEF Outcome
    <3>3. QED
      BY <3>1, <3>2 DEF Expected, Wanted, Arguments
  <2>3. pointer = Expected[p] /\ pointer' = Wanted[p]
    BY <1>6, <2>1, ArgumentTypes DEF Replace, LockInv
  <2>4. Register!Swap(p)
    BY <2>2, <2>3 DEF Register!Swap, Expected, Wanted
  <2>5. QED
    BY <2>4 DEF Register!Next
<1>7. CASE Unlock(p)
  <2>1. UNCHANGED <<pointer, Expected, Wanted>> /\ Outcome' = Outcome
    BY <1>7 DEF Unlock, Expected, Wanted, Arguments, Outcome
  <2>2. QED
    BY <2>1
<1>8. CASE AppendPromoted(p) \/ AppendConflict(p) \/ Crash(p)
  <2>1. /\ UNCHANGED <<pointer, base, work, job>>
        /\ \E l \in {"checkpoint", "idle", "conflicted", "down"} : Goto(p, l)
    BY <1>8 DEF AppendPromoted, AppendConflict, Crash
  <2>2. Outcome' = [Outcome EXCEPT ![p] = "none"]
    BY <2>1 DEF Outcome
  <2>3. UNCHANGED <<pointer, Expected, Wanted>>
    BY <2>1 DEF Expected, Wanted, Arguments
  <2>4. Register!Forget(p)
    BY <2>2, <2>3 DEF Register!Forget, Expected, Wanted
  <2>5. QED
    BY <2>4 DEF Register!Next
<1>9. QED
  BY <1>1, <1>2, <1>3, <1>4, <1>5, <1>6, <1>7, <1>8 DEF Call, Step

(* Promotion implements the compare-and-swap register of CandidateRegister, *)
(* through every interleaving of processes, crashes and repeated calls.     *)
THEOREM ImplementsRegisterCorrect == Spec => ImplementsRegister
<1>1. Init => Register!Init
  <2>1. ASSUME Init PROVE Register!Init
    <3>1. TypeOK
      BY <2>1 DEF Init, TypeOK, Label, Status, Key
    <3>2. pointer \in Snapshot /\ Outcome = [p \in Process |-> "none"]
      BY <2>1 DEF Init, Outcome
    <3>3. QED
      BY <3>1, <3>2, ArgumentTypes DEF Register!Init, Expected, Wanted
  <2>2. QED
    BY <2>1
<1>2. Inv /\ Inv' /\ [Next]_vars => [Register!Next]_(Register!registerVars)
  <2>1. Inv /\ Inv' /\ Next => Register!Next \/ UNCHANGED Register!registerVars
    BY StepSimulates DEF Next, Register!registerVars, Expected, Wanted
  <2>2. UNCHANGED vars => UNCHANGED Register!registerVars
    BY DEF vars, jobVars, Register!registerVars, Arguments, Outcome
  <2>3. QED
    BY <2>1, <2>2
<1>3. QED
  BY <1>1, <1>2, InvCorrect, PTL DEF Spec, ImplementsRegister, Register!Spec

-----------------------------------------------------------------------------
(* ContractGraph.                                                           *)

USE EditsAssumption, NoneAssumption

\* The design is the one that was accepted, and it was valid.
DesignInv ==
    /\ verdict = "accepted" => design \in Design /\ Valid
    /\ root # None => verdict = "accepted"

\* The root has the root composite, and nothing is there without a root.
RootInv ==
    /\ root = None => \A c \in Name : state[c] = "absent"
    /\ root # None => /\ root \in RootName /\ state[root] # "absent"
                      /\ parent[root] = None /\ contract[root] = design.root

\* A cell that has been decomposed, whether its tests were revised since or not.
Split(c) == children[c] # {} \/ c \in emptied

\* Any other cell is a member of the split cell above it, and its composite, if
\* it has one, is its own interior.
KidInv ==
    \A c \in Name :
       /\ Split(c) => state[c] # "absent"
       /\ state[c] = "absent" => parent[c] = None
       /\ state[c] # "absent" /\ c # root =>
            /\ \E p \in Name : parent[c] = p /\ Split(p) /\ c \in Members(p)
            /\ \A k \in Composite : k.id = contract[c] => k.control = c

\* The members of a split cell are there, below it.
DownInv ==
    \A c \in Name : Split(c) =>
       \A m \in Members(c) : state[m] # "absent" /\ parent[m] = c

\* All of the run is below the root: what holds of the root and goes from a
\* cell to its children holds of every cell.
TreeInv ==
    \A S \in SUBSET Name :
       root \in S /\ (\A k \in Name : state[k] # "absent" /\ parent[k] \in S => k \in S)
          => \A c \in Name : state[c] # "absent" => c \in S

GraphInv == CGTypeOK /\ DesignInv /\ RootInv /\ KidInv /\ DownInv /\ TreeInv

(* What the cells of a valid design and the composites are.                 *)
LEMMA Designs ==
    ASSUME design \in Design
    PROVE  /\ design.cells \subseteq CellId /\ design.root \in CompositeId
           /\ design.ports \in [CellId -> [Side -> Seq(Schema)]]
           /\ \A k \in Composite :
                /\ k.id \in CompositeId /\ k.control \in CellId \cup {None}
                /\ k.members \subseteq CellId
                /\ k.connections \subseteq [source : Ref, target : Ref]
                /\ k.inputs \in Seq(Ref) /\ k.outputs \in Seq(Ref)
  BY DEF Design, Whole, Composite

\* The interior a cell's composite is looked up in.
LEMMA InteriorFound ==
    ASSUME NEW c \in Name, design \in Design, WellNamed
    PROVE  /\ ContractOf(c) \in CompositeId \cup {None}
           /\ \A k \in Composite : k.id = ContractOf(c) => k.control = c
<1>1. CASE InteriorOf(c) = {}
  BY <1>1, Designs DEF ContractOf
<1>2. CASE InteriorOf(c) # {}
  <2> DEFINE k == CHOOSE k \in InteriorOf(c) : TRUE
  <2>1. k \in InteriorOf(c)
    BY <1>2
  <2>2. ContractOf(c) = k.id
    BY <1>2 DEF ContractOf
  <2> HIDE DEF k
  <2>3. k \in Composite /\ k.control = c
    BY <2>1 DEF InteriorOf, Interiors
  <2> QED
    BY <2>2, <2>3, Designs DEF WellNamed
<1> QED
  BY <1>1, <1>2

\* What a step that leaves the design alone does to what is made of it.
LEMMA SameDesign ==
    ASSUME design' = design, NEW c
    PROVE  /\ Composite' = Composite /\ Valid' = Valid
           /\ contract'[c] = contract[c] => Members(c)' = Members(c)
<1>1. Composite' = Composite
  BY DEF Composite
<1>2. Valid' = Valid
  BY DEF Valid, WellNamed, ContainmentTerminates, Terminates, InteriorBoundaries, ConnectionsFit,
         Interiors, Composite, MembersInside, InteriorOf, BoundaryAgrees, Resolves, SchemaOf,
         Exposed
<1>3. contract'[c] = contract[c] => Members(c)' = Members(c)
  BY <1>1 DEF Members
<1> QED
  BY <1>1, <1>2, <1>3

LEMMA GraphInit == CGInit => GraphInv
<1> SUFFICES ASSUME CGInit PROVE GraphInv
  OBVIOUS
<1> USE DEF CGInit
<1>1. CGTypeOK /\ DesignInv /\ RootInv /\ KidInv /\ DownInv /\ TreeInv
  BY DEF CGTypeOK, DesignInv, RootInv, KidInv, DownInv, TreeInv, Name, Split
<1> QED
  BY <1>1 DEF GraphInv

\* Once a run has begun, the design is fixed and valid.
LEMMA Fixed ==
    ASSUME GraphInv, NEW c \in Name, state[c] # "absent"
    PROVE  /\ root # None /\ verdict = "accepted" /\ design \in Design /\ Valid
           /\ root \in Name
  BY DEF GraphInv, RootInv, DesignInv, Name

LEMMA TypesStep == GraphInv /\ [CGNext]_CGvars => CGTypeOK'
<1> SUFFICES ASSUME GraphInv, [CGNext]_CGvars PROVE CGTypeOK'
  OBVIOUS
<1> USE DEF CGTypeOK
<1>0. CGTypeOK
  BY DEF GraphInv
<1>1. CASE Edit
  BY <1>0, <1>1 DEF Edit, run
<1>2. CASE Compile
  BY <1>0, <1>2 DEF Compile, run
<1>3. ASSUME NEW c \in RootName, CreateRoot(c) PROVE CGTypeOK'
  <2>1. design.root \in CompositeId
    BY <1>0, <1>3, Designs DEF CreateRoot
  <2> QED
    BY <1>0, <1>3, <2>1 DEF CreateRoot, Name
<1>4. ASSUME NEW c \in Name, PreReview(c) \/ ReviseTests(c) \/ RouteVerifiedIssue(c)
      PROVE  CGTypeOK'
  BY <1>0, <1>4 DEF PreReview, ReviseTests, RouteVerifiedIssue
<1>5. ASSUME NEW c \in Name, NEW share, Decompose(c, share) PROVE CGTypeOK'
  <2>1. design \in Design /\ Valid
    BY <1>5, Fixed DEF Decompose
  <2>2. \A n \in Name : ContractOf(n) \in CompositeId \cup {None}
    BY <2>1, InteriorFound DEF Valid
  <2> DEFINE kids == Members(c)
  <2>3. kids \subseteq Name
    BY <2>1, Designs DEF Members, Name
  <2>4. /\ state' = [n \in Name |-> IF n \in kids THEN "open" ELSE state[n]]
        /\ children' = [children EXCEPT ![c] = kids] /\ emptied' = emptied
        /\ parent' = [n \in Name |-> IF n \in kids THEN c ELSE parent[n]]
        /\ obligations' = [n \in Name |-> IF n \in kids THEN {o \in obligations[c] : share[o] = n}
                                                        ELSE obligations[n]]
        /\ contract' = [n \in Name |-> IF n \in kids THEN ContractOf(n) ELSE contract[n]]
        /\ UNCHANGED <<design, verdict, edits, root>>
    BY <1>5 DEF Decompose
  <2> HIDE DEF kids
  <2> QED
    BY <1>0, <2>2, <2>4, <2>3
<1>6. CASE UNCHANGED CGvars
  BY <1>0, <1>6 DEF CGvars, run
<1> QED
  BY <1>1, <1>2, <1>3, <1>4, <1>5, <1>6 DEF CGNext

\* A step that makes no cell of the run.
LEMMA Beside ==
    ASSUME GraphInv, design' = design, verdict' = verdict, root' = root, parent' = parent,
           contract' = contract,
           \A c \in Name : /\ state'[c] = "absent" <=> state[c] = "absent"
                           /\ Split(c)' <=> Split(c)
    PROVE  DesignInv' /\ RootInv' /\ KidInv' /\ DownInv' /\ TreeInv'
<1>0. DesignInv /\ RootInv /\ KidInv /\ DownInv /\ TreeInv
  BY DEF GraphInv
<1>1. Composite' = Composite /\ Valid' = Valid /\ \A c : Members(c)' = Members(c)
  BY SameDesign
<1>2. DesignInv' /\ RootInv'
  BY <1>0, <1>1 DEF DesignInv, RootInv, Name
<1>3. KidInv'
  <2> SUFFICES ASSUME NEW c \in Name
               PROVE  /\ Split(c)' => state'[c] # "absent"
                      /\ state'[c] = "absent" => parent'[c] = None
                      /\ state'[c] # "absent" /\ c # root =>
                           /\ \E p \in Name : /\ parent'[c] = p /\ Split(p)'
                                              /\ c \in Members(p)'
                           /\ \A k \in Composite : k.id = contract'[c] => k.control = c
    BY <1>1 DEF KidInv
  <2> QED
    BY <1>0, <1>1 DEF KidInv
<1>5. DownInv'
  <2> SUFFICES ASSUME NEW c \in Name, Split(c)', NEW m \in Members(c)'
               PROVE  state'[m] # "absent" /\ parent'[m] = c
    BY DEF DownInv
  <2>1. m \in Members(c) /\ Split(c)
    BY <1>1
  <2>2. state[m] # "absent" /\ parent[m] = c
    BY <1>0, <2>1 DEF DownInv
  <2>3. m \in Name
    <3>1. state[c] # "absent"
      BY <1>0, <2>1 DEF KidInv
    <3> QED
      BY <2>1, <3>1, Fixed, Designs DEF Members, Name
  <2> QED
    BY <2>2, <2>3
<1>4. TreeInv'
  BY <1>0 DEF TreeInv
<1> QED
  BY <1>2, <1>3, <1>4, <1>5

LEMMA RootStep ==
    ASSUME GraphInv, NEW r \in RootName, CreateRoot(r)
    PROVE  DesignInv' /\ RootInv' /\ KidInv' /\ DownInv' /\ TreeInv'
<1>0. CGTypeOK /\ DesignInv /\ RootInv /\ KidInv /\ DownInv
  BY DEF GraphInv
<1>1. /\ verdict = "accepted" /\ root = None /\ root' = r /\ r # None
      /\ state' = [state EXCEPT ![r] = "open"] /\ contract' = [contract EXCEPT ![r] = design.root]
      /\ design' = design /\ verdict' = verdict /\ parent' = parent /\ r \in Name
      /\ \A c : Split(c)' <=> Split(c)
  BY DEF CreateRoot, Name, Split
<1>2. \A c \in Name : state[c] = "absent" /\ parent[c] = None /\ ~Split(c)
  BY <1>0, <1>1 DEF RootInv, KidInv
<1>3. \A c \in Name : /\ state'[c] = IF c = r THEN "open" ELSE "absent"
                      /\ parent'[c] = None /\ ~Split(c)'
  BY <1>0, <1>1, <1>2 DEF CGTypeOK
<1>4. contract'[r] = design'.root
  BY <1>0, <1>1 DEF CGTypeOK
<1>5. DesignInv'
  BY <1>0, <1>1, SameDesign DEF DesignInv
<1>6. RootInv'
  BY <1>1, <1>3, <1>4 DEF RootInv
<1>7. KidInv' /\ DownInv'
  BY <1>1, <1>3 DEF KidInv, DownInv
<1>8. TreeInv'
  BY <1>1, <1>3 DEF TreeInv
<1> QED
  BY <1>5, <1>6, <1>7, <1>8

LEMMA DecomposeStep ==
    ASSUME GraphInv, NEW c \in Name, NEW share, Decompose(c, share)
    PROVE  DesignInv' /\ RootInv' /\ KidInv' /\ DownInv' /\ TreeInv'
<1>0. CGTypeOK /\ DesignInv /\ RootInv /\ KidInv /\ DownInv /\ TreeInv
  BY DEF GraphInv
<1> DEFINE kids == Members(c)
<1>1. /\ state[c] = "children" /\ contract[c] # None
      /\ kids # {} /\ \A k \in kids : state[k] = "absent"
      /\ state' = [n \in Name |-> IF n \in kids THEN "open" ELSE state[n]]
      /\ children' = [children EXCEPT ![c] = kids] /\ emptied' = emptied
      /\ parent' = [n \in Name |-> IF n \in kids THEN c ELSE parent[n]]
      /\ contract' = [n \in Name |-> IF n \in kids THEN ContractOf(n) ELSE contract[n]]
      /\ design' = design /\ verdict' = verdict /\ root' = root
  BY DEF Decompose
<1>2. root # None /\ root \in Name /\ design \in Design /\ Valid
  BY <1>1, Fixed
<1>3. kids \subseteq Name /\ c \notin kids /\ root \notin kids
  BY <1>0, <1>1, <1>2, Designs DEF Members, Name, RootInv
<1>4. Composite' = Composite /\ Valid' = Valid
      /\ \A n \in Name \ kids : Members(n)' = Members(n)
  <2>1. \A n \in Name \ kids : contract'[n] = contract[n]
    BY <1>1
  <2> QED
    BY <1>1, <2>1, SameDesign
<1>5. \A n \in Name : /\ state'[n] = IF n \in kids THEN "open" ELSE state[n]
                      /\ Split(n)' <=> n = c \/ Split(n)
                      /\ parent'[n] = IF n \in kids THEN c ELSE parent[n]
                      /\ contract'[n] = IF n \in kids THEN ContractOf(n) ELSE contract[n]
  <2>1. children \in [Name -> SUBSET Name]
    BY <1>0 DEF CGTypeOK
  <2> QED
    BY <1>1, <2>1 DEF Split
<1> HIDE DEF kids
<1>6. DesignInv' /\ RootInv'
  BY <1>0, <1>1, <1>2, <1>3, <1>4, <1>5 DEF DesignInv, RootInv
<1>7. KidInv'
  <2> SUFFICES ASSUME NEW n \in Name
               PROVE  /\ Split(n)' => state'[n] # "absent"
                      /\ state'[n] = "absent" => parent'[n] = None
                      /\ state'[n] # "absent" /\ n # root =>
                           /\ \E p \in Name : /\ parent'[n] = p /\ Split(p)'
                                              /\ n \in Members(p)'
                           /\ \A k \in Composite : k.id = contract'[n] => k.control = n
    BY <1>1, <1>4 DEF KidInv
  <2>1. CASE n \in kids
    <3>1. state'[n] = "open" /\ parent'[n] = c /\ Split(c)'
      BY <1>3, <1>5, <2>1
    <3>2. n \in Members(c)'
      BY <1>3, <1>4, <2>1 DEF kids
    <3>3. \A k \in Composite : k.id = contract'[n] => k.control = n
      BY <1>2, <1>5, <2>1, InteriorFound DEF Valid
    <3> QED
      BY <3>1, <3>2, <3>3
  <2>2. CASE n \notin kids
    <3>1. /\ state'[n] = "absent" => state[n] = "absent"
          /\ state'[n] # "absent" => state[n] # "absent"
          /\ parent'[n] = parent[n] /\ contract'[n] = contract[n]
          /\ Split(n)' => state'[n] # "absent"
      BY <1>0, <1>1, <1>5, <2>2 DEF KidInv
    <3>2. ASSUME NEW p \in Name, Split(p)
          PROVE  Split(p)' /\ Members(p)' = Members(p)
      <4>1. p \notin kids
        BY <1>0, <1>1, <3>2 DEF KidInv
      <4> QED
        BY <1>4, <1>5, <3>2, <4>1
    <3> QED
      BY <1>0, <3>1, <3>2 DEF KidInv
  <2> QED
    BY <2>1, <2>2
<1>8. DownInv'
  <2> SUFFICES ASSUME NEW n \in Name, Split(n)', NEW m \in Members(n)'
               PROVE  state'[m] # "absent" /\ parent'[m] = n
    BY DEF DownInv
  <2>1. n \notin kids /\ m \in Members(n)
    BY <1>0, <1>1, <1>3, <1>4, <1>5 DEF KidInv
  <2>2. CASE n = c
    BY <1>3, <1>5, <2>1, <2>2 DEF kids
  <2>3. CASE n # c
    <3>1. Split(n)
      BY <1>5, <2>3
    <3>2. state[m] # "absent" /\ parent[m] = n
      BY <1>0, <2>1, <3>1 DEF DownInv
    <3>3. m \in Name
      BY <1>2, <2>1, Designs DEF Members, Name
    <3> QED
      BY <1>1, <1>5, <3>2, <3>3
  <2> QED
    BY <2>2, <2>3
<1>9. TreeInv'
  <2> SUFFICES ASSUME NEW S \in SUBSET Name, root \in S,
                      \A k \in Name : state'[k] # "absent" /\ parent'[k] \in S => k \in S
               PROVE  \A n \in Name : state'[n] # "absent" => n \in S
    BY <1>1 DEF TreeInv
  <2>1. \A k \in Name : state[k] # "absent" /\ parent[k] \in S => k \in S
    <3> SUFFICES ASSUME NEW k \in Name, state[k] # "absent", parent[k] \in S PROVE k \in S
      OBVIOUS
    <3>1. k \notin kids
      BY <1>1
    <3>2. state'[k] # "absent" /\ parent'[k] = parent[k]
      BY <1>5, <3>1
    <3> QED
      BY <3>2
  <2>2. \A n \in Name : state[n] # "absent" => n \in S
    BY <1>0, <2>1 DEF TreeInv
  <2>3. c \in S
    BY <1>1, <2>2
  <2>4. ASSUME NEW n \in Name, state'[n] # "absent" PROVE n \in S
    <3>1. CASE n \in kids
      BY <1>5, <2>3, <2>4, <3>1
    <3>2. CASE n \notin kids
      BY <1>5, <2>2, <2>3, <2>4, <3>2
    <3> QED
      BY <3>1, <3>2
  <2> QED
    BY <2>4
<1> QED
  BY <1>6, <1>7, <1>8, <1>9

LEMMA GraphStep == GraphInv /\ [CGNext]_CGvars => GraphInv'
<1> SUFFICES ASSUME GraphInv, [CGNext]_CGvars PROVE GraphInv'
  OBVIOUS
<1> DEFINE Rest == DesignInv' /\ RootInv' /\ KidInv' /\ DownInv' /\ TreeInv'
<1>0. CGTypeOK /\ DesignInv /\ RootInv
  BY DEF GraphInv
<1>1. ASSUME Edit PROVE Rest
  <2>1. verdict = "draft" /\ verdict' = "draft" /\ root = None /\ root' = None
        /\ state' = state /\ parent' = parent /\ children' = children /\ emptied' = emptied
    BY <1>0, <1>1 DEF Edit, run, DesignInv
  <2>2. \A c \in Name : state[c] = "absent" /\ parent[c] = None /\ ~Split(c) /\ ~Split(c)'
    BY <1>0, <2>1 DEF RootInv, GraphInv, KidInv, Split
  <2>3. DesignInv' /\ RootInv'
    BY <2>1, <2>2 DEF DesignInv, RootInv
  <2>4. KidInv' /\ DownInv' /\ TreeInv'
    BY <2>1, <2>2 DEF KidInv, DownInv, TreeInv
  <2> QED
    BY <2>3, <2>4
<1>2. ASSUME Compile PROVE Rest
  <2>1. /\ verdict = "draft" /\ root = None /\ root' = None
        /\ state' = state /\ parent' = parent /\ design' = design
        /\ children' = children /\ emptied' = emptied
        /\ (verdict' = "accepted" => design \in Design /\ Valid)
    BY <1>0, <1>2 DEF Compile, run, DesignInv
  <2>2. \A c \in Name : state[c] = "absent" /\ parent[c] = None /\ ~Split(c) /\ ~Split(c)'
    BY <1>0, <2>1 DEF RootInv, GraphInv, KidInv, Split
  <2>3. DesignInv' /\ RootInv'
    <3>1. Valid' = Valid
      BY <2>1, SameDesign
    <3> QED
      BY <2>1, <2>2, <3>1 DEF DesignInv, RootInv
  <2>4. KidInv' /\ DownInv' /\ TreeInv'
    BY <2>1, <2>2 DEF KidInv, DownInv, TreeInv
  <2> QED
    BY <2>3, <2>4
<1>3. ASSUME NEW c \in RootName, CreateRoot(c) PROVE Rest
  BY <1>3, RootStep
<1>4. ASSUME NEW c \in Name, PreReview(c) \/ RouteVerifiedIssue(c) PROVE Rest
  <2>1. \A n \in Name : /\ state'[n] = "absent" <=> state[n] = "absent"
                        /\ Split(n)' <=> Split(n)
    BY <1>0, <1>4 DEF PreReview, RouteVerifiedIssue, CGTypeOK, Split
  <2> QED
    BY <1>4, <2>1, Beside DEF PreReview, RouteVerifiedIssue
<1>8. ASSUME NEW c \in Name, ReviseTests(c) PROVE Rest
  <2>1. \A n \in Name : /\ state'[n] = "absent" <=> state[n] = "absent"
                        /\ Split(n)' <=> Split(n)
    BY <1>0, <1>8 DEF ReviseTests, CGTypeOK, Split
  <2> QED
    BY <1>8, <2>1, Beside DEF ReviseTests
<1>5. ASSUME NEW c \in Name, NEW share, Decompose(c, share) PROVE Rest
  BY <1>5, DecomposeStep
<1>6. ASSUME UNCHANGED CGvars PROVE Rest
  BY <1>0, <1>6, Beside DEF CGvars, run, CGTypeOK, Split
<1>7. CGTypeOK'
  BY TypesStep
<1> QED
  BY <1>1, <1>2, <1>3, <1>4, <1>5, <1>6, <1>7, <1>8 DEF CGNext, GraphInv

-----------------------------------------------------------------------------
(* What is above a cell.                                                    *)

LEMMA AboveClosed ==
    ASSUME NEW c \in Name, \A n \in Name : parent[n] \in Name \cup {None}
    PROVE  /\ Above(c) \subseteq Name
           /\ \A y \in Above(c) \cup {c} : parent[y] # None => parent[y] \in Above(c)
<1>1. Above(c) \subseteq Name
  BY DEF Above
<1>2. ASSUME NEW y \in Above(c) \cup {c}, parent[y] # None
      PROVE  parent[y] \in Above(c)
  <2>1. parent[y] \in Name
    BY <1>1, <1>2
  <2> SUFFICES ASSUME NEW S \in SUBSET Name,
                      \A x \in S \cup {c} : parent[x] # None => parent[x] \in S
               PROVE  parent[y] \in S
    BY <2>1 DEF Above
  <2>2. y \in S \cup {c}
    BY DEF Above
  <2> QED
    BY <1>2, <2>2
<1> QED
  BY <1>1, <1>2

LEMMA AboveLeast ==
    ASSUME NEW c \in Name, NEW S \in SUBSET Name,
           \A x \in S \cup {c} : parent[x] # None => parent[x] \in S
    PROVE  Above(c) \subseteq S
  BY DEF Above

\* Each cell above another has a child that is above it or is it.
LEMMA AboveHasKid ==
    ASSUME NEW c \in Name, \A n \in Name : parent[n] \in Name \cup {None}, NEW x \in Above(c)
    PROVE  \E y \in Above(c) \cup {c} : parent[y] = x
<1> DEFINE S == {p \in Name : \E y \in Above(c) \cup {c} : parent[y] = p}
<1>1. S \subseteq Above(c)
  BY AboveClosed
<1>2. \A z \in S \cup {c} : parent[z] # None => parent[z] \in S
  BY <1>1, AboveClosed
<1>3. Above(c) \subseteq S
  <2> HIDE DEF S
  <2>1. S \in SUBSET Name
    BY <1>1, AboveClosed
  <2> QED
    BY <1>2, <2>1, AboveLeast
<1> QED
  BY <1>3

LEMMA AboveParent ==
    ASSUME NEW y \in Name, NEW x \in Name, parent[y] = x,
           \A n \in Name : parent[n] \in Name \cup {None}
    PROVE  Above(x) \cup {x} \subseteq Above(y)
<1>1. x \in Above(y)
  BY AboveClosed
<1>2. \A z \in Above(y) \cup {x} : parent[z] # None => parent[z] \in Above(y)
  BY <1>1, AboveClosed
<1>3. Above(y) \in SUBSET Name
  BY AboveClosed
<1>4. Above(x) \subseteq Above(y)
  BY <1>2, <1>3, AboveLeast
<1> QED
  BY <1>1, <1>4

LEMMA IsInside ==
    ASSUME NEW c, NEW k \in InteriorOf(c), NEW m \in k.members, m \in design.cells
    PROVE  m \in MembersInside(c)
<1> DEFINE I == InteriorOf(c)
<1>1. k \in I
  OBVIOUS
<1> HIDE DEF I
<1>2. m \in UNION {j.members : j \in I}
  BY <1>1
<1> QED
  BY <1>2 DEF MembersInside, I

\* The cells above a cell of the run are split, the root has none above it,
\* and the members a cell other than the root would get are those of its interior.
LEMMA Upwards ==
    ASSUME GraphInv, NEW c \in Name, state[c] # "absent"
    PROVE  /\ \A n \in Name : parent[n] \in Name \cup {None}
           /\ \A x \in Above(c) : x \in Name /\ Split(x) /\ state[x] # "absent"
           /\ Above(root) = {} /\ (c # root => \E p \in Name : parent[c] = p /\ c \in Members(p))
           /\ c # root => c \in design.cells /\ Members(c) \subseteq MembersInside(c)
           /\ \A k \in Members(c) : k \in CellId
<1>0. CGTypeOK /\ RootInv /\ KidInv
  BY DEF GraphInv
<1>1. root # None /\ root \in Name /\ design \in Design /\ Valid
  BY Fixed
<1>2. \A n \in Name : parent[n] \in Name \cup {None}
  BY <1>0 DEF CGTypeOK
<1>3. \A x \in Above(c) : x \in Name /\ Split(x) /\ state[x] # "absent"
  <2> DEFINE S == {x \in Name : Split(x) /\ state[x] # "absent"}
  <2>1. ASSUME NEW x \in S \cup {c}, parent[x] # None PROVE parent[x] \in S
    <3>1. x \in Name /\ state[x] # "absent" /\ x # root
      BY <1>0, <1>1, <2>1 DEF RootInv
    <3> QED
      BY <1>0, <3>1 DEF KidInv
  <2>2. Above(c) \subseteq S
    <3> HIDE DEF S
    <3>1. S \in SUBSET Name
      BY DEF S
    <3> QED
      BY <2>1, <3>1, AboveLeast
  <2> QED
    BY <2>2
<1>4. Above(root) = {}
  <2>1. parent[root] = None
    BY <1>0, <1>1 DEF RootInv
  <2>2. Above(root) \subseteq {}
    <3> DEFINE none == {}
    <3>1. none \in SUBSET Name /\ \A x \in none \cup {root} : parent[x] # None => parent[x] \in none
      BY <2>1
    <3> HIDE DEF none
    <3>2. Above(root) \subseteq none
      BY <1>1, <3>1, AboveLeast
    <3> QED
      BY <3>2 DEF none
  <2> QED
    BY <2>2
<1>5. c # root => \E p \in Name : parent[c] = p /\ c \in Members(p)
  BY <1>0 DEF KidInv
<1>6. \A n \in Name : Members(n) \subseteq design.cells
  BY <1>1 DEF Members, Valid, ConnectionsFit
<1>7. c # root => c \in design.cells /\ Members(c) \subseteq MembersInside(c)
  <2>1. SUFFICES ASSUME c # root PROVE c \in design.cells /\ Members(c) \subseteq MembersInside(c)
    OBVIOUS
  <2>2. c \in design.cells
    BY <1>5, <1>6, <2>1
  <2>3. ASSUME NEW k \in Composite, k.id = contract[c] PROVE k \in InteriorOf(c)
    <3>1. k.control = c
      BY <1>0, <2>1, <2>3 DEF KidInv
    <3> QED
      BY <3>1 DEF InteriorOf, Interiors
  <2>4. \A m \in Members(c) : \E k \in InteriorOf(c) : m \in k.members
    BY <2>3 DEF Members
  <2>5. Members(c) \subseteq MembersInside(c)
    <3>1. ASSUME NEW m \in Members(c) PROVE m \in MembersInside(c)
      <4>1. m \in design.cells
        BY <1>6
      <4>2. PICK k \in InteriorOf(c) : m \in k.members
        BY <2>4
      <4> QED
        BY <4>1, <4>2, IsInside
    <3> QED
      BY <3>1
  <2> QED
    BY <2>2, <2>5
<1>8. \A k \in Members(c) : k \in CellId
  BY <1>1, Designs DEF Members
<1> QED
  BY <1>2, <1>3, <1>4, <1>5, <1>7, <1>8

\* A member that is there already is not the cell itself or one above it.
LEMMA NotAbove ==
    ASSUME GraphInv, NEW c \in Name, state[c] = "children", NEW k \in Members(c),
           state[k] # "absent", k # root
    PROVE  k \notin Above(c) \cup {c}
<1> SUFFICES ASSUME k \in Above(c) \cup {c} PROVE FALSE
  OBVIOUS
<1>1. /\ \A n \in Name : parent[n] \in Name \cup {None}
      /\ \A x \in Above(c) : x \in Name /\ Split(x) /\ state[x] # "absent"
      /\ Above(root) = {} /\ k \in Name
  BY Upwards DEF Name
<1>2. design \in Design /\ Valid /\ root \in Name
  BY Fixed
<1> DEFINE B == Above(c) \cup {c}
           S == {x \in B : k \in Above(x) \cup {x}}
<1>3. \A x \in S : x \in Name /\ state[x] # "absent" /\ x # root
  BY <1>1
<1>4. \A x \in S : x \in design.cells /\ Members(x) \subseteq MembersInside(x)
  BY <1>3, Upwards
<1>5. k \in S
  OBVIOUS
<1> HIDE DEF S
<1>6. PICK x \in S : MembersInside(x) \cap S = {}
  <2>1. S \in SUBSET design.cells /\ S # {}
    BY <1>4, <1>5
  <2>2. \A z \in S : [n \in design.cells |-> MembersInside(n)][z] = MembersInside(z)
    BY <1>4
  <2> QED
    BY <1>2, <2>1, <2>2 DEF Valid, ContainmentTerminates, Terminates
<1>7. CASE x = c
  BY <1>4, <1>5, <1>6, <1>7
<1>8. CASE x # c
  <2>1. x \in Above(c)
    BY <1>8 DEF S
  <2>2. PICK y \in B : parent[y] = x
    BY <1>1, <2>1, AboveHasKid
  <2>3. y \in Name /\ state[y] # "absent" /\ x \in Name
    BY <1>1, <2>1
  <2>4. y # root
    BY <1>2, <2>2, <2>3 DEF GraphInv, RootInv
  <2>5. y \in Members(x)
    BY <2>2, <2>3, <2>4, Upwards
  <2>6. y \in S
    <3>1. Above(x) \cup {x} \subseteq Above(y)
      BY <1>1, <2>2, <2>3, AboveParent
    <3> QED
      BY <3>1 DEF S
  <2> QED
    BY <1>4, <1>6, <2>5, <2>6
<1> QED
  BY <1>7, <1>8

\* The composite of the root is not the interior of a cell of the run.
LEMMA RootIsNoInterior ==
    ASSUME GraphInv, NEW c \in Name, state[c] # "absent", c # root,
           NEW j \in Composite, j.id = design.root, j.control = c
    PROVE  FALSE
<1>1. /\ \A n \in Name : parent[n] \in Name \cup {None}
      /\ \A x \in Above(c) : x \in Name /\ Split(x) /\ state[x] # "absent"
  BY Upwards
<1>2. /\ design \in Design /\ Valid /\ root \in Name /\ root # None
      /\ parent[root] = None /\ contract[root] = design.root
  BY Fixed DEF GraphInv, RootInv
<1> DEFINE B == Above(c) \cup {c}
           S == B \ {root}
<1>3. \A x \in S : x \in Name /\ state[x] # "absent" /\ x # root
  BY <1>1
<1>4. \A x \in S : x \in design.cells /\ Members(x) \subseteq MembersInside(x)
  BY <1>3, Upwards
<1>5. PICK y \in B : parent[y] = root
  <2> SUFFICES ASSUME \A y \in B : parent[y] # root PROVE FALSE
    OBVIOUS
  <2> DEFINE Q == Name \ S
  <2>1. root \in Q
    BY <1>2
  <2>2. ASSUME NEW k \in Name, state[k] # "absent", parent[k] \in Q PROVE k \in Q
    <3> SUFFICES ASSUME k \in S PROVE FALSE
      OBVIOUS
    <3>1. parent[k] \in Above(c)
      BY <1>1, <2>2, AboveClosed
    <3> QED
      BY <2>2, <3>1
  <2>3. Q \in SUBSET Name
    OBVIOUS
  <2>4. c \in S
    OBVIOUS
  <2> HIDE DEF Q, S
  <2>5. \A n \in Name : state[n] # "absent" => n \in Q
    BY <2>1, <2>2, <2>3 DEF GraphInv, TreeInv
  <2> QED
    BY <2>4, <2>5 DEF Q
<1>6. y # root /\ y \in S
  BY <1>2, <1>5
<1>7. y \in MembersInside(c)
  <2>1. y \in Members(root) /\ y \in design.cells
    BY <1>2, <1>3, <1>4, <1>5, <1>6, Upwards
  <2>2. PICK k \in Composite : k.id = design.root /\ y \in k.members
    BY <1>2, <2>1 DEF Members
  <2>3. k = j
    BY <1>2, <2>2 DEF Valid, WellNamed
  <2>4. j \in InteriorOf(c)
    BY DEF InteriorOf, Interiors
  <2> QED
    BY <2>1, <2>2, <2>3, <2>4, IsInside
<1> HIDE DEF S
<1>8. PICK x \in S : MembersInside(x) \cap S = {}
  <2>1. S \in SUBSET design.cells /\ S # {}
    BY <1>4, <1>6
  <2>2. \A z \in S : [n \in design.cells |-> MembersInside(n)][z] = MembersInside(z)
    BY <1>4
  <2> QED
    BY <1>2, <2>1, <2>2 DEF Valid, ContainmentTerminates, Terminates
<1>9. x # c
  BY <1>6, <1>7, <1>8
<1>10. PICK z \in B : parent[z] = x
  <2>1. x \in Above(c)
    BY <1>9 DEF S
  <2> QED
    BY <1>1, <2>1, AboveHasKid
<1>11. z \in S
  BY <1>2, <1>3, <1>10 DEF S
<1>12. z \in Members(x)
  BY <1>3, <1>10, <1>11, Upwards
<1> QED
  BY <1>4, <1>8, <1>11, <1>12

(* Claim READY-CONTRACT-07: whatever the design, however the reviewers       *)
(* decide and whenever tests are revised or an issue is routed, a cell in    *)
(* the way of a decomposition is one that two composites of the design share,*)
(* or has the root's name, or was made by the same composite before its      *)
(* tests were revised.                                                       *)
THEOREM StuckOverSharedMemberCorrect == CGSpec => []StuckOverSharedMember
<1>1. GraphInv => StuckOverSharedMember
  <2> SUFFICES ASSUME GraphInv, NEW c \in Name, state[c] = "children", children[c] = {},
                      NEW k \in Members(c), state[k] # "absent", k # root,
                      ~(parent[k] = c /\ c \in emptied)
               PROVE  /\ k \notin Above(c) \cup {c}
                      /\ \E j \in Composite : j.id # contract[c] /\ k \in j.members
    BY DEF StuckOverSharedMember
  <2>1. k \notin Above(c) \cup {c}
    BY NotAbove
  <2>2. k \in Name /\ root \in Name /\ design \in Design /\ Valid
    BY Upwards, Fixed DEF Name
  <2>3. PICK p \in Name : parent[k] = p /\ Split(p) /\ k \in Members(p)
    BY <2>2 DEF GraphInv, KidInv
  <2>4. PICK j \in Composite : j.id = contract[p] /\ k \in j.members
    BY <2>3 DEF Members
  <2>5. c # p
    BY <2>3 DEF Split
  <2>6. j.id # contract[c]
    <3> SUFFICES ASSUME j.id = contract[c] PROVE FALSE
      OBVIOUS
    <3>1. c # root => j.control = c
      BY DEF GraphInv, KidInv
    <3>2. p # root => j.control = p
      BY <2>3, <2>4 DEF GraphInv, KidInv
    <3>3. contract[root] = design.root
      BY <2>2, Fixed DEF GraphInv, RootInv
    <3>4. state[p] # "absent"
      BY <2>3 DEF GraphInv, KidInv
    <3> QED
      BY <2>3, <2>4, <2>5, <3>1, <3>2, <3>3, <3>4, RootIsNoInterior
  <2> QED
    BY <2>1, <2>4, <2>6
<1> QED
  BY <1>1, GraphInit, GraphStep, PTL DEF CGSpec

-----------------------------------------------------------------------------
(* What takes the place of a port.                                          *)

\* One step down, from a decomposed cell other than the root, keeps the schema.
LEMMA BehindKeepsSchema ==
    ASSUME GraphInv, root # None, NEW side \in Side, NEW r \in Replaced(side), r[1] # root,
           NEW e \in Behind(side, r)
    PROVE  /\ Resolves(side, e) /\ SchemaOf(side, e) = SchemaOf(side, r)
           /\ e[1] # root /\ e \in Ref
<1>1. PICK c \in design.cells : \E i \in DOMAIN design.ports[c][side] :
                                   r = <<c, i>> /\ Decomposed(c)
  BY DEF Replaced
<1>2. PICK i \in DOMAIN design.ports[c][side] : r = <<c, i>> /\ Decomposed(c)
  BY <1>1
<1>3. r[1] = c /\ r[2] = i
  BY <1>2
<1>4. PICK k \in Composite : k.id = contract[c] /\ e = Exposed(k, side)[i]
  BY <1>3 DEF Behind
<1>6. design \in Design /\ Valid
  BY DEF GraphInv, DesignInv, RootInv
<1>5. c \in Name
  BY <1>6, Designs DEF Name
<1>7. k.control = c
  BY <1>3, <1>4, <1>5, <1>2 DEF GraphInv, KidInv, Split, Decomposed
<1>8. /\ k \in Interiors
      /\ Exposed(k, side) \in Seq(Ref) /\ k.members \subseteq CellId
      /\ design.ports[c][side] \in Seq(Schema)
  <2>1. k.control # None
    BY <1>5, <1>7
  <2>2. k.inputs \in Seq(Ref) /\ k.outputs \in Seq(Ref) /\ k.members \subseteq CellId
    BY <1>6, Designs
  <2>3. c \in CellId
    BY <1>6, Designs
  <2> QED
    BY <1>6, <2>1, <2>2, <2>3, Designs DEF Interiors, Exposed
<1>9. \A n \in DOMAIN Exposed(k, side) :
         /\ Exposed(k, side)[n][1] \in k.members /\ Resolves(side, Exposed(k, side)[n])
  BY <1>6 DEF Valid, ConnectionsFit
<1>10. BoundaryAgrees(k, side)
  BY <1>6, <1>8 DEF Valid, InteriorBoundaries
<1>11. /\ Len(Exposed(k, side)) = Len(design.ports[c][side])
       /\ \A n \in DOMAIN Exposed(k, side) :
             SchemaOf(side, Exposed(k, side)[n]) = design.ports[c][side][n]
  BY <1>7, <1>9, <1>10 DEF BoundaryAgrees
<1>12. i \in DOMAIN Exposed(k, side)
  <2>1. DOMAIN Exposed(k, side) = 1..Len(Exposed(k, side))
    BY <1>8
  <2>2. DOMAIN design.ports[c][side] = 1..Len(design.ports[c][side])
    BY <1>8
  <2> QED
    BY <1>11, <2>1, <2>2
<1>13. Resolves(side, e) /\ SchemaOf(side, e) = SchemaOf(side, r) /\ e[1] \in k.members
  BY <1>3, <1>4, <1>9, <1>11, <1>12 DEF SchemaOf
<1>14. e \in Ref
  BY <1>4, <1>8, <1>12
<1>15. e[1] # root
  <2>1. e[1] \in Members(c)
    BY <1>4, <1>13 DEF Members
  <2>2. parent[e[1]] = c
    BY <1>2, <1>5, <2>1 DEF GraphInv, DownInv, Split, Decomposed
  <2>3. root # None => parent[root] = None
    BY DEF GraphInv, RootInv
  <2>4. c # None
    BY <1>5
  <2>5. e[1] \in Name
    BY <1>8, <1>13 DEF Name
  <2> QED
    BY <2>2, <2>3, <2>4, <2>5
<1> QED
  BY <1>13, <1>14, <1>15

LEMMA PortsKeepSchema ==
    ASSUME GraphInv, root # None, NEW side \in Side,
           NEW ref \in Ref, Resolves(side, ref), ref[1] # root,
           NEW e \in Ports(side, ref)
    PROVE  SchemaOf(side, e) = SchemaOf(side, ref)
<1>1. CASE ~Decomposed(ref[1])
  BY <1>1 DEF Ports
<1>2. CASE Decomposed(ref[1])
  <2> DEFINE S == {r \in Replaced(side) :
                      r[1] # root /\ SchemaOf(side, r) = SchemaOf(side, ref)}
  <2>1. ref \in S
    <3>1. ref = <<ref[1], ref[2]>>
      BY DEF Ref
    <3>2. ref[1] \in design.cells /\ ref[2] \in DOMAIN design.ports[ref[1]][side]
      BY DEF Resolves
    <3>3. ref \in {<<ref[1], i>> : i \in DOMAIN design.ports[ref[1]][side]}
      BY <3>1, <3>2
    <3> QED
      BY <1>2, <3>2, <3>3 DEF Replaced
  <2>2. \A q \in S : \A x \in Behind(side, q) :
           SchemaOf(side, x) = SchemaOf(side, ref) /\ x[1] # root
    BY BehindKeepsSchema
  <2>3. \A q \in S : Behind(side, q) \cap Replaced(side) \subseteq S
    BY <2>2
  <2>4. S \in SUBSET Replaced(side)
    OBVIOUS
  <2> HIDE DEF S
  <2>5. Through(side, ref) \subseteq S
    BY <2>1, <2>3, <2>4 DEF Through
  <2>6. PICK q \in Through(side, ref) : e \in Behind(side, q)
    BY <1>2 DEF Ports
  <2> QED
    BY <2>2, <2>5, <2>6
<1> QED
  BY <1>1, <1>2

(* Claim READY-CONTRACT-08: in every run on every design the compiler       *)
(* accepts, however deep it has been decomposed, what a connection brings   *)
(* together at the bottom has one schema.                                   *)
THEOREM ConnectionsHoldToTheBottomCorrect == CGSpec => []ConnectionsHoldToTheBottom
<1>1. GraphInv => ConnectionsHoldToTheBottom
  <2> SUFFICES ASSUME GraphInv, NEW c \in Name, Decomposed(c),
                      NEW k \in Composite, k.id = contract[c], NEW w \in k.connections,
                      NEW s \in Ports("output", w.source), NEW t \in Ports("input", w.target)
               PROVE  SchemaOf("output", s) = SchemaOf("input", t)
    BY DEF ConnectionsHoldToTheBottom
  <2>1. design \in Design /\ Valid /\ root # None
    <3>1. state[c] # "absent"
      BY DEF GraphInv, KidInv, Split, Decomposed
    <3> QED
      BY <3>1, Fixed
  <2>2. w.source \in Ref /\ w.target \in Ref
    BY <2>1, Designs
  <2>3. /\ w.source[1] \in k.members /\ w.target[1] \in k.members
        /\ Resolves("output", w.source) /\ Resolves("input", w.target)
        /\ SchemaOf("output", w.source) = SchemaOf("input", w.target)
    BY <2>1 DEF Valid, ConnectionsFit
  <2>4. \A m \in k.members : m # root
    <3> SUFFICES ASSUME NEW m \in k.members PROVE m # root
      OBVIOUS
    <3>1. m \in Members(c)
      BY DEF Members
    <3>2. parent[m] = c /\ parent[root] = None
      BY <2>1, <3>1 DEF GraphInv, DownInv, RootInv, Split, Decomposed
    <3> QED
      BY <3>2
  <2>5. SchemaOf("output", s) = SchemaOf("output", w.source)
    BY <2>1, <2>2, <2>3, <2>4, PortsKeepSchema DEF Side
  <2>6. SchemaOf("input", t) = SchemaOf("input", w.target)
    BY <2>1, <2>2, <2>3, <2>4, PortsKeepSchema DEF Side
  <2> QED
    BY <2>3, <2>5, <2>6
<1> QED
  BY <1>1, GraphInit, GraphStep, PTL DEF CGSpec

(* The variables keep their types, and what the compiler accepts is a       *)
(* design.                                                                  *)
THEOREM CGTypeCorrect == CGSpec => []CGTypeOK
<1>1. GraphInv => CGTypeOK
  BY DEF GraphInv
<1> QED
  BY <1>1, GraphInit, GraphStep, PTL DEF CGSpec
=============================================================================

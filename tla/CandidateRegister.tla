-------------------------- MODULE CandidateRegister --------------------------
(* What the candidate pointer promises (claim WORK-03), without files,      *)
(* locks or crashes: a register that changes only by compare-and-swap.  A   *)
(* call may fail without effect, and its answer may never be seen.          *)
CONSTANTS Contender, Snapshot

VARIABLES pointer, expected, wanted, answer

registerVars == <<pointer, expected, wanted, answer>>

Init ==
    /\ pointer \in Snapshot
    /\ expected \in [Contender -> Snapshot] /\ wanted \in [Contender -> Snapshot]
    /\ answer = [j \in Contender |-> "none"]

Ask(j) ==
    /\ answer[j] = "none"
    /\ \E e, w \in Snapshot :
         /\ expected' = [expected EXCEPT ![j] = e]
         /\ wanted' = [wanted EXCEPT ![j] = w]
    /\ UNCHANGED <<pointer, answer>>

Swap(j) ==
    /\ answer[j] = "none" /\ pointer = expected[j]
    /\ pointer' = wanted[j]
    /\ answer' = [answer EXCEPT ![j] = "swapped"]
    /\ UNCHANGED <<expected, wanted>>

Reject(j) ==
    /\ answer[j] = "none" /\ pointer # expected[j]
    /\ answer' = [answer EXCEPT ![j] = "stale"]
    /\ UNCHANGED <<pointer, expected, wanted>>

Forget(j) ==
    /\ answer' = [answer EXCEPT ![j] = "none"]
    /\ UNCHANGED <<pointer, expected, wanted>>

Next == \E j \in Contender : Ask(j) \/ Swap(j) \/ Reject(j) \/ Forget(j)

Spec == Init /\ [][Next]_registerVars
=============================================================================

---------------------------- MODULE IdempotentLog ----------------------------
(* What the event ledger promises its callers, without files, locks or      *)
(* crashes: one growing sequence of records, an event id recorded at most   *)
(* once, and an answer that says which of the two happened (claims EVID-01  *)
(* and EVID-02).  A call may also go unanswered, with or without effect.    *)
EXTENDS Sequences, Integers

CONSTANTS Process, EventId, Content, NoRequest

VARIABLES log, request, answer

logVars == <<log, request, answer>>

Request == [id : EventId, content : Content]

Recorded(r)  == \E i \in DOMAIN log : log[i] = r
IdTaken(id)  == \E i \in DOMAIN log : log[i].id = id

Init ==
    /\ log = << >>
    /\ request = [p \in Process |-> NoRequest]
    /\ answer = [p \in Process |-> "none"]

Call(p) ==
    /\ request[p] = NoRequest
    /\ \E r \in Request : request' = [request EXCEPT ![p] = r]
    /\ answer' = [answer EXCEPT ![p] = "none"]
    /\ UNCHANGED log

Record(p) ==
    /\ request[p] # NoRequest /\ ~IdTaken(request[p].id)
    /\ log' = Append(log, request[p])
    /\ UNCHANGED <<request, answer>>

Return(p, a) ==
    /\ request[p] # NoRequest
    /\ a = "accepted" => Recorded(request[p])
    /\ a = "refused"  => IdTaken(request[p].id) /\ ~Recorded(request[p])
    /\ answer' = [answer EXCEPT ![p] = a]
    /\ request' = [request EXCEPT ![p] = NoRequest]
    /\ UNCHANGED log

\* The caller goes on to something else.
Forget(p) ==
    /\ answer' = [answer EXCEPT ![p] = "none"]
    /\ UNCHANGED <<log, request>>

Next ==
    \E p \in Process :
        \/ Call(p) \/ Record(p) \/ Forget(p)
        \/ \E a \in {"accepted", "refused", "failed"} : Return(p, a)

Spec == Init /\ [][Next]_logVars
=============================================================================

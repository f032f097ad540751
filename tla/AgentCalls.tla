----------------------------- MODULE AgentCalls -----------------------------
(***************************************************************************)
(* What the hub promises of a request an agent answers, without queues,    *)
(* channels or locks. A caller asks; the agent takes the request once at   *)
(* most, perhaps after the caller has gone; its response is accepted only  *)
(* for a request it took, and turned away only when the caller is gone;    *)
(* the caller is answered only by an accepted response.                    *)
(***************************************************************************)
CONSTANT Jobs

VARIABLES
    call,       \* "out", "asking", "answered" or "failed"
    taken,      \* requests that left for the agent, delivered or lost
    accepted,   \* requests whose response was taken in
    refused     \* requests whose response was turned away

vars == <<call, taken, accepted, refused>>

Init ==
    /\ call = [j \in Jobs |-> "out"]
    /\ taken = {}
    /\ accepted = {}
    /\ refused = {}

Ask(j) ==
    /\ call[j] = "out"
    /\ call' = [call EXCEPT ![j] = "asking"]
    /\ UNCHANGED <<taken, accepted, refused>>

Take(j) ==
    /\ call[j] # "out"
    /\ j \notin taken
    /\ taken' = taken \cup {j}
    /\ UNCHANGED <<call, accepted, refused>>

Accept(j) ==
    /\ j \in taken \ (accepted \cup refused)
    /\ accepted' = accepted \cup {j}
    /\ UNCHANGED <<call, taken, refused>>

Refuse(j) ==
    /\ j \in taken \ (accepted \cup refused)
    /\ call[j] \in {"answered", "failed"}
    /\ refused' = refused \cup {j}
    /\ UNCHANGED <<call, taken, accepted>>

Answer(j) ==
    /\ call[j] = "asking"
    /\ j \in accepted
    /\ call' = [call EXCEPT ![j] = "answered"]
    /\ UNCHANGED <<taken, accepted, refused>>

Fail(j) ==
    /\ call[j] = "asking"
    /\ call' = [call EXCEPT ![j] = "failed"]
    /\ UNCHANGED <<taken, accepted, refused>>

Next ==
    \E j \in Jobs :
        Ask(j) \/ Take(j) \/ Accept(j) \/ Refuse(j) \/ Answer(j) \/ Fail(j)

Spec == Init /\ [][Next]_vars

=============================================================================

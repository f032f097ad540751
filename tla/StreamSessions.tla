--------------------------- MODULE StreamSessions ---------------------------
(***************************************************************************)
(* What the hub promises about one stream, without queues, polls, sockets  *)
(* or locks. A caller offers a session; the agent may join it once, while  *)
(* it stands; a session ends once and for all. The caller is told that the *)
(* agent joined only if it did, and a caller that waits for the end of its *)
(* session is released by that end or by its own wish to quit.             *)
(***************************************************************************)
CONSTANT Streams

VARIABLES
    offered,    \* sessions that were registered
    joined,     \* sessions an agent attached to
    over,       \* sessions that no longer stand
    quit,       \* callers that do not wait for the end of their session
    caller      \* "out", "asking" for the agent, "talking" to it, "gone"

vars == <<offered, joined, over, quit, caller>>

Init ==
    /\ offered = {}
    /\ joined = {}
    /\ over = {}
    /\ quit = {}
    /\ caller = [s \in Streams |-> "out"]

Offer(s) ==
    /\ caller[s] = "out"
    /\ offered' = offered \cup {s}
    /\ caller' = [caller EXCEPT ![s] = "asking"]
    /\ UNCHANGED <<joined, over, quit>>

Join(s) ==
    /\ s \in offered \ (joined \cup over)
    /\ joined' = joined \cup {s}
    /\ UNCHANGED <<offered, over, quit, caller>>

\* Any number of sessions end together when their agent is removed.
End(S) ==
    /\ S \subseteq offered
    /\ over' = over \cup S
    /\ UNCHANGED <<offered, joined, quit, caller>>

Quit(s) ==
    /\ quit' = quit \cup {s}
    /\ UNCHANGED <<offered, joined, over, caller>>

Hear(s) ==
    /\ caller[s] = "asking"
    /\ s \in joined
    /\ caller' = [caller EXCEPT ![s] = "talking"]
    /\ UNCHANGED <<offered, joined, over, quit>>

\* The caller gives up: its session ends with it, joined or not.
Withdraw(s) ==
    /\ caller[s] = "asking"
    /\ over' = over \cup {s}
    /\ caller' = [caller EXCEPT ![s] = "gone"]
    /\ UNCHANGED <<offered, joined, quit>>

Release(s) ==
    /\ caller[s] = "talking"
    /\ s \in over \cup quit
    /\ caller' = [caller EXCEPT ![s] = "gone"]
    /\ UNCHANGED <<offered, joined, over, quit>>

Next ==
    \/ \E s \in Streams :
          \/ Offer(s) \/ Join(s) \/ Quit(s) \/ Hear(s) \/ Withdraw(s)
          \/ Release(s)
    \/ \E S \in SUBSET Streams : End(S)

Spec == Init /\ [][Next]_vars

=============================================================================

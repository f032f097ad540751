----------------------------- MODULE TunnelJobs -----------------------------
(***************************************************************************)
(* The request half of the TunnelHub (internal/app/tunnel.go): Submit,     *)
(* Poll and Complete, with the goroutines that call them:                  *)
(*                                                                         *)
(*   submit  proxyViaAgentLegacy, whose context ends only when the browser *)
(*           leaves and which holds one of agentHTTPSlots, or a caller     *)
(*           with a deadline of its own (a health check, a UDP packet);    *)
(*   poll    a server-side agentPoll handler;                              *)
(*   post    a server-side agentJobResponse handler, the agent's answer;   *)
(*   admin   deleteAgent and the bulk "reconnect".                         *)
(***************************************************************************)
EXTENDS Naturals, Sequences, FiniteSets

CONSTANTS
    Agents,     \* identifiers of remote agents
    Jobs,       \* job identifiers: each Submit is called with a fresh randomID
    Polls,      \* concurrent agentPoll handlers
    Posts,      \* concurrent agentJobResponse handlers
    AgentOf,    \* the agent of the resource a job is for
    KindOf,     \* the caller of a job: "legacy" or "timed"
    MaxQ,       \* capacity of a queue
    Slots,      \* capacity of agentHTTPSlots
    MaxCuts,    \* bound: "reconnect" operations
    MaxLost     \* bound: jobs that are lost on their way or by their agent

Kinds == {"legacy", "timed"}

ASSUME AgentOfAssumption == AgentOf \in [Jobs -> Agents]
ASSUME KindOfAssumption  == KindOf \in [Jobs -> Kinds]
ASSUME SizesAssumption   == MaxQ \in Nat \ {0} /\ Slots \in Nat \ {0}
ASSUME BoundsAssumption  == MaxCuts \in Nat /\ MaxLost \in Nat

VARIABLES
    live,       \* agents whose row is in SQLite and enabled
    deleting,   \* agents whose row is gone but deleteAgent has not called the hub
    cuts,       \* "reconnect" operations so far
    chans,      \* every queue ever made, with its jobs
    queueOf,    \* h.queues: the index in chans, 0 when there is no entry
    pending,    \* the keys of h.pending
    respCh,     \* jobs whose response channel holds a response
    submit,     \* where each Submit is
    subQ,       \* the queue it obtained, 0 before it did
    result,     \* what it returns: "none" yet, "answer" or "error"
    expired,    \* jobs whose context is done
    holding,    \* legacy jobs whose handler holds a slot
    poll,       \* agentPoll handlers
    held,       \* <<agent, job>>: jobs an agent received and has not answered
    lost,       \* jobs that left a queue and that nobody will answer
    post,       \* agentJobResponse handlers
    accepted,   \* jobs whose response was answered 200
    refused     \* jobs whose response was answered 404

queueVars  == <<chans, queueOf>>
replyVars  == <<pending, respCh>>
submitVars == <<submit, subQ, result, expired, holding>>
pollVars   == <<poll, held, lost>>
postVars   == <<post, accepted, refused>>
adminVars  == <<live, deleting, cuts>>
vars == <<queueVars, replyVars, submitVars, pollVars, postVars, adminVars>>

SubmitPCs == {"idle", "started", "queued", "registered", "waiting", "leaving",
              "returned"}

Idle == [pc |-> "idle"]

TypeOK ==
    /\ live \subseteq Agents
    /\ deleting \subseteq Agents
    /\ cuts \in 0..MaxCuts
    /\ chans \in Seq(Seq(Jobs))
    /\ queueOf \in [Agents -> 0..Len(chans)]
    /\ pending \subseteq Jobs
    /\ respCh \subseteq Jobs
    /\ submit \in [Jobs -> SubmitPCs]
    /\ subQ \in [Jobs -> 0..Len(chans)]
    /\ result \in [Jobs -> {"none", "answer", "error"}]
    /\ expired \subseteq Jobs
    /\ holding \subseteq Jobs
    /\ poll \in [Polls -> {Idle}
                    \cup [pc : {"authenticated"}, agent : Agents]
                    \cup [pc : {"polling"}, agent : Agents, q : 1..Len(chans)]]
    /\ held \subseteq Agents \X Jobs
    /\ lost \subseteq Jobs
    /\ post \in [Posts -> {Idle} \cup [pc : {"sending"}, job : Jobs]]
    /\ accepted \subseteq Jobs
    /\ refused \subseteq Jobs

Init ==
    /\ live = Agents
    /\ deleting = {}
    /\ cuts = 0
    /\ chans = <<>>
    /\ queueOf = [a \in Agents |-> 0]
    /\ pending = {}
    /\ respCh = {}
    /\ submit = [j \in Jobs |-> "idle"]
    /\ subQ = [j \in Jobs |-> 0]
    /\ result = [j \in Jobs |-> "none"]
    /\ expired = {}
    /\ holding = {}
    /\ poll = [p \in Polls |-> Idle]
    /\ held = {}
    /\ lost = {}
    /\ post = [k \in Posts |-> Idle]
    /\ accepted = {}
    /\ refused = {}

-----------------------------------------------------------------------------
(* Submit and its callers. *)

\* h.queue(a): the queue of the map's entry, which it makes when missing.
QueueFor(a) == IF queueOf[a] = 0 THEN Len(chans) + 1 ELSE queueOf[a]

\* Mutant: the entry is written before the channel is made.
EnsureQueueUnmade(a) ==
    /\ queueOf' = [queueOf EXCEPT ![a] = QueueFor(a)]
    /\ UNCHANGED chans

\* Mutant: two callers that both find no entry each make a channel.
EnsureQueueAlways(a) ==
    /\ queueOf' = [queueOf EXCEPT ![a] = Len(chans) + 1]
    /\ chans' = Append(chans, <<>>)

EnsureQueue(a) ==
    /\ queueOf' = [queueOf EXCEPT ![a] = QueueFor(a)]
    /\ chans' = IF queueOf[a] = 0 THEN Append(chans, <<>>) ELSE chans

\* A handler without a slot answers 503 and never reaches the hub. A UDP listener
\* may serve a copy of its resource that outlives the agent.
Start(j) ==
    /\ submit[j] = "idle"
    /\ KindOf[j] = "legacy" => AgentOf[j] \in live
    /\ KindOf[j] = "legacy" => Cardinality(holding) < Slots
    /\ submit' = [submit EXCEPT ![j] = "started"]
    /\ holding' = IF KindOf[j] = "legacy" THEN holding \cup {j} ELSE holding
    /\ UNCHANGED <<subQ, result, expired, queueVars, replyVars, pollVars, postVars,
                   adminVars>>

ObtainQueue(j) ==
    /\ submit[j] = "started"
    /\ EnsureQueue(AgentOf[j])
    /\ subQ' = [subQ EXCEPT ![j] = QueueFor(AgentOf[j])]
    /\ submit' = [submit EXCEPT ![j] = "queued"]
    /\ UNCHANGED <<result, expired, holding, replyVars, pollVars, postVars,
                   adminVars>>

\* Mutant: Submit waits without an entry in h.pending.
RegisterBriefly(j) ==
    /\ submit[j] = "queued"
    /\ submit' = [submit EXCEPT ![j] = "registered"]
    /\ UNCHANGED <<respCh, pending, subQ, result, expired, holding, queueVars,
                   pollVars, postVars, adminVars>>

\* The duplicate branch ("job duplicado") needs two equal randomIDs.
Register(j) ==
    /\ submit[j] = "queued"
    /\ j \notin pending
    /\ pending' = pending \cup {j}
    /\ submit' = [submit EXCEPT ![j] = "registered"]
    /\ UNCHANGED <<respCh, subQ, result, expired, holding, queueVars, pollVars,
                   postVars, adminVars>>

Enqueue(j) ==
    /\ submit[j] = "registered"
    /\ Len(chans[subQ[j]]) < MaxQ
    /\ chans' = [chans EXCEPT ![subQ[j]] = Append(@, j)]
    /\ submit' = [submit EXCEPT ![j] = "waiting"]
    /\ UNCHANGED <<queueOf, subQ, result, expired, holding, replyVars,
                   pollVars, postVars, adminVars>>

EnqueueFails(j) ==
    /\ submit[j] = "registered"
    /\ Len(chans[subQ[j]]) = MaxQ \/ j \in expired
    /\ submit' = [submit EXCEPT ![j] = "leaving"]
    /\ result' = [result EXCEPT ![j] = "error"]
    /\ UNCHANGED <<subQ, expired, holding, queueVars, replyVars, pollVars,
                   postVars, adminVars>>

\* Mutant: the response channel is closed, so that it yields an empty response.
ReceiveClosed(j) ==
    /\ submit[j] = "waiting"
    /\ respCh' = respCh \ {j}
    /\ submit' = [submit EXCEPT ![j] = "leaving"]
    /\ result' = [result EXCEPT ![j] = "answer"]
    /\ UNCHANGED <<pending, subQ, expired, holding, queueVars, pollVars,
                   postVars, adminVars>>

Receive(j) ==
    /\ submit[j] = "waiting"
    /\ j \in respCh
    /\ respCh' = respCh \ {j}
    /\ submit' = [submit EXCEPT ![j] = "leaving"]
    /\ result' = [result EXCEPT ![j] = "answer"]
    /\ UNCHANGED <<pending, subQ, expired, holding, queueVars, pollVars,
                   postVars, adminVars>>

\* Mutant: Submit returns an error without its deferred deletePending.
GiveUpKeepsPending(j) ==
    /\ submit[j] = "waiting"
    /\ j \in expired
    /\ submit' = [submit EXCEPT ![j] = "returned"]
    /\ result' = [result EXCEPT ![j] = "error"]
    /\ UNCHANGED <<subQ, expired, holding, queueVars, replyVars, pollVars,
                   postVars, adminVars>>

\* Mutant: the wait for the response has a default arm.
GiveUpAtOnce(j) ==
    /\ submit[j] = "waiting"
    /\ submit' = [submit EXCEPT ![j] = "leaving"]
    /\ result' = [result EXCEPT ![j] = "error"]
    /\ UNCHANGED <<subQ, expired, holding, queueVars, replyVars, pollVars,
                   postVars, adminVars>>

\* Mutant: the caller's deadline is not the context Submit waits on.
GiveUpLegacy(j) ==
    /\ submit[j] = "waiting"
    /\ j \in expired /\ KindOf[j] = "legacy"
    /\ submit' = [submit EXCEPT ![j] = "leaving"]
    /\ result' = [result EXCEPT ![j] = "error"]
    /\ UNCHANGED <<subQ, expired, holding, queueVars, replyVars, pollVars,
                   postVars, adminVars>>

\* select picks any ready arm, so a response that has arrived may be dropped.
GiveUp(j) ==
    /\ submit[j] = "waiting"
    /\ j \in expired
    /\ submit' = [submit EXCEPT ![j] = "leaving"]
    /\ result' = [result EXCEPT ![j] = "error"]
    /\ UNCHANGED <<subQ, expired, holding, queueVars, replyVars, pollVars,
                   postVars, adminVars>>

\* The deferred deletePending.
DeletePending(j) ==
    /\ submit[j] = "leaving"
    /\ pending' = pending \ {j}
    /\ submit' = [submit EXCEPT ![j] = "returned"]
    /\ UNCHANGED <<respCh, subQ, result, expired, holding, queueVars, pollVars,
                   postVars, adminVars>>

\* The handler ends once it has written its answer, for which the browser must read it or
\* leave: no write has a deadline.
ReleaseSlot(j) ==
    /\ submit[j] = "returned"
    /\ j \in holding
    /\ holding' = holding \ {j}
    /\ UNCHANGED <<submit, subQ, result, expired, queueVars, replyVars, pollVars,
                   postVars, adminVars>>

\* The browser leaves, or the deadline of a timed caller passes.
EndContext(j) ==
    /\ submit[j] \notin {"idle", "returned"} \/ j \in holding
    /\ j \notin expired
    /\ expired' = expired \cup {j}
    /\ UNCHANGED <<submit, subQ, result, holding, queueVars, replyVars, pollVars,
                   postVars, adminVars>>

-----------------------------------------------------------------------------
(* agentPoll. *)

PollAuthenticate(p, a) ==
    /\ poll[p] = Idle
    /\ a \in live
    /\ poll' = [poll EXCEPT ![p] = [pc |-> "authenticated", agent |-> a]]
    /\ UNCHANGED <<held, lost, queueVars, replyVars, submitVars, postVars, adminVars>>

PollObtainQueue(p) ==
    /\ poll[p].pc = "authenticated"
    /\ EnsureQueue(poll[p].agent)
    /\ poll' = [poll EXCEPT ![p] = [pc |-> "polling", agent |-> poll[p].agent,
                                   q |-> QueueFor(poll[p].agent)]]
    /\ UNCHANGED <<held, lost, replyVars, submitVars, postVars, adminVars>>

\* Mutant: the job stays in its queue.
DequeueNothing(p) ==
    /\ poll[p].pc = "polling"
    /\ chans[poll[p].q] # <<>>
    /\ poll' = [poll EXCEPT ![p] = Idle]
    /\ UNCHANGED chans

\* The poll takes the queue's first job.
Dequeue(p) ==
    /\ poll[p].pc = "polling"
    /\ chans[poll[p].q] # <<>>
    /\ chans' = [chans EXCEPT ![poll[p].q] = Tail(@)]
    /\ poll' = [poll EXCEPT ![p] = Idle]

PollTake(p) ==
    /\ Dequeue(p)
    /\ held' = held \cup {<<poll[p].agent, Head(chans[poll[p].q])>>}
    /\ UNCHANGED <<queueOf, lost, replyVars, submitVars, postVars, adminVars>>

\* The select takes the job although the agent's connection is already gone.
PollTakeLost(p) ==
    /\ Cardinality(lost) < MaxLost
    /\ Dequeue(p)
    /\ lost' = lost \cup {Head(chans[poll[p].q])}
    /\ UNCHANGED <<queueOf, held, replyVars, submitVars, postVars, adminVars>>

\* AgentPollTimeout, or the agent disconnects.
PollExpire(p) ==
    /\ poll[p].pc = "polling"
    /\ poll' = [poll EXCEPT ![p] = Idle]
    /\ UNCHANGED <<held, lost, queueVars, replyVars, submitVars, postVars, adminVars>>

-----------------------------------------------------------------------------
(* agentJobResponse and Complete. *)

\* The agent posts the response of a job it holds, once; Complete looks the job up
\* under the lock and sends on its channel after unlocking.
Lookup(k, a, j) ==
    /\ post[k] = Idle
    /\ <<a, j>> \in held
    /\ a \in live
    /\ held' = held \ {<<a, j>>}
    /\ IF j \in pending
       THEN /\ post' = [post EXCEPT ![k] = [pc |-> "sending", job |-> j]]
            /\ UNCHANGED refused
       ELSE /\ refused' = refused \cup {j}
            /\ UNCHANGED post
    /\ UNCHANGED <<poll, lost, accepted, queueVars, replyVars, submitVars, adminVars>>

\* Mutant: Complete acknowledges a response without sending it.
SendNothing(k) ==
    /\ post[k].pc = "sending"
    /\ accepted' = accepted \cup {post[k].job}
    /\ post' = [post EXCEPT ![k] = Idle]
    /\ UNCHANGED <<respCh, pending, refused, queueVars, submitVars, pollVars, adminVars>>

\* The channel has room for one response and a job is answered once.
Send(k) ==
    /\ post[k].pc = "sending"
    /\ post[k].job \notin respCh
    /\ respCh' = respCh \cup {post[k].job}
    /\ accepted' = accepted \cup {post[k].job}
    /\ post' = [post EXCEPT ![k] = Idle]
    /\ UNCHANGED <<pending, refused, queueVars, submitVars, pollVars, adminVars>>

\* The agent stops, or its response does not arrive: it is not sent again.
Abandon(a, j) ==
    /\ Cardinality(lost) < MaxLost
    /\ <<a, j>> \in held
    /\ held' = held \ {<<a, j>>}
    /\ lost' = lost \cup {j}
    /\ UNCHANGED <<poll, queueVars, replyVars, submitVars, postVars, adminVars>>

-----------------------------------------------------------------------------
(* deleteAgent and the bulk "reconnect". *)

\* h.RemoveAgent(a) touches neither pending nor the queue object.
RemoveAgent(a) ==
    /\ queueOf' = [queueOf EXCEPT ![a] = 0]
    /\ UNCHANGED <<chans, replyVars, submitVars, pollVars, postVars>>

DeleteRow(a) ==
    /\ a \in live
    /\ live' = live \ {a}
    /\ deleting' = deleting \cup {a}
    /\ UNCHANGED <<cuts, queueVars, replyVars, submitVars, pollVars, postVars>>

DeleteFromHub(a) ==
    /\ a \in deleting
    /\ RemoveAgent(a)
    /\ deleting' = deleting \ {a}
    /\ UNCHANGED <<live, cuts>>

Reconnect(a) ==
    /\ cuts < MaxCuts
    /\ a \in live
    /\ RemoveAgent(a)
    /\ cuts' = cuts + 1
    /\ UNCHANGED <<live, deleting>>

-----------------------------------------------------------------------------

SubmitStep(j) ==
    \/ Start(j) \/ ObtainQueue(j) \/ Register(j) \/ Enqueue(j) \/ EnqueueFails(j)
    \/ Receive(j) \/ GiveUp(j) \/ DeletePending(j) \/ ReleaseSlot(j)
    \/ EndContext(j)

PollStep(p) ==
    \/ \E a \in Agents : PollAuthenticate(p, a)
    \/ PollObtainQueue(p) \/ PollTake(p) \/ PollTakeLost(p) \/ PollExpire(p)

PostStep(k) == (\E a \in Agents, j \in Jobs : Lookup(k, a, j)) \/ Send(k)

AgentStep(a) ==
    \/ \E j \in Jobs : Abandon(a, j)
    \/ DeleteRow(a) \/ DeleteFromHub(a) \/ Reconnect(a)

Next ==
    \/ \E j \in Jobs : SubmitStep(j)
    \/ \E p \in Polls : PollStep(p)
    \/ \E k \in Posts : PostStep(k)
    \/ \E a \in Agents : AgentStep(a)

Spec == Init /\ [][Next]_vars

(* Fairness: Submit and Complete take the steps that are theirs alone, the       *)
(* deadline of a timed caller passes, and a write to a browser that has left     *)
(* ends. Nothing is assumed of agents, nor that a browser reads or leaves.       *)
Fairness ==
    /\ \A j \in Jobs :
          /\ WF_vars(ObtainQueue(j) \/ Register(j))
          /\ WF_vars(Enqueue(j) \/ EnqueueFails(j))
          /\ WF_vars(Receive(j) \/ GiveUp(j))
          /\ WF_vars(DeletePending(j))
          /\ WF_vars(j \in expired /\ ReleaseSlot(j))
          /\ WF_vars(KindOf[j] = "timed" /\ EndContext(j))
    /\ \A k \in Posts : WF_vars(Send(k))

FairSpec == Spec /\ Fairness

-----------------------------------------------------------------------------
(* Safety. *)

Active(j) == submit[j] \in {"registered", "waiting", "leaving"}

JobsIn(q) == {chans[q][i] : i \in 1..Len(chans[q])}

InQueue(j) == \E q \in 1..Len(chans) : j \in JobsIn(q)

WithAgent(j) == \E a \in Agents : <<a, j>> \in held

Sending(k, j) == post[k].pc = "sending" /\ post[k].job = j

\* Where job j is: at a position of a queue, with an agent, in a response handler,
\* or where it has ended.
Places(j) ==
    {<<"queue", at>> : at \in {p \in (1..Len(chans)) \X (1..MaxQ) :
                                  p[2] <= Len(chans[p[1]]) /\ chans[p[1]][p[2]] = j}}
    \cup {<<"agent", a>> : a \in {b \in Agents : <<b, j>> \in held}}
    \cup {<<"handler", k>> : k \in {h \in Posts : Sending(h, j)}}
    \cup (IF j \in lost THEN {<<"ended", "lost">>} ELSE {})
    \cup (IF j \in accepted THEN {<<"ended", "accepted">>} ELSE {})
    \cup (IF j \in refused THEN {<<"ended", "refused">>} ELSE {})

\* A job is in one place at most, and once it has been lost or its response has
\* been judged, it stays where it ended: it is never executed twice, whatever polls
\* and reconnects interleave.
AtMostOnce == \A j \in Jobs : \A x, y \in Places(j) : x = y

\* h.pending has an entry exactly while Submit is between its registration and
\* its deferred deletePending: no entry is left behind, and none is missing while
\* the caller can still be answered.
PendingExact == \A j \in Jobs : j \in pending <=> Active(j)

\* A response that the server acknowledged is what Submit returns, unless the
\* caller's context was done: the answer that loses that race is the only one
\* that is dropped.
AcceptedIsReturned ==
    \A j \in accepted :
        submit[j] = "returned" => result[j] = "answer" \/ j \in expired

\* A response is turned away only when its Submit has come to its end.
RefusedTooLate == \A j \in refused : submit[j] = "returned"

\* The map of waiting callers is exact, and with it who is turned away: an entry for
\* every caller that can still be answered, and a 404 for no response to one of them.
CallersKnown == TypeOK /\ PendingExact /\ RefusedTooLate

\* Without a reconnect or a deletion, a job that waits in a queue waits in the
\* queue that the agent's next poll will read.
QueuedIsReachable ==
    \A q \in 1..Len(chans) : \A j \in JobsIn(q) :
        cuts = 0 /\ AgentOf[j] \in live => queueOf[AgentOf[j]] = q

-----------------------------------------------------------------------------
(* The request half of the hub implements AgentCalls. *)

CallerView(j) ==
    CASE result[j] = "answer" -> "answered"
      [] result[j] = "error"  -> "failed"
      [] submit[j] \in {"registered", "waiting"} -> "asking"
      [] OTHER -> "out"

\* The jobs that have left their queue.
Gone ==
    {j \in Jobs :
        \/ j \in lost \cup accepted \cup refused
        \/ WithAgent(j)
        \/ \E k \in Posts : Sending(k, j)}

Calls == INSTANCE AgentCalls WITH
    call  <- [j \in Jobs |-> CallerView(j)],
    taken <- Gone

\* Seen through this mapping the hub is an at-most-once call to the agent.
ImplementsCalls == Calls!Spec

-----------------------------------------------------------------------------
(* Liveness. *)

\* A caller with a deadline returns, whatever the agent, its queue or an
\* administrator do: also when RemoveAgent has dropped the queue its job is in.
TimedReturn == \A j \in Jobs : (KindOf[j] = "timed" /\ submit[j] # "idle") ~> (submit[j] = "returned")

\* A legacy handler gives its slot back once the browser has left, wherever it is, and
\* waits in Submit no longer than until the agent's response has been acknowledged: no
\* wake-up is lost between Complete and Submit. From then on the slot is the browser's.
SlotComesBack ==
    \A j \in Jobs :
        /\ (j \in holding /\ j \in expired) ~> (j \notin holding)
        /\ (j \in accepted) ~> (submit[j] = "returned")

=============================================================================

--------------------------- MODULE TunnelStreams ---------------------------
(***************************************************************************)
(* The stream half of the TunnelHub (internal/app/tunnel.go) with the      *)
(* goroutines that use it:                                                 *)
(*                                                                         *)
(*   opener  the public side of one stream: an HTTP request proxied by a   *)
(*           stream (proxyViaAgentStream), a public TCP connection         *)
(*           (handleTCPConn) or a remote terminal (agentTerminalSocket);   *)
(*   poll    a server-side agentStreamPoll handler, the agent's long poll; *)
(*   socket  a server-side agentStreamSocket handler, the agent's dial     *)
(*           back for a stream it was given, and the bridge it then runs;  *)
(*   admin   deleteAgent and the bulk "reconnect", which call RemoveAgent. *)
(*                                                                         *)
(* One action is one critical section of TunnelHub.mu, or one channel      *)
(* operation or connection operation outside it.                           *)
(***************************************************************************)
EXTENDS Naturals, Sequences, FiniteSets

CONSTANTS
    Agents,     \* identifiers of remote agents
    Streams,    \* stream identifiers: each opener draws a fresh randomID
    Polls,      \* concurrent agentStreamPoll handlers
    Sockets,    \* concurrent agentStreamSocket handlers
    AgentOf,    \* the agent of the resource an opener serves
    Callers,    \* the kinds of openers there are
    MaxQ,       \* capacity of a stream queue (64 in the server)
    Capacity,   \* size of the semaphore of each kind that has one
    MaxCuts,    \* bound: "reconnect" operations
    MaxLost     \* bound: stream jobs answered to a poll whose client is gone

Kinds == {"http", "tcp", "terminal"}

\* The kinds whose caller holds a slot: agentHTTPSlots and agentStreamSlots.
SlotKinds == {"http", "tcp"}

ASSUME AgentOfAssumption  == AgentOf \in [Streams -> Agents]
ASSUME CallersAssumption  == Callers \subseteq Kinds
ASSUME MaxQAssumption     == MaxQ \in Nat \ {0}
ASSUME CapacityAssumption == Capacity \in [SlotKinds -> Nat \ {0}]
ASSUME BoundsAssumption   == MaxCuts \in Nat /\ MaxLost \in Nat

VARIABLES
    live,       \* agents whose row is in SQLite and enabled
    deleting,   \* agents whose row is gone but deleteAgent has not called the hub
    cuts,       \* "reconnect" operations so far
    chans,      \* every stream queue ever made, with its jobs
    queueOf,    \* h.streamQueues: the index in chans, 0 when there is no entry
    streams,    \* the keys of h.streams
    attached,   \* sessions whose Attached channel is closed
    done,       \* sessions whose Done channel is closed
    opener,     \* where each opener is
    kind,       \* which caller the opener is, "none" before it starts
    openQ,      \* the queue an opener obtained, 0 before it did
    holding,    \* openers that hold a slot
    cancelled,  \* openers whose context is done
    connOpen,   \* streams whose ClientConn has not been closed
    poll,       \* agentStreamPoll handlers
    held,       \* <<agent, stream>> jobs an agent received
    lost,       \* jobs that left a queue and reached no agent
    sock        \* agentStreamSocket handlers

queueVars   == <<chans, queueOf>>
sessionVars == <<streams, attached, done>>
callVars    == <<opener, kind, openQ>>
connVars    == <<holding, cancelled, connOpen>>
agentVars   == <<poll, held, lost, sock>>
adminVars   == <<live, deleting, cuts>>
hubVars     == <<queueVars, sessionVars>>
openerVars  == <<callVars, connVars>>
vars        == <<hubVars, openerVars, agentVars, adminVars>>

OpenerPCs == {"idle", "started", "queued", "registered", "waiting",
              "failing", "open", "leaving"}
SocketPCs == {"accepting", "bridging", "completing", "closing", "signal"}
PollPCs   == {"authenticated", "polling"}

Idle == [pc |-> "idle"]

TypeOK ==
    /\ live \subseteq Agents
    /\ deleting \subseteq Agents
    /\ cuts \in 0..MaxCuts
    /\ chans \in Seq(Seq(Streams))
    /\ queueOf \in [Agents -> 0..Len(chans)]
    /\ streams \subseteq Streams
    /\ attached \subseteq Streams
    /\ done \subseteq Streams
    /\ opener \in [Streams -> OpenerPCs]
    /\ kind \in [Streams -> Kinds \cup {"none"}]
    /\ openQ \in [Streams -> 0..Len(chans)]
    /\ holding \subseteq Streams
    /\ cancelled \subseteq Streams
    /\ connOpen \subseteq Streams
    /\ poll \in [Polls -> {Idle}
                    \cup [pc : {"authenticated"}, agent : Agents]
                    \cup [pc : {"polling"}, agent : Agents, q : 1..Len(chans)]]
    /\ held \subseteq Agents \X Streams
    /\ lost \subseteq Streams
    /\ sock \in [Sockets -> {Idle}
                    \cup [pc : SocketPCs, agent : Agents, stream : Streams]]

Init ==
    /\ live = Agents
    /\ deleting = {}
    /\ cuts = 0
    /\ chans = <<>>
    /\ queueOf = [a \in Agents |-> 0]
    /\ streams = {}
    /\ attached = {}
    /\ done = {}
    /\ opener = [s \in Streams |-> "idle"]
    /\ kind = [s \in Streams |-> "none"]
    /\ openQ = [s \in Streams |-> 0]
    /\ holding = {}
    /\ cancelled = {}
    /\ connOpen = {}
    /\ poll = [p \in Polls |-> Idle]
    /\ held = {}
    /\ lost = {}
    /\ sock = [k \in Sockets |-> Idle]

-----------------------------------------------------------------------------
(* The hub's critical sections. *)

\* h.streamQueue(a): the queue of the map's entry, which it makes when missing.
QueueFor(a) == IF queueOf[a] = 0 THEN Len(chans) + 1 ELSE queueOf[a]

\* Mutant: the entry is written before the channel is made.
EnsureQueueUnmade(a) ==
    /\ queueOf' = [queueOf EXCEPT ![a] = QueueFor(a)]
    /\ UNCHANGED chans

EnsureQueue(a) ==
    /\ queueOf' = [queueOf EXCEPT ![a] = QueueFor(a)]
    /\ chans' = IF queueOf[a] = 0 THEN Append(chans, <<>>) ELSE chans

\* CanAttachStream, and the test AttachStream repeats under the lock.
CanAttach(s, a) == s \in streams /\ AgentOf[s] = a /\ s \notin attached

SessionsOf(a) == {s \in streams : AgentOf[s] = a}

\* Mutant: the sessions are dropped from the map and their Done is never closed.
RemoveAgentSilently(a) ==
    /\ queueOf' = [queueOf EXCEPT ![a] = 0]
    /\ streams' = streams \ SessionsOf(a)
    /\ UNCHANGED <<chans, attached, done>>

\* Mutant: Done is closed and the sessions stay in the map.
RemoveAgentKeepsSessions(a) ==
    /\ queueOf' = [queueOf EXCEPT ![a] = 0]
    /\ done' = done \cup SessionsOf(a)
    /\ UNCHANGED <<chans, attached, streams>>

\* h.RemoveAgent(a). The queue objects stay reachable from the goroutines that
\* already obtained them, and nothing tells an opener still waiting for Attached.
RemoveAgent(a) ==
    /\ queueOf' = [queueOf EXCEPT ![a] = 0]
    /\ streams' = streams \ SessionsOf(a)
    /\ done' = done \cup SessionsOf(a)
    /\ UNCHANGED <<chans, attached>>

-----------------------------------------------------------------------------
(* Openers: StartStream, WaitStream and their callers. *)

\* The openers of a kind that hold one of its slots.
Holders(c) == {s \in holding : kind[s] = c}

SlotFree(c) == Cardinality(Holders(c)) < Capacity[c]

\* The caller reads the resource (a listener's copy of it may outlive its agent),
\* takes its slot if its kind has one, and has a connection to bridge.
Start(s, c) ==
    /\ opener[s] = "idle"
    /\ c # "tcp" => AgentOf[s] \in live
    /\ c \in SlotKinds => SlotFree(c)
    /\ opener' = [opener EXCEPT ![s] = "started"]
    /\ kind' = [kind EXCEPT ![s] = c]
    /\ holding' = IF c \in SlotKinds THEN holding \cup {s} ELSE holding
    /\ connOpen' = connOpen \cup {s}
    /\ UNCHANGED <<openQ, cancelled, hubVars, agentVars, adminVars>>

\* No slot: 503 for HTTP, which has made no pipe yet; a TCP connection is dropped.
Refuse(s, c) ==
    /\ opener[s] = "idle"
    /\ ~SlotFree(c)
    /\ opener' = [opener EXCEPT ![s] = "leaving"]
    /\ kind' = [kind EXCEPT ![s] = c]
    /\ connOpen' = IF c = "tcp" THEN connOpen \cup {s} ELSE connOpen
    /\ UNCHANGED <<openQ, holding, cancelled, hubVars, agentVars, adminVars>>

ObtainQueue(s) ==
    /\ opener[s] = "started"
    /\ EnsureQueue(AgentOf[s])
    /\ openQ' = [openQ EXCEPT ![s] = QueueFor(AgentOf[s])]
    /\ opener' = [opener EXCEPT ![s] = "queued"]
    /\ UNCHANGED <<kind, agentVars, adminVars, sessionVars, connVars>>

\* The duplicate branch ("stream duplicado") needs two equal randomIDs.
Register(s) ==
    /\ opener[s] = "queued"
    /\ s \notin streams
    /\ streams' = streams \cup {s}
    /\ opener' = [opener EXCEPT ![s] = "registered"]
    /\ UNCHANGED <<attached, done, kind, openQ, agentVars, adminVars,
                   queueVars, connVars>>

Enqueue(s) ==
    /\ opener[s] = "registered"
    /\ Len(chans[openQ[s]]) < MaxQ
    /\ chans' = [chans EXCEPT ![openQ[s]] = Append(@, s)]
    /\ opener' = [opener EXCEPT ![s] = "waiting"]
    /\ UNCHANGED <<queueOf, kind, openQ, agentVars, adminVars, sessionVars,
                   connVars>>

\* The select's other arms: the queue is full, or the context is already done.
EnqueueFails(s) ==
    /\ opener[s] = "registered"
    /\ Len(chans[openQ[s]]) = MaxQ \/ s \in cancelled
    /\ opener' = [opener EXCEPT ![s] = "failing"]
    /\ UNCHANGED <<kind, openQ, hubVars, agentVars, adminVars, connVars>>

SeeAttached(s) ==
    /\ opener[s] = "waiting"
    /\ s \in attached
    /\ opener' = [opener EXCEPT ![s] = "open"]
    /\ UNCHANGED <<kind, openQ, hubVars, agentVars, adminVars, connVars>>

\* Mutant: cleanup is switched off before the session is known to be attached.
GiveUpKeepsSession(s) ==
    /\ opener[s] = "waiting"
    /\ opener' = [opener EXCEPT ![s] = "leaving"]
    /\ UNCHANGED <<kind, openQ, hubVars, agentVars, adminVars, connVars>>

\* The 30 s timer fires or the context is done. select picks any ready arm, so
\* this may happen to a session the agent has just attached.
GiveUp(s) ==
    /\ opener[s] = "waiting"
    /\ opener' = [opener EXCEPT ![s] = "failing"]
    /\ UNCHANGED <<kind, openQ, hubVars, agentVars, adminVars, connVars>>

\* StartStream's deferred deleteStream.
Unregister(s) ==
    /\ opener[s] = "failing"
    /\ streams' = streams \ {s}
    /\ opener' = [opener EXCEPT ![s] = "leaving"]
    /\ UNCHANGED <<attached, done, kind, openQ, agentVars, adminVars,
                   queueVars, connVars>>

\* Mutant: WaitStream selects on the context only.
WaitReturnsOnContext(s) ==
    /\ opener[s] = "open"
    /\ kind[s] # "http"
    /\ s \in cancelled
    /\ opener' = [opener EXCEPT ![s] = "leaving"]
    /\ UNCHANGED <<kind, openQ, hubVars, agentVars, adminVars, connVars>>

\* WaitStream returns (TCP and terminal). TCP waits with context.Background().
WaitReturns(s) ==
    /\ opener[s] = "open"
    /\ kind[s] # "http"
    /\ s \in done \/ s \in cancelled
    /\ opener' = [opener EXCEPT ![s] = "leaving"]
    /\ UNCHANGED <<kind, openQ, hubVars, agentVars, adminVars, connVars>>

\* An HTTP opener never waits for Done: it leaves when its exchange is over.
ExchangeEnds(s) ==
    /\ opener[s] = "open"
    /\ kind[s] = "http"
    /\ opener' = [opener EXCEPT ![s] = "leaving"]
    /\ UNCHANGED <<kind, openQ, hubVars, agentVars, adminVars, connVars>>

\* The browser leaves: r.Context is done (HTTP), or the terminal's own bridge
\* ends and its handler calls cancel().
Cancel(s) ==
    /\ kind[s] # "tcp"
    /\ opener[s] \notin {"idle", "leaving"}
    /\ s \notin cancelled
    /\ cancelled' = cancelled \cup {s}
    /\ UNCHANGED <<holding, connOpen, hubVars, agentVars, adminVars, callVars>>

\* Mutant: the HTTP handler has no context.AfterFunc.
CloseOnCancelTerminal(s) ==
    /\ s \in cancelled \cap connOpen
    /\ kind[s] = "terminal"
    /\ connOpen' = connOpen \ {s}
    /\ UNCHANGED <<holding, cancelled, hubVars, agentVars, adminVars, callVars>>

\* context.AfterFunc (HTTP), or the terminal handler after cancel().
CloseOnCancel(s) ==
    /\ s \in cancelled \cap connOpen
    /\ connOpen' = connOpen \ {s}
    /\ UNCHANGED <<holding, cancelled, hubVars, agentVars, adminVars, callVars>>

\* Deferred calls run last in, first out: HTTP closes its pipe and then frees
\* the slot; TCP frees agentStreamSlots and then closes the client connection.
CloseConn(s) ==
    /\ opener[s] = "leaving"
    /\ s \in connOpen
    /\ kind[s] = "tcp" => s \notin holding
    /\ connOpen' = connOpen \ {s}
    /\ UNCHANGED <<holding, cancelled, hubVars, agentVars, adminVars, callVars>>

\* Mutant: the HTTP handler frees its slot before its pipe is closed.
ReleaseSlotEarly(s) ==
    /\ opener[s] = "leaving"
    /\ s \in holding
    /\ holding' = holding \ {s}
    /\ UNCHANGED <<cancelled, connOpen, hubVars, agentVars, adminVars, callVars>>

ReleaseSlot(s) ==
    /\ opener[s] = "leaving"
    /\ s \in holding
    /\ kind[s] = "http" => s \notin connOpen
    /\ holding' = holding \ {s}
    /\ UNCHANGED <<cancelled, connOpen, hubVars, agentVars, adminVars, callVars>>

-----------------------------------------------------------------------------
(* agentStreamPoll. *)

PollAuthenticate(p, a) ==
    /\ poll[p] = Idle
    /\ a \in live
    /\ poll' = [poll EXCEPT ![p] = [pc |-> "authenticated", agent |-> a]]
    /\ UNCHANGED <<held, lost, sock, hubVars, openerVars, adminVars>>

PollObtainQueue(p) ==
    /\ poll[p].pc = "authenticated"
    /\ EnsureQueue(poll[p].agent)
    /\ poll' = [poll EXCEPT ![p] = [pc |-> "polling", agent |-> poll[p].agent,
                                   q |-> QueueFor(poll[p].agent)]]
    /\ UNCHANGED <<held, lost, sock, openerVars, adminVars, sessionVars>>

\* The job leaves the queue and its response reaches the agent.
PollTake(p) ==
    /\ poll[p].pc = "polling"
    /\ LET q == poll[p].q IN
          /\ chans[q] # <<>>
          /\ held' = held \cup {<<poll[p].agent, Head(chans[q])>>}
          /\ chans' = [chans EXCEPT ![q] = Tail(@)]
    /\ poll' = [poll EXCEPT ![p] = Idle]
    /\ UNCHANGED <<queueOf, lost, sock, openerVars, adminVars, sessionVars>>

\* The select takes the job although the agent's connection is already gone.
PollTakeLost(p) ==
    /\ Cardinality(lost) < MaxLost
    /\ poll[p].pc = "polling"
    /\ LET q == poll[p].q IN
          /\ chans[q] # <<>>
          /\ lost' = lost \cup {Head(chans[q])}
          /\ chans' = [chans EXCEPT ![q] = Tail(@)]
    /\ poll' = [poll EXCEPT ![p] = Idle]
    /\ UNCHANGED <<queueOf, held, sock, openerVars, adminVars, sessionVars>>

\* AgentPollTimeout, or the agent disconnects.
PollExpire(p) ==
    /\ poll[p].pc = "polling"
    /\ poll' = [poll EXCEPT ![p] = Idle]
    /\ UNCHANGED <<held, lost, sock, hubVars, openerVars, adminVars>>

-----------------------------------------------------------------------------
(* agentStreamSocket and bridgeWebSocketNetConn. *)

\* The agent dials for a job it received; it may do so more than once.
Dial(k, a, s) ==
    /\ sock[k] = Idle
    /\ <<a, s>> \in held
    /\ a \in live
    /\ CanAttach(s, a)
    /\ sock' = [sock EXCEPT ![k] =
                  [pc |-> "accepting", agent |-> a, stream |-> s]]
    /\ UNCHANGED <<poll, held, lost, hubVars, openerVars, adminVars>>

\* websocket.Accept fails, or AttachStream finds what CanAttachStream saw gone.
AttachRefused(k) ==
    /\ sock[k].pc = "accepting"
    /\ sock' = [sock EXCEPT ![k] = Idle]
    /\ UNCHANGED <<poll, held, lost, hubVars, openerVars, adminVars>>

\* Mutant: AttachStream trusts CanAttachStream and does not look at Attached.
AttachStreamTwice(k) ==
    /\ sock[k].pc = "accepting"
    /\ sock[k].stream \in streams
    /\ attached' = attached \cup {sock[k].stream}
    /\ sock' = [sock EXCEPT ![k].pc = "bridging"]
    /\ UNCHANGED <<streams, done, poll, held, lost, openerVars, adminVars,
                   queueVars>>

\* Mutant: AttachStream uses the session CanAttachStream found.
AttachStreamStale(k) ==
    /\ sock[k].pc = "accepting"
    /\ sock[k].stream \notin attached
    /\ attached' = attached \cup {sock[k].stream}
    /\ sock' = [sock EXCEPT ![k].pc = "bridging"]
    /\ UNCHANGED <<streams, done, poll, held, lost, openerVars, adminVars,
                   queueVars>>

AttachStream(k) ==
    /\ sock[k].pc = "accepting"
    /\ CanAttach(sock[k].stream, sock[k].agent)
    /\ attached' = attached \cup {sock[k].stream}
    /\ sock' = [sock EXCEPT ![k].pc = "bridging"]
    /\ UNCHANGED <<streams, done, poll, held, lost, openerVars, adminVars,
                   queueVars>>

\* Either end reports an error or EOF; the bridge closes the client connection.
BridgeEnds(k) ==
    /\ sock[k].pc = "bridging"
    /\ connOpen' = connOpen \ {sock[k].stream}
    /\ sock' = [sock EXCEPT ![k].pc = "completing"]
    /\ UNCHANGED <<holding, cancelled, poll, held, lost, hubVars, adminVars,
                   callVars>>

\* Mutant: CompleteStream leaves the session in the map.
CompleteStreamKeeps(k) ==
    /\ sock[k].pc = "completing"
    /\ sock' = IF sock[k].stream \in streams
               THEN [sock EXCEPT ![k].pc = "closing"]
               ELSE [sock EXCEPT ![k] = Idle]
    /\ UNCHANGED <<streams, attached, done, poll, held, lost, openerVars,
                   adminVars, queueVars>>

\* CompleteStream under the lock: only the caller that found the session goes on
\* to its Done channel, which it handles after unlocking.
CompleteStream(k) ==
    /\ sock[k].pc = "completing"
    /\ streams' = streams \ {sock[k].stream}
    /\ sock' = IF sock[k].stream \in streams
               THEN [sock EXCEPT ![k].pc = "closing"]
               ELSE [sock EXCEPT ![k] = Idle]
    /\ UNCHANGED <<attached, done, poll, held, lost, openerVars, adminVars,
                   queueVars>>

CheckDone(k) ==
    /\ sock[k].pc = "closing"
    /\ sock' = IF sock[k].stream \in done
               THEN [sock EXCEPT ![k] = Idle]
               ELSE [sock EXCEPT ![k].pc = "signal"]
    /\ UNCHANGED <<poll, held, lost, hubVars, openerVars, adminVars>>

\* close(sess.Done): a second close of the channel would panic the server.
SignalDone(k) ==
    /\ sock[k].pc = "signal"
    /\ done' = done \cup {sock[k].stream}
    /\ sock' = [sock EXCEPT ![k] = Idle]
    /\ UNCHANGED <<streams, attached, poll, held, lost, openerVars,
                   adminVars, queueVars>>

-----------------------------------------------------------------------------
(* deleteAgent and the bulk "reconnect". *)

DeleteRow(a) ==
    /\ a \in live
    /\ live' = live \ {a}
    /\ deleting' = deleting \cup {a}
    /\ UNCHANGED <<cuts, hubVars, openerVars, agentVars>>

DeleteFromHub(a) ==
    /\ a \in deleting
    /\ RemoveAgent(a)
    /\ deleting' = deleting \ {a}
    /\ UNCHANGED <<live, cuts, openerVars, agentVars>>

Reconnect(a) ==
    /\ cuts < MaxCuts
    /\ a \in live
    /\ RemoveAgent(a)
    /\ cuts' = cuts + 1
    /\ UNCHANGED <<live, deleting, openerVars, agentVars>>

-----------------------------------------------------------------------------

OpenerStep(s) ==
    \/ \E c \in Callers : Start(s, c)
    \/ \E c \in Callers \cap SlotKinds : Refuse(s, c)
    \/ ObtainQueue(s) \/ Register(s)
    \/ Enqueue(s) \/ EnqueueFails(s) \/ SeeAttached(s) \/ GiveUp(s)
    \/ Unregister(s) \/ WaitReturns(s) \/ ExchangeEnds(s) \/ Cancel(s)
    \/ CloseOnCancel(s) \/ CloseConn(s) \/ ReleaseSlot(s)

PollStep(p) ==
    \/ \E a \in Agents : PollAuthenticate(p, a)
    \/ PollObtainQueue(p) \/ PollTake(p) \/ PollTakeLost(p) \/ PollExpire(p)

SocketStep(k) ==
    \/ \E a \in Agents, s \in Streams : Dial(k, a, s)
    \/ AttachRefused(k) \/ AttachStream(k) \/ BridgeEnds(k)
    \/ CompleteStream(k) \/ CheckDone(k) \/ SignalDone(k)

AdminStep(a) == DeleteRow(a) \/ DeleteFromHub(a) \/ Reconnect(a)

Next ==
    \/ \E s \in Streams : OpenerStep(s)
    \/ \E p \in Polls : PollStep(p)
    \/ \E k \in Sockets : SocketStep(k)
    \/ \E a \in Agents : AdminStep(a)

Spec == Init /\ [][Next]_vars

-----------------------------------------------------------------------------
(* Fairness: a goroutine that can take a step of its own takes it, a ready     *)
(* channel or a timer wakes its select, and reading or writing a connection    *)
(* that was closed ends the exchange or the bridge that uses it. Nothing is    *)
(* assumed of the browser, the agent, the administrator or an open connection. *)

Fairness ==
    /\ \A s \in Streams :
          /\ WF_vars(ObtainQueue(s) \/ Register(s))
          /\ WF_vars(Enqueue(s) \/ EnqueueFails(s))
          /\ WF_vars(SeeAttached(s) \/ GiveUp(s))
          /\ WF_vars(Unregister(s))
          /\ WF_vars(WaitReturns(s))
          /\ WF_vars(s \notin connOpen /\ ExchangeEnds(s))
          /\ WF_vars(CloseOnCancel(s))
          /\ WF_vars(CloseConn(s))
          /\ WF_vars(ReleaseSlot(s))
    /\ \A k \in Sockets :
          /\ WF_vars(AttachRefused(k) \/ AttachStream(k))
          /\ WF_vars(sock[k].pc = "bridging" /\ sock[k].stream \notin connOpen
                       /\ BridgeEnds(k))
          /\ WF_vars(CompleteStream(k))
          /\ WF_vars(CheckDone(k))
          /\ WF_vars(SignalDone(k))

FairSpec == Spec /\ Fairness

-----------------------------------------------------------------------------
(* Safety. *)

Serves(k, s) == sock[k].pc \in {"bridging", "completing"} /\ sock[k].stream = s

\* A goroutine that has taken session s out of the map and still owes it Done.
OwesDone(k, s) == sock[k].pc \in {"closing", "signal"} /\ sock[k].stream = s

WillClose(k, s) == OwesDone(k, s) \/ (Serves(k, s) /\ s \in streams)

Returned(s) == opener[s] = "leaving" /\ s \notin connOpen \cup holding

\* close(sess.Done) never runs on a channel that is already closed: the test of
\* CompleteStream and its close are two steps, taken after the lock is released,
\* and RemoveAgent closes the same channels under the lock.
NoDoubleClose == \A k \in Sockets : sock[k].pc = "signal" => sock[k].stream \notin done

\* Two sockets never bridge one session, although both may have passed
\* CanAttachStream before either called AttachStream.
OneBridge ==
    \A k, l \in Sockets : \A s \in Streams :
        Serves(k, s) /\ Serves(l, s) => k = l

\* Nobody waits in WaitStream for a Done that no one will close: the session is
\* still in the map and a bridge will complete it, or a goroutine that removed
\* it is about to close the channel.
WaiterHasCloser ==
    \A s \in Streams :
        opener[s] = "open" /\ s \notin done =>
            \E k \in Sockets : WillClose(k, s)

\* An entry of h.streams has a goroutine that will delete it: its opener, which
\* has not returned from StartStream, or the handler of its bridge.
SessionHasReaper ==
    \A s \in streams :
        \/ opener[s] \in {"registered", "waiting", "failing"}
        \/ \E k \in Sockets : Serves(k, s)

\* agentHTTPSlots bounds the HTTP pipes that exist, not only the handlers: the
\* slot is the last thing a handler gives back.
HTTPPipesBounded ==
    Cardinality({s \in connOpen : kind[s] = "http"}) <= Capacity["http"]

\* The inductive invariant behind these: what ties the session map, the two
\* channels of a session and the goroutines that will touch them.
InStartStream(s) == opener[s] \in {"registered", "waiting", "failing"}

\* An opener that is past streamQueue holds a queue.
QueueObtained ==
    \A s \in Streams :
        opener[s] \notin {"idle", "started", "leaving"} => openQ[s] # 0

\* Nothing of a session exists before its opener registers it.
FreshUntilRegistered ==
    \A s \in Streams :
        opener[s] \in {"idle", "started", "queued"} =>
            s \notin streams \cup attached \cup done

\* Done is closed only for sessions that have left the map.
DoneLeftMap == done \cap streams = {}

\* A socket works for a session it attached to, and no two for the same one.
SocketsAttached ==
    \A k \in Sockets : \A s \in Streams :
        Serves(k, s) \/ OwesDone(k, s) => s \in attached

OneSocket ==
    \A k, l \in Sockets : \A s \in Streams :
        /\ Serves(k, s) \/ OwesDone(k, s)
        /\ Serves(l, s) \/ OwesDone(l, s)
        => k = l

\* Who owes Done has taken the session out of the map.
OwedLeftMap ==
    \A k \in Sockets : \A s \in Streams : OwesDone(k, s) => s \notin streams

SessionsTended ==
    \A s \in streams : IF s \in attached
                       THEN \E k \in Sockets : Serves(k, s)
                       ELSE InStartStream(s)

AttachedEnds ==
    \A s \in attached \ done :
        opener[s] # "leaving" =>
            \E k \in Sockets : WillClose(k, s)

OpenWereAttached == \A s \in Streams : opener[s] = "open" => s \in attached

\* An opener that has not started has no kind and no connection; without a
\* queue there is no session.
StartInv ==
    \A s \in Streams :
        /\ opener[s] = "idle" => kind[s] = "none" /\ s \notin connOpen
        /\ opener[s] \in {"idle", "started"} => openQ[s] = 0
        /\ openQ[s] = 0 => s \notin streams \cup attached \cup done

\* A slot is held by an opener of a kind that has slots, no more of a kind than
\* there are, and by every HTTP opener whose pipe exists.
SlotInv ==
    /\ IsFiniteSet(holding)
    /\ \A s \in holding : opener[s] # "idle" /\ kind[s] \in SlotKinds
    /\ \A s \in connOpen : kind[s] = "http" => s \in holding
    /\ \A c \in SlotKinds : Cardinality(Holders(c)) <= Capacity[c]

\* Each conjunct is preserved by every step that starts where all of them hold.
Inv ==
    /\ TypeOK
    /\ QueueObtained
    /\ FreshUntilRegistered
    /\ DoneLeftMap
    /\ SocketsAttached
    /\ OneSocket
    /\ OwedLeftMap
    /\ SessionsTended
    /\ AttachedEnds
    /\ OpenWereAttached
    /\ NoDoubleClose
    /\ StartInv
    /\ SlotInv

-----------------------------------------------------------------------------
(* The hub implements StreamSessions. *)

Offered == {s \in Streams : openQ[s] # 0 /\ opener[s] # "queued"}

CallerView(s) ==
    CASE opener[s] = "open"                     -> "talking"
      [] InStartStream(s)                       -> "asking"
      [] opener[s] = "leaving" /\ openQ[s] # 0 -> "gone"
      [] OTHER                                  -> "out"

Sessions == INSTANCE StreamSessions WITH
    offered <- Offered,
    joined  <- attached,
    over    <- Offered \ streams,
    quit    <- {s \in Streams : kind[s] = "http" \/ s \in cancelled},
    caller  <- [s \in Streams |-> CallerView(s)]

\* Seen through this mapping, every step of the hub and of its callers is a step
\* of the session protocol or changes nothing of it.
ImplementsSessions == Sessions!Spec

-----------------------------------------------------------------------------
(* Liveness. *)

\* A TCP or terminal opener whose bridge has ended, or whose context is done,
\* returns and gives back its slot: no wake-up is lost between AttachStream,
\* CompleteStream, RemoveAgent and WaitStream.
WaitersReturn ==
    \A s \in Streams :
        (opener[s] = "open" /\ kind[s] # "http" /\ s \notin connOpen) ~> Returned(s)

\* Once its opener has returned, a stream leaves nothing behind: its session is
\* out of the map and no socket handler serves it, even when the agent attached
\* while the opener was giving up.
NothingLeftBehind ==
    \A s \in Streams :
        Returned(s) ~> (s \notin streams /\ ~\E k \in Sockets : Serves(k, s))

\* A caller whose context is done returns.
CancelledReturn == \A s \in Streams : (s \in cancelled) ~> Returned(s)

\* RemoveAgent ends the bridges of the TCP and terminal streams it removes.
RemovedWaitersEnd ==
    \A s \in Streams :
        (s \in done /\ kind[s] # "http") ~> ~\E k \in Sockets : Serves(k, s)

(* What the panel says of "reconnect" and the changelog of deleting an agent. *)

\* "streams y colas reiniciados" (bulk_actions.go:307): every stream of the agent
\* that RemoveAgent removed ends.
ReconnectRestartsStreams ==
    \A s \in Streams :
        (s \in done /\ AgentOf[s] \in live) ~> ~\E k \in Sockets : Serves(k, s)

\* "al eliminar un agente ahora se elimina también su estado efímero del hub"
\* (contexto/65-hardening-seguridad-rendimiento-ponytail.md): after deleteAgent
\* has called RemoveAgent, the hub has no queue for the agent.
DeletedAgentForgotten ==
    \A a \in Agents : a \notin live \cup deleting => queueOf[a] = 0

=============================================================================

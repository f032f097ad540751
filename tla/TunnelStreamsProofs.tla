------------------------ MODULE TunnelStreamsProofs ------------------------
(* Theorems about TunnelStreams for every value of its constants: its invariants, and *)
(* that the hub and its callers implement the session protocol of StreamSessions.    *)
EXTENDS TunnelStreams, FiniteSetTheorems, TLAPS

\* What a queue's map entry and its object are after h.streamQueue(a).
LEMMA QueueTyped ==
    ASSUME TypeOK, NEW a \in Agents, EnsureQueue(a)
    PROVE  /\ chans' \in Seq(Seq(Streams))
           /\ Len(chans) <= Len(chans')
           /\ QueueFor(a) \in 1..Len(chans')
           /\ queueOf' \in [Agents -> 0..Len(chans')]
  <1>1. CASE queueOf[a] = 0
    <2>1. chans' = Append(chans, <<>>)
      BY <1>1 DEF EnsureQueue
    <2>2. /\ chans' \in Seq(Seq(Streams))
          /\ Len(chans') = Len(chans) + 1
      BY <2>1 DEF TypeOK
    <2>3. QED
      BY <1>1, <2>2 DEF TypeOK, EnsureQueue, QueueFor
  <1>2. CASE queueOf[a] # 0
    BY <1>2 DEF TypeOK, EnsureQueue, QueueFor
  <1>3. QED
    BY <1>1, <1>2

\* Replacing the jobs of one queue keeps the queues well formed.
LEMMA JobsTyped ==
    ASSUME TypeOK, NEW q \in 1..Len(chans), NEW jobs \in Seq(Streams),
           chans' = [chans EXCEPT ![q] = jobs]
    PROVE  /\ chans' \in Seq(Seq(Streams))
           /\ Len(chans') = Len(chans)
  BY DEF TypeOK

\* The handlers of agentStreamPoll hold queues that exist: an index stays one as
\* the sequence of queues grows.
PollsTyped(n) ==
    poll \in [Polls -> {Idle}
                 \cup [pc : {"authenticated"}, agent : Agents]
                 \cup [pc : {"polling"}, agent : Agents, q : 1..n]]

LEMMA PollsStayTyped ==
    ASSUME NEW m \in Nat, NEW n \in Nat, m <= n, PollsTyped(m)
    PROVE  PollsTyped(n)
  BY DEF PollsTyped

\* The initial state has the types.
LEMMA TypeInit == Init => TypeOK
  BY BoundsAssumption DEF Init, TypeOK, OpenerPCs, Kinds, Idle

\* Steps of an opener keep the types.
LEMMA TypeOpener ==
    ASSUME TypeOK, QueueObtained, NEW s \in Streams, OpenerStep(s)
    PROVE  TypeOK'
  <1> USE AgentOfAssumption, CallersAssumption, MaxQAssumption
      DEF hubVars, queueVars, sessionVars, openerVars, callVars, connVars,
          agentVars, adminVars
  <1>1. ASSUME NEW c \in Callers, Start(s, c)
        PROVE  TypeOK'
    BY <1>1 DEF TypeOK, Start, OpenerPCs
  <1>2. ASSUME NEW c \in Callers \cap SlotKinds, Refuse(s, c)
        PROVE  TypeOK'
    BY <1>2 DEF TypeOK, Refuse, OpenerPCs
  <1>3. CASE ObtainQueue(s)
    <2>1. AgentOf[s] \in Agents /\ EnsureQueue(AgentOf[s])
      BY <1>3 DEF ObtainQueue
    <2>2. /\ chans' \in Seq(Seq(Streams))
          /\ Len(chans) <= Len(chans')
          /\ QueueFor(AgentOf[s]) \in 1..Len(chans')
          /\ queueOf' \in [Agents -> 0..Len(chans')]
      BY <2>1, QueueTyped
    <2>3. PollsTyped(Len(chans))
      BY DEF TypeOK, PollsTyped
    <2>4. PollsTyped(Len(chans'))
      BY <2>2, <2>3, PollsStayTyped DEF TypeOK
    <2>5. openQ' \in [Streams -> 0..Len(chans')]
      BY <2>2, <1>3 DEF TypeOK, ObtainQueue
    <2>6. QED
      BY <1>3, <2>2, <2>4, <2>5
         DEF TypeOK, ObtainQueue, PollsTyped, OpenerPCs
  <1>4. CASE Register(s)
    BY <1>4 DEF TypeOK, Register, OpenerPCs
  <1>5. CASE Enqueue(s)
    <2>1. openQ[s] \in 1..Len(chans)
      <3>1. opener[s] = "registered"
        BY <1>5 DEF Enqueue
      <3>2. openQ[s] # 0
        BY <3>1 DEF QueueObtained
      <3>3. QED
        BY <3>2 DEF TypeOK
    <2>2. Append(chans[openQ[s]], s) \in Seq(Streams)
      BY <2>1 DEF TypeOK
    <2>3. chans' \in Seq(Seq(Streams)) /\ Len(chans') = Len(chans)
      BY <1>5, <2>1, <2>2, JobsTyped DEF Enqueue
    <2>4. QED
      BY <1>5, <2>3 DEF TypeOK, Enqueue, OpenerPCs
  <1>6. CASE EnqueueFails(s)
    BY <1>6 DEF TypeOK, EnqueueFails, OpenerPCs
  <1>7. CASE SeeAttached(s)
    BY <1>7 DEF TypeOK, SeeAttached, OpenerPCs
  <1>8. CASE GiveUp(s)
    BY <1>8 DEF TypeOK, GiveUp, OpenerPCs
  <1>9. CASE Unregister(s)
    BY <1>9 DEF TypeOK, Unregister, OpenerPCs
  <1>10. CASE WaitReturns(s)
    BY <1>10 DEF TypeOK, WaitReturns, OpenerPCs
  <1>11. CASE ExchangeEnds(s)
    BY <1>11 DEF TypeOK, ExchangeEnds, OpenerPCs
  <1>12. CASE Cancel(s)
    BY <1>12 DEF TypeOK, Cancel
  <1>13. CASE CloseOnCancel(s)
    BY <1>13 DEF TypeOK, CloseOnCancel
  <1>14. CASE CloseConn(s)
    BY <1>14 DEF TypeOK, CloseConn
  <1>15. CASE ReleaseSlot(s)
    BY <1>15 DEF TypeOK, ReleaseSlot
  <1>16. QED
    BY <1>1, <1>2, <1>3, <1>4, <1>5, <1>6, <1>7, <1>8, <1>9, <1>10, <1>11,
       <1>12, <1>13, <1>14, <1>15 DEF OpenerStep

\* Steps of a poll handler keep the types.
LEMMA TypePoll ==
    ASSUME TypeOK, NEW p \in Polls, PollStep(p)
    PROVE  TypeOK'
  <1> USE DEF hubVars, queueVars, sessionVars, openerVars, callVars, connVars,
              agentVars, adminVars
  <1>1. ASSUME NEW a \in Agents, PollAuthenticate(p, a)
        PROVE  TypeOK'
    BY <1>1 DEF TypeOK, PollAuthenticate
  <1>2. CASE PollObtainQueue(p)
    <2>1. poll[p].agent \in Agents
      BY <1>2 DEF TypeOK, PollObtainQueue, Idle
    <2>2. /\ chans' \in Seq(Seq(Streams))
          /\ Len(chans) <= Len(chans')
          /\ QueueFor(poll[p].agent) \in 1..Len(chans')
          /\ queueOf' \in [Agents -> 0..Len(chans')]
      BY <2>1, <1>2, QueueTyped DEF PollObtainQueue
    <2>3. PollsTyped(Len(chans))
      BY DEF TypeOK, PollsTyped
    <2>4. Len(chans) \in Nat /\ Len(chans') \in Nat
      BY <2>2 DEF TypeOK
    <2>5. PollsTyped(Len(chans'))
      BY <2>2, <2>3, <2>4, PollsStayTyped
    <2>6. PollsTyped(Len(chans))'
      BY <1>2, <2>1, <2>2, <2>5 DEF PollsTyped, PollObtainQueue
    <2>7. QED
      BY <1>2, <2>2, <2>6 DEF TypeOK, PollObtainQueue, PollsTyped
  <1>3. CASE PollTake(p)
    <2>1. poll[p].q \in 1..Len(chans) /\ poll[p].agent \in Agents
      BY <1>3 DEF TypeOK, PollTake, Idle
    <2>2. chans[poll[p].q] \in Seq(Streams) /\ chans[poll[p].q] # <<>>
      BY <1>3, <2>1 DEF TypeOK, PollTake
    <2>3. /\ Tail(chans[poll[p].q]) \in Seq(Streams)
          /\ Head(chans[poll[p].q]) \in Streams
      BY <2>2
    <2>4. chans' \in Seq(Seq(Streams)) /\ Len(chans') = Len(chans)
      BY <1>3, <2>1, <2>3, JobsTyped DEF PollTake
    <2>5. held' \subseteq Agents \X Streams
      BY <1>3, <2>1, <2>3 DEF TypeOK, PollTake
    <2>6. poll' = [poll EXCEPT ![p] = Idle] /\ UNCHANGED <<queueOf, lost, sock>>
      BY <1>3 DEF PollTake
    <2>7. UNCHANGED <<openerVars, adminVars, sessionVars>>
      BY <1>3 DEF PollTake
    <2>8. QED
      BY <2>4, <2>5, <2>6, <2>7 DEF TypeOK
  <1>4. CASE PollTakeLost(p)
    <2>1. poll[p].q \in 1..Len(chans)
      BY <1>4 DEF TypeOK, PollTakeLost, Idle
    <2>2. chans[poll[p].q] \in Seq(Streams) /\ chans[poll[p].q] # <<>>
      BY <1>4, <2>1 DEF TypeOK, PollTakeLost
    <2>3. /\ Tail(chans[poll[p].q]) \in Seq(Streams)
          /\ Head(chans[poll[p].q]) \in Streams
      BY <2>2
    <2>4. chans' \in Seq(Seq(Streams)) /\ Len(chans') = Len(chans)
      BY <1>4, <2>1, <2>3, JobsTyped DEF PollTakeLost
    <2>5. QED
      BY <1>4, <2>3, <2>4 DEF TypeOK, PollTakeLost
  <1>5. CASE PollExpire(p)
    BY <1>5 DEF TypeOK, PollExpire
  <1>6. QED
    BY <1>1, <1>2, <1>3, <1>4, <1>5 DEF PollStep

\* Steps of a socket handler keep the types.
LEMMA TypeSocket ==
    ASSUME TypeOK, NEW k \in Sockets, SocketStep(k)
    PROVE  TypeOK'
  <1> USE DEF hubVars, queueVars, sessionVars, openerVars, callVars, connVars,
              agentVars, adminVars
  <1>1. ASSUME NEW a \in Agents, NEW s \in Streams, Dial(k, a, s)
        PROVE  TypeOK'
    BY <1>1 DEF TypeOK, Dial, SocketPCs
  <1>2. CASE AttachRefused(k)
    BY <1>2 DEF TypeOK, AttachRefused
  <1>3. CASE AttachStream(k)
    <2>1. sock[k] \in [pc : SocketPCs, agent : Agents, stream : Streams]
      BY <1>3 DEF TypeOK, AttachStream, Idle
    <2>2. QED
      BY <1>3, <2>1 DEF TypeOK, AttachStream, SocketPCs
  <1>4. CASE BridgeEnds(k)
    <2>1. sock[k] \in [pc : SocketPCs, agent : Agents, stream : Streams]
      BY <1>4 DEF TypeOK, BridgeEnds, Idle
    <2>2. QED
      BY <1>4, <2>1 DEF TypeOK, BridgeEnds, SocketPCs
  <1>5. CASE CompleteStream(k)
    <2>1. sock[k] \in [pc : SocketPCs, agent : Agents, stream : Streams]
      BY <1>5 DEF TypeOK, CompleteStream, Idle
    <2>2. QED
      BY <1>5, <2>1 DEF TypeOK, CompleteStream, SocketPCs
  <1>6. CASE CheckDone(k)
    <2>1. sock[k] \in [pc : SocketPCs, agent : Agents, stream : Streams]
      BY <1>6 DEF TypeOK, CheckDone, Idle
    <2>2. QED
      BY <1>6, <2>1 DEF TypeOK, CheckDone, SocketPCs
  <1>7. CASE SignalDone(k)
    <2>1. sock[k] \in [pc : SocketPCs, agent : Agents, stream : Streams]
      BY <1>7 DEF TypeOK, SignalDone, Idle
    <2>2. QED
      BY <1>7, <2>1 DEF TypeOK, SignalDone, SocketPCs
  <1>8. QED
    BY <1>1, <1>2, <1>3, <1>4, <1>5, <1>6, <1>7 DEF SocketStep

\* Steps of the administrator keep the types.
LEMMA TypeAdmin ==
    ASSUME TypeOK, NEW a \in Agents, AdminStep(a)
    PROVE  TypeOK'
  <1> USE DEF hubVars, queueVars, sessionVars, openerVars, callVars, connVars,
              agentVars, adminVars
  <1>1. CASE DeleteRow(a)
    BY <1>1 DEF TypeOK, DeleteRow
  <1>2. CASE DeleteFromHub(a)
    BY <1>2 DEF TypeOK, DeleteFromHub, RemoveAgent, SessionsOf
  <1>3. CASE Reconnect(a)
    BY <1>3, BoundsAssumption DEF TypeOK, Reconnect, RemoveAgent, SessionsOf
  <1>4. QED
    BY <1>1, <1>2, <1>3 DEF AdminStep

\* A step that changes nothing keeps the types.
LEMMA TypeStutter == TypeOK /\ UNCHANGED vars => TypeOK'
  BY DEF TypeOK, vars, hubVars, queueVars, sessionVars, openerVars, callVars,
         connVars, agentVars, adminVars

\* Every step keeps the types: Enqueue needs the queue its opener obtained.
LEMMA TypeStep == TypeOK /\ QueueObtained /\ [Next]_vars => TypeOK'
  BY TypeOpener, TypePoll, TypeSocket, TypeAdmin, TypeStutter DEF Next

-----------------------------------------------------------------------------
(* The session invariants. *)

SessionInv ==
    /\ QueueObtained
    /\ FreshUntilRegistered
    /\ DoneLeftMap
    /\ SocketsAttached
    /\ OneSocket
    /\ OwedLeftMap
    /\ SessionsTended
    /\ AttachedEnds
    /\ OpenWereAttached
    /\ NoDoubleClose

\* There is no session initially.
LEMMA SessionInit == Init => SessionInv
  BY DEF Init, SessionInv, QueueObtained, FreshUntilRegistered, DoneLeftMap,
         SocketsAttached, OneSocket, OwedLeftMap, SessionsTended, AttachedEnds,
         OpenWereAttached, NoDoubleClose, Serves, OwesDone, Idle

\* Steps that touch neither an opener's control, nor the sessions, nor a socket.
LEMMA SessionFrame ==
    ASSUME SessionInv, UNCHANGED <<opener, openQ, streams, attached, done, sock>>
    PROVE  SessionInv'
  BY DEF SessionInv, QueueObtained, FreshUntilRegistered, DoneLeftMap,
         SocketsAttached, OneSocket, OwedLeftMap, SessionsTended, AttachedEnds,
         OpenWereAttached, NoDoubleClose, Serves, OwesDone, WillClose,
         InStartStream

\* A step of opener s that leaves the sessions alone: it may not claim to be open
\* without the agent, nor leave StartStream with its session still in the map.
LEMMA SessionGoto ==
    ASSUME TypeOK, SessionInv, NEW s \in Streams, NEW pc \in OpenerPCs,
           opener' = [opener EXCEPT ![s] = pc],
           UNCHANGED <<streams, attached, done, sock>>,
           openQ' \in [Streams -> Nat],
           \A r \in Streams \ {s} : openQ'[r] = openQ[r],
           pc \notin {"idle", "started", "leaving"} => openQ'[s] # 0,
           pc \in {"idle", "started", "queued"} =>
               opener[s] \in {"idle", "started", "queued"},
           InStartStream(s) =>
               \/ pc \in {"registered", "waiting", "failing"}
               \/ s \in attached,
           opener[s] = "leaving" => pc = "leaving",
           pc = "open" => s \in attached
    PROVE  SessionInv'
  <1> USE DEF SessionInv
  <1>1. QueueObtained'
    BY DEF TypeOK, QueueObtained
  <1>2. FreshUntilRegistered'
    BY DEF TypeOK, FreshUntilRegistered
  <1>3. /\ DoneLeftMap'
        /\ SocketsAttached'
        /\ OneSocket'
        /\ OwedLeftMap'
        /\ NoDoubleClose'
    BY DEF DoneLeftMap, SocketsAttached, OneSocket, OwedLeftMap, NoDoubleClose,
           Serves, OwesDone
  <1>4. SessionsTended'
    BY DEF TypeOK, SessionsTended, Serves, InStartStream
  <1>5. AttachedEnds'
    BY DEF TypeOK, AttachedEnds, WillClose, Serves, OwesDone
  <1>6. OpenWereAttached'
    BY DEF TypeOK, OpenWereAttached
  <1>7. QED
    BY <1>1, <1>2, <1>3, <1>4, <1>5, <1>6

\* Steps of an opener keep the session invariants.
LEMMA SessionOpener ==
    ASSUME TypeOK, SessionInv, NEW s \in Streams, OpenerStep(s)
    PROVE  SessionInv'
  <1> USE AgentOfAssumption
      DEF hubVars, queueVars, sessionVars, openerVars, callVars, connVars,
          agentVars, adminVars
  <1>0. openQ \in [Streams -> Nat]
    BY DEF TypeOK
  <1>1. ASSUME NEW c \in Callers, Start(s, c)
        PROVE  SessionInv'
    <2>1. opener' = [opener EXCEPT ![s] = "started"] /\ opener[s] = "idle"
      BY <1>1 DEF Start
    <2>2. UNCHANGED <<openQ, streams, attached, done, sock>>
      BY <1>1 DEF Start
    <2>3. QED
      BY <1>0, <2>1, <2>2, SessionGoto DEF OpenerPCs, InStartStream
  <1>2. ASSUME NEW c \in Callers \cap SlotKinds, Refuse(s, c)
        PROVE  SessionInv'
    <2>1. opener' = [opener EXCEPT ![s] = "leaving"] /\ opener[s] = "idle"
      BY <1>2 DEF Refuse
    <2>2. UNCHANGED <<openQ, streams, attached, done, sock>>
      BY <1>2 DEF Refuse
    <2>3. QED
      BY <1>0, <2>1, <2>2, SessionGoto DEF OpenerPCs, InStartStream
  <1>3. CASE ObtainQueue(s)
    <2>1. opener' = [opener EXCEPT ![s] = "queued"] /\ opener[s] = "started"
      BY <1>3 DEF ObtainQueue
    <2>2. UNCHANGED <<streams, attached, done, sock>>
      BY <1>3 DEF ObtainQueue
    <2>3. QueueFor(AgentOf[s]) \in Nat \ {0}
      BY DEF QueueFor, TypeOK
    <2>4. openQ' = [openQ EXCEPT ![s] = QueueFor(AgentOf[s])]
      BY <1>3 DEF ObtainQueue
    <2>5. QED
      BY <1>0, <2>1, <2>2, <2>3, <2>4, SessionGoto DEF OpenerPCs, InStartStream
  <1>4. CASE Register(s)
    <2>1. /\ opener' = [opener EXCEPT ![s] = "registered"]
          /\ opener[s] = "queued"
          /\ streams' = streams \cup {s}
          /\ UNCHANGED <<openQ, attached, done, sock>>
      BY <1>4 DEF Register
    <2>2. s \notin streams \cup attached \cup done
      BY <2>1 DEF SessionInv, FreshUntilRegistered
    <2>3. /\ QueueObtained'
          /\ FreshUntilRegistered'
          /\ DoneLeftMap'
          /\ SocketsAttached'
          /\ OneSocket'
      BY <2>1, <2>2
         DEF TypeOK, SessionInv, QueueObtained, FreshUntilRegistered, DoneLeftMap,
             SocketsAttached, OneSocket, Serves, OwesDone
    <2>4. OwedLeftMap' /\ NoDoubleClose'
      BY <2>1, <2>2
         DEF TypeOK, SessionInv, OwedLeftMap, SocketsAttached, NoDoubleClose,
             Serves, OwesDone
    <2>5. SessionsTended'
      BY <2>1, <2>2 DEF TypeOK, SessionInv, SessionsTended, Serves, InStartStream
    <2>6. AttachedEnds' /\ OpenWereAttached'
      BY <2>1, <2>2
         DEF TypeOK, SessionInv, AttachedEnds, OpenWereAttached, WillClose, Serves,
             OwesDone
    <2>7. QED
      BY <2>3, <2>4, <2>5, <2>6 DEF SessionInv
  <1>5. CASE Unregister(s)
    <2>1. /\ opener' = [opener EXCEPT ![s] = "leaving"]
          /\ streams' = streams \ {s}
          /\ UNCHANGED <<openQ, attached, done, sock>>
      BY <1>5 DEF Unregister
    <2>2. /\ QueueObtained'
          /\ FreshUntilRegistered'
          /\ DoneLeftMap'
          /\ SocketsAttached'
          /\ OneSocket'
          /\ OwedLeftMap'
          /\ NoDoubleClose'
      BY <2>1
         DEF TypeOK, SessionInv, QueueObtained, FreshUntilRegistered, DoneLeftMap,
             SocketsAttached, OneSocket, OwedLeftMap, NoDoubleClose, Serves, OwesDone
    <2>3. SessionsTended'
      BY <2>1 DEF TypeOK, SessionInv, SessionsTended, Serves, InStartStream
    <2>4. AttachedEnds' /\ OpenWereAttached'
      BY <2>1
         DEF TypeOK, SessionInv, AttachedEnds, OpenWereAttached, WillClose, Serves,
             OwesDone
    <2>5. QED
      BY <2>2, <2>3, <2>4 DEF SessionInv
  <1>6. CASE Enqueue(s)
    <2>1. /\ opener' = [opener EXCEPT ![s] = "waiting"]
          /\ opener[s] \in {"registered", "waiting", "open"}
          /\ UNCHANGED <<openQ, streams, attached, done, sock>>
      BY <1>6 DEF Enqueue
    <2>2. openQ[s] # 0
      BY <2>1 DEF SessionInv, QueueObtained
    <2>3. QED
      BY <1>0, <2>1, <2>2, SessionGoto DEF OpenerPCs, InStartStream
  <1>7. CASE EnqueueFails(s)
    <2>1. /\ opener' = [opener EXCEPT ![s] = "failing"]
          /\ opener[s] \in {"registered", "waiting", "open"}
          /\ UNCHANGED <<openQ, streams, attached, done, sock>>
      BY <1>7 DEF EnqueueFails
    <2>2. openQ[s] # 0
      BY <2>1 DEF SessionInv, QueueObtained
    <2>3. QED
      BY <1>0, <2>1, <2>2, SessionGoto DEF OpenerPCs, InStartStream
  <1>8. CASE SeeAttached(s)
    <2>1. /\ opener' = [opener EXCEPT ![s] = "open"]
          /\ opener[s] \in {"registered", "waiting", "open"}
          /\ UNCHANGED <<openQ, streams, attached, done, sock>>
      BY <1>8 DEF SeeAttached
    <2>2. openQ[s] # 0
      BY <2>1 DEF SessionInv, QueueObtained
    <2>3. s \in attached
      BY <1>8 DEF SeeAttached
    <2>4. QED
      BY <1>0, <2>1, <2>2, <2>3, SessionGoto DEF OpenerPCs, InStartStream
  <1>9. CASE GiveUp(s)
    <2>1. /\ opener' = [opener EXCEPT ![s] = "failing"]
          /\ opener[s] \in {"registered", "waiting", "open"}
          /\ UNCHANGED <<openQ, streams, attached, done, sock>>
      BY <1>9 DEF GiveUp
    <2>2. openQ[s] # 0
      BY <2>1 DEF SessionInv, QueueObtained
    <2>3. QED
      BY <1>0, <2>1, <2>2, SessionGoto DEF OpenerPCs, InStartStream
  <1>10. CASE WaitReturns(s)
    <2>1. /\ opener' = [opener EXCEPT ![s] = "leaving"]
          /\ opener[s] \in {"registered", "waiting", "open"}
          /\ UNCHANGED <<openQ, streams, attached, done, sock>>
      BY <1>10 DEF WaitReturns
    <2>2. openQ[s] # 0
      BY <2>1 DEF SessionInv, QueueObtained
    <2>3. opener[s] = "open"
      BY <1>10 DEF WaitReturns
    <2>4. QED
      BY <1>0, <2>1, <2>2, <2>3, SessionGoto DEF OpenerPCs, InStartStream
  <1>11. CASE ExchangeEnds(s)
    <2>1. /\ opener' = [opener EXCEPT ![s] = "leaving"]
          /\ opener[s] \in {"registered", "waiting", "open"}
          /\ UNCHANGED <<openQ, streams, attached, done, sock>>
      BY <1>11 DEF ExchangeEnds
    <2>2. openQ[s] # 0
      BY <2>1 DEF SessionInv, QueueObtained
    <2>3. opener[s] = "open"
      BY <1>11 DEF ExchangeEnds
    <2>4. QED
      BY <1>0, <2>1, <2>2, <2>3, SessionGoto DEF OpenerPCs, InStartStream
  <1>12. CASE Cancel(s)
    BY <1>12, SessionFrame DEF Cancel
  <1>13. CASE CloseOnCancel(s)
    BY <1>13, SessionFrame DEF CloseOnCancel
  <1>14. CASE CloseConn(s)
    BY <1>14, SessionFrame DEF CloseConn
  <1>15. CASE ReleaseSlot(s)
    BY <1>15, SessionFrame DEF ReleaseSlot
  <1>16. QED
    BY <1>1, <1>2, <1>3, <1>4, <1>5, <1>6, <1>7, <1>8, <1>9, <1>10, <1>11, <1>12, <1>13, <1>14, <1>15
       DEF OpenerStep

\* Steps of a socket handler keep the session invariants.
LEMMA SessionSocket ==
    ASSUME TypeOK, SessionInv, NEW k \in Sockets, SocketStep(k)
    PROVE  SessionInv'
  <1> USE DEF hubVars, queueVars, sessionVars, openerVars, callVars, connVars,
              agentVars, adminVars, SessionInv
  <1>1. ASSUME NEW a \in Agents, NEW s \in Streams, Dial(k, a, s)
        PROVE  SessionInv'
    <2>1. /\ sock[k].pc = "idle"
          /\ sock' = [sock EXCEPT ![k] =
                        [pc |-> "accepting", agent |-> a, stream |-> s]]
          /\ UNCHANGED <<opener, openQ, streams, attached, done>>
      BY <1>1 DEF Dial, Idle
    <2>2. \A l \in Sockets : \A r \in Streams :
              /\ Serves(l, r)' = Serves(l, r)
              /\ OwesDone(l, r)' = OwesDone(l, r)
      BY <2>1 DEF TypeOK, Serves, OwesDone
    <2>3. NoDoubleClose'
      BY <2>1 DEF TypeOK, NoDoubleClose
    <2>4. QED
      BY <2>1, <2>2, <2>3
         DEF QueueObtained, FreshUntilRegistered, DoneLeftMap, SocketsAttached,
             OneSocket, OwedLeftMap, SessionsTended, AttachedEnds,
             OpenWereAttached, WillClose, InStartStream, TypeOK
  <1>2. CASE AttachRefused(k)
    <2>1. /\ sock[k].pc = "accepting"
          /\ sock' = [sock EXCEPT ![k] = Idle]
          /\ UNCHANGED <<opener, openQ, streams, attached, done>>
      BY <1>2 DEF AttachRefused
    <2>2. \A l \in Sockets : \A r \in Streams :
              /\ Serves(l, r)' = Serves(l, r)
              /\ OwesDone(l, r)' = OwesDone(l, r)
      BY <2>1 DEF TypeOK, Serves, OwesDone, Idle
    <2>3. NoDoubleClose'
      BY <2>1 DEF TypeOK, NoDoubleClose, Idle
    <2>4. QED
      BY <2>1, <2>2, <2>3
         DEF QueueObtained, FreshUntilRegistered, DoneLeftMap, SocketsAttached,
             OneSocket, OwedLeftMap, SessionsTended, AttachedEnds,
             OpenWereAttached, WillClose, InStartStream, TypeOK
  <1>3. CASE AttachStream(k)
    <2> DEFINE s == sock[k].stream
    <2>1. /\ sock[k] \in [pc : SocketPCs, agent : Agents, stream : Streams]
          /\ sock[k].pc = "accepting"
          /\ s \in streams /\ s \notin attached
          /\ attached' = attached \cup {s}
          /\ sock' = [sock EXCEPT ![k].pc = "bridging"]
          /\ UNCHANGED <<opener, openQ, streams, done>>
      BY <1>3 DEF AttachStream, CanAttach, TypeOK, Idle
    <2>2. \A r \in Streams : Serves(k, r)' <=> r = s
      BY <2>1 DEF TypeOK, Serves
    <2>3. \A r \in Streams : ~OwesDone(k, r)' /\ ~OwesDone(k, r) /\ ~Serves(k, r)
      BY <2>1 DEF TypeOK, OwesDone, Serves
    <2>4. \A l \in Sockets \ {k} : \A r \in Streams :
              /\ Serves(l, r)' = Serves(l, r)
              /\ OwesDone(l, r)' = OwesDone(l, r)
      BY <2>1 DEF TypeOK, Serves, OwesDone
    <2>5. \A l \in Sockets : ~Serves(l, s) /\ ~OwesDone(l, s)
      BY <2>1 DEF SocketsAttached, TypeOK
    <2>6. NoDoubleClose'
      BY <2>1 DEF TypeOK, NoDoubleClose
    <2>7. SocketsAttached' /\ OneSocket' /\ OwedLeftMap'
      BY <2>1, <2>2, <2>3, <2>4, <2>5
         DEF SocketsAttached, OneSocket, OwedLeftMap
    <2>8. SessionsTended' /\ AttachedEnds'
      BY <2>1, <2>2, <2>3, <2>4, <2>5
         DEF SessionsTended, AttachedEnds, WillClose, InStartStream, TypeOK
    <2>9. QueueObtained' /\ DoneLeftMap' /\ OpenWereAttached'
      BY <2>1 DEF QueueObtained, DoneLeftMap, OpenWereAttached
    <2>10. FreshUntilRegistered'
      BY <2>1 DEF FreshUntilRegistered, TypeOK
    <2>11. QED
      BY <2>6, <2>7, <2>8, <2>9, <2>10
  <1>4. CASE BridgeEnds(k)
    <2>1. /\ sock[k] \in [pc : SocketPCs, agent : Agents, stream : Streams]
          /\ sock[k].pc = "bridging"
          /\ sock' = [sock EXCEPT ![k].pc = "completing"]
          /\ UNCHANGED <<opener, openQ, streams, attached, done>>
      BY <1>4 DEF BridgeEnds, TypeOK, Idle
    <2>2. \A l \in Sockets : \A r \in Streams :
              /\ Serves(l, r)' = Serves(l, r)
              /\ OwesDone(l, r)' = OwesDone(l, r)
      BY <2>1 DEF TypeOK, Serves, OwesDone
    <2>3. NoDoubleClose'
      BY <2>1 DEF TypeOK, NoDoubleClose
    <2>4. QED
      BY <2>1, <2>2, <2>3
         DEF QueueObtained, FreshUntilRegistered, DoneLeftMap, SocketsAttached,
             OneSocket, OwedLeftMap, SessionsTended, AttachedEnds,
             OpenWereAttached, WillClose, InStartStream, TypeOK
  <1>5. CASE CompleteStream(k)
    <2> DEFINE s == sock[k].stream
    <2>1. /\ sock[k] \in [pc : SocketPCs, agent : Agents, stream : Streams]
          /\ sock[k].pc = "completing"
          /\ streams' = streams \ {s}
          /\ UNCHANGED <<opener, openQ, attached, done>>
      BY <1>5 DEF CompleteStream, TypeOK, Idle
    <2>2. /\ IF s \in streams
             THEN sock'[k].pc = "closing" /\ sock'[k].stream = s
             ELSE sock'[k].pc = "idle"
          /\ \A l \in Sockets \ {k} : sock'[l] = sock[l]
      BY <1>5, <2>1 DEF CompleteStream, TypeOK, Idle
    <2>3. \A r \in Streams : /\ ~Serves(k, r)'
                             /\ OwesDone(k, r)' <=> (r = s /\ s \in streams)
                             /\ Serves(k, r) <=> r = s
                             /\ ~OwesDone(k, r)
      BY <2>1, <2>2 DEF TypeOK, Serves, OwesDone
    <2>4. \A l \in Sockets \ {k} : \A r \in Streams :
              /\ Serves(l, r)' = Serves(l, r)
              /\ OwesDone(l, r)' = OwesDone(l, r)
      BY <2>2 DEF TypeOK, Serves, OwesDone
    <2>5. NoDoubleClose'
      BY <2>1, <2>2 DEF TypeOK, NoDoubleClose
    <2>6. SocketsAttached' /\ OneSocket' /\ OwedLeftMap'
      BY <2>1, <2>3, <2>4 DEF SocketsAttached, OneSocket, OwedLeftMap
    <2>7. SessionsTended'
      BY <2>1, <2>3, <2>4 DEF SessionsTended, InStartStream, TypeOK
    <2>8. AttachedEnds'
      <3>1. \A l \in Sockets : \A r \in Streams :
                WillClose(l, r) => WillClose(l, r)'
        BY <2>1, <2>3, <2>4 DEF WillClose, OneSocket
      <3>2. QED
        BY <2>1, <3>1 DEF AttachedEnds, TypeOK
    <2>9. /\ QueueObtained'
          /\ DoneLeftMap'
          /\ OpenWereAttached'
          /\ FreshUntilRegistered'
      BY <2>1 DEF QueueObtained, DoneLeftMap, OpenWereAttached,
                  FreshUntilRegistered
    <2>10. QED
      BY <2>5, <2>6, <2>7, <2>8, <2>9
  <1>6. CASE CheckDone(k)
    <2> DEFINE s == sock[k].stream
    <2>1. /\ sock[k] \in [pc : SocketPCs, agent : Agents, stream : Streams]
          /\ sock[k].pc = "closing"
          /\ UNCHANGED <<opener, openQ, streams, attached, done>>
      BY <1>6 DEF CheckDone, TypeOK, Idle
    <2>2. /\ IF s \in done
             THEN sock'[k].pc = "idle"
             ELSE sock'[k].pc = "signal" /\ sock'[k].stream = s
          /\ \A l \in Sockets \ {k} : sock'[l] = sock[l]
      BY <1>6, <2>1 DEF CheckDone, TypeOK, Idle
    <2>3. \A l \in Sockets : \A r \in Streams :
              /\ Serves(l, r)' = Serves(l, r)
              /\ OwesDone(l, r)' => OwesDone(l, r)
              /\ r \notin done => OwesDone(l, r)' = OwesDone(l, r)
      BY <2>1, <2>2 DEF TypeOK, Serves, OwesDone
    <2>4. NoDoubleClose'
      BY <2>1, <2>2 DEF TypeOK, NoDoubleClose
    <2>5. QED
      BY <2>1, <2>3, <2>4
         DEF QueueObtained, FreshUntilRegistered, DoneLeftMap, SocketsAttached,
             OneSocket, OwedLeftMap, SessionsTended, AttachedEnds,
             OpenWereAttached, WillClose, InStartStream, TypeOK
  <1>7. CASE SignalDone(k)
    <2> DEFINE s == sock[k].stream
    <2>1. /\ sock[k] \in [pc : SocketPCs, agent : Agents, stream : Streams]
          /\ sock[k].pc = "signal"
          /\ done' = done \cup {s}
          /\ sock' = [sock EXCEPT ![k] = Idle]
          /\ UNCHANGED <<opener, openQ, streams, attached>>
      BY <1>7 DEF SignalDone, TypeOK, Idle
    <2>2. s \in attached /\ s \notin streams /\ OwesDone(k, s)
      BY <2>1 DEF OwesDone, SocketsAttached, OwedLeftMap
    <2>3. \A l \in Sockets : \A r \in Streams :
              /\ Serves(l, r)' = Serves(l, r)
              /\ OwesDone(l, r)' => OwesDone(l, r)
              /\ r # s => OwesDone(l, r)' = OwesDone(l, r)
      BY <2>1 DEF TypeOK, Serves, OwesDone, Idle
    <2>4. NoDoubleClose'
      <3>1. \A l \in Sockets \ {k} : sock[l].pc = "signal" => sock[l].stream # s
        BY <2>1, <2>2 DEF OneSocket, OwesDone
      <3>2. QED
        BY <2>1, <3>1 DEF TypeOK, NoDoubleClose, Idle
    <2>5. FreshUntilRegistered' /\ DoneLeftMap'
      BY <2>1, <2>2 DEF FreshUntilRegistered, DoneLeftMap, TypeOK
    <2>6. QED
      BY <2>1, <2>3, <2>4, <2>5
         DEF QueueObtained, SocketsAttached, OneSocket, OwedLeftMap,
             SessionsTended, AttachedEnds, OpenWereAttached, WillClose,
             InStartStream, TypeOK
  <1>8. QED
    BY <1>1, <1>2, <1>3, <1>4, <1>5, <1>6, <1>7 DEF SocketStep

\* Removing an agent keeps the session invariants: it ends sessions that are still
\* in the map, so none whose Done channel a socket handler is about to close.
LEMMA SessionAdmin ==
    ASSUME TypeOK, SessionInv, NEW a \in Agents, AdminStep(a)
    PROVE  SessionInv'
  <1> USE DEF hubVars, queueVars, sessionVars, openerVars, callVars, connVars,
              agentVars, adminVars
  <1>1. CASE DeleteRow(a)
    BY <1>1, SessionFrame DEF DeleteRow
  <1>2. ASSUME RemoveAgent(a), UNCHANGED <<opener, openQ, sock>>
        PROVE  SessionInv'
    <2> USE DEF SessionInv
    <2>1. /\ streams' = streams \ SessionsOf(a)
          /\ done' = done \cup SessionsOf(a)
          /\ SessionsOf(a) \subseteq streams
          /\ attached' = attached
      BY <1>2 DEF RemoveAgent, SessionsOf
    <2>2. \A k \in Sockets : \A s \in Streams :
              Serves(k, s)' = Serves(k, s) /\ OwesDone(k, s)' = OwesDone(k, s)
      BY <1>2 DEF Serves, OwesDone
    <2>3. NoDoubleClose'
      BY <1>2, <2>1 DEF NoDoubleClose, OwedLeftMap, OwesDone, TypeOK, Idle
    <2>4. SessionsTended' /\ AttachedEnds'
      BY <1>2, <2>1, <2>2
         DEF SessionsTended, AttachedEnds, WillClose, InStartStream, TypeOK
    <2>5. /\ QueueObtained'
          /\ FreshUntilRegistered'
          /\ DoneLeftMap'
          /\ OpenWereAttached'
      BY <1>2, <2>1
         DEF QueueObtained, FreshUntilRegistered, DoneLeftMap, OpenWereAttached
    <2>6. SocketsAttached' /\ OneSocket' /\ OwedLeftMap'
      BY <2>1, <2>2 DEF SocketsAttached, OneSocket, OwedLeftMap
    <2>7. QED
      BY <2>3, <2>4, <2>5, <2>6
  <1>3. CASE DeleteFromHub(a)
    BY <1>2, <1>3 DEF DeleteFromHub
  <1>4. CASE Reconnect(a)
    BY <1>2, <1>4 DEF Reconnect
  <1>5. QED
    BY <1>1, <1>3, <1>4 DEF AdminStep

\* Steps of a poll handler keep the session invariants: they move jobs, not sessions.
LEMMA SessionPoll ==
    ASSUME SessionInv, NEW p \in Polls, PollStep(p)
    PROVE  SessionInv'
  <1>1. UNCHANGED <<opener, openQ, streams, attached, done, sock>>
    BY DEF PollStep, PollAuthenticate, PollObtainQueue, PollTake, PollTakeLost,
           PollExpire, hubVars, queueVars, sessionVars, openerVars, callVars,
           adminVars
  <1>2. QED
    BY <1>1, SessionFrame

-----------------------------------------------------------------------------
(* The invariants of the openers and of their slots. *)

\* Before any opener has started there is nothing to hold.
LEMMA CallerInit == Init => StartInv /\ SlotInv
  <1> SUFFICES ASSUME Init
               PROVE  StartInv /\ SlotInv
    OBVIOUS
  <1>1. StartInv
    BY DEF Init, StartInv
  <1>2. IsFiniteSet(holding) /\ \A c \in SlotKinds : Cardinality(Holders(c)) = 0
    BY FS_EmptySet DEF Init, Holders
  <1>3. QED
    BY <1>1, <1>2, CapacityAssumption DEF Init, SlotInv

\* Steps of an opener that has started keep StartInv: only streamQueue gives it a
\* queue and only Register makes its session.
LEMMA StartStep ==
    ASSUME TypeOK, StartInv, FreshUntilRegistered, DoneLeftMap, SocketsAttached,
           QueueObtained, [Next]_vars
    PROVE  StartInv'
  <1> USE DEF hubVars, queueVars, sessionVars, openerVars, callVars, connVars,
              agentVars, adminVars
  <1>1. ASSUME NEW s \in Streams, OpenerStep(s)
        PROVE  StartInv'
    <2>1. ASSUME NEW c \in Callers, Start(s, c) \/ Refuse(s, c)
          PROVE  StartInv'
      BY <2>1 DEF TypeOK, StartInv, Start, Refuse
    <2>2. CASE ObtainQueue(s)
      <3>1. /\ opener[s] = "started"
            /\ opener' = [opener EXCEPT ![s] = "queued"]
            /\ \A r \in Streams \ {s} : openQ'[r] = openQ[r]
            /\ UNCHANGED <<kind, connOpen, streams, attached, done>>
        BY <2>2 DEF TypeOK, ObtainQueue
      <3>2. QED
        BY <3>1 DEF TypeOK, StartInv, FreshUntilRegistered
    <2>3. CASE Register(s)
      <3>1. openQ[s] # 0
        BY <2>3 DEF Register, QueueObtained
      <3>2. QED
        BY <2>3, <3>1 DEF TypeOK, StartInv, Register
    <2>4. CASE Enqueue(s) \/ EnqueueFails(s) \/ SeeAttached(s) \/ GiveUp(s)
      BY <2>4 DEF TypeOK, StartInv, Enqueue, EnqueueFails, SeeAttached, GiveUp
    <2>5. CASE Unregister(s) \/ WaitReturns(s) \/ ExchangeEnds(s)
      BY <2>5 DEF TypeOK, StartInv, Unregister, WaitReturns, ExchangeEnds
    <2>6. CASE Cancel(s) \/ CloseOnCancel(s) \/ CloseConn(s) \/ ReleaseSlot(s)
      BY <2>6 DEF TypeOK, StartInv, Cancel, CloseOnCancel, CloseConn, ReleaseSlot
    <2>7. QED
      BY <1>1, <2>1, <2>2, <2>3, <2>4, <2>5, <2>6 DEF OpenerStep
  <1>2. ASSUME NEW p \in Polls, PollStep(p)
        PROVE  StartInv'
    BY <1>2 DEF PollStep, PollAuthenticate, PollObtainQueue, PollTake,
                PollTakeLost, PollExpire, StartInv
  <1>3. ASSUME NEW k \in Sockets, SocketStep(k)
        PROVE  StartInv'
    <2>1. CASE (\E a \in Agents, s \in Streams : Dial(k, a, s)) \/ AttachRefused(k)
               \/ CheckDone(k)
      BY <2>1 DEF Dial, AttachRefused, CheckDone, StartInv
    <2>2. CASE AttachStream(k)
      BY <2>2 DEF AttachStream, CanAttach, StartInv
    <2>3. CASE BridgeEnds(k) \/ CompleteStream(k)
      BY <2>3 DEF BridgeEnds, CompleteStream, StartInv
    <2>4. CASE SignalDone(k)
      <3>1. /\ sock[k].stream \in Streams
            /\ OwesDone(k, sock[k].stream)
        BY <2>4 DEF SignalDone, TypeOK, Idle, OwesDone
      <3>2. sock[k].stream \in attached
        BY <3>1 DEF SocketsAttached
      <3>3. QED
        BY <2>4, <3>2 DEF SignalDone, StartInv
    <2>5. QED
      BY <1>3, <2>1, <2>2, <2>3, <2>4 DEF SocketStep
  <1>4. ASSUME NEW a \in Agents, AdminStep(a)
        PROVE  StartInv'
    BY <1>4 DEF AdminStep, DeleteRow, DeleteFromHub, Reconnect, RemoveAgent,
                SessionsOf, StartInv
  <1>5. CASE UNCHANGED vars
    BY <1>5 DEF vars, StartInv
  <1>6. QED
    BY <1>1, <1>2, <1>3, <1>4, <1>5 DEF Next

\* A slot is taken only while one is free, and an HTTP pipe is closed before the
\* slot behind it is given back.
LEMMA SlotStep ==
    ASSUME TypeOK, StartInv, SlotInv, [Next]_vars
    PROVE  SlotInv'
  <1> USE DEF hubVars, queueVars, sessionVars, openerVars, callVars, connVars,
              agentVars, adminVars
  <1>1. ASSUME UNCHANGED <<kind, holding>>, connOpen' \subseteq connOpen,
               \A r \in Streams : opener'[r] = "idle" => opener[r] = "idle"
        PROVE  SlotInv'
    BY <1>1 DEF SlotInv, Holders, TypeOK
  <1>2. ASSUME NEW s \in Streams, NEW c \in Callers, Start(s, c)
        PROVE  SlotInv'
    <2>1. /\ opener[s] = "idle" /\ opener' = [opener EXCEPT ![s] = "started"]
          /\ kind' = [kind EXCEPT ![s] = c]
          /\ holding' = IF c \in SlotKinds THEN holding \cup {s} ELSE holding
          /\ connOpen' = connOpen \cup {s}
          /\ c \in SlotKinds => SlotFree(c)
      BY <1>2 DEF Start
    <2>2. s \notin holding /\ holding \subseteq Streams
      BY <2>1 DEF SlotInv, TypeOK
    <2>3. \A d \in SlotKinds : Holders(d)' = IF d = c THEN Holders(d) \cup {s}
                                                     ELSE Holders(d)
      BY <2>1, <2>2 DEF Holders, TypeOK
    <2>4. IsFiniteSet(holding')
      BY <2>1, FS_AddElement DEF SlotInv
    <2>5. ASSUME NEW d \in SlotKinds
          PROVE  Cardinality(Holders(d)') <= Capacity[d]
      <3>1. IsFiniteSet(Holders(d))
        BY FS_Subset DEF SlotInv, Holders
      <3>2. Cardinality(Holders(d)) \in Nat
        BY <3>1, FS_CardinalityType
      <3>3. s \notin Holders(d)
        BY <2>2 DEF Holders
      <3>4. Cardinality(Holders(d) \cup {s}) = Cardinality(Holders(d)) + 1
        BY <3>1, <3>3, FS_AddElement
      <3>5. CASE d = c
        <4>1. Cardinality(Holders(d)) < Capacity[d]
          BY <2>1, <3>5 DEF SlotFree
        <4>2. Holders(d)' = Holders(d) \cup {s}
          BY <2>3, <3>5
        <4>3. QED
          BY <3>2, <3>4, <4>1, <4>2, CapacityAssumption
      <3>6. CASE d # c
        BY <2>3, <3>6 DEF SlotInv
      <3>7. QED
        BY <3>5, <3>6
    <2>6. \A r \in holding' : opener'[r] # "idle" /\ kind'[r] \in SlotKinds
      BY <2>1, <2>2 DEF SlotInv, TypeOK
    <2>7. \A r \in connOpen' : kind'[r] = "http" => r \in holding'
      BY <2>1 DEF SlotInv, TypeOK, SlotKinds
    <2>8. QED
      BY <2>4, <2>5, <2>6, <2>7 DEF SlotInv
  <1>3. ASSUME NEW s \in Streams, NEW c \in Callers \cap SlotKinds, Refuse(s, c)
        PROVE  SlotInv'
    <2>1. /\ opener[s] = "idle" /\ opener' = [opener EXCEPT ![s] = "leaving"]
          /\ kind' = [kind EXCEPT ![s] = c]
          /\ holding' = holding
          /\ connOpen' = IF c = "tcp" THEN connOpen \cup {s} ELSE connOpen
      BY <1>3 DEF Refuse
    <2>2. s \notin holding /\ s \notin connOpen /\ holding \subseteq Streams
      BY <2>1 DEF SlotInv, StartInv, TypeOK
    <2>3. \A d \in SlotKinds : Holders(d)' = Holders(d)
      BY <2>1, <2>2 DEF Holders, TypeOK
    <2>4. \A r \in connOpen' : kind'[r] = "http" => r \in holding'
      BY <2>1, <2>2 DEF SlotInv, TypeOK
    <2>5. QED
      BY <2>1, <2>2, <2>3, <2>4 DEF SlotInv, TypeOK
  <1>4. ASSUME NEW s \in Streams, ReleaseSlot(s)
        PROVE  SlotInv'
    <2>1. /\ holding' = holding \ {s}
          /\ UNCHANGED <<opener, kind, connOpen>>
          /\ kind[s] = "http" => s \notin connOpen
      BY <1>4 DEF ReleaseSlot
    <2>2. IsFiniteSet(holding')
      BY <2>1, FS_Subset DEF SlotInv
    <2>3. ASSUME NEW d \in SlotKinds
          PROVE  Cardinality(Holders(d)') <= Capacity[d]
      <3>1. IsFiniteSet(Holders(d)) /\ Holders(d)' \subseteq Holders(d)
        BY <2>1, FS_Subset DEF SlotInv, Holders
      <3>2. Cardinality(Holders(d)') <= Cardinality(Holders(d))
        BY <3>1, FS_Subset
      <3>3. /\ Cardinality(Holders(d)) \in Nat
            /\ Cardinality(Holders(d)') \in Nat
        BY <3>1, FS_Subset, FS_CardinalityType
      <3>4. QED
        BY <3>2, <3>3, CapacityAssumption DEF SlotInv
    <2>4. QED
      BY <2>1, <2>2, <2>3 DEF SlotInv
  <1>5. ASSUME NEW s \in Streams, OpenerStep(s)
        PROVE  SlotInv'
    <2>1. CASE ObtainQueue(s) \/ Register(s) \/ Enqueue(s) \/ EnqueueFails(s)
               \/ SeeAttached(s) \/ GiveUp(s)
      BY <1>1, <2>1 DEF TypeOK, ObtainQueue, Register, Enqueue, EnqueueFails,
                        SeeAttached, GiveUp
    <2>2. CASE Unregister(s) \/ WaitReturns(s) \/ ExchangeEnds(s) \/ Cancel(s)
               \/ CloseOnCancel(s) \/ CloseConn(s)
      BY <1>1, <2>2 DEF TypeOK, Unregister, WaitReturns, ExchangeEnds, Cancel,
                        CloseOnCancel, CloseConn
    <2>3. QED
      BY <1>2, <1>3, <1>4, <1>5, <2>1, <2>2 DEF OpenerStep
  <1>6. ASSUME NEW p \in Polls, PollStep(p)
        PROVE  SlotInv'
    BY <1>1, <1>6 DEF PollStep, PollAuthenticate, PollObtainQueue, PollTake,
                      PollTakeLost, PollExpire
  <1>7. ASSUME NEW k \in Sockets, SocketStep(k)
        PROVE  SlotInv'
    BY <1>1, <1>7 DEF SocketStep, Dial, AttachRefused, AttachStream, BridgeEnds,
                      CompleteStream, CheckDone, SignalDone
  <1>8. ASSUME NEW a \in Agents, AdminStep(a)
        PROVE  SlotInv'
    BY <1>1, <1>8 DEF AdminStep, DeleteRow, DeleteFromHub, Reconnect
  <1>9. CASE UNCHANGED vars
    BY <1>1, <1>9 DEF vars
  <1>10. QED
    BY <1>5, <1>6, <1>7, <1>8, <1>9 DEF Next

-----------------------------------------------------------------------------
(* The inductive invariant. *)

\* Every step from a state that satisfies Inv leads to one that does.
LEMMA InvStep == Inv /\ [Next]_vars => Inv'
  <1> SUFFICES ASSUME Inv, [Next]_vars
               PROVE  Inv'
    OBVIOUS
  <1>1. TypeOK /\ SessionInv /\ StartInv /\ SlotInv
    BY DEF Inv, SessionInv
  <1>2. TypeOK'
    BY <1>1, TypeStep DEF SessionInv
  <1>3. SessionInv'
    <2>1. CASE UNCHANGED vars
      BY <1>1, <2>1, SessionFrame
         DEF vars, hubVars, sessionVars, openerVars, callVars, agentVars
    <2>2. CASE Next
      BY <1>1, <2>2, SessionOpener, SessionPoll, SessionSocket, SessionAdmin DEF Next
    <2>3. QED
      BY <2>1, <2>2
  <1>4. StartInv' /\ SlotInv'
    BY <1>1, StartStep, SlotStep DEF SessionInv
  <1>5. QED
    BY <1>2, <1>3, <1>4 DEF Inv, SessionInv

\* Every reachable state of the hub and of its callers satisfies the inductive
\* invariant.
THEOREM Invariance == Spec => []Inv
  <1>1. Init => Inv
    BY TypeInit, SessionInit, CallerInit DEF Inv, SessionInv
  <1>2. QED
    BY <1>1, InvStep, PTL DEF Spec

\* The hub and the goroutines around it keep the types of their state.
THEOREM TypeCorrect == Spec => []TypeOK
  <1>1. Inv => TypeOK
    BY DEF Inv
  <1>2. QED
    BY <1>1, Invariance, PTL

\* No goroutine closes the Done channel of a session twice, which would panic the
\* server: CompleteStream and RemoveAgent may run for the same session.
THEOREM NeverDoubleClose == Spec => []NoDoubleClose
  <1>1. Inv => NoDoubleClose
    BY DEF Inv
  <1>2. QED
    BY <1>1, Invariance, PTL

\* A session is bridged by one socket of the agent at most, however many passed
\* CanAttachStream.
THEOREM NeverTwoBridges == Spec => []OneBridge
  <1>1. Inv => OneBridge
    BY DEF Inv, OneSocket, OneBridge
  <1>2. QED
    BY <1>1, Invariance, PTL

\* Whoever waits in WaitStream has a goroutine that will close its Done channel.
THEOREM WaiterNeverForgotten == Spec => []WaiterHasCloser
  <1>1. Inv => WaiterHasCloser
    BY DEF Inv, WaiterHasCloser, OpenWereAttached, AttachedEnds
  <1>2. QED
    BY <1>1, Invariance, PTL

\* No entry of the session map is left without a goroutine that will delete it.
THEOREM SessionNeverOrphaned == Spec => []SessionHasReaper
  <1>1. Inv => SessionHasReaper
    BY DEF Inv, SessionHasReaper, SessionsTended, InStartStream
  <1>2. QED
    BY <1>1, Invariance, PTL

\* The HTTP pipes that exist at one time never exceed agentHTTPSlots.
THEOREM PipesBounded == Spec => []HTTPPipesBounded
  <1>1. ASSUME Inv
        PROVE  HTTPPipesBounded
    <2> DEFINE pipes == {s \in connOpen : kind[s] = "http"}
    <2>1. SlotInv
      BY <1>1 DEF Inv
    <2>2. IsFiniteSet(Holders("http")) /\ pipes \subseteq Holders("http")
      BY <2>1, FS_Subset DEF SlotInv, Holders
    <2>3. Cardinality(pipes) <= Cardinality(Holders("http"))
      BY <2>2, FS_Subset
    <2>4. Cardinality(pipes) \in Nat /\ Cardinality(Holders("http")) \in Nat
      BY <2>2, FS_Subset, FS_CardinalityType
    <2>5. Cardinality(Holders("http")) <= Capacity["http"]
      BY <2>1 DEF SlotInv, SlotKinds
    <2>6. Capacity["http"] \in Nat
      BY CapacityAssumption DEF SlotKinds
    <2>7. Cardinality(pipes) <= Capacity["http"]
      BY <2>3, <2>4, <2>5, <2>6
    <2>8. QED
      BY <2>7 DEF HTTPPipesBounded
  <1>2. QED
    BY <1>1, Invariance, PTL

-----------------------------------------------------------------------------
(* The refinement of StreamSessions. *)

Over == Offered \ streams
Quit == {s \in Streams : kind[s] = "http" \/ s \in cancelled}
View == [s \in Streams |-> CallerView(s)]

\* The mapped state changes only with these variables.
LEMMA SameSessions ==
    ASSUME UNCHANGED <<opener, openQ, kind, cancelled, streams, attached>>
    PROVE  UNCHANGED Sessions!vars
  BY DEF Sessions!vars, Offered, CallerView, InStartStream

\* A session in the map has been offered: its opener holds a queue and is past
\* streamQueue.
LEMMA MapOffered == Inv => streams \subseteq Offered
  BY DEF Inv, TypeOK, StartInv, FreshUntilRegistered, Offered

\* What becomes of the mapping when one opener moves.
LEMMA ViewMoves ==
    ASSUME TypeOK, NEW s \in Streams, NEW pc \in OpenerPCs,
           opener' = [opener EXCEPT ![s] = pc], UNCHANGED openQ
    PROVE  /\ \A r \in Streams \ {s} : /\ CallerView(r)' = CallerView(r)
                                       /\ r \in Offered' <=> r \in Offered
           /\ pc = "open" => CallerView(s)' = "talking"
           /\ pc \in {"registered", "waiting", "failing"} =>
                  CallerView(s)' = "asking"
           /\ pc = "leaving" => CallerView(s)' = IF openQ[s] # 0 THEN "gone" ELSE "out"
           /\ pc \in {"idle", "started", "queued"} => CallerView(s)' = "out"
           /\ s \in Offered' <=> openQ[s] # 0 /\ pc # "queued"
  BY DEF TypeOK, CallerView, InStartStream, Offered

\* Where an opener is seen, by its program counter.
LEMMA ViewNow ==
    ASSUME TypeOK, NEW s \in Streams
    PROVE  /\ opener[s] = "open" => CallerView(s) = "talking"
           /\ opener[s] \in {"registered", "waiting", "failing"} =>
                  CallerView(s) = "asking"
           /\ opener[s] \in {"idle", "started", "queued"} => CallerView(s) = "out"
           /\ s \in Offered <=> openQ[s] # 0 /\ opener[s] # "queued"
  BY DEF CallerView, InStartStream, Offered

\* The initial states of the hub are initial states of the protocol.
LEMMA RefineInit == Init => Sessions!Init
  BY DEF Init, Sessions!Init, Offered, CallerView, InStartStream

\* Every step of an opener is a step of the protocol or changes nothing of it.
LEMMA RefineOpener ==
    ASSUME Inv, NEW s \in Streams, OpenerStep(s)
    PROVE  [Sessions!Next]_(Sessions!vars)
  <1> USE DEF hubVars, queueVars, sessionVars, openerVars, callVars, connVars,
              agentVars, adminVars
  <1>0. TypeOK /\ QueueObtained /\ StartInv /\ FreshUntilRegistered
        /\ DoneLeftMap /\ OpenWereAttached
    BY DEF Inv
  <1>1. ASSUME UNCHANGED <<View, Offered, Quit, streams, attached>>
        PROVE  UNCHANGED Sessions!vars
    BY <1>1 DEF Sessions!vars, View, Offered, Quit
  <1>2. ASSUME NEW c \in Callers, Start(s, c) \/ Refuse(s, c)
        PROVE  [Sessions!Next]_(Sessions!vars)
    <2>1. /\ opener[s] = "idle" /\ openQ[s] = 0 /\ kind[s] = "none"
          /\ \E pc \in {"started", "leaving"} : opener' = [opener EXCEPT ![s] = pc]
          /\ kind' = [kind EXCEPT ![s] = c]
          /\ UNCHANGED <<openQ, cancelled, streams, attached>>
      BY <1>0, <1>2 DEF Start, Refuse, StartInv
    <2>2. CallerView(s) = "out" /\ s \notin Offered
      BY <1>0, <2>1, ViewNow
    <2>3. CallerView(s)' = "out" /\ s \notin Offered'
          /\ \A r \in Streams \ {s} : /\ CallerView(r)' = CallerView(r)
                                      /\ r \in Offered' <=> r \in Offered
      BY <1>0, <2>1, ViewMoves DEF OpenerPCs
    <2>4. UNCHANGED <<View, Offered>>
      BY <2>2, <2>3 DEF View, Offered
    <2>5. Quit' = IF c = "http" THEN Quit \cup {s} ELSE Quit
      BY <1>0, <2>1 DEF Quit, TypeOK
    <2>6. CASE c = "http"
      <3>1. Sessions!Quit(s)
        BY <2>1, <2>4, <2>5, <2>6 DEF Sessions!Quit, View, Quit
      <3>2. QED
        BY <3>1 DEF Sessions!Next
    <2>7. CASE c # "http"
      BY <1>1, <2>1, <2>4, <2>5, <2>7
    <2>8. QED
      BY <2>6, <2>7
  <1>3. CASE ObtainQueue(s)
    <2>1. /\ opener[s] = "started" /\ openQ[s] = 0
          /\ opener' = [opener EXCEPT ![s] = "queued"]
          /\ \A r \in Streams \ {s} : openQ'[r] = openQ[r]
          /\ UNCHANGED <<kind, cancelled, streams, attached>>
      BY <1>0, <1>3 DEF ObtainQueue, StartInv, TypeOK
    <2>2. UNCHANGED <<View, Offered, Quit>>
      BY <1>0, <2>1 DEF View, CallerView, InStartStream, Offered, Quit, TypeOK
    <2>3. QED
      BY <1>1, <2>1, <2>2
  <1>4. CASE Register(s)
    <2>1. /\ opener[s] = "queued" /\ openQ[s] # 0
          /\ opener' = [opener EXCEPT ![s] = "registered"]
          /\ streams' = streams \cup {s} /\ s \notin streams
          /\ UNCHANGED <<openQ, kind, cancelled, attached>>
      BY <1>0, <1>4 DEF Register, QueueObtained
    <2>2. CallerView(s) = "out" /\ s \notin Offered
      BY <1>0, <2>1, ViewNow
    <2>3. CallerView(s)' = "asking" /\ s \in Offered'
          /\ \A r \in Streams \ {s} : /\ CallerView(r)' = CallerView(r)
                                      /\ r \in Offered' <=> r \in Offered
      BY <1>0, <2>1, ViewMoves DEF OpenerPCs
    <2>4. Offered' = Offered \cup {s} /\ Quit' = Quit
      BY <2>1, <2>3 DEF Offered, Quit
    <2>5. Over' = Over
      BY <2>1, <2>2, <2>4 DEF Over
    <2>6. View' = [View EXCEPT ![s] = "asking"]
      BY <2>3 DEF View
    <2>7. Sessions!Offer(s)
      BY <2>1, <2>2, <2>4, <2>5, <2>6 DEF Sessions!Offer, View, Over, Quit
    <2>8. QED
      BY <2>7 DEF Sessions!Next
  <1>5. CASE Enqueue(s) \/ EnqueueFails(s) \/ GiveUp(s)
    <2>1. /\ opener[s] \in {"registered", "waiting"}
          /\ \E pc \in {"waiting", "failing"} : opener' = [opener EXCEPT ![s] = pc]
          /\ UNCHANGED <<openQ, kind, cancelled, streams, attached>>
      BY <1>5 DEF Enqueue, EnqueueFails, GiveUp
    <2>2. UNCHANGED <<View, Offered, Quit>>
      BY <1>0, <2>1 DEF View, CallerView, InStartStream, Offered, Quit, TypeOK
    <2>3. QED
      BY <1>1, <2>1, <2>2
  <1>6. CASE SeeAttached(s)
    <2>1. /\ opener[s] = "waiting" /\ openQ[s] # 0 /\ s \in attached
          /\ opener' = [opener EXCEPT ![s] = "open"]
          /\ UNCHANGED <<openQ, kind, cancelled, streams, attached>>
      BY <1>0, <1>6 DEF SeeAttached, QueueObtained
    <2>2. CallerView(s) = "asking" /\ s \in Offered
      BY <1>0, <2>1, ViewNow
    <2>3. CallerView(s)' = "talking" /\ s \in Offered'
          /\ \A r \in Streams \ {s} : /\ CallerView(r)' = CallerView(r)
                                      /\ r \in Offered' <=> r \in Offered
      BY <1>0, <2>1, ViewMoves DEF OpenerPCs
    <2>4. Offered' = Offered /\ Quit' = Quit /\ Over' = Over
      BY <2>1, <2>2, <2>3 DEF Offered, Quit, Over
    <2>5. View' = [View EXCEPT ![s] = "talking"]
      BY <2>3 DEF View
    <2>6. Sessions!Hear(s)
      BY <2>1, <2>2, <2>4, <2>5 DEF Sessions!Hear, View, Over, Quit
    <2>7. QED
      BY <2>6 DEF Sessions!Next
  <1>7. CASE Unregister(s)
    <2>1. /\ opener[s] = "failing" /\ openQ[s] # 0
          /\ opener' = [opener EXCEPT ![s] = "leaving"]
          /\ streams' = streams \ {s}
          /\ UNCHANGED <<openQ, kind, cancelled, attached>>
      BY <1>0, <1>7 DEF Unregister, QueueObtained
    <2>2. CallerView(s) = "asking" /\ s \in Offered
      BY <1>0, <2>1, ViewNow
    <2>3. CallerView(s)' = "gone" /\ s \in Offered'
          /\ \A r \in Streams \ {s} : /\ CallerView(r)' = CallerView(r)
                                      /\ r \in Offered' <=> r \in Offered
      BY <1>0, <2>1, ViewMoves DEF OpenerPCs
    <2>4. Offered' = Offered /\ Quit' = Quit
      BY <2>1, <2>2, <2>3 DEF Offered, Quit
    <2>5. Over' = Over \cup {s}
      BY <2>1, <2>2, <2>4 DEF Over
    <2>6. View' = [View EXCEPT ![s] = "gone"]
      BY <2>3 DEF View
    <2>7. Sessions!Withdraw(s)
      BY <2>1, <2>2, <2>4, <2>5, <2>6 DEF Sessions!Withdraw, View, Over, Quit
    <2>8. QED
      BY <2>7 DEF Sessions!Next
  <1>8. CASE WaitReturns(s) \/ ExchangeEnds(s)
    <2>1. /\ opener[s] = "open" /\ openQ[s] # 0
          /\ opener' = [opener EXCEPT ![s] = "leaving"]
          /\ UNCHANGED <<openQ, kind, cancelled, streams, attached>>
          /\ s \in done \/ s \in Quit
      BY <1>0, <1>8 DEF WaitReturns, ExchangeEnds, QueueObtained, Quit
    <2>2. CallerView(s) = "talking" /\ s \in Offered
      BY <1>0, <2>1, ViewNow
    <2>3. s \in Over \cup Quit
      BY <1>0, <2>1, <2>2 DEF Over, DoneLeftMap
    <2>4. CallerView(s)' = "gone" /\ s \in Offered'
          /\ \A r \in Streams \ {s} : /\ CallerView(r)' = CallerView(r)
                                      /\ r \in Offered' <=> r \in Offered
      BY <1>0, <2>1, ViewMoves DEF OpenerPCs
    <2>5. Offered' = Offered /\ Quit' = Quit /\ Over' = Over
      BY <2>1, <2>2, <2>4 DEF Offered, Quit, Over
    <2>6. View' = [View EXCEPT ![s] = "gone"]
      BY <2>4 DEF View
    <2>7. Sessions!Release(s)
      BY <2>1, <2>2, <2>3, <2>5, <2>6 DEF Sessions!Release, View, Over, Quit
    <2>8. QED
      BY <2>7 DEF Sessions!Next
  <1>9. CASE Cancel(s)
    <2>1. /\ cancelled' = cancelled \cup {s}
          /\ UNCHANGED <<opener, openQ, kind, streams, attached>>
      BY <1>9 DEF Cancel
    <2>2. UNCHANGED <<View, Offered>> /\ Quit' = Quit \cup {s}
      BY <2>1 DEF View, CallerView, InStartStream, Offered, Quit
    <2>3. Sessions!Quit(s)
      BY <2>1, <2>2 DEF Sessions!Quit, View, Quit
    <2>4. QED
      BY <2>3 DEF Sessions!Next
  <1>10. CASE CloseOnCancel(s) \/ CloseConn(s) \/ ReleaseSlot(s)
    <2>1. UNCHANGED <<opener, openQ, kind, cancelled, streams, attached>>
      BY <1>10 DEF CloseOnCancel, CloseConn, ReleaseSlot
    <2>2. QED
      BY <2>1, SameSessions
  <1>11. QED
    BY <1>2, <1>3, <1>4, <1>5, <1>6, <1>7, <1>8, <1>9, <1>10 DEF OpenerStep

\* The other actors only let an agent join a session that stands, and end
\* sessions that were offered.
LEMMA RefineOthers ==
    ASSUME Inv, (\E p \in Polls : PollStep(p)) \/ (\E k \in Sockets : SocketStep(k))
                \/ (\E a \in Agents : AdminStep(a))
    PROVE  [Sessions!Next]_(Sessions!vars)
  <1> USE DEF hubVars, queueVars, sessionVars, openerVars, callVars, connVars,
              agentVars, adminVars
  <1>0. TypeOK /\ streams \subseteq Offered
    BY MapOffered DEF Inv
  <1>1. ASSUME NEW S \in SUBSET streams, streams' = streams \ S,
               UNCHANGED <<opener, openQ, kind, cancelled, attached>>
        PROVE  [Sessions!Next]_(Sessions!vars)
    <2>1. UNCHANGED <<View, Offered, Quit>>
      BY <1>1 DEF View, CallerView, InStartStream, Offered, Quit
    <2>2. Over' = Over \cup S /\ S \subseteq Offered /\ S \subseteq Streams
      BY <1>0, <1>1, <2>1 DEF Over, TypeOK
    <2>3. Sessions!End(S)
      BY <1>1, <2>1, <2>2 DEF Sessions!End, View, Over, Quit
    <2>4. QED
      BY <2>2, <2>3 DEF Sessions!Next
  <1>2. ASSUME NEW p \in Polls, PollStep(p)
        PROVE  [Sessions!Next]_(Sessions!vars)
    <2>1. UNCHANGED <<opener, openQ, kind, cancelled, streams, attached>>
      BY <1>2 DEF PollStep, PollAuthenticate, PollObtainQueue, PollTake,
                  PollTakeLost, PollExpire
    <2>2. QED
      BY <2>1, SameSessions
  <1>3. ASSUME NEW k \in Sockets, SocketStep(k)
        PROVE  [Sessions!Next]_(Sessions!vars)
    <2>1. CASE AttachStream(k)
      <3> DEFINE s == sock[k].stream
      <3>1. /\ s \in streams /\ s \notin attached /\ s \in Streams
            /\ attached' = attached \cup {s}
            /\ UNCHANGED <<opener, openQ, kind, cancelled, streams>>
        BY <1>0, <2>1 DEF AttachStream, CanAttach, TypeOK
      <3>2. s \in Offered \ (attached \cup Over)
        BY <1>0, <3>1 DEF Over
      <3>3. UNCHANGED <<View, Offered, Quit, Over>>
        BY <3>1 DEF View, CallerView, InStartStream, Offered, Quit, Over
      <3>4. Sessions!Join(s)
        BY <3>1, <3>2, <3>3 DEF Sessions!Join, View, Over, Quit
      <3>5. QED
        BY <3>1, <3>4 DEF Sessions!Next
    <2>2. CASE CompleteStream(k)
      <3>1. /\ streams' = streams \ ({sock[k].stream} \cap streams)
            /\ UNCHANGED <<opener, openQ, kind, cancelled, attached>>
        BY <2>2 DEF CompleteStream
      <3>2. QED
        BY <1>1, <3>1
    <2>3. CASE ~AttachStream(k) /\ ~CompleteStream(k)
      <3>1. UNCHANGED <<opener, openQ, kind, cancelled, streams, attached>>
        BY <1>3, <2>3 DEF SocketStep, Dial, AttachRefused, BridgeEnds, CheckDone,
                          SignalDone
      <3>2. QED
        BY <3>1, SameSessions
    <2>4. QED
      BY <2>1, <2>2, <2>3
  <1>4. ASSUME NEW a \in Agents, AdminStep(a)
        PROVE  [Sessions!Next]_(Sessions!vars)
    <2>1. CASE DeleteRow(a)
      <3>1. UNCHANGED <<opener, openQ, kind, cancelled, streams, attached>>
        BY <2>1 DEF DeleteRow
      <3>2. QED
        BY <3>1, SameSessions
    <2>2. CASE DeleteFromHub(a) \/ Reconnect(a)
      <3>1. /\ streams' = streams \ SessionsOf(a) /\ SessionsOf(a) \subseteq streams
            /\ UNCHANGED <<opener, openQ, kind, cancelled, attached>>
        BY <2>2 DEF DeleteFromHub, Reconnect, RemoveAgent, SessionsOf
      <3>2. QED
        BY <1>1, <3>1
    <2>3. QED
      BY <1>4, <2>1, <2>2 DEF AdminStep
  <1>5. QED
    BY <1>2, <1>3, <1>4

\* The hub implements StreamSessions under the mapping of TunnelStreams: every
\* behaviour of openers, polls, sockets and administrators is, for each stream,
\* a behaviour of the session protocol.
THEOREM Refinement == Spec => ImplementsSessions
  <1>1. Init => Sessions!Init
    BY RefineInit
  <1>2. Inv /\ [Next]_vars => [Sessions!Next]_(Sessions!vars)
    <2> SUFFICES ASSUME Inv, [Next]_vars
                 PROVE  [Sessions!Next]_(Sessions!vars)
      OBVIOUS
    <2>1. CASE UNCHANGED vars
      BY <2>1, SameSessions DEF vars, hubVars, sessionVars, openerVars, callVars,
                                connVars
    <2>2. CASE Next
      BY <2>2, RefineOpener, RefineOthers DEF Next
    <2>3. QED
      BY <2>1, <2>2
  <1>3. QED
    BY <1>1, <1>2, Invariance, PTL DEF Spec, ImplementsSessions, Sessions!Spec

=============================================================================

--------------------------- MODULE TunnelJobsProofs ---------------------------
(***************************************************************************)
(* The inductive invariant of TunnelJobs, the safety properties that       *)
(* follow from it, and the refinement of AgentCalls, for any sets of       *)
(* agents, jobs and handlers and any capacity of the queues.               *)
(***************************************************************************)
EXTENDS TunnelJobs, TLAPS

Queues == 1..Len(chans)

Ended(j) == j \in lost \cup accepted \cup refused

InHandler(j) == \E k \in Posts : Sending(k, j)

\* Job j has been enqueued.
Placed(j) == InQueue(j) \/ WithAgent(j) \/ InHandler(j) \/ Ended(j)

\* A job is at one position of one queue.
OnceQueued ==
    /\ \A q \in Queues : \A i, k \in 1..Len(chans[q]) :
          chans[q][i] = chans[q][k] => i = k
    /\ \A q, r \in Queues : q # r => JobsIn(q) \cap JobsIn(r) = {}

OnceTaken ==
    /\ \A a, b \in Agents : \A j \in Jobs :
          <<a, j>> \in held /\ <<b, j>> \in held => a = b
    /\ \A k, h \in Posts : \A j \in Jobs : Sending(k, j) /\ Sending(h, j) => k = h

\* A job that moves on is no longer where it was.
Exclusive ==
    /\ \A j \in Jobs :
          /\ InQueue(j) => ~WithAgent(j) /\ ~InHandler(j) /\ ~Ended(j)
          /\ WithAgent(j) => ~InHandler(j) /\ ~Ended(j)
          /\ InHandler(j) => ~Ended(j)
    /\ lost \cap accepted = {} /\ lost \cap refused = {} /\ accepted \cap refused = {}

\* The buffer of a queue's channel.
QueuesBounded == \A q \in Queues : Len(chans[q]) <= MaxQ

PlaceInv == QueuesBounded /\ OnceQueued /\ OnceTaken /\ Exclusive

\* A job that Submit has not enqueued, or that it could not enqueue, is nowhere.
NotSentNowhere ==
    \A j \in Jobs :
        \/ submit[j] \in {"idle", "started", "queued", "registered"}
        \/ result[j] = "error" /\ j \notin expired
        => ~Placed(j)

ResultSet ==
    \A j \in Jobs : result[j] = "none" <=> submit[j] \notin {"leaving", "returned"}

\* Only Send fills a response channel.
ResponsesAccepted == respCh \subseteq accepted

CallerInv ==
    /\ PendingExact /\ RefusedTooLate
    /\ NotSentNowhere /\ ResultSet /\ ResponsesAccepted

\* The queue a Submit holds is the one the agent's next poll will read, as long as
\* nothing was cut off.
QueueInHand ==
    \A j \in Jobs : submit[j] \in {"queued", "registered"} =>
        /\ subQ[j] \in Queues
        /\ cuts = 0 /\ AgentOf[j] \in live => queueOf[AgentOf[j]] = subQ[j]

ReachInv == live \cap deleting = {} /\ QueueInHand /\ QueuedIsReachable

Inv == TypeOK /\ PlaceInv /\ CallerInv /\ ReachInv

-----------------------------------------------------------------------------
(* The queues. *)

LEMMA QueueTyped ==
    ASSUME TypeOK, NEW q \in Queues
    PROVE  /\ chans[q] \in Seq(Jobs)
           /\ Len(chans[q]) \in Nat
           /\ JobsIn(q) \subseteq Jobs
  BY DEF TypeOK, Queues, JobsIn

\* h.queue returns the agent's queue, and makes at most an empty one.
LEMMA QueueEnsured ==
    ASSUME TypeOK, NEW a \in Agents, EnsureQueue(a)
    PROVE  /\ chans' \in Seq(Seq(Jobs)) /\ Queues \subseteq Queues'
           /\ Len(chans) <= Len(chans')
           /\ \A q \in Queues : chans'[q] = chans[q]
           /\ \A q \in Queues' \ Queues : chans'[q] = <<>>
           /\ queueOf' \in [Agents -> 0..Len(chans')]
           /\ QueueFor(a) \in Queues' /\ queueOf'[a] = QueueFor(a)
           /\ \A b \in Agents \ {a} : queueOf'[b] = queueOf[b]
           /\ queueOf[a] # 0 => QueueFor(a) = queueOf[a]
  <1>1. /\ chans \in Seq(Seq(Jobs)) /\ Len(chans) \in Nat
        /\ queueOf \in [Agents -> 0..Len(chans)]
    BY DEF TypeOK
  <1>2. CASE queueOf[a] = 0
    <2>1. chans' = Append(chans, <<>>) /\ QueueFor(a) = Len(chans) + 1
          /\ queueOf' = [queueOf EXCEPT ![a] = Len(chans) + 1]
      BY <1>2 DEF EnsureQueue, QueueFor
    <2>2. chans' \in Seq(Seq(Jobs)) /\ Len(chans') = Len(chans) + 1
          /\ (\A q \in 1..Len(chans) : chans'[q] = chans[q])
          /\ chans'[Len(chans) + 1] = <<>>
      BY <1>1, <2>1
    <2> QED BY <1>1, <1>2, <2>1, <2>2 DEF Queues
  <1>3. CASE queueOf[a] # 0
    <2>1. chans' = chans /\ QueueFor(a) = queueOf[a]
          /\ queueOf' = [queueOf EXCEPT ![a] = queueOf[a]]
      BY <1>3 DEF EnsureQueue, QueueFor
    <2> QED BY <1>1, <1>3, <2>1 DEF Queues
  <1> QED BY <1>2, <1>3

\* New empty queues change nothing of where the jobs are.
LEMMA PlacesGrow ==
    ASSUME TypeOK, PlaceInv, Queues \subseteq Queues',
           \A q \in Queues : chans'[q] = chans[q],
           \A q \in Queues' \ Queues : chans'[q] = <<>>,
           UNCHANGED <<held, post, lost, accepted, refused>>
    PROVE  /\ PlaceInv'
           /\ \A q \in Queues : JobsIn(q)' = JobsIn(q)
           /\ \A q \in Queues' \ Queues : JobsIn(q)' = {}
           /\ \A j \in Jobs : Placed(j)' <=> Placed(j)
  <1>1. \A q \in Queues : JobsIn(q)' = JobsIn(q)
    BY DEF JobsIn
  <1>2. \A q \in Queues' \ Queues : JobsIn(q)' = {}
    BY DEF JobsIn
  <1>3. \A j \in Jobs : InQueue(j)' <=> InQueue(j)
    BY <1>1, <1>2 DEF InQueue, Queues
  <1>4. \A j \in Jobs : /\ WithAgent(j)' <=> WithAgent(j)
                        /\ InHandler(j)' <=> InHandler(j)
                        /\ Ended(j)' <=> Ended(j)
    BY DEF WithAgent, InHandler, Sending, Ended
  <1>5. QueuesBounded'
    BY SizesAssumption DEF PlaceInv, QueuesBounded
  <1>6. OnceQueued'
    BY <1>1, <1>2 DEF PlaceInv, OnceQueued
  <1>7. OnceTaken'
    BY DEF PlaceInv, OnceTaken, Sending
  <1>8. Exclusive'
    BY <1>3, <1>4 DEF PlaceInv, Exclusive
  <1> QED BY <1>1, <1>2, <1>3, <1>4, <1>5, <1>6, <1>7, <1>8 DEF PlaceInv, Placed

LEMMA PlacesSame ==
    ASSUME TypeOK, PlaceInv, UNCHANGED <<chans, held, post, lost, accepted, refused>>
    PROVE  /\ PlaceInv'
           /\ \A q \in Queues : JobsIn(q)' = JobsIn(q)
           /\ \A j \in Jobs : Placed(j)' <=> Placed(j)
  <1>1. Queues' = Queues /\ \A q \in Queues : chans'[q] = chans[q]
    BY DEF Queues
  <1> QED BY <1>1, PlacesGrow

\* A job that is nowhere is appended to a queue with room.
LEMMA Appended ==
    ASSUME TypeOK, PlaceInv, NEW j \in Jobs, NEW at \in Queues, ~Placed(j),
           Len(chans[at]) < MaxQ, chans' = [chans EXCEPT ![at] = Append(@, j)],
           UNCHANGED <<held, post, lost, accepted, refused>>
    PROVE  /\ chans' \in Seq(Seq(Jobs)) /\ Len(chans') = Len(chans)
           /\ JobsIn(at)' = JobsIn(at) \cup {j}
           /\ \A q \in Queues \ {at} : JobsIn(q)' = JobsIn(q)
           /\ PlaceInv'
           /\ \A x \in Jobs : Placed(x)' <=> Placed(x) \/ x = j
  <1>1. /\ chans[at] \in Seq(Jobs) /\ Len(chans[at]) \in Nat
        /\ chans \in Seq(Seq(Jobs))
    BY QueueTyped DEF TypeOK
  <1>2. Append(chans[at], j) \in Seq(Jobs)
    BY <1>1
  <1>3. /\ chans' \in Seq(Seq(Jobs)) /\ Len(chans') = Len(chans)
        /\ chans'[at] = Append(chans[at], j)
        /\ \A q \in Queues \ {at} : chans'[q] = chans[q]
    BY <1>1, <1>2 DEF Queues
  <1>4. /\ Len(chans'[at]) = Len(chans[at]) + 1
        /\ \A i \in 1..Len(chans[at]) : chans'[at][i] = chans[at][i]
        /\ chans'[at][Len(chans[at]) + 1] = j
    BY <1>1, <1>3
  <1>5. JobsIn(at)' = JobsIn(at) \cup {j}
    BY <1>1, <1>4 DEF JobsIn
  <1>6. \A q \in Queues \ {at} : JobsIn(q)' = JobsIn(q)
    BY <1>3 DEF JobsIn
  <1>7. Queues' = Queues
    BY <1>3 DEF Queues
  <1>8. \A q \in Queues : j \notin JobsIn(q)
    BY DEF Placed, InQueue, Queues
  <1>9. \A x \in Jobs : InQueue(x)' <=> InQueue(x) \/ x = j
    BY <1>5, <1>6, <1>7 DEF InQueue, Queues
  <1>10. \A x \in Jobs : /\ WithAgent(x)' <=> WithAgent(x)
                         /\ InHandler(x)' <=> InHandler(x)
                         /\ Ended(x)' <=> Ended(x)
    BY DEF WithAgent, InHandler, Sending, Ended
  <1>11. QueuesBounded'
    BY <1>1, <1>3, <1>4, <1>7, SizesAssumption DEF PlaceInv, QueuesBounded
  <1>12. OnceQueued'
    <2>1. ASSUME NEW q \in Queues, NEW i \in 1..Len(chans'[q]), NEW k \in 1..Len(chans'[q]),
                 chans'[q][i] = chans'[q][k]
          PROVE  i = k
      <3>1. CASE q # at
        BY <2>1, <3>1, <1>3 DEF PlaceInv, OnceQueued
      <3>2. CASE q = at
        <4>1. i = Len(chans[at]) + 1 \/ i \in 1..Len(chans[at])
          BY <3>2, <1>1, <1>4
        <4>2. k = Len(chans[at]) + 1 \/ k \in 1..Len(chans[at])
          BY <3>2, <1>1, <1>4
        <4>3. \A x \in 1..Len(chans[at]) : chans[at][x] # j
          BY <1>8 DEF JobsIn
        <4> QED BY <2>1, <3>2, <4>1, <4>2, <4>3, <1>4 DEF PlaceInv, OnceQueued
      <3> QED BY <3>1, <3>2
    <2>2. \A q, r \in Queues : q # r => JobsIn(q)' \cap JobsIn(r)' = {}
      BY <1>5, <1>6, <1>8 DEF PlaceInv, OnceQueued
    <2> QED BY <1>7, <2>1, <2>2 DEF OnceQueued
  <1>13. OnceTaken'
    BY DEF PlaceInv, OnceTaken, Sending
  <1>14. Exclusive'
    BY <1>9, <1>10 DEF PlaceInv, Exclusive, Placed
  <1>15. PlaceInv'
    BY <1>11, <1>12, <1>13, <1>14 DEF PlaceInv
  <1> QED BY <1>3, <1>5, <1>6, <1>9, <1>10, <1>15 DEF Placed

\* What Dequeue makes of the queues: the first job leaves its only position.
LEMMA Dequeued ==
    ASSUME TypeOK, QueuesBounded, OnceQueued, NEW p \in Polls, Dequeue(p),
           NEW j, j = Head(chans[poll[p].q])
    PROVE  /\ j \in Jobs /\ InQueue(j)
           /\ chans' \in Seq(Seq(Jobs)) /\ Len(chans') = Len(chans)
           /\ \A q \in Queues : JobsIn(q)' = JobsIn(q) \ {j}
           /\ \A x \in Jobs : InQueue(x)' <=> InQueue(x) /\ x # j
           /\ QueuesBounded' /\ OnceQueued'
  <1>0. PICK at : at = poll[p].q
    OBVIOUS
  <1>1. /\ at \in Queues /\ chans[at] # <<>> /\ j = Head(chans[at])
        /\ chans' = [chans EXCEPT ![at] = Tail(@)]
    BY <1>0 DEF Dequeue, TypeOK, Idle, Queues
  <1> DEFINE n == Len(chans[at])
  <1>2. chans[at] \in Seq(Jobs) /\ n \in Nat \ {0} /\ chans \in Seq(Seq(Jobs))
    BY <1>1, QueueTyped DEF TypeOK
  <1>3. Tail(chans[at]) \in Seq(Jobs) /\ Len(Tail(chans[at])) = n - 1
        /\ (\A i \in 1..(n - 1) : Tail(chans[at])[i] = chans[at][i + 1])
        /\ j = chans[at][1] /\ j \in Jobs
    BY <1>1, <1>2
  <1>4. /\ chans' \in Seq(Seq(Jobs)) /\ Len(chans') = Len(chans)
        /\ chans'[at] = Tail(chans[at])
        /\ \A q \in Queues \ {at} : chans'[q] = chans[q]
    BY <1>1, <1>2, <1>3 DEF Queues
  <1>5. Queues' = Queues
    BY <1>4 DEF Queues
  <1>6. j \in JobsIn(at)
    BY <1>2, <1>3 DEF JobsIn
  <1>7. \A i \in 1..n : chans[at][i] = j => i = 1
    BY <1>1, <1>2, <1>3 DEF OnceQueued
  <1>8. JobsIn(at)' = JobsIn(at) \ {j}
    <2>1. ASSUME NEW x \in JobsIn(at)'
          PROVE  x \in JobsIn(at) \ {j}
      <3>1. PICK i \in 1..(n - 1) : x = chans[at][i + 1]
        BY <2>1, <1>2, <1>3, <1>4 DEF JobsIn
      <3>2. i + 1 \in 1..n /\ i + 1 # 1
        BY <3>1, <1>2
      <3> QED BY <3>1, <3>2, <1>7 DEF JobsIn
    <2>2. ASSUME NEW x \in JobsIn(at), x # j
          PROVE  x \in JobsIn(at)'
      <3>1. PICK i \in 1..n : x = chans[at][i]
        BY <2>2 DEF JobsIn
      <3>0. i # 1
        BY <3>1, <2>2, <1>3
      <3>2. i - 1 \in 1..(n - 1) /\ (i - 1) + 1 = i
        BY <3>0, <1>2
      <3>3. chans'[at][i - 1] = x /\ i - 1 \in 1..Len(chans'[at])
        BY <3>1, <3>2, <1>3, <1>4
      <3> QED BY <3>3 DEF JobsIn
    <2> QED BY <2>1, <2>2
  <1>9. \A q \in Queues : JobsIn(q)' = JobsIn(q) \ {j}
    <2>1. ASSUME NEW q \in Queues, q # at
          PROVE  JobsIn(q)' = JobsIn(q) \ {j}
      <3>1. JobsIn(q)' = JobsIn(q)
        BY <2>1, <1>4 DEF JobsIn
      <3> QED BY <2>1, <3>1, <1>1, <1>6 DEF OnceQueued
    <2> QED BY <2>1, <1>8
  <1>10. InQueue(j) /\ \A x \in Jobs : InQueue(x)' <=> InQueue(x) /\ x # j
    BY <1>1, <1>5, <1>6, <1>9 DEF InQueue, Queues
  <1>11. QueuesBounded'
    BY <1>1, <1>2, <1>3, <1>4, <1>5, SizesAssumption DEF QueuesBounded
  <1>12. OnceQueued'
    <2>1. ASSUME NEW q \in Queues, NEW i \in 1..Len(chans'[q]), NEW k \in 1..Len(chans'[q]),
                 chans'[q][i] = chans'[q][k]
          PROVE  i = k
      <3>1. CASE q # at
        BY <2>1, <3>1, <1>4 DEF OnceQueued
      <3>2. CASE q = at
        <4>1. i \in 1..(n - 1) /\ k \in 1..(n - 1)
          BY <3>2, <1>3, <1>4
        <4>2. i + 1 \in 1..n /\ k + 1 \in 1..n
          BY <4>1, <1>2
        <4>3. chans[at][i + 1] = chans[at][k + 1]
          BY <2>1, <3>2, <4>1, <1>3, <1>4
        <4>4. i + 1 = k + 1
          BY <4>2, <4>3, <1>1 DEF OnceQueued
        <4> QED BY <4>1, <4>4
      <3> QED BY <3>1, <3>2
    <2> QED BY <1>5, <1>9, <2>1 DEF OnceQueued
  <1> QED BY <1>3, <1>4, <1>9, <1>10, <1>11, <1>12

-----------------------------------------------------------------------------
(* The invariant. *)

LEMMA InitInv == Init => Inv
  <1> SUFFICES ASSUME Init PROVE Inv
    OBVIOUS
  <1>1. Len(chans) = 0 /\ Queues = {}
    BY DEF Init, Queues
  <1>2. TypeOK
    BY <1>1, BoundsAssumption DEF Init, TypeOK, SubmitPCs, Idle
  <1>3. \A j \in Jobs : ~Placed(j)
    BY <1>1 DEF Init, Placed, InQueue, WithAgent, InHandler, Sending, Ended, Idle
  <1>4. PlaceInv
    BY <1>1, <1>3 DEF Init, PlaceInv, QueuesBounded, OnceQueued, OnceTaken, Exclusive,
                      Placed, Sending, Idle
  <1>5. CallerInv
    BY <1>3 DEF Init, CallerInv, PendingExact, Active, RefusedTooLate, NotSentNowhere,
                ResultSet, ResponsesAccepted
  <1>6. ReachInv
    BY <1>1 DEF Init, ReachInv, QueueInHand, QueuedIsReachable
  <1> QED BY <1>2, <1>4, <1>5, <1>6 DEF Inv

\* A step of one Submit that leaves queues, agents and response handlers alone, and
\* what is to be shown of it.
LEMMA CallerMoves ==
    ASSUME Inv, TypeOK', NEW j \in Jobs,
           UNCHANGED <<queueVars, pollVars, postVars, adminVars, subQ>>,
           \A x \in Jobs \ {j} : /\ submit'[x] = submit[x] /\ result'[x] = result[x]
                                 /\ x \in pending' <=> x \in pending,
           respCh' \subseteq respCh, expired \subseteq expired',
           j \in pending' <=> submit'[j] \in {"registered", "waiting", "leaving"},
           \/ submit'[j] \in {"idle", "started", "queued", "registered"}
           \/ result'[j] = "error" /\ j \notin expired'
           => ~Placed(j),
           result'[j] = "none" <=> submit'[j] \notin {"leaving", "returned"},
           j \in refused => submit'[j] = "returned",
           submit'[j] \in {"queued", "registered"} => submit[j] \in {"queued", "registered"}
    PROVE  Inv'
  <1>1. PlaceInv' /\ \A x \in Jobs : Placed(x)' <=> Placed(x)
    BY PlacesSame DEF Inv, queueVars, pollVars, postVars
  <1>2. PendingExact'
    BY DEF Inv, CallerInv, PendingExact, Active
  <1>3. RefusedTooLate' /\ ResponsesAccepted'
    BY DEF Inv, TypeOK, CallerInv, RefusedTooLate, ResponsesAccepted, postVars
  <1>4. NotSentNowhere'
    BY <1>1 DEF Inv, CallerInv, NotSentNowhere
  <1>5. ResultSet'
    BY DEF Inv, CallerInv, ResultSet
  <1>6. ReachInv'
    <2>1. QueueInHand'
      BY DEF Inv, ReachInv, QueueInHand, Queues, queueVars, adminVars
    <2> QED BY <2>1 DEF Inv, ReachInv, QueuedIsReachable, JobsIn, queueVars, adminVars
  <1> QED BY <1>1, <1>2, <1>3, <1>4, <1>5, <1>6 DEF Inv, CallerInv

\* Nothing that a Submit sees changes, and no job is placed anew.
LEMMA CallersWait ==
    ASSUME Inv, UNCHANGED <<submitVars, pending>>, RefusedTooLate', ResponsesAccepted',
           \A j \in Jobs : Placed(j)' => Placed(j)
    PROVE  CallerInv'
  BY DEF Inv, CallerInv, PendingExact, Active, NotSentNowhere, ResultSet, submitVars

LEMMA SubmitKeeps ==
    ASSUME Inv, NEW j \in Jobs,
           Start(j) \/ Register(j) \/ EnqueueFails(j) \/ Receive(j) \/ GiveUp(j)
               \/ DeletePending(j) \/ ReleaseSlot(j) \/ EndContext(j)
    PROVE  Inv'
  <1> USE DEF queueVars, replyVars, pollVars, postVars, adminVars
  <1>1. UNCHANGED <<queueVars, pollVars, postVars, adminVars, subQ>>
    BY DEF Start, Register, EnqueueFails, Receive, GiveUp, DeletePending, ReleaseSlot,
           EndContext
  <1>2. /\ TypeOK /\ (j \in pending <=> Active(j))
        /\ result[j] = "none" <=> submit[j] \notin {"leaving", "returned"}
        /\ j \in refused => submit[j] = "returned"
        /\ \/ submit[j] \in {"idle", "started", "queued", "registered"}
           \/ result[j] = "error" /\ j \notin expired
           => ~Placed(j)
    BY DEF Inv, CallerInv, PendingExact, ResultSet, RefusedTooLate, NotSentNowhere
  <1>3. TypeOK'
    <2>0. /\ \/ UNCHANGED submit
             \/ \E pc \in SubmitPCs : submit' = [submit EXCEPT ![j] = pc]
          /\ \/ UNCHANGED result
             \/ \E r \in {"answer", "error"} : result' = [result EXCEPT ![j] = r]
      BY DEF SubmitPCs, Start, Register, EnqueueFails, Receive, GiveUp, DeletePending,
             ReleaseSlot, EndContext
    <2>1. /\ submit' \in [Jobs -> SubmitPCs]
          /\ result' \in [Jobs -> {"none", "answer", "error"}]
      <3>1. submit \in [Jobs -> SubmitPCs] /\ result \in [Jobs -> {"none", "answer", "error"}]
        BY <1>2 DEF TypeOK
      <3>2. submit' \in [Jobs -> SubmitPCs]
        BY <2>0, <3>1
      <3>3. result' \in [Jobs -> {"none", "answer", "error"}]
        BY <2>0, <3>1
      <3> QED BY <3>2, <3>3
    <2>2. /\ pending' \subseteq Jobs /\ respCh' \subseteq Jobs
          /\ expired' \subseteq Jobs /\ holding' \subseteq Jobs
      BY <1>2 DEF TypeOK, Start, Register, EnqueueFails, Receive, GiveUp, DeletePending,
                  ReleaseSlot, EndContext
    <2> QED BY <1>1, <1>2, <2>1, <2>2 DEF TypeOK
  <1>4. CASE Start(j)
    BY <1>1, <1>2, <1>3, <1>4, CallerMoves DEF TypeOK, Start, Active
  <1>5. CASE Register(j)
    BY <1>1, <1>2, <1>3, <1>5, CallerMoves DEF TypeOK, Register, Active
  <1>6. CASE EnqueueFails(j)
    BY <1>1, <1>2, <1>3, <1>6, CallerMoves DEF TypeOK, EnqueueFails, Active
  <1>7. CASE Receive(j)
    BY <1>1, <1>2, <1>3, <1>7, CallerMoves DEF TypeOK, Receive, Active
  <1>8. CASE GiveUp(j)
    BY <1>1, <1>2, <1>3, <1>8, CallerMoves DEF TypeOK, GiveUp, Active
  <1>9. CASE DeletePending(j)
    BY <1>1, <1>2, <1>3, <1>9, CallerMoves DEF TypeOK, DeletePending, Active
  <1>10. CASE ReleaseSlot(j)
    BY <1>1, <1>2, <1>3, <1>10, CallerMoves DEF TypeOK, ReleaseSlot, Active
  <1>11. CASE EndContext(j)
    BY <1>1, <1>2, <1>3, <1>11, CallerMoves DEF TypeOK, EndContext, Active
  <1> QED BY <1>4, <1>5, <1>6, <1>7, <1>8, <1>9, <1>10, <1>11

\* The queue that Submit or Poll obtains is the agent's entry from then on.
LEMMA ReachEnsured ==
    ASSUME Inv, NEW a \in Agents, EnsureQueue(a), UNCHANGED adminVars,
           \A j \in Jobs : submit'[j] \in {"queued", "registered"} =>
               \/ submit[j] \in {"queued", "registered"} /\ subQ'[j] = subQ[j]
               \/ subQ'[j] = QueueFor(a) /\ AgentOf[j] = a,
           UNCHANGED <<held, post, lost, accepted, refused>>
    PROVE  ReachInv'
  <1>1. /\ Queues \subseteq Queues'
        /\ \A q \in Queues : chans'[q] = chans[q]
        /\ \A q \in Queues' \ Queues : chans'[q] = <<>>
        /\ QueueFor(a) \in Queues' /\ queueOf'[a] = QueueFor(a)
        /\ \A b \in Agents \ {a} : queueOf'[b] = queueOf[b]
        /\ queueOf[a] # 0 => QueueFor(a) = queueOf[a]
    BY QueueEnsured DEF Inv
  <1>2. /\ \A q \in Queues : JobsIn(q)' = JobsIn(q)
        /\ \A q \in Queues' \ Queues : JobsIn(q)' = {}
    BY <1>1, PlacesGrow DEF Inv
  <1>3. \A b \in Agents : queueOf[b] # 0 => queueOf'[b] = queueOf[b]
    BY <1>1
  <1>4. QueueInHand'
    <2> SUFFICES ASSUME NEW j \in Jobs, submit'[j] \in {"queued", "registered"}
                 PROVE  /\ subQ'[j] \in Queues'
                        /\ cuts' = 0 /\ AgentOf[j] \in live' =>
                               queueOf'[AgentOf[j]] = subQ'[j]
      BY DEF QueueInHand
    <2>1. CASE submit[j] \in {"queued", "registered"} /\ subQ'[j] = subQ[j]
      <3>1. /\ subQ[j] \in Queues
            /\ cuts = 0 /\ AgentOf[j] \in live => queueOf[AgentOf[j]] = subQ[j]
        BY <2>1 DEF Inv, ReachInv, QueueInHand
      <3>2. subQ[j] # 0 /\ AgentOf[j] \in Agents
        BY <3>1, AgentOfAssumption DEF Queues
      <3> QED BY <2>1, <3>1, <3>2, <1>1, <1>3 DEF adminVars
    <2>2. CASE subQ'[j] = QueueFor(a) /\ AgentOf[j] = a
      BY <2>2, <1>1
    <2> QED BY <2>1, <2>2
  <1>5. QueuedIsReachable'
    <2> SUFFICES ASSUME NEW q \in Queues', NEW j \in JobsIn(q)', cuts = 0, AgentOf[j] \in live
                 PROVE  queueOf'[AgentOf[j]] = q
      BY DEF QueuedIsReachable, Queues, adminVars
    <2>1. q \in Queues /\ j \in JobsIn(q) /\ j \in Jobs
      BY <1>2, QueueTyped DEF Inv
    <2>2. queueOf[AgentOf[j]] = q /\ q # 0 /\ AgentOf[j] \in Agents
      BY <2>1, AgentOfAssumption DEF Inv, ReachInv, QueuedIsReachable, Queues
    <2> QED BY <2>2, <1>3
  <1> QED BY <1>4, <1>5 DEF Inv, ReachInv, adminVars

LEMMA ObtainKeeps ==
    ASSUME Inv, NEW j \in Jobs, ObtainQueue(j)
    PROVE  Inv'
  <1> USE DEF replyVars, pollVars, postVars
  <1> DEFINE a == AgentOf[j]
  <1>1. /\ submit[j] = "started" /\ EnsureQueue(a) /\ a \in Agents
        /\ subQ' = [subQ EXCEPT ![j] = QueueFor(a)]
        /\ submit' = [submit EXCEPT ![j] = "queued"]
        /\ UNCHANGED <<result, expired, holding, replyVars, pollVars, postVars, adminVars>>
    BY AgentOfAssumption DEF ObtainQueue
  <1>2. TypeOK
    BY DEF Inv
  <1> HIDE DEF a
  <1>3. /\ chans' \in Seq(Seq(Jobs)) /\ Queues \subseteq Queues'
        /\ Len(chans) <= Len(chans')
        /\ \A q \in Queues : chans'[q] = chans[q]
        /\ \A q \in Queues' \ Queues : chans'[q] = <<>>
        /\ queueOf' \in [Agents -> 0..Len(chans')]
        /\ QueueFor(a) \in Queues'
    BY <1>1, <1>2, QueueEnsured
  <1>4. PlaceInv' /\ \A x \in Jobs : Placed(x)' <=> Placed(x)
    BY <1>1, <1>2, <1>3, PlacesGrow DEF Inv
  <1>5. CallerInv'
    <2>1. /\ \A x \in Jobs \ {j} : submit'[x] = submit[x]
          /\ submit'[j] = "queued"
      BY <1>1, <1>2 DEF TypeOK
    <2>2. PendingExact' /\ RefusedTooLate' /\ ResponsesAccepted' /\ ResultSet'
      BY <1>1, <2>1 DEF Inv, CallerInv, PendingExact, Active, RefusedTooLate,
                        ResponsesAccepted, ResultSet
    <2>3. NotSentNowhere'
      BY <1>1, <1>4, <2>1 DEF Inv, CallerInv, NotSentNowhere
    <2> QED BY <2>2, <2>3 DEF CallerInv
  <1>6. ReachInv'
    BY <1>1, <1>2, ReachEnsured DEF TypeOK, a
  <1>7. TypeOK'
    <2>1. Len(chans) \in Nat /\ Len(chans') \in Nat /\ Len(chans) <= Len(chans')
      BY <1>2, <1>3 DEF TypeOK
    <2>2. subQ' \in [Jobs -> 0..Len(chans')]
      BY <1>1, <1>2, <1>3, <2>1 DEF TypeOK, Queues
    <2>3. submit' \in [Jobs -> SubmitPCs]
      BY <1>1, <1>2 DEF TypeOK, SubmitPCs
    <2>4. \A p \in Polls : poll[p] \in {Idle} \cup [pc : {"authenticated"}, agent : Agents]
              \cup [pc : {"polling"}, agent : Agents, q : 1..Len(chans')]
      BY <1>2, <2>1 DEF TypeOK
    <2> QED BY <1>1, <1>2, <1>3, <2>2, <2>3, <2>4 DEF TypeOK, adminVars
  <1> QED BY <1>4, <1>5, <1>6, <1>7 DEF Inv

LEMMA EnqueueKeeps ==
    ASSUME Inv, NEW j \in Jobs, Enqueue(j)
    PROVE  Inv'
  <1> USE DEF replyVars, pollVars, postVars
  <1>0. PICK at : at = subQ[j]
    OBVIOUS
  <1>1. /\ submit[j] = "registered" /\ Len(chans[at]) < MaxQ
        /\ chans' = [chans EXCEPT ![at] = Append(@, j)]
        /\ submit' = [submit EXCEPT ![j] = "waiting"]
        /\ UNCHANGED <<queueOf, subQ, result, expired, holding, replyVars, pollVars,
                       postVars, adminVars>>
    BY <1>0 DEF Enqueue
  <1>2. /\ TypeOK /\ ~Placed(j) /\ at \in Queues
        /\ cuts = 0 /\ AgentOf[j] \in live => queueOf[AgentOf[j]] = at
    BY <1>0, <1>1 DEF Inv, CallerInv, NotSentNowhere, ReachInv, QueueInHand
  <1>3. /\ chans' \in Seq(Seq(Jobs)) /\ Len(chans') = Len(chans)
        /\ JobsIn(at)' = JobsIn(at) \cup {j}
        /\ \A q \in Queues \ {at} : JobsIn(q)' = JobsIn(q)
        /\ PlaceInv'
        /\ \A x \in Jobs : Placed(x)' <=> Placed(x) \/ x = j
    BY <1>1, <1>2, Appended DEF Inv
  <1>4. submit'[j] = "waiting" /\ \A x \in Jobs \ {j} : submit'[x] = submit[x]
    BY <1>1, <1>2 DEF TypeOK
  <1>5. TypeOK'
    BY <1>1, <1>2, <1>3 DEF TypeOK, SubmitPCs, adminVars
  <1>6. CallerInv'
    <2>1. result[j] = "none"
      BY <1>1 DEF Inv, CallerInv, ResultSet
    <2>2. PendingExact' /\ RefusedTooLate' /\ ResponsesAccepted' /\ ResultSet'
      BY <1>1, <1>4 DEF Inv, CallerInv, PendingExact, Active, RefusedTooLate,
                        ResponsesAccepted, ResultSet
    <2>3. NotSentNowhere'
      BY <1>1, <1>3, <1>4, <2>1 DEF Inv, CallerInv, NotSentNowhere
    <2> QED BY <2>2, <2>3 DEF CallerInv
  <1>7. ReachInv'
    <2>1. Queues' = Queues
      BY <1>3 DEF Queues
    <2>2. QueueInHand'
      BY <1>1, <1>4, <2>1 DEF Inv, ReachInv, QueueInHand, adminVars
    <2>3. QueuedIsReachable'
      <3> SUFFICES ASSUME NEW q \in Queues, NEW x \in JobsIn(q)', cuts = 0, AgentOf[x] \in live
                   PROVE  queueOf[AgentOf[x]] = q
        BY <1>1, <2>1 DEF QueuedIsReachable, Queues, adminVars
      <3>1. CASE x \in JobsIn(q)
        BY <3>1 DEF Inv, ReachInv, QueuedIsReachable, Queues
      <3>2. CASE x = j /\ q = at
        BY <3>2, <1>2
      <3> QED BY <3>1, <3>2, <1>3
    <2> QED BY <1>1, <2>2, <2>3 DEF Inv, ReachInv, adminVars
  <1> QED BY <1>3, <1>5, <1>6, <1>7 DEF Inv

\* A poll or a response takes jobs out of the queues, or moves them on.
LEMMA ReachShrinks ==
    ASSUME Inv, Len(chans') = Len(chans),
           \A q \in Queues : JobsIn(q)' \subseteq JobsIn(q),
           UNCHANGED <<queueOf, submitVars, adminVars>>
    PROVE  ReachInv'
  <1>1. Queues' = Queues
    BY DEF Queues
  <1>2. QueueInHand'
    BY <1>1 DEF Inv, ReachInv, QueueInHand, submitVars, adminVars
  <1>3. QueuedIsReachable'
    BY <1>1 DEF Inv, ReachInv, QueuedIsReachable, Queues, adminVars
  <1> QED BY <1>2, <1>3 DEF Inv, ReachInv, adminVars

LEMMA PollObtainKeeps ==
    ASSUME Inv, NEW p \in Polls, PollObtainQueue(p)
    PROVE  Inv'
  <1> USE DEF replyVars, submitVars, postVars
  <1>0. PICK a : a = poll[p].agent
    OBVIOUS
  <1>1. /\ poll[p].pc = "authenticated" /\ EnsureQueue(a)
        /\ poll' = [poll EXCEPT ![p] = [pc |-> "polling", agent |-> a, q |-> QueueFor(a)]]
        /\ UNCHANGED <<held, lost, replyVars, submitVars, postVars, adminVars>>
    BY <1>0 DEF PollObtainQueue
  <1>2. TypeOK /\ a \in Agents
    BY <1>0, <1>1 DEF Inv, TypeOK, Idle
  <1>3. /\ chans' \in Seq(Seq(Jobs)) /\ Queues \subseteq Queues'
        /\ Len(chans) <= Len(chans')
        /\ \A q \in Queues : chans'[q] = chans[q]
        /\ \A q \in Queues' \ Queues : chans'[q] = <<>>
        /\ queueOf' \in [Agents -> 0..Len(chans')]
        /\ QueueFor(a) \in Queues'
    BY <1>1, <1>2, QueueEnsured
  <1>4. PlaceInv' /\ \A x \in Jobs : Placed(x)' <=> Placed(x)
    BY <1>1, <1>2, <1>3, PlacesGrow DEF Inv
  <1>5. CallerInv'
    BY <1>1, <1>4, CallersWait DEF Inv, CallerInv, RefusedTooLate, ResponsesAccepted
  <1>6. ReachInv'
    BY <1>1, <1>2, ReachEnsured
  <1>7. TypeOK'
    <2>1. Len(chans) \in Nat /\ Len(chans') \in Nat
      BY <1>2, <1>3 DEF TypeOK
    <2>2. subQ' \in [Jobs -> 0..Len(chans')]
      BY <1>1, <1>2, <1>3, <2>1 DEF TypeOK
    <2>3. [pc |-> "polling", agent |-> a, q |-> QueueFor(a)]
              \in [pc : {"polling"}, agent : Agents, q : 1..Len(chans')]
      BY <1>2, <1>3 DEF Queues
    <2>4. \A x \in Polls : poll[x] \in {Idle} \cup [pc : {"authenticated"}, agent : Agents]
              \cup [pc : {"polling"}, agent : Agents, q : 1..Len(chans')]
      BY <1>2, <1>3, <2>1 DEF TypeOK
    <2>5. poll' \in [Polls -> {Idle} \cup [pc : {"authenticated"}, agent : Agents]
              \cup [pc : {"polling"}, agent : Agents, q : 1..Len(chans')]]
      BY <1>1, <1>2, <2>3, <2>4 DEF TypeOK
    <2> QED BY <1>1, <1>2, <1>3, <2>2, <2>5 DEF TypeOK, adminVars
  <1> QED BY <1>4, <1>5, <1>6, <1>7 DEF Inv

\* A poll that begins or ends without a job.
LEMMA PollIdleKeeps ==
    ASSUME Inv, NEW p \in Polls, PollExpire(p) \/ \E a \in Agents : PollAuthenticate(p, a)
    PROVE  Inv'
  <1> USE DEF queueVars, replyVars, submitVars, postVars
  <1>1. UNCHANGED <<held, lost, queueVars, replyVars, submitVars, postVars, adminVars>>
    BY DEF PollExpire, PollAuthenticate
  <1>2. poll' \in [Polls -> {Idle} \cup [pc : {"authenticated"}, agent : Agents]
                             \cup [pc : {"polling"}, agent : Agents, q : 1..Len(chans)]]
    <2>1. \/ poll' = [poll EXCEPT ![p] = Idle]
          \/ \E a \in Agents : poll' = [poll EXCEPT ![p] = [pc |-> "authenticated", agent |-> a]]
      BY DEF PollExpire, PollAuthenticate
    <2>2. CASE poll' = [poll EXCEPT ![p] = Idle]
      BY <2>2 DEF Inv, TypeOK
    <2>3. ASSUME NEW a \in Agents,
                 poll' = [poll EXCEPT ![p] = [pc |-> "authenticated", agent |-> a]]
          PROVE  poll' \in [Polls -> {Idle} \cup [pc : {"authenticated"}, agent : Agents]
                                \cup [pc : {"polling"}, agent : Agents, q : 1..Len(chans)]]
      BY <2>3 DEF Inv, TypeOK
    <2> QED BY <2>1, <2>2, <2>3
  <1>3. TypeOK'
    BY <1>1, <1>2 DEF Inv, TypeOK, adminVars
  <1>4. /\ PlaceInv' /\ \A q \in Queues : JobsIn(q)' = JobsIn(q)
        /\ \A x \in Jobs : Placed(x)' <=> Placed(x)
    BY <1>1, PlacesSame DEF Inv
  <1>5. CallerInv'
    BY <1>1, <1>4, CallersWait DEF Inv, CallerInv, RefusedTooLate, ResponsesAccepted
  <1>6. ReachInv'
    BY <1>1, <1>4, ReachShrinks
  <1> QED BY <1>3, <1>4, <1>5, <1>6 DEF Inv

LEMMA TakeKeeps ==
    ASSUME Inv, NEW p \in Polls, PollTake(p) \/ PollTakeLost(p)
    PROVE  Inv'
  <1> USE DEF replyVars, submitVars, postVars
  <1>0. PICK j, a : j = Head(chans[poll[p].q]) /\ a = poll[p].agent
    OBVIOUS
  <1>1. /\ Dequeue(p)
        /\ \/ held' = held \cup {<<a, j>>} /\ UNCHANGED lost
           \/ lost' = lost \cup {j} /\ UNCHANGED held
        /\ UNCHANGED <<queueOf, replyVars, submitVars, postVars, adminVars>>
    BY <1>0 DEF PollTake, PollTakeLost
  <1>2. /\ TypeOK /\ a \in Agents
        /\ poll' = [poll EXCEPT ![p] = Idle]
    <2>1. poll[p].pc = "polling" /\ poll' = [poll EXCEPT ![p] = Idle]
      BY <1>1 DEF Dequeue
    <2> QED BY <1>0, <2>1 DEF Inv, TypeOK, Idle
  <1>3. /\ j \in Jobs /\ InQueue(j)
        /\ chans' \in Seq(Seq(Jobs)) /\ Len(chans') = Len(chans)
        /\ \A q \in Queues : JobsIn(q)' = JobsIn(q) \ {j}
        /\ \A x \in Jobs : InQueue(x)' <=> InQueue(x) /\ x # j
        /\ QueuesBounded' /\ OnceQueued'
    BY <1>0, <1>1, <1>2, Dequeued DEF Inv, PlaceInv
  <1>4. ~WithAgent(j) /\ ~InHandler(j) /\ ~Ended(j)
    BY <1>3 DEF Inv, PlaceInv, Exclusive
  <1>5. \A x \in Jobs : /\ InHandler(x)' <=> InHandler(x)
                        /\ x # j => /\ WithAgent(x)' <=> WithAgent(x)
                                    /\ Ended(x)' <=> Ended(x)
    <2>1. \A x \in Jobs : InHandler(x)' <=> InHandler(x)
      BY <1>1 DEF InHandler, Sending
    <2>2. \A x \in Jobs \ {j}, b \in Agents : <<b, x>> \in held' <=> <<b, x>> \in held
      BY <1>1
    <2>3. \A x \in Jobs \ {j} : Ended(x)' <=> Ended(x)
      BY <1>1 DEF Ended
    <2> QED BY <2>1, <2>2, <2>3 DEF WithAgent
  <1>6. /\ ~(WithAgent(j)' /\ Ended(j)')
        /\ \A b \in Agents : <<b, j>> \in held' => b = a
    BY <1>1, <1>4 DEF WithAgent, Ended
  <1>7. OnceTaken'
    BY <1>1, <1>6 DEF Inv, PlaceInv, OnceTaken, Sending
  <1>8. Exclusive'
    <2>1. /\ lost' \cap accepted' = {} /\ lost' \cap refused' = {}
          /\ accepted' \cap refused' = {}
      BY <1>1, <1>4 DEF Inv, PlaceInv, Exclusive, Ended
    <2> QED BY <1>3, <1>4, <1>5, <1>6, <2>1 DEF Inv, PlaceInv, Exclusive
  <1>9. \A x \in Jobs : Placed(x)' => Placed(x)
    BY <1>3, <1>5 DEF Placed
  <1>10. CallerInv'
    BY <1>1, <1>9, CallersWait DEF Inv, CallerInv, RefusedTooLate, ResponsesAccepted
  <1>11. ReachInv'
    BY <1>1, <1>3, ReachShrinks
  <1>12. TypeOK'
    <2>1. poll' \in [Polls -> {Idle} \cup [pc : {"authenticated"}, agent : Agents]
                               \cup [pc : {"polling"}, agent : Agents, q : 1..Len(chans')]]
      BY <1>2, <1>3 DEF TypeOK
    <2> QED BY <1>1, <1>2, <1>3, <2>1 DEF TypeOK, adminVars
  <1> QED BY <1>3, <1>7, <1>8, <1>10, <1>11, <1>12 DEF Inv, PlaceInv

\* A response handler or an agent moves one job on; the queues stay as they are.
LEMMA Moved ==
    ASSUME Inv, NEW j \in Jobs, ~InQueue(j), UNCHANGED chans,
           \A x \in Jobs \ {j} : /\ \A a \in Agents : <<a, x>> \in held' <=> <<a, x>> \in held
                                 /\ \A k \in Posts : Sending(k, x)' <=> Sending(k, x)
                                 /\ x \in lost' <=> x \in lost
                                 /\ x \in accepted' <=> x \in accepted
                                 /\ x \in refused' <=> x \in refused,
           ~WithAgent(j)', \A k, h \in Posts : Sending(k, j)' /\ Sending(h, j)' => k = h,
           InHandler(j)' => ~Ended(j)',
           ~(j \in lost' /\ j \in accepted'), ~(j \in lost' /\ j \in refused'),
           ~(j \in accepted' /\ j \in refused'),
           lost' \cup accepted' \cup refused' \subseteq Jobs
    PROVE  PlaceInv' /\ \A x \in Jobs \ {j} : Placed(x)' <=> Placed(x)
  <1>1. \A x \in Jobs : InQueue(x)' <=> InQueue(x)
    BY DEF InQueue, JobsIn
  <1>2. \A x \in Jobs \ {j} : /\ WithAgent(x)' <=> WithAgent(x)
                              /\ InHandler(x)' <=> InHandler(x)
                              /\ Ended(x)' <=> Ended(x)
    BY DEF WithAgent, InHandler, Ended
  <1>3. QueuesBounded' /\ OnceQueued'
    <2>1. Queues' = Queues /\ \A q : JobsIn(q)' = JobsIn(q)
      BY DEF Queues, JobsIn
    <2> QED BY <2>1 DEF Inv, PlaceInv, QueuesBounded, OnceQueued
  <1>4. OnceTaken'
    <2>1. \A a, b \in Agents : \A x \in Jobs :
              <<a, x>> \in held' /\ <<b, x>> \in held' => a = b
      BY DEF Inv, PlaceInv, OnceTaken, WithAgent
    <2>2. \A k, h \in Posts : \A x \in Jobs : Sending(k, x)' /\ Sending(h, x)' => k = h
      BY DEF Inv, PlaceInv, OnceTaken
    <2> QED BY <2>1, <2>2 DEF OnceTaken
  <1>5. Exclusive'
    <2>1. /\ lost' \cap accepted' = {} /\ lost' \cap refused' = {}
          /\ accepted' \cap refused' = {}
      BY DEF Inv, PlaceInv, Exclusive
    <2> QED BY <1>1, <1>2, <2>1 DEF Inv, PlaceInv, Exclusive
  <1> QED BY <1>1, <1>2, <1>3, <1>4, <1>5 DEF PlaceInv, Placed

LEMMA LookupKeeps ==
    ASSUME Inv, NEW k \in Posts, NEW a \in Agents, NEW j \in Jobs, Lookup(k, a, j)
    PROVE  Inv'
  <1> USE DEF queueVars, replyVars, submitVars
  <1>1. /\ post[k] = Idle /\ <<a, j>> \in held /\ held' = held \ {<<a, j>>}
        /\ UNCHANGED <<poll, lost, accepted, queueVars, replyVars, submitVars, adminVars>>
    BY DEF Lookup
  <1>2. \/ /\ j \in pending /\ UNCHANGED refused
           /\ post' = [post EXCEPT ![k] = [pc |-> "sending", job |-> j]]
        \/ j \notin pending /\ refused' = refused \cup {j} /\ UNCHANGED post
    BY DEF Lookup
  <1>3. TypeOK /\ WithAgent(j) /\ ~InQueue(j) /\ ~InHandler(j) /\ ~Ended(j)
    BY <1>1 DEF Inv, PlaceInv, Exclusive, WithAgent
  <1>4. ~Sending(k, j)' \/ j \in pending
    BY <1>1, <1>2 DEF Sending, Idle
  <1>5. ~WithAgent(j)'
    BY <1>1 DEF Inv, PlaceInv, OnceTaken, WithAgent
  <1>6. \A x \in Jobs \ {j}, b \in Agents : <<b, x>> \in held' <=> <<b, x>> \in held
    BY <1>1
  <1>7. /\ \A x \in Jobs \ {j}, h \in Posts : Sending(h, x)' <=> Sending(h, x)
        /\ \A h \in Posts : Sending(h, j)' => h = k /\ j \in pending
    <2>1. post[k].pc # "sending" /\ \A h \in Posts : ~Sending(h, j)
      BY <1>1, <1>3 DEF Idle, InHandler
    <2>2. CASE UNCHANGED post
      BY <2>1, <2>2 DEF Sending
    <2>3. CASE j \in pending /\ post' = [post EXCEPT ![k] = [pc |-> "sending", job |-> j]]
      <3>1. /\ post'[k] = [pc |-> "sending", job |-> j]
            /\ \A h \in Posts \ {k} : post'[h] = post[h]
        BY <2>3, <1>3 DEF TypeOK
      <3> QED BY <2>1, <2>3, <3>1 DEF Sending
    <2> QED BY <1>2, <2>2, <2>3
  <1>8. InHandler(j)' => ~Ended(j)'
    BY <1>1, <1>2, <1>3, <1>7 DEF InHandler, Ended
  <1>9. PlaceInv' /\ \A x \in Jobs \ {j} : Placed(x)' <=> Placed(x)
    BY <1>1, <1>2, <1>3, <1>5, <1>6, <1>7, <1>8, Moved DEF Ended, TypeOK
  <1>10. CallerInv'
    <2>1. Placed(j)
      BY <1>3 DEF Placed
    <2>2. RefusedTooLate'
      <3>1. j \notin pending => submit[j] = "returned"
        BY <1>3, <2>1 DEF Inv, TypeOK, SubmitPCs, CallerInv, NotSentNowhere, PendingExact,
                          Active
      <3> QED BY <1>1, <1>2, <3>1 DEF Inv, CallerInv, RefusedTooLate
    <2> QED BY <1>1, <1>9, <2>1, <2>2, CallersWait DEF Inv, CallerInv, ResponsesAccepted
  <1>11. ReachInv'
    BY <1>1, ReachShrinks DEF JobsIn
  <1>12. TypeOK'
    <2>1. refused' \subseteq Jobs /\ held' \subseteq Agents \X Jobs
      BY <1>1, <1>2, <1>3 DEF TypeOK
    <2>2. post' \in [Posts -> {Idle} \cup [pc : {"sending"}, job : Jobs]]
      <3>1. post \in [Posts -> {Idle} \cup [pc : {"sending"}, job : Jobs]]
        BY <1>3 DEF TypeOK
      <3> QED BY <1>2, <3>1
    <2> QED BY <1>1, <1>3, <2>1, <2>2 DEF TypeOK, adminVars
  <1> QED BY <1>9, <1>10, <1>11, <1>12 DEF Inv

LEMMA SendKeeps ==
    ASSUME Inv, NEW k \in Posts, Send(k)
    PROVE  Inv'
  <1> USE DEF queueVars, submitVars, pollVars
  <1>0. PICK j : j = post[k].job
    OBVIOUS
  <1>1. /\ post[k].pc = "sending" /\ respCh' = respCh \cup {j}
        /\ accepted' = accepted \cup {j} /\ post' = [post EXCEPT ![k] = Idle]
        /\ UNCHANGED <<pending, refused, queueVars, submitVars, pollVars, adminVars>>
    BY <1>0 DEF Send
  <1>2. TypeOK /\ j \in Jobs /\ Sending(k, j)
    BY <1>0, <1>1 DEF Inv, TypeOK, Idle, Sending
  <1>3. InHandler(j) /\ ~InQueue(j) /\ ~WithAgent(j) /\ ~Ended(j)
    BY <1>2 DEF Inv, PlaceInv, Exclusive, InHandler
  <1>4. \A h \in Posts : ~Sending(h, j)'
    BY <1>1, <1>2 DEF Inv, PlaceInv, OnceTaken, TypeOK, Sending, Idle
  <1>5. \A x \in Jobs \ {j}, h \in Posts : Sending(h, x)' <=> Sending(h, x)
    BY <1>1, <1>2 DEF TypeOK, Sending, Idle
  <1>6. ~WithAgent(j)' /\ ~InHandler(j)'
    BY <1>1, <1>3, <1>4 DEF WithAgent, InHandler
  <1>7. PlaceInv' /\ \A x \in Jobs \ {j} : Placed(x)' <=> Placed(x)
    BY <1>1, <1>2, <1>3, <1>4, <1>5, <1>6, Moved DEF Ended, TypeOK
  <1>8. CallerInv'
    <2>1. Placed(j)
      BY <1>3 DEF Placed
    <2>2. RefusedTooLate' /\ ResponsesAccepted'
      BY <1>1 DEF Inv, CallerInv, RefusedTooLate, ResponsesAccepted
    <2> QED BY <1>1, <1>7, <2>1, <2>2, CallersWait
  <1>9. ReachInv'
    BY <1>1, ReachShrinks DEF JobsIn
  <1>10. TypeOK'
    BY <1>1, <1>2 DEF TypeOK, adminVars
  <1> QED BY <1>7, <1>8, <1>9, <1>10 DEF Inv

LEMMA AbandonKeeps ==
    ASSUME Inv, NEW a \in Agents, NEW j \in Jobs, Abandon(a, j)
    PROVE  Inv'
  <1> USE DEF queueVars, replyVars, submitVars, postVars
  <1>1. /\ <<a, j>> \in held /\ held' = held \ {<<a, j>>} /\ lost' = lost \cup {j}
        /\ UNCHANGED <<poll, queueVars, replyVars, submitVars, postVars, adminVars>>
    BY DEF Abandon
  <1>2. TypeOK /\ WithAgent(j) /\ ~InQueue(j) /\ ~InHandler(j) /\ ~Ended(j)
    BY <1>1 DEF Inv, PlaceInv, Exclusive, WithAgent
  <1>3. ~WithAgent(j)'
    BY <1>1 DEF Inv, PlaceInv, OnceTaken, WithAgent
  <1>4. \A x \in Jobs \ {j}, b \in Agents : <<b, x>> \in held' <=> <<b, x>> \in held
    BY <1>1
  <1>5. \A x \in Jobs, h \in Posts : Sending(h, x)' <=> Sending(h, x)
    BY <1>1 DEF Sending
  <1>6. ~InHandler(j)'
    BY <1>2, <1>5 DEF InHandler
  <1>7. PlaceInv' /\ \A x \in Jobs \ {j} : Placed(x)' <=> Placed(x)
    BY <1>1, <1>2, <1>3, <1>4, <1>5, <1>6, Moved DEF Ended, TypeOK, InHandler
  <1>8. CallerInv'
    <2>1. Placed(j)
      BY <1>2 DEF Placed
    <2> QED BY <1>1, <1>7, <2>1, CallersWait DEF Inv, CallerInv, RefusedTooLate,
                                                 ResponsesAccepted
  <1>9. ReachInv'
    BY <1>1, ReachShrinks DEF JobsIn
  <1>10. TypeOK'
    BY <1>1, <1>2 DEF TypeOK, adminVars
  <1> QED BY <1>7, <1>8, <1>9, <1>10 DEF Inv

\* deleteAgent and "reconnect" touch the agents' rows and the hub's entries only.
LEMMA AdminKeeps ==
    ASSUME Inv, NEW a \in Agents, DeleteRow(a) \/ DeleteFromHub(a) \/ Reconnect(a)
    PROVE  Inv'
  <1> USE DEF replyVars, submitVars, pollVars, postVars, queueVars
  <1>1. UNCHANGED <<chans, replyVars, submitVars, pollVars, postVars>>
    BY DEF DeleteRow, DeleteFromHub, Reconnect, RemoveAgent
  <1>2. TypeOK /\ live \cap deleting = {}
    BY DEF Inv, ReachInv
  <1>3. /\ PlaceInv' /\ \A q \in Queues : JobsIn(q)' = JobsIn(q)
        /\ \A x \in Jobs : Placed(x)' <=> Placed(x)
    BY <1>1, PlacesSame DEF Inv
  <1>4. CallerInv'
    BY <1>1, <1>3, CallersWait DEF Inv, CallerInv, RefusedTooLate, ResponsesAccepted
  <1>5. /\ live' \subseteq live /\ live' \cap deleting' = {}
        /\ \/ cuts' # 0
           \/ cuts' = cuts /\ \A b \in live' : queueOf'[b] = queueOf[b]
    BY <1>2, BoundsAssumption DEF TypeOK, DeleteRow, DeleteFromHub, Reconnect, RemoveAgent
  <1>6. ReachInv'
    <2>1. QueueInHand'
      BY <1>1, <1>5 DEF Inv, ReachInv, QueueInHand, Queues
    <2>2. QueuedIsReachable'
      BY <1>1, <1>5 DEF Inv, ReachInv, QueuedIsReachable, JobsIn
    <2> QED BY <1>5, <2>1, <2>2 DEF ReachInv
  <1>7. TypeOK'
    <2>1. /\ live' \subseteq Agents /\ deleting' \subseteq Agents
          /\ queueOf' \in [Agents -> 0..Len(chans)]
      <3>1. CASE DeleteRow(a)
        BY <1>2, <3>1 DEF TypeOK, DeleteRow
      <3>2. CASE DeleteFromHub(a) \/ Reconnect(a)
        <4>1. queueOf' = [queueOf EXCEPT ![a] = 0]
              /\ live' \subseteq live /\ deleting' \subseteq deleting
          BY <3>2 DEF DeleteFromHub, Reconnect, RemoveAgent
        <4>2. queueOf \in [Agents -> 0..Len(chans)] /\ 0 \in 0..Len(chans)
          BY <1>2 DEF TypeOK
        <4>3. queueOf' \in [Agents -> 0..Len(chans)]
          BY <4>1, <4>2
        <4> QED BY <1>2, <4>1, <4>3 DEF TypeOK
      <3> QED BY <3>1, <3>2
    <2>2. cuts' \in 0..MaxCuts
      BY <1>2, BoundsAssumption DEF TypeOK, DeleteRow, DeleteFromHub, Reconnect
    <2> QED BY <1>1, <1>2, <2>1, <2>2 DEF TypeOK
  <1> QED BY <1>3, <1>4, <1>6, <1>7 DEF Inv

LEMMA NextInv == Inv /\ [Next]_vars => Inv'
  <1> SUFFICES ASSUME Inv, [Next]_vars PROVE Inv'
    OBVIOUS
  <1>1. CASE \E j \in Jobs : SubmitStep(j)
    BY <1>1, SubmitKeeps, ObtainKeeps, EnqueueKeeps DEF SubmitStep
  <1>2. CASE \E p \in Polls : PollStep(p)
    BY <1>2, PollIdleKeeps, PollObtainKeeps, TakeKeeps DEF PollStep
  <1>3. CASE \E k \in Posts : PostStep(k)
    BY <1>3, LookupKeeps, SendKeeps DEF PostStep
  <1>4. CASE \E a \in Agents : AgentStep(a)
    BY <1>4, AbandonKeeps, AdminKeeps DEF AgentStep
  <1>5. CASE UNCHANGED vars
    <2> USE <1>5 DEF vars, queueVars, replyVars, submitVars, pollVars, postVars, adminVars
    <2>1. TypeOK'
      BY DEF Inv, TypeOK
    <2>2. PlaceInv' /\ \A j \in Jobs : Placed(j)' <=> Placed(j)
      BY PlacesSame DEF Inv
    <2>3. CallerInv'
      BY <2>2, CallersWait DEF Inv, CallerInv, RefusedTooLate, ResponsesAccepted
    <2>4. ReachInv'
      BY ReachShrinks DEF JobsIn
    <2> QED BY <2>1, <2>2, <2>3, <2>4 DEF Inv
  <1> QED BY <1>1, <1>2, <1>3, <1>4, <1>5 DEF Next

-----------------------------------------------------------------------------
(* What the invariant gives. *)

\* The places of a job, one kind at a time.
LEMMA PlacesAre ==
    ASSUME Inv, NEW j \in Jobs, NEW x \in Places(j)
    PROVE  \/ \E q \in Queues : \E i \in 1..Len(chans[q]) :
                  chans[q][i] = j /\ x = <<"queue", <<q, i>>>>
           \/ \E a \in Agents : <<a, j>> \in held /\ x = <<"agent", a>>
           \/ \E k \in Posts : Sending(k, j) /\ x = <<"handler", k>>
           \/ j \in lost /\ x = <<"ended", "lost">>
           \/ j \in accepted /\ x = <<"ended", "accepted">>
           \/ j \in refused /\ x = <<"ended", "refused">>
  <1>1. CASE x \in {<<"queue", at>> : at \in {p \in (1..Len(chans)) \X (1..MaxQ) :
                        p[2] <= Len(chans[p[1]]) /\ chans[p[1]][p[2]] = j}}
    <2>1. PICK at \in (1..Len(chans)) \X (1..MaxQ) :
              at[2] <= Len(chans[at[1]]) /\ chans[at[1]][at[2]] = j /\ x = <<"queue", at>>
      BY <1>1
    <2>2. PICK q \in 1..Len(chans), i \in 1..MaxQ : at = <<q, i>>
      BY <2>1
    <2>3. q \in Queues /\ i \in 1..Len(chans[q]) /\ chans[q][i] = j
      BY <2>1, <2>2, QueueTyped, SizesAssumption DEF Inv, Queues
    <2> QED BY <2>1, <2>2, <2>3
  <1>2. CASE x \in {<<"agent", a>> : a \in {b \in Agents : <<b, j>> \in held}}
    BY <1>2
  <1>3. CASE x \in {<<"handler", k>> : k \in {h \in Posts : Sending(h, j)}}
    BY <1>3
  <1>4. CASE x \in (IF j \in lost THEN {<<"ended", "lost">>} ELSE {})
                       \cup (IF j \in accepted THEN {<<"ended", "accepted">>} ELSE {})
                       \cup (IF j \in refused THEN {<<"ended", "refused">>} ELSE {})
    BY <1>4
  <1> QED BY <1>1, <1>2, <1>3, <1>4 DEF Places

LEMMA InvAtMostOnce == Inv => AtMostOnce
  <1> SUFFICES ASSUME Inv, NEW j \in Jobs, NEW x \in Places(j), NEW y \in Places(j)
               PROVE  x = y
    BY DEF AtMostOnce
  <1> DEFINE Queued(z) == \E q \in Queues : \E i \in 1..Len(chans[q]) :
                              chans[q][i] = j /\ z = <<"queue", <<q, i>>>>
             Held(z) == \E a \in Agents : <<a, j>> \in held /\ z = <<"agent", a>>
             Handled(z) == \E k \in Posts : Sending(k, j) /\ z = <<"handler", k>>
             Over(z) == \/ j \in lost /\ z = <<"ended", "lost">>
                        \/ j \in accepted /\ z = <<"ended", "accepted">>
                        \/ j \in refused /\ z = <<"ended", "refused">>
  <1>1. \A z \in {x, y} : Queued(z) \/ Held(z) \/ Handled(z) \/ Over(z)
    BY PlacesAre
  <1>2. \A z \in {x, y} : /\ Queued(z) => InQueue(j)
                          /\ Held(z) => WithAgent(j)
                          /\ Handled(z) => InHandler(j)
                          /\ Over(z) => Ended(j)
    BY DEF InQueue, JobsIn, Queues, WithAgent, InHandler, Ended
  <1>3. /\ InQueue(j) => ~WithAgent(j) /\ ~InHandler(j) /\ ~Ended(j)
        /\ WithAgent(j) => ~InHandler(j) /\ ~Ended(j)
        /\ InHandler(j) => ~Ended(j)
    BY DEF Inv, PlaceInv, Exclusive
  <1>4. CASE Queued(x) /\ Queued(y)
    <2>1. PICK q \in Queues : \E i \in 1..Len(chans[q]) :
                                 chans[q][i] = j /\ x = <<"queue", <<q, i>>>>
      BY <1>4
    <2>2. PICK r \in Queues : \E k \in 1..Len(chans[r]) :
                                 chans[r][k] = j /\ y = <<"queue", <<r, k>>>>
      BY <1>4
    <2>3. PICK i \in 1..Len(chans[q]) : chans[q][i] = j /\ x = <<"queue", <<q, i>>>>
      BY <2>1
    <2>4. PICK k \in 1..Len(chans[r]) : chans[r][k] = j /\ y = <<"queue", <<r, k>>>>
      BY <2>2
    <2>5. q = r
      <3>1. j \in JobsIn(q) /\ j \in JobsIn(r)
        BY <2>3, <2>4 DEF JobsIn
      <3> QED BY <3>1 DEF Inv, PlaceInv, OnceQueued
    <2>6. i = k
      BY <2>3, <2>4, <2>5 DEF Inv, PlaceInv, OnceQueued
    <2> QED BY <2>5, <2>6, <2>3, <2>4
  <1>5. CASE Held(x) /\ Held(y)
    BY <1>5 DEF Inv, PlaceInv, OnceTaken
  <1>6. CASE Handled(x) /\ Handled(y)
    BY <1>6 DEF Inv, PlaceInv, OnceTaken
  <1>7. CASE Over(x) /\ Over(y)
    BY <1>7 DEF Inv, PlaceInv, Exclusive
  <1> HIDE DEF Queued, Held, Handled, Over
  <1> QED BY <1>1, <1>2, <1>3, <1>4, <1>5, <1>6, <1>7

LEMMA InvAccepted == Inv => AcceptedIsReturned
  <1> SUFFICES ASSUME Inv, NEW j \in accepted, submit[j] = "returned", j \notin expired
               PROVE  result[j] = "answer"
    BY DEF AcceptedIsReturned
  <1>1. j \in Jobs /\ Placed(j)
    BY DEF Inv, TypeOK, Placed, Ended
  <1>2. result[j] # "error" /\ result[j] # "none"
    BY <1>1 DEF Inv, CallerInv, NotSentNowhere, ResultSet
  <1> QED BY <1>1, <1>2 DEF Inv, TypeOK

\* A response handler that looked its job up finds room in the channel: Complete
\* never waits on a send.
LEMMA InvSendFree ==
    ASSUME Inv, NEW k \in Posts, post[k].pc = "sending"
    PROVE  post[k].job \notin respCh
  <1>1. post[k].job \in Jobs /\ Sending(k, post[k].job)
    BY DEF Inv, TypeOK, Idle, Sending
  <1>2. ~Ended(post[k].job)
    BY <1>1 DEF Inv, PlaceInv, Exclusive, InHandler
  <1> QED BY <1>2 DEF Inv, CallerInv, ResponsesAccepted, Ended

\* The invariant of the requests, their queues and their callers, in every
\* reachable state.
THEOREM Invariance == Spec => []Inv
  BY InitInv, NextInv, PTL DEF Spec

\* No job is handed out twice, whatever polls, responses, reconnects and deletions
\* interleave: Submit sends it once, and each select takes it for good.
THEOREM NeverTwice == Spec => []AtMostOnce
  BY Invariance, InvAtMostOnce, PTL

\* h.pending has exactly the callers that Complete can still answer, and nobody who
\* could be answered is turned away.
THEOREM CallersAlwaysKnown == Spec => []CallersKnown
  <1>1. Inv => CallersKnown
    BY DEF Inv, CallerInv, CallersKnown
  <1> QED BY <1>1, Invariance, PTL

\* What the server acknowledged to an agent is what Submit returns to a caller that
\* is still there.
THEOREM AcceptedAlwaysReturned == Spec => []AcceptedIsReturned
  BY Invariance, InvAccepted, PTL

\* Until an administrator cuts an agent off, each of its jobs waits where its next
\* poll looks.
THEOREM QueuedAlwaysReachable == Spec => []QueuedIsReachable
  <1>1. Inv => QueuedIsReachable
    BY DEF Inv, ReachInv
  <1> QED BY <1>1, Invariance, PTL

-----------------------------------------------------------------------------
(* The refinement of AgentCalls. *)

View == [j \in Jobs |-> CallerView(j)]

\* The mapped state changes only with these.
LEMMA SameCalls ==
    ASSUME UNCHANGED <<View, Gone, accepted, refused>>
    PROVE  UNCHANGED Calls!vars
  BY DEF Calls!vars, View

\* Where a caller is seen.
LEMMA ViewNow ==
    ASSUME Inv, NEW j \in Jobs
    PROVE  /\ submit[j] \in {"idle", "started", "queued"} => CallerView(j) = "out"
           /\ submit[j] \in {"registered", "waiting"} => CallerView(j) = "asking"
           /\ submit[j] \in {"leaving", "returned"} => CallerView(j) \in {"answered", "failed"}
           /\ CallerView(j) # "out" <=>
                  submit[j] \in {"registered", "waiting", "leaving", "returned"}
  <1>1. submit[j] \in SubmitPCs /\ result[j] \in {"none", "answer", "error"}
        /\ (result[j] = "none" <=> submit[j] \notin {"leaving", "returned"})
    BY DEF Inv, TypeOK, CallerInv, ResultSet
  <1> QED BY <1>1 DEF CallerView, SubmitPCs

\* A job that is gone has been placed, and one that is in a queue is not gone.
LEMMA GonePlaced ==
    ASSUME Inv, NEW j \in Jobs
    PROVE  /\ j \in Gone <=> WithAgent(j) \/ InHandler(j) \/ Ended(j)
           /\ j \in Gone => Placed(j)
           /\ InQueue(j) => j \notin Gone
           /\ Placed(j) => submit[j] \in {"waiting", "leaving", "returned"}
  <1>1. j \in Gone <=> WithAgent(j) \/ InHandler(j) \/ Ended(j)
    BY DEF Gone, InHandler, Ended
  <1>2. Placed(j) => submit[j] \in {"waiting", "leaving", "returned"}
    BY DEF Inv, TypeOK, SubmitPCs, CallerInv, NotSentNowhere
  <1> QED BY <1>1, <1>2 DEF Inv, PlaceInv, Exclusive, Placed

LEMMA RefineInit == Init => Calls!Init
  BY DEF Init, Calls!Init, CallerView, Gone, WithAgent, Sending, Idle

\* A Submit asks when it registers, and its wait ends with an answer or a failure.
LEMMA RefineSubmit ==
    ASSUME Inv, NEW j \in Jobs, SubmitStep(j)
    PROVE  [Calls!Next]_(Calls!vars)
  <1> USE DEF queueVars, replyVars, pollVars, postVars, adminVars
  <1>1. UNCHANGED <<held, lost, post, accepted, refused>>
    BY DEF SubmitStep, Start, ObtainQueue, Register, Enqueue, EnqueueFails, Receive,
           GiveUp, DeletePending, ReleaseSlot, EndContext
  <1>2. UNCHANGED <<Gone, accepted, refused>>
    BY <1>1 DEF Gone, WithAgent, Sending
  <1>3. CASE UNCHANGED View
    BY <1>2, <1>3, SameCalls
  <1>4. /\ submit \in [Jobs -> SubmitPCs] /\ result \in [Jobs -> {"none", "answer", "error"}]
        /\ result[j] = "none" <=> submit[j] \notin {"leaving", "returned"}
    BY DEF Inv, TypeOK, CallerInv, ResultSet
  \* Only the caller's own view can change.
  <1>5. ASSUME NEW pc, submit' = [submit EXCEPT ![j] = pc],
               NEW r, result' = [result EXCEPT ![j] = r]
        PROVE  /\ submit'[j] = pc /\ result'[j] = r
               /\ View' = [View EXCEPT ![j] = CallerView(j)']
    <2>1. submit'[j] = pc /\ result'[j] = r
          /\ \A x \in Jobs \ {j} : submit'[x] = submit[x] /\ result'[x] = result[x]
      BY <1>4, <1>5
    <2>2. \A x \in Jobs \ {j} : CallerView(x)' = CallerView(x)
      BY <2>1 DEF CallerView
    <2> QED BY <2>1, <2>2 DEF View
  <1>6. result' = result => result' = [result EXCEPT ![j] = result[j]]
    BY <1>4
  <1>7. CASE \/ Start(j) \/ ObtainQueue(j) \/ Enqueue(j) \/ DeletePending(j)
    <2>1. PICK pc : /\ submit' = [submit EXCEPT ![j] = pc] /\ UNCHANGED result
                    /\ \/ submit[j] \in {"idle", "started"} /\ pc \in {"started", "queued"}
                       \/ submit[j] = "registered" /\ pc = "waiting"
                       \/ submit[j] = "leaving" /\ pc = "returned"
      BY <1>7 DEF Start, ObtainQueue, Enqueue, DeletePending
    <2>2. submit'[j] = pc /\ View' = [View EXCEPT ![j] = CallerView(j)']
      BY <1>5, <1>6, <2>1
    <2>3. CallerView(j)' = CallerView(j)
      BY <1>4, <2>1, <2>2 DEF CallerView
    <2> QED BY <1>3, <2>2, <2>3 DEF View
  <1>8. CASE Register(j)
    <2>1. /\ submit[j] = "queued" /\ submit' = [submit EXCEPT ![j] = "registered"]
          /\ UNCHANGED result
      BY <1>8 DEF Register
    <2>2. submit'[j] = "registered" /\ View' = [View EXCEPT ![j] = CallerView(j)']
      BY <1>5, <1>6, <2>1
    <2>3. CallerView(j) = "out" /\ CallerView(j)' = "asking"
      BY <1>4, <2>1, <2>2 DEF CallerView
    <2>4. Calls!Ask(j)
      BY <1>2, <2>2, <2>3 DEF Calls!Ask, View
    <2> QED BY <2>4 DEF Calls!Next
  <1>9. CASE Receive(j)
    <2>1. /\ submit[j] = "waiting" /\ submit' = [submit EXCEPT ![j] = "leaving"]
          /\ result' = [result EXCEPT ![j] = "answer"] /\ j \in accepted
      BY <1>9 DEF Receive, Inv, CallerInv, ResponsesAccepted
    <2>2. result'[j] = "answer" /\ View' = [View EXCEPT ![j] = CallerView(j)']
      BY <1>5, <2>1
    <2>3. CallerView(j) = "asking" /\ CallerView(j)' = "answered"
      BY <1>4, <2>1, <2>2 DEF CallerView
    <2>4. Calls!Answer(j)
      BY <1>2, <2>1, <2>2, <2>3 DEF Calls!Answer, View
    <2> QED BY <2>4 DEF Calls!Next
  <1>10. CASE EnqueueFails(j) \/ GiveUp(j)
    <2>1. /\ submit[j] \in {"registered", "waiting"}
          /\ submit' = [submit EXCEPT ![j] = "leaving"]
          /\ result' = [result EXCEPT ![j] = "error"]
      BY <1>10 DEF EnqueueFails, GiveUp
    <2>2. result'[j] = "error" /\ View' = [View EXCEPT ![j] = CallerView(j)']
      BY <1>5, <2>1
    <2>3. CallerView(j) = "asking" /\ CallerView(j)' = "failed"
      BY <1>4, <2>1, <2>2 DEF CallerView
    <2>4. Calls!Fail(j)
      BY <1>2, <2>2, <2>3 DEF Calls!Fail, View
    <2> QED BY <2>4 DEF Calls!Next
  <1>11. CASE ReleaseSlot(j) \/ EndContext(j)
    <2>1. UNCHANGED <<submit, result>>
      BY <1>11 DEF ReleaseSlot, EndContext
    <2>2. UNCHANGED View
      BY <2>1 DEF View, CallerView
    <2> QED BY <1>3, <2>2
  <1> QED BY <1>7, <1>8, <1>9, <1>10, <1>11 DEF SubmitStep

\* Outside of Submit no caller's view changes.
LEMMA SameView == UNCHANGED <<submit, result>> => UNCHANGED View
  BY DEF View, CallerView

\* The agent takes a job when it leaves its queue.
LEMMA RefinePoll ==
    ASSUME Inv, NEW p \in Polls, PollStep(p)
    PROVE  [Calls!Next]_(Calls!vars)
  <1> USE DEF queueVars, replyVars, submitVars, postVars
  <1>1. UNCHANGED <<View, accepted, refused>>
    BY SameView DEF PollStep, PollAuthenticate, PollObtainQueue, PollTake, PollTakeLost,
                    PollExpire
  <1>2. CASE PollTake(p) \/ PollTakeLost(p)
    <2>0. PICK j, a : j = Head(chans[poll[p].q]) /\ a = poll[p].agent
      OBVIOUS
    <2>1. /\ Dequeue(p) /\ UNCHANGED post
          /\ \/ held' = held \cup {<<a, j>>} /\ UNCHANGED lost
             \/ lost' = lost \cup {j} /\ UNCHANGED held
      BY <1>2, <2>0 DEF PollTake, PollTakeLost
    <2>2. a \in Agents /\ j \in Jobs /\ InQueue(j)
      <3>1. poll[p].pc = "polling"
        BY <2>1 DEF Dequeue
      <3>2. a \in Agents
        BY <2>0, <3>1 DEF Inv, TypeOK, Idle
      <3> QED BY <2>0, <2>1, <3>2, Dequeued DEF Inv, PlaceInv
    <2>3. j \notin Gone /\ CallerView(j) # "out"
      BY <2>2, GonePlaced, ViewNow DEF Placed
    <2>4. Gone' = Gone \cup {j}
      <3>1. \A x \in Jobs : (\E b \in Agents : <<b, x>> \in held') \/ x \in lost'
                <=> (\E b \in Agents : <<b, x>> \in held) \/ x \in lost \/ x = j
        <4>1. CASE held' = held \cup {<<a, j>>} /\ UNCHANGED lost
          BY <2>2, <4>1
        <4>2. CASE lost' = lost \cup {j} /\ UNCHANGED held
          BY <2>2, <4>2
        <4> QED BY <2>1, <4>1, <4>2
      <3> QED BY <1>1, <2>1, <2>2, <3>1 DEF Gone, WithAgent, Sending
    <2>5. Calls!Take(j)
      BY <1>1, <2>2, <2>3, <2>4 DEF Calls!Take, View
    <2> QED BY <2>2, <2>5 DEF Calls!Next
  <1>3. CASE PollExpire(p) \/ PollObtainQueue(p) \/ \E a \in Agents : PollAuthenticate(p, a)
    <2>1. UNCHANGED Gone
      BY <1>3 DEF PollExpire, PollObtainQueue, PollAuthenticate, Gone, WithAgent, Sending
    <2> QED BY <1>1, <2>1, SameCalls
  <1> QED BY <1>2, <1>3 DEF PollStep

\* A response is refused when it is looked up, or accepted when it is sent.
LEMMA RefinePost ==
    ASSUME Inv, Inv', NEW k \in Posts, PostStep(k)
    PROVE  [Calls!Next]_(Calls!vars)
  <1> USE DEF queueVars, replyVars, submitVars
  <1>1. UNCHANGED View
    BY SameView DEF PostStep, Lookup, Send
  <1>2. ASSUME NEW a \in Agents, NEW j \in Jobs, Lookup(k, a, j)
        PROVE  [Calls!Next]_(Calls!vars)
    <2>1. /\ <<a, j>> \in held /\ held' = held \ {<<a, j>>} /\ post[k] = Idle
          /\ UNCHANGED <<lost, accepted>>
          /\ \/ /\ UNCHANGED refused
                /\ post' = [post EXCEPT ![k] = [pc |-> "sending", job |-> j]]
             \/ refused' = refused \cup {j} /\ UNCHANGED post
      BY <1>2 DEF Lookup
    <2>2. WithAgent(j) /\ j \in Gone /\ ~Ended(j)
      BY <2>1, GonePlaced DEF WithAgent, Inv, PlaceInv, Exclusive
    <2>3. \A x \in Jobs, b \in Agents : x # j => (<<b, x>> \in held' <=> <<b, x>> \in held)
      BY <2>1
    <2>4. CASE refused' = refused \cup {j} /\ UNCHANGED post
      <3>1. UNCHANGED Gone
        BY <2>1, <2>2, <2>3, <2>4 DEF Gone, WithAgent, Sending
      <3>2. submit[j] = "returned"
        BY <1>2, <2>4 DEF Inv, CallerInv, RefusedTooLate, Lookup
      <3>3. CallerView(j) \in {"answered", "failed"}
        BY <3>2, ViewNow
      <3>4. Calls!Refuse(j)
        BY <1>1, <2>1, <2>2, <2>4, <3>1, <3>3 DEF Calls!Refuse, View, Ended
      <3> QED BY <3>4 DEF Calls!Next
    <2>5. CASE UNCHANGED refused /\ post' = [post EXCEPT ![k] = [pc |-> "sending", job |-> j]]
      <3>1. /\ post'[k] = [pc |-> "sending", job |-> j]
            /\ \A h \in Posts \ {k} : post'[h] = post[h]
        BY <2>5 DEF Inv, TypeOK
      <3>2. \A h \in Posts, x \in Jobs : Sending(h, x)' <=> Sending(h, x) \/ (h = k /\ x = j)
        BY <2>1, <3>1 DEF Sending, Idle
      <3>3. UNCHANGED Gone
        BY <2>1, <2>2, <2>3, <2>5, <3>2 DEF Gone, WithAgent
      <3> QED BY <1>1, <2>1, <2>5, <3>3, SameCalls
    <2> QED BY <2>1, <2>4, <2>5
  <1>3. CASE Send(k)
    <2>0. PICK j : j = post[k].job
      OBVIOUS
    <2>1. /\ post[k].pc = "sending" /\ accepted' = accepted \cup {j}
          /\ post' = [post EXCEPT ![k] = Idle] /\ UNCHANGED <<held, lost, refused>>
      BY <1>3, <2>0 DEF Send, pollVars
    <2>2. j \in Jobs /\ Sending(k, j)
      BY <2>0, <2>1 DEF Inv, TypeOK, Idle, Sending
    <2>3. j \in Gone /\ ~Ended(j)
      BY <2>2, GonePlaced DEF InHandler, Inv, PlaceInv, Exclusive
    <2>4. \A h \in Posts, x \in Jobs : x # j => (Sending(h, x)' <=> Sending(h, x))
      BY <2>1, <2>2 DEF Inv, TypeOK, Sending, Idle
    <2>5. UNCHANGED Gone
      BY <2>1, <2>3, <2>4 DEF Gone, WithAgent
    <2>6. Calls!Accept(j)
      BY <1>1, <2>1, <2>3, <2>5 DEF Calls!Accept, View, Ended
    <2> QED BY <2>2, <2>6 DEF Calls!Next
  <1> QED BY <1>2, <1>3 DEF PostStep

\* What an agent loses was gone already; an administrator changes no call.
LEMMA RefineAgent ==
    ASSUME Inv, NEW a \in Agents, AgentStep(a)
    PROVE  UNCHANGED Calls!vars
  <1> USE DEF queueVars, replyVars, submitVars, postVars, pollVars
  <1>1. UNCHANGED <<View, accepted, refused>>
    BY SameView DEF AgentStep, Abandon, DeleteRow, DeleteFromHub, Reconnect, RemoveAgent
  <1>2. ASSUME NEW j \in Jobs, Abandon(a, j)
        PROVE  UNCHANGED Gone
    <2>1. /\ <<a, j>> \in held /\ held' = held \ {<<a, j>>}
          /\ lost' = lost \cup {j} /\ UNCHANGED post
      BY <1>2 DEF Abandon
    <2>2. \A x \in Jobs, b \in Agents : x # j => (<<b, x>> \in held' <=> <<b, x>> \in held)
      BY <2>1
    <2> QED BY <1>1, <2>1, <2>2 DEF Gone, WithAgent, Sending
  <1>3. CASE DeleteRow(a) \/ DeleteFromHub(a) \/ Reconnect(a)
    <2>1. UNCHANGED <<held, lost, post, accepted, refused>>
      BY <1>3 DEF DeleteRow, DeleteFromHub, Reconnect, RemoveAgent
    <2>2. UNCHANGED Gone
      BY <2>1 DEF Gone, WithAgent, Sending
    <2> QED BY <1>1, <2>2, SameCalls
  <1> QED BY <1>1, <1>2, <1>3, SameCalls DEF AgentStep

LEMMA RefineNext == Inv /\ Inv' /\ [Next]_vars => [Calls!Next]_(Calls!vars)
  <1> SUFFICES ASSUME Inv, Inv', [Next]_vars PROVE [Calls!Next]_(Calls!vars)
    OBVIOUS
  <1>1. CASE UNCHANGED vars
    BY <1>1 DEF vars, queueVars, replyVars, submitVars, pollVars, postVars, adminVars,
                Calls!vars, CallerView, Gone, WithAgent, Sending
  <1> QED BY <1>1, RefineSubmit, RefinePoll, RefinePost, RefineAgent DEF Next

\* The hub's queues, channels and handlers together are an at-most-once call to the
\* agent: Submit, Poll and Complete take no step that AgentCalls does not allow.
THEOREM Refinement == Spec => ImplementsCalls
  BY RefineInit, RefineNext, Invariance, PTL DEF Spec, ImplementsCalls, Calls!Spec

-----------------------------------------------------------------------------

\* A response that Complete is about to send finds room in its channel: the default arm
\* of the select that sends it (tunnel.go:153-158) is never taken, and no response that
\* found its caller is dropped there.
THEOREM RoomForEveryResponse ==
    Spec => [](\A k \in Posts : post[k].pc = "sending" => post[k].job \notin respCh)
  <1>1. Inv => \A k \in Posts : post[k].pc = "sending" => post[k].job \notin respCh
    BY InvSendFree
  <1> QED BY <1>1, Invariance, PTL

=============================================================================

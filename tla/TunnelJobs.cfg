\* A legacy request and one with a deadline share a queue place; one poll, one
\* response handler, a reconnect, a deletion and a lost job.
SPECIFICATION FairSpec
CONSTANTS
    a1 = a1
    j1 = j1
    j2 = j2
    Agents = {a1}
    Jobs = {j1, j2}
    Polls = {p1}
    Posts = {k1}
    AgentOf <- OneAgent
    KindOf <- OneOfEach
    MaxQ = 1
    Slots = 1
    MaxCuts = 1
    MaxLost = 1
INVARIANTS
    CallersKnown
    AtMostOnce
    AcceptedIsReturned
    QueuedIsReachable
PROPERTIES
    ImplementsCalls
    TimedReturn
    SlotComesBack
CHECK_DEADLOCK FALSE

\* One stream of each kind in turn, two sockets, a reconnect, a deletion and a poll
\* whose client is gone.
SPECIFICATION FairSpec
CONSTANTS
    a1 = a1
    Agents = {a1}
    Streams = {s1}
    Polls = {p1}
    Sockets = {k1, k2}
    AgentOf <- OneAgent
    Callers = {"http", "tcp", "terminal"}
    MaxQ = 1
    Capacity <- OneSlotEach
    MaxCuts = 1
    MaxLost = 1
PROPERTIES
    ImplementsSessions
    WaitersReturn
    NothingLeftBehind
    CancelledReturn
    RemovedWaitersEnd
CHECK_DEADLOCK FALSE

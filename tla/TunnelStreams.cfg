\* Two HTTP or TCP openers contend for one slot of each kind and one queue place,
\* two sockets for one session, one poll, one reconnect and the agent's deletion.
SPECIFICATION Spec
CONSTANTS
    a1 = a1
    Agents = {a1}
    Streams = {s1, s2}
    Polls = {p1}
    Sockets = {k1, k2}
    AgentOf <- OneAgent
    Callers = {"http", "tcp"}
    MaxQ = 1
    Capacity <- OneSlotEach
    MaxCuts = 1
    MaxLost = 0
SYMMETRY Symmetry
INVARIANTS
    NoDoubleClose
    OneBridge
    WaiterHasCloser
    SessionHasReaper
    HTTPPipesBounded
    Inv
CHECK_DEADLOCK FALSE

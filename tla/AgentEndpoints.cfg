\* Both loops, a change of domain, two changes of where a URL leads, a failed write
\* of the env file and a restart.
SPECIFICATION EndpointsSpec
CONSTANTS
    Unset = Unset
    Agents = {a1}
    Modes = {http}
    Resources = {r1}
    Handlers = {h1}
    MaxOps = 0
    d1 = d1
    d2 = d2
    ip = ip
    Urls = {d1, d2, ip}
    Announcements <- Domains
    First <- OldDomain
    Loops = {l1, l2}
    MaxMoves = 1
    MaxFlips = 2
    MaxFails = 1
    MaxRestarts = 1
INVARIANTS
    ConfiguredAnnounced
PROPERTIES
    KeepsPolling
    Reconnects
CHECK_DEADLOCK FALSE

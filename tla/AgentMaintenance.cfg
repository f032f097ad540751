\* Two agents, two modes, two resources, a request for a resource that is under way
\* while others are served, six requests in all.
SPECIFICATION MaintenanceSpec
CONSTANTS
    Unset = Unset
    Agents = {a1, a2}
    Modes = {http, tcp}
    Resources = {r1, r2}
    Handlers = {h1}
    MaxOps = 6
    d1 = ip
    d2 = ip
    ip = ip
    Urls = {ip}
    Announcements <- Domains
    First <- OldDomain
    Loops = {l1}
    MaxMoves = 0
    MaxFlips = 0
    MaxFails = 0
    MaxRestarts = 0
SYMMETRY Symmetry
INVARIANTS
    RecordsFlagged
    Transparent
    Inv
CHECK_DEADLOCK FALSE

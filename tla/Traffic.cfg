\* Two terminals in one directory of three names, one chunk a file; three requests for
\* two tickets and two slots; two sessions of two clients, one at a time.
SPECIFICATION Spec
CONSTANTS
    Unset = Unset
    Terminals = {t1, t2}
    Uploads = {u1, u2}
    Other = Other
    Names = 3
    Chunks = 1
    Tickets = {k1, k2}
    Gets = {g1, g2, g3}
    MaxTickets = 1
    Slots = 2
    Clients = {c1, c2}
    Sessions = {s1, s2}
    MaxSessions = 1
INVARIANTS
    UploadsKept
    Accounted
PROPERTIES
    NeverReplaced
    Drains
CHECK_DEADLOCK FALSE

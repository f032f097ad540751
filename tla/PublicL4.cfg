\* One row of an earlier life, two concurrent requests of any kind on two ports, the
\* reconciler, another process that takes a port, and a Close or a restart.
SPECIFICATION FairSpec
CONSTANTS
    None = None
    r1 = r1
    k1 = k1
    b1 = b1
    Resources = {r1, r2}
    Ports = {k1, k2}
    Backends = {b1}
    Handlers = {h1, h2}
    Operations = {"create", "edit", "control", "activate", "suspend", "delete"}
    OldRows <- OneRow
    LastStamp = 1
    CreatedAt <- OldFirst
    MaxOps = 2
    MaxTakes = 1
    MaxStops = 1
INVARIANTS
    SocketsKnown
    ReservationsTended
PROPERTIES
    Converges
CHECK_DEADLOCK FALSE

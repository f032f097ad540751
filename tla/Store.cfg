\* Two requests at a time. Rows: two projects, agents and resources, one route, three
\* requests. Domains: two, one agent, three requests, a restart. Migrations: two processes
\* that open a database of before the versions or of version 6, and a restart. Backups:
\* two files, one request beside the goroutine, two days of which one is the retention.
SPECIFICATION Spec
CONSTANTS
    None = None
    Handlers = {h1, h2}
    Routes = {x}
    MaxProjects = 2
    MaxAgents = 2
    MaxRows = 2
    Domains = {d1, d2}
    Clients = {a1}
    MaxRequests = 3
    MaxRestarts = 1
    Processes = {p1, p2}
    FromVersions = {0, 6}
    MaxStarts = 2
    Files = {b1, b2}
    Copiers = {c1}
    Retention = 1
    MaxDays = 2
SYMMETRY Exchange
INVARIANTS
    RowsConsistent
    DeletionSpares
    DomainsSettle
    MigrationSound
PROPERTIES
    BackupsKept
CHECK_DEADLOCK FALSE

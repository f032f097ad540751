------------------------------ MODULE PublicL4 ------------------------------
(***************************************************************************)
(* PublicL4Manager (internal/app/public_l4.go), which owns the public TCP  *)
(* and UDP sockets, with what calls it (internal/app/server.go,            *)
(* bulk_actions.go):                                                       *)
(*                                                                         *)
(*   handler     an administrator's request: create, edit, control         *)
(*               (enable or disable), bulk activate or suspend, delete. It *)
(*               reserves sockets, writes SQLite, commits the reservations *)
(*               and reconciles;                                           *)
(*   reconciler  the goroutine that reconciles at start and every 10 s.    *)
(*                                                                         *)
(* A port stands for a publicL4Key, a protocol with a port number. One     *)
(* action is one critical section of the manager or one SQLite statement.  *)
(***************************************************************************)
EXTENDS Naturals

CONSTANTS
    Resources,  \* resource identifiers: each creation draws a fresh randomID
    Ports,      \* publicL4Keys
    Backends,   \* the rest of a resource, as far as its listener uses it
    LastStamp,  \* there are finitely many texts of a time: their number, from 0
    CreatedAt,  \* the created_at of each resource, by its place among those texts
    Handlers,   \* concurrent administrative requests
    Operations, \* the requests there are
    OldRows,    \* the table the server starts with
    MaxOps,     \* bound: administrative requests
    MaxTakes,   \* bound: times another process binds a port
    MaxStops,   \* bound: times the server closes or is restarted
    None        \* the value of what is absent

AllOperations == {"create", "edit", "control", "activate", "suspend", "delete"}

Row == [id : Resources, port : Ports, on : BOOLEAN, backend : Backends]

ASSUME OperationsAssumption == Operations \subseteq AllOperations
ASSUME NoneAssumption       == None \notin Handlers /\ None \notin Row
ASSUME OldRowsAssumption    == OldRows \subseteq Row
ASSUME BoundsAssumption     == {MaxOps, MaxTakes, MaxStops} \subseteq Nat

\* created_at is written once, as text. Two resources may have the same one, or be in the
\* other order than they were created: the text drops the zeros that end the nanoseconds.
ASSUME CreatedAtAssumption ==
    LastStamp \in Nat /\ CreatedAt \in [Resources -> 0..LastStamp]

VARIABLES
    db,           \* the TCP/UDP rows of SQLite
    born,         \* resource identifiers ever drawn
    ops, takes, stops,
    up,           \* FALSE from Close until the server is started again
    bound,        \* who has bound each port: "free", "other" or "ours"
    listeners,    \* m.listeners: the row a port's listener serves, or None
    reservations, \* m.reservations: the handler that holds the port, or None
    handler,      \* administrative requests
    reconciler    \* the reconciler, with the rows it has listed

socketVars  == <<bound, listeners, reservations>>
storeVars   == <<db, born>>
lifeVars    == <<takes, stops, up>>
vars == <<storeVars, ops, lifeVars, socketVars, handler, reconciler>>

PCs == {"validating", "probing", "reserving", "aborting", "checking", "writing",
        "reading", "committing", "listing", "syncing"}

Idle == [pc |-> "idle", mine |-> {}]

Waiting == [pc |-> "waiting", snap |-> {}]

\* old: the rows the request read first; rows: the rows it is to write or has written; todo: rows still to reserve; mine: ports it has reserved.
Request ==
    [pc : PCs, op : AllOperations, old : SUBSET Row, rows : SUBSET Row,
     todo : SUBSET Row, mine : SUBSET Ports, snap : SUBSET Row]

TypeOK ==
    /\ db \subseteq Row
    /\ born \subseteq Resources
    /\ ops \in 0..MaxOps
    /\ takes \in 0..MaxTakes
    /\ stops \in 0..MaxStops
    /\ up \in BOOLEAN
    /\ bound \in [Ports -> {"free", "other", "ours"}]
    /\ listeners \in [Ports -> Row \cup {None}]
    /\ reservations \in [Ports -> Handlers \cup {None}]
    /\ handler \in [Handlers -> Request \cup {Idle}]
    /\ reconciler \in [pc : {"waiting", "syncing"}, snap : SUBSET Row]

Init ==
    /\ db = OldRows
    /\ born = {r.id : r \in OldRows}
    /\ ops = 0 /\ takes = 0 /\ stops = 0
    /\ up = TRUE
    /\ bound = [k \in Ports |-> "free"]
    /\ listeners = [k \in Ports |-> None]
    /\ reservations = [k \in Ports |-> None]
    /\ handler = [h \in Handlers |-> Idle]
    /\ reconciler = Waiting

-----------------------------------------------------------------------------
(* SQLite. *)

Ids(rows) == {r.id : r \in rows}

\* ResourcePublicPortConflictExcept: enabled or not, any other row with the port.
Conflict(r) == \E other \in db : other.port = r.port /\ other.id # r.id

\* The table with the rows of the same id replaced.
Update(table, rows) ==
    {r \in table : r.id \notin Ids(rows)} \cup {r \in rows : r.id \in Ids(table)}

\* The wanted map of Sync: of the enabled rows of a port, which ListResources orders by
\* created_at, the last replaces the others.
Enabled(table, k) == {r \in table : r.on /\ r.port = k}

WantedPorts(table) == {k \in Ports : Enabled(table, k) # {}}

WantedRow(table, k) ==
    CHOOSE r \in Enabled(table, k) :
        \A other \in Enabled(table, k) : CreatedAt[other.id] <= CreatedAt[r.id]

-----------------------------------------------------------------------------
(* The manager's critical sections. *)

Go(h, pc) == handler' = [handler EXCEPT ![h].pc = pc]

\* Reserve for row r: nothing to do when the port has a listener; an error when it is
\* reserved or the bind fails; otherwise the socket is bound and held.
NeedsNoSocket(r) == listeners[r.port] # None

CannotReserve(r) ==
    listeners[r.port] = None /\ (reservations[r.port] # None \/ bound[r.port] # "free")

Reserve(h, r) ==
    /\ listeners[r.port] = None
    /\ reservations[r.port] = None
    /\ bound[r.port] = "free"
    /\ bound' = [bound EXCEPT ![r.port] = "ours"]
    /\ reservations' = [reservations EXCEPT ![r.port] = h]
    /\ UNCHANGED listeners

\* Mutant: the reservation is forgotten and its socket stays open.
AbortKeepsSocket(h, k) ==
    IF reservations[k] = h
    THEN /\ reservations' = [reservations EXCEPT ![k] = None]
         /\ UNCHANGED <<bound, listeners>>
    ELSE UNCHANGED socketVars

\* Abort: a reservation that Close has already dropped is left alone.
Abort(h, k) ==
    IF reservations[k] = h
    THEN /\ reservations' = [reservations EXCEPT ![k] = None]
         /\ bound' = [bound EXCEPT ![k] = "free"]
         /\ UNCHANGED listeners
    ELSE UNCHANGED socketVars

\* Commit of the reservation of port k with row r. Its defensive branch, for a port
\* that already has a listener, keeps that listener and gives it the row.
Commit(h, k, r) ==
    IF reservations[k] = h
    THEN /\ reservations' = [reservations EXCEPT ![k] = None]
         /\ listeners' = [listeners EXCEPT ![k] = r]
         /\ UNCHANGED bound
    ELSE UNCHANGED socketVars

\* Sync(table) opens what is wanted and missing, a port at a time, gives every wanted
\* listener its row, and closes the others; it does nothing while a wanted port is
\* reserved.
Opens(table) ==
    {k \in WantedPorts(table) : listeners[k] = None /\ bound[k] = "free"}

Closes(table) == {k \in Ports \ WantedPorts(table) : listeners[k] # None}

\* Mutant: the first port that cannot be bound ends the reconciliation.
SyncStopsAtFailure(table) ==
    IF \E k \in WantedPorts(table) :
          reservations[k] # None \/ (listeners[k] = None /\ bound[k] # "free")
    THEN UNCHANGED socketVars
    ELSE /\ bound' = [k \in Ports |->
                CASE k \in Opens(table)  -> "ours"
                  [] k \in Closes(table) -> "free"
                  [] OTHER -> bound[k]]
         /\ listeners' = [k \in Ports |->
                IF k \in WantedPorts(table) THEN WantedRow(table, k) ELSE None]
         /\ UNCHANGED reservations

Sync(table) ==
    IF \E k \in WantedPorts(table) : reservations[k] # None
    THEN UNCHANGED socketVars
    ELSE /\ bound' = [k \in Ports |->
                CASE k \in Opens(table)  -> "ours"
                  [] k \in Closes(table) -> "free"
                  [] OTHER -> bound[k]]
         /\ listeners' = [k \in Ports |->
                IF k \in WantedPorts(table) /\ (listeners[k] # None \/ k \in Opens(table))
                THEN WantedRow(table, k)
                ELSE None]
         /\ UNCHANGED reservations

-----------------------------------------------------------------------------
(* Administrative requests: createResource, updateResourceControl (an edit or a *)
(* control), bulkProjectResources and deleteResource.                           *)

WithRows(pc, op, old, rows) ==
    [pc |-> pc, op |-> op, old |-> old, rows |-> rows, mine |-> {}, snap |-> {},
     todo |-> {r \in rows : r.on /\ ~\E o \in old :
                   o.id = r.id /\ o.on /\ (op = "activate" \/ o.port = r.port)}]

Begin(h, op, pc, old, rows) ==
    /\ up
    /\ op \in Operations
    /\ ops < MaxOps
    /\ handler[h] = Idle
    /\ handler' = [handler EXCEPT ![h] = WithRows(pc, op, old, rows)]
    /\ ops' = ops + 1
    /\ UNCHANGED <<db, lifeVars, socketVars, reconciler>>

Create(h) ==
    \E i \in Resources \ born, k \in Ports, b \in Backends :
        /\ Begin(h, "create", "validating", {},
                 {[id |-> i, port |-> k, on |-> TRUE, backend |-> b]})
        /\ born' = born \cup {i}

Edit(h) ==
    \E r \in db, k \in Ports, on \in BOOLEAN, b \in Backends :
        /\ Begin(h, "edit", "validating", {r},
                 {[id |-> r.id, port |-> k, on |-> on, backend |-> b]})
        /\ UNCHANGED born

Control(h) ==
    \E r \in db, on \in BOOLEAN :
        /\ Begin(h, "control", "reserving", {r}, {[r EXCEPT !.on = on]})
        /\ UNCHANGED born

Bulk(h) ==
    \E chosen \in (SUBSET db) \ {{}}, op \in {"activate", "suspend"} :
        /\ Begin(h, op, IF op = "activate" THEN "reserving" ELSE "writing", chosen,
                 {[r EXCEPT !.on = (op = "activate")] : r \in chosen})
        /\ UNCHANGED born

Delete(h) ==
    \E r \in db :
        /\ Begin(h, "delete", "writing", {r}, {r})
        /\ UNCHANGED born

\* Mutant: an error returns before the deferred Aborts are in place.
RefuseWithoutAbort(h) == handler' = [handler EXCEPT ![h] = Idle]

\* The request ends with an error: its deferred Aborts run first.
Refuse(h) ==
    handler' = [handler EXCEPT ![h] =
                   IF @.mine = {} THEN Idle ELSE [@ EXCEPT !.pc = "aborting"]]

\* validatePublicPort asks the store for a conflict.
Validate(h) ==
    /\ handler[h].pc = "validating"
    /\ IF \E r \in handler[h].rows : Conflict(r) THEN Refuse(h) ELSE Go(h, "probing")
    /\ UNCHANGED <<storeVars, ops, lifeVars, socketVars, reconciler>>

\* mustCheckSystem: a new port, or a resource that becomes enabled.
MustProbe(q) ==
    \A r \in q.rows : \A o \in q.old : o.port # r.port \/ (~o.on /\ r.on)

\* TCPPortAvailable binds the port and closes it.
Probe(h) ==
    /\ handler[h].pc = "probing"
    /\ IF MustProbe(handler[h]) /\ \E r \in handler[h].rows : bound[r.port] # "free"
       THEN Refuse(h)
       ELSE Go(h, "reserving")
    /\ UNCHANGED <<storeVars, ops, lifeVars, socketVars, reconciler>>

\* reservePublicL4Resources: one row at a time.
ReserveOne(h) ==
    /\ handler[h].pc = "reserving"
    /\ \E r \in handler[h].todo :
          \/ /\ NeedsNoSocket(r)
             /\ handler' = [handler EXCEPT ![h].todo = @ \ {r}]
             /\ UNCHANGED socketVars
          \/ /\ CannotReserve(r)
             /\ Refuse(h)
             /\ UNCHANGED socketVars
          \/ /\ Reserve(h, r)
             /\ handler' = [handler EXCEPT ![h].todo = @ \ {r},
                                           ![h].mine = @ \cup {r.port}]
    /\ UNCHANGED <<storeVars, ops, lifeVars, reconciler>>

AllReserved(h) ==
    /\ handler[h].pc = "reserving"
    /\ handler[h].todo = {}
    /\ Go(h, IF handler[h].op = "activate" THEN "writing" ELSE "checking")
    /\ UNCHANGED <<storeVars, ops, lifeVars, socketVars, reconciler>>

Gone(q) == ~(Ids(q.rows) \subseteq Ids(db))

\* The rows of SQLite that the request names, enabled as it wants them.
AsTheyAre(q) ==
    {[r EXCEPT !.on = \E n \in q.rows : n.id = r.id /\ n.on] :
        r \in {s \in db : s.id \in Ids(q.rows)}}

\* The first half of AddResource, UpdateResource and UpdateResourceControl: what they
\* look up before they write.
Recheck(h) ==
    LET q == handler[h] IN
    /\ q.pc = "checking"
    /\ IF \/ q.op # "create" /\ Gone(q)
          \/ q.op # "control" /\ \E r \in q.rows : Conflict(r)
       THEN Refuse(h)
       ELSE handler' = [handler EXCEPT ![h].pc = "writing",
                           ![h].rows = IF q.op = "control" THEN AsTheyAre(q) ELSE @]
    /\ UNCHANGED <<storeVars, ops, lifeVars, socketVars, reconciler>>

\* The statement that writes. An INSERT adds the row; the UPDATE of an edit replaces
\* the row, and that of a control only its enabled column, when the row is still
\* there; BulkSetResourcesEnabled and a DELETE write nothing when one is gone.
Write(h) ==
    LET q == handler[h] IN
    /\ q.pc = "writing"
    /\ IF q.op \in {"activate", "suspend", "delete"} /\ Gone(q)
       THEN /\ Refuse(h)
            /\ UNCHANGED db
       ELSE /\ db' = CASE q.op = "create" -> db \cup q.rows
                       [] q.op = "edit"   -> Update(db, q.rows)
                       [] q.op = "delete" -> {r \in db : r.id \notin Ids(q.rows)}
                       [] OTHER -> Update(db, AsTheyAre(q))
            /\ Go(h, CASE q.mine = {}       -> "listing"
                       [] q.op = "activate" -> "reading"
                       [] OTHER             -> "committing")
    /\ UNCHANGED <<born, ops, lifeVars, socketVars, reconciler>>

\* A bulk request reads the rows back after its transaction.
ReadBack(h) ==
    LET q == handler[h] IN
    /\ q.pc = "reading"
    /\ handler' = [handler EXCEPT ![h].pc = "committing",
                      ![h].rows = {r \in db : r.id \in Ids(q.rows)}]
    /\ UNCHANGED <<storeVars, ops, lifeVars, socketVars, reconciler>>

\* A single request commits its reservation with the row it wrote; a bulk request
\* commits those whose port a row it wrote still has, and aborts the others.
CommitOne(h) ==
    LET q == handler[h] IN
    /\ q.pc = "committing"
    /\ \E k \in q.mine :
          /\ LET fits == {r \in q.rows : q.op # "activate" \/ (r.on /\ r.port = k)} IN
                IF fits = {} THEN Abort(h, k) ELSE \E r \in fits : Commit(h, k, r)
          /\ handler' = [handler EXCEPT ![h].mine = @ \ {k},
                           ![h].pc = IF q.mine = {k} THEN "listing" ELSE @]
    /\ UNCHANGED <<storeVars, ops, lifeVars, reconciler>>

AbortOne(h) ==
    LET q == handler[h] IN
    /\ q.pc = "aborting"
    /\ \E k \in q.mine :
          /\ Abort(h, k)
          /\ handler' = [handler EXCEPT ![h] =
                            IF q.mine = {k} THEN Idle ELSE [q EXCEPT !.mine = q.mine \ {k}]]
    /\ UNCHANGED <<storeVars, ops, lifeVars, reconciler>>

\* refreshPublicL4Listeners reads the rows, and then asks for the manager's lock.
ListResources(h) ==
    /\ handler[h].pc = "listing"
    /\ handler' = [handler EXCEPT ![h].snap = db, ![h].pc = "syncing"]
    /\ UNCHANGED <<storeVars, ops, lifeVars, socketVars, reconciler>>

Refresh(h) ==
    /\ handler[h].pc = "syncing"
    /\ Sync(handler[h].snap)
    /\ handler' = [handler EXCEPT ![h] = Idle]
    /\ UNCHANGED <<storeVars, ops, lifeVars, reconciler>>

-----------------------------------------------------------------------------
(* The reconciler, the server's life, and other processes. *)

ReconcilerLists ==
    /\ up
    /\ reconciler = Waiting
    /\ reconciler' = [pc |-> "syncing", snap |-> db]
    /\ UNCHANGED <<storeVars, ops, lifeVars, socketVars, handler>>

ReconcilerSyncs ==
    /\ reconciler.pc = "syncing"
    /\ Sync(reconciler.snap)
    /\ reconciler' = Waiting
    /\ UNCHANGED <<storeVars, ops, lifeVars, handler>>

Unbound == [k \in Ports |-> IF bound[k] = "ours" THEN "free" ELSE bound[k]]

\* Run's deferred Close, which requests and the reconciler may outlive.
Close ==
    /\ up
    /\ stops < MaxStops
    /\ bound' = Unbound
    /\ listeners' = [k \in Ports |-> None]
    /\ reservations' = [k \in Ports |-> None]
    /\ up' = FALSE
    /\ stops' = stops + 1
    /\ UNCHANGED <<storeVars, ops, takes, handler, reconciler>>

\* The process ends, after Close or without it, and starts again: SQLite remains.
Restart ==
    /\ up => stops < MaxStops
    /\ bound' = Unbound
    /\ listeners' = [k \in Ports |-> None]
    /\ reservations' = [k \in Ports |-> None]
    /\ handler' = [h \in Handlers |-> Idle]
    /\ reconciler' = Waiting
    /\ up' = TRUE
    /\ stops' = IF up THEN stops + 1 ELSE stops
    /\ UNCHANGED <<storeVars, ops, takes>>

\* Another process binds a port, or closes it.
TakePort(k) ==
    /\ bound[k] = "free"
    /\ takes < MaxTakes
    /\ bound' = [bound EXCEPT ![k] = "other"]
    /\ takes' = takes + 1
    /\ UNCHANGED <<storeVars, ops, stops, up, listeners, reservations, handler, reconciler>>

FreePort(k) ==
    /\ bound[k] = "other"
    /\ bound' = [bound EXCEPT ![k] = "free"]
    /\ UNCHANGED <<storeVars, ops, lifeVars, listeners, reservations, handler, reconciler>>

-----------------------------------------------------------------------------

BeginStep(h) == Create(h) \/ Edit(h) \/ Control(h) \/ Bulk(h) \/ Delete(h)

RequestStep(h) ==
    \/ Validate(h) \/ Probe(h) \/ ReserveOne(h) \/ AllReserved(h) \/ Recheck(h)
    \/ Write(h) \/ ReadBack(h) \/ CommitOne(h) \/ AbortOne(h) \/ ListResources(h) \/ Refresh(h)

Next ==
    \/ \E h \in Handlers : BeginStep(h) \/ RequestStep(h)
    \/ ReconcilerLists \/ ReconcilerSyncs
    \/ Close \/ Restart
    \/ \E k \in Ports : TakePort(k) \/ FreePort(k)

Spec == Init /\ [][Next]_vars

\* A request that has begun goes on, and the reconciler's ticker never stops.
Fairness ==
    /\ \A h \in Handlers : WF_vars(RequestStep(h))
    /\ WF_vars(ReconcilerLists)
    /\ WF_vars(ReconcilerSyncs)

FairSpec == Spec /\ Fairness

-----------------------------------------------------------------------------
(* Properties. *)

\* Every socket the process has bound belongs to one listener or to one reservation,
\* never to both: none is leaked, whatever is aborted, committed or closed halfway,
\* and the defensive branch of Commit is never taken.
SocketsAccounted ==
    \A k \in Ports :
        /\ bound[k] = "ours" <=> (listeners[k] # None \/ reservations[k] # None)
        /\ listeners[k] = None \/ reservations[k] = None

\* The manager's two maps account for every socket, whatever is in its tables.
SocketsKnown == TypeOK /\ SocketsAccounted

\* A reservation belongs to a request that is still going to commit or abort it: one
\* that nobody remembers would make Sync do nothing for ever.
ReservationsTended ==
    \A k \in Ports :
        reservations[k] # None =>
            /\ k \in handler[reservations[k]].mine
            /\ handler[reservations[k]].pc \in
                   {"reserving", "checking", "writing", "reading", "committing", "aborting"}

\* When requests, restarts and other processes come to rest, each enabled row has the
\* listener of its port, serving that row, unless another process has the port, and
\* no other listener is left: the reconciler repairs what a stale list, a failed bind
\* or a restart between the write and the commit has left.
Converges ==
    <>[](up => \A k \in Ports :
            listeners[k] = IF k \in WantedPorts(db) /\ bound[k] # "other"
                           THEN WantedRow(db, k)
                           ELSE None)

\* "Eliminación/suspensión: se cierra únicamente el listener afectado"
\* (contexto/84-plano-l4-dinamico.md:18): while the server runs, a listener is closed
\* only when no enabled row has its port.
ClosesOnlyAffected ==
    [][\A k \in Ports :
          up /\ up' /\ stops' = stops /\ listeners[k] # None /\ listeners'[k] = None
              => k \notin WantedPorts(db)]_vars

=============================================================================

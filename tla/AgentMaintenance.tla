-------------------------- MODULE AgentMaintenance --------------------------
(***************************************************************************)
(* Maintenance of an agent (internal/app/store.go): the suspension of its  *)
(* resources by mode and their resumption, against the requests that       *)
(* enable, disable, edit or delete single resources or selections          *)
(* (internal/app/server.go, bulk_actions.go).                              *)
(*                                                                         *)
(* A suspension and a resumption are one SQLite transaction each. A single *)
(* resource's request reads its row and writes it later: it writes back as *)
(* it read what it was not asked to change.                                *)
(***************************************************************************)
EXTENDS Naturals, FiniteSets

CONSTANTS
    Agents,     \* agents at the start
    Modes,      \* http, tcp and udp
    Resources,  \* resource identifiers: each creation draws a fresh randomID
    Handlers,   \* concurrent requests for a single resource
    Unset,      \* the value of what is absent
    MaxOps      \* bound: administrative requests

Owners == Agents \cup {Unset}

Row == [agent : Owners, mode : Modes, on : BOOLEAN]

Record == [agent : Agents, resource : Resources, mode : Modes]

ASSUME UnsetAssumption  == Unset \notin Agents /\ Unset \notin Row
ASSUME MaxOpsAssumption == MaxOps \in Nat

VARIABLES
    agents,   \* rows of agents
    table,    \* rows of resources, or Unset
    flags,    \* agent_maintenance: the modes flagged, {} without a row
    records,  \* agent_maintenance_resources, all with was_enabled = 1
    request,  \* requests for a single resource
    born,     \* resource identifiers ever drawn
    ops,
    by,       \* history: who changed a resource's enabled last
    own       \* history: what single requests made of a resource (see Touch)

rowVars     == <<agents, table, born>>
historyVars == <<by, own>>
vars == <<rowVars, flags, records, request, ops, historyVars>>

Idle == [pc |-> "idle"]

\* read: the row as read; row: what to write; asked: whether enabled was in the
\* request; full: an edit, which writes every column.
Request ==
    [pc : {"writing"}, resource : Resources, row : Row, asked : BOOLEAN, full : BOOLEAN]

TypeOK ==
    /\ agents \subseteq Agents
    /\ table \in [Resources -> Row \cup {Unset}]
    /\ flags \in [Agents -> SUBSET Modes]
    /\ records \subseteq Record
    /\ request \in [Handlers -> Request \cup {Idle}]
    /\ born \subseteq Resources
    /\ ops \in 0..MaxOps
    /\ by \in [Resources -> {"asked", "kept", "suspend", "resume"}]
    /\ own \in [Resources -> {"on", "off", "touched"}]

Init ==
    /\ agents = Agents
    /\ table = [r \in Resources |-> Unset]
    /\ flags = [a \in Agents |-> {}]
    /\ records = {}
    /\ request = [h \in Handlers |-> Idle]
    /\ born = {}
    /\ ops = 0
    /\ by = [r \in Resources |-> "asked"]
    /\ own = [r \in Resources |-> "off"]

-----------------------------------------------------------------------------

Exists(r) == table[r] # Unset

Recorded(r) == \E rec \in records : rec.resource = r

\* enabled of r as SQLite has it after the step.
ChangedBy(new, who) ==
    by' = [r \in Resources |->
              IF Exists(r) /\ new[r] # Unset /\ new[r].on # table[r].on THEN who ELSE by[r]]

\* What a request for the resources of set made of them: on, off, or, while a
\* maintenance has them recorded, neither.
Touch(set, new) ==
    own' = [r \in Resources |->
               CASE r \notin set \/ new[r] = Unset -> own[r]
                 [] r \in set /\ new[r] # Unset /\ Recorded(r)  -> "touched"
                 [] r \in set /\ new[r] # Unset /\ ~Recorded(r) ->
                       IF new[r].on THEN "on" ELSE "off"]

\* The rows after an UPDATE of enabled on the resources of set.
Switched(set, on) ==
    [r \in Resources |-> IF r \in set THEN [table[r] EXCEPT !.on = on] ELSE table[r]]

Begin == ops < MaxOps /\ ops' = ops + 1

-----------------------------------------------------------------------------
(* Maintenance. *)

\* Mutant: what was off already is suspended too.
ConcernedAll(a, modes) ==
    {r \in Resources : Exists(r) /\ table[r].agent = a /\ table[r].mode \in modes}

\* Mutant: the modes are suspended for every agent.
ConcernedAnywhere(a, modes) ==
    {r \in Resources : Exists(r) /\ table[r].mode \in modes /\ table[r].on}

\* The resources that a suspension of modes for agent a concerns.
Concerned(a, modes) ==
    {r \in Resources :
        Exists(r) /\ table[r].agent = a /\ table[r].mode \in modes /\ table[r].on}

\* Mutant: the INSERT takes two columns in the wrong order.
RecordOfSwapped(a, r) == [agent |-> a, resource |-> r, mode |-> table[r].on]

RecordOf(a, r) == [agent |-> a, resource |-> r, mode |-> table[r].mode]

Known(a, r) == \E rec \in records : rec.agent = a /\ rec.resource = r

SuspendAgentResources(a, modes) ==
    LET hit == Concerned(a, modes)
        new == Switched(hit, FALSE) IN
    /\ Begin
    /\ a \in agents
    /\ flags' = [flags EXCEPT ![a] = @ \cup modes]
    /\ records' = records \cup {RecordOf(a, r) : r \in {x \in hit : ~Known(a, x)}}
    /\ table' = new
    /\ ChangedBy(new, "suspend")
    /\ UNCHANGED <<agents, born, request, own>>

\* What a resumption takes up.
Due(a, modes) == {rec \in records : rec.agent = a /\ rec.mode \in modes}

\* Mutant: a resumption of some modes closes the maintenance.
FlagsLeftNone(a, left) == {}

\* The flags that are left: those of the modes that still have records.
FlagsLeft(a, left) == {rec.mode : rec \in {x \in left : x.agent = a}}

ResumeAgentResources(a, modes) ==
    LET due == Due(a, modes)
        hit == {r \in Resources : Exists(r) /\ \E rec \in due : rec.resource = r}
        new == Switched(hit, TRUE) IN
    /\ Begin
    /\ a \in agents
    /\ table' = new
    /\ records' = records \ due
    /\ flags' = [flags EXCEPT ![a] = FlagsLeft(a, records \ due)]
    /\ ChangedBy(new, "resume")
    /\ UNCHANGED <<agents, born, request, own>>

-----------------------------------------------------------------------------
(* Requests for resources. *)

CreateResource(r, a, m) ==
    LET new == [table EXCEPT ![r] = [agent |-> a, mode |-> m, on |-> TRUE]] IN
    /\ Begin
    /\ r \notin born
    /\ a \in agents \cup {Unset}
    /\ table' = new
    /\ born' = born \cup {r}
    /\ Touch({r}, new)
    /\ UNCHANGED <<agents, flags, records, request, by>>

\* updateResourceControl reads the row, and takes from the request what is in it.
ReadForControl(h, r) ==
    /\ Begin
    /\ request[h] = Idle
    /\ Exists(r)
    /\ \E asked, on \in BOOLEAN :
          /\ ~asked => on = table[r].on
          /\ request' = [request EXCEPT ![h] =
                [pc |-> "writing", resource |-> r, asked |-> asked, full |-> FALSE,
                 row |-> [table[r] EXCEPT !.on = on]]]
    /\ UNCHANGED <<rowVars, flags, records, historyVars>>

ReadForEdit(h, r) ==
    /\ Begin
    /\ request[h] = Idle
    /\ Exists(r)
    /\ \E asked, on \in BOOLEAN, a \in Owners, m \in Modes :
          /\ ~asked => on = table[r].on
          /\ request' = [request EXCEPT ![h] =
                [pc |-> "writing", resource |-> r, asked |-> asked, full |-> TRUE,
                 row |-> [agent |-> a, mode |-> m, on |-> on]]]
    /\ UNCHANGED <<rowVars, flags, records, historyVars>>

\* The UPDATE: of every column, or of enabled alone.
Written(q) ==
    IF ~Exists(q.resource) THEN table
    ELSE IF q.full THEN [table EXCEPT ![q.resource] = q.row]
    ELSE [table EXCEPT ![q.resource].on = q.row.on]

\* The agent of an edit is looked up before; the write finds it or fails.
WriteResource(h) ==
    LET q == request[h]
        new == Written(q) IN
    /\ q.pc = "writing"
    /\ q.full => q.row.agent \in agents \cup {Unset}
    /\ table' = new
    /\ request' = [request EXCEPT ![h] = Idle]
    /\ ChangedBy(new, IF q.asked THEN "asked" ELSE "kept")
    /\ Touch({q.resource}, new)
    /\ UNCHANGED <<agents, born, flags, records, ops>>

\* The request ends in one of its errors.
RefuseResource(h) ==
    /\ request[h].pc = "writing"
    /\ request' = [request EXCEPT ![h] = Idle]
    /\ UNCHANGED <<rowVars, flags, records, ops, historyVars>>

BulkSetResourcesEnabled(set, on) ==
    LET new == Switched(set, on) IN
    /\ Begin
    /\ \A r \in set : Exists(r)
    /\ table' = new
    /\ ChangedBy(new, "asked")
    /\ Touch(set, new)
    /\ UNCHANGED <<agents, born, flags, records, request>>

\* ON DELETE CASCADE takes the records along.
DeleteResource(r) ==
    /\ Begin
    /\ Exists(r)
    /\ table' = [table EXCEPT ![r] = Unset]
    /\ records' = {rec \in records : rec.resource # r}
    /\ UNCHANGED <<agents, born, flags, request, historyVars>>

DeleteAgentAndResources(a) ==
    LET of == {r \in Resources : Exists(r) /\ table[r].agent = a} IN
    /\ Begin
    /\ a \in agents
    /\ agents' = agents \ {a}
    /\ table' = [r \in Resources |-> IF r \in of THEN Unset ELSE table[r]]
    /\ flags' = [flags EXCEPT ![a] = {}]
    /\ records' = {rec \in records : rec.agent # a /\ rec.resource \notin of}
    /\ UNCHANGED <<born, request, historyVars>>

-----------------------------------------------------------------------------

Maintain(a) ==
    \/ \E modes \in SUBSET Modes \ {{}} :
          SuspendAgentResources(a, modes) \/ ResumeAgentResources(a, modes)
    \/ DeleteAgentAndResources(a)

Administer(r) ==
    \/ \E a \in Owners, m \in Modes : CreateResource(r, a, m)
    \/ DeleteResource(r)

Handle(h) ==
    \/ \E r \in Resources : ReadForControl(h, r) \/ ReadForEdit(h, r)
    \/ WriteResource(h) \/ RefuseResource(h)

Select == \E set \in SUBSET Resources \ {{}}, on \in BOOLEAN : BulkSetResourcesEnabled(set, on)

Next ==
    \/ \E a \in Agents : Maintain(a)
    \/ \E r \in Resources : Administer(r)
    \/ \E h \in Handlers : Handle(h)
    \/ Select

Spec == Init /\ [][Next]_vars

-----------------------------------------------------------------------------
(* Properties. *)

\* A record is of an agent and a resource that exist, and of a mode for which the
\* panel shows its agent in maintenance: none is left that no resumption offered by
\* the panel would take up, whatever modes are suspended and resumed in what order.
RecordsFlagged ==
    \A rec \in records :
        /\ rec.agent \in agents
        /\ Exists(rec.resource)
        /\ rec.mode \in flags[rec.agent]

Untouched(r) == Exists(r) /\ own[r] # "touched"

\* Maintenance is transparent: a resource that no request touched while it was
\* suspended is on exactly when the last request had it on and no maintenance has it
\* recorded, however suspensions and resumptions of its modes overlap.
Transparent ==
    \A r \in Resources :
        Untouched(r) =>
            /\ table[r].on <=> (own[r] = "on" /\ ~Recorded(r))
            /\ Recorded(r) => own[r] = "on"

\* The only record of an untouched resource is of the agent it belongs to, so that
\* neither another agent's resumption nor its deletion takes it.
UntouchedRecord ==
    \A rec, other \in records :
        Untouched(rec.resource) =>
            /\ rec.agent = table[rec.resource].agent
            /\ other.resource = rec.resource => other = rec

BornRows == \A r \in Resources : Exists(r) => r \in born

\* The inductive invariant: what each step needs of the state before it.
Inv == TypeOK /\ BornRows /\ RecordsFlagged /\ UntouchedRecord /\ Transparent

\* "TCP/UDP ... solo deja de publicarse hasta reactivarse"
\* (contexto/45-mantenimiento-unificado-clientes-recursos.md:10): what a maintenance
\* has suspended is on again only if a request asked for it.
SuspendedUntilReactivated ==
    \A r \in Resources :
        Exists(r) /\ Recorded(r) /\ table[r].on => by[r] = "asked"

\* "los recursos que ya estaban apagados antes no se activan accidentalmente"
\* (contexto/44-mantenimiento-web-por-cliente.md:11): a resumption turns on only what
\* a suspension turned off, and not what a request has turned off since.
ResumeOnlySuspended ==
    [][\A r \in Resources :
          Exists(r) /\ ~table[r].on /\ by'[r] = "resume" /\ by[r] # "resume"
              => by[r] = "suspend"]_vars

=============================================================================

------------------------------ MODULE Registry ------------------------------
(***************************************************************************)
(* Projects, agents and resources as rows of SQLite (internal/app/store.go *)
(* and the handlers of server.go that call it).                            *)
(*                                                                         *)
(* A request looks up what its write depends on, one statement at a time,  *)
(* and then writes; statements of other requests come in between. The      *)
(* constraints of the schema are part of every write: foreign keys, the    *)
(* index that keeps the routes of enabled HTTP resources apart, and the    *)
(* deletions that follow one of a project.                                 *)
(*                                                                         *)
(* Names and slugs are left out: a request they make fail changes nothing. *)
(* The public ports of resources are those of PublicL4.                    *)
(***************************************************************************)
EXTENDS Naturals, FiniteSets

CONSTANTS
    Handlers,    \* requests served at the same time
    None,        \* the value of what is absent, SQL's NULL too
    Routes,      \* domain and path prefix of an HTTP resource
    MaxProjects, \* bound: projects ever made
    MaxAgents,   \* bound: agents ever made
    MaxRows,     \* bound: resources ever made
    MaxRequests  \* bound: requests in all

\* A row is known by the order of its creation: randomID never repeats.
Projects == 1..MaxProjects
Agents   == 1..MaxAgents
RowIds   == 1..MaxRows

\* route: None for a TCP or UDP resource; origin: whether agent is to carry it.
Row == [project : Projects, origin : {"local", "agent"}, agent : Agents \cup {None},
        route : Routes \cup {None}, on : BOOLEAN]

\* What Normalize and Validate let through: an agent exactly where one is needed.
ValidRow == {r \in Row : (r.origin = "agent") <=> (r.agent # None)}

VARIABLES
    projects,   \* enabled of each row of projects
    agents,     \* project_id of each row of agents
    resources,  \* rows of resources
    drawn,      \* identifiers drawn so far
    handler,    \* requests under way
    requests,
    stayed      \* history: what a deletion found in its project and is still there

tables == <<projects, agents, resources>>
vars   == <<tables, drawn, handler, requests, stayed>>

Idle == [pc |-> "idle"]

Request ==
    [pc : {"project", "agent", "route", "write", "agentInsert", "projectUpdate",
           "countResources", "countAgents", "projectDelete"},
     project : Projects, id : RowIds \cup {None}, row : ValidRow \cup {None}, on : BOOLEAN]

TypeOK ==
    /\ projects \in [Projects -> BOOLEAN \cup {None}]
    /\ agents \in [Agents -> Projects \cup {None}]
    /\ resources \in [RowIds -> Row \cup {None}]
    /\ drawn \in [project : 0..MaxProjects, agent : 0..MaxAgents, row : 0..MaxRows]
    /\ handler \in [Handlers -> Request \cup {Idle}]
    /\ requests \in 0..MaxRequests

\* A project with an agent that carries its resource.
Init ==
    /\ projects = [p \in Projects |-> IF p = 1 THEN TRUE ELSE None]
    /\ agents = [a \in Agents |-> IF a = 1 THEN 1 ELSE None]
    /\ \E route \in Routes :
          resources = [i \in RowIds |->
              IF i = 1
              THEN [project |-> 1, origin |-> "agent", agent |-> 1, route |-> route,
                    on |-> TRUE]
              ELSE None]
    /\ drawn = [project |-> 1, agent |-> 1, row |-> 1]
    /\ handler = [h \in Handlers |-> Idle]
    /\ requests = 0
    /\ stayed = [h \in Handlers |-> {}]

-----------------------------------------------------------------------------
(* The tables. *)

Rows == {i \in RowIds : resources[i] # None}

\* ProjectExists.
ProjectExists(p) == projects[p] = TRUE

RowsOf(p) == {i \in Rows : resources[i].project = p}

\* AgentBelongsToProject: made in the project, or used by a resource of it.
AgentBelongsToProject(a, p) ==
    /\ agents[a] # None
    /\ agents[a] = p \/ \E i \in RowsOf(p) : resources[i].agent = a

\* The second count of ProjectDependencyCounts.
AgentsOf(p) == {a \in Agents : AgentBelongsToProject(a, p)}

\* Mutant: the index does not exist, and only the count of the handlers is left.
RouteUnchecked(i, r) == TRUE

\* idx_resources_http_unique.
RouteFree(i, r) ==
    \/ ~r.on \/ r.route = None
    \/ \A j \in Rows \ {i} : ~resources[j].on \/ resources[j].route # r.route

\* The foreign keys of resources.
RefersToRows(r) ==
    /\ projects[r.project] # None
    /\ r.agent # None => agents[r.agent] # None

Accepts(i, r) == RouteFree(i, r) /\ RefersToRows(r)

\* Deleting a set of agents: agent_id ... ON DELETE SET NULL.
WithoutAgents(rows, gone) ==
    [i \in RowIds |-> IF rows[i] # None /\ rows[i].agent \in gone
                      THEN [rows[i] EXCEPT !.agent = None]
                      ELSE rows[i]]

-----------------------------------------------------------------------------
(* Requests. *)

At(h, pc) == handler[h].pc = pc

Leave(h) == handler' = [handler EXCEPT ![h] = Idle]

Step(h, pc) == handler' = [handler EXCEPT ![h].pc = pc]

Counted == requests < MaxRequests /\ requests' = requests + 1

Begin(h, pc, p, i, r, on) ==
    /\ At(h, "idle")
    /\ Counted
    /\ handler' = [handler EXCEPT ![h] =
           [pc |-> pc, project |-> p, id |-> i, row |-> r, on |-> on]]
    /\ UNCHANGED <<tables, drawn>>

\* A check of a request: the next one, or an error.
Check(h, pc, holds, next) ==
    /\ At(h, pc)
    /\ IF holds THEN Step(h, next) ELSE Leave(h)
    /\ UNCHANGED <<tables, drawn, requests>>

\* createProject.
AddProject ==
    /\ Counted
    /\ drawn.project < MaxProjects
    /\ drawn' = [drawn EXCEPT !.project = @ + 1]
    /\ projects' = [projects EXCEPT ![drawn.project + 1] = TRUE]
    /\ UNCHANGED <<agents, resources, handler>>

\* updateProject: what the request leaves out, enabled too, is written as it was read.
BeginUpdateProject(h) ==
    \E p \in Projects, on \in BOOLEAN :
        projects[p] # None /\ Begin(h, "projectUpdate", p, None, None, on)

UpdateProject(h) ==
    LET p == handler[h].project IN
    /\ At(h, "projectUpdate")
    /\ projects' = [projects EXCEPT ![p] = IF @ = None THEN None ELSE handler[h].on]
    /\ Leave(h)
    /\ UNCHANGED <<agents, resources, drawn, requests>>

\* deleteProject, DeleteProjectIfEmpty: two counts and a statement.
BeginDeleteProject(h) ==
    \E p \in Projects :
        projects[p] # None /\ Begin(h, "countResources", p, None, None, FALSE)

CountResources(h) ==
    Check(h, "countResources", RowsOf(handler[h].project) = {}, "countAgents")

\* Mutant: agents are not counted.
CountNoAgents(h) == Check(h, "countAgents", TRUE, "projectDelete")

CountAgents(h) ==
    Check(h, "countAgents", AgentsOf(handler[h].project) = {}, "projectDelete")

DeleteProject(h) ==
    LET p == handler[h].project
        gone == {a \in Agents : agents[a] = p} IN
    /\ At(h, "projectDelete")
    /\ projects' = [projects EXCEPT ![p] = None]
    /\ agents' = [a \in Agents |-> IF a \in gone THEN None ELSE agents[a]]
    /\ resources' = WithoutAgents(
           [i \in RowIds |-> IF i \in RowsOf(p) THEN None ELSE resources[i]], gone)
    /\ Leave(h)
    /\ UNCHANGED <<drawn, requests>>

\* createAgent: AddAgent looks for the project and inserts.
BeginAddAgent(h) ==
    \E p \in Projects :
        ProjectExists(p) /\ Begin(h, "agentInsert", p, None, None, FALSE)

AddAgent(h) ==
    LET p == handler[h].project IN
    /\ At(h, "agentInsert")
    /\ IF projects[p] # None /\ drawn.agent < MaxAgents
       THEN /\ agents' = [agents EXCEPT ![drawn.agent + 1] = p]
            /\ drawn' = [drawn EXCEPT !.agent = @ + 1]
       ELSE UNCHANGED <<agents, drawn>>
    /\ Leave(h)
    /\ UNCHANGED <<projects, resources, requests>>

\* deleteAgent: DeleteAgentAndResources, a transaction.
DeleteAgent ==
    /\ Counted
    /\ \E a \in Agents :
          /\ agents[a] # None
          /\ agents' = [agents EXCEPT ![a] = None]
          /\ resources' = [i \in RowIds |->
                IF i \in Rows /\ resources[i].agent = a THEN None ELSE resources[i]]
    /\ UNCHANGED <<projects, drawn, handler>>

\* createResource, whose row is always enabled, and updateResourceControl with a full
\* edit, which fills what the request leaves out from what it read.
BeginAddResource(h) ==
    \E r \in ValidRow :
        r.on /\ Begin(h, "project", r.project, None, r, TRUE)

BeginUpdateResource(h) ==
    \E i \in Rows, r \in ValidRow : Begin(h, "project", r.project, i, r, r.on)

CheckProject(h) ==
    Check(h, "project", ProjectExists(handler[h].project), "agent")

\* Mutant: an edit that keeps the agent does not look at it again.
CheckNewAgent(h) ==
    LET q == handler[h] IN
    Check(h, "agent",
          \/ q.row.origin = "local"
          \/ q.id # None /\ resources[q.id] # None /\ resources[q.id].agent = q.row.agent
          \/ AgentBelongsToProject(q.row.agent, q.project),
          "route")

CheckAgent(h) ==
    LET q == handler[h] IN
    Check(h, "agent",
          q.row.origin = "local" \/ AgentBelongsToProject(q.row.agent, q.project),
          "route")

\* The count before the write goes through disabled rows too.
CheckRoute(h) ==
    LET q == handler[h] IN
    Check(h, "route",
          \/ q.row.route = None
          \/ \A i \in Rows \ {q.id} : resources[i].route # q.row.route,
          "write")

\* AddResource's INSERT; it fails when a constraint does not hold.
AddResource(h) ==
    LET q == handler[h]
        i == drawn.row + 1 IN
    /\ At(h, "write") /\ q.id = None
    /\ IF drawn.row < MaxRows /\ Accepts(None, q.row)
       THEN /\ resources' = [resources EXCEPT ![i] = q.row]
            /\ drawn' = [drawn EXCEPT !.row = i]
       ELSE UNCHANGED <<resources, drawn>>
    /\ Leave(h)
    /\ UNCHANGED <<projects, agents, requests>>

\* UpdateResource's UPDATE; when the row is gone it changes nothing.
UpdateResource(h) ==
    LET q == handler[h] IN
    /\ At(h, "write") /\ q.id # None
    /\ IF q.id \in Rows /\ Accepts(q.id, q.row)
       THEN resources' = [resources EXCEPT ![q.id] = q.row]
       ELSE UNCHANGED resources
    /\ Leave(h)
    /\ UNCHANGED <<projects, agents, drawn, requests>>

\* updateResourceControl without an edit: UpdateResourceControl only switches the row.
UpdateResourceControl ==
    /\ Counted
    /\ \E i \in Rows, on \in BOOLEAN :
          LET r == [resources[i] EXCEPT !.on = on] IN
          /\ RouteFree(i, r)
          /\ resources' = [resources EXCEPT ![i] = r]
    /\ UNCHANGED <<projects, agents, drawn, handler>>

\* deleteResource.
DeleteResource ==
    /\ Counted
    /\ \E i \in Rows : resources' = [resources EXCEPT ![i] = None]
    /\ UNCHANGED <<projects, agents, drawn, handler>>

-----------------------------------------------------------------------------

\* What hangs on a project.
Contents(p) ==
    ({"resource"} \X RowsOf(p)) \cup ({"agent"} \X AgentsOf(p))

Deleting(h) == handler[h].pc \in {"countResources", "countAgents", "projectDelete"}

Track ==
    stayed' = [h \in Handlers |->
        IF ~Deleting(h)' THEN {}
        ELSE IF Deleting(h) THEN stayed[h] \cap Contents(handler[h].project)'
        ELSE Contents(handler'[h].project)]

Project(h) ==
    \/ BeginUpdateProject(h) \/ UpdateProject(h)
    \/ BeginDeleteProject(h) \/ CountResources(h) \/ CountAgents(h) \/ DeleteProject(h)

Agent(h) == BeginAddAgent(h) \/ AddAgent(h)

Resource(h) ==
    \/ BeginAddResource(h) \/ BeginUpdateResource(h)
    \/ CheckProject(h) \/ CheckAgent(h) \/ CheckRoute(h)
    \/ AddResource(h) \/ UpdateResource(h)

Next ==
    /\ \/ AddProject \/ DeleteAgent \/ UpdateResourceControl \/ DeleteResource
       \/ \E h \in Handlers : Project(h) \/ Agent(h) \/ Resource(h)
    /\ Track

Spec == Init /\ [][Next]_vars

-----------------------------------------------------------------------------

\* A resource that an agent is to carry has that agent, and in its own project, in
\* spite of agents that go and resources that move between the check and the write: no
\* edit lends the agent of a project to another (AddResource, UpdateResource,
\* DeleteAgentAndResources, ON DELETE SET NULL).
AgentsAtHome ==
    \A i \in Rows : resources[i].origin = "agent" =>
        /\ resources[i].agent # None
        /\ agents[resources[i].agent] = resources[i].project

\* A host and path lead to one resource at most, whatever edits and switches race.
RoutesApart ==
    \A i, j \in Rows :
        resources[i].on /\ resources[j].on /\ resources[i].route # None
            /\ resources[i].route = resources[j].route => i = j

\* A deletion that is past its counts has nothing before it that it could have counted.
DeletionSpares == \A h \in Handlers : At(h, "projectDelete") => stayed[h] = {}

\* "eliminarlo solo cuando no tenga recursos ni clientes de sistema vinculados"
\* (README.md:504): a project that goes has no resource and no agent.
DeletesOnlyEmpty ==
    [][\A p \in Projects :
          projects[p] # None /\ projects'[p] = None => Contents(p) = {}]_vars

=============================================================================

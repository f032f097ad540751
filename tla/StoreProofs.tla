----------------------------- MODULE StoreProofs -----------------------------
(***************************************************************************)
(* Four parts of the Store. The rows of projects, agents and resources:    *)
(* they refer to what is there, routes lead to one resource, and a project *)
(* is deleted past its counts only when what they could see has gone. The  *)
(* domains of the panel: whatever mixes or stops half way, the next change *)
(* that runs alone, or the next start, leaves one primary domain. The      *)
(* backups: none goes before its time, and copies are whole. The           *)
(* migrations: a start that was interrupted is made good by a later one.   *)
(* All for any number of rows, files, processes and requests at a time.    *)
(***************************************************************************)
EXTENDS MCStore, Sequences, WellFoundedInduction, TLAPS

-----------------------------------------------------------------------------
(* The inductive invariant of Registry. *)

\* The types of the tables.
TablesTyped ==
    /\ projects \in [R!Projects -> BOOLEAN \cup {None}]
    /\ agents \in [R!Agents -> R!Projects \cup {None}]
    /\ resources \in [R!RowIds -> R!ValidRow \cup {None}]
    /\ drawn \in [project : 0..MaxProjects, agent : 0..MaxAgents, row : 0..MaxRows]

\* An agent that is there was drawn: AddAgent never makes one anew.
AgentsDrawn == \A a \in R!Agents : agents[a] # None => a <= drawn.agent

TablesSound == TablesTyped /\ AgentsDrawn /\ R!AgentsAtHome /\ R!RoutesApart

\* A request about a resource carries a row that Validate let through.
CarriesRow(q) ==
    /\ q \in R!Request \cup {R!Idle}
    /\ q.pc \in {"project", "agent", "route", "write"} =>
          q.row \in R!ValidRow /\ q.project = q.row.project

\* Past the check of its agent, a request knows that this agent is of its project or has
\* gone for good: an agent never changes its project, and no new one has its identifier.
AgentChecked(q) ==
    q.pc \in {"route", "write"} /\ q.row.origin = "agent" =>
        /\ q.row.agent <= drawn.agent
        /\ agents[q.row.agent] \in {q.row.project, None}

RequestsSound ==
    /\ handler \in [Handlers -> R!Request \cup {R!Idle}]
    /\ requests \in 0..MaxRequests
    /\ \A h \in Handlers : CarriesRow(handler[h]) /\ AgentChecked(handler[h])

\* What a deletion found in its project and has seen gone since: the first count leaves
\* agents only, and the second nothing.
DeletionsCount ==
    \A h \in Handlers :
        /\ R!At(h, "countAgents") => stayed[h] \subseteq {"agent"} \X R!Agents
        /\ R!At(h, "projectDelete") => stayed[h] = {}

RegistryInv == TablesSound /\ RequestsSound /\ DeletionsCount

-----------------------------------------------------------------------------
(* The tables. *)

LEMMA RowFacts ==
    ASSUME NEW r \in R!ValidRow
    PROVE  /\ r \in R!Row
           /\ r.project \in R!Projects /\ r.agent \in R!Agents \cup {None}
           /\ r.on \in BOOLEAN /\ r.route \in Routes \cup {None}
           /\ r.origin = "agent" <=> r.agent # None
  BY DEF R!ValidRow, R!Row

LEMMA NoneApart == /\ None \notin R!Projects /\ None \notin R!Agents /\ None \notin R!RowIds
                   /\ None \notin R!ValidRow
  <1>1. R!Projects \subseteq Nat /\ R!Agents \subseteq Nat /\ R!RowIds \subseteq Nat
    BY DEF R!Projects, R!Agents, R!RowIds
  <1> QED BY <1>1, NoneAssumption DEF R!ValidRow, R!Row

\* Rows go, and agents with them or come: what stays has the agent it had.
LEMMA RowsGone ==
    ASSUME TablesSound, TablesTyped', AgentsDrawn',
           \A i \in R!RowIds :
              \/ resources'[i] = None
              \/ /\ resources'[i] = resources[i]
                 /\ resources[i].agent # None =>
                       agents'[resources[i].agent] = agents[resources[i].agent]
    PROVE  TablesSound'
  <1>1. \A i \in R!Rows' : i \in R!Rows /\ resources'[i] = resources[i]
    BY DEF R!Rows
  <1>2. R!AgentsAtHome'
    BY <1>1 DEF TablesSound, R!AgentsAtHome, R!Rows
  <1>3. R!RoutesApart'
    BY <1>1 DEF TablesSound, R!RoutesApart
  <1> QED BY <1>2, <1>3 DEF TablesSound

\* A row is written: its agent is at home, and its route is free.
LEMMA RowWritten ==
    ASSUME TablesSound, NEW i \in R!RowIds, NEW r \in R!ValidRow, NEW k \in {i, None},
           R!RouteFree(k, r),
           r.origin = "agent" => agents[r.agent] = r.project,
           resources' = [resources EXCEPT ![i] = r],
           UNCHANGED <<projects, agents>>, TablesTyped', drawn'.agent = drawn.agent
    PROVE  TablesSound'
  <1>1. /\ \A j \in R!RowIds : resources'[j] = IF j = i THEN r ELSE resources[j]
        /\ R!Rows' = R!Rows \cup {i}
    BY NoneApart DEF TablesSound, TablesTyped, R!Rows
  <1>2. AgentsDrawn'
    BY DEF TablesSound, AgentsDrawn
  <1>3. R!AgentsAtHome'
    BY <1>1, RowFacts DEF TablesSound, R!AgentsAtHome, R!Rows
  <1>4. R!RoutesApart'
    <2> SUFFICES ASSUME NEW j \in R!Rows', NEW l \in R!Rows', j # l,
                        resources'[j].on, resources'[l].on, resources'[j].route # None,
                        resources'[j].route = resources'[l].route
                 PROVE  FALSE
      BY DEF R!RoutesApart
    <2>1. \A m \in R!Rows : m # i /\ r.on /\ r.route # None /\ resources[m].on =>
                               resources[m].route # r.route
      BY NoneApart DEF R!RouteFree, R!Rows
    <2> QED BY <1>1, <2>1 DEF TablesSound, R!RoutesApart, R!Rows
  <1> QED BY <1>2, <1>3, <1>4 DEF TablesSound

LEMMA TablesSame ==
    ASSUME TablesSound, UNCHANGED <<agents, resources>>, TablesTyped', drawn'.agent = drawn.agent
    PROVE  TablesSound'
  BY RowsGone DEF TablesSound, AgentsDrawn

-----------------------------------------------------------------------------
(* The requests. *)

\* Agents go or are drawn anew: none is moved.
AgentsFade ==
    /\ drawn.agent <= drawn'.agent
    /\ \A a \in R!Agents : a <= drawn.agent => agents'[a] \in {agents[a], None}

LEMMA CheckedStays ==
    ASSUME TablesTyped, drawn'.agent \in Nat, AgentsFade, NEW q, CarriesRow(q), AgentChecked(q)
    PROVE  AgentChecked(q)'
  <1> SUFFICES ASSUME q.pc \in {"route", "write"}, q.row.origin = "agent"
               PROVE  /\ q.row.agent <= drawn'.agent
                      /\ agents'[q.row.agent] \in {q.row.project, None}
    BY DEF AgentChecked
  <1>1. q.row \in R!ValidRow /\ q.row.agent \in R!Agents
    BY RowFacts DEF CarriesRow
  <1>2. q.row.agent <= drawn.agent /\ agents[q.row.agent] \in {q.row.project, None}
    BY DEF AgentChecked
  <1>3. q.row.agent \in Nat /\ drawn.agent \in Nat
    BY <1>1 DEF R!Agents, TablesTyped
  <1> QED BY <1>1, <1>2, <1>3 DEF AgentsFade

LEMMA Becomes ==
    ASSUME TablesTyped, TablesTyped', AgentsFade, RequestsSound, requests' \in 0..MaxRequests,
           NEW h \in Handlers, NEW q, CarriesRow(q), AgentChecked(q),
           handler' = [handler EXCEPT ![h] = q]
    PROVE  RequestsSound'
  <1>1. handler' \in [Handlers -> R!Request \cup {R!Idle}]
    BY DEF RequestsSound, CarriesRow
  <1>2. \A g \in Handlers : handler'[g] = IF g = h THEN q ELSE handler[g]
    BY DEF RequestsSound
  <1>3. drawn'.agent \in Nat
    BY DEF TablesTyped
  <1>4. \A g \in Handlers : CarriesRow(handler'[g]) /\ AgentChecked(handler'[g])
    BY <1>2 DEF RequestsSound
  <1>5. ASSUME NEW g \in Handlers
        PROVE  AgentChecked(handler[g])'
    <2>1. PICK x : x = handler'[g]
      OBVIOUS
    <2>2. AgentChecked(x)'
      BY <1>3, <1>4, <2>1, CheckedStays
    <2> QED BY <2>1, <2>2 DEF AgentChecked
  <1>6. \A g \in Handlers : CarriesRow(handler[g])'
    BY <1>4 DEF CarriesRow
  <1> QED BY <1>1, <1>5, <1>6 DEF RequestsSound

LEMMA Others ==
    ASSUME TablesTyped, TablesTyped', AgentsFade, RequestsSound, requests' \in 0..MaxRequests,
           UNCHANGED handler
    PROVE  RequestsSound'
  <1>1. ASSUME NEW g \in Handlers
        PROVE  AgentChecked(handler[g])'
    <2>1. drawn'.agent \in Nat
      BY DEF TablesTyped
    <2>2. PICK x : x = handler[g]
      OBVIOUS
    <2>3. AgentChecked(x)'
      BY <2>1, <2>2, CheckedStays DEF RequestsSound
    <2> QED BY <2>2, <2>3 DEF AgentChecked
  <1> QED BY <1>1 DEF RequestsSound, CarriesRow

LEMMA IdleRequest == R!Idle.pc = "idle" /\ CarriesRow(R!Idle) /\ AgentChecked(R!Idle)
  BY DEF R!Idle, CarriesRow, AgentChecked

LEMMA FadeSame ==
    ASSUME TablesTyped, UNCHANGED <<agents, drawn>>
    PROVE  AgentsFade
  BY DEF TablesTyped, AgentsFade

LEMMA CountedTyped ==
    ASSUME RequestsSound, R!Counted
    PROVE  requests' \in 0..MaxRequests
  BY BoundsAssumption DEF RequestsSound, R!Counted

-----------------------------------------------------------------------------
(* The steps of a request that write no row. *)

\* All that such a step changes is where the request is.
LEMMA QuietInv ==
    ASSUME TablesSound, RequestsSound, UNCHANGED <<projects, agents, resources, drawn>>,
           requests' \in 0..MaxRequests,
           NEW h \in Handlers, NEW q, CarriesRow(q), AgentChecked(q),
           handler' = [handler EXCEPT ![h] = q]
    PROVE  TablesSound' /\ RequestsSound'
  <1>1. TablesTyped /\ TablesTyped'
    BY DEF TablesSound, TablesTyped
  <1> QED BY <1>1, TablesSame, FadeSame, Becomes

LEMMA BeginInv ==
    ASSUME TablesSound, RequestsSound, NEW h \in Handlers,
           NEW pc \in {"project", "agentInsert", "projectUpdate", "countResources"},
           NEW p \in R!Projects, NEW i \in R!RowIds \cup {None},
           NEW r \in R!ValidRow \cup {None}, NEW on \in BOOLEAN,
           pc = "project" => r \in R!ValidRow /\ p = r.project,
           R!Begin(h, pc, p, i, r, on)
    PROVE  TablesSound' /\ RequestsSound'
  <1>1. PICK q : q = [pc |-> pc, project |-> p, id |-> i, row |-> r, on |-> on]
    OBVIOUS
  <1>2. q \in R!Request /\ q.pc = pc /\ q.project = p /\ q.row = r
    BY <1>1 DEF R!Request
  <1>3. CarriesRow(q) /\ AgentChecked(q)
    BY <1>2 DEF CarriesRow, AgentChecked
  <1>4. handler' = [handler EXCEPT ![h] = q] /\ UNCHANGED <<projects, agents, resources, drawn>>
    BY <1>1 DEF R!Begin, R!tables
  <1>5. requests' \in 0..MaxRequests
    BY CountedTyped DEF R!Begin
  <1> QED BY <1>3, <1>4, <1>5, QuietInv

LEMMA LeaveInv ==
    ASSUME TablesSound, RequestsSound, NEW h \in Handlers, R!Leave(h),
           UNCHANGED <<projects, agents, resources, drawn, requests>>
    PROVE  TablesSound' /\ RequestsSound'
  BY QuietInv, IdleRequest DEF R!Leave, RequestsSound

\* A request under way.
LEMMA UnderWay ==
    ASSUME RequestsSound, NEW h \in Handlers, handler[h].pc # "idle"
    PROVE  handler[h] \in R!Request /\ CarriesRow(handler[h]) /\ AgentChecked(handler[h])
  <1>1. CarriesRow(handler[h]) /\ AgentChecked(handler[h])
    BY DEF RequestsSound
  <1> QED BY <1>1, IdleRequest DEF CarriesRow

LEMMA StepInv ==
    ASSUME TablesSound, RequestsSound, NEW h \in Handlers, handler[h].pc # "idle",
           NEW pc \in {"agent", "route", "write", "countAgents", "projectDelete"},
           pc \in {"agent", "route", "write"} => handler[h].pc \in {"project", "agent", "route"},
           pc \in {"route", "write"} /\ handler[h].row.origin = "agent" =>
               /\ handler[h].row.agent <= drawn.agent
               /\ agents[handler[h].row.agent] \in {handler[h].row.project, None},
           R!Step(h, pc), UNCHANGED <<projects, agents, resources, drawn, requests>>
    PROVE  TablesSound' /\ RequestsSound'
  <1>1. PICK q : q = [handler[h] EXCEPT !.pc = pc]
    OBVIOUS
  <1>2. handler[h] \in R!Request /\ CarriesRow(handler[h])
    BY UnderWay
  <1>3. q \in R!Request /\ q.pc = pc /\ q.row = handler[h].row /\ q.project = handler[h].project
    BY <1>1, <1>2 DEF R!Request
  <1>4. CarriesRow(q)
    BY <1>2, <1>3 DEF CarriesRow
  <1>5. AgentChecked(q)
    BY <1>3 DEF AgentChecked
  <1>6. handler' = [handler EXCEPT ![h] = q]
    BY <1>1 DEF R!Step
  <1> QED BY <1>4, <1>5, <1>6, QuietInv DEF RequestsSound

\* An agent that belongs to a project was made in it: resources lend none to another.
LEMMA BelongsAtHome ==
    ASSUME TablesSound, NEW a \in R!Agents, NEW p \in R!Projects, R!AgentBelongsToProject(a, p)
    PROVE  a <= drawn.agent /\ agents[a] = p
  <1>1. agents[a] # None
    BY DEF R!AgentBelongsToProject
  <1>2. agents[a] = p
    <2>1. CASE agents[a] = p
      BY <2>1
    <2>2. CASE \E i \in R!RowsOf(p) : resources[i].agent = a
      <3>1. PICK i \in R!Rows : resources[i].project = p /\ resources[i].agent = a
        BY <2>2 DEF R!RowsOf
      <3>2. resources[i] \in R!ValidRow
        BY <3>1 DEF R!Rows, TablesSound, TablesTyped
      <3>3. resources[i].origin = "agent"
        BY <3>1, <3>2, NoneApart, RowFacts
      <3> QED BY <3>1, <3>3 DEF TablesSound, R!AgentsAtHome
    <2> QED BY <2>1, <2>2 DEF R!AgentBelongsToProject
  <1> QED BY <1>1, <1>2 DEF TablesSound, AgentsDrawn

LEMMA CheckInv ==
    ASSUME TablesSound, RequestsSound, NEW h \in Handlers,
           \/ R!CheckProject(h) \/ R!CheckAgent(h) \/ R!CheckRoute(h)
           \/ R!CountResources(h) \/ R!CountAgents(h)
    PROVE  TablesSound' /\ RequestsSound'
  <1>1. UNCHANGED <<projects, agents, resources, drawn, requests>> /\ handler[h].pc # "idle"
    BY DEF R!CheckProject, R!CheckAgent, R!CheckRoute, R!CountResources, R!CountAgents,
           R!Check, R!tables, R!At
  <1>2. CASE R!Leave(h)
    BY <1>1, <1>2, LeaveInv
  <1>3. CASE R!CheckProject(h) /\ R!Step(h, "agent")
    BY <1>1, <1>3, StepInv DEF R!CheckProject, R!Check, R!At
  <1>4. CASE /\ R!CheckAgent(h) /\ R!Step(h, "route")
             /\ \/ handler[h].row.origin = "local"
                \/ R!AgentBelongsToProject(handler[h].row.agent, handler[h].project)
    <2>1. handler[h].pc = "agent"
      BY <1>4 DEF R!CheckAgent, R!Check, R!At
    <2>2. handler[h].row \in R!ValidRow /\ handler[h].project = handler[h].row.project
      BY <2>1, UnderWay DEF CarriesRow
    <2>3. ASSUME handler[h].row.origin = "agent"
          PROVE  /\ handler[h].row.agent <= drawn.agent
                 /\ agents[handler[h].row.agent] = handler[h].row.project
      <3>1. handler[h].row.agent \in R!Agents /\ handler[h].row.project \in R!Projects
        BY <2>2, <2>3, RowFacts
      <3> QED BY <1>4, <2>2, <2>3, <3>1, BelongsAtHome
    <2> QED BY <1>1, <1>4, <2>1, <2>3, StepInv
  <1>5. CASE R!CheckRoute(h) /\ R!Step(h, "write")
    <2>1. handler[h].pc = "route"
      BY <1>5 DEF R!CheckRoute, R!Check, R!At
    <2>2. AgentChecked(handler[h])
      BY <2>1, UnderWay
    <2> QED BY <1>1, <1>5, <2>1, <2>2, StepInv DEF AgentChecked
  <1>6. CASE \/ R!CountResources(h) /\ R!Step(h, "countAgents")
             \/ R!CountAgents(h) /\ R!Step(h, "projectDelete")
    BY <1>1, <1>6, StepInv
  <1> QED BY <1>2, <1>3, <1>4, <1>5, <1>6
          DEF R!CheckProject, R!CheckAgent, R!CheckRoute, R!CountResources, R!CountAgents,
              R!Check

LEMMA BeginningInv ==
    ASSUME TablesSound, RequestsSound, NEW h \in Handlers,
           \/ R!BeginUpdateProject(h) \/ R!BeginDeleteProject(h) \/ R!BeginAddAgent(h)
           \/ R!BeginAddResource(h) \/ R!BeginUpdateResource(h)
    PROVE  TablesSound' /\ RequestsSound'
  <1>1. CASE R!BeginUpdateProject(h)
    BY <1>1, BeginInv DEF R!BeginUpdateProject
  <1>2. CASE R!BeginDeleteProject(h)
    BY <1>2, BeginInv DEF R!BeginDeleteProject
  <1>3. CASE R!BeginAddAgent(h)
    BY <1>3, BeginInv DEF R!BeginAddAgent
  <1>4. CASE R!BeginAddResource(h)
    <2>1. PICK r \in R!ValidRow : R!Begin(h, "project", r.project, None, r, TRUE)
      BY <1>4 DEF R!BeginAddResource
    <2> QED BY <2>1, RowFacts, BeginInv
  <1>5. CASE R!BeginUpdateResource(h)
    <2>1. PICK i \in R!Rows, r \in R!ValidRow : R!Begin(h, "project", r.project, i, r, r.on)
      BY <1>5 DEF R!BeginUpdateResource
    <2>2. i \in R!RowIds
      BY DEF R!Rows
    <2> QED BY <2>1, <2>2, RowFacts, BeginInv
  <1> QED BY <1>1, <1>2, <1>3, <1>4, <1>5

-----------------------------------------------------------------------------
(* The steps that write rows. *)

LEMMA ProjectsInv ==
    ASSUME TablesSound, RequestsSound,
           R!AddProject \/ \E h \in Handlers : R!UpdateProject(h)
    PROVE  TablesSound' /\ RequestsSound'
  <1>1. UNCHANGED <<agents, resources>>
    BY DEF R!AddProject, R!UpdateProject
  <1>2. TablesTyped
    BY DEF TablesSound
  <1>3. CASE R!AddProject
    <2>1. /\ drawn' \in [project : 0..MaxProjects, agent : 0..MaxAgents, row : 0..MaxRows]
          /\ drawn'.agent = drawn.agent
      <3>1. PICK n : n = drawn.project + 1
        OBVIOUS
      <3>2. n \in 0..MaxProjects
        BY <1>2, <1>3, <3>1, BoundsAssumption DEF TablesTyped, R!AddProject
      <3>3. drawn' = [drawn EXCEPT !.project = n]
        BY <1>3, <3>1 DEF R!AddProject
      <3> QED BY <1>2, <3>2, <3>3 DEF TablesTyped
    <2>2. projects' \in [R!Projects -> BOOLEAN \cup {None}]
      BY <1>2, <1>3 DEF TablesTyped, R!AddProject
    <2>3. TablesTyped'
      BY <1>1, <1>2, <2>1, <2>2 DEF TablesTyped
    <2>4. AgentsFade
      BY <1>1, <1>2, <2>1 DEF TablesTyped, AgentsFade
    <2>5. requests' \in 0..MaxRequests /\ UNCHANGED handler
      BY <1>3, CountedTyped DEF R!AddProject
    <2> QED BY <1>1, <1>2, <2>1, <2>3, <2>4, <2>5, TablesSame, Others
  <1>4. ASSUME NEW h \in Handlers, R!UpdateProject(h)
        PROVE  TablesSound' /\ RequestsSound'
    <2>1. handler[h] \in R!Request
      BY <1>4, UnderWay DEF R!UpdateProject, R!At
    <2>2. handler[h].on \in BOOLEAN /\ handler[h].project \in R!Projects
      BY <2>1 DEF R!Request
    <2>3. projects' \in [R!Projects -> BOOLEAN \cup {None}]
      BY <1>2, <1>4, <2>2 DEF TablesTyped, R!UpdateProject
    <2>4. UNCHANGED <<drawn, requests>> /\ handler' = [handler EXCEPT ![h] = R!Idle]
      BY <1>4 DEF R!UpdateProject, R!Leave
    <2>5. TablesTyped'
      BY <1>1, <1>2, <2>3, <2>4 DEF TablesTyped
    <2>6. requests' \in 0..MaxRequests
      BY <2>4 DEF RequestsSound
    <2> QED BY <1>1, <1>2, <2>4, <2>5, <2>6, TablesSame, FadeSame, Becomes, IdleRequest
  <1> QED BY <1>3, <1>4

\* What goes with a project is its resources and its agents, which no other project uses.
LEMMA DeleteProjectInv ==
    ASSUME TablesSound, RequestsSound, NEW h \in Handlers, R!DeleteProject(h)
    PROVE  TablesSound' /\ RequestsSound'
  <1> DEFINE p == handler[h].project
             gone == {a \in R!Agents : agents[a] = p}
             kept == [i \in R!RowIds |-> IF i \in R!RowsOf(p) THEN None ELSE resources[i]]
  <1>1. p \in R!Projects
    BY UnderWay DEF R!DeleteProject, R!At, R!Request
  <1>2. /\ projects' = [projects EXCEPT ![p] = None]
        /\ agents' = [a \in R!Agents |-> IF a \in gone THEN None ELSE agents[a]]
        /\ resources' = R!WithoutAgents(kept, gone)
        /\ handler' = [handler EXCEPT ![h] = R!Idle] /\ UNCHANGED <<drawn, requests>>
    BY DEF R!DeleteProject, R!Leave
  <1>3. ASSUME NEW i \in R!RowIds, kept[i] # None
        PROVE  /\ kept[i] = resources[i] /\ kept[i].agent \notin gone
               /\ resources[i].agent # None => resources[i].agent \in R!Agents
    <2>1. i \in R!Rows /\ kept[i] = resources[i] /\ resources[i].project # p
      BY <1>3 DEF R!Rows, R!RowsOf
    <2>2. resources[i] \in R!ValidRow
      BY <2>1 DEF R!Rows, TablesSound, TablesTyped
    <2>3. resources[i].agent # None => agents[resources[i].agent] = resources[i].project
      BY <2>1, <2>2, RowFacts DEF TablesSound, R!AgentsAtHome
    <2> QED BY <2>1, <2>2, <2>3, RowFacts, NoneApart
  <1>4. \A i \in R!RowIds : resources'[i] = kept[i]
    BY <1>2, <1>3 DEF R!WithoutAgents
  <1>5. \A i \in R!RowIds : kept[i] \in {resources[i], None}
    OBVIOUS
  <1>6. resources' \in [R!RowIds -> R!ValidRow \cup {None}]
    <2>1. resources' = [i \in R!RowIds |-> resources'[i]]
      BY <1>2 DEF R!WithoutAgents
    <2>2. \A i \in R!RowIds : resources'[i] \in R!ValidRow \cup {None}
      BY <1>4, <1>5 DEF TablesSound, TablesTyped
    <2> QED BY <2>1, <2>2
  <1>7. TablesTyped'
    BY <1>1, <1>2, <1>6 DEF TablesSound, TablesTyped
  <1>8. AgentsDrawn' /\ AgentsFade
    BY <1>2 DEF TablesSound, TablesTyped, AgentsDrawn, AgentsFade
  <1>9. \A i \in R!RowIds :
           \/ resources'[i] = None
           \/ /\ resources'[i] = resources[i]
              /\ resources[i].agent # None =>
                    agents'[resources[i].agent] = agents[resources[i].agent]
    BY <1>2, <1>3, <1>4
  <1>10. TablesSound'
    BY <1>7, <1>8, <1>9, RowsGone
  <1> QED BY <1>2, <1>7, <1>8, <1>10, Becomes, IdleRequest DEF TablesSound, RequestsSound

LEMMA AddAgentInv ==
    ASSUME TablesSound, RequestsSound, NEW h \in Handlers, R!AddAgent(h)
    PROVE  TablesSound' /\ RequestsSound'
  <1>1. handler[h].project \in R!Projects
    BY UnderWay DEF R!AddAgent, R!At, R!Request
  <1>2. CASE UNCHANGED <<agents, drawn>>
    BY <1>2, LeaveInv DEF R!AddAgent
  <1>3. CASE /\ drawn.agent < MaxAgents
             /\ agents' = [agents EXCEPT ![drawn.agent + 1] = handler[h].project]
             /\ drawn' = [drawn EXCEPT !.agent = drawn.agent + 1]
    <2>1. PICK n : n = drawn.agent + 1
      OBVIOUS
    <2>2. /\ n \in R!Agents /\ n \in 0..MaxAgents /\ drawn.agent < n /\ drawn.agent \in Nat
          /\ R!Agents \subseteq Nat
      BY <1>3, <2>1, BoundsAssumption DEF TablesSound, TablesTyped, R!Agents
    <2>3. drawn' = [drawn EXCEPT !.agent = n] /\ agents' = [agents EXCEPT ![n] = handler[h].project]
      BY <1>3, <2>1
    <2>4. drawn' \in [project : 0..MaxProjects, agent : 0..MaxAgents, row : 0..MaxRows]
          /\ drawn'.agent = n
      BY <2>2, <2>3 DEF TablesSound, TablesTyped
    <2>5. agents' \in [R!Agents -> R!Projects \cup {None}]
      BY <1>1, <2>3 DEF TablesSound, TablesTyped
    <2>6. UNCHANGED <<projects, resources, requests>> /\ handler' = [handler EXCEPT ![h] = R!Idle]
      BY DEF R!AddAgent, R!Leave
    <2>7. TablesTyped'
      BY <2>4, <2>5, <2>6 DEF TablesSound, TablesTyped
    <2>8. \A a \in R!Agents : a # n => agents'[a] = agents[a]
      BY <2>3 DEF TablesSound, TablesTyped
    <2>9. AgentsDrawn'
      BY <2>2, <2>4, <2>8 DEF TablesSound, AgentsDrawn
    <2>10. AgentsFade
      BY <2>2, <2>4, <2>8 DEF AgentsFade
    <2>11. ASSUME NEW i \in R!RowIds, resources[i] # None, resources[i].agent # None
           PROVE  agents'[resources[i].agent] = agents[resources[i].agent]
      <3>1. resources[i] \in R!ValidRow /\ i \in R!Rows
        BY <2>11 DEF TablesSound, TablesTyped, R!Rows
      <3>2. resources[i].agent \in R!Agents /\ agents[resources[i].agent] \in R!Projects
        BY <2>11, <3>1, RowFacts DEF TablesSound, R!AgentsAtHome
      <3>3. resources[i].agent # n
        BY <2>2, <3>2, NoneApart DEF TablesSound, AgentsDrawn
      <3> QED BY <2>8, <3>2, <3>3
    <2>12. TablesSound'
      BY <2>6, <2>7, <2>9, <2>11, RowsGone
    <2> QED BY <2>6, <2>7, <2>10, <2>12, Becomes, IdleRequest DEF TablesSound, RequestsSound
  <1> QED BY <1>2, <1>3 DEF R!AddAgent

LEMMA DeletionsInv ==
    ASSUME TablesSound, RequestsSound, R!DeleteAgent \/ R!DeleteResource
    PROVE  TablesSound' /\ RequestsSound'
  <1>1. requests' \in 0..MaxRequests /\ UNCHANGED <<projects, drawn, handler>>
    BY CountedTyped DEF R!DeleteAgent, R!DeleteResource
  <1>2. CASE R!DeleteAgent
    <2>1. PICK a \in R!Agents :
             /\ agents' = [agents EXCEPT ![a] = None]
             /\ resources' = [i \in R!RowIds |->
                   IF i \in R!Rows /\ resources[i].agent = a THEN None ELSE resources[i]]
      BY <1>2 DEF R!DeleteAgent
    <2>2. TablesTyped'
      BY <1>1, <2>1 DEF TablesSound, TablesTyped
    <2>3. AgentsDrawn' /\ AgentsFade
      BY <1>1, <2>1 DEF TablesSound, TablesTyped, AgentsDrawn, AgentsFade
    <2>4. \A i \in R!RowIds :
             \/ resources'[i] = None
             \/ /\ resources'[i] = resources[i]
                /\ resources[i].agent # None =>
                      agents'[resources[i].agent] = agents[resources[i].agent]
      <3> SUFFICES ASSUME NEW i \in R!RowIds, resources'[i] # None, resources[i].agent # None
                   PROVE  agents'[resources[i].agent] = agents[resources[i].agent]
        BY <2>1
      <3>1. resources[i] # None /\ resources[i].agent # a
        BY <2>1 DEF R!Rows
      <3>2. resources[i].agent \in R!Agents
        BY <3>1, RowFacts DEF TablesSound, TablesTyped
      <3> QED BY <2>1, <3>1, <3>2 DEF TablesSound, TablesTyped
    <2>5. TablesSound'
      BY <2>2, <2>3, <2>4, RowsGone
    <2> QED BY <1>1, <2>2, <2>3, <2>5, Others DEF TablesSound
  <1>3. CASE R!DeleteResource
    <2>1. PICK k \in R!Rows : resources' = [resources EXCEPT ![k] = None]
      BY <1>3 DEF R!DeleteResource
    <2>2. UNCHANGED agents
      BY <1>3 DEF R!DeleteResource
    <2>3. TablesTyped'
      BY <1>1, <2>1, <2>2 DEF TablesSound, TablesTyped
    <2>4. AgentsDrawn'
      BY <1>1, <2>2 DEF TablesSound, AgentsDrawn
    <2>5. \A i \in R!RowIds : resources'[i] \in {resources[i], None}
      BY <2>1 DEF TablesSound, TablesTyped
    <2>6. TablesSound'
      BY <2>2, <2>3, <2>4, <2>5, RowsGone
    <2> QED BY <1>1, <2>2, <2>3, <2>6, FadeSame, Others DEF TablesSound
  <1> QED BY <1>2, <1>3

\* A request about a resource that is about to write: foreign keys and the check of before
\* together say that the agent is of the project.
LEMMA AgentAtHome ==
    ASSUME TablesSound, RequestsSound, NEW h \in Handlers, R!At(h, "write"),
           R!RefersToRows(handler[h].row)
    PROVE  /\ handler[h].row \in R!ValidRow
           /\ handler[h].row.origin = "agent" =>
                 agents[handler[h].row.agent] = handler[h].row.project
  <1>1. /\ handler[h].row \in R!ValidRow /\ AgentChecked(handler[h])
        /\ handler[h].pc = "write"
    BY UnderWay DEF R!At, CarriesRow
  <1> QED BY <1>1, RowFacts DEF AgentChecked, R!RefersToRows

LEMMA AddResourceInv ==
    ASSUME TablesSound, RequestsSound, NEW h \in Handlers, R!AddResource(h)
    PROVE  TablesSound' /\ RequestsSound'
  <1>1. CASE UNCHANGED <<resources, drawn>>
    BY <1>1, LeaveInv DEF R!AddResource
  <1>2. CASE /\ drawn.row < MaxRows /\ R!Accepts(None, handler[h].row)
             /\ resources' = [resources EXCEPT ![drawn.row + 1] = handler[h].row]
             /\ drawn' = [drawn EXCEPT !.row = drawn.row + 1]
    <2>1. PICK n, r : n = drawn.row + 1 /\ r = handler[h].row
      OBVIOUS
    <2>2. n \in R!RowIds /\ n \in 0..MaxRows
      BY <1>2, <2>1, BoundsAssumption DEF TablesSound, TablesTyped, R!RowIds
    <2>3. /\ r \in R!ValidRow /\ R!RouteFree(None, r)
          /\ r.origin = "agent" => agents[r.agent] = r.project
      BY <1>2, <2>1, AgentAtHome DEF R!AddResource, R!Accepts
    <2>4. /\ resources' = [resources EXCEPT ![n] = r]
          /\ drawn' = [drawn EXCEPT !.row = n]
          /\ UNCHANGED <<projects, agents, requests>>
          /\ handler' = [handler EXCEPT ![h] = R!Idle]
      BY <1>2, <2>1 DEF R!AddResource, R!Leave
    <2>5. /\ drawn' \in [project : 0..MaxProjects, agent : 0..MaxAgents, row : 0..MaxRows]
          /\ drawn'.agent = drawn.agent
      BY <2>2, <2>4 DEF TablesSound, TablesTyped
    <2>6. TablesTyped'
      BY <2>3, <2>4, <2>5 DEF TablesSound, TablesTyped
    <2>7. TablesSound'
      BY <2>2, <2>3, <2>4, <2>5, <2>6, RowWritten
    <2>8. AgentsFade
      BY <2>4, <2>5 DEF TablesSound, TablesTyped, AgentsFade
    <2> QED BY <2>4, <2>6, <2>7, <2>8, Becomes, IdleRequest DEF TablesSound, RequestsSound
  <1> QED BY <1>1, <1>2 DEF R!AddResource

LEMMA UpdateResourceInv ==
    ASSUME TablesSound, RequestsSound, NEW h \in Handlers, R!UpdateResource(h)
    PROVE  TablesSound' /\ RequestsSound'
  <1>1. CASE UNCHANGED resources
    BY <1>1, LeaveInv DEF R!UpdateResource
  <1>2. CASE /\ handler[h].id \in R!Rows /\ R!Accepts(handler[h].id, handler[h].row)
             /\ resources' = [resources EXCEPT ![handler[h].id] = handler[h].row]
    <2>1. PICK i, r : i = handler[h].id /\ r = handler[h].row
      OBVIOUS
    <2>2. i \in R!RowIds /\ R!RouteFree(i, r)
      BY <1>2, <2>1 DEF R!Rows, R!Accepts
    <2>3. r \in R!ValidRow /\ (r.origin = "agent" => agents[r.agent] = r.project)
      BY <1>2, <2>1, AgentAtHome DEF R!UpdateResource, R!Accepts
    <2>4. /\ resources' = [resources EXCEPT ![i] = r]
          /\ UNCHANGED <<projects, agents, drawn, requests>>
          /\ handler' = [handler EXCEPT ![h] = R!Idle]
      BY <1>2, <2>1 DEF R!UpdateResource, R!Leave
    <2>5. TablesTyped'
      BY <2>3, <2>4 DEF TablesSound, TablesTyped
    <2>6. i # None
      BY <2>2, NoneApart
    <2>7. TablesSound'
      BY <2>2, <2>3, <2>4, <2>5, <2>6, RowWritten
    <2> QED BY <2>4, <2>5, <2>7, FadeSame, Becomes, IdleRequest DEF TablesSound, RequestsSound
  <1> QED BY <1>1, <1>2 DEF R!UpdateResource

\* The index refuses to switch on a route that another row has.
LEMMA ControlInv ==
    ASSUME TablesSound, RequestsSound, R!UpdateResourceControl
    PROVE  TablesSound' /\ RequestsSound'
  <1>1. PICK i \in R!Rows, on \in BOOLEAN :
           /\ R!RouteFree(i, [resources[i] EXCEPT !.on = on])
           /\ resources' = [resources EXCEPT ![i] = [resources[i] EXCEPT !.on = on]]
    BY DEF R!UpdateResourceControl
  <1>2. PICK r : r = [resources[i] EXCEPT !.on = on]
    OBVIOUS
  <1>3. i \in R!RowIds /\ resources[i] \in R!ValidRow
    BY DEF R!Rows, TablesSound, TablesTyped
  <1>4. /\ r \in R!ValidRow
        /\ r.origin = resources[i].origin /\ r.agent = resources[i].agent
        /\ r.project = resources[i].project
    BY <1>2, <1>3 DEF R!ValidRow, R!Row
  <1>5. r.origin = "agent" => agents[r.agent] = r.project
    BY <1>4 DEF TablesSound, R!AgentsAtHome
  <1>6. requests' \in 0..MaxRequests /\ UNCHANGED <<projects, agents, drawn, handler>>
    BY CountedTyped DEF R!UpdateResourceControl
  <1>7. R!RouteFree(i, r) /\ resources' = [resources EXCEPT ![i] = r]
    BY <1>1, <1>2
  <1>8. TablesTyped'
    BY <1>4, <1>6, <1>7 DEF TablesSound, TablesTyped
  <1>9. TablesSound'
    BY <1>3, <1>4, <1>5, <1>6, <1>7, <1>8, NoneApart, RowWritten
  <1> QED BY <1>6, <1>8, <1>9, FadeSame, Others DEF TablesSound

-----------------------------------------------------------------------------
(* Deletions of projects. *)

\* How a request comes to a count or past it: by the count before, in a state in which
\* that count was zero. Everything else that it may do leads elsewhere.
Moves(g) ==
    \/ handler'[g] = handler[g]
    \/ handler'[g].pc \notin {"countAgents", "projectDelete"}
    \/ /\ UNCHANGED <<projects, agents, resources>>
       /\ handler'[g].project = handler[g].project
       /\ \/ /\ R!At(g, "countResources") /\ R!RowsOf(handler[g].project) = {}
             /\ handler'[g].pc = "countAgents"
          \/ /\ R!At(g, "countAgents") /\ R!AgentsOf(handler[g].project) = {}
             /\ handler'[g].pc = "projectDelete"

LEMMA MovesStep ==
    ASSUME RequestsSound, NEW h \in Handlers, R!Project(h) \/ R!Agent(h) \/ R!Resource(h),
           NEW g \in Handlers
    PROVE  Moves(g)
  <1>1. ASSUME NEW pc \in {"project", "agentInsert", "projectUpdate", "countResources"},
               NEW p, NEW i, NEW r, NEW on, R!Begin(h, pc, p, i, r, on)
        PROVE  Moves(g)
    <2>1. PICK q : q = [pc |-> pc, project |-> p, id |-> i, row |-> r, on |-> on]
      OBVIOUS
    <2>2. handler' = [handler EXCEPT ![h] = q] /\ q.pc = pc
      BY <1>1, <2>1 DEF R!Begin
    <2> QED BY <2>2 DEF RequestsSound, Moves
  <1>2. CASE R!Leave(h)
    BY <1>2, IdleRequest DEF R!Leave, RequestsSound, Moves
  <1>3. ASSUME NEW pc \in {"agent", "route", "write", "countAgents", "projectDelete"},
               handler[h].pc # "idle", R!Step(h, pc)
        PROVE  /\ g # h => handler'[g] = handler[g]
               /\ handler'[h].pc = pc /\ handler'[h].project = handler[h].project
    <2>1. PICK q : q = [handler[h] EXCEPT !.pc = pc]
      OBVIOUS
    <2>2. q.pc = pc /\ q.project = handler[h].project
      BY <1>3, <2>1, UnderWay DEF R!Request
    <2>3. handler' = [handler EXCEPT ![h] = q]
      BY <1>3, <2>1 DEF R!Step
    <2> QED BY <2>2, <2>3 DEF RequestsSound
  <1>4. CASE \/ R!BeginUpdateProject(h) \/ R!BeginDeleteProject(h) \/ R!BeginAddAgent(h)
             \/ R!BeginAddResource(h) \/ R!BeginUpdateResource(h)
    BY <1>1, <1>4
    DEF R!BeginUpdateProject, R!BeginDeleteProject, R!BeginAddAgent, R!BeginAddResource,
        R!BeginUpdateResource
  <1>5. CASE \/ R!UpdateProject(h) \/ R!DeleteProject(h) \/ R!AddAgent(h) \/ R!AddResource(h)
             \/ R!UpdateResource(h)
    BY <1>2, <1>5
    DEF R!UpdateProject, R!DeleteProject, R!AddAgent, R!AddResource, R!UpdateResource
  <1>6. CASE R!CheckProject(h) \/ R!CheckAgent(h) \/ R!CheckRoute(h)
    <2>1. R!Leave(h) \/ \E pc \in {"agent", "route", "write"} : R!Step(h, pc)
      BY <1>6 DEF R!CheckProject, R!CheckAgent, R!CheckRoute, R!Check
    <2>2. handler[h].pc # "idle"
      BY <1>6 DEF R!CheckProject, R!CheckAgent, R!CheckRoute, R!Check, R!At
    <2> QED BY <1>2, <1>3, <2>1, <2>2 DEF Moves
  <1>7. CASE R!CountResources(h)
    <2>1. \/ R!Leave(h)
          \/ R!RowsOf(handler[h].project) = {} /\ R!Step(h, "countAgents")
      BY <1>7 DEF R!CountResources, R!Check
    <2>2. R!At(h, "countResources") /\ UNCHANGED <<projects, agents, resources>>
      BY <1>7 DEF R!CountResources, R!Check, R!tables
    <2> QED BY <1>2, <1>3, <2>1, <2>2 DEF Moves, R!At
  <1>8. CASE R!CountAgents(h)
    <2>1. \/ R!Leave(h)
          \/ R!AgentsOf(handler[h].project) = {} /\ R!Step(h, "projectDelete")
      BY <1>8 DEF R!CountAgents, R!Check
    <2>2. R!At(h, "countAgents") /\ UNCHANGED <<projects, agents, resources>>
      BY <1>8 DEF R!CountAgents, R!Check, R!tables
    <2> QED BY <1>2, <1>3, <2>1, <2>2 DEF Moves, R!At
  <1> QED BY <1>4, <1>5, <1>6, <1>7, <1>8 DEF R!Project, R!Agent, R!Resource

\* A count of zero takes its part out of what the deletion has still to see go.
LEMMA DeletionsNext ==
    ASSUME RequestsSound, DeletionsCount, \A g \in Handlers : Moves(g), R!Track
    PROVE  DeletionsCount'
  <1> SUFFICES ASSUME NEW h \in Handlers, handler'[h].pc \in {"countAgents", "projectDelete"}
               PROVE  /\ handler'[h].pc = "countAgents" => stayed'[h] \subseteq {"agent"} \X R!Agents
                      /\ handler'[h].pc = "projectDelete" => stayed'[h] = {}
    BY DEF DeletionsCount, R!At
  <1>1. PICK p : p = handler'[h].project
    OBVIOUS
  <1>2. R!Deleting(h)' /\ R!Deleting(h)
    BY DEF Moves, R!Deleting, R!At
  <1>3. handler'[h].project = handler[h].project
    BY DEF Moves
  <1>4. stayed'[h] = stayed[h] \cap (({"resource"} \X R!RowsOf(p)') \cup ({"agent"} \X R!AgentsOf(p)'))
    <2>1. stayed'[h] = stayed[h] \cap R!Contents(handler[h].project)'
      BY <1>2 DEF R!Track
    <2> QED BY <1>1, <1>3, <2>1 DEF R!Contents, R!RowsOf, R!AgentsOf, R!Rows, R!AgentBelongsToProject
  <1>5. R!AgentsOf(p)' \subseteq R!Agents
    BY DEF R!AgentsOf
  <1>6. CASE handler'[h] = handler[h]
    BY <1>4, <1>6 DEF DeletionsCount, R!At
  <1>7. CASE /\ UNCHANGED <<projects, agents, resources>>
             /\ R!RowsOf(handler[h].project) = {} /\ handler'[h].pc = "countAgents"
    <2>1. R!RowsOf(p)' = {}
      BY <1>1, <1>3, <1>7 DEF R!RowsOf, R!Rows
    <2> QED BY <1>4, <1>5, <1>7, <2>1
  <1>8. CASE /\ UNCHANGED <<projects, agents, resources>>
             /\ R!At(h, "countAgents") /\ R!AgentsOf(handler[h].project) = {}
             /\ handler'[h].pc = "projectDelete"
    <2>1. R!AgentsOf(p)' = {}
      BY <1>1, <1>3, <1>8 DEF R!AgentsOf, R!AgentBelongsToProject, R!RowsOf, R!Rows
    <2>2. stayed[h] \subseteq {"agent"} \X R!Agents
      BY <1>8 DEF DeletionsCount
    <2> QED BY <1>4, <1>8, <2>1, <2>2
  <1> QED BY <1>6, <1>7, <1>8 DEF Moves

-----------------------------------------------------------------------------
(* The theorems. *)

LEMMA RegistryInit == R!Init => RegistryInv
  <1> SUFFICES ASSUME R!Init PROVE RegistryInv
    OBVIOUS
  <1>1. 1 \in R!Projects /\ 1 \in R!Agents /\ 1 \in 0..MaxProjects /\ 1 \in 0..MaxAgents
        /\ 1 \in 0..MaxRows
    BY BoundsAssumption DEF R!Projects, R!Agents
  <1>2. PICK route \in Routes :
           resources = [i \in R!RowIds |->
               IF i = 1
               THEN [project |-> 1, origin |-> "agent", agent |-> 1, route |-> route,
                     on |-> TRUE]
               ELSE None]
    BY DEF R!Init
  <1>3. PICK r : r = [project |-> 1, origin |-> "agent", agent |-> 1, route |-> route,
                      on |-> TRUE]
    OBVIOUS
  <1>4. /\ r \in R!ValidRow
        /\ r.origin = "agent" /\ r.agent = 1 /\ r.project = 1
    BY <1>1, <1>3, NoneApart DEF R!ValidRow, R!Row
  <1>5. \A i \in R!RowIds : resources[i] = IF i = 1 THEN r ELSE None
    BY <1>2, <1>3
  <1>6. resources \in [R!RowIds -> R!ValidRow \cup {None}]
    <2>1. resources = [i \in R!RowIds |-> resources[i]]
      BY <1>2
    <2> QED BY <1>4, <1>5, <2>1
  <1>7. TablesTyped
    BY <1>1, <1>6 DEF R!Init, TablesTyped
  <1>8. agents[1] = 1 /\ \A a \in R!Agents : agents[a] # None => a <= drawn.agent
    BY <1>1 DEF R!Init, R!Agents
  <1>9. R!AgentsAtHome
    <2>1. r.agent # None
      BY <1>1, <1>4, NoneApart
    <2> QED BY <1>4, <1>5, <1>8, <2>1 DEF R!AgentsAtHome, R!Rows
  <1>10. R!RoutesApart
    BY <1>5 DEF R!RoutesApart, R!Rows
  <1>11. \A h \in Handlers : handler[h] = R!Idle
    BY DEF R!Init
  <1>12. RequestsSound
    BY <1>11, IdleRequest, BoundsAssumption DEF R!Init, RequestsSound, CarriesRow
  <1>13. DeletionsCount
    BY <1>11, IdleRequest DEF DeletionsCount, R!At
  <1> QED BY <1>7, <1>8, <1>9, <1>10, <1>12, <1>13 DEF RegistryInv, TablesSound, AgentsDrawn

LEMMA RegistryNext == RegistryInv /\ R!Next => RegistryInv'
  <1> SUFFICES ASSUME RegistryInv, R!Next PROVE RegistryInv'
    OBVIOUS
  <1>1. TablesSound /\ RequestsSound /\ DeletionsCount /\ R!Track
    BY DEF RegistryInv, R!Next
  <1>2. CASE R!AddProject \/ R!DeleteAgent \/ R!UpdateResourceControl \/ R!DeleteResource
    <2>1. TablesSound' /\ RequestsSound'
      BY <1>1, <1>2, ProjectsInv, DeletionsInv, ControlInv
    <2>2. \A g \in Handlers : Moves(g)
      BY <1>2
      DEF R!AddProject, R!DeleteAgent, R!UpdateResourceControl, R!DeleteResource, Moves
    <2> QED BY <1>1, <2>1, <2>2, DeletionsNext DEF RegistryInv
  <1>3. ASSUME NEW h \in Handlers, R!Project(h) \/ R!Agent(h) \/ R!Resource(h)
        PROVE  RegistryInv'
    <2>1. TablesSound' /\ RequestsSound'
      BY <1>1, <1>3, BeginningInv, CheckInv, ProjectsInv, DeleteProjectInv, AddAgentInv,
         AddResourceInv, UpdateResourceInv DEF R!Project, R!Agent, R!Resource
    <2>2. \A g \in Handlers : Moves(g)
      BY <1>1, <1>3, MovesStep
    <2> QED BY <1>1, <2>1, <2>2, DeletionsNext DEF RegistryInv
  <1> QED BY <1>2, <1>3 DEF R!Next

LEMMA RegistrySame ==
    ASSUME RegistryInv, UNCHANGED registryVars
    PROVE  RegistryInv'
  <1>1. UNCHANGED <<projects, agents, resources, drawn, handler, requests, stayed>>
    BY DEF registryVars
  <1>2. TablesTyped'
    BY <1>1 DEF RegistryInv, TablesSound, TablesTyped
  <1>3. TablesSound' /\ RequestsSound'
    BY <1>1, <1>2, TablesSame, FadeSame, Others DEF RegistryInv, TablesSound, RequestsSound
  <1>4. DeletionsCount'
    BY <1>1 DEF RegistryInv, DeletionsCount, R!At
  <1> QED BY <1>3, <1>4 DEF RegistryInv

\* The invariant of the tables and of the requests about them, in every reachable state:
\* statements of other requests come between the look-ups of one and its write.
THEOREM RegistryInvariance == Spec => []RegistryInv
  <1>1. Init => RegistryInv
    BY RegistryInit DEF Init
  <1>2. RegistryInv /\ [Next]_vars => RegistryInv'
    <2> SUFFICES ASSUME RegistryInv, [Next]_vars PROVE RegistryInv'
      OBVIOUS
    <2>1. CASE R!Next
      BY <2>1, RegistryNext
    <2>2. CASE UNCHANGED registryVars
      BY <2>2, RegistrySame
    <2> QED BY <2>1, <2>2 DEF Next, vars
  <1> QED BY <1>1, <1>2, PTL DEF Spec

\* A resource that an agent carries has its agent and in its own project, and a host and
\* path lead to one resource: AgentBelongsToProject, the foreign keys and the index
\* idx_resources_http_unique are enough together, though AddResource and UpdateResource
\* look and write in statements apart (store.go).
THEOREM RowsAlwaysConsistent == Spec => []RowsConsistent
  <1>1. RegistryInv => RowsConsistent
    <2> SUFFICES ASSUME RegistryInv PROVE RowsConsistent
      OBVIOUS
    <2>1. TablesTyped /\ R!AgentsAtHome /\ R!RoutesApart /\ RequestsSound
      BY DEF RegistryInv, TablesSound
    <2>2. R!ValidRow \subseteq R!Row
      BY DEF R!ValidRow
    <2>3. resources \in [R!RowIds -> R!Row \cup {None}]
      BY <2>1, <2>2 DEF TablesTyped
    <2> QED BY <2>1, <2>3 DEF RowsConsistent, R!TypeOK, TablesTyped, RequestsSound
  <1> QED BY <1>1, RegistryInvariance, PTL

\* DeleteProjectIfEmpty deletes a project past its two counts only when all that they
\* could see has gone: what still goes with it came later (store.go).
THEOREM DeletionAlwaysSpares == Spec => []DeletionSpares
  <1>1. RegistryInv => DeletionSpares
    BY DEF RegistryInv, DeletionsCount, DeletionSpares, R!DeletionSpares
  <1> QED BY <1>1, RegistryInvariance, PTL

-----------------------------------------------------------------------------
(* The domains of the panel. *)

\* The places of a change of the dashboard's domain at which the marks of the rows may
\* disagree with the setting.
Replacing == {"ensure", "clear", "set", "replaced", "legacy"}

\* How far a change has come when no other request has changed domains since it began.
AloneAt(q) ==
    /\ q.pc \in Replacing => dashboard = q.domain /\ q.domain # None
    /\ q.pc \in {"clear", "set", "replaced", "legacy"} => q.domain \in D!Known
    /\ q.pc = "set" => D!Primaries = {}
    /\ q.pc \in {"replaced", "legacy"} => D!Primaries = {q.domain} /\ q.prev # q.domain
    /\ q.pc \in {"marking", "remove"} => q.domain \notin D!Primaries

AloneIsAlone ==
    \A h \in D!Changing : panel[h].alone => D!Changing = {h} /\ AloneAt(panel[h])

\* While the marks are settled whoever changes them is alone, and outside of Replacing
\* they agree with the setting.
MarksAgree ==
    /\ \A d, e \in D!Primaries : d = e
    /\ dashboard # None => D!Primaries = {dashboard}

SettledAlone ==
    settled =>
        /\ \A h \in D!Changing : panel[h].alone
        /\ (\A h \in D!Changing : panel[h].pc \notin Replacing) => MarksAgree

DomainsInv == D!TypeOK /\ D!PrimaryIsActive /\ AloneIsAlone /\ SettledAlone

LEMMA DomainRowFacts ==
    ASSUME D!TypeOK, NEW d \in D!Known
    PROVE  /\ d \in Domains /\ rows[d] \in D!DomainRow
           /\ rows[d].id \in D!RowIds /\ rows[d].primary \in BOOLEAN
           /\ rows[d].status \in {"active", "legacy"}
  BY DEF D!TypeOK, D!Known, D!DomainRow

LEMMA PanelIdle ==
    /\ D!Idle.pc = "idle"
    /\ \A q \in D!Request : q.pc # "idle"
    /\ \A h \in Handlers : D!TypeOK /\ panel[h].pc # "idle" => panel[h] \in D!Request
  BY DEF D!Idle, D!Request, D!TypeOK

\* One request moves, or ends and may settle the marks.
ChangerBecomes(h, q) ==
    /\ panel' = [panel EXCEPT ![h] = q]
    /\ \/ q.pc \notin {"idle", "insertAgent", "endpoints"}
          /\ q.alone = panel[h].alone /\ settled' = settled
       \/ q = D!Idle /\ settled' \in {settled, settled \/ panel[h].alone}

\* What a step of a request that changes domains has to establish: only when it is alone.
LEMMA ChangerInv ==
    ASSUME DomainsInv, D!TypeOK', D!PrimaryIsActive', NEW h \in D!Changing, NEW q,
           ChangerBecomes(h, q),
           panel[h].alone => AloneAt(q)',
           panel[h].alone /\ settled' /\ q.pc \notin Replacing => MarksAgree'
    PROVE  DomainsInv'
  <1>1. /\ h \in Handlers
        /\ \A g \in Handlers : panel'[g] = IF g = h THEN q ELSE panel[g]
    BY DEF DomainsInv, D!TypeOK, ChangerBecomes, D!Changing
  <1>2. D!Changing' \subseteq D!Changing /\ D!Changing \ {h} \subseteq D!Changing'
    <2>1. \A g \in Handlers : g # h => (g \in D!Changing' <=> g \in D!Changing)
      BY <1>1 DEF D!Changing
    <2> QED BY <2>1 DEF D!Changing
  <1>3. h \in D!Changing' => q.alone = panel[h].alone
    BY <1>1, PanelIdle DEF ChangerBecomes, D!Changing
  <1>4. AloneIsAlone'
    <2> SUFFICES ASSUME NEW g \in D!Changing', panel'[g].alone
                 PROVE  D!Changing' = {g} /\ AloneAt(panel[g])'
      BY DEF AloneIsAlone
    <2>1. g \in Handlers
      BY DEF D!Changing
    <2>2. CASE g = h
      <3>1. panel[h].alone /\ D!Changing = {h}
        BY <1>1, <1>3, <2>2 DEF DomainsInv, AloneIsAlone
      <3>2. AloneAt(panel[g])'
        BY <1>1, <2>1, <2>2, <3>1 DEF AloneAt
      <3> QED BY <1>1, <1>2, <2>1, <2>2, <3>1, <3>2
    <2>3. CASE g # h
      BY <1>1, <1>2, <2>1, <2>3 DEF DomainsInv, AloneIsAlone
    <2> QED BY <2>2, <2>3
  <1>5. SettledAlone'
    <2> SUFFICES ASSUME settled'
                 PROVE  /\ \A g \in D!Changing' : panel'[g].alone
                        /\ (\A g \in D!Changing' : panel'[g].pc \notin Replacing) => MarksAgree'
      BY DEF SettledAlone, Replacing
    <2>1. panel[h].alone
      BY DEF DomainsInv, SettledAlone, ChangerBecomes
    <2>2. D!Changing = {h}
      BY <2>1 DEF DomainsInv, AloneIsAlone
    <2>3. \A g \in D!Changing' : g = h /\ panel'[g].alone
      BY <1>1, <1>2, <1>3, <2>1, <2>2
    <2>4. (\A g \in D!Changing' : panel'[g].pc \notin Replacing) => q.pc \notin Replacing
      <3>1. h \in D!Changing' \/ q.pc = "idle"
        BY <1>1, PanelIdle DEF ChangerBecomes, D!Changing
      <3> QED BY <1>1, <3>1 DEF Replacing
    <2> QED BY <2>1, <2>3, <2>4
  <1> QED BY <1>4, <1>5 DEF DomainsInv

\* A step that changes neither the setting nor which rows are there and which are marked,
\* nor a request that changes domains.
LEMMA MarksSame ==
    ASSUME DomainsInv, D!TypeOK', D!PrimaryIsActive', UNCHANGED <<dashboard, settled>>,
           D!Known' = D!Known, D!Primaries' = D!Primaries, D!Changing' = D!Changing,
           \A g \in D!Changing : panel'[g] = panel[g]
    PROVE  DomainsInv'
  <1>1. MarksAgree => MarksAgree'
    BY DEF MarksAgree
  <1>2. AloneIsAlone'
    BY DEF DomainsInv, AloneIsAlone, AloneAt, Replacing
  <1>3. SettledAlone'
    BY <1>1 DEF DomainsInv, SettledAlone, Replacing
  <1> QED BY <1>2, <1>3 DEF DomainsInv

\* The same with the types: a row that is written is not marked, or is active.
LEMMA ChangeInv ==
    ASSUME DomainsInv, NEW h \in D!Changing, NEW q \in D!Request \cup {D!Idle},
           ChangerBecomes(h, q),
           dashboard' \in Domains \cup {None}, left' \subseteq Domains,
           rows' \in [Domains -> D!DomainRow \cup {None}],
           UNCHANGED <<installed, minted, used, count, restarts>>,
           \A d \in Domains : \/ rows'[d] \in {rows[d], None}
                              \/ rows'[d].primary => rows'[d].status = "active",
           panel[h].alone => AloneAt(q)',
           panel[h].alone /\ settled' /\ q.pc \notin Replacing => MarksAgree'
    PROVE  DomainsInv'
  <1>1. h \in Handlers
    BY DEF D!Changing
  <1>2. settled' \in BOOLEAN
    <2>1. panel[h] \in D!Request
      BY <1>1, PanelIdle DEF DomainsInv, D!Changing
    <2>2. panel[h].alone \in BOOLEAN /\ settled \in BOOLEAN
      BY <2>1 DEF DomainsInv, D!TypeOK, D!Request
    <2> QED BY <2>2 DEF ChangerBecomes
  <1>3. panel' \in [Handlers -> D!Request \cup {D!Idle}]
    BY <1>1 DEF DomainsInv, D!TypeOK, ChangerBecomes
  <1>4. D!TypeOK'
    BY <1>2, <1>3 DEF DomainsInv, D!TypeOK
  <1>5. D!PrimaryIsActive'
    BY DEF DomainsInv, D!PrimaryIsActive, D!Primaries, D!Active, D!Known
  <1> QED BY <1>4, <1>5, ChangerInv

\* A request that changes domains, at one of its places.
LEMMA ChangerAt ==
    ASSUME DomainsInv, NEW h \in Handlers, panel[h].pc \notin {"idle", "insertAgent", "endpoints"}
    PROVE  /\ h \in D!Changing /\ panel[h] \in D!Request
           /\ panel[h].alone => D!Changing = {h} /\ AloneAt(panel[h])
           /\ settled /\ panel[h].pc \notin Replacing => MarksAgree
  <1>1. h \in D!Changing
    BY DEF D!Changing
  <1>2. panel[h].alone => D!Changing = {h} /\ AloneAt(panel[h])
    BY <1>1 DEF DomainsInv, AloneIsAlone
  <1>3. settled /\ panel[h].pc \notin Replacing => MarksAgree
    BY <1>1, <1>2 DEF DomainsInv, SettledAlone
  <1> QED BY <1>1, <1>2, <1>3, PanelIdle DEF DomainsInv

LEMMA IdleAt == AloneAt(D!Idle)' /\ D!Idle.pc \notin Replacing
  BY DEF D!Idle, AloneAt, Replacing

\* A request that is not replacing the primary domain goes on, and writes nothing.
LEMMA LookInv ==
    ASSUME DomainsInv, NEW h \in Handlers,
           panel[h].pc \notin {"idle", "insertAgent", "endpoints"} \cup Replacing,
           NEW q \in D!Request \cup {D!Idle},
           panel' = [panel EXCEPT ![h] = q],
           \/ q = D!Idle
           \/ q.pc \in {"previous", "clearing", "commit"} /\ q.alone = panel[h].alone,
           UNCHANGED <<dashboard, rows, installed, minted, used, count, restarts, settled, left>>
    PROVE  DomainsInv'
  <1>1. /\ h \in D!Changing
        /\ settled => MarksAgree
    BY ChangerAt
  <1>2. ChangerBecomes(h, q)
    BY DEF ChangerBecomes
  <1>3. AloneAt(q)'
    BY IdleAt DEF AloneAt, Replacing
  <1>4. MarksAgree => MarksAgree'
    BY DEF MarksAgree, D!Primaries, D!Known
  <1>5. /\ dashboard' \in Domains \cup {None} /\ left' \subseteq Domains
        /\ rows' \in [Domains -> D!DomainRow \cup {None}]
    BY DEF DomainsInv, D!TypeOK
  <1>6. UNCHANGED <<installed, minted, used, count, restarts>>
    OBVIOUS
  <1> QED BY <1>1, <1>2, <1>3, <1>4, <1>5, <1>6, ChangeInv

LEMMA LooksInv ==
    ASSUME DomainsInv, NEW h \in Handlers,
           D!Previous(h) \/ D!Clearing(h) \/ D!FirstDomain(h)
    PROVE  DomainsInv'
  <1>1. UNCHANGED <<dashboard, rows, installed, minted, used, count, restarts, settled, left>>
    BY DEF D!Previous, D!Clearing, D!FirstDomain, D!Only, D!rowVars
  <1>2. panel[h].pc \in {"previous", "clearing", "first"}
    BY DEF D!Previous, D!Clearing, D!FirstDomain, D!At
  <1>3. /\ panel[h] \in D!Request
        /\ panel[h].pc \notin {"idle", "insertAgent", "endpoints"} \cup Replacing
        /\ dashboard \in Domains \cup {None}
    BY <1>2, PanelIdle DEF DomainsInv, D!TypeOK, Replacing
  <1>4. CASE D!Leave(h)
    <2>1. PICK q \in D!Request \cup {D!Idle} : q = D!Idle
      OBVIOUS
    <2>2. panel' = [panel EXCEPT ![h] = q]
      BY <1>4, <2>1 DEF D!Leave
    <2> QED BY <1>1, <1>3, <2>1, <2>2, LookInv
  <1>5. CASE \E pc \in {"previous", "commit"} : D!Step(h, pc)
    <2>1. PICK pc \in {"previous", "commit"} : D!Step(h, pc)
      BY <1>5
    <2>2. PICK q : q = [panel[h] EXCEPT !.pc = pc]
      OBVIOUS
    <2>3. q \in D!Request /\ q.pc = pc /\ q.alone = panel[h].alone
      BY <1>3, <2>2 DEF D!Request
    <2>4. panel' = [panel EXCEPT ![h] = q]
      BY <2>1, <2>2 DEF D!Step
    <2> QED BY <1>1, <1>3, <2>3, <2>4, LookInv
  <1>6. CASE D!Previous(h)
    <2>1. PICK pc \in {"clearing", "commit"} :
             pc = IF dashboard # None /\ panel[h].domain = None THEN "clearing" ELSE "commit"
      OBVIOUS
    <2>2. PICK q : q = [panel[h] EXCEPT !.prev = dashboard, !.pc = pc]
      OBVIOUS
    <2>3. q \in D!Request /\ q.pc = pc /\ q.alone = panel[h].alone
      BY <1>3, <2>2 DEF D!Request
    <2>4. panel' = [panel EXCEPT ![h] = q]
      BY <1>6, <2>1, <2>2 DEF D!Previous
    <2> QED BY <1>1, <1>3, <2>3, <2>4, LookInv
  <1> QED BY <1>4, <1>5, <1>6 DEF D!Clearing, D!FirstDomain

\* The setting is written: from here to the end the marks may disagree with it.
LEMMA CommitInv ==
    ASSUME DomainsInv, NEW h \in Handlers, D!Commit(h)
    PROVE  DomainsInv'
  <1>1. /\ panel[h].pc = "commit"
        /\ dashboard' = panel[h].domain
        /\ UNCHANGED <<rows, installed, minted, used, count, restarts, settled, left>>
    BY DEF D!Commit, D!At, D!Only
  <1>2. /\ h \in D!Changing /\ panel[h] \in D!Request
        /\ panel[h].alone => D!Changing = {h}
        /\ settled => MarksAgree
    BY <1>1, ChangerAt DEF Replacing
  <1>3. /\ dashboard' \in Domains \cup {None} /\ left' \subseteq Domains
        /\ rows' \in [Domains -> D!DomainRow \cup {None}]
    BY <1>1, <1>2 DEF DomainsInv, D!TypeOK, D!Request
  <1>4. CASE panel[h].domain = None
    <2>1. PICK q \in D!Request \cup {D!Idle} : q = D!Idle
      OBVIOUS
    <2>2. ChangerBecomes(h, q)
      BY <1>1, <1>4, <2>1 DEF D!Commit, D!Leave, ChangerBecomes
    <2>3. AloneAt(q)'
      BY <2>1, IdleAt
    <2>4. MarksAgree => MarksAgree'
      BY <1>1, <1>4 DEF MarksAgree, D!Primaries, D!Known
    <2> QED BY <1>1, <1>2, <1>3, <2>2, <2>3, <2>4, ChangeInv
  <1>5. CASE panel[h].domain # None
    <2>1. PICK q : q = [panel[h] EXCEPT !.pc = "ensure"]
      OBVIOUS
    <2>2. q \in D!Request /\ q.pc = "ensure" /\ q.alone = panel[h].alone
          /\ q.domain = panel[h].domain
      BY <1>2, <2>1 DEF D!Request
    <2>3. ChangerBecomes(h, q)
      BY <1>1, <1>5, <2>1, <2>2 DEF D!Commit, D!Step, ChangerBecomes
    <2>4. AloneAt(q)'
      BY <1>1, <1>5, <2>2 DEF AloneAt, Replacing
    <2>5. q.pc \in Replacing
      BY <2>2 DEF Replacing
    <2> QED BY <1>1, <1>2, <1>3, <2>2, <2>3, <2>4, <2>5, ChangeInv
  <1> QED BY <1>4, <1>5

LEMMA EnsureInv ==
    ASSUME DomainsInv, NEW h \in Handlers, D!EnsureManagedDomain(h)
    PROVE  DomainsInv'
  <1>1. /\ panel[h].pc = "ensure" /\ D!Step(h, "clear")
        /\ UNCHANGED <<dashboard, installed, minted, used, count, restarts, settled, left>>
    BY DEF D!EnsureManagedDomain, D!At, D!Only
  <1>2. /\ h \in D!Changing /\ panel[h] \in D!Request
        /\ panel[h].alone => D!Changing = {h} /\ AloneAt(panel[h])
    BY <1>1, ChangerAt
  <1>3. PICK d, r : d = panel[h].domain /\ r = [id |-> count, status |-> "active", primary |-> FALSE]
    OBVIOUS
  <1>4. rows' = [rows EXCEPT ![d] = IF rows[d] = None THEN r ELSE rows[d]]
    BY <1>3 DEF D!EnsureManagedDomain
  <1>5. r \in D!DomainRow /\ r # None /\ r.primary = FALSE
    <2>1. count \in D!RowIds
      BY BoundsAssumption DEF DomainsInv, D!TypeOK, D!RowIds
    <2>2. r \in D!DomainRow /\ r.primary = FALSE
      BY <1>3, <2>1 DEF D!DomainRow
    <2> QED BY <2>2, NoneAssumption
  <1>6. /\ dashboard' \in Domains \cup {None} /\ left' \subseteq Domains
        /\ rows' \in [Domains -> D!DomainRow \cup {None}]
    BY <1>1, <1>4, <1>5 DEF DomainsInv, D!TypeOK
  <1>7. PICK q : q = [panel[h] EXCEPT !.pc = "clear"]
    OBVIOUS
  <1>8. /\ q \in D!Request /\ q.pc = "clear" /\ q.alone = panel[h].alone
        /\ q.domain = panel[h].domain
    BY <1>2, <1>7 DEF D!Request
  <1>9. ChangerBecomes(h, q)
    BY <1>1, <1>7, <1>8 DEF D!Step, ChangerBecomes
  <1>10. panel[h].alone => AloneAt(q)'
    <2> SUFFICES ASSUME panel[h].alone PROVE AloneAt(q)'
      OBVIOUS
    <2>1. dashboard = d /\ d # None /\ d \in Domains
      BY <1>1, <1>2, <1>3 DEF AloneAt, Replacing, D!Request
    <2>2. rows'[d] # None
      BY <1>4, <1>5, <2>1 DEF DomainsInv, D!TypeOK
    <2> QED BY <1>1, <1>3, <1>8, <2>1, <2>2 DEF AloneAt, Replacing, D!Known
  <1>11. q.pc \in Replacing
    BY <1>8 DEF Replacing
  <1>12. \A e \in Domains : rows'[e] = rows[e] \/ ~rows'[e].primary
    BY <1>4, <1>5 DEF DomainsInv, D!TypeOK
  <1> QED BY <1>1, <1>2, <1>6, <1>8, <1>9, <1>10, <1>11, <1>12, ChangeInv

LEMMA ClearInv ==
    ASSUME DomainsInv, NEW h \in Handlers, D!ClearPrimary(h)
    PROVE  DomainsInv'
  <1>1. /\ panel[h].pc = "clear" /\ D!Step(h, "set")
        /\ rows' = [d \in Domains |->
               IF d \in D!Known THEN [rows[d] EXCEPT !.primary = FALSE] ELSE None]
        /\ left' = left \cup (D!Primaries \ {panel[h].domain})
        /\ UNCHANGED <<dashboard, installed, minted, used, count, restarts, settled>>
    BY DEF D!ClearPrimary, D!At, D!Only
  <1>2. /\ h \in D!Changing /\ panel[h] \in D!Request
        /\ panel[h].alone => D!Changing = {h} /\ AloneAt(panel[h])
    BY <1>1, ChangerAt
  <1>3. ASSUME NEW d \in D!Known
        PROVE  rows'[d] \in D!DomainRow /\ ~rows'[d].primary
    BY <1>1, <1>3, DomainRowFacts DEF DomainsInv, D!DomainRow
  <1>4. \A d \in Domains \ D!Known : rows'[d] = None
    BY <1>1
  <1>5. D!Known' = D!Known /\ D!Primaries' = {}
    <2>1. \A d \in D!Known : d \in Domains /\ rows'[d] # None
      BY <1>3, NoneAssumption DEF D!Known
    <2> QED BY <1>3, <1>4, <2>1 DEF D!Known, D!Primaries
  <1>6. /\ dashboard' \in Domains \cup {None} /\ left' \subseteq Domains
        /\ rows' \in [Domains -> D!DomainRow \cup {None}]
    <2>1. rows' = [d \in Domains |-> rows'[d]]
      BY <1>1
    <2>2. D!Primaries \subseteq Domains
      BY DEF D!Primaries, D!Known
    <2> QED BY <1>1, <1>3, <1>4, <2>1, <2>2 DEF DomainsInv, D!TypeOK
  <1>7. PICK q : q = [panel[h] EXCEPT !.pc = "set"]
    OBVIOUS
  <1>8. /\ q \in D!Request /\ q.pc = "set" /\ q.alone = panel[h].alone
        /\ q.domain = panel[h].domain
    BY <1>2, <1>7 DEF D!Request
  <1>9. ChangerBecomes(h, q)
    BY <1>1, <1>7, <1>8 DEF D!Step, ChangerBecomes
  <1>10. panel[h].alone => AloneAt(q)'
    BY <1>1, <1>2, <1>5, <1>8 DEF AloneAt, Replacing
  <1>11. q.pc \in Replacing
    BY <1>8 DEF Replacing
  <1>12. \A e \in Domains : rows'[e] = None \/ ~rows'[e].primary
    BY <1>3, <1>4
  <1> QED BY <1>1, <1>2, <1>6, <1>8, <1>9, <1>10, <1>11, <1>12, ChangeInv

\* Finish: the request ends, and if it ran alone the marks are settled.
LEMMA FinishBecomes ==
    ASSUME NEW h \in Handlers, D!Finish(h)
    PROVE  ChangerBecomes(h, D!Idle)
  <1>1. PICK q : q = D!Idle
    OBVIOUS
  <1>2. panel' = [panel EXCEPT ![h] = q] /\ settled' = (settled \/ panel[h].alone)
    BY <1>1 DEF D!Finish, D!Leave
  <1> QED BY <1>1, <1>2 DEF ChangerBecomes

LEMMA OneMark ==
    ASSUME D!Primaries' = {dashboard}
    PROVE  UNCHANGED dashboard => MarksAgree'
  BY DEF MarksAgree

LEMMA SetPrimaryInv ==
    ASSUME DomainsInv, NEW h \in Handlers, D!SetPrimary(h)
    PROVE  DomainsInv'
  <1>1. /\ panel[h].pc = "set"
        /\ UNCHANGED <<dashboard, installed, minted, used, count, restarts>>
    BY DEF D!SetPrimary, D!At, D!Only
  <1>2. /\ h \in D!Changing /\ panel[h] \in D!Request
        /\ panel[h].alone => AloneAt(panel[h])
    BY <1>1, ChangerAt
  <1>3. PICK d : d = panel[h].domain
    OBVIOUS
  <1>4. PICK r : r = [rows[d] EXCEPT !.status = "active", !.primary = TRUE]
    OBVIOUS
  <1>5. /\ rows' = [rows EXCEPT ![d] = IF rows[d] = None THEN None ELSE r]
        /\ left' = left \ {d}
    BY <1>3, <1>4 DEF D!SetPrimary
  <1>6. d \in D!Known => r \in D!DomainRow /\ r # None /\ r.primary /\ r.status = "active"
    <2>1. d \in D!Known => r \in D!DomainRow /\ r.primary /\ r.status = "active"
      BY <1>4, DomainRowFacts DEF DomainsInv, D!DomainRow
    <2> QED BY <2>1, NoneAssumption
  <1>7. /\ dashboard' \in Domains \cup {None} /\ left' \subseteq Domains
        /\ rows' \in [Domains -> D!DomainRow \cup {None}]
    BY <1>1, <1>5, <1>6 DEF DomainsInv, D!TypeOK, D!Known
  <1>8. \A e \in Domains : \/ rows'[e] \in {rows[e], None}
                           \/ rows'[e].primary => rows'[e].status = "active"
    BY <1>5, <1>6 DEF DomainsInv, D!TypeOK, D!Known
  <1>9. ASSUME panel[h].alone
        PROVE  /\ dashboard = d /\ d # None /\ D!Known' = D!Known /\ d \in D!Known
               /\ D!Primaries' = {d}
    <2>1. dashboard = d /\ d # None /\ d \in D!Known /\ D!Primaries = {}
      BY <1>1, <1>2, <1>3, <1>9 DEF AloneAt, Replacing
    <2>2. \A e \in Domains : rows'[e] = IF e = d THEN r ELSE rows[e]
      BY <1>5, <2>1 DEF DomainsInv, D!TypeOK, D!Known
    <2>3. D!Known' = D!Known
      BY <1>6, <2>1, <2>2 DEF D!Known
    <2> QED BY <1>6, <2>1, <2>2, <2>3 DEF D!Primaries, D!Known
  <1>10. panel[h].alone => MarksAgree'
    BY <1>1, <1>9, OneMark
  <1>11. CASE D!Replaces(h)
    <2>1. PICK q : q = [panel[h] EXCEPT !.pc = "replaced"]
      OBVIOUS
    <2>2. /\ q \in D!Request /\ q.pc = "replaced" /\ q.alone = panel[h].alone
          /\ q.domain = d /\ q.prev = panel[h].prev
      BY <1>2, <1>3, <2>1 DEF D!Request
    <2>3. ChangerBecomes(h, q)
      BY <1>1, <1>11, <2>1, <2>2 DEF D!SetPrimary, D!Step, ChangerBecomes
    <2>4. panel[h].alone => AloneAt(q)'
      BY <1>1, <1>3, <1>9, <1>11, <2>2 DEF AloneAt, Replacing, D!Replaces
    <2> QED BY <1>1, <1>2, <1>7, <1>8, <1>10, <2>2, <2>3, <2>4, ChangeInv
  <1>12. CASE ~D!Replaces(h)
    <2>1. PICK q \in D!Request \cup {D!Idle} : q = D!Idle
      OBVIOUS
    <2>2. ChangerBecomes(h, q)
      BY <1>12, <2>1, FinishBecomes DEF D!SetPrimary
    <2> QED BY <1>1, <1>2, <1>7, <1>8, <1>10, <2>1, <2>2, IdleAt, ChangeInv
  <1> QED BY <1>11, <1>12

LEMMA ReplacedInv ==
    ASSUME DomainsInv, NEW h \in Handlers, D!Replaced(h)
    PROVE  DomainsInv'
  <1>1. /\ panel[h].pc = "replaced"
        /\ UNCHANGED <<dashboard, rows, left, installed, minted, used, count, restarts>>
    BY DEF D!Replaced, D!At, D!Only, D!rowVars
  <1>2. /\ h \in D!Changing /\ panel[h] \in D!Request
        /\ panel[h].alone => AloneAt(panel[h])
    BY <1>1, ChangerAt
  <1>3. /\ dashboard' \in Domains \cup {None} /\ left' \subseteq Domains
        /\ rows' \in [Domains -> D!DomainRow \cup {None}]
    BY <1>1 DEF DomainsInv, D!TypeOK
  <1>4. D!Known' = D!Known /\ D!Primaries' = D!Primaries
    BY <1>1 DEF D!Known, D!Primaries
  <1>5. panel[h].alone => MarksAgree'
    BY <1>1, <1>2, <1>4, OneMark DEF AloneAt, Replacing
  <1>6. CASE D!Step(h, "legacy") /\ UNCHANGED settled
    <2>1. PICK q : q = [panel[h] EXCEPT !.pc = "legacy"]
      OBVIOUS
    <2>2. /\ q \in D!Request /\ q.pc = "legacy" /\ q.alone = panel[h].alone
          /\ q.domain = panel[h].domain /\ q.prev = panel[h].prev
      BY <1>2, <2>1 DEF D!Request
    <2>3. ChangerBecomes(h, q)
      BY <1>6, <2>1, <2>2 DEF D!Step, ChangerBecomes
    <2>4. panel[h].alone => AloneAt(q)'
      BY <1>1, <1>2, <1>4, <2>2 DEF AloneAt, Replacing
    <2> QED BY <1>1, <1>2, <1>3, <1>5, <2>2, <2>3, <2>4, ChangeInv
  <1>7. CASE D!Finish(h)
    <2>1. PICK q \in D!Request \cup {D!Idle} : q = D!Idle
      OBVIOUS
    <2>2. ChangerBecomes(h, q)
      BY <1>7, <2>1, FinishBecomes
    <2> QED BY <1>1, <1>2, <1>3, <1>5, <2>1, <2>2, IdleAt, ChangeInv
  <1> QED BY <1>6, <1>7 DEF D!Replaced

\* A row that becomes legacy is no longer marked.
LEMMA LegacyRow ==
    ASSUME DomainsInv, NEW d \in D!Known
    PROVE  /\ D!Legacy(rows[d]) \in D!DomainRow /\ D!Legacy(rows[d]) # None
           /\ ~D!Legacy(rows[d]).primary
  <1>1. D!Legacy(rows[d]) \in D!DomainRow /\ ~D!Legacy(rows[d]).primary
    BY DomainRowFacts DEF DomainsInv, D!DomainRow, D!Legacy
  <1> QED BY <1>1, NoneAssumption

\* One row at most changes, and only to one without the mark, or goes.
LEMMA LoseMark ==
    ASSUME DomainsInv, NEW d, NEW r,
           rows' = [rows EXCEPT ![d] = r],
           d \in Domains => r \in {rows[d], None} \/ (r \in D!DomainRow /\ r # None /\ ~r.primary)
    PROVE  /\ rows' \in [Domains -> D!DomainRow \cup {None}]
           /\ \A e \in Domains : \/ rows'[e] \in {rows[e], None}
                                 \/ rows'[e].primary => rows'[e].status = "active"
           /\ D!Primaries' \subseteq D!Primaries /\ D!Primaries \ {d} \subseteq D!Primaries'
  <1>1. rows \in [Domains -> D!DomainRow \cup {None}]
    BY DEF DomainsInv, D!TypeOK
  <1>2. \A e \in Domains : rows'[e] = IF e = d THEN r ELSE rows[e]
    BY <1>1
  <1>3. rows' \in [Domains -> D!DomainRow \cup {None}]
    BY <1>1
  <1>4. D!Primaries' \subseteq D!Primaries /\ D!Primaries \ {d} \subseteq D!Primaries'
    BY <1>2 DEF D!Primaries, D!Known
  <1> QED BY <1>2, <1>3, <1>4

LEMMA PreviousLegacyInv ==
    ASSUME DomainsInv, NEW h \in Handlers, D!PreviousLegacy(h)
    PROVE  DomainsInv'
  <1>1. /\ panel[h].pc = "legacy" /\ D!Finish(h)
        /\ UNCHANGED <<dashboard, left, installed, minted, used, count, restarts>>
    BY DEF D!PreviousLegacy, D!At, D!Only
  <1>2. /\ h \in D!Changing /\ panel[h] \in D!Request
        /\ panel[h].alone => AloneAt(panel[h])
    BY <1>1, ChangerAt
  <1>3. PICK d : d = panel[h].prev
    OBVIOUS
  <1>4. PICK r : r = IF rows[d] = None THEN None ELSE D!Legacy(rows[d])
    OBVIOUS
  <1>5. rows' = [rows EXCEPT ![d] = r]
    BY <1>3, <1>4 DEF D!PreviousLegacy
  <1>6. d \in Domains => r \in {rows[d], None} \/ (r \in D!DomainRow /\ r # None /\ ~r.primary)
    BY <1>4, LegacyRow DEF D!Known
  <1>7. /\ rows' \in [Domains -> D!DomainRow \cup {None}]
        /\ \A e \in Domains : \/ rows'[e] \in {rows[e], None}
                              \/ rows'[e].primary => rows'[e].status = "active"
        /\ D!Primaries' \subseteq D!Primaries /\ D!Primaries \ {d} \subseteq D!Primaries'
    BY <1>5, <1>6, LoseMark
  <1>8. panel[h].alone => MarksAgree'
    <2> SUFFICES ASSUME panel[h].alone PROVE MarksAgree'
      OBVIOUS
    <2>1. D!Primaries = {dashboard} /\ dashboard # d
      BY <1>1, <1>2, <1>3 DEF AloneAt, Replacing
    <2>2. D!Primaries' = {dashboard}
      BY <1>7, <2>1
    <2> QED BY <1>1, <2>2, OneMark
  <1>9. dashboard' \in Domains \cup {None} /\ left' \subseteq Domains
    BY <1>1 DEF DomainsInv, D!TypeOK
  <1>10. PICK q \in D!Request \cup {D!Idle} : q = D!Idle
    OBVIOUS
  <1>11. ChangerBecomes(h, q)
    BY <1>1, <1>10, FinishBecomes
  <1> QED BY <1>1, <1>2, <1>7, <1>8, <1>9, <1>10, <1>11, IdleAt, ChangeInv

\* A request that is not replacing the primary domain writes a row without a mark, or
\* deletes one, that is not marked when it is alone.
LEMMA WriteInv ==
    ASSUME DomainsInv, NEW h \in Handlers, NEW d, NEW r, NEW q \in D!Request \cup {D!Idle},
           panel[h].pc \notin {"idle", "insertAgent", "endpoints"} \cup Replacing,
           panel' = [panel EXCEPT ![h] = q],
           q = D!Idle \/ (q.pc = "first" /\ q.alone = panel[h].alone),
           rows' = [rows EXCEPT ![d] = r],
           d \in Domains => r \in {rows[d], None} \/ (r \in D!DomainRow /\ r # None /\ ~r.primary),
           left' \subseteq Domains,
           UNCHANGED <<dashboard, settled, installed, minted, used, count, restarts>>,
           panel[h].alone => d \notin D!Primaries
    PROVE  DomainsInv'
  <1>1. /\ h \in D!Changing
        /\ settled => MarksAgree
    BY ChangerAt
  <1>2. /\ rows' \in [Domains -> D!DomainRow \cup {None}]
        /\ \A e \in Domains : \/ rows'[e] \in {rows[e], None}
                              \/ rows'[e].primary => rows'[e].status = "active"
        /\ D!Primaries' \subseteq D!Primaries /\ D!Primaries \ {d} \subseteq D!Primaries'
    BY LoseMark
  <1>3. panel[h].alone => D!Primaries' = D!Primaries
    BY <1>2
  <1>4. panel[h].alone /\ settled' => MarksAgree'
    BY <1>1, <1>3 DEF MarksAgree
  <1>5. AloneAt(q)'
    BY IdleAt DEF AloneAt, Replacing
  <1>6. ChangerBecomes(h, q)
    BY DEF ChangerBecomes
  <1>7. dashboard' \in Domains \cup {None}
    BY DEF DomainsInv, D!TypeOK
  <1>8. UNCHANGED <<installed, minted, used, count, restarts>>
    OBVIOUS
  <1> QED BY <1>1, <1>2, <1>4, <1>5, <1>6, <1>7, <1>8, ChangeInv

LEMMA AddDomainInv ==
    ASSUME DomainsInv, NEW h \in Handlers, D!AddManagedDomain(h)
    PROVE  DomainsInv'
  <1>1. /\ panel[h].pc = "insertDomain"
        /\ UNCHANGED <<dashboard, settled, left, installed, minted, used, count, restarts>>
    BY DEF D!AddManagedDomain, D!At, D!Only
  <1>2. /\ panel[h] \in D!Request
        /\ panel[h].pc \notin {"idle", "insertAgent", "endpoints"} \cup Replacing
    BY <1>1, ChangerAt DEF Replacing
  <1>3. left' \subseteq Domains /\ rows \in [Domains -> D!DomainRow \cup {None}]
    BY <1>1 DEF DomainsInv, D!TypeOK
  <1>4. PICK d : d = panel[h].domain
    OBVIOUS
  <1>5. UNCHANGED <<dashboard, settled, installed, minted, used, count, restarts>>
    BY <1>1
  <1>6. CASE d \in D!Known
    <2>1. PICK q \in D!Request \cup {D!Idle} : q = D!Idle
      OBVIOUS
    <2>2. panel' = [panel EXCEPT ![h] = q]
      BY <1>4, <1>6, <2>1 DEF D!AddManagedDomain, D!Leave
    <2>3. PICK e : e = None
      OBVIOUS
    <2>4. rows' = [rows EXCEPT ![e] = None]
      BY <1>3, <1>4, <1>6, <2>3, NoneAssumption DEF D!AddManagedDomain
    <2>5. e \notin Domains /\ e \notin D!Primaries
      BY <2>3, NoneAssumption DEF D!Primaries, D!Known
    <2> QED BY <1>2, <1>3, <1>5, <2>1, <2>2, <2>4, <2>5, WriteInv
  <1>7. CASE d \notin D!Known
    <2>1. PICK q : q = [panel[h] EXCEPT !.pc = "first"]
      OBVIOUS
    <2>2. q \in D!Request /\ q.pc = "first" /\ q.alone = panel[h].alone
      BY <1>2, <2>1 DEF D!Request
    <2>3. panel' = [panel EXCEPT ![h] = q]
      BY <1>4, <1>7, <2>1 DEF D!AddManagedDomain, D!Step
    <2>4. PICK r : r = [id |-> count, status |-> "active", primary |-> FALSE]
      OBVIOUS
    <2>5. rows' = [rows EXCEPT ![d] = r]
      BY <1>4, <1>7, <2>4 DEF D!AddManagedDomain
    <2>6. count \in D!RowIds
      BY BoundsAssumption DEF DomainsInv, D!TypeOK, D!RowIds
    <2>7. r \in D!DomainRow /\ ~r.primary
      BY <2>4, <2>6 DEF D!DomainRow
    <2>8. r # None
      BY <2>7, NoneAssumption
    <2>9. d \notin D!Primaries
      BY <1>7 DEF D!Primaries
    <2> QED BY <1>2, <1>3, <1>5, <2>2, <2>3, <2>5, <2>7, <2>8, <2>9, WriteInv
  <1> QED BY <1>6, <1>7

LEMMA MarkLegacyInv ==
    ASSUME DomainsInv, NEW h \in Handlers,
           D!MarkManagedDomainLegacy(h) \/ D!DeleteManagedDomain(h)
    PROVE  DomainsInv'
  <1>1. /\ panel[h].pc \in {"marking", "remove"} /\ D!Leave(h)
        /\ UNCHANGED <<dashboard, settled, installed, minted, used, count, restarts>>
    BY DEF D!MarkManagedDomainLegacy, D!DeleteManagedDomain, D!At, D!Only
  <1>2. /\ panel[h].pc \notin {"idle", "insertAgent", "endpoints"} \cup Replacing
        /\ panel[h].alone => AloneAt(panel[h])
    BY <1>1, ChangerAt DEF Replacing
  <1>3. left' \subseteq Domains
    BY DEF DomainsInv, D!TypeOK, D!MarkManagedDomainLegacy, D!DeleteManagedDomain
  <1>4. PICK d : d = panel[h].domain
    OBVIOUS
  <1>5. PICK q \in D!Request \cup {D!Idle} : q = D!Idle
    OBVIOUS
  <1>6. panel' = [panel EXCEPT ![h] = q]
    BY <1>1, <1>5 DEF D!Leave
  <1>7. panel[h].alone => d \notin D!Primaries
    BY <1>1, <1>2, <1>4 DEF AloneAt
  <1>8. CASE D!MarkManagedDomainLegacy(h)
    <2>1. PICK r : r = IF d \in D!Known /\ rows[d].id = panel[h].id THEN D!Legacy(rows[d])
                                                                   ELSE rows[d]
      OBVIOUS
    <2>2. rows' = [rows EXCEPT ![d] = r]
      BY <1>4, <1>8, <2>1 DEF D!MarkManagedDomainLegacy
    <2>3. d \in Domains => r \in {rows[d], None} \/ (r \in D!DomainRow /\ r # None /\ ~r.primary)
      BY <2>1, LegacyRow
    <2> QED BY <1>1, <1>2, <1>3, <1>5, <1>6, <1>7, <2>2, <2>3, WriteInv
  <1>9. CASE D!DeleteManagedDomain(h)
    <2>1. PICK r : r = IF D!IdOf(d) = panel[h].id THEN None ELSE rows[d]
      OBVIOUS
    <2>2. rows' = [rows EXCEPT ![d] = r]
      BY <1>4, <1>9, <2>1 DEF D!DeleteManagedDomain
    <2>3. r \in {rows[d], None}
      BY <2>1
    <2> QED BY <1>1, <1>2, <1>3, <1>5, <1>6, <1>7, <2>2, <2>3, WriteInv
  <1> QED BY <1>8, <1>9

\* What locks a domain is looked at first: no row that is marked is deleted by a request
\* that is alone.
LEMMA CheckLockInv ==
    ASSUME DomainsInv, NEW h \in Handlers, D!CheckLock(h)
    PROVE  DomainsInv'
  <1>1. /\ panel[h].pc = "deleting"
        /\ UNCHANGED <<dashboard, rows, left, settled, installed, minted, used, count, restarts>>
    BY DEF D!CheckLock, D!At, D!Only, D!rowVars
  <1>2. /\ h \in D!Changing /\ panel[h] \in D!Request
        /\ panel[h].pc \notin {"idle", "insertAgent", "endpoints"} \cup Replacing
        /\ settled => MarksAgree
    BY <1>1, ChangerAt DEF Replacing
  <1>3. /\ dashboard' \in Domains \cup {None} /\ left' \subseteq Domains
        /\ rows' \in [Domains -> D!DomainRow \cup {None}]
    BY <1>1 DEF DomainsInv, D!TypeOK
  <1>4. CASE D!Leave(h)
    <2>1. PICK q \in D!Request \cup {D!Idle} : q = D!Idle
      OBVIOUS
    <2>2. panel' = [panel EXCEPT ![h] = q]
      BY <1>4, <2>1 DEF D!Leave
    <2> QED BY <1>1, <1>2, <2>1, <2>2, LookInv
  <1>5. CASE D!Step(h, "remove") /\ ~D!DeleteLocked(panel[h].domain)
    <2>1. PICK q : q = [panel[h] EXCEPT !.pc = "remove"]
      OBVIOUS
    <2>2. /\ q \in D!Request /\ q.pc = "remove" /\ q.alone = panel[h].alone
          /\ q.domain = panel[h].domain
      BY <1>2, <2>1 DEF D!Request
    <2>3. ChangerBecomes(h, q)
      BY <1>1, <1>5, <2>1, <2>2 DEF D!Step, ChangerBecomes
    <2>4. D!Known' = D!Known /\ D!Primaries' = D!Primaries
      BY <1>1 DEF D!Known, D!Primaries
    <2>5. q.domain \notin D!Primaries
      BY <1>5, <2>2 DEF D!DeleteLocked, D!Primaries
    <2>6. AloneAt(q)'
      BY <2>2, <2>4, <2>5 DEF AloneAt, Replacing
    <2>7. settled' => MarksAgree'
      BY <1>1, <1>2, <2>4 DEF MarksAgree
    <2> QED BY <1>1, <1>2, <1>3, <2>2, <2>3, <2>6, <2>7, ChangeInv
  <1> QED BY <1>4, <1>5 DEF D!CheckLock

\* A request begins. Whoever changes domains is no longer alone when another begins to.
LEMMA BeginTyped ==
    ASSUME D!TypeOK, NEW h \in Handlers, NEW pc, NEW d \in Domains \cup {None},
           NEW id \in D!RowIds \cup {None}, NEW a \in Clients \cup {None},
           pc \in {"previous", "insertDomain", "marking", "deleting", "insertAgent", "endpoints"},
           D!Begin(h, pc, d, id, a)
    PROVE  /\ panel' \in [Handlers -> D!Request \cup {D!Idle}]
           /\ count' \in 0..MaxRequests /\ settled' \in BOOLEAN
           /\ panel'[h].pc = pc /\ panel'[h].domain = d
  <1>1. PICK q : q = [pc |-> pc, domain |-> d, prev |-> None, id |-> id, agent |-> a,
                      alone |-> D!Changing = {}]
    OBVIOUS
  <1>2. q \in D!Request
    BY <1>1 DEF D!Request
  <1>3. \A g \in D!Changing : [panel[g] EXCEPT !.alone = FALSE] \in D!Request
    BY ZenonT(40), PanelIdle DEF D!TypeOK, D!Request, D!Changing
  <1>4. \A g \in Handlers :
           panel'[g] \in {IF g = h THEN q ELSE panel[g]} \cup
                         {[panel[g] EXCEPT !.alone = FALSE] : c \in {g} \cap (D!Changing \ {h})}
    BY <1>1 DEF D!Begin
  <1>5. \A g \in Handlers : panel'[g] \in D!Request \cup {D!Idle}
    BY <1>2, <1>3, <1>4 DEF D!TypeOK
  <1>6. panel' = [g \in Handlers |-> panel'[g]]
    BY DEF D!Begin
  <1>7. panel' \in [Handlers -> D!Request \cup {D!Idle}]
    BY <1>5, <1>6
  <1>8. count' \in 0..MaxRequests
    BY BoundsAssumption DEF D!Begin, D!TypeOK
  <1>9. settled' \in BOOLEAN
    BY DEF D!Begin, D!TypeOK
  <1>10. panel'[h].pc = pc /\ panel'[h].domain = d
    BY DEF D!Begin
  <1> QED BY <1>7, <1>8, <1>9, <1>10

LEMMA ChangerBegins ==
    ASSUME DomainsInv, NEW h \in Handlers, NEW pc, NEW d \in Domains \cup {None},
           NEW id \in D!RowIds \cup {None},
           pc \in {"previous", "insertDomain", "marking", "deleting"},
           D!Begin(h, pc, d, id, None),
           pc = "marking" => d \notin D!Primaries,
           UNCHANGED <<dashboard, rows, installed, minted, used, restarts, left>>
    PROVE  DomainsInv'
  <1>1. /\ panel' \in [Handlers -> D!Request \cup {D!Idle}]
        /\ count' \in 0..MaxRequests /\ settled' \in BOOLEAN
        /\ panel'[h].pc = pc /\ panel'[h].domain = d
    BY BeginTyped DEF DomainsInv
  <1>2. D!TypeOK' /\ D!PrimaryIsActive'
    BY <1>1 DEF DomainsInv, D!TypeOK, D!PrimaryIsActive, D!Primaries, D!Active, D!Known
  <1>3. D!Known' = D!Known /\ D!Primaries' = D!Primaries
    BY DEF D!Known, D!Primaries
  <1>4. h \notin D!Changing /\ settled' = (settled /\ D!Changing = {})
    BY DEF D!Begin, D!At, D!Changing
  <1>5. ASSUME NEW g \in D!Changing', panel'[g].alone
        PROVE  g = h /\ D!Changing = {}
    <2>1. g \in Handlers
      BY DEF D!Changing
    <2>2. CASE g = h
      BY <2>1, <2>2, <1>5 DEF D!Begin
    <2>3. CASE g # h
      <3>1. g \in D!Changing
        BY <2>1, <2>3, <1>4 DEF D!Begin, D!Changing
      <3>2. panel'[g] = [panel[g] EXCEPT !.alone = FALSE]
        BY <2>1, <2>3, <3>1 DEF D!Begin
      <3>3. panel[g] \in D!Request
        BY <2>1, <3>1, PanelIdle DEF DomainsInv, D!Changing
      <3> QED BY <3>2, <3>3, <1>5 DEF D!Request
    <2> QED BY <2>2, <2>3
  <1>6. D!Changing = {} => D!Changing' = {h} /\ panel'[h].alone
    <2> SUFFICES ASSUME D!Changing = {} PROVE D!Changing' = {h} /\ panel'[h].alone
      OBVIOUS
    <2>1. panel'[h].alone
      BY DEF D!Begin
    <2>2. \A g \in Handlers : g # h => panel'[g] = panel[g]
      BY DEF D!Begin
    <2>3. \A g \in Handlers : panel[g].pc \in {"idle", "insertAgent", "endpoints"}
      BY DEF D!Changing
    <2> QED BY <1>1, <2>1, <2>2, <2>3 DEF D!Changing
  <1>7. AloneAt(panel[h])'
    BY <1>1, <1>3 DEF AloneAt, Replacing
  <1>8. AloneIsAlone'
    BY <1>5, <1>6, <1>7 DEF AloneIsAlone
  <1>9. SettledAlone'
    <2> SUFFICES ASSUME settled, D!Changing = {} PROVE SettledAlone'
      BY <1>4 DEF SettledAlone
    <2>1. MarksAgree'
      BY <1>3 DEF DomainsInv, SettledAlone, MarksAgree
    <2> QED BY <1>6, <2>1 DEF SettledAlone
  <1> QED BY <1>2, <1>8, <1>9 DEF DomainsInv

LEMMA IdOfTyped ==
    ASSUME D!TypeOK, NEW d PROVE D!IdOf(d) \in D!RowIds \cup {None}
  BY DomainRowFacts DEF D!IdOf

LEMMA EffectiveTyped == D!TypeOK => D!Effective \subseteq Domains \cup {None}
  BY DEF D!TypeOK, D!Effective, D!Primaries, D!Active, D!Known

LEMMA BeginningsInv ==
    ASSUME DomainsInv, NEW h \in Handlers,
           D!BeginSave(h) \/ D!BeginAdd(h) \/ D!BeginMark(h) \/ D!BeginDelete(h)
    PROVE  DomainsInv'
  <1>1. UNCHANGED <<dashboard, rows, installed, minted, used, restarts, left>>
    BY DEF D!BeginSave, D!BeginAdd, D!BeginMark, D!BeginDelete, D!rowVars
  <1>2. CASE D!BeginSave(h)
    <2>1. PICK d \in Domains \cup {None} : D!Begin(h, "previous", d, None, None)
      BY <1>2 DEF D!BeginSave
    <2> QED BY <1>1, <2>1, ChangerBegins
  <1>3. CASE D!BeginAdd(h)
    <2>1. PICK d \in Domains \ D!Known : D!Begin(h, "insertDomain", d, None, None)
      BY <1>3 DEF D!BeginAdd
    <2> QED BY <1>1, <2>1, ChangerBegins
  <1>4. CASE D!BeginMark(h)
    <2>1. PICK d \in D!Known \ D!Primaries : D!Begin(h, "marking", d, rows[d].id, None)
      BY <1>4 DEF D!BeginMark
    <2>2. PICK id : id = rows[d].id
      OBVIOUS
    <2>3. d \in Domains /\ id \in D!RowIds
      BY <2>1, <2>2, DomainRowFacts DEF DomainsInv
    <2>4. D!Begin(h, "marking", d, id, None)
      BY <2>1, <2>2
    <2> QED BY <1>1, <2>1, <2>3, <2>4, ChangerBegins
  <1>5. CASE D!BeginDelete(h)
    <2>1. PICK d \in D!Known : D!Begin(h, "deleting", d, rows[d].id, None)
      BY <1>5 DEF D!BeginDelete
    <2>2. PICK id : id = rows[d].id
      OBVIOUS
    <2>3. d \in Domains /\ id \in D!RowIds
      BY <2>1, <2>2, DomainRowFacts DEF DomainsInv
    <2>4. D!Begin(h, "deleting", d, id, None)
      BY <2>1, <2>2
    <2> QED BY <1>1, <2>3, <2>4, ChangerBegins
  <1> QED BY <1>2, <1>3, <1>4, <1>5

\* A step that leaves the setting and the rows alone, and the requests that change domains.
LEMMA RowsSame ==
    ASSUME DomainsInv, D!TypeOK', UNCHANGED <<dashboard, rows, settled>>,
           \A g \in Handlers : \/ panel'[g] = panel[g]
                               \/ panel[g].pc \in {"idle", "insertAgent", "endpoints"}
                                  /\ panel'[g].pc \in {"idle", "insertAgent", "endpoints"}
    PROVE  DomainsInv'
  <1>1. D!Known' = D!Known /\ D!Primaries' = D!Primaries /\ D!PrimaryIsActive'
    BY DEF DomainsInv, D!PrimaryIsActive, D!Known, D!Primaries, D!Active
  <1>2. D!Changing' = D!Changing
    BY DEF D!Changing
  <1>3. \A g \in D!Changing : panel'[g] = panel[g]
    BY DEF D!Changing
  <1>4. UNCHANGED <<dashboard, settled>>
    OBVIOUS
  <1> QED BY <1>1, <1>2, <1>3, <1>4, MarksSame

LEMMA InstallInv ==
    ASSUME DomainsInv, NEW h \in Handlers, D!Install(h)
    PROVE  DomainsInv'
  <1>1. UNCHANGED <<dashboard, rows, used, restarts, left>> /\ D!TypeOK
    BY DEF D!Install, D!BeginInstall, D!InsertAgent, D!UpdateAgentInstallEndpoints, D!rowVars,
           DomainsInv
  <1>2. CASE D!BeginInstall(h)
    <2>1. PICK d \in D!Effective, a \in Clients :
             \/ D!Begin(h, "endpoints", d, D!IdOf(d), a) /\ UNCHANGED minted
             \/ D!Begin(h, "insertAgent", d, D!IdOf(d), a) /\ minted' = minted \cup {a}
      BY <1>2 DEF D!BeginInstall
    <2>2. PICK id, pc : /\ id = D!IdOf(d) /\ pc \in {"endpoints", "insertAgent"}
                        /\ D!Begin(h, pc, d, id, a)
      BY <2>1
    <2>3. d \in Domains \cup {None} /\ id \in D!RowIds \cup {None}
      BY <1>1, <2>2, EffectiveTyped, IdOfTyped
    <2>4. /\ panel' \in [Handlers -> D!Request \cup {D!Idle}]
          /\ count' \in 0..MaxRequests /\ settled' \in BOOLEAN
          /\ panel'[h].pc = pc
      BY <1>1, <2>2, <2>3, BeginTyped
    <2>5. minted' \subseteq Clients /\ UNCHANGED installed
      BY <1>1, <1>2, <2>1 DEF D!TypeOK, D!BeginInstall
    <2>6. D!TypeOK'
      BY <1>1, <2>4, <2>5 DEF D!TypeOK
    <2>7. panel[h].pc = "idle" /\ settled' = settled
      BY <1>1, <2>2 DEF D!Begin, D!At, D!TypeOK
    <2>8. \A g \in Handlers : g # h => panel'[g] = panel[g]
      BY <2>2 DEF D!Begin
    <2> QED BY <1>1, <2>2, <2>4, <2>6, <2>7, <2>8, RowsSame
  <1>3. CASE D!InsertAgent(h) \/ D!UpdateAgentInstallEndpoints(h)
    <2>1. /\ panel[h].pc \in {"insertAgent", "endpoints"} /\ D!Leave(h)
          /\ UNCHANGED <<minted, count, settled>>
      BY <1>3 DEF D!InsertAgent, D!UpdateAgentInstallEndpoints, D!At
    <2>2. panel[h] \in D!Request
      BY <1>1, <2>1, PanelIdle
    <2>3. PICK r : r = D!Endpoints(h)
      OBVIOUS
    <2>4. r \in D!AgentRow
      BY <2>2, <2>3 DEF D!Endpoints, D!AgentRow, D!Request
    <2>5. PICK a : a = panel[h].agent
      OBVIOUS
    <2>6. \/ installed' = [installed EXCEPT ![a] = r]
          \/ installed' = [installed EXCEPT ![a] = IF installed[a] = None THEN None ELSE r]
      BY <1>3, <2>3, <2>5 DEF D!InsertAgent, D!UpdateAgentInstallEndpoints
    <2>7. installed' \in [Clients -> D!AgentRow \cup {None}]
      BY <1>1, <2>4, <2>6 DEF D!TypeOK
    <2>8. PICK q : q = D!Idle
      OBVIOUS
    <2>9. panel' = [panel EXCEPT ![h] = q] /\ q.pc = "idle"
      BY <2>1, <2>8, PanelIdle DEF D!Leave
    <2>10. D!TypeOK'
      BY <1>1, <2>1, <2>7, <2>8, <2>9 DEF D!TypeOK
    <2>11. \A g \in Handlers : panel'[g] = IF g = h THEN q ELSE panel[g]
      BY <1>1, <2>9 DEF D!TypeOK
    <2> QED BY <1>1, <2>1, <2>9, <2>10, <2>11, RowsSame
  <1> QED BY <1>2, <1>3 DEF D!Install

\* Between requests: resources and agents come and go, and agents call.
LEMMA AroundInv ==
    ASSUME DomainsInv, D!UseDomain \/ D!TouchAgent \/ D!DeleteAgent
    PROVE  DomainsInv'
  <1>1. UNCHANGED <<dashboard, rows, minted, panel, restarts, settled, left>> /\ D!TypeOK
    BY DEF D!UseDomain, D!TouchAgent, D!DeleteAgent, D!rowVars, DomainsInv
  <1>2. count' \in 0..MaxRequests
    BY <1>1, BoundsAssumption DEF D!UseDomain, D!TouchAgent, D!DeleteAgent, D!TypeOK
  <1>3. used' \subseteq Domains
    BY <1>1 DEF D!UseDomain, D!TouchAgent, D!DeleteAgent, D!TypeOK
  <1>4. installed' \in [Clients -> D!AgentRow \cup {None}]
    <2>1. CASE D!UseDomain
      BY <1>1, <2>1 DEF D!UseDomain, D!TypeOK
    <2>2. CASE D!DeleteAgent
      BY <1>1, <2>2 DEF D!DeleteAgent, D!TypeOK
    <2>3. CASE D!TouchAgent
      <3>1. PICK a \in D!Installed, e \in D!Effective, confirm \in BOOLEAN :
            \E d \in {installed[a].url, installed[a].hint} :
               installed' = [installed EXCEPT ![a] =
                   [url |-> d,
                    domain |-> IF D!IdOf(d) = None THEN installed[a].domain ELSE D!IdOf(d),
                    confirmed |-> installed[a].confirmed \/ confirm, hint |-> e]]
        BY <2>3 DEF D!TouchAgent
      <3>2. PICK d \in {installed[a].url, installed[a].hint} :
               installed' = [installed EXCEPT ![a] =
                   [url |-> d,
                    domain |-> IF D!IdOf(d) = None THEN installed[a].domain ELSE D!IdOf(d),
                    confirmed |-> installed[a].confirmed \/ confirm, hint |-> e]]
        BY <3>1
      <3>3. installed[a] \in D!AgentRow
        BY <1>1 DEF D!TypeOK, D!Installed
      <3>4. PICK id : id = IF D!IdOf(d) = None THEN installed[a].domain ELSE D!IdOf(d)
        OBVIOUS
      <3>5. id \in D!RowIds \cup {None}
        BY <1>1, <3>3, <3>4, IdOfTyped DEF D!AgentRow
      <3>6. e \in Domains \cup {None}
        BY <1>1, EffectiveTyped
      <3>7. PICK r : r = [url |-> d, domain |-> id,
                          confirmed |-> installed[a].confirmed \/ confirm, hint |-> e]
        OBVIOUS
      <3>8. r \in D!AgentRow
        BY <3>2, <3>3, <3>5, <3>6, <3>7 DEF D!AgentRow
      <3>9. installed' = [installed EXCEPT ![a] = r]
        BY <3>2, <3>4, <3>7
      <3> QED BY <1>1, <3>8, <3>9 DEF D!TypeOK
    <2> QED BY <2>1, <2>2, <2>3
  <1>5. D!TypeOK'
    BY <1>1, <1>2, <1>3, <1>4 DEF D!TypeOK
  <1> QED BY <1>1, <1>5, RowsSame

LEMMA ActivateInv ==
    ASSUME DomainsInv, D!ActivateManagedDomain
    PROVE  DomainsInv'
  <1>1. UNCHANGED <<dashboard, installed, minted, used, panel, restarts, settled>>
    BY DEF D!ActivateManagedDomain
  <1>2. PICK d \in D!Known : rows' = [rows EXCEPT ![d].status = "active"] /\ left' = left \ {d}
    BY DEF D!ActivateManagedDomain
  <1>3. PICK r : r = [rows[d] EXCEPT !.status = "active"]
    OBVIOUS
  <1>4. r \in D!DomainRow /\ r.status = "active" /\ r.primary = rows[d].primary
    BY <1>3, DomainRowFacts DEF DomainsInv, D!DomainRow
  <1>5. r # None
    BY <1>4, NoneAssumption
  <1>6. rows \in [Domains -> D!DomainRow \cup {None}]
    BY DEF DomainsInv, D!TypeOK
  <1>7. \A e \in Domains : rows'[e] = IF e = d THEN r ELSE rows[e]
    BY <1>2, <1>3, <1>6
  <1>8. rows' \in [Domains -> D!DomainRow \cup {None}]
    BY <1>2, <1>3, <1>4, <1>6
  <1>9. count' \in 0..MaxRequests /\ left' \subseteq Domains
    BY <1>2, BoundsAssumption DEF DomainsInv, D!TypeOK, D!ActivateManagedDomain
  <1>10. D!TypeOK'
    BY <1>1, <1>8, <1>9 DEF DomainsInv, D!TypeOK
  <1>11. D!Known' = D!Known /\ D!Primaries' = D!Primaries /\ D!Active \subseteq D!Active'
    <2>1. d \in D!Known /\ rows[d] # None
      BY <1>2 DEF D!Known
    <2>2. D!Known' = D!Known
      BY <1>5, <1>7, <2>1 DEF D!Known
    <2>3. \A e \in D!Known : /\ rows'[e].primary <=> rows[e].primary
                             /\ rows[e].status = "active" => rows'[e].status = "active"
      BY <1>4, <1>7 DEF D!Known
    <2> QED BY <2>2, <2>3 DEF D!Primaries, D!Active
  <1>12. D!PrimaryIsActive'
    BY <1>11 DEF DomainsInv, D!PrimaryIsActive
  <1>13. D!Changing' = D!Changing
    BY <1>1 DEF D!Changing
  <1> QED BY <1>1, <1>10, <1>11, <1>12, <1>13, MarksSame

\* When no domain is in effect none is marked: a start has nothing to put right then.
LEMMA NoneInEffect ==
    ASSUME None \in D!Effective
    PROVE  dashboard = None /\ D!Primaries = {}
  BY NoneAssumption DEF D!Effective, D!Primaries, D!Known

\* A start makes the domain in effect the only primary one.
LEMMA RestartInv ==
    ASSUME DomainsInv, D!Restart
    PROVE  DomainsInv'
  <1>1. /\ panel' = [h \in Handlers |-> D!Idle] /\ settled' = TRUE
        /\ restarts' \in 1..MaxRestarts
        /\ UNCHANGED <<dashboard, installed, minted, used, count>>
    <2>1. restarts \in 0..MaxRestarts /\ restarts < MaxRestarts /\ restarts' = restarts + 1
      BY DEF D!Restart, DomainsInv, D!TypeOK
    <2>2. restarts' \in 1..MaxRestarts
      BY <2>1, BoundsAssumption
    <2> QED BY <2>2 DEF D!Restart
  <1>2. PICK e \in D!Effective :
          IF e = None
          THEN UNCHANGED <<rows, left>>
          ELSE /\ rows' = [d \in Domains |->
                      CASE d = e /\ d \in D!Known ->
                              [rows[d] EXCEPT !.status = "active", !.primary = TRUE]
                        [] d = e /\ d \notin D!Known ->
                              [id |-> MaxRequests + restarts', status |-> "active",
                               primary |-> TRUE]
                        [] OTHER ->
                              IF d \in D!Known THEN [rows[d] EXCEPT !.primary = FALSE] ELSE None]
               /\ left' = (left \cup D!Primaries) \ {e}
    BY DEF D!Restart
  <1>3. e \in Domains \cup {None} /\ D!Primaries \subseteq Domains
    BY EffectiveTyped DEF DomainsInv, D!Primaries, D!Known
  <1>4. D!Changing' = {}
    <2>1. PICK q : q = D!Idle
      OBVIOUS
    <2>2. \A h \in Handlers : panel'[h] = q
      BY <1>1, <2>1
    <2>3. q.pc = "idle"
      BY <2>1, PanelIdle
    <2>4. \A h \in Handlers : panel'[h].pc = "idle"
      BY <2>2, <2>3
    <2> QED BY <2>4 DEF D!Changing
  <1>5. /\ rows' \in [Domains -> D!DomainRow \cup {None}] /\ left' \subseteq Domains
        /\ D!PrimaryIsActive' /\ MarksAgree'
    <2>1. CASE e = None
      <3>1. dashboard = None /\ D!Primaries = {}
        BY <2>1, NoneInEffect
      <3>2. UNCHANGED <<rows, left>>
        BY <1>2, <2>1
      <3>3. MarksAgree'
        BY <1>1, <3>1, <3>2 DEF MarksAgree, D!Primaries, D!Known
      <3> QED BY <3>2, <3>3
          DEF DomainsInv, D!TypeOK, D!PrimaryIsActive, D!Primaries, D!Active, D!Known
    <2>2. CASE e # None
      <3>1. e \in Domains
        BY <1>3, <2>2
      <3>2. MaxRequests + restarts' \in D!RowIds
        BY <1>1, BoundsAssumption DEF D!RowIds
      <3>3. rows'[e] \in D!DomainRow /\ rows'[e].primary /\ rows'[e].status = "active"
        <4>1. CASE e \in D!Known
          <5>1. rows'[e] = [rows[e] EXCEPT !.status = "active", !.primary = TRUE]
            BY <1>2, <2>2, <3>1, <4>1
          <5> QED BY <4>1, <5>1, DomainRowFacts DEF DomainsInv, D!DomainRow
        <4>2. CASE e \notin D!Known
          <5>1. rows'[e] = [id |-> MaxRequests + restarts', status |-> "active",
                            primary |-> TRUE]
            BY <1>2, <2>2, <3>1, <4>2
          <5> QED BY <3>2, <5>1 DEF D!DomainRow
        <4> QED BY <4>1, <4>2
      <3>4. ASSUME NEW d \in D!Known \ {e}
            PROVE  rows'[d] \in D!DomainRow /\ ~rows'[d].primary
        <4>1. d \in Domains
          BY DEF D!Known
        <4>2. rows'[d] = [rows[d] EXCEPT !.primary = FALSE]
          BY <1>2, <2>2, <3>4, <4>1
        <4> QED BY <3>4, <4>2, DomainRowFacts DEF DomainsInv, D!DomainRow
      <3>5. \A d \in Domains \ (D!Known \cup {e}) : rows'[d] = None
        BY <1>2, <2>2
      <3>6. rows' \in [Domains -> D!DomainRow \cup {None}]
        <4>1. rows' = [d \in Domains |-> rows'[d]]
          BY <1>2, <2>2
        <4>2. \A d \in Domains : rows'[d] \in D!DomainRow \cup {None}
          BY <3>3, <3>4, <3>5
        <4> QED BY <4>1, <4>2
      <3>7. rows'[e] # None
        BY <3>3, NoneAssumption
      <3>8. D!Primaries' = {e}
        BY <3>1, <3>3, <3>4, <3>5, <3>7 DEF D!Primaries, D!Known
      <3>9. D!PrimaryIsActive'
        BY <3>1, <3>3, <3>7, <3>8 DEF D!PrimaryIsActive, D!Active, D!Known
      <3>10. dashboard # None => e = dashboard
        BY <1>2 DEF D!Effective
      <3>11. MarksAgree'
        BY <1>1, <3>8, <3>10 DEF MarksAgree
      <3>12. left' \subseteq Domains
        BY <1>2, <1>3, <2>2 DEF DomainsInv, D!TypeOK
      <3> QED BY <3>6, <3>9, <3>11, <3>12
    <2> QED BY <2>1, <2>2
  <1>6. panel' \in [Handlers -> D!Request \cup {D!Idle}]
    BY <1>1
  <1>7. D!TypeOK'
    BY <1>1, <1>5, <1>6 DEF DomainsInv, D!TypeOK
  <1>8. AloneIsAlone' /\ SettledAlone'
    BY <1>4, <1>5 DEF AloneIsAlone, SettledAlone
  <1> QED BY <1>5, <1>7, <1>8 DEF DomainsInv

LEMMA DomainsInit == D!Init => DomainsInv
  <1> SUFFICES ASSUME D!Init PROVE DomainsInv
    OBVIOUS
  <1>1. PICK q : q = D!Idle
    OBVIOUS
  <1>2. panel = [h \in Handlers |-> q] /\ q.pc = "idle"
    BY <1>1, PanelIdle DEF D!Init
  <1>3. D!Changing = {}
    BY <1>2 DEF D!Changing
  <1>4. panel \in [Handlers -> D!Request \cup {D!Idle}]
    BY <1>1, <1>2
  <1>5. /\ dashboard \in Domains \cup {None}
        /\ rows \in [Domains -> D!DomainRow \cup {None}]
        /\ D!PrimaryIsActive /\ MarksAgree
    <2>1. CASE dashboard = None /\ rows = [d \in Domains |-> None]
      <3>1. D!Primaries = {}
        BY <2>1 DEF D!Primaries, D!Known
      <3> QED BY <2>1, <3>1 DEF D!PrimaryIsActive, MarksAgree
    <2>2. ASSUME dashboard \in Domains,
                 rows = [d \in Domains |->
                    IF d = dashboard THEN [id |-> 0, status |-> "active", primary |-> TRUE]
                                     ELSE None]
          PROVE  /\ rows \in [Domains -> D!DomainRow \cup {None}]
                 /\ D!PrimaryIsActive /\ MarksAgree
      <3>1. PICK r : r = [id |-> 0, status |-> "active", primary |-> TRUE]
        OBVIOUS
      <3>2. 0 \in D!RowIds
        BY BoundsAssumption DEF D!RowIds
      <3>3. r \in D!DomainRow /\ r.primary /\ r.status = "active"
        BY <3>1, <3>2 DEF D!DomainRow
      <3>4. r # None
        BY <3>3, NoneAssumption
      <3>5. rows = [d \in Domains |-> IF d = dashboard THEN r ELSE None]
        BY <2>2, <3>1
      <3>6. D!Primaries = {dashboard} /\ D!Active = {dashboard}
        BY <2>2, <3>3, <3>4, <3>5 DEF D!Primaries, D!Active, D!Known
      <3> QED BY <3>3, <3>5, <3>6 DEF D!PrimaryIsActive, MarksAgree
    <2> QED BY <2>1, <2>2 DEF D!Init
  <1>6. D!TypeOK
    BY <1>4, <1>5, BoundsAssumption DEF D!Init, D!TypeOK
  <1> QED BY <1>3, <1>5, <1>6 DEF DomainsInv, AloneIsAlone, SettledAlone

LEMMA DomainsNext == DomainsInv /\ D!Next => DomainsInv'
  <1> SUFFICES ASSUME DomainsInv, D!Next PROVE DomainsInv'
    OBVIOUS
  <1>1. ASSUME NEW h \in Handlers, D!Save(h)
        PROVE  DomainsInv'
    BY <1>1, BeginningsInv, LooksInv, CommitInv, EnsureInv, ClearInv, SetPrimaryInv,
       ReplacedInv, PreviousLegacyInv DEF D!Save
  <1>2. ASSUME NEW h \in Handlers, D!Change(h)
        PROVE  DomainsInv'
    BY <1>2, BeginningsInv, AddDomainInv, LooksInv, MarkLegacyInv, CheckLockInv DEF D!Change
  <1> QED BY <1>1, <1>2, InstallInv, AroundInv, ActivateInv, RestartInv DEF D!Next

LEMMA DomainsSame ==
    ASSUME DomainsInv, UNCHANGED domainVars
    PROVE  DomainsInv'
  <1>1. UNCHANGED <<dashboard, rows, installed, minted, used, panel, count, restarts, settled,
                    left>>
    BY DEF domainVars
  <1>2. D!TypeOK'
    BY <1>1 DEF DomainsInv, D!TypeOK
  <1> QED BY <1>1, <1>2, RowsSame

\* The invariant of the panel's domains and of the requests about them.
THEOREM DomainsInvariance == Spec => []DomainsInv
  <1>1. Init => DomainsInv
    BY DomainsInit DEF Init
  <1>2. DomainsInv /\ [Next]_vars => DomainsInv'
    <2> SUFFICES ASSUME DomainsInv, [Next]_vars PROVE DomainsInv'
      OBVIOUS
    <2>1. CASE D!Next
      BY <2>1, DomainsNext
    <2>2. CASE UNCHANGED domainVars
      BY <2>2, DomainsSame
    <2> QED BY <2>1, <2>2 DEF Next, vars
  <1> QED BY <1>1, <1>2, PTL DEF Spec

\* A domain that is marked as the primary one is active, and what racing changes of the
\* panel's domain or a stop half way did to the marks is put right by the next change that
\* runs alone or by the next start (SaveAppSettings, SetPrimaryManagedDomain, NewServer),
\* for any number of domains, agents and requests served at the same time.
THEOREM DomainsAlwaysSettle == Spec => []DomainsSettle
  <1>1. DomainsInv => DomainsSettle
    <2> SUFFICES ASSUME DomainsInv PROVE DomainsSettle
      OBVIOUS
    <2>1. settled /\ D!Changing = {} => MarksAgree
      BY DEF DomainsInv, SettledAlone
    <2> QED BY <2>1 DEF DomainsInv, MarksAgree, DomainsSettle, D!ChangeSettles
  <1> QED BY <1>1, DomainsInvariance, PTL

-----------------------------------------------------------------------------
(* The backups. *)

BackupJob ==
    [pc : {"idle", "vacuum", "clean", "copy", "put", "upload"},
     file : Files \cup {None}, whole : BOOLEAN]

\* The file of who writes it is there, and of today; a file that waits for its copy, and
\* the copy itself, is whole, unless a request asked for it too early.
JobSound(w) ==
    /\ job[w].pc # "idle" => job[w].file \in Files
    /\ job[w].pc = "vacuum" => dir[job[w].file] # None /\ dir[job[w].file].made = day
    /\ job[w].pc \in {"clean", "copy", "put"} =>
          \/ dir[job[w].file] = None \/ dir[job[w].file].stage = "whole"
          \/ job[w].file \in early
    /\ job[w].pc = "upload" => job[w].whole \/ job[w].file \in early

OneVacuum ==
    \A v, w \in B!Workers : job[v].pc = "vacuum" /\ job[w].pc = "vacuum" => v = w

BackupsInv ==
    /\ B!TypeOK /\ B!CopiesWhole
    /\ dir = [f \in Files |-> dir[f]]
    /\ OneVacuum
    /\ \A w \in B!Workers : JobSound(w)

LEMMA BackupFacts ==
    /\ None \notin B!Backup /\ None \notin Files
    /\ \A r \in B!Backup : /\ r # None /\ r.made \in B!Days /\ r.label \in B!Labels
                           /\ r.stage \in {"partial", "whole"}
    /\ B!Idle \in BackupJob /\ B!Idle.pc = "idle"
    /\ B!Auto \in B!Workers /\ Copiers \subseteq B!Workers
  BY NoneAssumption DEF B!Backup, B!Idle, BackupJob, B!Workers

\* One worker takes a step.
LEMMA JobMoves ==
    ASSUME B!TypeOK, NEW w \in B!Workers, NEW q \in BackupJob, job' = [job EXCEPT ![w] = q]
    PROVE  /\ job' \in [B!Workers -> BackupJob]
           /\ job'[w] = q /\ \A v \in B!Workers : v # w => job'[v] = job[v]
  BY DEF B!TypeOK, BackupJob

LEMMA StepMoves ==
    ASSUME BackupsInv, NEW w \in B!Workers, job[w].pc # "idle",
           NEW pc \in {"vacuum", "clean", "copy", "put", "upload"}, B!Step(w, pc)
    PROVE  /\ job' \in [B!Workers -> BackupJob]
           /\ job'[w].pc = pc /\ job'[w].file = job[w].file /\ job[w].file \in Files
           /\ \A v \in B!Workers : v # w => job'[v] = job[v]
  <1>1. job[w] \in BackupJob /\ job[w].file \in Files
    BY DEF BackupsInv, B!TypeOK, BackupJob, JobSound
  <1>2. PICK q : q = [job[w] EXCEPT !.pc = pc]
    OBVIOUS
  <1>3. q \in BackupJob /\ q.pc = pc /\ q.file = job[w].file
    BY <1>1, <1>2 DEF BackupJob
  <1>4. job' = [job EXCEPT ![w] = q]
    BY <1>2 DEF B!Step
  <1> QED BY <1>1, <1>3, <1>4, JobMoves DEF BackupsInv

LEMMA LeaveMoves ==
    ASSUME BackupsInv, NEW w \in B!Workers, B!Leave(w)
    PROVE  /\ job' \in [B!Workers -> BackupJob]
           /\ job'[w].pc = "idle"
           /\ \A v \in B!Workers : v # w => job'[v] = job[v]
  <1>1. PICK q : q = B!Idle
    OBVIOUS
  <1>2. job' = [job EXCEPT ![w] = q]
    BY <1>1 DEF B!Leave
  <1> QED BY <1>1, <1>2, BackupFacts, JobMoves DEF BackupsInv

\* A step of one worker, after which files are as they were, whole, or gone.
LEMMA BackupStep ==
    ASSUME BackupsInv, B!TypeOK', dir' = [f \in Files |-> dir'[f]],
           early \subseteq early', day' = day,
           \A f \in Files : dir'[f] = dir[f] \/ dir'[f] = None \/ dir'[f].stage = "whole",
           \A f \in Files : remote'[f] = "broken" => f \in early',
           NEW w \in B!Workers, JobSound(w)', job'[w].pc # "vacuum",
           \A v \in B!Workers : v # w => job'[v] = job[v],
           \A v \in B!Workers : v # w /\ job[v].pc = "vacuum" =>
                                   dir'[job[v].file] = dir[job[v].file]
    PROVE  BackupsInv'
  <1>1. OneVacuum'
    BY DEF BackupsInv, OneVacuum
  <1>2. B!Workers' = B!Workers
    OBVIOUS
  <1>3. ASSUME NEW v \in B!Workers, v # w
        PROVE  JobSound(v)'
    <2>1. JobSound(v) /\ job'[v] = job[v]
      BY <1>3 DEF BackupsInv
    <2>2. PICK f : f = job[v].file
      OBVIOUS
    <2>3. job[v].pc # "idle" => f \in Files
      BY <2>1, <2>2 DEF JobSound
    <2> QED BY <1>3, <2>1, <2>2, <2>3 DEF JobSound
  <1>4. \A v \in B!Workers : JobSound(v)'
    BY <1>3
  <1>5. B!CopiesWhole'
    BY DEF B!CopiesWhole
  <1> QED BY <1>1, <1>4, <1>5 DEF BackupsInv

LEMMA VacuumBeginsInv ==
    ASSUME BackupsInv, NEW w \in B!Workers, B!VacuumBegins(w)
    PROVE  BackupsInv'
  <1>1. /\ job[w].pc = "idle" /\ \A v \in B!Workers : job[v].pc # "vacuum"
        /\ UNCHANGED <<remote, copies, day, early, failed>> /\ B!TypeOK
    BY DEF B!VacuumBegins, B!At, BackupsInv
  <1>2. PICK f \in Files, label \in B!Labels :
           /\ dir[f] = None /\ \A v \in B!Workers : job[v].file # f
           /\ dir' = [dir EXCEPT ![f] = [label |-> label, made |-> day, stage |-> "partial"]]
           /\ job' = [job EXCEPT ![w] = [pc |-> "vacuum", file |-> f, whole |-> FALSE]]
    BY DEF B!VacuumBegins
  <1>3. PICK r, q : /\ r = [label |-> label, made |-> day, stage |-> "partial"]
                    /\ q = [pc |-> "vacuum", file |-> f, whole |-> FALSE]
    OBVIOUS
  <1>4. r \in B!Backup /\ r.made = day
    BY <1>1, <1>3 DEF B!TypeOK, B!Backup
  <1>5. q \in BackupJob /\ q.pc = "vacuum" /\ q.file = f
    BY <1>3 DEF BackupJob
  <1>6. /\ dir' = [g \in Files |-> dir'[g]]
        /\ \A g \in Files : dir'[g] = IF g = f THEN r ELSE dir[g]
    BY <1>2, <1>3 DEF BackupsInv
  <1>7. /\ job' \in [B!Workers -> BackupJob]
        /\ job'[w] = q /\ \A v \in B!Workers : v # w => job'[v] = job[v]
    BY <1>1, <1>2, <1>3, <1>5, JobMoves
  <1>8. B!TypeOK'
    BY <1>1, <1>4, <1>6, <1>7 DEF B!TypeOK, BackupJob
  <1>9. OneVacuum'
    BY <1>1, <1>7 DEF OneVacuum
  <1>10. JobSound(w)'
    BY <1>1, <1>4, <1>5, <1>6, <1>7, BackupFacts DEF JobSound
  <1>11. ASSUME NEW v \in B!Workers, v # w
         PROVE  JobSound(v)'
    <2>1. JobSound(v) /\ job'[v] = job[v] /\ job[v].file # f /\ job[v].pc # "vacuum"
      BY <1>1, <1>2, <1>7, <1>11 DEF BackupsInv
    <2>2. job[v].pc # "idle" => dir'[job[v].file] = dir[job[v].file]
      BY <1>6, <2>1 DEF JobSound
    <2> QED BY <1>1, <2>1, <2>2 DEF JobSound
  <1>12. B!CopiesWhole'
    BY <1>1 DEF BackupsInv, B!CopiesWhole
  <1> QED BY <1>6, <1>8, <1>9, <1>10, <1>11, <1>12 DEF BackupsInv

LEMMA VacuumEndsInv ==
    ASSUME BackupsInv, NEW w \in B!Workers, B!VacuumEnds(w)
    PROVE  BackupsInv'
  <1>1. /\ job[w].pc = "vacuum" /\ UNCHANGED <<remote, copies, day, early, failed>> /\ B!TypeOK
    BY DEF B!VacuumEnds, B!At, BackupsInv
  <1>2. PICK f : f = job[w].file
    OBVIOUS
  <1>3. f \in Files /\ dir[f] # None
    BY <1>1, <1>2 DEF BackupsInv, JobSound
  <1>4. PICK r : r = [dir[f] EXCEPT !.stage = "whole"]
    OBVIOUS
  <1>5. r \in B!Backup /\ r.stage = "whole"
    BY <1>1, <1>3, <1>4 DEF B!TypeOK, B!Backup
  <1>6. dir' = [dir EXCEPT ![f] = r]
    BY <1>2, <1>4 DEF B!VacuumEnds
  <1>7. /\ dir' = [g \in Files |-> dir'[g]]
        /\ \A g \in Files : dir'[g] = IF g = f THEN r ELSE dir[g]
    BY <1>6 DEF BackupsInv
  <1>8. PICK pc \in {"clean", "copy"} : B!Step(w, pc)
    BY DEF B!VacuumEnds, B!AfterVacuum
  <1>9. /\ job' \in [B!Workers -> BackupJob]
        /\ job'[w].pc = pc /\ job'[w].file = f
        /\ \A v \in B!Workers : v # w => job'[v] = job[v]
    BY <1>1, <1>2, <1>8, StepMoves
  <1>10. B!TypeOK'
    BY <1>1, <1>5, <1>7, <1>9 DEF B!TypeOK, BackupJob
  <1>11. JobSound(w)'
    BY <1>3, <1>5, <1>7, <1>8, <1>9 DEF JobSound
  <1>12. \A v \in B!Workers : v # w => job[v].pc # "vacuum"
    BY <1>1 DEF BackupsInv, OneVacuum
  <1>13. \A g \in Files : remote'[g] = "broken" => g \in early'
    BY <1>1 DEF BackupsInv, B!CopiesWhole
  <1> QED BY <1>1, <1>5, <1>7, <1>8, <1>9, <1>10, <1>11, <1>12, <1>13, BackupStep

LEMMA VacuumFailsInv ==
    ASSUME BackupsInv, NEW w \in B!Workers, B!VacuumFails(w)
    PROVE  BackupsInv'
  <1>1. /\ job[w].pc = "vacuum" /\ UNCHANGED <<remote, copies, day, early>> /\ B!TypeOK
    BY DEF B!VacuumFails, B!At, BackupsInv
  <1>2. PICK f : f = job[w].file
    OBVIOUS
  <1>3. f \in Files
    BY <1>1, <1>2 DEF BackupsInv, JobSound
  <1>4. /\ dir' = [g \in Files |-> dir'[g]]
        /\ \A g \in Files : dir'[g] = dir[g] \/ dir'[g] = None
    BY <1>2 DEF B!VacuumFails, BackupsInv
  <1>5. /\ job' \in [B!Workers -> BackupJob]
        /\ job'[w].pc = "idle" /\ \A v \in B!Workers : v # w => job'[v] = job[v]
    BY LeaveMoves DEF B!VacuumFails
  <1>6. failed' = failed \cup {f}
    BY <1>2 DEF B!VacuumFails
  <1>7. B!TypeOK'
    BY <1>1, <1>3, <1>4, <1>5, <1>6 DEF B!TypeOK, BackupJob
  <1>8. JobSound(w)'
    BY <1>5 DEF JobSound
  <1>9. \A v \in B!Workers : v # w => job[v].pc # "vacuum"
    BY <1>1 DEF BackupsInv, OneVacuum
  <1>10. \A g \in Files : remote'[g] = "broken" => g \in early'
    BY <1>1 DEF BackupsInv, B!CopiesWhole
  <1> QED BY <1>1, <1>4, <1>5, <1>7, <1>8, <1>9, <1>10, BackupStep

\* The cleaning removes no file of today, and so none that is being written.
LEMMA DeleteOldBackupsInv ==
    ASSUME BackupsInv, B!DeleteOldBackups
    PROVE  BackupsInv'
  <1>1. /\ job[B!Auto].pc = "clean" /\ UNCHANGED <<remote, copies, day, early, failed>>
        /\ B!TypeOK /\ B!Step(B!Auto, "copy") /\ B!Auto \in B!Workers
    BY BackupFacts DEF B!DeleteOldBackups, B!At, BackupsInv
  <1>2. PICK gone \in SUBSET {f \in Files : dir[f] # None /\ Retention > 0 /\ B!Old(f)} :
           dir' = [f \in Files |-> IF f \in gone THEN None ELSE dir[f]]
    <2>1. PICK kept \in SUBSET {f \in Files : dir[f] # None /\ Retention > 0 /\ B!Old(f)} :
             dir' = [f \in Files |->
                IF dir[f] # None /\ Retention > 0 /\ B!Old(f) /\ f \notin kept
                THEN None ELSE dir[f]]
      BY DEF B!DeleteOldBackups
    <2>2. PICK gone : gone = {f \in Files : dir[f] # None /\ Retention > 0 /\ B!Old(f) /\ f \notin kept}
      OBVIOUS
    <2>3. dir' = [f \in Files |-> IF f \in gone THEN None ELSE dir[f]]
      BY <2>1, <2>2
    <2> QED BY <2>2, <2>3
  <1>3. /\ job' \in [B!Workers -> BackupJob]
        /\ job'[B!Auto].pc = "copy" /\ job'[B!Auto].file = job[B!Auto].file
        /\ job[B!Auto].file \in Files
        /\ \A v \in B!Workers : v # B!Auto => job'[v] = job[v]
    BY <1>1, StepMoves
  <1>4. /\ dir' = [f \in Files |-> dir'[f]]
        /\ \A f \in Files : dir'[f] = IF f \in gone THEN None ELSE dir[f]
    BY <1>2
  <1>5. B!TypeOK'
    BY <1>1, <1>3, <1>4 DEF B!TypeOK, BackupJob
  <1>6. JobSound(B!Auto)'
    <2>1. JobSound(B!Auto)
      BY <1>1 DEF BackupsInv
    <2> QED BY <1>1, <1>3, <1>4, <2>1 DEF JobSound
  <1>7. ASSUME NEW v \in B!Workers, job[v].pc = "vacuum"
        PROVE  dir'[job[v].file] = dir[job[v].file]
    <2>1. PICK f : f = job[v].file
      OBVIOUS
    <2>2. f \in Files /\ dir[f].made = day
      BY <1>7, <2>1 DEF BackupsInv, JobSound
    <2>3. day \in Nat /\ Retention \in Nat
      BY <1>1, BoundsAssumption DEF B!TypeOK, B!Days
    <2>4. f \in gone => B!Old(f) /\ Retention > 0
      BY <1>2
    <2>5. Retention > 0 => ~(day + Retention <= day)
      BY <2>3
    <2> QED BY <1>4, <2>1, <2>2, <2>4, <2>5 DEF B!Old
  <1>8. \A f \in Files : remote'[f] = "broken" => f \in early'
    BY <1>1 DEF BackupsInv, B!CopiesWhole
  <1> QED BY <1>1, <1>3, <1>4, <1>5, <1>6, <1>7, <1>8, BackupStep

LEMMA CopyingInv ==
    ASSUME BackupsInv, NEW w \in B!Workers, B!Copy(w) \/ B!Open(w) \/ B!UploadEnds(w)
    PROVE  BackupsInv'
  <1>1. /\ UNCHANGED <<dir, copies, day, early, failed>> /\ B!TypeOK
        /\ dir = [f \in Files |-> dir[f]] /\ job[w].pc \in {"copy", "put", "upload"}
    BY DEF B!Copy, B!Open, B!UploadEnds, B!At, BackupsInv
  <1>2. JobSound(w) /\ job[w].file \in Files
    BY <1>1 DEF BackupsInv, JobSound
  <1>3. remote' \in [Files -> {"none", "broken", "whole"}]
    BY <1>1 DEF B!Copy, B!Open, B!UploadEnds, B!TypeOK
  <1>4. \A f \in Files : remote'[f] = "broken" => f \in early'
    <2>1. \A f \in Files : remote[f] = "broken" => f \in early'
      BY <1>1 DEF BackupsInv, B!CopiesWhole
    <2>2. CASE remote' = remote
      BY <2>1, <2>2
    <2>3. CASE B!UploadEnds(w) /\ remote' # remote
      <3>1. job[w].pc = "upload" /\ (job[w].whole \/ job[w].file \in early)
        BY <1>2, <2>3 DEF B!UploadEnds, B!At, JobSound
      <3>2. PICK f, what : f = job[w].file /\ what = IF job[w].whole THEN "whole" ELSE "broken"
        OBVIOUS
      <3>3. remote' = [remote EXCEPT ![f] = what]
        BY <2>3, <3>2 DEF B!UploadEnds
      <3>4. \A g \in Files : remote'[g] = IF g = f THEN what ELSE remote[g]
        BY <1>1, <3>3 DEF B!TypeOK
      <3>5. what = "broken" => f \in early
        BY <3>1, <3>2
      <3> QED BY <1>1, <2>1, <3>4, <3>5
    <2> QED BY <2>2, <2>3 DEF B!Copy, B!Open
  <1>5. /\ job' \in [B!Workers -> BackupJob] /\ JobSound(w)' /\ job'[w].pc # "vacuum"
        /\ \A v \in B!Workers : v # w => job'[v] = job[v]
    <2>1. CASE B!Leave(w)
      <3>1. /\ job' \in [B!Workers -> BackupJob] /\ job'[w].pc = "idle"
            /\ \A v \in B!Workers : v # w => job'[v] = job[v]
        BY <2>1, LeaveMoves
      <3> QED BY <3>1 DEF JobSound
    <2>2. CASE B!Copy(w) /\ B!Step(w, "put")
      <3>1. job[w].pc = "copy"
        BY <2>2 DEF B!Copy, B!At
      <3>2. /\ job' \in [B!Workers -> BackupJob]
            /\ job'[w].pc = "put" /\ job'[w].file = job[w].file
            /\ \A v \in B!Workers : v # w => job'[v] = job[v]
        BY <2>2, <3>1, StepMoves
      <3> QED BY <1>1, <1>2, <3>1, <3>2 DEF JobSound
    <2>3. CASE B!Open(w) /\ ~B!Leave(w)
      <3>1. PICK f : f = job[w].file
        OBVIOUS
      <3>2. PICK whole : whole = (dir[f].stage = "whole")
        OBVIOUS
      <3>3. /\ job[w].pc = "put" /\ dir[f] # None
            /\ job' = [job EXCEPT ![w].pc = "upload", ![w].whole = (dir[f].stage = "whole")]
        BY <2>3, <3>1 DEF B!Open, B!At
      <3>4. PICK q : q = [job[w] EXCEPT !.pc = "upload", !.whole = whole]
        OBVIOUS
      <3>5. job' = [job EXCEPT ![w] = q]
        BY <3>2, <3>3, <3>4
      <3>6. q \in BackupJob /\ q.pc = "upload" /\ q.whole = whole /\ q.file = f
        BY <1>1, <3>1, <3>2, <3>4 DEF B!TypeOK, BackupJob
      <3>7. /\ job' \in [B!Workers -> BackupJob]
            /\ job'[w] = q /\ \A v \in B!Workers : v # w => job'[v] = job[v]
        BY <1>1, <3>5, <3>6, JobMoves
      <3>8. whole \/ f \in early
        BY <1>2, <3>1, <3>2, <3>3 DEF JobSound
      <3> QED BY <1>1, <1>2, <3>1, <3>6, <3>7, <3>8 DEF JobSound
    <2> QED BY <2>1, <2>2, <2>3 DEF B!Copy, B!UploadEnds
  <1>6. B!TypeOK'
    BY <1>1, <1>3, <1>5 DEF B!TypeOK, BackupJob
  <1> QED BY <1>1, <1>4, <1>5, <1>6, BackupStep

LEMMA UploadBeginsInv ==
    ASSUME BackupsInv, NEW h \in Copiers, B!Upload(h)
    PROVE  BackupsInv'
  <1>1. UNCHANGED <<dir, remote, copies, day, failed>> /\ B!TypeOK /\ h \in B!Workers
    BY BackupFacts DEF B!Upload, BackupsInv
  <1>2. PICK f \in Files :
           /\ dir[f] # None
           /\ job' = [job EXCEPT ![h] = [pc |-> "put", file |-> f, whole |-> FALSE]]
           /\ early' = IF dir[f].stage = "partial" THEN early \cup {f} ELSE early
    BY DEF B!Upload
  <1>3. PICK q : q = [pc |-> "put", file |-> f, whole |-> FALSE]
    OBVIOUS
  <1>4. q \in BackupJob /\ q.pc = "put" /\ q.file = f
    BY <1>3 DEF BackupJob
  <1>5. /\ job' \in [B!Workers -> BackupJob]
        /\ job'[h] = q /\ \A v \in B!Workers : v # h => job'[v] = job[v]
    BY <1>1, <1>2, <1>3, <1>4, JobMoves
  <1>6. early \subseteq early' /\ early' \subseteq Files
    BY <1>1, <1>2 DEF B!TypeOK
  <1>7. dir[f].stage \in {"partial", "whole"}
    BY <1>1, <1>2, BackupFacts DEF B!TypeOK
  <1>8. JobSound(h)'
    BY <1>1, <1>2, <1>4, <1>5, <1>7 DEF JobSound
  <1>9. B!TypeOK'
    BY <1>1, <1>5, <1>6 DEF B!TypeOK, BackupJob
  <1>10. dir' = [g \in Files |-> dir'[g]]
    BY <1>1 DEF BackupsInv
  <1>11. \A g \in Files : remote'[g] = "broken" => g \in early'
    BY <1>1, <1>6 DEF BackupsInv, B!CopiesWhole
  <1> QED BY <1>1, <1>4, <1>5, <1>6, <1>8, <1>9, <1>10, <1>11, BackupStep

LEMMA AroundBackupsInv ==
    ASSUME BackupsInv, B!Configure \/ B!DayPasses \/ B!Restart
    PROVE  BackupsInv'
  <1>1. UNCHANGED <<dir, remote, early>> /\ B!TypeOK /\ dir = [f \in Files |-> dir[f]]
    BY DEF B!Configure, B!DayPasses, B!Restart, BackupsInv
  <1>2. B!CopiesWhole'
    BY <1>1 DEF BackupsInv, B!CopiesWhole
  <1>3. CASE B!Configure
    <2>1. UNCHANGED <<day, job, failed>> /\ copies' \in BOOLEAN
      BY <1>1, <1>3 DEF B!Configure, B!TypeOK
    <2>2. B!TypeOK' /\ OneVacuum' /\ \A w \in B!Workers : JobSound(w)'
      BY <1>1, <2>1 DEF BackupsInv, B!TypeOK, OneVacuum, JobSound
    <2> QED BY <1>1, <1>2, <2>2 DEF BackupsInv
  <1>4. CASE B!DayPasses
    <2>1. /\ UNCHANGED <<job, copies, failed>> /\ day' = day + 1 /\ day < MaxDays
          /\ \A w \in B!Workers : job[w].pc # "vacuum"
      BY <1>4 DEF B!DayPasses, B!At
    <2>2. day' \in B!Days
      BY <1>1, <2>1, BoundsAssumption DEF B!TypeOK, B!Days
    <2>3. B!TypeOK' /\ OneVacuum' /\ \A w \in B!Workers : JobSound(w)'
      BY <1>1, <2>1, <2>2 DEF BackupsInv, B!TypeOK, OneVacuum, JobSound
    <2> QED BY <1>1, <1>2, <2>3 DEF BackupsInv
  <1>5. CASE B!Restart
    <2>1. PICK q : q = B!Idle
      OBVIOUS
    <2>2. job' = [w \in B!Workers |-> q] /\ UNCHANGED <<copies, day>>
      BY <1>5, <2>1 DEF B!Restart
    <2>3. job' \in [B!Workers -> BackupJob] /\ \A w \in B!Workers : job'[w].pc = "idle"
      BY <2>1, <2>2, BackupFacts
    <2>4. failed' \subseteq Files
      <3>1. \A w \in B!Workers : B!At(w, "vacuum") => job[w].file \in Files
        BY DEF BackupsInv, JobSound, B!At
      <3> QED BY <1>1, <1>5, <3>1 DEF B!Restart, B!TypeOK
    <2>5. B!TypeOK'
      BY <1>1, <2>2, <2>3, <2>4 DEF B!TypeOK, BackupJob
    <2>6. OneVacuum' /\ \A w \in B!Workers : JobSound(w)'
      BY <2>3 DEF OneVacuum, JobSound
    <2> QED BY <1>1, <1>2, <2>5, <2>6 DEF BackupsInv
  <1> QED BY <1>3, <1>4, <1>5

LEMMA BackupsInit == B!Init => BackupsInv
  <1> SUFFICES ASSUME B!Init PROVE BackupsInv
    OBVIOUS
  <1>1. PICK q : q = B!Idle
    OBVIOUS
  <1>2. job = [w \in B!Workers |-> q]
    BY <1>1 DEF B!Init
  <1>3. job \in [B!Workers -> BackupJob] /\ \A w \in B!Workers : job[w].pc = "idle"
    BY <1>1, <1>2, BackupFacts
  <1>4. 0 \in B!Days
    BY BoundsAssumption DEF B!Days
  <1>5. B!TypeOK /\ B!CopiesWhole /\ dir = [f \in Files |-> dir[f]]
    BY <1>3, <1>4 DEF B!Init, B!TypeOK, BackupJob, B!CopiesWhole
  <1>6. OneVacuum /\ \A w \in B!Workers : JobSound(w)
    BY <1>3 DEF OneVacuum, JobSound
  <1> QED BY <1>5, <1>6 DEF BackupsInv

LEMMA BackupsNext == BackupsInv /\ B!Next => BackupsInv'
  BY VacuumBeginsInv, VacuumEndsInv, VacuumFailsInv, DeleteOldBackupsInv, CopyingInv,
     UploadBeginsInv, AroundBackupsInv DEF B!Next

LEMMA BackupsSame == BackupsInv /\ UNCHANGED backupVars => BackupsInv'
  <1> SUFFICES ASSUME BackupsInv, UNCHANGED <<dir, remote, copies, day, job, early, failed>>
               PROVE  BackupsInv'
    BY DEF backupVars
  <1> QED BY DEF BackupsInv, B!TypeOK, B!CopiesWhole, OneVacuum, JobSound

\* A step takes away only files whose writing failed, and old ones.
LEMMA BackupGoes ==
    ASSUME BackupsInv, B!Next, NEW f \in Files, dir[f] # None, dir'[f] = None
    PROVE  f \in failed' \/ dir[f].made + Retention <= day
  <1>1. B!TypeOK /\ dir = [g \in Files |-> dir[g]]
    BY DEF BackupsInv
  <1>2. ASSUME NEW w \in B!Workers, B!VacuumBegins(w)
        PROVE  FALSE
    <2>1. PICK g \in Files, label \in B!Labels :
             /\ dir[g] = None
             /\ dir' = [dir EXCEPT ![g] = [label |-> label, made |-> day, stage |-> "partial"]]
      BY <1>2 DEF B!VacuumBegins
    <2> QED BY <1>1, <2>1
  <1>3. ASSUME NEW w \in B!Workers, B!VacuumEnds(w)
        PROVE  FALSE
    <2>1. PICK g, r : g = job[w].file /\ r = [dir[g] EXCEPT !.stage = "whole"]
      OBVIOUS
    <2>2. dir' = [dir EXCEPT ![g] = r]
      BY <1>3, <2>1 DEF B!VacuumEnds
    <2>3. g = f
      BY <1>1, <2>2
    <2>4. r \in B!Backup
      BY <1>1, <2>1, <2>3 DEF B!TypeOK, B!Backup
    <2> QED BY <1>1, <2>2, <2>3, <2>4, BackupFacts
  <1>4. ASSUME NEW w \in B!Workers, B!VacuumFails(w)
        PROVE  f \in failed'
    <2>1. PICK g : g = job[w].file
      OBVIOUS
    <2>2. dir' = [dir EXCEPT ![g] = None] /\ failed' = failed \cup {g}
      BY <1>4, <2>1 DEF B!VacuumFails
    <2> QED BY <1>1, <2>2
  <1>5. ASSUME B!DeleteOldBackups
        PROVE  dir[f].made + Retention <= day
    <2>1. PICK kept \in SUBSET Files :
             dir' = [g \in Files |->
                IF dir[g] # None /\ Retention > 0 /\ B!Old(g) /\ g \notin kept
                THEN None ELSE dir[g]]
      BY <1>5 DEF B!DeleteOldBackups
    <2>2. B!Old(f)
      BY <2>1
    <2> QED BY <2>2 DEF B!Old
  <1>6. ASSUME NEW w \in B!Workers, B!Copy(w) \/ B!Open(w) \/ B!UploadEnds(w)
        PROVE  FALSE
    BY <1>6 DEF B!Copy, B!Open, B!UploadEnds
  <1>7. ASSUME NEW h \in Copiers, B!Upload(h)
        PROVE  FALSE
    BY <1>7 DEF B!Upload
  <1>8. ~B!Configure /\ ~B!DayPasses /\ ~B!Restart
    BY DEF B!Configure, B!DayPasses, B!Restart
  <1> QED BY <1>2, <1>3, <1>4, <1>5, <1>6, <1>7, <1>8 DEF B!Next

\* The invariant of the backups and of who makes, cleans and copies them.
THEOREM BackupsInvariance == Spec => []BackupsInv
  <1>1. Init => BackupsInv
    BY BackupsInit DEF Init
  <1>2. BackupsInv /\ [Next]_vars => BackupsInv'
    <2> SUFFICES ASSUME BackupsInv, [Next]_vars PROVE BackupsInv'
      OBVIOUS
    <2>1. CASE B!Next
      BY <2>1, BackupsNext
    <2>2. CASE UNCHANGED backupVars
      BY <2>2, BackupsSame
    <2> QED BY <2>1, <2>2 DEF Next, vars
  <1> QED BY <1>1, <1>2, PTL DEF Spec

\* A backup that was made goes only when it is as old as the retention, and a copy that
\* follows a backup is whole (maintenance.go, backup_remote.go): for any number of files,
\* requests and days, whatever else is made, cleaned, uploaded or fails in between.
THEOREM BackupsAlwaysKept == Spec => BackupsKept
  <1> DEFINE Kept == \A f \in Files :
                        dir[f] # None /\ dir'[f] = None =>
                            f \in failed' \/ dir[f].made + Retention <= day
  <1>1. ASSUME BackupsInv, [Next]_vars PROVE [Kept]_(B!vars)
    <2>1. CASE B!Next
      BY <1>1, <2>1, BackupGoes
    <2>2. CASE UNCHANGED backupVars
      BY <2>2 DEF B!vars, backupVars
    <2> QED BY <1>1, <2>1, <2>2 DEF Next, vars
  <1>2. BackupsInv => B!TypeOK /\ B!CopiesWhole
    BY DEF BackupsInv
  <1> QED BY <1>1, <1>2, BackupsInvariance, PTL DEF Spec, BackupsKept, B!KeptUntilOld

-----------------------------------------------------------------------------
(* What the statements of a migration leave. *)

\* What the statement of that name has done to database d once and for all. Those that a
\* later one undoes leave nothing, and neither does one whose text finds no row.
Done(d, name) ==
    /\ name = "base" => "core" \in d.has
    /\ name = "general" /\ S!NeedsGeneral(d) => d.general
    /\ name = "agentsToGeneral" => d.agentProject # ""
    /\ name = "resourcesToGeneral" => d.project # ""
    /\ name = "enabledOfStatus" /\ d.rows => d.enabled = (d.status = "active")
    /\ name = "ensurePanelDomain" /\ d.rows => d.panel # "absent"
    /\ name = "setPrimary" => d.panel # "row"
    /\ name = "linkAgents" /\ d.rows => d.url
    /\ name = "webTables" => "web" \in d.has
    /\ name = "unifiedTables" => "unified" \in d.has
    /\ name = "copyWeb" /\ d.web => d.unified
    /\ name = "copyWebResources" /\ d.web => d.unifiedResource
    /\ name = "resetTable" => "reset" \in d.has
    /\ name = "dropTrusted" => "trusted" \notin d.has

Lasting(d, s) == IF s.op = "column" THEN s.name \in d.has ELSE Done(d, s.name)

\* Statement j of migration u comes before statement i of migration v.
Before(u, j, v, i) == u < v \/ (u = v /\ j < i)

\* All statements before that one have done their part.
Upto(d, v, i) ==
    \A u \in DOMAIN S!Migrations : \A j \in DOMAIN S!Migrations[u] :
        Before(u, j, v, i) => Lasting(d, S!Migrations[u][j])

\* Of what it has done, the columns and tables, which no other process undoes.
Present(d, s) ==
    IF s.op = "column" THEN s.name \in d.has
    ELSE /\ s.name = "base" => "core" \in d.has
         /\ s.name = "webTables" => "web" \in d.has
         /\ s.name = "unifiedTables" => "unified" \in d.has
         /\ s.name = "resetTable" => "reset" \in d.has

PresentUpto(d, v, i) ==
    \A u \in DOMAIN S!Migrations : \A j \in DOMAIN S!Migrations[u] :
        Before(u, j, v, i) => Present(d, S!Migrations[u][j])

\* What all migrations make of the columns of a database, whichever it has gone through.
DefaultOf(d, c, old, new) == IF c \notin d.has /\ d.rows THEN new ELSE old

InProject(d, p) ==
    LET given == DefaultOf(d, "project", p, "default") IN
    IF given = "" THEN "default" ELSE given

InGeneral(d, p) == DefaultOf(d, "project", p, "default") \in {"", "default"}

FinalGeneral(d) == d.general \/ InGeneral(d, d.agentProject) \/ InGeneral(d, d.project)

FinalStatus(d) == DefaultOf(d, "status", d.status, "active")

FinalEnabled(d) == IF d.rows THEN FinalStatus(d) = "active" ELSE d.enabled

FinalPanel(d) == IF d.rows \/ d.panel # "absent" THEN "primary" ELSE "absent"

Finish(d) ==
    [has |-> S!Columns \cup {"core", "web", "unified", "reset"}, rows |-> d.rows,
     agentProject |-> InProject(d, d.agentProject), project |-> InProject(d, d.project),
     general |-> FinalGeneral(d), originType |-> DefaultOf(d, "origin", d.originType, "local"),
     enabled |-> FinalEnabled(d), status |-> FinalStatus(d), panel |-> FinalPanel(d),
     url |-> d.url \/ d.rows, web |-> d.web, unified |-> d.unified \/ d.web,
     unifiedResource |-> d.unifiedResource \/ d.web]

\* A database with rows has the tables they are in.
Sound(d) == d \in S!Databases /\ (d.rows => "core" \in d.has)

Working(p) == process[p].pc \in {"apply", "add", "record"}

\* How far a process is: it has gone through the migrations before its own.
Place(p) ==
    LET q == process[p] IN
    /\ q.pc = "backup" => q.v = 1
    /\ q.pc \in {"select", "apply", "add", "record"} => q.v \in DOMAIN S!Migrations
    /\ q.pc \in {"select", "apply", "add", "record"} => 1..(q.v - 1) \subseteq recorded
    /\ q.pc \in {"apply", "add"} => q.i \in DOMAIN S!Migrations[q.v]
    /\ q.pc = "add" => S!Statement(p).op = "column"
    /\ q.pc = "done" => S!Versions \subseteq recorded

\* Where the statements before the one of process p end.
Reached(p) ==
    IF process[p].pc = "done" THEN <<Len(S!Migrations) + 1, 1>>
    ELSE IF process[p].pc = "record" THEN <<process[p].v + 1, 1>>
    ELSE <<process[p].v, process[p].i>>

RecordsFollow == \A u \in recorded : 1..u \subseteq recorded

\* The statements before the one of process p have left their columns and tables.
Leaves(p) ==
    Working(p) \/ process[p].pc = "done" => PresentUpto(db, Reached(p)[1], Reached(p)[2])

Presence ==
    /\ \A u \in recorded : PresentUpto(db, u + 1, 1)
    /\ \A p \in Processes : Leaves(p)

\* One process at a time: what it has left stays, and it is at the first migration that is
\* not recorded.
Alone(p) ==
    ~shared =>
        /\ \A q \in Processes : S!Migrating(p) /\ S!Migrating(q) => p = q
        /\ Working(p) \/ process[p].pc = "done" => Upto(db, Reached(p)[1], Reached(p)[2])
        /\ Working(p) => process[p].v \notin recorded

RecordsLast == ~shared => \A u \in recorded : Upto(db, u + 1, 1)

Copied == ~origin.rows \/ \E b \in backups : b.first

\* Past the copy, a process works on a database that is copied or that is at the latest
\* version already.
Covered(p) ==
    process[p].pc \in {"select", "apply", "add", "record"} =>
        \/ Copied
        \/ S!Versions \subseteq recorded /\ (Working(p) => process[p].v = Len(S!Migrations))

SchemaInv ==
    /\ S!TypeOK
    /\ Sound(db) /\ db.rows = origin.rows
    /\ target = Finish(db)
    /\ RecordsFollow /\ Presence /\ RecordsLast
    /\ db = origin \/ Copied
    /\ \A p \in Processes : Place(p) /\ Alone(p) /\ Covered(p)
-----------------------------------------------------------------------------
(* The list of the statements. *)

LEMMA MigrationList ==
    /\ Len(S!Migrations) = 14 /\ DOMAIN S!Migrations = 1..14
    /\ S!Latest = 13 /\ S!Versions = 1..13
    /\ S!Migrations[1] = <<S!Sql("base")>>
    /\ S!Migrations[2] =
         <<S!Column("project"), S!Column("origin"), S!Sql("originOfAgent"),
           S!Sql("general"), S!Sql("agentsToGeneral"), S!Sql("resourcesToGeneral")>>
    /\ S!Migrations[3] = <<S!Column("suspension")>>
    /\ S!Migrations[4] =
         <<S!Column("status"), S!Column("primary"), S!Column("url"), S!Sql("statusOfEnabled"),
           S!Sql("enabledOfStatus"), S!Sql("ensurePanelDomain"), S!Sql("clearPrimary"),
           S!Sql("setPrimary"), S!Sql("linkAgents")>>
    /\ S!Migrations[5] = <<S!Column("fallback")>>
    /\ S!Migrations[6] = <<S!Sql("webTables")>>
    /\ S!Migrations[7] =
         <<S!Sql("unifiedTables"), S!Sql("copyWeb"), S!Sql("copyWebResources")>>
    /\ S!Migrations[8] = <<S!Column("email"), S!Sql("resetTable")>>
    /\ S!Migrations[9] = <<S!Column("redirect")>>
    /\ S!Migrations[10] = <<S!Sql("createTrusted")>>
    /\ S!Migrations[11] = <<S!Column("client")>>
    /\ S!Migrations[12] = <<S!Sql("dropTrusted")>>
    /\ S!Migrations[13] = <<S!Column("branding")>>
    /\ S!Migrations[14] = <<S!Column("client"), S!Column("branding")>>
  BY DEF S!Migrations, S!Latest, S!Versions

\* The statements of the migrations.
Texts ==
    {"base", "originOfAgent", "general", "agentsToGeneral", "resourcesToGeneral",
     "statusOfEnabled", "enabledOfStatus", "ensurePanelDomain", "clearPrimary", "setPrimary",
     "linkAgents", "webTables", "unifiedTables", "copyWeb", "copyWebResources", "resetTable",
     "createTrusted", "dropTrusted"}

Statements == {S!Column(c) : c \in S!Columns} \cup {S!Sql(name) : name \in Texts}

LEMMA StatementTyped ==
    ASSUME NEW v \in DOMAIN S!Migrations
    PROVE  /\ Len(S!Migrations[v]) \in 1..9
           /\ DOMAIN S!Migrations[v] = 1..Len(S!Migrations[v])
           /\ \A i \in DOMAIN S!Migrations[v] : S!Migrations[v][i] \in Statements
  <1>1. \A c \in S!Columns : S!Column(c) \in Statements
    BY DEF Statements
  <1>2. \A name \in Texts : S!Sql(name) \in Statements
    BY DEF Statements
  <1>3. v \in 1..14
    BY MigrationList
  <1>4. ASSUME NEW s \in Statements, S!Migrations[v] = <<s>>
        PROVE  /\ Len(S!Migrations[v]) \in 1..9
               /\ DOMAIN S!Migrations[v] = 1..Len(S!Migrations[v])
               /\ \A i \in DOMAIN S!Migrations[v] : S!Migrations[v][i] \in Statements
    BY <1>4
  <1>5. CASE v \in {1, 3, 5, 6, 9, 10, 11, 12, 13}
    <2>1. S!Sql("base") \in Statements /\ S!Sql("webTables") \in Statements
          /\ S!Sql("createTrusted") \in Statements /\ S!Sql("dropTrusted") \in Statements
      BY <1>2 DEF Texts
    <2>2. /\ S!Column("suspension") \in Statements /\ S!Column("fallback") \in Statements
          /\ S!Column("redirect") \in Statements /\ S!Column("client") \in Statements
          /\ S!Column("branding") \in Statements
      BY <1>1 DEF S!Columns
    <2> QED BY <1>5, <1>4, <2>1, <2>2, MigrationList
  <1>8. CASE v = 7
    BY <1>1, <1>2, <1>8, MigrationList DEF S!Columns, Texts
  <1>9. CASE v = 8
    BY <1>1, <1>2, <1>9, MigrationList DEF S!Columns, Texts
  <1>10. CASE v = 14
    BY <1>1, <1>2, <1>10, MigrationList DEF S!Columns, Texts
  <1>6. CASE v = 2
    BY <1>1, <1>2, <1>6, MigrationList DEF S!Columns, Texts
  <1>7. CASE v = 4
    BY <1>1, <1>2, <1>7, MigrationList DEF S!Columns, Texts
  <1> QED BY <1>3, <1>5, <1>6, <1>7, <1>8, <1>9, <1>10

\* What statement s does over again of what statement t has done.
Undoes(s, t) ==
    \/ s = S!Column("project") /\ t = S!Sql("general")
    \/ s = S!Column("status") /\ t = S!Sql("enabledOfStatus")
    \/ s \in {S!Sql("ensurePanelDomain"), S!Sql("clearPrimary")} /\ t = S!Sql("setPrimary")
    \/ s = S!Sql("createTrusted") /\ t = S!Sql("dropTrusted")

LEMMA StatementsApart ==
    /\ \A c, name : S!Column(c) # S!Sql(name)
    /\ \A c, b : S!Column(c) = S!Column(b) => c = b
    /\ \A c, b : S!Sql(c) = S!Sql(b) => c = b
  BY DEF S!Column, S!Sql

\* Where the statements are that others undo, or that undo others.
LEMMA Location ==
    ASSUME NEW v \in DOMAIN S!Migrations, NEW i \in DOMAIN S!Migrations[v]
    PROVE  /\ S!Migrations[v][i] = S!Column("project") => v = 2 /\ i = 1
           /\ S!Migrations[v][i] = S!Sql("general") => v = 2 /\ i = 4
           /\ S!Migrations[v][i] = S!Column("status") => v = 4 /\ i = 1
           /\ S!Migrations[v][i] = S!Sql("enabledOfStatus") => v = 4 /\ i = 5
           /\ S!Migrations[v][i] = S!Sql("ensurePanelDomain") => v = 4 /\ i = 6
           /\ S!Migrations[v][i] = S!Sql("clearPrimary") => v = 4 /\ i = 7
           /\ S!Migrations[v][i] = S!Sql("setPrimary") => v = 4 /\ i = 8
           /\ S!Migrations[v][i] = S!Sql("createTrusted") => v = 10
           /\ S!Migrations[v][i] = S!Sql("dropTrusted") => v = 12
  <1>1. v \in 1..14
    BY MigrationList
  <1>2. CASE v \in {1, 3, 5, 6, 7}
    BY <1>2, MigrationList, StatementsApart
  <1>3. CASE v \in {8, 9, 10, 11, 12, 13, 14}
    BY <1>3, MigrationList, StatementsApart
  <1>4. CASE v = 2
    BY <1>4, MigrationList, StatementsApart
  <1>5. CASE v = 4
    BY <1>5, MigrationList, StatementsApart
  <1> QED BY <1>1, <1>2, <1>3, <1>4, <1>5

\* No statement undoes one that comes before it.
LEMMA Order ==
    ASSUME NEW v \in DOMAIN S!Migrations, NEW i \in DOMAIN S!Migrations[v],
           NEW u \in DOMAIN S!Migrations, NEW j \in DOMAIN S!Migrations[u],
           Before(u, j, v, i)
    PROVE  ~Undoes(S!Migrations[v][i], S!Migrations[u][j])
  BY Location DEF Undoes, Before
-----------------------------------------------------------------------------
(* What one statement does. *)

\* The cases of Effect.
LEMMA EffectCases ==
    ASSUME NEW d, NEW s \in Statements
    PROVE  \/ \E c \in S!Columns : /\ s = S!Column(c)
                                   /\ S!Effect(d, s) = IF c \in d.has THEN d
                                                       ELSE S!AddColumn(d, c)
           \/ \E name \in Texts : s = S!Sql(name) /\ S!Effect(d, s) = S!Run(d, name)
  <1>1. CASE \E c \in S!Columns : s = S!Column(c)
    BY <1>1 DEF S!Effect, S!Column
  <1>2. CASE \E name \in Texts : s = S!Sql(name)
    BY <1>2 DEF S!Effect, S!Sql
  <1> QED BY <1>1, <1>2 DEF Statements

\* A database is what its columns are.
Columned(e, has, some, ap, p, general, ot, enabled, status, mark, url, web, u, ur) ==
    /\ e \in S!Databases
    /\ e.has = has /\ e.rows = some /\ e.agentProject = ap /\ e.project = p
    /\ e.general = general /\ e.originType = ot /\ e.enabled = enabled /\ e.status = status
    /\ e.panel = mark /\ e.url = url /\ e.web = web /\ e.unified = u
    /\ e.unifiedResource = ur

LEMMA ColumnAdded ==
    ASSUME NEW d, Sound(d), NEW c \in S!Columns, c \notin d.has
    PROVE  Columned(S!AddColumn(d, c), d.has \cup {c}, d.rows,
               IF c = "project" /\ d.rows THEN "default" ELSE d.agentProject,
               IF c = "project" /\ d.rows THEN "default" ELSE d.project,
               d.general,
               IF c = "origin" /\ d.rows THEN "local" ELSE d.originType,
               d.enabled,
               IF c = "status" /\ d.rows THEN "active" ELSE d.status,
               d.panel, d.url, d.web, d.unified, d.unifiedResource)
  <1>1. CASE c = "project"
    BY <1>1 DEF S!AddColumn, Sound, S!Databases, Columned
  <1>2. CASE c = "origin"
    BY <1>2 DEF S!AddColumn, Sound, S!Databases, Columned
  <1>3. CASE c = "status"
    BY <1>3 DEF S!AddColumn, Sound, S!Databases, Columned
  <1>4. CASE c \notin {"project", "origin", "status"}
    BY <1>4 DEF S!AddColumn, Sound, S!Databases, Columned
  <1> QED BY <1>1, <1>2, <1>3, <1>4

LEMMA RunIs ==
    ASSUME NEW d
    PROVE  /\ S!Run(d, "base") = IF "core" \notin d.has
                                 THEN [d EXCEPT !.has = @ \cup {"core"} \cup S!Columns] ELSE d
           /\ S!Run(d, "originOfAgent") = d
           /\ S!Run(d, "statusOfEnabled") = d
           /\ S!Run(d, "general") = IF S!NeedsGeneral(d) THEN [d EXCEPT !.general = TRUE] ELSE d
           /\ S!Run(d, "agentsToGeneral") =
                 IF d.agentProject = "" THEN [d EXCEPT !.agentProject = "default"] ELSE d
           /\ S!Run(d, "resourcesToGeneral") =
                 IF d.project = "" THEN [d EXCEPT !.project = "default"] ELSE d
           /\ S!Run(d, "enabledOfStatus") =
                 IF d.rows THEN [d EXCEPT !.enabled = (d.status = "active")] ELSE d
           /\ S!Run(d, "ensurePanelDomain") =
                 IF d.rows /\ d.panel = "absent" THEN [d EXCEPT !.panel = "row"] ELSE d
           /\ S!Run(d, "clearPrimary") =
                 IF d.panel = "primary" THEN [d EXCEPT !.panel = "row"] ELSE d
           /\ S!Run(d, "setPrimary") =
                 IF d.panel = "row" THEN [d EXCEPT !.panel = "primary"] ELSE d
           /\ S!Run(d, "linkAgents") = IF d.rows THEN [d EXCEPT !.url = TRUE] ELSE d
           /\ S!Run(d, "webTables") = S!AddTable(d, "web")
           /\ S!Run(d, "unifiedTables") = S!AddTable(d, "unified")
           /\ S!Run(d, "copyWeb") = [d EXCEPT !.unified = @ \/ d.web]
           /\ S!Run(d, "copyWebResources") = [d EXCEPT !.unifiedResource = @ \/ d.web]
           /\ S!Run(d, "resetTable") = S!AddTable(d, "reset")
           /\ S!Run(d, "createTrusted") = S!AddTable(d, "trusted")
           /\ S!Run(d, "dropTrusted") = [d EXCEPT !.has = @ \ {"trusted"}]
  BY DEF S!Run

\* What a text makes of the columns and tables.
HasAfter(d, name) ==
    CASE name = "base" /\ "core" \notin d.has -> d.has \cup {"core"} \cup S!Columns
      [] name = "webTables" -> d.has \cup {"web"}
      [] name = "unifiedTables" -> d.has \cup {"unified"}
      [] name = "resetTable" -> d.has \cup {"reset"}
      [] name = "createTrusted" -> d.has \cup {"trusted"}
      [] name = "dropTrusted" -> d.has \ {"trusted"}
      [] OTHER -> d.has

\* And of each column of the rows.
LEMMA TextRun ==
    ASSUME NEW d, Sound(d), NEW name \in Texts
    PROVE  Columned(S!Run(d, name), HasAfter(d, name), d.rows,
               IF name = "agentsToGeneral" /\ d.agentProject = "" THEN "default"
               ELSE d.agentProject,
               IF name = "resourcesToGeneral" /\ d.project = "" THEN "default" ELSE d.project,
               IF name = "general" /\ S!NeedsGeneral(d) THEN TRUE ELSE d.general,
               d.originType,
               IF name = "enabledOfStatus" /\ d.rows THEN d.status = "active" ELSE d.enabled,
               d.status,
               IF \/ name = "ensurePanelDomain" /\ d.rows /\ d.panel = "absent"
                  \/ name = "clearPrimary" /\ d.panel = "primary" THEN "row"
               ELSE IF name = "setPrimary" /\ d.panel = "row" THEN "primary" ELSE d.panel,
               IF name = "linkAgents" /\ d.rows THEN TRUE ELSE d.url,
               d.web,
               IF name = "copyWeb" THEN d.unified \/ d.web ELSE d.unified,
               IF name = "copyWebResources" THEN d.unifiedResource \/ d.web
               ELSE d.unifiedResource)
  <1>1. CASE name = "base"
    <2>1. S!Run(d, name) = IF "core" \notin d.has
                           THEN [d EXCEPT !.has = @ \cup {"core"} \cup S!Columns] ELSE d
      BY <1>1, RunIs
    <2>2. HasAfter(d, name) = IF "core" \notin d.has
                              THEN d.has \cup {"core"} \cup S!Columns ELSE d.has
      BY <1>1 DEF HasAfter
    <2>3. PICK e : e = S!Run(d, name)
      OBVIOUS
    <2>4. HasAfter(d, name) \subseteq S!Columns \cup S!Tables
      BY <2>2 DEF Sound, S!Databases, S!Tables
    <2>5. e = [d EXCEPT !.has = HasAfter(d, name)]
      BY <2>1, <2>2, <2>3 DEF Sound, S!Databases
    <2>6. e \in S!Databases
      BY <2>4, <2>5 DEF Sound, S!Databases
    <2>7. /\ e.has = HasAfter(d, name) /\ e.rows = d.rows /\ e.agentProject = d.agentProject
          /\ e.project = d.project /\ e.general = d.general /\ e.originType = d.originType
          /\ e.enabled = d.enabled /\ e.status = d.status /\ e.panel = d.panel
          /\ e.url = d.url /\ e.web = d.web
          /\ e.unified = d.unified /\ e.unifiedResource = d.unifiedResource
      BY <2>5 DEF Sound, S!Databases
    <2> QED BY <1>1, <2>3, <2>6, <2>7 DEF Columned
  <1>2. CASE name = "originOfAgent"
    <2>1. S!Run(d, name) = d
      BY <1>2, RunIs
    <2>2. HasAfter(d, name) = d.has
      BY <1>2 DEF HasAfter
    <2> QED BY <1>2, <2>1, <2>2 DEF Sound, S!Databases, Columned
  <1>3. CASE name = "statusOfEnabled"
    <2>1. S!Run(d, name) = d
      BY <1>3, RunIs
    <2>2. HasAfter(d, name) = d.has
      BY <1>3 DEF HasAfter
    <2> QED BY <1>3, <2>1, <2>2 DEF Sound, S!Databases, Columned
  <1>4. CASE name = "general"
    <2>1. S!Run(d, name) = IF S!NeedsGeneral(d) THEN [d EXCEPT !.general = TRUE] ELSE d
      BY <1>4, RunIs
    <2>2. HasAfter(d, name) = d.has
      BY <1>4 DEF HasAfter
    <2> QED BY <1>4, <2>1, <2>2 DEF Sound, S!Databases, Columned
  <1>5. CASE name = "agentsToGeneral"
    <2>1. S!Run(d, name) = IF d.agentProject = "" THEN [d EXCEPT !.agentProject = "default"] ELSE d
      BY <1>5, RunIs
    <2>2. HasAfter(d, name) = d.has
      BY <1>5 DEF HasAfter
    <2> QED BY ZenonT(40), <1>5, <2>1, <2>2 DEF Sound, S!Databases, Columned
  <1>6. CASE name = "resourcesToGeneral"
    <2>1. S!Run(d, name) = IF d.project = "" THEN [d EXCEPT !.project = "default"] ELSE d
      BY <1>6, RunIs
    <2>2. HasAfter(d, name) = d.has
      BY <1>6 DEF HasAfter
    <2> QED BY ZenonT(40), <1>6, <2>1, <2>2 DEF Sound, S!Databases, Columned
  <1>7. CASE name = "enabledOfStatus"
    <2>1. S!Run(d, name) = IF d.rows THEN [d EXCEPT !.enabled = (d.status = "active")] ELSE d
      BY <1>7, RunIs
    <2>2. HasAfter(d, name) = d.has
      BY <1>7 DEF HasAfter
    <2> QED BY ZenonT(40), <1>7, <2>1, <2>2 DEF Sound, S!Databases, Columned
  <1>8. CASE name = "ensurePanelDomain"
    <2>1. S!Run(d, name) = IF d.rows /\ d.panel = "absent" THEN [d EXCEPT !.panel = "row"] ELSE d
      BY <1>8, RunIs
    <2>2. HasAfter(d, name) = d.has
      BY <1>8 DEF HasAfter
    <2>3. PICK e : e = S!Run(d, name)
      OBVIOUS
    <2>4. PICK mark : mark = IF d.rows /\ d.panel = "absent" THEN "row" ELSE d.panel
      OBVIOUS
    <2>5. e \in S!Databases /\ e.panel = mark
      BY ZenonT(40), <2>1, <2>3, <2>4 DEF Sound, S!Databases
    <2>6. /\ e.has = d.has /\ e.rows = d.rows /\ e.agentProject = d.agentProject
          /\ e.project = d.project /\ e.general = d.general /\ e.originType = d.originType
          /\ e.enabled = d.enabled /\ e.status = d.status /\ e.url = d.url /\ e.web = d.web
          /\ e.unified = d.unified /\ e.unifiedResource = d.unifiedResource
      BY <2>1, <2>3 DEF Sound, S!Databases
    <2>8. /\ name # "agentsToGeneral" /\ name # "resourcesToGeneral" /\ name # "general"
          /\ name # "enabledOfStatus" /\ name # "clearPrimary" /\ name # "setPrimary"
          /\ name # "linkAgents" /\ name # "copyWeb" /\ name # "copyWebResources"
      BY <1>8
    <2>9. mark = IF \/ name = "ensurePanelDomain" /\ d.rows /\ d.panel = "absent"
                    \/ name = "clearPrimary" /\ d.panel = "primary" THEN "row"
                 ELSE IF name = "setPrimary" /\ d.panel = "row" THEN "primary" ELSE d.panel
      BY <1>8, <2>4
    <2> QED BY <1>8, <2>2, <2>3, <2>5, <2>6, <2>8, <2>9 DEF Columned
  <1>9. CASE name = "clearPrimary"
    <2>1. S!Run(d, name) = IF d.panel = "primary" THEN [d EXCEPT !.panel = "row"] ELSE d
      BY <1>9, RunIs
    <2>2. HasAfter(d, name) = d.has
      BY <1>9 DEF HasAfter
    <2> QED BY ZenonT(40), <1>9, <2>1, <2>2 DEF Sound, S!Databases, Columned
  <1>10. CASE name = "setPrimary"
    <2>1. S!Run(d, name) = IF d.panel = "row" THEN [d EXCEPT !.panel = "primary"] ELSE d
      BY <1>10, RunIs
    <2>2. HasAfter(d, name) = d.has
      BY <1>10 DEF HasAfter
    <2> QED BY ZenonT(40), <1>10, <2>1, <2>2 DEF Sound, S!Databases, Columned
  <1>11. CASE name = "linkAgents"
    <2>1. S!Run(d, name) = IF d.rows THEN [d EXCEPT !.url = TRUE] ELSE d
      BY <1>11, RunIs
    <2>2. HasAfter(d, name) = d.has
      BY <1>11 DEF HasAfter
    <2> QED BY ZenonT(40), <1>11, <2>1, <2>2 DEF Sound, S!Databases, Columned
  <1>12. CASE name = "webTables"
    <2>1. S!Run(d, name) = [d EXCEPT !.has = d.has \cup {"web"}]
      BY <1>12, RunIs DEF S!AddTable
    <2>2. HasAfter(d, name) = d.has \cup {"web"}
      BY <1>12 DEF HasAfter
    <2> QED BY ZenonT(40), <1>12, <2>1, <2>2 DEF Sound, S!Databases, Columned, S!Tables
  <1>13. CASE name = "unifiedTables"
    <2>1. S!Run(d, name) = [d EXCEPT !.has = d.has \cup {"unified"}]
      BY <1>13, RunIs DEF S!AddTable
    <2>2. HasAfter(d, name) = d.has \cup {"unified"}
      BY <1>13 DEF HasAfter
    <2> QED BY ZenonT(40), <1>13, <2>1, <2>2 DEF Sound, S!Databases, Columned, S!Tables
  <1>14. CASE name = "copyWeb"
    <2>1. S!Run(d, name) = [d EXCEPT !.unified = d.unified \/ d.web]
      BY <1>14, RunIs
    <2>2. HasAfter(d, name) = d.has
      BY <1>14 DEF HasAfter
    <2> QED BY <1>14, <2>1, <2>2 DEF Sound, S!Databases, Columned
  <1>15. CASE name = "copyWebResources"
    <2>1. S!Run(d, name) = [d EXCEPT !.unifiedResource = d.unifiedResource \/ d.web]
      BY <1>15, RunIs
    <2>2. HasAfter(d, name) = d.has
      BY <1>15 DEF HasAfter
    <2> QED BY <1>15, <2>1, <2>2 DEF Sound, S!Databases, Columned
  <1>16. CASE name = "resetTable"
    <2>1. S!Run(d, name) = [d EXCEPT !.has = d.has \cup {"reset"}]
      BY <1>16, RunIs DEF S!AddTable
    <2>2. HasAfter(d, name) = d.has \cup {"reset"}
      BY <1>16 DEF HasAfter
    <2> QED BY ZenonT(40), <1>16, <2>1, <2>2 DEF Sound, S!Databases, Columned, S!Tables
  <1>17. CASE name = "createTrusted"
    <2>1. S!Run(d, name) = [d EXCEPT !.has = d.has \cup {"trusted"}]
      BY <1>17, RunIs DEF S!AddTable
    <2>2. HasAfter(d, name) = d.has \cup {"trusted"}
      BY <1>17 DEF HasAfter
    <2> QED BY ZenonT(40), <1>17, <2>1, <2>2 DEF Sound, S!Databases, Columned, S!Tables
  <1>18. CASE name = "dropTrusted"
    <2>1. S!Run(d, name) = [d EXCEPT !.has = d.has \ {"trusted"}]
      BY <1>18, RunIs
    <2>2. HasAfter(d, name) = d.has \ {"trusted"}
      BY <1>18 DEF HasAfter
    <2> QED BY <1>18, <2>1, <2>2 DEF Sound, S!Databases, Columned
  <1> QED BY <1>1, <1>2, <1>3, <1>4, <1>5, <1>6, <1>7, <1>8, <1>9, <1>10, <1>11, <1>12,
            <1>13, <1>14, <1>15, <1>16, <1>17, <1>18 DEF Texts

\* The columns that the end depends on.
SameEnd(e, d) ==
    /\ e.rows = d.rows /\ e.web = d.web
    /\ InProject(e, e.agentProject) = InProject(d, d.agentProject)
    /\ InProject(e, e.project) = InProject(d, d.project)
    /\ FinalGeneral(e) = FinalGeneral(d)
    /\ DefaultOf(e, "origin", e.originType, "local") = DefaultOf(d, "origin", d.originType, "local")
    /\ FinalEnabled(e) = FinalEnabled(d) /\ FinalStatus(e) = FinalStatus(d)
    /\ FinalPanel(e) = FinalPanel(d)
    /\ (e.url \/ e.rows) = (d.url \/ d.rows)
    /\ (e.unified \/ e.web) = (d.unified \/ d.web)
    /\ (e.unifiedResource \/ e.web) = (d.unifiedResource \/ d.web)

LEMMA SameFinish == ASSUME NEW d, NEW e, SameEnd(e, d) PROVE Finish(e) = Finish(d)
  BY Zenon DEF SameEnd, Finish

\* What becomes of a project that is given in place of the empty one.
LEMMA ProjectSame ==
    ASSUME NEW d, NEW e, NEW p, NEW q, e.rows = d.rows, q = p \/ (p = "" /\ q = "default"),
           d.rows => ("project" \in e.has <=> "project" \in d.has)
    PROVE  InProject(e, q) = InProject(d, p) /\ (InGeneral(e, q) <=> InGeneral(d, p))
  <1>1. CASE "project" \notin d.has /\ d.rows
    <2>1. DefaultOf(d, "project", p, "default") = "default"
          /\ DefaultOf(e, "project", q, "default") = "default"
      BY <1>1 DEF DefaultOf
    <2> QED BY <2>1 DEF InProject, InGeneral
  <1>2. CASE ~("project" \notin d.has /\ d.rows)
    <2>1. DefaultOf(d, "project", p, "default") = p
          /\ DefaultOf(e, "project", q, "default") = q
      BY <1>2 DEF DefaultOf
    <2> QED BY <2>1 DEF InProject, InGeneral
  <1> QED BY <1>1, <1>2

\* A statement keeps the rows, takes out at most the tables of trusted networks, and does
\* not change what all migrations make of the database.
LEMMA ColumnKeeps ==
    ASSUME NEW d, Sound(d), NEW c \in S!Columns, c \notin d.has
    PROVE  LET e == S!AddColumn(d, c) IN
           /\ Sound(e) /\ e.rows = d.rows
           /\ d.has \subseteq e.has \cup {"trusted"}
           /\ Finish(e) = Finish(d)
  <1>1. PICK e : e = S!AddColumn(d, c)
    OBVIOUS
  <1>2. Sound(e) /\ e.rows = d.rows /\ d.has \subseteq e.has \cup {"trusted"}
    BY <1>1, ColumnAdded DEF Columned, Sound
  <1>3. /\ e.has = d.has \cup {c} /\ e.rows = d.rows /\ e.panel = d.panel
        /\ e.general = d.general /\ e.enabled = d.enabled /\ e.url = d.url /\ e.web = d.web
        /\ e.unified = d.unified /\ e.unifiedResource = d.unifiedResource
    BY <1>1, ColumnAdded DEF Columned
  <1>4. /\ e.agentProject = IF c = "project" /\ d.rows THEN "default" ELSE d.agentProject
        /\ e.project = IF c = "project" /\ d.rows THEN "default" ELSE d.project
    BY <1>1, ColumnAdded DEF Columned
  <1>5. /\ e.originType = IF c = "origin" /\ d.rows THEN "local" ELSE d.originType
        /\ e.status = IF c = "status" /\ d.rows THEN "active" ELSE d.status
    BY <1>1, ColumnAdded DEF Columned
  <1>6. /\ InProject(e, e.agentProject) = InProject(d, d.agentProject)
        /\ InProject(e, e.project) = InProject(d, d.project)
    <2>1. CASE c = "project" /\ d.rows
      <3>1. InProject(d, d.agentProject) = "default" /\ InProject(d, d.project) = "default"
        BY <2>1 DEF InProject, DefaultOf
      <3>2. e.agentProject = "default" /\ e.project = "default" /\ "project" \in e.has
        BY <2>1, <1>3, <1>4
      <3>3. InProject(e, "default") = "default"
        BY <3>2 DEF InProject, DefaultOf
      <3> QED BY <3>1, <3>2, <3>3
    <2>2. CASE ~(c = "project" /\ d.rows)
      <3>1. e.agentProject = d.agentProject /\ e.project = d.project
        BY <2>2, <1>4
      <3>2. d.rows => ("project" \in e.has <=> "project" \in d.has)
        BY <2>2, <1>3
      <3>3. e.rows = d.rows
        BY <1>3
      <3>4. InProject(e, e.agentProject) = InProject(d, d.agentProject)
        BY <3>1, <3>2, <3>3 DEF InProject, DefaultOf
      <3>5. InProject(e, e.project) = InProject(d, d.project)
        BY <3>1, <3>2, <3>3 DEF InProject, DefaultOf
      <3> QED BY <3>4, <3>5
    <2> QED BY <2>1, <2>2
  <1>7. FinalGeneral(e) = FinalGeneral(d)
    BY <1>3, <1>4 DEF FinalGeneral, InGeneral, DefaultOf
  <1>8. /\ DefaultOf(e, "origin", e.originType, "local")
               = DefaultOf(d, "origin", d.originType, "local")
        /\ FinalStatus(e) = FinalStatus(d) /\ FinalEnabled(e) = FinalEnabled(d)
    BY <1>3, <1>5 DEF FinalStatus, FinalEnabled, DefaultOf
  <1>9. SameEnd(e, d)
    BY <1>3, <1>6, <1>7, <1>8 DEF SameEnd, FinalPanel
  <1> QED BY <1>1, <1>2, <1>9, SameFinish

LEMMA TextKeeps ==
    ASSUME NEW d, Sound(d), NEW name \in Texts
    PROVE  LET e == S!Run(d, name) IN
           /\ Sound(e) /\ e.rows = d.rows
           /\ d.has \subseteq e.has \cup {"trusted"}
           /\ Finish(e) = Finish(d)
  <1>1. PICK e : e = S!Run(d, name)
    OBVIOUS
  <1>2. d.has \subseteq HasAfter(d, name) \cup {"trusted"}
    BY DEF HasAfter
  <1>3. e \in S!Databases /\ e.rows = d.rows /\ e.has = HasAfter(d, name)
    BY <1>1, TextRun DEF Columned
  <1>4. \A c \in {"project", "origin", "status"} :
           d.rows => (c \in HasAfter(d, name) <=> c \in d.has)
    BY DEF HasAfter, Sound
  <1>5. e.web = d.web /\ e.status = d.status /\ e.originType = d.originType
    BY <1>1, TextRun DEF Columned
  <1>6. FinalStatus(e) = FinalStatus(d)
    BY <1>3, <1>4, <1>5 DEF FinalStatus, DefaultOf
  <1>7. DefaultOf(e, "origin", e.originType, "local")
           = DefaultOf(d, "origin", d.originType, "local")
    BY <1>3, <1>4, <1>5 DEF DefaultOf
  <1>15. /\ e.agentProject = IF name = "agentsToGeneral" /\ d.agentProject = ""
                             THEN "default" ELSE d.agentProject
         /\ e.project = IF name = "resourcesToGeneral" /\ d.project = ""
                        THEN "default" ELSE d.project
    BY <1>1, TextRun DEF Columned
  <1>16. e.general = IF name = "general" /\ S!NeedsGeneral(d) THEN TRUE ELSE d.general
    BY <1>1, TextRun DEF Columned
  <1>19. /\ e.agentProject = d.agentProject \/ (d.agentProject = "" /\ e.agentProject = "default")
         /\ e.project = d.project \/ (d.project = "" /\ e.project = "default")
    BY <1>15
  <1>20. e.rows = d.rows /\ (d.rows => ("project" \in e.has <=> "project" \in d.has))
    BY <1>3, <1>4
  <1>21. /\ InProject(e, e.agentProject) = InProject(d, d.agentProject)
         /\ InGeneral(e, e.agentProject) <=> InGeneral(d, d.agentProject)
    <2>1. PICK q : q = e.agentProject
      OBVIOUS
    <2>2. PICK p : p = d.agentProject
      OBVIOUS
    <2>3. q = p \/ (p = "" /\ q = "default")
      BY <2>1, <2>2, <1>19
    <2>4. InProject(e, q) = InProject(d, p) /\ (InGeneral(e, q) <=> InGeneral(d, p))
      BY <2>3, <1>20, ProjectSame
    <2> QED BY <2>1, <2>2, <2>4
  <1>22. /\ InProject(e, e.project) = InProject(d, d.project)
         /\ InGeneral(e, e.project) <=> InGeneral(d, d.project)
    <2>1. PICK q : q = e.project
      OBVIOUS
    <2>2. PICK p : p = d.project
      OBVIOUS
    <2>3. q = p \/ (p = "" /\ q = "default")
      BY <2>1, <2>2, <1>19
    <2>4. InProject(e, q) = InProject(d, p) /\ (InGeneral(e, q) <=> InGeneral(d, p))
      BY <2>3, <1>20, ProjectSame
    <2> QED BY <2>1, <2>2, <2>4
  <1>8. /\ InProject(e, e.agentProject) = InProject(d, d.agentProject)
        /\ InProject(e, e.project) = InProject(d, d.project)
    BY <1>21, <1>22
  <1>9. FinalGeneral(e) = FinalGeneral(d)
    <2>1. /\ InGeneral(e, e.agentProject) <=> InGeneral(d, d.agentProject)
          /\ InGeneral(e, e.project) <=> InGeneral(d, d.project)
      BY <1>21, <1>22
    <2>2. name = "general" /\ S!NeedsGeneral(d) =>
              InGeneral(d, d.agentProject) \/ InGeneral(d, d.project)
      BY DEF InGeneral, DefaultOf, S!NeedsGeneral
    <2> QED BY <2>1, <2>2, <1>16 DEF FinalGeneral
  <1>10. FinalEnabled(e) = FinalEnabled(d)
    BY ZenonT(40), <1>1, <1>3, <1>4, <1>6, TextRun
    DEF  FinalEnabled, FinalStatus, DefaultOf, Columned
  <1>11. FinalPanel(e) = FinalPanel(d)
    BY ZenonT(40), <1>1, <1>3, TextRun DEF FinalPanel, Columned
  <1>17. /\ e.url = IF name = "linkAgents" /\ d.rows THEN TRUE ELSE d.url
         /\ e.unified = IF name = "copyWeb" THEN d.unified \/ d.web ELSE d.unified
         /\ e.unifiedResource = IF name = "copyWebResources" THEN d.unifiedResource \/ d.web
                                ELSE d.unifiedResource
    BY <1>1, TextRun DEF Columned
  <1>12. (e.url \/ e.rows) = (d.url \/ d.rows)
    BY <1>3, <1>17
  <1>13. (e.unified \/ e.web) = (d.unified \/ d.web)
    BY <1>5, <1>17
  <1>14. (e.unifiedResource \/ e.web) = (d.unifiedResource \/ d.web)
    BY <1>5, <1>17
  <1>18. Sound(e)
    BY <1>2, <1>3 DEF Sound
  <1> QED BY <1>1, <1>2, <1>3, <1>5, <1>6, <1>7, <1>8, <1>9, <1>10, <1>11, <1>12, <1>13, <1>14,
             <1>18, SameFinish DEF SameEnd

LEMMA EffectKeeps ==
    ASSUME NEW d, Sound(d), NEW s \in Statements
    PROVE  LET e == S!Effect(d, s) IN
           /\ Sound(e) /\ e.rows = d.rows
           /\ d.has \subseteq e.has \cup {"trusted"}
           /\ Finish(e) = Finish(d)
  <1>1. CASE \E c \in S!Columns : s = S!Column(c) /\ S!Effect(d, s) = IF c \in d.has THEN d
                                                                 ELSE S!AddColumn(d, c)
    <2>1. PICK c \in S!Columns : S!Effect(d, s) = IF c \in d.has THEN d ELSE S!AddColumn(d, c)
      BY <1>1
    <2>2. CASE c \in d.has
      BY <2>1, <2>2
    <2>3. CASE c \notin d.has
      BY <2>1, <2>3, ColumnKeeps
    <2> QED BY <2>2, <2>3
  <1>2. CASE \E name \in Texts : s = S!Sql(name) /\ S!Effect(d, s) = S!Run(d, name)
    BY <1>2, TextKeeps
  <1> QED BY <1>1, <1>2, EffectCases

LEMMA LastingColumn == ASSUME NEW d, NEW c PROVE Lasting(d, S!Column(c)) <=> c \in d.has
  BY DEF Lasting, S!Column

LEMMA LastingText == ASSUME NEW d, NEW name PROVE Lasting(d, S!Sql(name)) <=> Done(d, name)
  <1>1. S!Sql(name).op # "column" /\ S!Sql(name).name = name
    BY DEF S!Sql
  <1> QED BY <1>1 DEF Lasting

\* What a statement does, it has done.
LEMMA EffectLasts ==
    ASSUME NEW d, Sound(d), NEW s \in Statements
    PROVE  Lasting(S!Effect(d, s), s)
  <1>1. ASSUME NEW c \in S!Columns, s = S!Column(c),
               S!Effect(d, s) = IF c \in d.has THEN d ELSE S!AddColumn(d, c)
        PROVE  Lasting(S!Effect(d, s), s)
    <2>1. c \in S!Effect(d, s).has
      BY <1>1, ColumnAdded DEF Columned
    <2> QED BY <2>1, <1>1, LastingColumn
  <1>2. ASSUME NEW name \in Texts, s = S!Sql(name), S!Effect(d, s) = S!Run(d, name)
        PROVE  Lasting(S!Effect(d, s), s)
    <2>1. PICK e : e = S!Run(d, name)
      OBVIOUS
    <2>2. /\ e.has = HasAfter(d, name) /\ e.rows = d.rows /\ e.status = d.status
          /\ e.web = d.web
      BY <2>1, TextRun DEF Columned
    <2>3. /\ name = "base" => "core" \in e.has
          /\ name = "webTables" => "web" \in e.has
          /\ name = "unifiedTables" => "unified" \in e.has
          /\ name = "resetTable" => "reset" \in e.has
          /\ name = "dropTrusted" => "trusted" \notin e.has
      BY <2>2 DEF HasAfter
    <2>10. /\ e.agentProject = IF name = "agentsToGeneral" /\ d.agentProject = ""
                              THEN "default" ELSE d.agentProject
           /\ e.project = IF name = "resourcesToGeneral" /\ d.project = ""
                         THEN "default" ELSE d.project
      BY <2>1, TextRun DEF Columned
    <2>4. /\ name = "agentsToGeneral" => e.agentProject # ""
          /\ name = "resourcesToGeneral" => e.project # ""
      BY <2>10
    <2>5. name = "general" /\ S!NeedsGeneral(e) => e.general
      <3>1. e.general = IF name = "general" /\ S!NeedsGeneral(d) THEN TRUE ELSE d.general
        BY <2>1, TextRun DEF Columned
      <3>2. name = "general" => e.agentProject = d.agentProject /\ e.project = d.project
        BY <2>1, TextRun DEF Columned
      <3> QED BY <3>1, <3>2 DEF S!NeedsGeneral
    <2>6. name = "enabledOfStatus" /\ d.rows => e.enabled = (d.status = "active")
      <3>1. e.enabled = IF name = "enabledOfStatus" /\ d.rows THEN d.status = "active"
                        ELSE d.enabled
        BY <2>1, TextRun DEF Columned
      <3> QED BY <3>1
    <2>7. /\ name = "ensurePanelDomain" /\ d.rows => e.panel # "absent"
          /\ name = "setPrimary" => e.panel # "row"
      <3>1. e.panel = IF \/ name = "ensurePanelDomain" /\ d.rows /\ d.panel = "absent"
                         \/ name = "clearPrimary" /\ d.panel = "primary" THEN "row"
                      ELSE IF name = "setPrimary" /\ d.panel = "row" THEN "primary" ELSE d.panel
        BY <2>1, TextRun DEF Columned
      <3> QED BY <3>1
    <2>8. /\ name = "linkAgents" /\ d.rows => e.url
          /\ name = "copyWeb" /\ d.web => e.unified
          /\ name = "copyWebResources" /\ d.web => e.unifiedResource
      <3>1. /\ e.url = IF name = "linkAgents" /\ d.rows THEN TRUE ELSE d.url
            /\ e.unified = IF name = "copyWeb" THEN d.unified \/ d.web ELSE d.unified
            /\ e.unifiedResource = IF name = "copyWebResources" THEN d.unifiedResource \/ d.web
                                   ELSE d.unifiedResource
        BY <2>1, TextRun DEF Columned
      <3> QED BY <3>1
    <2>9. Done(e, name)
      BY <2>2, <2>3, <2>4, <2>5, <2>6, <2>7, <2>8 DEF Done
    <2> QED BY <1>2, <2>1, <2>9, LastingText
  <1> QED BY <1>1, <1>2, EffectCases

\* What a statement has done stays under any other that does not undo it.
LEMMA ColumnSpares ==
    ASSUME NEW d, Sound(d), NEW c \in S!Columns, c \notin d.has,
           NEW t \in Statements, Lasting(d, t), ~Undoes(S!Column(c), t)
    PROVE  Lasting(S!AddColumn(d, c), t)
  <1>1. PICK e : e = S!AddColumn(d, c)
    OBVIOUS
  <1>2. /\ e.has = d.has \cup {c} /\ e.rows = d.rows /\ e.panel = d.panel
        /\ e.general = d.general /\ e.enabled = d.enabled /\ e.url = d.url /\ e.web = d.web
        /\ e.unified = d.unified /\ e.unifiedResource = d.unifiedResource
    BY <1>1, ColumnAdded DEF Columned
  <1>3. /\ e.agentProject = IF c = "project" /\ d.rows THEN "default" ELSE d.agentProject
        /\ e.project = IF c = "project" /\ d.rows THEN "default" ELSE d.project
        /\ e.status = IF c = "status" /\ d.rows THEN "active" ELSE d.status
    BY <1>1, ColumnAdded DEF Columned
  <1>4. ASSUME NEW b \in S!Columns, t = S!Column(b)
        PROVE  Lasting(e, t)
    BY <1>2, <1>4, LastingColumn
  <1>5. ASSUME NEW name \in Texts, t = S!Sql(name)
        PROVE  Lasting(e, t)
    <2>1. /\ name = "general" => c # "project"
          /\ name = "enabledOfStatus" => c # "status"
      BY <1>5 DEF Undoes
    <2>2. c # "trusted"
      BY DEF S!Columns
    <2>3. Done(d, name)
      BY <1>5, LastingText
    <2>4. name = "general" /\ S!NeedsGeneral(e) => e.general
      BY <1>2, <1>3, <2>1, <2>3 DEF S!NeedsGeneral, Done
    <2>5. /\ name = "agentsToGeneral" => e.agentProject # ""
          /\ name = "resourcesToGeneral" => e.project # ""
      BY <1>3, <2>3 DEF Done
    <2>6. name = "enabledOfStatus" /\ e.rows => e.enabled = (e.status = "active")
      <3>1. name = "enabledOfStatus" => e.status = d.status
        BY <1>3, <2>1
      <3> QED BY <1>2, <3>1, <2>3 DEF Done
    <2>8. /\ name = "base" => "core" \in e.has
          /\ name = "webTables" => "web" \in e.has
          /\ name = "unifiedTables" => "unified" \in e.has
          /\ name = "resetTable" => "reset" \in e.has
          /\ name = "dropTrusted" => "trusted" \notin e.has
      BY <1>2, <2>2, <2>3 DEF Done
    <2>9. /\ name = "ensurePanelDomain" /\ e.rows => e.panel # "absent"
          /\ name = "setPrimary" => e.panel # "row"
          /\ name = "linkAgents" /\ e.rows => e.url
          /\ name = "copyWeb" /\ e.web => e.unified
          /\ name = "copyWebResources" /\ e.web => e.unifiedResource
      BY <1>2, <2>3 DEF Done
    <2>7. Done(e, name)
      BY <2>4, <2>5, <2>6, <2>8, <2>9 DEF Done
    <2> QED BY <1>5, <2>7, LastingText
  <1> QED BY <1>1, <1>4, <1>5 DEF Statements

LEMMA TextSpares ==
    ASSUME NEW d, Sound(d), NEW n \in Texts,
           NEW t \in Statements, Lasting(d, t), ~Undoes(S!Sql(n), t)
    PROVE  Lasting(S!Run(d, n), t)
  <1>1. PICK e : e = S!Run(d, n)
    OBVIOUS
  <1>2. /\ e.has = HasAfter(d, n) /\ e.rows = d.rows /\ e.status = d.status
        /\ e.web = d.web
    BY <1>1, TextRun DEF Columned
  <1>3. /\ e.agentProject = IF n = "agentsToGeneral" /\ d.agentProject = ""
                            THEN "default" ELSE d.agentProject
        /\ e.project = IF n = "resourcesToGeneral" /\ d.project = ""
                       THEN "default" ELSE d.project
    BY <1>1, TextRun DEF Columned
  <1>6. e.general = IF n = "general" /\ S!NeedsGeneral(d) THEN TRUE ELSE d.general
    BY <1>1, TextRun DEF Columned
  <1>7. e.enabled = IF n = "enabledOfStatus" /\ d.rows THEN d.status = "active" ELSE d.enabled
    BY <1>1, TextRun DEF Columned
  <1>8. e.panel = IF \/ n = "ensurePanelDomain" /\ d.rows /\ d.panel = "absent"
                     \/ n = "clearPrimary" /\ d.panel = "primary" THEN "row"
                  ELSE IF n = "setPrimary" /\ d.panel = "row" THEN "primary" ELSE d.panel
    BY <1>1, TextRun DEF Columned
  <1>9. /\ e.url = IF n = "linkAgents" /\ d.rows THEN TRUE ELSE d.url
        /\ e.unified = IF n = "copyWeb" THEN d.unified \/ d.web ELSE d.unified
        /\ e.unifiedResource = IF n = "copyWebResources" THEN d.unifiedResource \/ d.web
                               ELSE d.unifiedResource
    BY <1>1, TextRun DEF Columned
  <1>10. d.has \subseteq e.has \cup {"trusted"}
    BY <1>2 DEF HasAfter
  <1>4. ASSUME NEW b \in S!Columns, t = S!Column(b)
        PROVE  Lasting(e, t)
    <2>1. b \in d.has
      BY <1>4, LastingColumn
    <2>2. b # "trusted"
      BY DEF S!Columns
    <2> QED BY <1>4, <1>10, <2>1, <2>2, LastingColumn
  <1>5. ASSUME NEW name \in Texts, t = S!Sql(name)
        PROVE  Lasting(e, t)
    <2>1. /\ name = "setPrimary" => n # "ensurePanelDomain" /\ n # "clearPrimary"
          /\ name = "dropTrusted" => n # "createTrusted"
      BY <1>5 DEF Undoes
    <2>3. Done(d, name)
      BY <1>5, LastingText
    <2>4. name = "general" /\ S!NeedsGeneral(e) => e.general
      <3>1. S!NeedsGeneral(e) => S!NeedsGeneral(d)
        BY <1>3 DEF S!NeedsGeneral
      <3> QED BY <1>6, <3>1, <2>3 DEF Done
    <2>5. /\ name = "agentsToGeneral" => e.agentProject # ""
          /\ name = "resourcesToGeneral" => e.project # ""
      BY <1>3, <2>3 DEF Done
    <2>6. name = "enabledOfStatus" /\ e.rows => e.enabled = (e.status = "active")
      BY <1>2, <1>7, <2>3 DEF Done
    <2>8. /\ name = "ensurePanelDomain" /\ d.rows => e.panel # "absent"
          /\ name = "setPrimary" => e.panel # "row"
      BY <1>8, <2>1, <2>3 DEF Done
    <2>9. /\ name = "linkAgents" /\ d.rows => e.url
          /\ name = "copyWeb" /\ d.web => e.unified
          /\ name = "copyWebResources" /\ d.web => e.unifiedResource
      BY <1>9, <2>3 DEF Done
    <2>10. /\ name = "base" => "core" \in e.has
           /\ name = "webTables" => "web" \in e.has
           /\ name = "unifiedTables" => "unified" \in e.has
           /\ name = "resetTable" => "reset" \in e.has
      BY <1>10, <2>3 DEF Done
    <2>11. name = "dropTrusted" => "trusted" \notin e.has
      BY <1>2, <2>1, <2>3 DEF HasAfter, S!Columns, Done
    <2>7. Done(e, name)
      BY <1>2, <2>4, <2>5, <2>6, <2>8, <2>9, <2>10, <2>11 DEF Done
    <2> QED BY <1>5, <2>7, LastingText
  <1> QED BY <1>1, <1>4, <1>5 DEF Statements

LEMMA EffectSpares ==
    ASSUME NEW d, Sound(d), NEW s \in Statements, NEW t \in Statements,
           Lasting(d, t), ~Undoes(s, t)
    PROVE  Lasting(S!Effect(d, s), t)
  <1>1. ASSUME NEW c \in S!Columns, s = S!Column(c),
               S!Effect(d, s) = IF c \in d.has THEN d ELSE S!AddColumn(d, c)
        PROVE  Lasting(S!Effect(d, s), t)
    BY <1>1, ColumnSpares
  <1>2. ASSUME NEW name \in Texts, s = S!Sql(name), S!Effect(d, s) = S!Run(d, name)
        PROVE  Lasting(S!Effect(d, s), t)
    BY <1>2, TextSpares
  <1> QED BY <1>1, <1>2, EffectCases

\* Places among the statements are numbers.
LEMMA PlacesTyped ==
    ASSUME NEW v \in DOMAIN S!Migrations
    PROVE  /\ v \in Nat /\ v \in 1..14 /\ Len(S!Migrations[v]) \in Nat
           /\ \A i \in DOMAIN S!Migrations[v] :
                 i \in Nat /\ 1 <= i /\ i <= Len(S!Migrations[v])
  <1>1. v \in 1..14
    BY MigrationList
  <1>2. Len(S!Migrations[v]) \in 1..9 /\ DOMAIN S!Migrations[v] = 1..Len(S!Migrations[v])
    BY StatementTyped
  <1>3. PICK n : n = Len(S!Migrations[v])
    OBVIOUS
  <1>4. n \in Nat /\ DOMAIN S!Migrations[v] = 1..n
    BY <1>2, <1>3
  <1> QED BY <1>1, <1>3, <1>4

\* The statements up to the next one have done their part, when this one has been run.
LEMMA UptoNext ==
    ASSUME NEW d, Sound(d), NEW v \in DOMAIN S!Migrations, NEW i \in DOMAIN S!Migrations[v],
           Upto(d, v, i)
    PROVE  Upto(S!Effect(d, S!Migrations[v][i]), v, i + 1)
  <1> DEFINE e == S!Effect(d, S!Migrations[v][i])
  <1>1. SUFFICES ASSUME NEW u \in DOMAIN S!Migrations, NEW j \in DOMAIN S!Migrations[u],
                        Before(u, j, v, i + 1)
                 PROVE  Lasting(e, S!Migrations[u][j])
    BY DEF Upto
  <1>2. S!Migrations[v][i] \in Statements /\ S!Migrations[u][j] \in Statements
        /\ i \in Nat /\ j \in Nat /\ u \in Nat /\ v \in Nat
    BY StatementTyped, PlacesTyped
  <1>3. CASE u = v /\ j = i
    BY <1>2, <1>3, EffectLasts
  <1>4. CASE Before(u, j, v, i)
    BY <1>2, <1>4, Order, EffectSpares DEF Upto
  <1> QED BY <1>1, <1>2, <1>3, <1>4 DEF Before

\* After the last of one migration, the next migration.
LEMMA UptoFollowing ==
    ASSUME NEW d, NEW v \in DOMAIN S!Migrations
    PROVE  /\ Upto(d, v, Len(S!Migrations[v]) + 1) <=> Upto(d, v + 1, 1)
           /\ Upto(d, v, 0) <=> Upto(d, v, 1)
  <1>1. ASSUME NEW u \in DOMAIN S!Migrations, NEW j \in DOMAIN S!Migrations[u]
        PROVE  /\ Before(u, j, v, Len(S!Migrations[v]) + 1) <=> Before(u, j, v + 1, 1)
               /\ Before(u, j, v, 0) <=> Before(u, j, v, 1)
    <2>1. u \in Nat /\ v \in Nat /\ j \in Nat /\ 1 <= j /\ Len(S!Migrations[v]) \in Nat
      BY PlacesTyped
    <2>2. u = v => j <= Len(S!Migrations[v])
      BY PlacesTyped
    <2> QED BY <2>1, <2>2 DEF Before
  <1> QED BY <1>1 DEF Upto

-----------------------------------------------------------------------------
(* Where the statements end. *)

InMigrations(s) ==
    \E v \in DOMAIN S!Migrations : \E i \in DOMAIN S!Migrations[v] : S!Migrations[v][i] = s

\* Every statement is in a migration.
LEMMA Listed ==
    ASSUME NEW s \in Statements, \A name \in {"originOfAgent", "statusOfEnabled"} : s # S!Sql(name)
    PROVE  InMigrations(s)
  <1>1. ASSUME NEW c \in S!Columns, s = S!Column(c)
        PROVE  InMigrations(s)
    <2>1. CASE c \in {"project", "origin"}
      <3>1. S!Migrations[2][1] = S!Column("project") /\ S!Migrations[2][2] = S!Column("origin")
            /\ {1, 2} \subseteq DOMAIN S!Migrations[2] /\ 2 \in DOMAIN S!Migrations
        BY MigrationList
      <3> QED BY <3>1, <2>1, <1>1 DEF InMigrations
    <2>2. CASE c \in {"status", "primary", "url"}
      <3>1. /\ S!Migrations[4][1] = S!Column("status") /\ S!Migrations[4][2] = S!Column("primary")
            /\ S!Migrations[4][3] = S!Column("url")
            /\ 1 \in DOMAIN S!Migrations[4] /\ 2 \in DOMAIN S!Migrations[4]
            /\ 3 \in DOMAIN S!Migrations[4] /\ 4 \in DOMAIN S!Migrations
        BY MigrationList
      <3> QED BY <3>1, <2>2, <1>1 DEF InMigrations
    <2>3. CASE c \in {"suspension", "fallback", "email"}
      <3>1. /\ S!Migrations[3][1] = S!Column("suspension") /\ 1 \in DOMAIN S!Migrations[3]
            /\ S!Migrations[5][1] = S!Column("fallback") /\ 1 \in DOMAIN S!Migrations[5]
            /\ S!Migrations[8][1] = S!Column("email") /\ 1 \in DOMAIN S!Migrations[8]
            /\ {3, 5, 8} \subseteq DOMAIN S!Migrations
        BY MigrationList
      <3> QED BY <3>1, <2>3, <1>1 DEF InMigrations
    <2>4. CASE c \in {"redirect", "client", "branding"}
      <3>1. /\ S!Migrations[9][1] = S!Column("redirect") /\ 1 \in DOMAIN S!Migrations[9]
            /\ S!Migrations[11][1] = S!Column("client") /\ 1 \in DOMAIN S!Migrations[11]
            /\ S!Migrations[13][1] = S!Column("branding") /\ 1 \in DOMAIN S!Migrations[13]
            /\ {9, 11, 13} \subseteq DOMAIN S!Migrations
        BY MigrationList
      <3> QED BY <3>1, <2>4, <1>1 DEF InMigrations
    <2> QED BY <2>1, <2>2, <2>3, <2>4 DEF S!Columns
  <1>2. ASSUME NEW name \in Texts, s = S!Sql(name)
        PROVE  InMigrations(s)
    <2>1. CASE name \in {"base", "webTables", "createTrusted", "dropTrusted"}
      <3>1. /\ S!Migrations[1][1] = S!Sql("base") /\ 1 \in DOMAIN S!Migrations[1]
            /\ S!Migrations[6][1] = S!Sql("webTables") /\ 1 \in DOMAIN S!Migrations[6]
            /\ S!Migrations[10][1] = S!Sql("createTrusted") /\ 1 \in DOMAIN S!Migrations[10]
            /\ S!Migrations[12][1] = S!Sql("dropTrusted") /\ 1 \in DOMAIN S!Migrations[12]
            /\ {1, 6, 10, 12} \subseteq DOMAIN S!Migrations
        BY MigrationList
      <3> QED BY <3>1, <2>1, <1>2 DEF InMigrations
    <2>2. CASE name \in {"general", "agentsToGeneral", "resourcesToGeneral"}
      <3>1. /\ S!Migrations[2][4] = S!Sql("general")
            /\ S!Migrations[2][5] = S!Sql("agentsToGeneral")
            /\ S!Migrations[2][6] = S!Sql("resourcesToGeneral")
            /\ {4, 5, 6} \subseteq DOMAIN S!Migrations[2] /\ 2 \in DOMAIN S!Migrations
        BY MigrationList
      <3> QED BY <3>1, <2>2, <1>2 DEF InMigrations
    <2>3. CASE name \in {"enabledOfStatus", "ensurePanelDomain", "clearPrimary", "setPrimary",
                         "linkAgents"}
      <3>1. /\ S!Migrations[4][5] = S!Sql("enabledOfStatus")
            /\ S!Migrations[4][6] = S!Sql("ensurePanelDomain")
            /\ S!Migrations[4][7] = S!Sql("clearPrimary")
            /\ S!Migrations[4][8] = S!Sql("setPrimary")
            /\ S!Migrations[4][9] = S!Sql("linkAgents")
            /\ {5, 6, 7, 8, 9} \subseteq DOMAIN S!Migrations[4] /\ 4 \in DOMAIN S!Migrations
        BY MigrationList
      <3> QED BY <3>1, <2>3, <1>2 DEF InMigrations
    <2>4. CASE name \in {"unifiedTables", "copyWeb", "copyWebResources", "resetTable"}
      <3>1. /\ S!Migrations[7][1] = S!Sql("unifiedTables") /\ S!Migrations[7][2] = S!Sql("copyWeb")
            /\ S!Migrations[7][3] = S!Sql("copyWebResources")
            /\ {1, 2, 3} \subseteq DOMAIN S!Migrations[7]
            /\ S!Migrations[8][2] = S!Sql("resetTable") /\ 2 \in DOMAIN S!Migrations[8]
            /\ {7, 8} \subseteq DOMAIN S!Migrations
        BY MigrationList
      <3> QED BY <3>1, <2>4, <1>2 DEF InMigrations
    <2> QED BY <2>1, <2>2, <2>3, <2>4, <1>2 DEF Texts
  <1> QED BY <1>1, <1>2 DEF Statements

\* What all migrations have been through is what they make of it.
LEMMA Finished ==
    ASSUME NEW d, Sound(d), Upto(d, 15, 1)
    PROVE  Finish(d) = d
  <1>1. ASSUME NEW s \in Statements,
               \A name \in {"originOfAgent", "statusOfEnabled"} : s # S!Sql(name)
        PROVE  Lasting(d, s)
    <2>1. PICK v \in DOMAIN S!Migrations : \E i \in DOMAIN S!Migrations[v] : S!Migrations[v][i] = s
      BY <1>1, Listed DEF InMigrations
    <2>2. PICK i \in DOMAIN S!Migrations[v] : S!Migrations[v][i] = s
      BY <2>1
    <2>3. v < 15
      BY PlacesTyped
    <2> QED BY <2>2, <2>3 DEF Upto, Before
  <1>2. S!Columns \subseteq d.has
    <2>1. ASSUME NEW c \in S!Columns PROVE c \in d.has
      <3>1. S!Column(c) \in Statements /\ \A name : S!Column(c) # S!Sql(name)
        BY StatementsApart DEF Statements
      <3> QED BY <3>1, <1>1, LastingColumn
    <2> QED BY <2>1
  <1>3. ASSUME NEW name \in Texts \ {"originOfAgent", "statusOfEnabled"}
        PROVE  Done(d, name)
    <2>1. S!Sql(name) \in Statements
      BY DEF Statements
    <2>2. \A other \in {"originOfAgent", "statusOfEnabled"} : S!Sql(name) # S!Sql(other)
      BY <1>3, StatementsApart
    <2> QED BY <2>1, <2>2, <1>1, LastingText
  <1>4. "core" \in d.has
    BY <1>3 DEF Done, Texts
  <1>5. S!NeedsGeneral(d) => d.general
    BY <1>3 DEF Done, Texts
  <1>6. d.agentProject # ""
    BY <1>3 DEF Done, Texts
  <1>7. d.project # ""
    BY <1>3 DEF Done, Texts
  <1>8. d.rows => d.enabled = (d.status = "active")
    BY <1>3 DEF Done, Texts
  <1>9. d.rows => d.panel # "absent"
    BY <1>3 DEF Done, Texts
  <1>10. d.panel # "row"
    BY <1>3 DEF Done, Texts
  <1>11. d.rows => d.url
    BY <1>3 DEF Done, Texts
  <1>12. "web" \in d.has /\ "unified" \in d.has
    <2>1. Done(d, "webTables") /\ Done(d, "unifiedTables")
      BY <1>3 DEF Texts
    <2> QED BY <2>1 DEF Done
  <1>13. d.web => d.unified /\ d.unifiedResource
    <2>1. Done(d, "copyWeb") /\ Done(d, "copyWebResources")
      BY <1>3 DEF Texts
    <2> QED BY <2>1 DEF Done
  <1>14. "reset" \in d.has /\ "trusted" \notin d.has
    <2>1. Done(d, "resetTable") /\ Done(d, "dropTrusted")
      BY <1>3 DEF Texts
    <2> QED BY <2>1 DEF Done
  <1>15. "project" \in d.has /\ "origin" \in d.has /\ "status" \in d.has
    BY <1>2 DEF S!Columns
  <1>16. d \in S!Databases
    BY DEF Sound
  <1>17. d.has = S!Columns \cup {"core", "web", "unified", "reset"}
    BY <1>2, <1>4, <1>12, <1>14, <1>16 DEF S!Databases, S!Tables
  <1>18. InProject(d, d.agentProject) = d.agentProject /\ InProject(d, d.project) = d.project
    BY <1>6, <1>7, <1>15 DEF InProject, DefaultOf
  <1>19. InGeneral(d, d.agentProject) \/ InGeneral(d, d.project) => S!NeedsGeneral(d)
    BY <1>15 DEF InGeneral, DefaultOf, S!NeedsGeneral
  <1>20. d.general \in BOOLEAN /\ FinalGeneral(d) = d.general
    <2>1. d.general \in BOOLEAN
      BY <1>16 DEF S!Databases
    <2>2. FinalGeneral(d) <=> d.general
      BY <1>5, <1>19 DEF FinalGeneral
    <2> QED BY <2>1, <2>2 DEF FinalGeneral
  <1>21. DefaultOf(d, "origin", d.originType, "local") = d.originType /\ FinalStatus(d) = d.status
    BY <1>15 DEF DefaultOf, FinalStatus
  <1>22. FinalEnabled(d) = d.enabled
    BY <1>8, <1>21 DEF FinalEnabled
  <1>23. FinalPanel(d) = d.panel
    <2>1. d.panel \in {"absent", "row", "primary"}
      BY <1>16 DEF S!Databases
    <2> QED BY <1>9, <1>10, <2>1 DEF FinalPanel
  <1>24. (d.url \/ d.rows) = d.url /\ (d.unified \/ d.web) = d.unified
         /\ (d.unifiedResource \/ d.web) = d.unifiedResource
    <2>1. d.url \in BOOLEAN /\ d.unified \in BOOLEAN /\ d.unifiedResource \in BOOLEAN
      BY <1>16 DEF S!Databases
    <2> QED BY <1>11, <1>13, <2>1
  <1>25. Finish(d) = [has |-> d.has, rows |-> d.rows, agentProject |-> d.agentProject,
            project |-> d.project, general |-> d.general, originType |-> d.originType,
            enabled |-> d.enabled, status |-> d.status, panel |-> d.panel, url |-> d.url,
            web |-> d.web, unified |-> d.unified, unifiedResource |-> d.unifiedResource]
    BY <1>17, <1>18, <1>20, <1>21, <1>22, <1>23, <1>24, Zenon DEF Finish
  <1> QED BY <1>16, <1>25 DEF S!Databases

-----------------------------------------------------------------------------
(* Functions that are defined by the value before: there is one, and what each step keeps *)
(* all its values have. *)

\* Induction from a to b, over a set.
LEMMA UpFrom ==
    ASSUME NEW a \in Nat, NEW b \in Nat, NEW P, a \in P,
           \A k \in (a + 1)..b : k - 1 \in P => k \in P
    PROVE  \A k \in a..b : k \in P
  <1> DEFINE F == {k \in a..b : k \notin P}
  <1>1. SUFFICES ASSUME F # {} PROVE FALSE
    OBVIOUS
  <1>2. F \subseteq Nat
    OBVIOUS
  <1>3. PICK x \in F : \A y \in F : ~ (<<y, x>> \in OpToRel(<, Nat))
    <2> HIDE DEF F
    <2> QED BY <1>1, <1>2, WFMin, NatLessThanWellFounded, Zenon
  <1>4. \A y \in F : ~ (y < x)
    <2> HIDE DEF F
    <2> QED BY <1>2, <1>3, Zenon DEF OpToRel
  <1>5. x \in a..b /\ x \notin P /\ x # a
    BY <1>3
  <1>6. x - 1 \in a..b /\ x - 1 < x /\ x \in (a + 1)..b
    BY <1>5
  <1>7. x - 1 \in P
    BY <1>4, <1>6
  <1> QED BY <1>5, <1>6, <1>7

\* Functions of W into itself for the steps from a to b, and the values from x on.
Steps(a, b, W) == [(a + 1)..b -> [W -> W]]

Follows(f, a, b, x, G) == f = [k \in a..b |-> IF k = a THEN x ELSE G[k][f[k - 1]]]

LEMMA Chain ==
    ASSUME NEW a \in Nat, NEW b \in Nat, a <= b, NEW W, NEW x \in W, NEW G \in Steps(a, b, W)
    PROVE  \E f : Follows(f, a, b, x, G) /\ \A k \in a..b : f[k] \in W
  <1> DEFINE Is(f, n) == f = [k \in a..n |-> IF k = a THEN x ELSE G[k][f[k - 1]]]
             P == {n \in a..b : \E f \in [a..n -> W] : Is(f, n)}
  <1>1. a \in P
    <2>1. PICK f : f = [k \in a..a |-> x]
      OBVIOUS
    <2>2. f \in [a..a -> W] /\ Is(f, a)
      BY <2>1
    <2> QED BY <2>2
  <1>2. ASSUME NEW n \in (a + 1)..b, n - 1 \in P PROVE n \in P
    <2>1. PICK f \in [a..(n - 1) -> W] : Is(f, n - 1)
      BY <1>2
    <2>2. PICK g : g = [k \in a..n |-> IF k = n THEN G[n][f[n - 1]] ELSE f[k]]
      OBVIOUS
    <2>3. n \in Nat /\ n - 1 \in a..(n - 1) /\ n \in a..b /\ n # a
      OBVIOUS
    <2>4. G[n][f[n - 1]] \in W
      <3>1. f[n - 1] \in W
        BY <2>1, <2>3
      <3>2. G[n] \in [W -> W]
        BY DEF Steps
      <3> QED BY <3>1, <3>2
    <2>5. g \in [a..n -> W]
      <3>1. \A k \in a..n : k # n => k \in a..(n - 1)
        BY <2>3
      <3> QED BY <2>1, <2>2, <2>4, <3>1
    <2>6. ASSUME NEW k \in a..n PROVE g[k] = IF k = a THEN x ELSE G[k][g[k - 1]]
      <3>1. CASE k = n
        <4>1. n - 1 \in a..n /\ n - 1 # n
          BY <2>3
        <4>2. g[n - 1] = f[n - 1] /\ g[n] = G[n][f[n - 1]]
          BY <4>1, <2>2, <2>3
        <4> QED BY <4>2, <2>3, <3>1
      <3>2. CASE k # n
        <4>1. k \in a..(n - 1) /\ g[k] = f[k]
          BY <2>2, <2>3, <3>2
        <4>2. f[k] = IF k = a THEN x ELSE G[k][f[k - 1]]
          BY <2>1, <4>1
        <4>3. k # a => k - 1 \in a..n /\ k - 1 # n
          BY <2>3, <4>1
        <4>4. k # a => g[k - 1] = f[k - 1]
          BY <4>3, <2>2
        <4> QED BY <4>1, <4>2, <4>4
      <3> QED BY <3>1, <3>2
    <2>7. g = [k \in a..n |-> IF k = a THEN x ELSE G[k][g[k - 1]]]
      BY <2>5, <2>6
    <2> QED BY <2>3, <2>5, <2>7
  <1>3. b \in P
    <2> HIDE DEF P
    <2>1. \A k \in a..b : k \in P
      BY <1>1, <1>2, UpFrom
    <2> QED BY <2>1
  <1> QED BY <1>3 DEF Follows

\* All statements of a migration, on a database that has been through those before.
LEMMA EffectsEnd ==
    ASSUME NEW d, Sound(d), NEW v \in DOMAIN S!Migrations, Upto(d, v, 1)
    PROVE  LET e == S!Effects(d, S!Migrations[v]) IN
           Sound(e) /\ e.rows = d.rows /\ Finish(e) = Finish(d) /\ Upto(e, v + 1, 1)
  <1> DEFINE s == S!Migrations[v]
             W == {e \in S!Databases : Sound(e)}
             Is(f) == f = [k \in 0..Len(s) |-> IF k = 0 THEN d ELSE S!Effect(f[k - 1], s[k])]
             P(f) == {k \in 0..Len(s) : /\ Sound(f[k]) /\ f[k].rows = d.rows
                                        /\ Finish(f[k]) = Finish(d) /\ Upto(f[k], v, k + 1)}
  <1>1. Len(s) \in Nat /\ \A k \in 1..Len(s) : k \in DOMAIN s /\ s[k] \in Statements
    <2>1. Len(s) \in 1..9 /\ DOMAIN s = 1..Len(s) /\ \A k \in DOMAIN s : s[k] \in Statements
      BY StatementTyped
    <2> QED BY <2>1
  <1> HIDE DEF s
  <1>2. \E f : Is(f)
    <2>1. PICK G : G = [k \in (0 + 1)..Len(s) |-> [e \in W |-> S!Effect(e, s[k])]]
      OBVIOUS
    <2>2. ASSUME NEW k \in 1..Len(s), NEW e \in W PROVE S!Effect(e, s[k]) \in W
      BY <1>1, EffectKeeps DEF Sound
    <2>3. G \in Steps(0, Len(s), W)
      BY <2>1, <2>2 DEF Steps
    <2>4. d \in W
      BY DEF Sound
    <2> HIDE DEF W
    <2>5. PICK f : Follows(f, 0, Len(s), d, G) /\ \A k \in 0..Len(s) : f[k] \in W
      <3>1. 0 \in Nat /\ 0 <= Len(s)
        BY <1>1
      <3> QED BY <1>1, <2>3, <2>4, <3>1, Chain, Zenon
    <2>6. ASSUME NEW k \in 0..Len(s), k # 0 PROVE G[k][f[k - 1]] = S!Effect(f[k - 1], s[k])
      <3>1. k \in (0 + 1)..Len(s) /\ k - 1 \in 0..Len(s)
        BY <1>1, <2>6
      <3>2. f[k - 1] \in W
        BY <2>5, <3>1
      <3> QED BY <2>1, <3>1, <3>2
    <2>7. [k \in 0..Len(s) |-> IF k = 0 THEN d ELSE G[k][f[k - 1]]]
            = [k \in 0..Len(s) |-> IF k = 0 THEN d ELSE S!Effect(f[k - 1], s[k])]
      BY <2>6
    <2> QED BY <2>5, <2>7 DEF Follows
  <1>3. PICK f : f = CHOOSE g : Is(g)
    OBVIOUS
  <1>4. Is(f)
    BY <1>2, <1>3
  <1>5. S!Effects(d, s) = f[Len(s)]
    BY <1>3 DEF S!Effects
  <1>6. 0 \in P(f)
    <2>1. f[0] = d
      BY <1>1, <1>4
    <2> QED BY <1>1, <2>1
  <1>7. ASSUME NEW k \in (0 + 1)..Len(s), k - 1 \in P(f) PROVE k \in P(f)
    <2>1. k \in 0..Len(s) /\ k # 0 /\ k \in 1..Len(s) /\ (k - 1) + 1 = k
      BY <1>1
    <2>2. f[k] = S!Effect(f[k - 1], s[k])
      BY <1>4, <2>1
    <2>3. /\ Sound(f[k - 1]) /\ f[k - 1].rows = d.rows
          /\ Finish(f[k - 1]) = Finish(d) /\ Upto(f[k - 1], v, k)
      BY <1>7, <2>1
    <2>4. s[k] \in Statements /\ k \in DOMAIN s
      BY <1>1, <2>1
    <2>5. Upto(f[k], v, k + 1)
      BY <2>2, <2>3, <2>4, UptoNext DEF s
    <2>6. Sound(f[k]) /\ f[k].rows = d.rows /\ Finish(f[k]) = Finish(d)
      BY <2>2, <2>3, <2>4, EffectKeeps
    <2> QED BY <2>1, <2>5, <2>6
  <1>8. Len(s) \in P(f)
    <2> HIDE DEF P
    <2>1. \A k \in 0..Len(s) : k \in P(f)
      BY <1>1, <1>6, <1>7, UpFrom
    <2> QED BY <1>1, <2>1
  <1>9. Upto(f[Len(s)], v + 1, 1)
    BY <1>8, UptoFollowing DEF s
  <1> QED BY <1>5, <1>8, <1>9 DEF s

\* All statements of migrations first to last.
LEMMA MigratedEnd ==
    ASSUME NEW d, Sound(d), NEW first \in 1..14, NEW last \in (first - 1)..14,
           Upto(d, first, 1)
    PROVE  LET e == S!Migrated(d, first, last) IN
           Sound(e) /\ e.rows = d.rows /\ Finish(e) = Finish(d) /\ Upto(e, last + 1, 1)
  <1> DEFINE a == first - 1
             Out(e, v) == S!Effects(e, S!Migrations[v])
             Fit(e, v) == Sound(e) /\ e.rows = d.rows /\ Finish(e) = Finish(d) /\ Upto(e, v, 1)
             Is(f) == f = [v \in a..last |-> IF v < first THEN d ELSE Out(f[v - 1], v)]
  <1>1. a \in Nat /\ last \in Nat /\ a <= last /\ a + 1 = first
    OBVIOUS
  <1>2. ASSUME NEW v \in (a + 1)..last
        PROVE  v \in DOMAIN S!Migrations /\ v \in Nat /\ ~(v < first) /\ v # a
               /\ v - 1 \in a..last /\ (v - 1) + 1 = v /\ v \in a..last
    <2>1. v \in 1..14
      OBVIOUS
    <2> QED BY <2>1, MigrationList
  <1>3. \A v \in a..last : v < first <=> v = a
    OBVIOUS
  <1>4. ASSUME NEW v \in (a + 1)..last, NEW e, Fit(e, v)
        PROVE  Fit(Out(e, v), v + 1)
    BY <1>2, <1>4, EffectsEnd
  <1>5. Fit(d, first)
    OBVIOUS
  <1> HIDE DEF a, Out, Fit
  <1>6. ASSUME NEW f, f[a] = d,
               \A v \in (a + 1)..last : Fit(f[v - 1], v) => f[v] = Out(f[v - 1], v)
        PROVE  \A v \in a..last : Fit(f[v], v + 1)
    <2> DEFINE P == {v \in a..last : Fit(f[v], v + 1)}
    <2>1. a \in P
      BY <1>1, <1>5, <1>6
    <2>2. ASSUME NEW v \in (a + 1)..last, v - 1 \in P PROVE v \in P
      <3>1. Fit(f[v - 1], v)
        BY <1>2, <2>2
      <3> QED BY <1>2, <1>4, <1>6, <3>1
    <2> HIDE DEF P
    <2>3. \A v \in a..last : v \in P
      BY <1>1, <2>1, <2>2, UpFrom
    <2> QED BY <2>3 DEF P
  <1>7. \E f : Is(f)
    <2> DEFINE W == {e \in S!Databases : Sound(e)}
    <2>1. PICK G : G = [v \in (a + 1)..last |-> [e \in W |-> IF Fit(e, v) THEN Out(e, v) ELSE e]]
      OBVIOUS
    <2>2. ASSUME NEW v \in (a + 1)..last, NEW e \in W
          PROVE  (IF Fit(e, v) THEN Out(e, v) ELSE e) \in W
      <3>1. \A x : Fit(x, v + 1) => x \in W
        BY DEF Fit, Sound
      <3> QED BY <1>4, <3>1
    <2>3. G \in Steps(a, last, W)
      BY <2>1, <2>2 DEF Steps
    <2>4. d \in W
      BY DEF Sound
    <2> HIDE DEF W
    <2>5. PICK f : Follows(f, a, last, d, G) /\ \A v \in a..last : f[v] \in W
      BY <1>1, <2>3, <2>4, Chain, Zenon
    <2>6. f[a] = d
      BY <1>1, <2>5 DEF Follows
    <2>7. ASSUME NEW v \in (a + 1)..last
          PROVE  f[v] = G[v][f[v - 1]] /\ (Fit(f[v - 1], v) => f[v] = Out(f[v - 1], v))
      <3>1. f[v] = G[v][f[v - 1]]
        BY <1>2, <2>5 DEF Follows
      <3>2. f[v - 1] \in W
        BY <1>2, <2>5
      <3> QED BY <2>1, <3>1, <3>2
    <2>8. \A v \in a..last : Fit(f[v], v + 1)
      BY <2>6, <2>7, <1>6
    <2>9. ASSUME NEW v \in a..last
          PROVE  f[v] = IF v < first THEN d ELSE Out(f[v - 1], v)
      <3>1. CASE v = a
        BY <1>3, <2>6, <3>1
      <3>2. CASE v # a
        <4>1. v \in (a + 1)..last
          BY <1>1, <3>2
        <4>2. Fit(f[v - 1], (v - 1) + 1)
          BY <4>1, <1>2, <2>8
        <4> QED BY <4>1, <4>2, <1>2, <2>7
      <3> QED BY <3>1, <3>2
    <2>10. f = [v \in a..last |-> f[v]]
      BY <2>5 DEF Follows
    <2> QED BY <2>9, <2>10
  <1>8. PICK f : f = CHOOSE g : Is(g)
    OBVIOUS
  <1>9. Is(f)
    BY <1>7, <1>8
  <1>10. S!Migrated(d, first, last) = f[last]
    BY <1>8 DEF S!Migrated, a, Out
  <1>11. f[a] = d /\ \A v \in (a + 1)..last : f[v] = Out(f[v - 1], v)
    <2>1. f[a] = d
      BY <1>1, <1>3, <1>9
    <2>2. ASSUME NEW v \in (a + 1)..last PROVE f[v] = Out(f[v - 1], v)
      BY <1>2, <1>9
    <2> QED BY <2>1, <2>2
  <1>12. Fit(f[last], last + 1)
    <2>1. last \in a..last
      BY <1>1
    <2> QED BY <2>1, <1>11, <1>6
  <1> QED BY <1>10, <1>12 DEF Fit

-----------------------------------------------------------------------------
(* The columns and tables that are there. *)

LEMMA LastingPresent == ASSUME NEW d, NEW s, Lasting(d, s) PROVE Present(d, s)
  BY DEF Lasting, Done, Present

LEMMA PresentStays ==
    ASSUME NEW d, NEW e, d.has \subseteq e.has \cup {"trusted"},
           NEW s \in Statements, Present(d, s)
    PROVE  Present(e, s)
  <1>1. s.op = "column" => s.name \in S!Columns
    BY DEF Statements, S!Column, S!Sql
  <1>2. "trusted" \notin S!Columns
    BY DEF S!Columns
  <1> QED BY <1>1, <1>2 DEF Present

\* What comes before an earlier place is less.
LEMMA BeforeEarlier ==
    ASSUME NEW v \in Nat, NEW i \in Nat, NEW w \in Nat, w < v \/ (w = v /\ 1 <= i), NEW d
    PROVE  /\ Upto(d, v, i) => Upto(d, w, 1)
           /\ PresentUpto(d, v, i) => PresentUpto(d, w, 1)
  <1>1. ASSUME NEW u \in DOMAIN S!Migrations, NEW j \in DOMAIN S!Migrations[u],
               Before(u, j, w, 1)
        PROVE  Before(u, j, v, i)
    <2>1. u \in Nat /\ j \in Nat /\ 1 <= j
      BY PlacesTyped
    <2> QED BY <2>1, <1>1 DEF Before
  <1> QED BY <1>1 DEF Upto, PresentUpto

LEMMA FirstPlace == ASSUME NEW d PROVE Upto(d, 1, 1) /\ PresentUpto(d, 1, 1)
  <1>1. ASSUME NEW u \in DOMAIN S!Migrations, NEW j \in DOMAIN S!Migrations[u]
        PROVE  ~Before(u, j, 1, 1)
    <2>1. u \in Nat /\ j \in Nat /\ 1 <= j /\ 1 <= u
      BY PlacesTyped
    <2> QED BY <2>1 DEF Before
  <1> QED BY <1>1 DEF Upto, PresentUpto

LEMMA UptoPresent == ASSUME NEW d, NEW v, NEW i, Upto(d, v, i) PROVE PresentUpto(d, v, i)
  BY LastingPresent DEF Upto, PresentUpto

LEMMA PresentUptoStays ==
    ASSUME NEW d, NEW e, d.has \subseteq e.has \cup {"trusted"}, NEW v, NEW i,
           PresentUpto(d, v, i)
    PROVE  PresentUpto(e, v, i)
  <1>1. ASSUME NEW u \in DOMAIN S!Migrations, NEW j \in DOMAIN S!Migrations[u],
               Before(u, j, v, i)
        PROVE  Present(e, S!Migrations[u][j])
    <2>1. S!Migrations[u][j] \in Statements
      BY StatementTyped
    <2>2. Present(d, S!Migrations[u][j])
      BY <1>1 DEF PresentUpto
    <2> QED BY <2>1, <2>2, PresentStays
  <1> QED BY <1>1 DEF PresentUpto

LEMMA PresentNext ==
    ASSUME NEW d, Sound(d), NEW v \in DOMAIN S!Migrations, NEW i \in DOMAIN S!Migrations[v],
           PresentUpto(d, v, i)
    PROVE  PresentUpto(S!Effect(d, S!Migrations[v][i]), v, i + 1)
  <1> DEFINE e == S!Effect(d, S!Migrations[v][i])
  <1>1. SUFFICES ASSUME NEW u \in DOMAIN S!Migrations, NEW j \in DOMAIN S!Migrations[u],
                        Before(u, j, v, i + 1)
                 PROVE  Present(e, S!Migrations[u][j])
    BY DEF PresentUpto
  <1>2. S!Migrations[v][i] \in Statements /\ S!Migrations[u][j] \in Statements
        /\ i \in Nat /\ j \in Nat /\ u \in Nat /\ v \in Nat
    BY StatementTyped, PlacesTyped
  <1>3. CASE u = v /\ j = i
    BY <1>2, <1>3, EffectLasts, LastingPresent
  <1>4. CASE Before(u, j, v, i)
    <2>1. Present(d, S!Migrations[u][j])
      BY <1>4 DEF PresentUpto
    <2>2. d.has \subseteq e.has \cup {"trusted"}
      BY <1>2, EffectKeeps
    <2> QED BY <1>2, <2>1, <2>2, PresentStays
  <1> QED BY <1>1, <1>2, <1>3, <1>4 DEF Before

LEMMA PresentFollowing ==
    ASSUME NEW d, NEW v \in DOMAIN S!Migrations
    PROVE  PresentUpto(d, v, Len(S!Migrations[v]) + 1) <=> PresentUpto(d, v + 1, 1)
  <1>1. ASSUME NEW u \in DOMAIN S!Migrations, NEW j \in DOMAIN S!Migrations[u]
        PROVE  Before(u, j, v, Len(S!Migrations[v]) + 1) <=> Before(u, j, v + 1, 1)
    <2>1. u \in Nat /\ v \in Nat /\ j \in Nat /\ 1 <= j /\ Len(S!Migrations[v]) \in Nat
      BY PlacesTyped
    <2>2. u = v => j <= Len(S!Migrations[v])
      BY PlacesTyped
    <2> QED BY <2>1, <2>2 DEF Before
  <1> QED BY <1>1 DEF PresentUpto

\* Past all migrations that are recorded, the last step finds its columns.
LEMMA LastStepIdle ==
    ASSUME NEW d, PresentUpto(d, 14, 1), NEW i \in DOMAIN S!Migrations[14]
    PROVE  S!Effect(d, S!Migrations[14][i]) = d
  <1>1. /\ Present(d, S!Column("client")) /\ Present(d, S!Column("branding"))
    <2>1. /\ S!Migrations[11][1] = S!Column("client") /\ 1 \in DOMAIN S!Migrations[11]
          /\ S!Migrations[13][1] = S!Column("branding") /\ 1 \in DOMAIN S!Migrations[13]
          /\ 11 \in DOMAIN S!Migrations /\ 13 \in DOMAIN S!Migrations
      BY MigrationList
    <2>2. Before(11, 1, 14, 1) /\ Before(13, 1, 14, 1)
      BY DEF Before
    <2> QED BY <2>1, <2>2 DEF PresentUpto
  <1>2. "client" \in d.has /\ "branding" \in d.has
    BY <1>1 DEF Present, S!Column
  <1>3. S!Migrations[14][i] = S!Column("client") \/ S!Migrations[14][i] = S!Column("branding")
    <2>1. S!Migrations[14] = <<S!Column("client"), S!Column("branding")>>
      BY MigrationList
    <2> QED BY <2>1
  <1> QED BY <1>2, <1>3 DEF S!Effect, S!Column

\* With the columns and tables of all of them, what a database has is what the end has.
LEMMA PresentAll ==
    ASSUME NEW d, PresentUpto(d, 15, 1)
    PROVE  Finish(d).has \subseteq d.has
  <1>1. ASSUME NEW s \in Statements,
               \A name \in {"originOfAgent", "statusOfEnabled"} : s # S!Sql(name)
        PROVE  Present(d, s)
    <2>1. PICK v \in DOMAIN S!Migrations : \E i \in DOMAIN S!Migrations[v] : S!Migrations[v][i] = s
      BY <1>1, Listed DEF InMigrations
    <2>2. PICK i \in DOMAIN S!Migrations[v] : S!Migrations[v][i] = s
      BY <2>1
    <2>3. v < 15
      BY PlacesTyped
    <2> QED BY <2>2, <2>3 DEF PresentUpto, Before
  <1>2. ASSUME NEW c \in S!Columns PROVE c \in d.has
    <2>1. S!Column(c) \in Statements /\ \A name : S!Column(c) # S!Sql(name)
      BY StatementsApart DEF Statements
    <2>2. Present(d, S!Column(c))
      BY <2>1, <1>1
    <2> QED BY <2>2 DEF Present, S!Column
  <1>3. ASSUME NEW name \in {"base", "webTables", "unifiedTables", "resetTable"}
        PROVE  Present(d, S!Sql(name))
    <2>1. S!Sql(name) \in Statements
      BY DEF Statements, Texts
    <2>2. \A other \in {"originOfAgent", "statusOfEnabled"} : S!Sql(name) # S!Sql(other)
      BY StatementsApart
    <2> QED BY <2>1, <2>2, <1>1
  <1>4. {"core", "web", "unified", "reset"} \subseteq d.has
    BY <1>3 DEF Present, S!Sql
  <1> QED BY <1>2, <1>4 DEF Finish

-----------------------------------------------------------------------------
(* The databases that there are at first. *)

LEMMA FreshSound == Sound(S!Fresh) /\ ~S!Fresh.rows
  BY DEF Sound, S!Fresh, S!Databases

LEMMA OldestSound == ASSUME NEW d \in S!Oldest PROVE Sound(d)
  <1>1. CASE d = [S!Fresh EXCEPT !.has = {"core"}, !.rows = TRUE]
    <2>1. d = [has |-> {"core"}, rows |-> TRUE, agentProject |-> None, project |-> None,
               general |-> FALSE, originType |-> None, enabled |-> FALSE, status |-> None,
               panel |-> "absent", url |-> FALSE, web |-> FALSE, unified |-> FALSE,
               unifiedResource |-> FALSE]
      BY <1>1 DEF S!Fresh
    <2> QED BY <2>1 DEF Sound, S!Databases, S!Tables
  <1>2. CASE d = [S!Fresh EXCEPT !.has = {"core", "project", "origin"}, !.rows = TRUE,
                     !.agentProject = "own", !.project = "", !.originType = "agent",
                     !.enabled = TRUE, !.panel = "row"]
    <2>1. d = [has |-> {"core", "project", "origin"}, rows |-> TRUE, agentProject |-> "own",
               project |-> "", general |-> FALSE, originType |-> "agent", enabled |-> TRUE,
               status |-> None, panel |-> "row", url |-> FALSE, web |-> FALSE,
               unified |-> FALSE, unifiedResource |-> FALSE]
      BY <1>2 DEF S!Fresh
    <2> QED BY <2>1 DEF Sound, S!Databases, S!Tables, S!Columns
  <1> QED BY <1>1, <1>2 DEF S!Oldest

\* The agent in web maintenance changes nothing of what came before it was copied.
LEMMA WebSpares ==
    ASSUME NEW d, Sound(d), NEW w \in BOOLEAN, Upto(d, 7, 1)
    PROVE  LET e == [d EXCEPT !.web = w] IN Sound(e) /\ Upto(e, 7, 1)
  <1>1. PICK e : e = [d EXCEPT !.web = w]
    OBVIOUS
  <1>2. Sound(e)
    BY <1>1 DEF Sound, S!Databases
  <1>3. /\ e.has = d.has /\ e.rows = d.rows /\ e.agentProject = d.agentProject
        /\ e.project = d.project /\ e.general = d.general
        /\ e.enabled = d.enabled /\ e.status = d.status
        /\ e.panel = d.panel /\ e.url = d.url
    BY <1>1 DEF Sound, S!Databases
  <1>4. ASSUME NEW u \in DOMAIN S!Migrations, NEW j \in DOMAIN S!Migrations[u],
               Before(u, j, 7, 1)
        PROVE  Lasting(e, S!Migrations[u][j])
    <2>1. u \in {1, 2, 3, 4, 5, 6}
      <3>1. u \in 1..14 /\ j \in Nat /\ 1 <= j
        BY PlacesTyped
      <3> QED BY <3>1, <1>4 DEF Before
    <2>2. PICK s : s = S!Migrations[u][j]
      OBVIOUS
    <2>3. s # S!Sql("copyWeb") /\ s # S!Sql("copyWebResources")
      <3>1. CASE u \in {1, 3, 5, 6}
        BY <2>2, <3>1, MigrationList, StatementsApart
      <3>2. CASE u = 2
        BY <2>2, <3>2, MigrationList, StatementsApart
      <3>3. CASE u = 4
        BY <2>2, <3>3, MigrationList, StatementsApart
      <3> QED BY <2>1, <3>1, <3>2, <3>3
    <2>4. Lasting(d, s)
      BY <1>4, <2>2 DEF Upto
    <2>5. S!NeedsGeneral(e) <=> S!NeedsGeneral(d)
      BY <1>3 DEF S!NeedsGeneral
    <2>6. Lasting(e, s)
      <3>1. s \in Statements
        BY <2>2, StatementTyped
      <3>2. ASSUME NEW c \in S!Columns, s = S!Column(c) PROVE Lasting(e, s)
        BY <3>2, <1>3, <2>4, LastingColumn
      <3>3. ASSUME NEW name \in Texts, s = S!Sql(name) PROVE Lasting(e, s)
        <4>1. name # "copyWeb" /\ name # "copyWebResources"
          BY <2>3, <3>3
        <4>2. Done(d, name)
          BY <2>4, <3>3, LastingText
        <4>3. /\ name = "general" /\ S!NeedsGeneral(e) => e.general
              /\ name = "agentsToGeneral" => e.agentProject # ""
              /\ name = "resourcesToGeneral" => e.project # ""
          BY <1>3, <2>5, <4>2 DEF Done
        <4>4. name = "enabledOfStatus" /\ e.rows => e.enabled = (e.status = "active")
          BY <1>3, <4>2 DEF Done
        <4>5. /\ name = "ensurePanelDomain" /\ e.rows => e.panel # "absent"
              /\ name = "setPrimary" => e.panel # "row"
              /\ name = "linkAgents" /\ e.rows => e.url
          BY <1>3, <4>2 DEF Done
        <4>6. /\ name = "base" => "core" \in e.has
              /\ name = "webTables" => "web" \in e.has
              /\ name = "unifiedTables" => "unified" \in e.has
              /\ name = "resetTable" => "reset" \in e.has
              /\ name = "dropTrusted" => "trusted" \notin e.has
          BY <1>3, <4>2 DEF Done
        <4>7. Done(e, name)
          BY <4>1, <4>3, <4>4, <4>5, <4>6 DEF Done
        <4> QED BY <3>3, <4>7, LastingText
      <3> QED BY <3>1, <3>2, <3>3 DEF Statements
    <2> QED BY <2>2, <2>6
  <1> QED BY <1>1, <1>2, <1>4 DEF Upto

\* The database of a version has been through the migrations up to it.
LEMMA ReleasedSound ==
    ASSUME NEW v \in 0..13, NEW d \in S!Released(v)
    PROVE  Sound(d) /\ Upto(d, v + 1, 1)
  <1>1. ASSUME NEW o \in S!Oldest
        PROVE  Sound(S!Migrated(o, 1, v)) /\ Upto(S!Migrated(o, 1, v), v + 1, 1)
    <2>1. v \in (1 - 1)..14 /\ 1 \in 1..14
      OBVIOUS
    <2> QED BY <2>1, OldestSound, FirstPlace, MigratedEnd
  <1>2. CASE v # 6
    <2>1. PICK o \in S!Oldest : d = S!Migrated(o, 1, v)
      BY <1>2 DEF S!Released
    <2> QED BY <2>1, <1>1
  <1>3. CASE v = 6
    <2>1. PICK o \in S!Oldest, w \in BOOLEAN : d = [S!Migrated(o, 1, v) EXCEPT !.web = w]
      BY <1>3 DEF S!Released
    <2>2. v + 1 = 7
      BY <1>3
    <2>3. Sound(S!Migrated(o, 1, v)) /\ Upto(S!Migrated(o, 1, v), 7, 1)
      BY <1>1, <2>2
    <2> QED BY <2>1, <2>2, <2>3, WebSpares
  <1> QED BY <1>2, <1>3

LEMMA SchemaInit == S!Init => SchemaInv
  <1> SUFFICES ASSUME S!Init PROVE SchemaInv
    OBVIOUS
  <1>1. PICK v \in FromVersions :
           /\ origin \in S!Released(v) \cup (IF v = 0 THEN {S!Fresh} ELSE {})
           /\ recorded = 1..v
           /\ target = S!Migrated(origin, v + 1, S!Latest + 1)
    BY DEF S!Init
  <1>2. v \in 0..13
    BY BoundsAssumption, MigrationList
  <1>3. Sound(origin) /\ Upto(origin, v + 1, 1)
    <2>1. CASE origin \in S!Released(v)
      BY <1>2, <2>1, ReleasedSound
    <2>2. CASE v = 0 /\ origin = S!Fresh
      BY <2>2, FreshSound, FirstPlace
    <2> QED BY <1>1, <2>1, <2>2
  <1>4. target = Finish(origin) /\ target \in S!Databases
    <2>1. S!Latest + 1 = 14 /\ v + 1 \in 1..14 /\ 14 \in ((v + 1) - 1)..14 /\ 14 + 1 = 15
      BY <1>2, MigrationList
    <2>2. target = S!Migrated(origin, v + 1, 14)
      BY <1>1, <2>1
    <2>3. /\ Sound(target) /\ target.rows = origin.rows
          /\ Finish(target) = Finish(origin) /\ Upto(target, 15, 1)
      BY <1>3, <2>1, <2>2, MigratedEnd
    <2> QED BY <2>3, Finished DEF Sound
  <1>5. db = origin /\ backups = {} /\ process = [p \in Processes |-> S!Down]
        /\ starts = 0 /\ shared = FALSE
    BY DEF S!Init
  <1>6. S!TypeOK
    <2>1. S!Down \in [pc : {"down", "table", "backup", "select", "apply", "add", "record", "done"},
                      from : 0..S!Latest, v : 0..S!Latest + 1, i : 0..9]
      BY MigrationList DEF S!Down
    <2>2. recorded \subseteq S!Versions
      BY <1>1, <1>2, MigrationList
    <2>3. starts \in 0..MaxStarts
      BY <1>5, BoundsAssumption
    <2> QED BY <1>3, <1>4, <1>5, <2>1, <2>2, <2>3 DEF S!TypeOK, Sound
  <1>7. ASSUME NEW u \in recorded PROVE Upto(db, u + 1, 1) /\ 1..u \subseteq recorded
    <2>1. u \in Nat /\ u <= v /\ v \in Nat
      BY <1>1, <1>2
    <2>2. Upto(db, u + 1, 1)
      BY <1>3, <1>5, <2>1, BeforeEarlier
    <2> QED BY <1>1, <2>1, <2>2
  <1>8. \A p \in Processes : process[p].pc = "down"
    BY <1>5 DEF S!Down
  <1>9. RecordsFollow /\ Presence
    BY <1>7, <1>8, UptoPresent DEF RecordsFollow, Presence, Leaves, Working
  <1>10. RecordsLast /\ \A p \in Processes : Alone(p)
    BY <1>7, <1>8 DEF RecordsLast, Alone, Working, S!Migrating
  <1>11. \A p \in Processes : Covered(p)
    BY <1>8 DEF Covered
  <1>12. \A p \in Processes : Place(p)
    BY <1>8 DEF Place
  <1> QED BY <1>3, <1>4, <1>5, <1>6, <1>9, <1>10, <1>11, <1>12 DEF SchemaInv

-----------------------------------------------------------------------------
(* The steps of a process. *)

ProcessRecord ==
    [pc : {"down", "table", "backup", "select", "apply", "add", "record", "done"},
     from : 0..S!Latest, v : 0..S!Latest + 1, i : 0..9]

\* The records are those of the first migrations.
LEMMA VersionKnown ==
    ASSUME recorded \subseteq S!Versions, RecordsFollow
    PROVE  /\ S!SchemaVersion \in 0..S!Latest
           /\ ~(S!SchemaVersion < S!Latest) => S!Versions \subseteq recorded
  <1>1. S!Latest = 13 /\ S!Versions = 1..13
    BY MigrationList
  <1>2. \E v \in recorded \cup {0} : \A w \in recorded : w <= v
    <2> DEFINE P == {n \in 0..13 : (\E v \in recorded \cup {0} : \A w \in recorded : w <= v)
                                   \/ \A w \in recorded : w <= 13 - n}
    <2>1. 0 \in P
      BY <1>1
    <2>2. ASSUME NEW k \in (0 + 1)..13, k - 1 \in P PROVE k \in P
      <3>1. CASE 13 - (k - 1) \in recorded
        BY <2>2, <3>1
      <3>2. CASE 13 - (k - 1) \notin recorded
        BY <1>1, <2>2, <3>2
      <3> QED BY <3>1, <3>2
    <2>3. 13 \in P
      <3> HIDE DEF P
      <3>1. \A k \in 0..13 : k \in P
        BY <2>1, <2>2, UpFrom
      <3> QED BY <3>1
    <2>4. CASE \A w \in recorded : w <= 13 - 13
      BY <1>1, <2>4
    <2> QED BY <2>3, <2>4
  <1>3. S!SchemaVersion \in recorded \cup {0}
    BY <1>2 DEF S!SchemaVersion
  <1>4. ~(S!SchemaVersion < 13) => 13 \in recorded
    BY <1>1, <1>3
  <1> QED BY <1>1, <1>3, <1>4 DEF RecordsFollow

\* A step of process p that changes no more than its own record, and adds copies.
LEMMA SchemaMoves ==
    ASSUME SchemaInv, NEW p \in Processes, NEW q \in ProcessRecord,
           process' = [process EXCEPT ![p] = q],
           UNCHANGED <<db, recorded, origin, target>>,
           backups \subseteq backups', backups' \subseteq [from : 0..S!Latest, first : BOOLEAN],
           starts' \in 0..MaxStarts, shared' \in BOOLEAN, shared => shared',
           Place(p)', Leaves(p)', Alone(p)', Covered(p)'
    PROVE  SchemaInv'
  <1>1. S!TypeOK'
    BY DEF SchemaInv, S!TypeOK, ProcessRecord
  <1>2. ASSUME NEW r \in Processes, r # p PROVE process'[r] = process[r]
    BY <1>2 DEF SchemaInv, S!TypeOK
  <1>3. Copied => Copied'
    BY DEF Copied
  <1>4. ASSUME NEW r \in Processes, r # p
        PROVE  Place(r)' /\ Leaves(r)' /\ Covered(r)'
    <2>1. Place(r)'
      BY <1>2, <1>4 DEF SchemaInv, Place, S!Statement
    <2>2. Leaves(r)'
      BY <1>2, <1>4 DEF SchemaInv, Presence, Leaves, Working, Reached
    <2>3. Covered(r)'
      BY <1>2, <1>3, <1>4 DEF SchemaInv, Covered, Working
    <2> QED BY <2>1, <2>2, <2>3
  <1>5. ASSUME NEW r \in Processes, r # p, ~shared' PROVE Alone(r)'
    <2>1. Alone(r) /\ ~shared
      <3>1. Alone(r)
        BY DEF SchemaInv
      <3>2. ~shared
        BY <1>5, Zenon
      <3> QED BY <3>1, <3>2
    <2>2. process'[r] = process[r]
      BY <1>2, <1>5
    <2>3. /\ (Working(r) \/ process[r].pc = "done" =>
                 Upto(db, Reached(r)[1], Reached(r)[2]))'
          /\ (Working(r) => process[r].v \notin recorded)'
      BY <2>1, <2>2 DEF Alone, Working, Reached
    <2>4. ASSUME NEW s \in Processes, (S!Migrating(r) /\ S!Migrating(s))' PROVE r = s
      <3>1. CASE s = p
        BY <1>5, <2>4, <3>1 DEF Alone
      <3>2. CASE s # p
        BY <1>2, <2>1, <2>2, <2>4, <3>2 DEF Alone, S!Migrating
      <3> QED BY <3>1, <3>2
    <2> QED BY <2>3, <2>4 DEF Alone
  <1>6. \A r \in Processes : Alone(r)'
    <2>1. ASSUME NEW r \in Processes, shared' PROVE Alone(r)'
      BY <2>1 DEF Alone
    <2> QED BY <1>5, <2>1
  <1>7. Sound(db)' /\ (db.rows = origin.rows)' /\ (target = Finish(db))'
    BY DEF SchemaInv
  <1>8. RecordsFollow' /\ RecordsLast' /\ Presence'
    BY <1>4 DEF SchemaInv, RecordsFollow, RecordsLast, Presence
  <1>9. (db = origin \/ Copied)'
    BY <1>3 DEF SchemaInv
  <1> QED BY <1>1, <1>4, <1>6, <1>7, <1>8, <1>9 DEF SchemaInv

LEMMA SchemaStart ==
    ASSUME SchemaInv, NEW p \in Processes, S!Start(p)
    PROVE  SchemaInv'
  <1>1. PICK q : q = [process[p] EXCEPT !.pc = "table"]
    OBVIOUS
  <1>2. process[p] \in ProcessRecord
    BY DEF SchemaInv, S!TypeOK, ProcessRecord
  <1>3. q \in ProcessRecord /\ q.pc = "table"
    BY <1>1, <1>2 DEF ProcessRecord
  <1>4. process' = [process EXCEPT ![p] = q]
    BY <1>1 DEF S!Start, S!Step
  <1>5. process'[p] = q
    BY <1>4 DEF SchemaInv, S!TypeOK
  <1>6. /\ starts' \in 0..MaxStarts /\ shared' \in BOOLEAN /\ (shared => shared')
        /\ UNCHANGED <<db, recorded, backups, origin, target>>
        /\ backups' \subseteq [from : 0..S!Latest, first : BOOLEAN]
    BY BoundsAssumption DEF SchemaInv, S!TypeOK, S!Start
  <1>7. Place(p)' /\ Leaves(p)' /\ Covered(p)'
    BY <1>3, <1>5 DEF Place, Leaves, Covered, Working
  <1>8. Alone(p)'
    <2>1. ASSUME ~shared', NEW r \in Processes, r # p PROVE ~S!Migrating(r)'
      <3>1. process'[r] = process[r]
        BY <1>4, <2>1 DEF SchemaInv, S!TypeOK
      <3>2. ~S!Migrating(r)
        BY <2>1 DEF S!Start
      <3> QED BY <3>1, <3>2 DEF S!Migrating
    <2> QED BY <1>3, <1>5, <2>1 DEF Alone, Working
  <1> QED BY <1>3, <1>4, <1>6, <1>7, <1>8, SchemaMoves

LEMMA SchemaEnds ==
    ASSUME SchemaInv, NEW p \in Processes, process' = [process EXCEPT ![p] = S!Down],
           UNCHANGED <<db, recorded, backups, starts, origin, target, shared>>
    PROVE  SchemaInv'
  <1>1. S!Down \in ProcessRecord /\ S!Down.pc = "down"
    BY MigrationList DEF S!Down, ProcessRecord
  <1>2. process'[p] = S!Down
    BY DEF SchemaInv, S!TypeOK
  <1>3. starts' \in 0..MaxStarts /\ shared' \in BOOLEAN
        /\ backups' \subseteq [from : 0..S!Latest, first : BOOLEAN]
    BY DEF SchemaInv, S!TypeOK
  <1>4. Place(p)' /\ Leaves(p)' /\ Covered(p)' /\ Alone(p)'
    BY <1>1, <1>2 DEF Place, Leaves, Covered, Alone, Working, S!Migrating
  <1> QED BY <1>1, <1>3, <1>4, SchemaMoves

LEMMA SchemaReads ==
    ASSUME SchemaInv, NEW p \in Processes, S!ReadVersion(p)
    PROVE  SchemaInv'
  <1>1. PICK q : q = [pc |-> IF S!SchemaVersion < S!Latest THEN "backup" ELSE "select",
                      from |-> S!SchemaVersion, v |-> 1, i |-> 0]
    OBVIOUS
  <1>2. recorded \subseteq S!Versions /\ RecordsFollow
    BY DEF SchemaInv, S!TypeOK
  <1>3. q \in ProcessRecord /\ q.v = 1 /\ q.pc \in {"backup", "select"}
        /\ (q.pc = "select" => S!Versions \subseteq recorded)
    BY <1>1, <1>2, VersionKnown, MigrationList DEF ProcessRecord
  <1>4. process' = [process EXCEPT ![p] = q]
    BY <1>1 DEF S!ReadVersion
  <1>5. process'[p] = q
    BY <1>4 DEF SchemaInv, S!TypeOK
  <1>6. /\ starts' \in 0..MaxStarts /\ shared' \in BOOLEAN /\ (shared => shared')
        /\ UNCHANGED <<db, recorded, backups, origin, target>>
        /\ backups' \subseteq [from : 0..S!Latest, first : BOOLEAN]
    BY DEF SchemaInv, S!TypeOK, S!ReadVersion
  <1>7. Place(p)'
    <2>1. 1 \in DOMAIN S!Migrations /\ 1..(1 - 1) \subseteq recorded
      BY MigrationList
    <2> QED BY <1>3, <1>5, <1>6, <2>1 DEF Place
  <1>8. Leaves(p)' /\ Covered(p)'
    BY <1>3, <1>5, <1>6 DEF Leaves, Covered, Working
  <1>9. Alone(p)'
    <2>1. ASSUME ~shared', NEW r \in Processes, r # p PROVE ~S!Migrating(r)'
      <3>1. process'[r] = process[r]
        BY <1>4, <2>1 DEF SchemaInv, S!TypeOK
      <3>2. S!Migrating(p) /\ Alone(p) /\ ~shared
        BY <2>1 DEF SchemaInv, S!ReadVersion, S!Migrating, S!At
      <3> QED BY <3>1, <3>2, <2>1 DEF Alone, S!Migrating
    <2> QED BY <1>3, <1>5, <2>1 DEF Alone, Working
  <1> QED BY <1>3, <1>4, <1>6, <1>7, <1>8, <1>9, SchemaMoves

\* The others are not migrating, unless two are at once.
LEMMA OthersRest ==
    ASSUME SchemaInv, NEW p \in Processes, S!Migrating(p), NEW q,
           process' = [process EXCEPT ![p] = q], UNCHANGED shared, ~shared',
           NEW r \in Processes, r # p
    PROVE  ~S!Migrating(r) /\ ~S!Migrating(r)'
  <1>1. process'[r] = process[r]
    BY DEF SchemaInv, S!TypeOK
  <1>2. Alone(p) /\ ~shared
    BY DEF SchemaInv
  <1> QED BY <1>1, <1>2 DEF Alone, S!Migrating

LEMMA SchemaCopies ==
    ASSUME SchemaInv, NEW p \in Processes, S!BackupBeforeMigrations(p)
    PROVE  SchemaInv'
  <1>1. PICK q : q = [process[p] EXCEPT !.pc = "select"]
    OBVIOUS
  <1>2. process[p] \in ProcessRecord /\ process[p].pc = "backup"
    BY DEF SchemaInv, S!TypeOK, ProcessRecord, S!BackupBeforeMigrations, S!At
  <1>3. q \in ProcessRecord /\ q.pc = "select" /\ q.v = 1
    BY <1>1, <1>2 DEF ProcessRecord, SchemaInv, Place
  <1>4. process' = [process EXCEPT ![p] = q]
    BY <1>1 DEF S!BackupBeforeMigrations, S!Step
  <1>5. process'[p] = q
    BY <1>4 DEF SchemaInv, S!TypeOK
  <1>6. /\ starts' \in 0..MaxStarts /\ shared' \in BOOLEAN /\ (shared => shared')
        /\ UNCHANGED <<db, recorded, origin, target, shared>>
    BY DEF SchemaInv, S!TypeOK, S!BackupBeforeMigrations
  <1>7. /\ backups \subseteq backups' /\ backups' \subseteq [from : 0..S!Latest, first : BOOLEAN]
        /\ Copied'
    <2>1. PICK b : b = [from |-> process[p].from, first |-> db = origin]
      OBVIOUS
    <2>2. b \in [from : 0..S!Latest, first : BOOLEAN] /\ (db = origin => b.first)
      BY <1>2, <2>1 DEF ProcessRecord
    <2>3. CASE backups' = backups \cup {b}
      BY <2>2, <2>3, <1>6 DEF SchemaInv, S!TypeOK, Copied
    <2>4. CASE db = S!Fresh /\ backups' = backups
      BY <2>4, <1>6, FreshSound DEF SchemaInv, S!TypeOK, Copied
    <2> QED BY <2>1, <2>3, <2>4 DEF S!BackupBeforeMigrations
  <1>8. Place(p)'
    <2>1. 1 \in DOMAIN S!Migrations /\ 1..(1 - 1) \subseteq recorded
      BY MigrationList
    <2> QED BY <1>3, <1>5, <1>6, <2>1 DEF Place
  <1>9. Leaves(p)' /\ Covered(p)'
    BY <1>3, <1>5, <1>7 DEF Leaves, Covered, Working
  <1>10. Alone(p)'
    <2>1. S!Migrating(p)
      BY <1>2 DEF S!Migrating
    <2>2. \A r \in Processes : ~shared' /\ r # p => ~S!Migrating(r)'
      BY <1>4, <1>6, <2>1, OthersRest
    <2> QED BY <1>3, <1>5, <2>2 DEF Alone, Working
  <1> QED BY <1>3, <1>4, <1>6, <1>7, <1>8, <1>9, <1>10, SchemaMoves

\* A step of a process that migrates, which changes its own record only.
LEMMA SchemaGoes ==
    ASSUME SchemaInv, NEW p \in Processes, S!Migrating(p), NEW q \in ProcessRecord,
           process' = [process EXCEPT ![p] = q],
           UNCHANGED <<db, recorded, backups, starts, origin, target, shared>>,
           Place(p)', Leaves(p)', Covered(p)',
           ~shared => /\ (Working(p) \/ process[p].pc = "done" =>
                             Upto(db, Reached(p)[1], Reached(p)[2]))'
                      /\ (Working(p) => process[p].v \notin recorded)'
    PROVE  SchemaInv'
  <1>1. Alone(p)'
    <2>1. \A r \in Processes : ~shared' /\ r # p => ~S!Migrating(r)'
      BY OthersRest
    <2> QED BY <2>1 DEF Alone
  <1>2. /\ starts' \in 0..MaxStarts /\ shared' \in BOOLEAN /\ (shared => shared')
        /\ backups' \subseteq [from : 0..S!Latest, first : BOOLEAN] /\ backups \subseteq backups'
    BY DEF SchemaInv, S!TypeOK
  <1> QED BY <1>1, <1>2, SchemaMoves

\* What comes before a migration has been done, when the migrations before it are recorded.
LEMMA RecordsLead ==
    ASSUME SchemaInv, NEW v \in DOMAIN S!Migrations, 1..(v - 1) \subseteq recorded
    PROVE  PresentUpto(db, v, 1) /\ (~shared => Upto(db, v, 1))
  <1>1. v \in 1..14
    BY MigrationList
  <1>2. CASE v = 1
    BY <1>2, FirstPlace
  <1>3. CASE v # 1
    <2>1. v - 1 \in recorded /\ (v - 1) + 1 = v
      BY <1>1, <1>3
    <2>2. PresentUpto(db, (v - 1) + 1, 1) /\ (~shared => Upto(db, (v - 1) + 1, 1))
      BY <2>1 DEF SchemaInv, Presence, RecordsLast
    <2> QED BY <2>1, <2>2
  <1> QED BY <1>2, <1>3

LEMMA SchemaSelects ==
    ASSUME SchemaInv, NEW p \in Processes, S!Select(p)
    PROVE  SchemaInv'
  <1>1. process[p] \in ProcessRecord /\ process[p].pc = "select" /\ S!Migrating(p)
    BY DEF SchemaInv, S!TypeOK, ProcessRecord, S!Select, S!At, S!Migrating
  <1>2. PICK v : v = process[p].v
    OBVIOUS
  <1>3. v \in DOMAIN S!Migrations /\ 1..(v - 1) \subseteq recorded /\ v \in 1..14
    BY <1>1, <1>2, MigrationList DEF SchemaInv, Place
  <1>4. Copied \/ S!Versions \subseteq recorded
    BY <1>1 DEF SchemaInv, Covered
  <1>5. UNCHANGED <<db, recorded, backups, starts, origin, target, shared>>
    BY DEF S!Select
  <1>6. CASE v \in recorded
    <2>1. PICK q : q = [process[p] EXCEPT !.pc = "select", !.v = @ + 1, !.i = 0]
      OBVIOUS
    <2>2. process' = [process EXCEPT ![p] = q]
      BY <1>2, <1>6, <2>1 DEF S!Select, S!Following
    <2>3. v \in 1..13
      BY <1>6, MigrationList DEF SchemaInv, S!TypeOK
    <2>4. q \in ProcessRecord /\ q.pc = "select" /\ q.v = v + 1
      <3>1. q = [pc |-> "select", from |-> process[p].from, v |-> v + 1, i |-> 0]
        BY <1>1, <1>2, <2>1 DEF ProcessRecord
      <3>2. process[p].from \in 0..S!Latest /\ v + 1 \in 0..S!Latest + 1
        BY <1>1, <2>3, MigrationList DEF ProcessRecord
      <3> QED BY <3>1, <3>2 DEF ProcessRecord
    <2>5. process'[p] = q
      BY <2>2 DEF SchemaInv, S!TypeOK
    <2>6. v + 1 \in DOMAIN S!Migrations /\ 1..((v + 1) - 1) \subseteq recorded
      BY <1>3, <1>6, <2>3, MigrationList
    <2>7. Place(p)' /\ Leaves(p)'
      BY <1>5, <2>4, <2>5, <2>6 DEF Place, Leaves, Working
    <2>8. Covered(p)'
      BY <1>4, <1>5, <2>4, <2>5 DEF Covered, Working, Copied
    <2>9. ~Working(p)' /\ process'[p].pc # "done"
      BY <2>4, <2>5 DEF Working
    <2> QED BY <1>1, <1>5, <2>2, <2>4, <2>7, <2>8, <2>9, SchemaGoes
  <1>7. CASE v \notin recorded
    <2>1. PICK q : q = [process[p] EXCEPT !.pc = "apply", !.i = 1]
      OBVIOUS
    <2>2. process' = [process EXCEPT ![p] = q]
      BY <1>2, <1>7, <2>1 DEF S!Select
    <2>4. q \in ProcessRecord /\ q.pc = "apply" /\ q.v = v /\ q.i = 1
      <3>1. q = [pc |-> "apply", from |-> process[p].from, v |-> v, i |-> 1]
        BY <1>1, <1>2, <2>1 DEF ProcessRecord
      <3>2. process[p].from \in 0..S!Latest /\ v \in 0..S!Latest + 1
        BY <1>1, <1>2 DEF ProcessRecord
      <3> QED BY <3>1, <3>2 DEF ProcessRecord
    <2>5. process'[p] = q
      BY <2>2 DEF SchemaInv, S!TypeOK
    <2>6. 1 \in DOMAIN S!Migrations[v]
      <3>1. Len(S!Migrations[v]) \in 1..9 /\ DOMAIN S!Migrations[v] = 1..Len(S!Migrations[v])
        BY <1>3, StatementTyped
      <3>2. PICK n : n = Len(S!Migrations[v])
        OBVIOUS
      <3>3. n \in 1..9 /\ DOMAIN S!Migrations[v] = 1..n
        BY <3>1, <3>2
      <3> QED BY <3>3
    <2>7. Place(p)'
      BY <1>3, <1>5, <2>4, <2>5, <2>6 DEF Place
    <2>8. Reached(p)' = <<v, 1>>
      BY <2>4, <2>5 DEF Reached
    <2>9. PresentUpto(db, v, 1) /\ (~shared => Upto(db, v, 1))
      BY <1>3, RecordsLead
    <2>10. Leaves(p)'
      BY <1>5, <2>8, <2>9 DEF Leaves
    <2>11. S!Versions \subseteq recorded => v = Len(S!Migrations)
      BY <1>3, <1>7, MigrationList
    <2>12. Covered(p)'
      BY <1>4, <1>5, <2>4, <2>5, <2>11 DEF Covered, Copied
    <2>13. ~shared => Upto(db', Reached(p)'[1], Reached(p)'[2]) /\ process'[p].v \notin recorded'
      BY <1>5, <1>7, <2>4, <2>5, <2>8, <2>9
    <2> QED BY <1>1, <1>5, <2>2, <2>4, <2>7, <2>10, <2>12, <2>13, SchemaGoes
  <1> QED BY <1>6, <1>7

\* The look at the columns finds that one is missing.
LEMMA SchemaLooks ==
    ASSUME SchemaInv, NEW p \in Processes, process[p].pc = "apply",
           S!Statement(p).op = "column", S!Step(p, "add"),
           UNCHANGED <<db, recorded, backups, starts, origin, target, shared>>
    PROVE  SchemaInv'
  <1>1. process[p] \in ProcessRecord /\ S!Migrating(p)
    BY DEF SchemaInv, S!TypeOK, ProcessRecord, S!Migrating
  <1>2. PICK q : q = [process[p] EXCEPT !.pc = "add"]
    OBVIOUS
  <1>3. q \in ProcessRecord /\ q.pc = "add" /\ q.v = process[p].v /\ q.i = process[p].i
    BY <1>1, <1>2 DEF ProcessRecord
  <1>4. process' = [process EXCEPT ![p] = q]
    BY <1>2 DEF S!Step
  <1>5. process'[p] = q
    BY <1>4 DEF SchemaInv, S!TypeOK
  <1>6. Place(p) /\ Leaves(p) /\ Alone(p) /\ Covered(p)
    BY DEF SchemaInv, Presence
  <1>7. S!Statement(p)' = S!Statement(p)
    BY <1>3, <1>5 DEF S!Statement
  <1>8. Place(p)'
    BY <1>3, <1>5, <1>6, <1>7 DEF Place
  <1>9. Reached(p)' = Reached(p) /\ Working(p)' /\ Working(p)
    BY <1>3, <1>5 DEF Reached, Working
  <1>10. Leaves(p)'
    BY <1>6, <1>9 DEF Leaves
  <1>11. Covered(p)'
    BY <1>3, <1>5, <1>6, <1>9 DEF Covered, Copied
  <1>12. ~shared => Upto(db', Reached(p)'[1], Reached(p)'[2]) /\ process'[p].v \notin recorded'
    BY <1>3, <1>5, <1>6, <1>9 DEF Alone
  <1> QED BY <1>1, <1>3, <1>4, <1>8, <1>10, <1>11, <1>12, SchemaGoes

\* A statement runs, or finds its column there.
LEMMA SchemaRuns ==
    ASSUME SchemaInv, NEW p \in Processes, process[p].pc \in {"apply", "add"},
           db' = S!Effect(db, S!Statement(p)), S!Advance(p),
           UNCHANGED <<recorded, backups, starts, origin, target, shared>>
    PROVE  SchemaInv'
  <1>1. process[p] \in ProcessRecord /\ S!Migrating(p) /\ Working(p)
    BY DEF SchemaInv, S!TypeOK, ProcessRecord, S!Migrating, Working
  <1>2. PICK v, i : v = process[p].v /\ i = process[p].i
    OBVIOUS
  <1>3. /\ v \in DOMAIN S!Migrations /\ 1..(v - 1) \subseteq recorded
        /\ i \in DOMAIN S!Migrations[v]
    BY <1>2 DEF SchemaInv, Place
  <1>4. Reached(p) = <<v, i>>
    BY <1>2 DEF Reached
  <1>5. PICK s \in Statements : s = S!Migrations[v][i] /\ s = S!Statement(p)
    BY <1>2, <1>3, StatementTyped DEF S!Statement
  <1>6. db' = S!Effect(db, S!Migrations[v][i])
    BY <1>5
  <1>7. /\ Sound(db)' /\ db'.rows = db.rows /\ Finish(db') = Finish(db)
        /\ db.has \subseteq db'.has \cup {"trusted"}
    <2>1. Sound(db)
      BY DEF SchemaInv
    <2>2. LET e == S!Effect(db, s) IN
          /\ Sound(e) /\ e.rows = db.rows /\ db.has \subseteq e.has \cup {"trusted"}
          /\ Finish(e) = Finish(db)
      BY <2>1, EffectKeeps
    <2>3. db' = S!Effect(db, s)
      BY <1>5, <1>6
    <2> QED BY <2>2, <2>3 DEF Sound
  <1>8. v \in Nat /\ i \in Nat /\ v \in 1..14 /\ i >= 1
    BY <1>3, PlacesTyped
  <1>9. PresentUpto(db', v, i + 1) /\ (~shared => Upto(db', v, i + 1) /\ v \notin recorded)
    <2>1. PresentUpto(db, v, i) /\ (~shared => Upto(db, v, i) /\ v \notin recorded)
      BY <1>1, <1>2, <1>4 DEF SchemaInv, Presence, Leaves, Alone
    <2>2. Sound(db)
      BY DEF SchemaInv
    <2>3. PresentUpto(db', v, i + 1)
      BY <1>3, <1>6, <2>1, <2>2, PresentNext
    <2>4. ASSUME ~shared PROVE Upto(db', v, i + 1)
      BY <1>3, <1>6, <2>1, <2>2, <2>4, UptoNext
    <2> QED BY <2>1, <2>3, <2>4
  <1>10. v = 14 => db' = db
    <2>1. PresentUpto(db, v, 1)
      BY <1>3, RecordsLead
    <2> QED BY <1>3, <1>6, <2>1, LastStepIdle
  <1>11. PICK q : q = IF i < Len(S!Migrations[v])
                      THEN [process[p] EXCEPT !.pc = "apply", !.i = @ + 1]
                      ELSE [process[p] EXCEPT !.pc = "record", !.i = 0]
    OBVIOUS
  <1>12. process' = [process EXCEPT ![p] = q]
    BY <1>2, <1>11 DEF S!Advance
  <1>13. process'[p] = q
    BY <1>12 DEF SchemaInv, S!TypeOK
  <1>14. /\ q \in ProcessRecord /\ q.v = v
         /\ \/ q.pc = "apply" /\ q.i = i + 1 /\ i + 1 \in DOMAIN S!Migrations[v]
            \/ q.pc = "record" /\ i = Len(S!Migrations[v])
    <2>1. PICK n : n = Len(S!Migrations[v])
      OBVIOUS
    <2>2. n \in 1..9 /\ DOMAIN S!Migrations[v] = 1..n /\ i <= n
      BY <1>3, <2>1, StatementTyped, PlacesTyped
    <2>3. CASE i < n
      <3>1. q = [pc |-> "apply", from |-> process[p].from, v |-> v, i |-> i + 1]
        BY <1>1, <1>2, <1>11, <2>1, <2>3 DEF ProcessRecord
      <3>2. process[p].from \in 0..S!Latest /\ v \in 0..S!Latest + 1
        BY <1>1, <1>2 DEF ProcessRecord
      <3>3. i + 1 \in 1..n /\ i + 1 \in 0..9
        BY <1>8, <2>2, <2>3
      <3> QED BY <2>2, <3>1, <3>2, <3>3 DEF ProcessRecord
    <2>4. CASE ~(i < n)
      <3>1. q = [pc |-> "record", from |-> process[p].from, v |-> v, i |-> 0]
        BY <1>1, <1>2, <1>11, <2>1, <2>4 DEF ProcessRecord
      <3>2. process[p].from \in 0..S!Latest /\ v \in 0..S!Latest + 1
        BY <1>1, <1>2 DEF ProcessRecord
      <3>3. i = n
        BY <1>8, <2>2, <2>4
      <3> QED BY <2>1, <3>1, <3>2, <3>3 DEF ProcessRecord
    <2> QED BY <2>3, <2>4
  <1>15. \/ Reached(p)' = <<v, i + 1>>
         \/ Reached(p)' = <<v + 1, 1>> /\ i = Len(S!Migrations[v])
    BY <1>13, <1>14 DEF Reached
  <1>16. PresentUpto(db', Reached(p)'[1], Reached(p)'[2])
         /\ (~shared => Upto(db', Reached(p)'[1], Reached(p)'[2]))
    <2>1. CASE Reached(p)' = <<v, i + 1>>
      BY <1>9, <2>1
    <2>2. CASE Reached(p)' = <<v + 1, 1>> /\ i = Len(S!Migrations[v])
      <3>1. PresentUpto(db', v + 1, 1) /\ (~shared => Upto(db', v + 1, 1))
        BY <1>3, <1>9, <2>2, PresentFollowing, UptoFollowing
      <3> QED BY <2>2, <3>1
    <2> QED BY <1>15, <2>1, <2>2
  <1>17. ASSUME NEW r \in Processes, r # p PROVE process'[r] = process[r]
    BY <1>12, <1>17 DEF SchemaInv, S!TypeOK
  <1>18. S!TypeOK'
    BY <1>7, <1>12, <1>14 DEF SchemaInv, S!TypeOK, ProcessRecord, Sound
  <1>19. \A r \in Processes : Place(r)'
    <2>1. ASSUME NEW r \in Processes, r # p PROVE Place(r)'
      BY <1>17, <2>1 DEF SchemaInv, Place, S!Statement
    <2>2. Place(p)'
      BY <1>3, <1>13, <1>14 DEF Place
    <2> QED BY <2>1, <2>2
  <1>20. Copied' <=> Copied
    BY DEF Copied
  <1>21. \A r \in Processes : Covered(r)'
    <2>1. ASSUME NEW r \in Processes, r # p PROVE Covered(r)'
      BY <1>17, <1>20, <2>1 DEF SchemaInv, Covered, Working
    <2>2. Covered(p)'
      <3>1. Copied \/ (S!Versions \subseteq recorded /\ v = Len(S!Migrations))
        <4>1. Covered(p) /\ Working(p)
          BY <1>1 DEF SchemaInv
        <4>2. process[p].pc \in {"select", "apply", "add", "record"}
          OBVIOUS
        <4> QED BY <1>2, <4>1, <4>2, Zenon DEF Covered
      <3> QED BY <1>13, <1>14, <1>20, <3>1 DEF Covered
    <2> QED BY <2>1, <2>2
  <1>22. Presence'
    <2>1. ASSUME NEW u \in recorded PROVE PresentUpto(db', u + 1, 1)
      BY <1>7, PresentUptoStays DEF SchemaInv, Presence
    <2>2. ASSUME NEW r \in Processes, r # p PROVE Leaves(r)'
      <3>1. Leaves(r) /\ process'[r] = process[r]
        BY <1>17, <2>2 DEF SchemaInv, Presence
      <3>2. Working(r)' <=> Working(r)
        BY <3>1 DEF Working
      <3>3. Reached(r)' = Reached(r)
        BY <3>1 DEF Reached
      <3>4. PresentUpto(db, Reached(r)[1], Reached(r)[2]) =>
               PresentUpto(db', Reached(r)[1], Reached(r)[2])
        BY <1>7, PresentUptoStays
      <3> QED BY <3>1, <3>2, <3>3, <3>4 DEF Leaves
    <2>3. Leaves(p)'
      BY <1>16 DEF Leaves
    <2> QED BY <2>1, <2>2, <2>3 DEF Presence
  <1>23. RecordsLast'
    <2>1. ASSUME ~shared, NEW u \in recorded PROVE Upto(db', u + 1, 1)
      <3>1. u \in 1..13 /\ 1..u \subseteq recorded
        BY MigrationList DEF SchemaInv, S!TypeOK, RecordsFollow
      <3>2. v \notin recorded
        BY <1>9, <2>1
      <3>3. u < v
        BY <1>8, <3>1, <3>2
      <3>4. /\ u + 1 \in Nat /\ i + 1 \in Nat /\ 1 <= i + 1
            /\ u + 1 < v \/ u + 1 = v
        BY <1>8, <3>1, <3>3
      <3> QED BY <1>8, <1>9, <2>1, <3>4, BeforeEarlier
    <2> QED BY <2>1 DEF RecordsLast
  <1>24. ASSUME ~shared, NEW r \in Processes PROVE Alone(r)'
    <2>1. \A t \in Processes : t # p => ~S!Migrating(t) /\ ~S!Migrating(t)'
      BY <1>1, <1>12, <1>24, OthersRest
    <2>2. CASE r = p
      <3>1. process'[p].v \notin recorded'
        BY <1>9, <1>13, <1>14, <1>24
      <3> QED BY <1>16, <1>24, <2>1, <2>2, <3>1 DEF Alone
    <2>3. CASE r # p
      <3>1. process'[r] = process[r] /\ ~S!Migrating(r) /\ ~S!Migrating(r)'
        BY <1>17, <2>1, <2>3
      <3>2. ~Working(r)'
        BY <3>1 DEF Working, S!Migrating
      <3>3. ASSUME process[r].pc = "done" PROVE Upto(db', Reached(r)'[1], Reached(r)'[2])
        <4>1. S!Versions \subseteq recorded
          BY <3>3 DEF SchemaInv, Place
        <4>2. v \notin recorded
          BY <1>9, <1>24
        <4>3. v = 14
          BY <1>8, <4>1, <4>2, MigrationList
        <4>4. Alone(r)
          BY DEF SchemaInv
        <4>5. Upto(db, Reached(r)[1], Reached(r)[2])
          BY <1>24, <3>3, <4>4 DEF Alone
        <4>6. Reached(r)' = Reached(r)
          BY <3>1 DEF Reached
        <4> QED BY <1>10, <4>3, <4>5, <4>6
      <3> QED BY <3>1, <3>2, <3>3 DEF Alone
    <2> QED BY <2>2, <2>3
  <1>25. \A r \in Processes : Alone(r)'
    <2>1. ASSUME NEW r \in Processes, shared PROVE Alone(r)'
      BY <2>1 DEF Alone
    <2> QED BY <1>24, <2>1
  <1>26. (db = origin \/ Copied)'
    <2>1. Copied \/ v = 14
      BY <1>1, <1>2, MigrationList DEF SchemaInv, Covered
    <2> QED BY <1>10, <1>20, <2>1 DEF SchemaInv
  <1>27. (db.rows = origin.rows)' /\ (target = Finish(db))' /\ RecordsFollow'
    BY <1>7 DEF SchemaInv, RecordsFollow
  <1> QED BY <1>7, <1>18, <1>19, <1>21, <1>22, <1>23, <1>25, <1>26, <1>27 DEF SchemaInv

LEMMA SchemaRecords ==
    ASSUME SchemaInv, NEW p \in Processes, S!RecordMigration(p)
    PROVE  SchemaInv'
  <1>1. process[p] \in ProcessRecord /\ process[p].pc = "record" /\ S!Migrating(p) /\ Working(p)
    BY DEF SchemaInv, S!TypeOK, ProcessRecord, S!RecordMigration, S!At, S!Migrating, Working
  <1>2. PICK v : v = process[p].v
    OBVIOUS
  <1>3. v \in DOMAIN S!Migrations /\ 1..(v - 1) \subseteq recorded /\ v \in 1..14
    BY <1>1, <1>2, MigrationList DEF SchemaInv, Place
  <1>4. Reached(p) = <<v + 1, 1>>
    BY <1>1, <1>2 DEF Reached
  <1>5. /\ PresentUpto(db, v + 1, 1)
        /\ ~shared => Upto(db, v + 1, 1) /\ v \notin recorded
    BY <1>1, <1>2, <1>4 DEF SchemaInv, Presence, Leaves, Alone
  <1>6. Copied \/ S!Versions \subseteq recorded
    BY <1>1 DEF SchemaInv, Covered
  <1>7. UNCHANGED <<db, backups, starts, origin, target, shared>>
    BY DEF S!RecordMigration
  <1>8. CASE v \in S!Versions
    <2>1. PICK q : q = [process[p] EXCEPT !.pc = "select", !.v = @ + 1, !.i = 0]
      OBVIOUS
    <2>2. process' = [process EXCEPT ![p] = q] /\ recorded' = recorded \cup {v}
      BY <1>2, <1>8, <2>1 DEF S!RecordMigration, S!Following
    <2>3. v \in 1..13
      BY <1>8, MigrationList
    <2>4. q \in ProcessRecord /\ q.pc = "select" /\ q.v = v + 1
      <3>1. q = [pc |-> "select", from |-> process[p].from, v |-> v + 1, i |-> 0]
        BY <1>1, <1>2, <2>1 DEF ProcessRecord
      <3>2. process[p].from \in 0..S!Latest /\ v + 1 \in 0..S!Latest + 1
        BY <1>1, <2>3, MigrationList DEF ProcessRecord
      <3> QED BY <3>1, <3>2 DEF ProcessRecord
    <2>5. process'[p] = q
      BY <2>2 DEF SchemaInv, S!TypeOK
    <2>6. ASSUME NEW r \in Processes, r # p PROVE process'[r] = process[r]
      BY <2>2, <2>6 DEF SchemaInv, S!TypeOK
    <2>7. v + 1 \in DOMAIN S!Migrations /\ 1..((v + 1) - 1) \subseteq recorded'
      BY <1>3, <2>2, <2>3, MigrationList
    <2>8. S!TypeOK'
      BY <1>7, <1>8, <2>2, <2>4 DEF SchemaInv, S!TypeOK, ProcessRecord
    <2>9. \A r \in Processes : Place(r)'
      <3>1. ASSUME NEW r \in Processes, r # p PROVE Place(r)'
        BY <2>2, <2>6, <3>1 DEF SchemaInv, Place, S!Statement
      <3>2. Place(p)'
        BY <2>4, <2>5, <2>7 DEF Place
      <3> QED BY <3>1, <3>2
    <2>10. \A r \in Processes : Leaves(r)'
      <3>1. ASSUME NEW r \in Processes, r # p PROVE Leaves(r)'
        BY <1>7, <2>6, <3>1 DEF SchemaInv, Presence, Leaves, Working, Reached
      <3>2. Leaves(p)'
        BY <2>4, <2>5 DEF Leaves, Working
      <3> QED BY <3>1, <3>2
    <2>11. Copied' <=> Copied
      BY <1>7 DEF Copied
    <2>12. \A r \in Processes : Covered(r)'
      <3>1. ASSUME NEW r \in Processes, r # p PROVE Covered(r)'
        BY <2>2, <2>6, <2>11, <3>1 DEF SchemaInv, Covered, Working
      <3>2. Covered(p)'
        BY <1>6, <2>2, <2>4, <2>5, <2>11 DEF Covered, Working
      <3> QED BY <3>1, <3>2
    <2>13. RecordsFollow'
      <3>1. 1..v \subseteq recorded'
        BY <2>7, <2>3
      <3> QED BY <2>2, <3>1 DEF SchemaInv, RecordsFollow
    <2>14. Presence'
      BY <1>5, <1>7, <2>2, <2>10 DEF SchemaInv, Presence
    <2>15. RecordsLast'
      BY <1>5, <1>7, <2>2 DEF SchemaInv, RecordsLast
    <2>16. ASSUME ~shared, NEW r \in Processes PROVE Alone(r)'
      <3>1. \A t \in Processes : t # p => ~S!Migrating(t) /\ ~S!Migrating(t)'
        BY <1>1, <1>7, <2>2, <2>16, OthersRest
      <3>2. CASE r = p
        BY <2>4, <2>5, <3>1, <3>2 DEF Alone, Working
      <3>3. CASE r # p
        <4>1. process'[r] = process[r] /\ ~S!Migrating(r) /\ ~S!Migrating(r)' /\ Alone(r)
          BY <2>6, <3>1, <3>3 DEF SchemaInv
        <4>2. ~Working(r)'
          BY <4>1 DEF Working, S!Migrating
        <4>3. Reached(r)' = Reached(r)
          BY <4>1 DEF Reached
        <4> QED BY <1>7, <2>16, <4>1, <4>2, <4>3 DEF Alone
      <3> QED BY <3>2, <3>3
    <2>17. \A r \in Processes : Alone(r)'
      <3>1. ASSUME NEW r \in Processes, shared PROVE Alone(r)'
        BY <1>7, <3>1 DEF Alone
      <3> QED BY <2>16, <3>1
    <2> QED BY <1>7, <2>8, <2>9, <2>11, <2>12, <2>13, <2>14, <2>15, <2>17 DEF SchemaInv
  <1>9. CASE v \notin S!Versions
    <2>1. v = 14
      BY <1>3, <1>9, MigrationList
    <2>2. PICK q : q = [S!Down EXCEPT !.pc = "done"]
      OBVIOUS
    <2>3. process' = [process EXCEPT ![p] = q] /\ recorded' = recorded
      BY <1>2, <1>9, <2>2 DEF S!RecordMigration
    <2>4. q \in ProcessRecord /\ q.pc = "done"
      <3>1. q = [pc |-> "done", from |-> 0, v |-> 0, i |-> 0]
        BY <2>2 DEF S!Down
      <3> QED BY <3>1, MigrationList DEF ProcessRecord
    <2>5. process'[p] = q
      BY <2>3 DEF SchemaInv, S!TypeOK
    <2>6. S!Versions \subseteq recorded
      BY <1>3, <2>1, MigrationList
    <2>7. Place(p)' /\ Covered(p)'
      BY <2>3, <2>4, <2>5, <2>6 DEF Place, Covered
    <2>8. Reached(p)' = <<v + 1, 1>>
      BY <2>1, <2>4, <2>5, MigrationList DEF Reached
    <2>9. Leaves(p)'
      BY <1>5, <1>7, <2>8 DEF Leaves
    <2>10. ~Working(p)'
      BY <2>4, <2>5 DEF Working
    <2>11. ~shared => Upto(db', Reached(p)'[1], Reached(p)'[2])
      BY <1>5, <1>7, <2>8
    <2> QED BY <1>1, <1>7, <2>3, <2>4, <2>7, <2>9, <2>10, <2>11, SchemaGoes
  <1> QED BY <1>8, <1>9

LEMMA SchemaNext == ASSUME SchemaInv, S!Next PROVE SchemaInv'
  <1>1. PICK p \in Processes :
           \/ S!Start(p) \/ S!ReadVersion(p) \/ S!BackupBeforeMigrations(p) \/ S!Select(p)
           \/ S!Apply(p) \/ S!AlterTable(p) \/ S!RecordMigration(p) \/ S!End(p)
    BY DEF S!Next
  <1>2. process[p].pc \in {"apply", "add"} => S!Statement(p) \in Statements
    BY StatementTyped DEF SchemaInv, Place, S!Statement
  <1>3. CASE S!Apply(p)
    <2>1. process[p].pc = "apply"
          /\ UNCHANGED <<recorded, backups, starts, origin, target, shared>>
      BY <1>3 DEF S!Apply, S!At
    <2>2. CASE S!Statement(p).op = "column" /\ S!Statement(p).name \in db.has
      <3>1. S!Advance(p) /\ db' = db
        BY <1>3, <2>2 DEF S!Apply
      <3>2. S!Effect(db, S!Statement(p)) = db
        BY <2>2 DEF S!Effect
      <3> QED BY <2>1, <3>1, <3>2, SchemaRuns
    <2>3. CASE S!Statement(p).op = "column" /\ S!Statement(p).name \notin db.has
      <3>1. S!Step(p, "add") /\ db' = db
        BY <1>3, <2>3 DEF S!Apply
      <3> QED BY <2>1, <2>3, <3>1, SchemaLooks
    <2>4. CASE S!Statement(p).op # "column"
      <3>1. S!Advance(p) /\ db' = S!Run(db, S!Statement(p).name)
        BY <1>3, <2>4 DEF S!Apply
      <3>2. S!Statement(p).op = "sql"
        BY <1>2, <2>1, <2>4 DEF Statements, S!Column, S!Sql
      <3>3. S!Effect(db, S!Statement(p)) = S!Run(db, S!Statement(p).name)
        BY <3>2 DEF S!Effect
      <3> QED BY <2>1, <3>1, <3>3, SchemaRuns
    <2> QED BY <2>2, <2>3, <2>4
  <1>4. CASE S!AlterTable(p)
    <2>1. process[p].pc = "add"
          /\ UNCHANGED <<recorded, backups, starts, origin, target, shared>>
      BY <1>4 DEF S!AlterTable, S!At
    <2>2. CASE S!Statement(p).name \in db.has
      <3>1. process' = [process EXCEPT ![p] = S!Down] /\ db' = db
        BY <1>4, <2>2 DEF S!AlterTable
      <3> QED BY <2>1, <3>1, SchemaEnds
    <2>3. CASE S!Statement(p).name \notin db.has
      <3>1. db' = S!AddColumn(db, S!Statement(p).name) /\ S!Advance(p)
        BY <1>4, <2>3 DEF S!AlterTable
      <3>2. S!Statement(p).op = "column"
        BY <2>1 DEF SchemaInv, Place
      <3>3. S!Effect(db, S!Statement(p)) = S!AddColumn(db, S!Statement(p).name)
        BY <2>3, <3>2 DEF S!Effect
      <3> QED BY <2>1, <3>1, <3>3, SchemaRuns
    <2> QED BY <2>2, <2>3
  <1>5. CASE S!End(p)
    BY <1>5, SchemaEnds DEF S!End
  <1> QED BY <1>1, <1>3, <1>4, <1>5, SchemaStart, SchemaReads, SchemaCopies, SchemaSelects,
             SchemaRecords

LEMMA SchemaSame == ASSUME SchemaInv, UNCHANGED schemaVars PROVE SchemaInv'
  <1>1. /\ db' = db /\ recorded' = recorded /\ backups' = backups /\ process' = process
        /\ starts' = starts /\ origin' = origin /\ target' = target /\ shared' = shared
    BY DEF schemaVars
  <1>2. S!TypeOK'
    BY <1>1 DEF SchemaInv, S!TypeOK
  <1>3. Copied' <=> Copied
    BY <1>1 DEF Copied
  <1>4. \A p \in Processes : Place(p)' /\ Alone(p)' /\ Covered(p)' /\ Leaves(p)'
    BY <1>1, <1>3 DEF SchemaInv, Presence, Place, S!Statement, Alone, S!Migrating, Working, Reached,
                      Covered, Leaves
  <1> QED BY <1>1, <1>2, <1>3, <1>4 DEF SchemaInv, RecordsFollow, RecordsLast, Presence

\* The invariant of the migrations: what the statements before that of a process have left,
\* and that every statement keeps what all of them make of the database.
THEOREM SchemaInvariance == Spec => []SchemaInv
  <1>1. Init => SchemaInv
    BY SchemaInit DEF Init
  <1>2. SchemaInv /\ [Next]_vars => SchemaInv'
    <2> SUFFICES ASSUME SchemaInv, [Next]_vars PROVE SchemaInv'
      OBVIOUS
    <2>1. CASE S!Next
      BY <2>1, SchemaNext
    <2>2. CASE UNCHANGED schemaVars
      BY <2>2, SchemaSame
    <2> QED BY <2>1, <2>2 DEF Next, vars
  <1> QED BY <1>1, <1>2, PTL DEF Spec

\* A start of the Store that was interrupted at any statement, any number of times, ends
\* with the database that an undisturbed one would have made; with two processes at once it
\* has every column and table; and the database there was at first has its copy (store.go,
\* migrate): from any version, for any number of processes and of starts.
THEOREM MigrationAlwaysSound == Spec => []MigrationSound
  <1>1. SchemaInv => MigrationSound
    <2> SUFFICES ASSUME SchemaInv PROVE MigrationSound
      OBVIOUS
    <2>1. ASSUME NEW p \in Processes, process[p].pc = "done"
          PROVE  PresentUpto(db, 15, 1) /\ (~shared => Upto(db, 15, 1))
      <3>1. Reached(p) = <<15, 1>>
        BY <2>1, MigrationList DEF Reached
      <3>2. Leaves(p) /\ Alone(p)
        BY DEF SchemaInv, Presence
      <3>3. PresentUpto(db, 15, 1)
        BY <2>1, <3>1, <3>2 DEF Leaves
      <3>4. ~shared => Upto(db, 15, 1)
        BY <2>1, <3>1, <3>2 DEF Alone
      <3> QED BY <3>3, <3>4
    <2>2. S!Resumable
      BY <2>1, Finished DEF SchemaInv, S!Resumable, S!At
    <2>3. S!SchemaComplete
      BY <2>1, PresentAll DEF SchemaInv, S!SchemaComplete, S!At
    <2>4. S!OriginalKept
      BY DEF SchemaInv, Copied, S!OriginalKept
    <2> QED BY <2>2, <2>3, <2>4 DEF MigrationSound, SchemaInv
  <1> QED BY <1>1, SchemaInvariance, PTL

=============================================================================

---------------------------- MODULE PanelDomains ----------------------------
(***************************************************************************)
(* The domains of the panel and the agents that were installed with them   *)
(* (internal/app/store.go, server.go): the dashboard's domain in           *)
(* app_settings, the rows of managed_domains, and server_url, domain_id    *)
(* and fallback_confirmed_at of agents.                                    *)
(*                                                                         *)
(* A change of the dashboard's domain is a transaction and then statements *)
(* of its own for the rows; other requests, agents and a restart come in   *)
(* between. Which of several rows was updated last is a free choice, and   *)
(* so is whether DNS lets a domain through. The counts of the usage of a   *)
(* domain are one step.                                                    *)
(***************************************************************************)
EXTENDS Naturals

CONSTANTS
    Domains,     \* host names
    Agents,
    Handlers,    \* requests served at the same time
    None,        \* no domain, no row; for server_url, the address by IP
    MaxRequests, \* bound: requests in all, heartbeats not counted
    MaxRestarts  \* bound: times the process is restarted

\* A row is known by the request or the start that inserted it.
RowIds == 0..(MaxRequests + MaxRestarts)

DomainRow == [id : RowIds, status : {"active", "legacy"}, primary : BOOLEAN]

AgentRow == [url : Domains \cup {None}, domain : RowIds \cup {None},
             confirmed : BOOLEAN, hint : Domains \cup {None}]

VARIABLES
    dashboard, \* app_settings.dashboard_domain
    rows,      \* managed_domains
    agents,    \* agents, and the hint each was given last
    drawn,     \* agents that were ever created: randomID never repeats
    used,      \* domains that some resource uses
    panel,     \* requests under way
    count,     \* requests so far
    restarts,
    settled,   \* history: the last change of domains ran alone, or the server restarted
    left       \* history: domains that stopped being the primary one

rowVars  == <<dashboard, rows>>
vars     == <<rowVars, agents, drawn, used, panel, count, restarts, settled, left>>

Idle == [pc |-> "idle"]

Request ==
    [pc : {"insertDomain", "first", "previous", "clearing", "commit", "ensure", "clear",
           "set", "replaced", "legacy", "marking", "deleting", "remove",
           "insertAgent", "endpoints"},
     domain : Domains \cup {None}, prev : Domains \cup {None}, id : RowIds \cup {None},
     agent : Agents \cup {None}, alone : BOOLEAN]

TypeOK ==
    /\ dashboard \in Domains \cup {None}
    /\ rows \in [Domains -> DomainRow \cup {None}]
    /\ agents \in [Agents -> AgentRow \cup {None}]
    /\ used \subseteq Domains /\ left \subseteq Domains /\ drawn \subseteq Agents
    /\ panel \in [Handlers -> Request \cup {Idle}]
    /\ count \in 0..MaxRequests /\ restarts \in 0..MaxRestarts
    /\ settled \in BOOLEAN

\* A panel with a domain, or a new one.
Init ==
    /\ \/ /\ dashboard = None
          /\ rows = [d \in Domains |-> None]
       \/ /\ dashboard \in Domains
          /\ rows = [d \in Domains |->
                 IF d = dashboard THEN [id |-> 0, status |-> "active", primary |-> TRUE]
                                  ELSE None]
    /\ agents = [a \in Agents |-> None]
    /\ drawn = {} /\ used = {} /\ left = {}
    /\ panel = [h \in Handlers |-> Idle]
    /\ count = 0 /\ restarts = 0
    /\ settled = TRUE

-----------------------------------------------------------------------------
(* What the tables say. *)

Known == {d \in Domains : rows[d] # None}

Primaries == {d \in Known : rows[d].primary}

Active == {d \in Known : rows[d].status = "active"}

\* EffectiveConfig: the setting, the primary row, or an active one.
Effective ==
    IF dashboard # None THEN {dashboard}
    ELSE IF Primaries # {} THEN Primaries
    ELSE IF Active # {} THEN Active
    ELSE {None}

Installed == {a \in Agents : agents[a] # None}

\* The agents of ManagedDomainUsageByDomain: by their URL or by their row.
AgentsOn(d) ==
    {a \in Installed : agents[a].url = d \/ (d \in Known /\ agents[a].domain = rows[d].id)}

\* ManagedDomainAgentsWithoutFallbackByDomain.
Unsafe(d) == {a \in AgentsOn(d) : ~agents[a].confirmed}

\* hydrateManagedDomainUsageAndLock.
DeleteLocked(d) == rows[d].primary \/ d \in used \/ Unsafe(d) # {}

\* PanelDomainsForTraefik: the primary domain, and the legacy ones while there are agents.
PanelDomainsForTraefik(primary) ==
    ({primary} \ {None}) \cup
        {d \in Known : rows[d].status = "legacy" /\ (Installed # {} \/ AgentsOn(d) # {})}

\* domainIDForBaseURL, domainIDForAgentURL.
IdOf(d) == IF d \in Known THEN rows[d].id ELSE None

-----------------------------------------------------------------------------
(* Requests. *)

At(h, pc) == panel[h].pc = pc

Step(h, pc) == panel' = [panel EXCEPT ![h].pc = pc]

Leave(h) == panel' = [panel EXCEPT ![h] = Idle]

\* Requests that change rows of managed_domains.
Changing == {h \in Handlers : panel[h].pc \notin {"idle", "insertAgent", "endpoints"}}

\* A request begins; it runs alone as long as no other changes domains.
Begin(h, pc, d, id, a) ==
    /\ At(h, "idle")
    /\ count < MaxRequests
    /\ count' = count + 1
    /\ LET agentOnly == pc \in {"insertAgent", "endpoints"} IN
       /\ panel' = [g \in Handlers |->
              IF g = h THEN [pc |-> pc, domain |-> d, prev |-> None, id |-> id, agent |-> a,
                             alone |-> Changing = {}]
              ELSE IF g \in Changing /\ ~agentOnly THEN [panel[g] EXCEPT !.alone = FALSE]
              ELSE panel[g]]
       /\ settled' = (settled /\ (agentOnly \/ Changing = {}))

\* A step of a request that changes nothing but rows.
Only(h) == UNCHANGED <<agents, drawn, used, count, restarts>>

-----------------------------------------------------------------------------
(* SaveAppSettings and SetPrimaryManagedDomain: updateSettings, and a domain that *)
(* updateManagedDomain makes the primary one or that createManagedDomain finds to *)
(* be the first.                                                                  *)

BeginSave(h) ==
    /\ \E d \in Domains \cup {None} : Begin(h, "previous", d, None, None)
    /\ UNCHANGED <<rowVars, agents, drawn, used, restarts, left>>

Previous(h) ==
    /\ At(h, "previous")
    /\ panel' = [panel EXCEPT ![h].prev = dashboard, ![h].pc =
           IF dashboard # None /\ panel[h].domain = None THEN "clearing" ELSE "commit"]
    /\ UNCHANGED <<rowVars, settled, left>> /\ Only(h)

\* The panel cannot be left without a domain while there are agents.
Clearing(h) ==
    /\ At(h, "clearing")
    /\ IF Installed # {} THEN Leave(h) ELSE Step(h, "commit")
    /\ UNCHANGED <<rowVars, settled, left>> /\ Only(h)

Commit(h) ==
    /\ At(h, "commit")
    /\ dashboard' = panel[h].domain
    /\ IF panel[h].domain = None THEN Leave(h) ELSE Step(h, "ensure")
    /\ UNCHANGED <<rows, settled, left>> /\ Only(h)

\* EnsureManagedDomain: a new row is active, and a legacy one stays legacy.
EnsureManagedDomain(h) ==
    /\ At(h, "ensure")
    /\ rows' = [rows EXCEPT ![panel[h].domain] =
           IF @ = None THEN [id |-> count, status |-> "active", primary |-> FALSE] ELSE @]
    /\ Step(h, "clear")
    /\ UNCHANGED <<dashboard, settled, left>> /\ Only(h)

\* Mutant: the primary domain of before keeps its mark.
ClearNothing(h) ==
    /\ At(h, "clear")
    /\ Step(h, "set")
    /\ UNCHANGED <<rowVars, settled, left>> /\ Only(h)

\* UPDATE managed_domains SET is_primary = 0 WHERE is_primary = 1.
ClearPrimary(h) ==
    /\ At(h, "clear")
    /\ rows' = [d \in Domains |->
           IF d \in Known THEN [rows[d] EXCEPT !.primary = FALSE] ELSE None]
    /\ left' = left \cup (Primaries \ {panel[h].domain})
    /\ Step(h, "set")
    /\ UNCHANGED <<dashboard, settled>> /\ Only(h)

Finish(h) ==
    /\ Leave(h)
    /\ settled' = (settled \/ panel[h].alone)

Replaces(h) == panel[h].prev \notin {None, panel[h].domain}

SetPrimary(h) ==
    LET d == panel[h].domain IN
    /\ At(h, "set")
    /\ rows' = [rows EXCEPT ![d] =
           IF @ = None THEN None ELSE [@ EXCEPT !.status = "active", !.primary = TRUE]]
    /\ left' = left \ {d}
    /\ IF Replaces(h) THEN Step(h, "replaced") /\ UNCHANGED settled ELSE Finish(h)
    /\ UNCHANGED dashboard /\ Only(h)

\* The counts of what may still need the previous domain.
Replaced(h) ==
    /\ At(h, "replaced")
    /\ IF panel[h].prev \in used \/ Installed # {}
       THEN Step(h, "legacy") /\ UNCHANGED settled
       ELSE Finish(h)
    /\ UNCHANGED <<rowVars, left>> /\ Only(h)

\* Mutant: the previous domain becomes legacy and stays marked as the primary one.
LegacyStill(row) == [row EXCEPT !.status = "legacy"]

\* SET status = 'legacy', enabled = 0, is_primary = 0.
Legacy(row) == [row EXCEPT !.status = "legacy", !.primary = FALSE]

PreviousLegacy(h) ==
    /\ At(h, "legacy")
    /\ rows' = [rows EXCEPT ![panel[h].prev] = IF @ = None THEN None ELSE Legacy(@)]
    /\ Finish(h)
    /\ UNCHANGED <<dashboard, left>> /\ Only(h)

-----------------------------------------------------------------------------
(* The other requests about domains. *)

\* createManagedDomain: AddManagedDomain counts and inserts.
BeginAdd(h) ==
    /\ \E d \in Domains \ Known : Begin(h, "insertDomain", d, None, None)
    /\ UNCHANGED <<rowVars, agents, drawn, used, restarts, left>>

AddManagedDomain(h) ==
    LET d == panel[h].domain IN
    /\ At(h, "insertDomain")
    /\ IF d \in Known
       THEN Leave(h) /\ UNCHANGED rows
       ELSE /\ rows' = [rows EXCEPT ![d] =
                   [id |-> count, status |-> "active", primary |-> FALSE]]
            /\ Step(h, "first")
    /\ UNCHANGED <<dashboard, settled, left>> /\ Only(h)

\* A panel without a domain takes the new one.
FirstDomain(h) ==
    /\ At(h, "first")
    /\ IF dashboard = None THEN Step(h, "previous") ELSE Leave(h)
    /\ UNCHANGED <<rowVars, settled, left>> /\ Only(h)

BeginMark(h) ==
    /\ \E d \in Known \ Primaries : Begin(h, "marking", d, rows[d].id, None)
    /\ UNCHANGED <<rowVars, agents, drawn, used, restarts, left>>

\* MarkManagedDomainLegacy, by the row's id.
MarkManagedDomainLegacy(h) ==
    LET d == panel[h].domain IN
    /\ At(h, "marking")
    /\ rows' = [rows EXCEPT ![d] =
           IF d \in Known /\ rows[d].id = panel[h].id THEN Legacy(@) ELSE @]
    /\ Leave(h)
    /\ UNCHANGED <<dashboard, settled, left>> /\ Only(h)

\* ActivateManagedDomain.
ActivateManagedDomain ==
    /\ count < MaxRequests
    /\ count' = count + 1
    /\ \E d \in Known :
          /\ rows' = [rows EXCEPT ![d].status = "active"]
          /\ left' = left \ {d}
    /\ UNCHANGED <<dashboard, agents, drawn, used, panel, restarts, settled>>

\* deleteManagedDomain: not the domain in effect; then what locks it is read.
BeginDelete(h) ==
    /\ \E d \in Known, e \in Effective :
          d # e /\ Begin(h, "deleting", d, rows[d].id, None)
    /\ UNCHANGED <<rowVars, agents, drawn, used, restarts, left>>

CheckLock(h) ==
    LET d == panel[h].domain IN
    /\ At(h, "deleting")
    /\ IF IdOf(d) = panel[h].id /\ ~DeleteLocked(d) THEN Step(h, "remove") ELSE Leave(h)
    /\ UNCHANGED <<rowVars, settled, left>> /\ Only(h)

DeleteManagedDomain(h) ==
    LET d == panel[h].domain IN
    /\ At(h, "remove")
    /\ rows' = [rows EXCEPT ![d] = IF IdOf(d) = panel[h].id THEN None ELSE @]
    /\ left' = left \ {d}
    /\ Leave(h)
    /\ UNCHANGED <<dashboard, settled>> /\ Only(h)

\* Resources that use a domain, or a name below it, come and go.
UseDomain ==
    /\ count < MaxRequests
    /\ count' = count + 1
    /\ \E d \in Domains : used' = IF d \in used THEN used \ {d} ELSE used \cup {d}
    /\ UNCHANGED <<rowVars, agents, drawn, panel, restarts, settled, left>>

-----------------------------------------------------------------------------
(* Agents. *)

\* publicBaseURL is read, then createAgent inserts or rotateAgentToken updates.
BeginInstall(h) ==
    /\ \E d \in Effective, a \in Agents :
          IF a \in Installed
          THEN Begin(h, "endpoints", d, IdOf(d), a) /\ UNCHANGED drawn
          ELSE /\ a \notin drawn
               /\ drawn' = drawn \cup {a}
               /\ Begin(h, "insertAgent", d, IdOf(d), a)
    /\ UNCHANGED <<rowVars, agents, used, restarts, left>>

Endpoints(h) ==
    [url |-> panel[h].domain, domain |-> panel[h].id, confirmed |-> FALSE,
     hint |-> panel[h].domain]

\* AddAgent.
InsertAgent(h) ==
    /\ At(h, "insertAgent")
    /\ agents' = [agents EXCEPT ![panel[h].agent] = Endpoints(h)]
    /\ Leave(h)
    /\ UNCHANGED <<rowVars, drawn, used, count, restarts, settled, left>>

\* UpdateAgentInstallEndpoints: the confirmation of before no longer counts.
UpdateAgentInstallEndpoints(h) ==
    LET a == panel[h].agent IN
    /\ At(h, "endpoints")
    /\ agents' = [agents EXCEPT ![a] = IF @ = None THEN None ELSE Endpoints(h)]
    /\ Leave(h)
    /\ UNCHANGED <<rowVars, drawn, used, count, restarts, settled, left>>

\* TouchAgent, with a request that came by the URL of the agent or by the one it was
\* told, and the hint of the answer. An unknown domain leaves domain_id alone.
TouchAgent ==
    /\ \E a \in Installed, e \in Effective, confirm \in BOOLEAN :
       \E d \in {agents[a].url, agents[a].hint} :
          agents' = [agents EXCEPT ![a] =
              [url |-> d, domain |-> IF IdOf(d) = None THEN @.domain ELSE IdOf(d),
               confirmed |-> @.confirmed \/ confirm, hint |-> e]]
    /\ UNCHANGED <<rowVars, drawn, used, panel, count, restarts, settled, left>>

DeleteAgent ==
    /\ count < MaxRequests
    /\ count' = count + 1
    /\ \E a \in Installed : agents' = [agents EXCEPT ![a] = None]
    /\ UNCHANGED <<rowVars, drawn, used, panel, restarts, settled, left>>

-----------------------------------------------------------------------------

\* The process stops at any point and starts: NewServer makes the domain in effect the
\* primary one.
Restart ==
    /\ restarts < MaxRestarts
    /\ restarts' = restarts + 1
    /\ panel' = [h \in Handlers |-> Idle]
    /\ settled' = TRUE
    /\ \E e \in Effective :
          IF e = None
          THEN UNCHANGED <<rows, left>>
          ELSE /\ rows' = [d \in Domains |->
                      CASE d = e /\ d \in Known ->
                              [rows[d] EXCEPT !.status = "active", !.primary = TRUE]
                        [] d = e /\ d \notin Known ->
                              [id |-> MaxRequests + restarts', status |-> "active",
                               primary |-> TRUE]
                        [] OTHER ->
                              IF d \in Known THEN [rows[d] EXCEPT !.primary = FALSE] ELSE None]
               /\ left' = (left \cup Primaries) \ {e}
    /\ UNCHANGED <<dashboard, agents, drawn, used, count>>

Save(h) ==
    \/ BeginSave(h) \/ Previous(h) \/ Clearing(h) \/ Commit(h)
    \/ EnsureManagedDomain(h) \/ ClearPrimary(h) \/ SetPrimary(h)
    \/ Replaced(h) \/ PreviousLegacy(h)

Change(h) ==
    \/ BeginAdd(h) \/ AddManagedDomain(h) \/ FirstDomain(h)
    \/ BeginMark(h) \/ MarkManagedDomainLegacy(h)
    \/ BeginDelete(h) \/ CheckLock(h) \/ DeleteManagedDomain(h)

Install(h) == BeginInstall(h) \/ InsertAgent(h) \/ UpdateAgentInstallEndpoints(h)

Next ==
    \/ \E h \in Handlers : Save(h) \/ Change(h) \/ Install(h)
    \/ ActivateManagedDomain \/ UseDomain \/ TouchAgent \/ DeleteAgent \/ Restart

Spec == Init /\ [][Next]_vars

-----------------------------------------------------------------------------

\* However requests are mixed, a domain that is marked as the primary one is active:
\* none is at the same time withdrawn from new installations and the panel's own.
PrimaryIsActive == Primaries \subseteq Active

\* What racing changes or a stop half way did to the marks, the next change that runs
\* alone or the next start puts right: one primary domain at most, and it is the
\* dashboard's (SaveAppSettings, SetPrimaryManagedDomain, NewServer).
ChangeSettles ==
    settled /\ Changing = {} =>
        /\ \A d, e \in Primaries : d = e
        /\ dashboard # None => Primaries = {dashboard}

\* "Si el dominio principal cambia y el dominio anterior tiene clientes asociados, el
\* dominio anterior queda como heredado" (contexto/39-ciclo-vida-dominios-clientes.md:13).
PreviousIsLegacy ==
    Changing = {} =>
        \A d \in left \cap Known : AgentsOn(d) # {} => rows[d].status = "legacy"

=============================================================================

------------------------------- MODULE MCStore -------------------------------
(* An instance for TLC of four parts of the Store: the rows of projects, agents and     *)
(* resources, the domains of the panel, the migrations of the database and its backups. *)
(* In these models they share nothing: a behaviour is one of one of them.               *)
EXTENDS Naturals, FiniteSets
LOCAL INSTANCE TLC

CONSTANTS
    None, Handlers,
    Routes, MaxProjects, MaxAgents, MaxRows,
    Domains, Clients, MaxRequests, MaxRestarts,
    Processes, FromVersions, MaxStarts,
    Files, Copiers, Retention, MaxDays

VARIABLES
    part,
    projects, agents, resources, drawn, handler, requests, stayed,
    dashboard, rows, installed, minted, used, panel, count, restarts, settled, left,
    db, recorded, backups, process, starts, origin, target, shared,
    dir, remote, copies, day, job, early, failed

R == INSTANCE Registry
D == INSTANCE PanelDomains WITH Agents <- Clients, agents <- installed, drawn <- minted
S == INSTANCE SchemaMigration
B == INSTANCE Backups WITH Handlers <- Copiers

\* The value of what is absent is no value, and no row either.
ASSUME NoneAssumption   ==
    None \notin Nat \cup Routes \cup Domains \cup Files \cup R!Row \cup D!DomainRow \cup B!Backup
ASSUME BoundsAssumption ==
    /\ {MaxRequests, MaxRestarts, MaxStarts, Retention, MaxDays} \subseteq Nat
    /\ {MaxProjects, MaxAgents, MaxRows} \subseteq Nat \ {0}
    /\ FromVersions \subseteq 0..S!Latest

\* The two values of each kind are alike, so states that differ by exchanging them are one.
\* A behaviour is of one part: all kinds are exchanged at once.
Kinds == {Handlers, Domains, Processes, Files}
Exchange ==
    {f \in Permutations(UNION Kinds) :
        /\ \A K \in Kinds : \A v \in K : f[v] \in K
        /\ (\A v \in DOMAIN f : f[v] = v) \/ (\A v \in DOMAIN f : f[v] # v)}

registryVars == <<projects, agents, resources, drawn, handler, requests, stayed>>
domainVars   == <<dashboard, rows, installed, minted, used, panel, count, restarts, settled, left>>
schemaVars   == <<db, recorded, backups, process, starts, origin, target, shared>>
backupVars   == <<dir, remote, copies, day, job, early, failed>>
vars         == <<part, registryVars, domainVars, schemaVars, backupVars>>

\* Of the parts that do not run, one initial state.
Init ==
    /\ part \in {"registry", "domains", "schema", "backups"}
    /\ R!Init
    /\ D!Init /\ (part # "domains" => dashboard = None)
    /\ S!Init /\ (part # "schema" => origin = S!Fresh)
    /\ B!Init /\ (part # "backups" => ~copies)

Next ==
    /\ UNCHANGED part
    /\ \/ part = "registry" /\ R!Next /\ UNCHANGED <<domainVars, schemaVars, backupVars>>
       \/ part = "domains" /\ D!Next /\ UNCHANGED <<registryVars, schemaVars, backupVars>>
       \/ part = "schema" /\ S!Next /\ UNCHANGED <<registryVars, domainVars, backupVars>>
       \/ part = "backups" /\ B!Next /\ UNCHANGED <<registryVars, domainVars, schemaVars>>

Spec == Init /\ [][Next]_vars

\* Rows refer to what is there, in their own project, and routes lead to one resource.
RowsConsistent == R!TypeOK /\ R!AgentsAtHome /\ R!RoutesApart

\* A project is deleted past two counts, and what they could see has gone.
DeletionSpares == R!DeletionSpares

\* The marks of the domains agree with each other and settle on the dashboard's.
DomainsSettle == D!TypeOK /\ D!PrimaryIsActive /\ D!ChangeSettles

\* A start that was interrupted is made good by the next one, and the first database has
\* a copy.
MigrationSound == S!TypeOK /\ S!Resumable /\ S!SchemaComplete /\ S!OriginalKept

\* No backup goes before its time, and copies that follow a backup are whole.
BackupsKept == B!KeptUntilOld /\ [](B!TypeOK /\ B!CopiesWhole)

=============================================================================

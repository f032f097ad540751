--------------------------- MODULE SchemaMigration ---------------------------
(***************************************************************************)
(* The start of a Store (internal/app/store.go, migrate): the version of   *)
(* the database is read, a copy of it is made if migrations are missing,   *)
(* and the thirteen migrations are applied in order, each a sequence of    *)
(* statements with no transaction around them, before its version is       *)
(* recorded. A process may end between any two statements and start again, *)
(* and a second one (pangolite doctor, or the command that resets a        *)
(* password) may open the same file meanwhile.                             *)
(*                                                                         *)
(* Columns and tables are kept one for each statement that tells them      *)
(* apart; rows are one remote resource and its agent, one managed domain   *)
(* besides the panel's, and what the migrations write of them.             *)
(***************************************************************************)
EXTENDS Naturals, Sequences, FiniteSets

CONSTANTS
    Processes,    \* processes that open the database
    None,         \* the value of what is absent
    FromVersions, \* the versions that the database may have at first
    MaxStarts     \* bound: starts of a process

VARIABLES
    db,       \* the database, but for schema_migrations
    recorded, \* schema_migrations
    backups,  \* backups/migrations: of each copy, the version and whether it is of origin
    process,
    starts,
    origin,   \* history: the database that was there at first
    target,   \* history: what migrations that nothing interrupts make of it
    shared    \* history: two processes have been migrating at the same time

vars == <<db, recorded, backups, process, starts, origin, target, shared>>

Column(name) == [op |-> "column", name |-> name]
Sql(name)    == [op |-> "sql", name |-> name]

\* What each migration does, in its order; the one after the last is
\* ensureCriticalRuntimeSchema, which is not recorded.
Migrations == <<
    <<Sql("base")>>,
    <<Column("project"), Column("origin"), Sql("originOfAgent"),
      Sql("general"), Sql("agentsToGeneral"), Sql("resourcesToGeneral")>>,
    <<Column("suspension")>>,
    <<Column("status"), Column("primary"), Column("url"), Sql("statusOfEnabled"),
      Sql("enabledOfStatus"), Sql("ensurePanelDomain"), Sql("clearPrimary"),
      Sql("setPrimary"), Sql("linkAgents")>>,
    <<Column("fallback")>>,
    <<Sql("webTables")>>,
    <<Sql("unifiedTables"), Sql("copyWeb"), Sql("copyWebResources")>>,
    <<Column("email"), Sql("resetTable")>>,
    <<Column("redirect")>>,
    <<Sql("createTrusted")>>,
    <<Column("client")>>,
    <<Sql("dropTrusted")>>,
    <<Column("branding")>>,
    <<Column("client"), Column("branding")>> >>

Latest   == Len(Migrations) - 1
Versions == 1..Latest

Columns ==
    {"project", "origin", "suspension", "status", "primary", "url", "fallback",
     "email", "redirect", "client", "branding"}

Tables == {"core", "web", "unified", "reset", "trusted"}

\* rows: there is something in it; agentProject, project: those of the agent and of the
\* resource; general: the project General; panel: the row of the panel's domain; enabled,
\* status: those of the other domain; web: the agent is in web maintenance.
Databases ==
    [has : SUBSET (Columns \cup Tables), rows : BOOLEAN,
     agentProject : {None, "", "default", "own"}, project : {None, "", "default", "own"},
     general : BOOLEAN, originType : {None, "local", "agent"},
     enabled : BOOLEAN, status : {None, "active", "legacy"},
     panel : {"absent", "row", "primary"}, url : BOOLEAN,
     web : BOOLEAN, unified : BOOLEAN, unifiedResource : BOOLEAN]

-----------------------------------------------------------------------------
(* The statements. *)

\* The values that rows have in a new column are its DEFAULT.
AddColumn(d, c) ==
    LET added == [d EXCEPT !.has = @ \cup {c}] IN
    CASE c = "project" /\ d.rows ->
            [added EXCEPT !.agentProject = "default", !.project = "default"]
      [] c = "origin" /\ d.rows -> [added EXCEPT !.originType = "local"]
      [] c = "status" /\ d.rows -> [added EXCEPT !.status = "active"]
      [] OTHER -> added

AddTable(d, t) == [d EXCEPT !.has = @ \cup {t}]

NeedsGeneral(d) == {d.agentProject, d.project} \cap {"", "default"} # {}

Run(d, name) ==
    CASE name = "base" /\ "core" \notin d.has -> [d EXCEPT !.has = @ \cup {"core"} \cup Columns]
      [] name = "general" /\ NeedsGeneral(d) -> [d EXCEPT !.general = TRUE]
      [] name = "agentsToGeneral" /\ d.agentProject = "" -> [d EXCEPT !.agentProject = "default"]
      [] name = "resourcesToGeneral" /\ d.project = "" -> [d EXCEPT !.project = "default"]
      [] name = "enabledOfStatus" /\ d.rows -> [d EXCEPT !.enabled = (d.status = "active")]
      [] name = "ensurePanelDomain" /\ d.rows /\ d.panel = "absent" -> [d EXCEPT !.panel = "row"]
      [] name = "clearPrimary" /\ d.panel = "primary" -> [d EXCEPT !.panel = "row"]
      [] name = "setPrimary" /\ d.panel = "row" -> [d EXCEPT !.panel = "primary"]
      [] name = "linkAgents" /\ d.rows -> [d EXCEPT !.url = TRUE]
      [] name = "webTables" -> AddTable(d, "web")
      [] name = "unifiedTables" -> AddTable(d, "unified")
      [] name = "copyWeb" -> [d EXCEPT !.unified = @ \/ d.web]
      [] name = "copyWebResources" -> [d EXCEPT !.unifiedResource = @ \/ d.web]
      [] name = "resetTable" -> AddTable(d, "reset")
      [] name = "createTrusted" -> AddTable(d, "trusted")
      [] name = "dropTrusted" -> [d EXCEPT !.has = @ \ {"trusted"}]
      \* originOfAgent and statusOfEnabled look for the empty text where the column has
      \* just put its DEFAULT.
      [] OTHER -> d

Effect(d, s) ==
    IF s.op = "sql" THEN Run(d, s.name)
    ELSE IF s.name \in d.has THEN d ELSE AddColumn(d, s.name)

\* What statements make of a database one after the other, nothing interrupting them, and
\* the same of the migrations from one to another.
Effects(d, s) ==
    LET after[k \in 0..Len(s)] == IF k = 0 THEN d ELSE Effect(after[k - 1], s[k])
    IN  after[Len(s)]

Migrated(d, first, last) ==
    LET made[v \in (first - 1)..last] ==
            IF v < first THEN d ELSE Effects(made[v - 1], Migrations[v])
    IN  made[last]

-----------------------------------------------------------------------------

Fresh ==
    [has |-> {}, rows |-> FALSE, agentProject |-> None, project |-> None, general |-> FALSE,
     originType |-> None, enabled |-> FALSE, status |-> None, panel |-> "absent",
     url |-> FALSE, web |-> FALSE, unified |-> FALSE, unifiedResource |-> FALSE]

\* Databases older than schema_migrations, from before the projects or after.
Oldest ==
    {[Fresh EXCEPT !.has = {"core"}, !.rows = TRUE],
     [Fresh EXCEPT !.has = {"core", "project", "origin"}, !.rows = TRUE, !.agentProject = "own",
                   !.project = "", !.originType = "agent", !.enabled = TRUE, !.panel = "row"]}

\* The one that a release of a version left, used since.
Released(v) ==
    LET migrated == {Migrated(d, 1, v) : d \in Oldest} IN
    IF v = 6 THEN {[d EXCEPT !.web = w] : d \in migrated, w \in BOOLEAN} ELSE migrated

Down == [pc |-> "down", from |-> 0, v |-> 0, i |-> 0]

TypeOK ==
    /\ db \in Databases /\ origin \in Databases /\ target \in Databases
    /\ recorded \subseteq Versions
    /\ backups \subseteq [from : 0..Latest, first : BOOLEAN]
    /\ process \in [Processes ->
           [pc : {"down", "table", "backup", "select", "apply", "add", "record", "done"},
            from : 0..Latest, v : 0..Latest + 1, i : 0..9]]
    /\ starts \in 0..MaxStarts
    /\ shared \in BOOLEAN

Init ==
    /\ \E v \in FromVersions :
          /\ origin \in Released(v) \cup (IF v = 0 THEN {Fresh} ELSE {})
          /\ recorded = 1..v
          /\ target = Migrated(origin, v + 1, Latest + 1)
    /\ db = origin
    /\ backups = {}
    /\ process = [p \in Processes |-> Down]
    /\ starts = 0
    /\ shared = FALSE

At(p, pc) == process[p].pc = pc

Step(p, pc) == process' = [process EXCEPT ![p].pc = pc]

Migrating(p) == process[p].pc \notin {"down", "done"}

\* The largest version recorded.
SchemaVersion == CHOOSE v \in recorded \cup {0} : \A w \in recorded : w <= v

\* NewStore.
Start(p) ==
    /\ At(p, "down")
    /\ starts < MaxStarts
    /\ starts' = starts + 1
    /\ Step(p, "table")
    /\ shared' = (shared \/ \E q \in Processes : Migrating(q))
    /\ UNCHANGED <<db, recorded, backups, origin, target>>

\* ensureMigrationTable and SchemaVersion.
ReadVersion(p) ==
    /\ At(p, "table")
    /\ process' = [process EXCEPT ![p] =
           [pc |-> IF SchemaVersion < Latest THEN "backup" ELSE "select",
            from |-> SchemaVersion, v |-> 1, i |-> 0]]
    /\ UNCHANGED <<db, recorded, backups, starts, origin, target, shared>>

\* Mutant: the copy is named by the versions alone and takes the place of an older one.
BackupReplaces(p) ==
    /\ At(p, "backup")
    /\ backups' = {b \in backups : b.from # process[p].from}
                      \cup {[from |-> process[p].from, first |-> db = origin]}
    /\ Step(p, "select")
    /\ UNCHANGED <<db, recorded, starts, origin, target, shared>>

\* VACUUM INTO a name with the versions and the second. An error, a file of that name
\* included, ends the process.
BackupBeforeMigrations(p) ==
    /\ At(p, "backup")
    /\ \/ backups' = backups \cup {[from |-> process[p].from, first |-> db = origin]}
       \/ db = Fresh /\ UNCHANGED backups
    /\ Step(p, "select")
    /\ UNCHANGED <<db, recorded, starts, origin, target, shared>>

Following(p) == process' = [process EXCEPT ![p].pc = "select", ![p].v = @ + 1, ![p].i = 0]

\* migrationApplied.
Select(p) ==
    /\ At(p, "select")
    /\ IF process[p].v \in recorded
          THEN Following(p)
          ELSE process' = [process EXCEPT ![p].pc = "apply", ![p].i = 1]
    /\ UNCHANGED <<db, recorded, backups, starts, origin, target, shared>>

Statement(p) == Migrations[process[p].v][process[p].i]

\* After the statement, the next one; after the last, the record.
Advance(p) ==
    IF process[p].i < Len(Migrations[process[p].v])
        THEN process' = [process EXCEPT ![p].pc = "apply", ![p].i = @ + 1]
        ELSE process' = [process EXCEPT ![p].pc = "record", ![p].i = 0]

\* A statement; of ensureColumn, the look at the columns of the table.
Apply(p) ==
    /\ At(p, "apply")
    /\ IF Statement(p).op = "column"
          THEN /\ IF Statement(p).name \in db.has THEN Advance(p) ELSE Step(p, "add")
               /\ UNCHANGED db
          ELSE /\ db' = Run(db, Statement(p).name)
               /\ Advance(p)
    /\ UNCHANGED <<recorded, backups, starts, origin, target, shared>>

\* ALTER TABLE, an error when another process has added the column meanwhile.
AlterTable(p) ==
    /\ At(p, "add")
    /\ IF Statement(p).name \in db.has
          THEN process' = [process EXCEPT ![p] = Down] /\ UNCHANGED db
          ELSE db' = AddColumn(db, Statement(p).name) /\ Advance(p)
    /\ UNCHANGED <<recorded, backups, starts, origin, target, shared>>

\* recordMigration. The Store is open after the last of them.
RecordMigration(p) ==
    /\ At(p, "record")
    /\ IF process[p].v \in Versions
          THEN recorded' = recorded \cup {process[p].v} /\ Following(p)
          ELSE process' = [process EXCEPT ![p] = [Down EXCEPT !.pc = "done"]]
               /\ UNCHANGED recorded
    /\ UNCHANGED <<db, backups, starts, origin, target, shared>>

\* The process is killed, or a statement fails: NewStore returns the error.
End(p) ==
    /\ ~At(p, "down")
    /\ process' = [process EXCEPT ![p] = Down]
    /\ UNCHANGED <<db, recorded, backups, starts, origin, target, shared>>

Next ==
    \E p \in Processes :
        \/ Start(p) \/ ReadVersion(p) \/ BackupBeforeMigrations(p) \/ Select(p)
        \/ Apply(p) \/ AlterTable(p) \/ RecordMigration(p) \/ End(p)

Spec == Init /\ [][Next]_vars

-----------------------------------------------------------------------------

\* However often the start was interrupted, and wherever, a Store that opens has what an
\* undisturbed start would have made of the first database, unless two processes were
\* migrating at once.
Resumable ==
    (~shared /\ \E p \in Processes : At(p, "done")) => db = target

\* With two at once too, a Store that opens has every column and table that the queries
\* of this version name.
SchemaComplete ==
    (\E p \in Processes : At(p, "done")) => target.has \subseteq db.has

\* Before the first change there is a copy of what was there, and no later start takes
\* its place (docs/arquitectura.md:83).
OriginalKept ==
    db # origin /\ origin.rows => \E b \in backups : b.first

=============================================================================

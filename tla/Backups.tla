------------------------------- MODULE Backups -------------------------------
(***************************************************************************)
(* The backups of the database (internal/app/maintenance.go,               *)
(* backup_remote.go): VACUUM INTO a file of the backup directory, by       *)
(* request or by the goroutine of startAutomaticBackups; the removal of    *)
(* the old automatic ones, which are told by their name; and the copy to a *)
(* remote place, after a backup or by request.                             *)
(***************************************************************************)
EXTENDS Naturals, FiniteSets

CONSTANTS
    Files,     \* backups that can be made
    Handlers,  \* requests served at the same time
    None,      \* the value of what is absent
    Retention, \* BackupRetentionDays
    MaxDays    \* bound: days that pass

Days == 0..MaxDays

\* Of a name, its label, which backupFilename puts last, before ".db": that of the
\* automatic backups, one in which "-auto-" comes up, or another.
Labels == {"auto", "auto more", "other"}

VARIABLES
    dir,     \* the backup directory
    remote,  \* the remote place
    copies,  \* the remote place is enabled, with automatic copies
    day,
    job,     \* what a request, or the goroutine, is doing
    early,   \* history: files that a request began to copy before they were whole
    failed   \* history: files whose VACUUM INTO failed or was cut short

vars == <<dir, remote, copies, day, job, early, failed>>

Auto == "auto"
Workers == Handlers \cup {Auto}

Idle == [pc |-> "idle", file |-> None, whole |-> FALSE]

Backup == [label : Labels, made : Days, stage : {"partial", "whole"}]

TypeOK ==
    /\ \A f \in Files : dir[f] = None \/ dir[f] \in Backup
    /\ remote \in [Files -> {"none", "broken", "whole"}]
    /\ copies \in BOOLEAN
    /\ day \in Days
    /\ job \in [Workers -> [pc : {"idle", "vacuum", "clean", "copy", "put", "upload"},
                            file : Files \cup {None}, whole : BOOLEAN]]
    /\ early \subseteq Files /\ failed \subseteq Files

Init ==
    /\ dir = [f \in Files |-> None]
    /\ remote = [f \in Files |-> "none"]
    /\ copies \in BOOLEAN
    /\ day = 0
    /\ job = [w \in Workers |-> Idle]
    /\ early = {} /\ failed = {}

-----------------------------------------------------------------------------

At(w, pc) == job[w].pc = pc

Step(w, pc) == job' = [job EXCEPT ![w].pc = pc]

Leave(w) == job' = [job EXCEPT ![w] = Idle]

\* CreateBackup, of a name that is not there: names have the second. The store has one
\* connection.
VacuumBegins(w) ==
    /\ At(w, "idle")
    /\ ~\E v \in Workers : At(v, "vacuum")
    /\ \E f \in Files, label \in Labels :
          /\ dir[f] = None /\ remote[f] = "none" /\ \A v \in Workers : job[v].file # f
          /\ (w = Auto) => label = "auto"
          /\ dir' = [dir EXCEPT ![f] = [label |-> label, made |-> day, stage |-> "partial"]]
          /\ job' = [job EXCEPT ![w] = [pc |-> "vacuum", file |-> f, whole |-> FALSE]]
    /\ UNCHANGED <<remote, copies, day, early, failed>>

AfterVacuum(w) == Step(w, IF w = Auto THEN "clean" ELSE "copy")

VacuumEnds(w) ==
    /\ At(w, "vacuum")
    /\ dir' = [dir EXCEPT ![job[w].file].stage = "whole"]
    /\ AfterVacuum(w)
    /\ UNCHANGED <<remote, copies, day, early, failed>>

\* Mutant: what the statement returns is only logged.
VacuumFailsOn(w) ==
    /\ At(w, "vacuum")
    /\ AfterVacuum(w)
    /\ failed' = failed \cup {job[w].file}
    /\ UNCHANGED <<dir, remote, copies, day, early>>

\* An error, or the browser has left (the statement has the request's context): the file
\* may stay, as far as it was written.
VacuumFails(w) ==
    /\ At(w, "vacuum")
    /\ \/ dir' = [dir EXCEPT ![job[w].file] = None]
       \/ UNCHANGED dir
    /\ failed' = failed \cup {job[w].file}
    /\ Leave(w)
    /\ UNCHANGED <<remote, copies, day, early>>

\* Mutant: the files after the cutoff go, not those before it.
OldNot(f) == dir[f].label = "auto more" /\ dir[f].made + Retention > day

\* strings.Contains(name, "-auto-"): in the name of an automatic backup the label is
\* followed by the extension.
Old(f) == dir[f].label = "auto more" /\ dir[f].made + Retention <= day

\* DeleteOldBackups; an error of Remove is passed over.
DeleteOldBackups ==
    /\ At(Auto, "clean")
    /\ \E kept \in SUBSET {f \in Files : dir[f] # None /\ Retention > 0 /\ Old(f)} :
          dir' = [f \in Files |->
              IF dir[f] # None /\ Retention > 0 /\ Old(f) /\ f \notin kept THEN None ELSE dir[f]]
    /\ Step(Auto, "copy")
    /\ UNCHANGED <<remote, copies, day, early, failed>>

\* LoadBackupRemoteConfig.
Copy(w) ==
    /\ At(w, "copy")
    /\ IF copies THEN Step(w, "put") ELSE Leave(w)
    /\ UNCHANGED <<dir, remote, copies, day, early, failed>>

\* uploadBackupRemote opens the file and takes its size (webdavUpload) or its hash
\* (s3Upload).
Open(w) ==
    /\ At(w, "put")
    /\ LET f == job[w].file IN
          IF dir[f] = None
              THEN Leave(w)
              ELSE job' = [job EXCEPT ![w].pc = "upload", ![w].whole = (dir[f].stage = "whole")]
    /\ UNCHANGED <<dir, remote, copies, day, early, failed>>

\* A remote place that checks the hash refuses what has grown since; of one that does
\* not, the object is as long as the file was. An error may come after all was sent.
UploadEnds(w) ==
    /\ At(w, "upload")
    /\ \/ remote' = [remote EXCEPT ![job[w].file] = IF job[w].whole THEN "whole" ELSE "broken"]
       \/ UNCHANGED remote
    /\ Leave(w)
    /\ UNCHANGED <<dir, copies, day, early, failed>>

\* uploadBackupRemote of Server: any file of the list. The remote place has to be enabled,
\* the automatic copies need not be.
Upload(h) ==
    /\ At(h, "idle")
    /\ \E f \in Files :
          /\ dir[f] # None
          /\ job' = [job EXCEPT ![h] = [pc |-> "put", file |-> f, whole |-> FALSE]]
          /\ early' = IF dir[f].stage = "partial" THEN early \cup {f} ELSE early
    /\ UNCHANGED <<dir, remote, copies, day, failed>>

\* SaveBackupRemoteConfig.
Configure ==
    /\ copies' = ~copies
    /\ UNCHANGED <<dir, remote, day, job, early, failed>>

\* Writing a backup and looking for the old ones take less.
DayPasses ==
    /\ day < MaxDays
    /\ ~\E w \in Workers : At(w, "vacuum") \/ At(w, "clean")
    /\ day' = day + 1
    /\ UNCHANGED <<dir, remote, copies, job, early, failed>>

\* The process ends and starts again.
Restart ==
    /\ job' = [w \in Workers |-> Idle]
    /\ failed' = failed \cup {job[w].file : w \in {w \in Workers : At(w, "vacuum")}}
    /\ UNCHANGED <<dir, remote, copies, day, early>>

Next ==
    \/ \E w \in Workers :
          VacuumBegins(w) \/ VacuumEnds(w) \/ VacuumFails(w) \/ Copy(w) \/ Open(w)
          \/ UploadEnds(w)
    \/ DeleteOldBackups
    \/ \E h \in Handlers : Upload(h)
    \/ Configure \/ DayPasses \/ Restart

Spec == Init /\ [][Next]_vars

-----------------------------------------------------------------------------

\* A backup that was made goes only when it is as old as the retention: no failure of a
\* copy, and no other request, takes it (contexto/77-backups-remotos-verificacion.md:12).
KeptUntilOld ==
    [][\A f \in Files :
          dir[f] # None /\ dir'[f] = None => f \in failed' \/ dir[f].made + Retention <= day]_vars

\* The copies that follow a backup are whole: an object is broken only when a request
\* chose a file that was being written, or whose writing had failed.
CopiesWhole ==
    \A f \in Files : remote[f] = "broken" => f \in early

\* "Los respaldos automaticos antiguos se limpian segun la retencion configurada."
\* (README.md:562): once the old ones have been looked for, none is left.
AutomaticRemoved ==
    [][\A f \in Files :
          At(Auto, "clean") /\ job'[Auto].pc = "copy" /\ dir[f] # None
              /\ dir[f].label = "auto" /\ dir[f].stage = "whole" /\ dir[f].made + Retention <= day
          => dir'[f] = None]_vars

=============================================================================

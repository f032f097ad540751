------------------------------- MODULE Traefik -------------------------------
(***************************************************************************)
(* What the server does to Traefik (internal/app/traefik.go, server.go):   *)
(* the static and the dynamic file of the panel, rendered over a backup    *)
(* that a failure puts back; the switch-off of HTTPS where no certificate  *)
(* can be had; and the restart, delayed so that several changes share one. *)
(*                                                                         *)
(* A file is known by the settings it was rendered for. Nothing keeps two  *)
(* renders apart: they share the name of the temporary file, that of the   *)
(* backup when they begin in the same second, and each backs up what the   *)
(* other has just written. What overlapping renders leave is Unknown.      *)
(*                                                                         *)
(* Left out: `pangolite render-traefik`, and the render before the server  *)
(* starts under PANGOLITE_BOOTSTRAP_TRAEFIK (main.go, off by default).     *)
(***************************************************************************)
EXTENDS Naturals, FiniteSets

CONSTANTS
    Handlers,   \* requests served at the same time
    Resources,  \* HTTP resources
    None,       \* the value of what is absent
    Unknown,    \* what a file holds once renders overlapped or a write was cut short
    MaxChanges, \* bound: requests
    MaxStops    \* bound: times the process stops

Versions == 0..MaxChanges

Files == {"static", "dynamic"}

\* A timer is known by the request that set it.
Timers == 1..MaxChanges

ASSUME NoneAssumption   == {None, Unknown} \cap (Versions \cup Resources) = {} /\ None # Unknown
ASSUME BoundsAssumption == {MaxChanges, MaxStops} \subseteq Nat

VARIABLES
    settings, \* the settings in SQLite, by the request that wrote them
    acme,     \* ACMEEnabled: they have a mail address for certificates
    tls,      \* the HTTP resources with TLS
    file,     \* traefik.yml and dynamic/pangolite-dashboard.yml
    changer,  \* requests under way
    changes,  \* requests so far
    stops,
    poll,     \* Traefik's own request for the routes of the resources
    stored,   \* traefikRestartTimer
    live,     \* timers that have not fired
    callback, \* callbacks of timers
    good,     \* history: what the last render that validated left, if that can be told
    owed      \* history: a static render is waiting for a restart of Traefik

settingVars == <<settings, acme>>
timerVars   == <<stored, live, callback>>
historyVars == <<good, owed>>
vars == <<settingVars, tls, file, changer, changes, stops, poll, timerVars, historyVars>>

Idle == [pc |-> "idle"]

\* new: the resource of createResource; renders: applyTraefikDynamicOnly or, with static,
\* applyTraefikStaticAndRestart; follows: the second comes after the first; old: the backups.
Request ==
    [pc : {"write", "insert", "ensure", "toggle", "read", "backup", "render",
           "renderDynamic", "validate", "restore", "schedule"},
     id : Versions, renders : BOOLEAN, static : BOOLEAN, follows : BOOLEAN,
     email : BOOLEAN \cup {None}, new : Resources \cup {None},
     want : Versions, old : [Files -> Versions \cup {Unknown}], alone : BOOLEAN]

TypeOK ==
    /\ settings \in Versions /\ acme \in BOOLEAN
    /\ tls \subseteq Resources
    /\ file \in [Files -> Versions \cup {Unknown}]
    /\ good \in [Files -> Versions \cup {Unknown}]
    /\ \A h \in Handlers : changer[h] = Idle \/ changer[h] \in Request
    /\ changes \in 0..MaxChanges /\ stops \in 0..MaxStops
    /\ poll \in {"idle", "toggle"}
    /\ stored \in Timers \cup {None}
    /\ live \subseteq Timers
    /\ callback \in [Timers -> {"none", "fired", "restarting", "running"}]
    /\ owed \in BOOLEAN

Init ==
    /\ settings = 0
    /\ acme \in BOOLEAN
    /\ tls \in IF acme THEN SUBSET Resources ELSE {{}}
    /\ file = [f \in Files |-> 0] /\ good = file
    /\ changer = [h \in Handlers |-> Idle]
    /\ changes = 0 /\ stops = 0
    /\ poll = "idle"
    /\ stored = None /\ live = {} /\ callback = [t \in Timers |-> "none"]
    /\ owed = FALSE

-----------------------------------------------------------------------------

At(h, pc) == changer[h].pc = pc

Step(h, pc) == changer' = [changer EXCEPT ![h].pc = pc]

Leave(h) == changer' = [changer EXCEPT ![h] = Idle]

Rendering(h) == changer[h].pc \in {"render", "renderDynamic", "validate", "restore"}

\* No backups yet.
Nothing == [f \in Files |-> 0]

Begin(h, pc, renders, static, follows, email, new) ==
    /\ At(h, "idle")
    /\ changes < MaxChanges
    /\ changes' = changes + 1
    /\ changer' = [changer EXCEPT ![h] =
           [pc |-> pc, id |-> changes + 1, renders |-> renders, static |-> static,
            follows |-> follows, email |-> email, new |-> new, want |-> 0,
            old |-> Nothing, alone |-> TRUE]]
    /\ UNCHANGED <<settingVars, tls, file, stops, poll, timerVars, historyVars>>

\* updateSettings: a new address for certificates, like a new domain, takes the static
\* file too.
ChangeSettings(h) ==
    \E email, follows \in BOOLEAN :
        /\ email # acme => follows
        /\ Begin(h, "write", TRUE, FALSE, follows, email, None)

\* createManagedDomain, updateManagedDomain and deleteManagedDomain: the first two may
\* save the settings that they loaded, with their mail address.
ChangeDomain(h) == \E email \in {None, acme} : Begin(h, "write", TRUE, FALSE, FALSE, email, None)

RenderTraefik(h) == Begin(h, "ensure", TRUE, TRUE, FALSE, None, None)

\* prepareHTTPSSwitch and validateHTTPSSL: a resource has TLS only with an address.
CreateResource(h) ==
    \E r \in Resources \ tls : acme /\ Begin(h, "insert", FALSE, FALSE, FALSE, None, r)

WriteSettings(h) ==
    /\ At(h, "write")
    /\ settings' = changer[h].id
    /\ acme' = IF changer[h].email = None THEN acme ELSE changer[h].email
    /\ changer' = [changer EXCEPT ![h].pc = "ensure", ![h].email = None]
    /\ UNCHANGED <<tls, file, changes, stops, poll, timerVars, historyVars>>

\* Then applyTraefikAfterResourceChange, which writes no file.
InsertResource(h) ==
    /\ At(h, "insert")
    /\ tls' = tls \cup {changer[h].new}
    /\ changer' = [changer EXCEPT ![h].pc = "ensure", ![h].new = None]
    /\ UNCHANGED <<settingVars, file, changes, stops, poll, timerVars, historyVars>>

AfterEnsure(h) == IF changer[h].renders THEN Step(h, "read") ELSE Leave(h)

\* ensureUsableHTTPSSwitches reads the settings and then runs DisableHTTPSToggles.
Ensure(h) ==
    /\ At(h, "ensure")
    /\ IF acme THEN AfterEnsure(h) ELSE Step(h, "toggle")
    /\ UNCHANGED <<settingVars, tls, file, changes, stops, poll, timerVars, historyVars>>

\* An error is logged.
DisableHTTPSToggles(h) ==
    /\ At(h, "toggle")
    /\ tls' \in {{}, tls}
    /\ AfterEnsure(h)
    /\ UNCHANGED <<settingVars, file, changes, stops, poll, timerVars, historyVars>>

\* EffectiveConfig and PanelDomainsForTraefik.
ReadSettings(h) ==
    /\ At(h, "read")
    /\ changer' = [changer EXCEPT ![h].pc = "backup", ![h].want = settings]
    /\ UNCHANGED <<settingVars, tls, file, changes, stops, poll, timerVars, historyVars>>

-----------------------------------------------------------------------------
(* RenderStaticTraefikWithPanelDomains and RenderDynamicTraefikWithPanelDomains. *)

\* The paths that are backed up.
Touched(h) == IF changer[h].static THEN Files ELSE {"dynamic"}

\* After a render that failed there is an answer: for settings the static apply comes
\* all the same.
AfterRender(h) ==
    IF changer[h].follows
        THEN changer' = [changer EXCEPT ![h].pc = "ensure", ![h].static = TRUE,
                ![h].follows = FALSE, ![h].want = 0, ![h].old = Nothing, ![h].alone = TRUE]
        ELSE Leave(h)

\* ValidateForRender, the directories and backupTraefikFiles: an error changes nothing.
Backup(h) ==
    /\ At(h, "backup")
    /\ \/ LET others == {g \in Handlers \ {h} : Rendering(g)} IN
          /\ changer' = [g \in Handlers |->
                CASE g = h -> [changer[h] EXCEPT !.old = file, !.alone = (others = {}),
                                  !.pc = IF changer[h].static THEN "render" ELSE "renderDynamic"]
                  [] g \in others -> [changer[g] EXCEPT !.alone = FALSE]
                  [] OTHER -> changer[g]]
          /\ good' = IF others = {} THEN good ELSE [f \in Files |-> Unknown]
       \/ AfterRender(h) /\ UNCHANGED good
    /\ UNCHANGED <<settingVars, tls, file, changes, stops, poll, timerVars, owed>>

Written(h, content) == IF changer[h].alone THEN content ELSE Unknown

\* renderFile: a temporary file and a rename. An error leaves the file as it was.
RenderFile(h, f, next) ==
    /\ \/ file' = [file EXCEPT ![f] = Written(h, changer[h].want)] /\ Step(h, next)
       \/ Step(h, "restore") /\ UNCHANGED file
    /\ UNCHANGED <<settingVars, tls, changes, stops, poll, timerVars, historyVars>>

RenderStatic(h) == At(h, "render") /\ RenderFile(h, "static", "renderDynamic")

RenderDynamic(h) == At(h, "renderDynamic") /\ RenderFile(h, "dynamic", "validate")

\* acme.json and ValidateTraefikConfig. The backups go when it succeeds.
Validate(h) ==
    /\ At(h, "validate")
    /\ \/ /\ good' = [f \in Files |->
                IF changer[h].alone /\ f \in Touched(h) THEN file[f] ELSE good[f]]
          /\ IF changer[h].static THEN Step(h, "schedule") ELSE AfterRender(h)
       \/ Step(h, "restore") /\ UNCHANGED good
    /\ UNCHANGED <<settingVars, tls, file, changes, stops, poll, timerVars, owed>>

\* Mutant: only the first of the backups is put back.
RestoreFirst(h) ==
    /\ At(h, "restore")
    /\ LET f == IF changer[h].static THEN "static" ELSE "dynamic" IN
          file' = [file EXCEPT ![f] = Written(h, changer[h].old[f])]
    /\ AfterRender(h)
    /\ UNCHANGED <<settingVars, tls, changes, stops, poll, timerVars, historyVars>>

\* restoreTraefikBackups: a backup that cannot be read, or a file that cannot be opened,
\* leaves what the render wrote, and a write that fails cuts the file short. No error is
\* told, and the backups go.
Restore(h) ==
    /\ At(h, "restore")
    /\ \E back, cut \in SUBSET Touched(h) :
          /\ file' = [f \in Files |->
                 CASE f \in back       -> Written(h, changer[h].old[f])
                   [] f \in cut \ back -> Unknown
                   [] OTHER           -> file[f]]
          /\ good' = [f \in Files |-> IF f \in Touched(h) \ back THEN Unknown ELSE good[f]]
    /\ AfterRender(h)
    /\ UNCHANGED <<settingVars, tls, changes, stops, poll, timerVars, owed>>

-----------------------------------------------------------------------------
(* scheduleTraefikRestart. *)

\* Under traefikRestartMu. Without a service manager there is only a warning.
Schedule(h) ==
    /\ At(h, "schedule")
    /\ \/ /\ live' = (live \ {stored}) \cup {changer[h].id}
          /\ stored' = changer[h].id
          /\ owed' = TRUE
       \/ UNCHANGED <<live, stored, owed>>
    /\ Leave(h)
    /\ UNCHANGED <<settingVars, tls, file, changes, stops, poll, callback, good>>

Fire(t) ==
    /\ t \in live
    /\ live' = live \ {t}
    /\ callback' = [callback EXCEPT ![t] = "fired"]
    /\ UNCHANGED <<settingVars, tls, file, changer, changes, stops, poll, stored, historyVars>>

\* The field may hold by now the timer of a later request.
Clear(t) ==
    /\ callback[t] = "fired"
    /\ stored' = None
    /\ callback' = [callback EXCEPT ![t] = "restarting"]
    /\ UNCHANGED <<settingVars, tls, file, changer, changes, stops, poll, live, historyVars>>

\* RestartService, of 30 s at most: Traefik reads the files that are there. An error is
\* logged and not tried again.
RestartService(t) ==
    /\ callback[t] = "restarting"
    /\ owed' = FALSE
    /\ callback' = [callback EXCEPT ![t] = "running"]
    /\ UNCHANGED <<settingVars, tls, file, changer, changes, stops, poll, stored, live, good>>

\* Mutant: the callback clears the timer, which it takes for its own, once it is done.
RestartedClears(t) ==
    /\ callback[t] = "running"
    /\ callback' = [callback EXCEPT ![t] = "none"]
    /\ live' = live \ {stored}
    /\ stored' = None
    /\ UNCHANGED <<settingVars, tls, file, changer, changes, stops, poll, historyVars>>

Restarted(t) ==
    /\ callback[t] = "running"
    /\ callback' = [callback EXCEPT ![t] = "none"]
    /\ UNCHANGED <<settingVars, tls, file, changer, changes, stops, poll, stored, live, historyVars>>

-----------------------------------------------------------------------------

\* traefikConfig: Traefik asks for the routes every few seconds.
Poll ==
    /\ poll = "idle" /\ ~acme /\ tls # {}
    /\ poll' = "toggle"
    /\ UNCHANGED <<settingVars, tls, file, changer, changes, stops, timerVars, historyVars>>

\* Mutant: an answer to Traefik changes nothing.
PollReads ==
    /\ poll = "toggle"
    /\ poll' = "idle"
    /\ UNCHANGED <<settingVars, tls, file, changer, changes, stops, timerVars, historyVars>>

PollToggles ==
    /\ poll = "toggle"
    /\ poll' = "idle"
    /\ tls' = {}
    /\ UNCHANGED <<settingVars, file, changer, changes, stops, timerVars, historyVars>>

\* The process ends, and starts again: the restart that was due is forgotten, and a
\* render under way leaves what it had written.
Stop ==
    /\ stops < MaxStops
    /\ stops' = stops + 1
    /\ changer' = [h \in Handlers |-> Idle]
    /\ poll' = "idle"
    /\ stored' = None /\ live' = {} /\ callback' = [t \in Timers |-> "none"]
    /\ good' = IF \E h \in Handlers : Rendering(h) THEN [f \in Files |-> Unknown] ELSE good
    /\ owed' = FALSE
    /\ UNCHANGED <<settingVars, tls, file, changes>>

Apply(h) ==
    \/ WriteSettings(h) \/ InsertResource(h) \/ Ensure(h) \/ DisableHTTPSToggles(h)
    \/ ReadSettings(h) \/ Backup(h) \/ RenderStatic(h) \/ RenderDynamic(h)
    \/ Validate(h) \/ Restore(h) \/ Schedule(h)

Callback(t) == Fire(t) \/ Clear(t) \/ RestartService(t) \/ Restarted(t)

Next ==
    \/ \E h \in Handlers :
          ChangeSettings(h) \/ ChangeDomain(h) \/ RenderTraefik(h) \/ CreateResource(h)
    \/ \E h \in Handlers : Apply(h)
    \/ \E t \in Timers : Callback(t)
    \/ Poll \/ PollToggles
    \/ Stop

\* Timers fire and callbacks run; Traefik keeps asking. Handlers may take for ever.
Fairness == (\A t \in Timers : WF_vars(Callback(t))) /\ WF_vars(Poll \/ PollToggles)

Spec == Init /\ [][Next]_vars /\ Fairness

-----------------------------------------------------------------------------

\* After however many requests, and whichever of their steps failed, a file is that of the
\* last render that validated (docs/arquitectura.md:87). Nothing is said of both files once
\* renders overlap or the process stops in one, nor of a file that could not be put back,
\* until a render of it that nothing overlaps validates.
LastValidated ==
    (\A h \in Handlers : ~Rendering(h)) =>
        \A f \in Files : good[f] \in {file[f], Unknown}

\* The files of Traefik are those that it validated last, whatever is in them.
FilesValidated == TypeOK /\ LastValidated

\* A restart that was promised is tried, while the process runs: no timer is lost among
\* those that replace it. A stop forgets it.
RestartFollows == owed ~> ~owed

\* No resource keeps TLS without certificates: a request that read the settings before
\* they changed, or one whose update failed, is made up for.
HttpsUsable == (~acme /\ tls # {}) ~> (acme \/ tls = {})

=============================================================================

---------------------------- MODULE TraefikProofs ----------------------------
(***************************************************************************)
(* What the files of Traefik hold between renders, and the restart that is *)
(* promised, for any number of requests and of renders that fail, cannot   *)
(* be undone, overlap or are stopped anywhere.                             *)
(***************************************************************************)
EXTENDS Traefik, TLAPS

-----------------------------------------------------------------------------
(* The inductive invariant. *)

\* TypeOK, with the domain of changer, and what a request holds at some of its places.
Typed ==
    /\ TypeOK
    /\ changer \in [Handlers -> Request \cup {Idle}]
    /\ \A h \in Handlers :
          /\ At(h, "insert") => changer[h].new \in Resources
          /\ At(h, "render") => changer[h].static
          /\ ~At(h, "idle") => changer[h].id \in Timers

\* A render that nothing overlaps is the only one, its backups are what was valid, and
\* so is what it does not touch. While renders overlap nothing is known to be valid.
RendersTell ==
    \A h \in Handlers : Rendering(h) =>
        IF changer[h].alone
        THEN /\ \A g \in Handlers \ {h} : ~Rendering(g)
             /\ \A f \in Files :
                   /\ good[f] \in {changer[h].old[f], Unknown}
                   /\ f \notin Touched(h) => good[f] \in {file[f], Unknown}
        ELSE \A f \in Files : good[f] = Unknown

Inv == Typed /\ RendersTell /\ LastValidated

-----------------------------------------------------------------------------
(* What a step does to the requests. *)

\* Request h becomes q and no other changes.
Becomes(h, q) ==
    \A g \in Handlers : changer'[g] = IF g = h THEN q ELSE changer[g]

\* What Typed says of one request.
Sound(q) ==
    /\ q \in Request \cup {Idle}
    /\ q.pc = "insert" => q.new \in Resources
    /\ q.pc = "render" => q.static
    /\ q.pc # "idle" => q.id \in Timers

\* The part of TypeOK that is not about requests.
StateTyped ==
    /\ settings \in Versions /\ acme \in BOOLEAN
    /\ tls \subseteq Resources
    /\ file \in [Files -> Versions \cup {Unknown}]
    /\ good \in [Files -> Versions \cup {Unknown}]
    /\ changes \in 0..MaxChanges /\ stops \in 0..MaxStops
    /\ poll \in {"idle", "toggle"}
    /\ stored \in Timers \cup {None}
    /\ live \subseteq Timers
    /\ callback \in [Timers -> {"none", "fired", "restarting", "running"}]
    /\ owed \in BOOLEAN

LEMMA TypedParts ==
    Typed <=> /\ StateTyped
              /\ changer \in [Handlers -> Request \cup {Idle}]
              /\ \A h \in Handlers : Sound(changer[h])
  BY DEF Typed, TypeOK, StateTyped, Sound, At

LEMMA TypedPartsNext ==
    Typed' <=> /\ StateTyped'
               /\ changer' \in [Handlers -> Request \cup {Idle}]
               /\ \A h \in Handlers : Sound(changer'[h])
  BY DEF Typed, TypeOK, StateTyped, Sound, At

LEMMA IdleSound == Idle.pc = "idle" /\ Sound(Idle) /\ \A q \in Request : q.pc # "idle"
  BY DEF Idle, Request, Sound

LEMMA BecomesTyped ==
    ASSUME Typed, NEW h \in Handlers, NEW q, Sound(q),
           changer' = [changer EXCEPT ![h] = q], StateTyped'
    PROVE  Typed' /\ Becomes(h, q)
  <1>1. changer' \in [Handlers -> Request \cup {Idle}]
    BY DEF Typed, Sound
  <1>2. Becomes(h, q)
    BY DEF Typed, Becomes
  <1>3. \A g \in Handlers : Sound(changer'[g])
    BY <1>2, TypedParts DEF Becomes
  <1> QED BY <1>1, <1>2, <1>3, TypedPartsNext

\* A step that leaves the files, and what a render knows of them, as they were.
LEMMA Quiet ==
    ASSUME Inv, UNCHANGED <<file, good>>,
           \A g \in Handlers :
              /\ Rendering(g)' <=> Rendering(g)
              /\ Rendering(g) => changer'[g] = changer[g]
    PROVE  RendersTell' /\ LastValidated'
  <1>1. \A g \in Handlers : Rendering(g) => (Touched(g)' = Touched(g))
    BY DEF Touched
  <1>2. RendersTell'
    BY <1>1 DEF Inv, RendersTell
  <1>3. LastValidated'
    BY DEF Inv, LastValidated
  <1> QED BY <1>2, <1>3

\* A request that renders neither before nor after disturbs nothing.
LEMMA QuietRequest ==
    ASSUME Inv, NEW h \in Handlers, NEW q, Becomes(h, q), UNCHANGED <<file, good>>,
           ~Rendering(h), q.pc \notin {"render", "renderDynamic", "validate", "restore"}
    PROVE  RendersTell' /\ LastValidated'
  BY Quiet DEF Becomes, Rendering

-----------------------------------------------------------------------------
(* The initial states, and the steps that write no file. *)

LEMMA InitInv == Init => Inv
  <1> SUFFICES ASSUME Init PROVE Inv
    OBVIOUS
  <1>1. \A h \in Handlers : changer[h] = Idle
    BY DEF Init
  <1>2. StateTyped
    <2>1. 0 \in 0..MaxChanges /\ 0 \in 0..MaxStops
      BY BoundsAssumption
    <2>2. tls \subseteq Resources
      BY DEF Init
    <2>3. file \in [Files -> Versions \cup {Unknown}] /\ good = file
      BY <2>1 DEF Init, Versions
    <2>4. callback \in [Timers -> {"none", "fired", "restarting", "running"}]
      BY DEF Init
    <2> QED BY <2>1, <2>2, <2>3, <2>4 DEF Init, StateTyped, Versions
  <1>3. Typed
    BY <1>1, <1>2, IdleSound, TypedParts DEF Init
  <1>4. RendersTell /\ LastValidated
    BY <1>1, IdleSound DEF Init, RendersTell, LastValidated, Rendering
  <1> QED BY <1>3, <1>4 DEF Inv

\* A request under way, which goes on at another place.
LEMMA UnderWay ==
    ASSUME Typed, NEW h \in Handlers, changer[h].pc # "idle"
    PROVE  changer[h] \in Request /\ changer[h].id \in Timers
  <1>1. Sound(changer[h])
    BY TypedParts
  <1> QED BY <1>1, IdleSound DEF Sound

LEMMA StepSound ==
    ASSUME Typed, NEW h \in Handlers, changer[h].pc # "idle",
           NEW pc \in {"ensure", "toggle", "read", "backup", "renderDynamic", "validate",
                       "restore", "schedule"},
           Step(h, pc), StateTyped'
    PROVE  /\ Typed'
           /\ Becomes(h, [changer[h] EXCEPT !.pc = pc])
           /\ [changer[h] EXCEPT !.pc = pc].pc = pc
  <1>1. PICK q : q = [changer[h] EXCEPT !.pc = pc]
    OBVIOUS
  <1>2. Sound(q) /\ q.pc = pc
    BY <1>1, UnderWay DEF Request, Sound
  <1>3. changer' = [changer EXCEPT ![h] = q]
    BY <1>1 DEF Step
  <1> QED BY <1>1, <1>2, <1>3, BecomesTyped

LEMMA LeaveSound ==
    ASSUME Typed, NEW h \in Handlers, Leave(h), StateTyped'
    PROVE  Typed' /\ Becomes(h, Idle)
  BY BecomesTyped, IdleSound DEF Leave

LEMMA AfterRenderSound ==
    ASSUME Typed, NEW h \in Handlers, changer[h].pc # "idle", AfterRender(h), StateTyped'
    PROVE  Typed' /\ \E q : Becomes(h, q) /\ q.pc \in {"idle", "ensure"}
  <1>1. CASE ~changer[h].follows
    BY <1>1, LeaveSound, IdleSound DEF AfterRender
  <1>2. CASE changer[h].follows
    <2>1. PICK q : q = [changer[h] EXCEPT !.pc = "ensure", !.static = TRUE,
                            !.follows = FALSE, !.want = 0, !.old = Nothing, !.alone = TRUE]
      OBVIOUS
    <2>2. Nothing \in [Files -> Versions \cup {Unknown}] /\ 0 \in Versions
      BY BoundsAssumption DEF Nothing, Versions
    <2>3. Sound(q) /\ q.pc = "ensure"
      BY <2>1, <2>2, UnderWay DEF Request, Sound
    <2>4. changer' = [changer EXCEPT ![h] = q]
      BY <1>2, <2>1 DEF AfterRender
    <2> QED BY <2>3, <2>4, BecomesTyped
  <1> QED BY <1>1, <1>2

LEMMA BeginInv ==
    ASSUME Inv, NEW h \in Handlers, NEW pc \in {"write", "ensure", "insert"},
           NEW renders \in BOOLEAN, NEW static \in BOOLEAN, NEW follows \in BOOLEAN,
           NEW email \in BOOLEAN \cup {None}, NEW new \in Resources \cup {None},
           pc = "insert" => new \in Resources,
           Begin(h, pc, renders, static, follows, email, new)
    PROVE  Inv'
  <1>1. PICK q : q = [pc |-> pc, id |-> changes + 1, renders |-> renders, static |-> static,
                      follows |-> follows, email |-> email, new |-> new, want |-> 0,
                      old |-> Nothing, alone |-> TRUE]
    OBVIOUS
  <1>2. /\ Nothing \in [Files -> Versions \cup {Unknown}] /\ 0 \in Versions
        /\ changes + 1 \in Timers /\ changes + 1 \in Versions /\ changes' \in 0..MaxChanges
    BY BoundsAssumption, TypedParts DEF Inv, StateTyped, Begin, Nothing, Versions, Timers
  <1>3. q \in Request /\ q.pc = pc /\ q.id \in Timers /\ q.new = new
    BY <1>1, <1>2 DEF Request
  <1>4. Sound(q)
    BY <1>3 DEF Sound
  <1>5. changer' = [changer EXCEPT ![h] = q] /\ ~Rendering(h)
    BY <1>1 DEF Begin, At, Rendering
  <1>6. UNCHANGED <<settings, acme, tls, file, stops, poll, stored, live, callback, good, owed>>
    BY DEF Begin, settingVars, timerVars, historyVars
  <1>7. StateTyped'
    BY <1>2, <1>6, TypedParts DEF Inv, StateTyped
  <1>8. Typed' /\ Becomes(h, q)
    BY <1>4, <1>5, <1>7, BecomesTyped DEF Inv
  <1>9. RendersTell' /\ LastValidated'
    BY <1>3, <1>5, <1>6, <1>8, QuietRequest
  <1> QED BY <1>8, <1>9 DEF Inv

LEMMA NewRequestInv ==
    ASSUME Inv, NEW h \in Handlers,
           ChangeSettings(h) \/ ChangeDomain(h) \/ RenderTraefik(h) \/ CreateResource(h)
    PROVE  Inv'
  <1>1. CASE ChangeSettings(h)
    BY <1>1, BeginInv DEF ChangeSettings
  <1>2. CASE ChangeDomain(h)
    <2>1. acme \in BOOLEAN
      BY TypedParts DEF Inv, StateTyped
    <2>2. PICK email \in {None, acme} : Begin(h, "write", TRUE, FALSE, FALSE, email, None)
      BY <1>2 DEF ChangeDomain
    <2> QED BY <2>1, <2>2, BeginInv
  <1>3. CASE RenderTraefik(h)
    BY <1>3, BeginInv DEF RenderTraefik
  <1>4. CASE CreateResource(h)
    BY <1>4, BeginInv DEF CreateResource
  <1> QED BY <1>1, <1>2, <1>3, <1>4

LEMMA WriteSettingsInv ==
    ASSUME Inv, NEW h \in Handlers, WriteSettings(h)
    PROVE  Inv'
  <1>1. PICK q : q = [changer[h] EXCEPT !.pc = "ensure", !.email = None]
    OBVIOUS
  <1>2. changer[h] \in Request /\ changer[h].id \in Timers
    BY UnderWay DEF Inv, WriteSettings, At
  <1>3. Sound(q) /\ q.pc = "ensure"
    BY <1>1, <1>2 DEF Request, Sound
  <1>4. changer' = [changer EXCEPT ![h] = q] /\ ~Rendering(h)
    BY <1>1 DEF WriteSettings, At, Rendering
  <1>5. settings' \in Versions /\ acme' \in BOOLEAN
    <2>1. settings' \in Versions
      BY <1>2 DEF WriteSettings, Request
    <2>2. changer[h].email = None \/ changer[h].email \in BOOLEAN
      BY <1>2 DEF Request
    <2>3. acme \in BOOLEAN
      BY TypedParts DEF Inv, StateTyped
    <2> QED BY <2>1, <2>2, <2>3 DEF WriteSettings
  <1>6. UNCHANGED <<tls, file, changes, stops, poll, stored, live, callback, good, owed>>
    BY DEF WriteSettings, timerVars, historyVars
  <1>7. StateTyped'
    BY <1>5, <1>6, TypedParts DEF Inv, StateTyped
  <1>8. Typed' /\ Becomes(h, q)
    BY <1>3, <1>4, <1>7, BecomesTyped DEF Inv
  <1> QED BY <1>3, <1>4, <1>6, <1>8, QuietRequest DEF Inv

LEMMA InsertResourceInv ==
    ASSUME Inv, NEW h \in Handlers, InsertResource(h)
    PROVE  Inv'
  <1>1. PICK q : q = [changer[h] EXCEPT !.pc = "ensure", !.new = None]
    OBVIOUS
  <1>2. /\ changer[h] \in Request /\ changer[h].id \in Timers
        /\ changer[h].new \in Resources
    BY UnderWay DEF Inv, Typed, InsertResource, At
  <1>3. Sound(q) /\ q.pc = "ensure"
    BY <1>1, <1>2 DEF Request, Sound
  <1>4. changer' = [changer EXCEPT ![h] = q] /\ ~Rendering(h)
    BY <1>1 DEF InsertResource, At, Rendering
  <1>5. UNCHANGED <<settings, acme, file, changes, stops, poll, stored, live, callback,
                    good, owed>>
    BY DEF InsertResource, settingVars, timerVars, historyVars
  <1>6. tls' \subseteq Resources
    BY <1>2, TypedParts DEF Inv, StateTyped, InsertResource
  <1>7. StateTyped'
    BY <1>5, <1>6, TypedParts DEF Inv, StateTyped
  <1>8. Typed' /\ Becomes(h, q)
    BY <1>3, <1>4, <1>7, BecomesTyped DEF Inv
  <1> QED BY <1>3, <1>4, <1>5, <1>8, QuietRequest DEF Inv

\* The forms in which the steps before a render and after it move a request on.
LEMMA StepInv ==
    ASSUME Inv, NEW h \in Handlers, changer[h].pc # "idle", ~Rendering(h),
           NEW pc \in {"toggle", "read"}, Step(h, pc), StateTyped', UNCHANGED <<file, good>>
    PROVE  Inv'
  <1>1. PICK q : q = [changer[h] EXCEPT !.pc = pc]
    OBVIOUS
  <1>2. Typed' /\ Becomes(h, q) /\ q.pc = pc
    BY <1>1, StepSound DEF Inv
  <1> QED BY <1>2, QuietRequest DEF Inv

LEMMA LeaveInv ==
    ASSUME Inv, NEW h \in Handlers, ~Rendering(h), Leave(h), StateTyped',
           UNCHANGED <<file, good>>
    PROVE  Inv'
  <1>1. Typed' /\ Becomes(h, Idle)
    BY LeaveSound DEF Inv
  <1> QED BY <1>1, IdleSound, QuietRequest DEF Inv

LEMMA EnsureInv ==
    ASSUME Inv, NEW h \in Handlers, Ensure(h) \/ DisableHTTPSToggles(h)
    PROVE  Inv'
  <1>1. UNCHANGED <<settings, acme, file, changes, stops, poll, stored, live, callback,
                    good, owed>>
    BY DEF Ensure, DisableHTTPSToggles, settingVars, timerVars, historyVars
  <1>2. tls' \subseteq Resources
    BY TypedParts DEF Inv, StateTyped, Ensure, DisableHTTPSToggles
  <1>3. StateTyped'
    BY <1>1, <1>2, TypedParts DEF Inv, StateTyped
  <1>4. changer[h].pc # "idle" /\ ~Rendering(h)
    BY DEF Ensure, DisableHTTPSToggles, At, Rendering
  <1>5. Step(h, "toggle") \/ Step(h, "read") \/ Leave(h)
    BY DEF Ensure, DisableHTTPSToggles, AfterEnsure
  <1> QED BY <1>1, <1>3, <1>4, <1>5, StepInv, LeaveInv

LEMMA ReadSettingsInv ==
    ASSUME Inv, NEW h \in Handlers, ReadSettings(h)
    PROVE  Inv'
  <1>1. PICK q : q = [changer[h] EXCEPT !.pc = "backup", !.want = settings]
    OBVIOUS
  <1>2. changer[h] \in Request /\ changer[h].id \in Timers /\ settings \in Versions
    BY UnderWay, TypedParts DEF Inv, StateTyped, ReadSettings, At
  <1>3. Sound(q) /\ q.pc = "backup"
    BY <1>1, <1>2 DEF Request, Sound
  <1>4. changer' = [changer EXCEPT ![h] = q] /\ ~Rendering(h)
    BY <1>1 DEF ReadSettings, At, Rendering
  <1>5. UNCHANGED <<settings, acme, tls, file, changes, stops, poll, stored, live, callback,
                    good, owed>>
    BY DEF ReadSettings, settingVars, timerVars, historyVars
  <1>6. StateTyped'
    BY <1>5, TypedParts DEF Inv, StateTyped
  <1>7. Typed' /\ Becomes(h, q)
    BY <1>3, <1>4, <1>6, BecomesTyped DEF Inv
  <1> QED BY <1>3, <1>4, <1>5, <1>7, QuietRequest DEF Inv

LEMMA ScheduleInv ==
    ASSUME Inv, NEW h \in Handlers, Schedule(h)
    PROVE  Inv'
  <1>1. changer[h].id \in Timers /\ ~Rendering(h) /\ Leave(h)
    BY UnderWay DEF Inv, Schedule, At, Rendering
  <1>2. UNCHANGED <<settings, acme, tls, file, changes, stops, poll, callback, good>>
    BY DEF Schedule, settingVars
  <1>3. stored' \in Timers \cup {None} /\ live' \subseteq Timers /\ owed' \in BOOLEAN
    BY <1>1, TypedParts DEF Inv, StateTyped, Schedule
  <1>4. StateTyped'
    BY <1>2, <1>3, TypedParts DEF Inv, StateTyped
  <1> QED BY <1>1, <1>2, <1>4, LeaveInv

\* Timers, Traefik's own requests: no request and no file changes.
LEMMA ElsewhereInv ==
    ASSUME Inv, UNCHANGED <<changer, file, good>>, StateTyped'
    PROVE  Inv'
  <1>1. Typed'
    BY TypedParts, TypedPartsNext DEF Inv
  <1>2. \A g \in Handlers : Rendering(g)' <=> Rendering(g)
    BY DEF Rendering
  <1> QED BY <1>1, <1>2, Quiet DEF Inv

LEMMA CallbackInv ==
    ASSUME Inv, NEW t \in Timers, Callback(t)
    PROVE  Inv'
  <1>1. UNCHANGED <<settings, acme, tls, file, changer, changes, stops, poll, good>>
    BY DEF Callback, Fire, Clear, RestartService, Restarted, settingVars, historyVars
  <1>2. /\ stored' \in Timers \cup {None} /\ live' \subseteq Timers /\ owed' \in BOOLEAN
        /\ callback' \in [Timers -> {"none", "fired", "restarting", "running"}]
    BY TypedParts
    DEF Inv, StateTyped, Callback, Fire, Clear, RestartService, Restarted, historyVars
  <1>3. StateTyped'
    BY <1>1, <1>2, TypedParts DEF Inv, StateTyped
  <1> QED BY <1>1, <1>3, ElsewhereInv

LEMMA PollInv ==
    ASSUME Inv, Poll \/ PollToggles
    PROVE  Inv'
  <1>1. UNCHANGED <<settings, acme, file, changer, changes, stops, stored, live, callback,
                    good, owed>>
    BY DEF Poll, PollToggles, settingVars, timerVars, historyVars
  <1>2. tls' \subseteq Resources /\ poll' \in {"idle", "toggle"}
    BY TypedParts DEF Inv, StateTyped, Poll, PollToggles
  <1>3. StateTyped'
    BY <1>1, <1>2, TypedParts DEF Inv, StateTyped
  <1> QED BY <1>1, <1>3, ElsewhereInv

LEMMA StutterInv ==
    ASSUME Inv, UNCHANGED vars
    PROVE  Inv'
  <1>1. UNCHANGED <<settings, acme, tls, file, changer, changes, stops, poll, stored, live,
                    callback, good, owed>>
    BY DEF vars, settingVars, timerVars, historyVars
  <1>2. StateTyped'
    BY <1>1, TypedParts DEF Inv, StateTyped
  <1> QED BY <1>1, <1>2, ElsewhereInv

-----------------------------------------------------------------------------
(* Renders. *)

\* What is left of the requests that are still rendering when the files or good change:
\* nothing is known to be valid.
LEMMA OthersUnknown ==
    ASSUME Inv, NEW h \in Handlers, Rendering(h), NEW g \in Handlers \ {h}, Rendering(g)
    PROVE  ~changer[g].alone /\ ~changer[h].alone /\ \A f \in Files : good[f] = Unknown
  BY DEF Inv, RendersTell

\* Request h ends its render, or goes on to restore or to restart: the others are as they
\* were.
LEMMA EndInv ==
    ASSUME Inv, Typed', NEW h \in Handlers, Rendering(h), NEW q, Becomes(h, q),
           q.pc \notin {"render", "renderDynamic", "validate", "restore"},
           changer[h].alone => \A f \in Files : good'[f] \in {file'[f], Unknown},
           ~changer[h].alone => \A f \in Files : good'[f] \in {good[f], Unknown}
    PROVE  Inv'
  <1>1. ~Rendering(h)' /\ \A g \in Handlers \ {h} : Rendering(g)' <=> Rendering(g)
    BY DEF Becomes, Rendering
  <1>2. ASSUME NEW g \in Handlers, Rendering(g)'
        PROVE  ~changer'[g].alone /\ \A f \in Files : good'[f] = Unknown
    <2>1. g # h /\ Rendering(g)
      BY <1>1, <1>2
    <2>2. ~changer[g].alone /\ ~changer[h].alone /\ \A f \in Files : good[f] = Unknown
      BY <2>1, OthersUnknown
    <2> QED BY <2>1, <2>2 DEF Becomes
  <1>3. RendersTell'
    BY <1>2 DEF RendersTell
  <1>4. LastValidated'
    <2>1. CASE changer[h].alone
      BY <2>1 DEF LastValidated
    <2>2. CASE ~changer[h].alone
      <3>1. \A f \in Files : good[f] = Unknown
        BY <2>2 DEF Inv, RendersTell
      <3> QED BY <2>2, <3>1 DEF LastValidated
    <2> QED BY <2>1, <2>2
  <1> QED BY <1>3, <1>4 DEF Inv

\* Request h renders on, and writes no file that it has not backed up.
LEMMA OnInv ==
    ASSUME Inv, Typed', NEW h \in Handlers, Rendering(h), NEW q, Becomes(h, q),
           q.pc \in {"render", "renderDynamic", "validate", "restore"},
           q.alone = changer[h].alone, q.old = changer[h].old, q.static = changer[h].static,
           UNCHANGED good, \A f \in Files \ Touched(h) : file'[f] = file[f]
    PROVE  Inv'
  <1>1. Rendering(h)' /\ \A g \in Handlers \ {h} : Rendering(g)' <=> Rendering(g)
    BY DEF Becomes, Rendering
  <1>2. \A g \in Handlers :
           /\ changer'[g].alone = changer[g].alone
           /\ changer'[g].old = changer[g].old
           /\ Touched(g)' = Touched(g)
    BY DEF Becomes, Touched
  <1>3. ASSUME NEW g \in Handlers \ {h}, Rendering(g)'
        PROVE  ~changer'[g].alone /\ \A f \in Files : good'[f] = Unknown
    BY <1>1, <1>2, <1>3, OthersUnknown
  <1>4. ASSUME changer[h].alone
        PROVE  /\ \A g \in Handlers \ {h} : ~Rendering(g)
               /\ \A f \in Files :
                     /\ good[f] \in {changer[h].old[f], Unknown}
                     /\ f \notin Touched(h) => good[f] \in {file[f], Unknown}
    BY <1>4 DEF Inv, RendersTell
  <1>5. ASSUME ~changer[h].alone
        PROVE  \A f \in Files : good[f] = Unknown
    BY <1>5 DEF Inv, RendersTell
  <1>6. RendersTell'
    <2> SUFFICES ASSUME NEW g \in Handlers, Rendering(g)'
                 PROVE  IF changer'[g].alone
                        THEN /\ \A k \in Handlers \ {g} : ~Rendering(k)'
                             /\ \A f \in Files :
                                   /\ good'[f] \in {changer'[g].old[f], Unknown}
                                   /\ f \notin Touched(g)' => good'[f] \in {file'[f], Unknown}
                        ELSE \A f \in Files : good'[f] = Unknown
      BY DEF RendersTell
    <2>1. CASE g # h
      BY <2>1, <1>3
    <2>2. CASE g = h /\ changer[h].alone
      BY <2>2, <1>1, <1>2, <1>4
    <2>3. CASE g = h /\ ~changer[h].alone
      BY <2>3, <1>2, <1>5
    <2> QED BY <2>1, <2>2, <2>3
  <1>7. LastValidated'
    BY <1>1 DEF LastValidated
  <1> QED BY <1>6, <1>7 DEF Inv

LEMMA WrittenTyped ==
    ASSUME Typed, NEW h \in Handlers, NEW content \in Versions \cup {Unknown}
    PROVE  Written(h, content) \in Versions \cup {Unknown}
  BY DEF Written

LEMMA RenderFileInv ==
    ASSUME Inv, NEW h \in Handlers, RenderStatic(h) \/ RenderDynamic(h)
    PROVE  Inv'
  <1>1. PICK f \in Files, next \in {"renderDynamic", "validate"} :
            RenderFile(h, f, next) /\ f \in Touched(h)
    <2>1. CASE RenderStatic(h)
      <3>1. changer[h].static
        BY <2>1 DEF Inv, Typed, RenderStatic
      <3> QED BY <2>1, <3>1 DEF RenderStatic, Touched, Files
    <2>2. CASE RenderDynamic(h)
      BY <2>2 DEF RenderDynamic, Touched, Files
    <2> QED BY <2>1, <2>2
  <1>2. /\ changer[h].pc # "idle" /\ Rendering(h)
        /\ changer[h] \in Request
    BY UnderWay DEF Inv, RenderStatic, RenderDynamic, At, Rendering
  <1>3. PICK pc \in {"renderDynamic", "validate", "restore"} :
            /\ Step(h, pc)
            /\ \/ file' = [file EXCEPT ![f] = Written(h, changer[h].want)]
               \/ UNCHANGED file
    BY <1>1 DEF RenderFile
  <1>4. UNCHANGED <<settings, acme, tls, changes, stops, poll, stored, live, callback,
                    good, owed>>
    BY <1>1 DEF RenderFile, settingVars, timerVars, historyVars
  <1>5. Written(h, changer[h].want) \in Versions \cup {Unknown}
    BY <1>2, WrittenTyped DEF Inv, Request
  <1>6. /\ file' \in [Files -> Versions \cup {Unknown}]
        /\ \A k \in Files \ Touched(h) : file'[k] = file[k]
    BY <1>1, <1>3, <1>5, TypedParts DEF Inv, StateTyped
  <1>7. StateTyped'
    BY <1>4, <1>6, TypedParts DEF Inv, StateTyped
  <1>8. PICK q : q = [changer[h] EXCEPT !.pc = pc]
    OBVIOUS
  <1>9. Typed' /\ Becomes(h, q) /\ q.pc = pc
    BY <1>2, <1>3, <1>7, <1>8, StepSound DEF Inv
  <1>10. q.alone = changer[h].alone /\ q.old = changer[h].old /\ q.static = changer[h].static
    BY <1>2, <1>8 DEF Request
  <1> QED BY <1>2, <1>4, <1>6, <1>9, <1>10, OnInv

LEMMA ValidateInv ==
    ASSUME Inv, NEW h \in Handlers, Validate(h)
    PROVE  Inv'
  <1>1. /\ changer[h].pc # "idle" /\ Rendering(h)
        /\ changer[h] \in Request
    BY UnderWay DEF Inv, Validate, At, Rendering
  <1>2. UNCHANGED <<settings, acme, tls, file, changes, stops, poll, stored, live, callback,
                    owed>>
    BY DEF Validate, settingVars, timerVars
  <1>3. CASE Step(h, "restore") /\ UNCHANGED good
    <2>1. StateTyped'
      BY <1>2, <1>3, TypedParts DEF Inv, StateTyped
    <2>2. PICK q : q = [changer[h] EXCEPT !.pc = "restore"]
      OBVIOUS
    <2>3. Typed' /\ Becomes(h, q) /\ q.pc = "restore"
      BY <1>1, <1>3, <2>1, <2>2, StepSound DEF Inv
    <2>4. q.alone = changer[h].alone /\ q.old = changer[h].old /\ q.static = changer[h].static
      BY <1>1, <2>2 DEF Request
    <2> QED BY <1>1, <1>2, <1>3, <2>3, <2>4, OnInv
  <1>4. CASE /\ good' = [f \in Files |->
                     IF changer[h].alone /\ f \in Touched(h) THEN file[f] ELSE good[f]]
             /\ IF changer[h].static THEN Step(h, "schedule") ELSE AfterRender(h)
    <2>1. /\ file \in [Files -> Versions \cup {Unknown}]
          /\ good \in [Files -> Versions \cup {Unknown}]
      BY TypedParts DEF Inv, StateTyped
    <2>2. good' \in [Files -> Versions \cup {Unknown}]
      BY <1>4, <2>1
    <2>3. StateTyped'
      BY <1>2, <2>2, TypedParts DEF Inv, StateTyped
    <2>4. Typed' /\ \E q : Becomes(h, q) /\ q.pc \in {"schedule", "idle", "ensure"}
      <3>1. CASE changer[h].static
        BY <1>1, <1>4, <2>3, <3>1, StepSound DEF Inv
      <3>2. CASE ~changer[h].static
        BY <1>1, <1>4, <2>3, <3>2, AfterRenderSound DEF Inv
      <3> QED BY <3>1, <3>2
    <2>5. changer[h].alone => \A f \in Files : good'[f] \in {file'[f], Unknown}
      BY <1>1, <1>2, <1>4 DEF Inv, RendersTell
    <2>6. ~changer[h].alone => UNCHANGED good
      BY <1>4, <2>1
    <2> QED BY <1>1, <2>4, <2>5, <2>6, EndInv
  <1> QED BY <1>3, <1>4 DEF Validate

\* A file that is put back is what was valid; of one that is not, nothing is known.
LEMMA RestoreInv ==
    ASSUME Inv, NEW h \in Handlers, Restore(h)
    PROVE  Inv'
  <1>1. /\ changer[h].pc # "idle" /\ Rendering(h)
        /\ changer[h] \in Request
    BY UnderWay DEF Inv, Restore, At, Rendering
  <1>2. UNCHANGED <<settings, acme, tls, changes, stops, poll, stored, live, callback, owed>>
    BY DEF Restore, settingVars, timerVars
  <1>3. PICK back \in SUBSET Touched(h), cut \in SUBSET Touched(h) :
           /\ file' = [f \in Files |->
                  CASE f \in back       -> Written(h, changer[h].old[f])
                    [] f \in cut \ back -> Unknown
                    [] OTHER           -> file[f]]
           /\ good' = [f \in Files |->
                  IF f \in Touched(h) \ back THEN Unknown ELSE good[f]]
    BY DEF Restore
  <1>4. \A f \in Files :
           /\ file'[f] = IF f \in back THEN Written(h, changer[h].old[f])
                         ELSE IF f \in cut THEN Unknown ELSE file[f]
           /\ good'[f] = IF f \in Touched(h) \ back THEN Unknown ELSE good[f]
    BY <1>3
  <1>5. StateTyped'
    <2>1. \A f \in Files : changer[h].old[f] \in Versions \cup {Unknown}
      BY <1>1 DEF Request
    <2>2. \A f \in Files : Written(h, changer[h].old[f]) \in Versions \cup {Unknown}
      BY <2>1, WrittenTyped DEF Inv
    <2>3. /\ file \in [Files -> Versions \cup {Unknown}]
          /\ good \in [Files -> Versions \cup {Unknown}]
      BY TypedParts DEF Inv, StateTyped
    <2>4. /\ file' \in [Files -> Versions \cup {Unknown}]
          /\ good' \in [Files -> Versions \cup {Unknown}]
      BY <1>3, <1>4, <2>2, <2>3
    <2> QED BY <1>2, <2>4, TypedParts DEF Inv, StateTyped
  <1>6. Typed' /\ \E q : Becomes(h, q) /\ q.pc \in {"idle", "ensure"}
    BY <1>1, <1>5, AfterRenderSound DEF Inv, Restore
  <1>7. changer[h].alone => \A f \in Files : good'[f] \in {file'[f], Unknown}
    BY <1>1, <1>4 DEF Inv, RendersTell, Written
  <1>8. \A f \in Files : good'[f] \in {good[f], Unknown}
    BY <1>4
  <1> QED BY <1>1, <1>6, <1>7, <1>8, EndInv

\* The backups are what was valid, when no other request renders; when one does, nothing
\* is known of either.
LEMMA BackupInv ==
    ASSUME Inv, NEW h \in Handlers, Backup(h)
    PROVE  Inv'
  <1> DEFINE others == {g \in Handlers \ {h} : Rendering(g)}
  <1>1. /\ changer[h].pc # "idle" /\ ~Rendering(h)
        /\ changer[h] \in Request /\ changer[h].id \in Timers
    BY UnderWay DEF Inv, Backup, At, Rendering
  <1>2. UNCHANGED <<settings, acme, tls, file, changes, stops, poll, stored, live, callback,
                    owed>>
    BY DEF Backup, settingVars, timerVars
  <1>3. CASE AfterRender(h) /\ UNCHANGED good
    <2>1. StateTyped'
      BY <1>2, <1>3, TypedParts DEF Inv, StateTyped
    <2>2. Typed' /\ \E q : Becomes(h, q) /\ q.pc \in {"idle", "ensure"}
      BY <1>1, <1>3, <2>1, AfterRenderSound DEF Inv
    <2> QED BY <1>1, <1>2, <1>3, <2>2, QuietRequest DEF Inv
  <1>4. CASE /\ changer' = [g \in Handlers |->
                   CASE g = h -> [changer[h] EXCEPT !.old = file, !.alone = (others = {}),
                                     !.pc = IF changer[h].static THEN "render"
                                                                 ELSE "renderDynamic"]
                     [] g \in others -> [changer[g] EXCEPT !.alone = FALSE]
                     [] OTHER -> changer[g]]
             /\ good' = IF others = {} THEN good ELSE [f \in Files |-> Unknown]
    <2>1. PICK single \in BOOLEAN : single = (others = {})
      OBVIOUS
    <2>2. PICK q : q = [changer[h] EXCEPT !.old = file, !.alone = single,
                            !.pc = IF changer[h].static THEN "render" ELSE "renderDynamic"]
      OBVIOUS
    <2>3. \A g \in Handlers :
             changer'[g] = IF g = h THEN q
                           ELSE IF Rendering(g) THEN [changer[g] EXCEPT !.alone = FALSE]
                           ELSE changer[g]
      BY <1>4, <2>1, <2>2
    <2>4. file \in [Files -> Versions \cup {Unknown}]
      BY TypedParts DEF Inv, StateTyped
    <2>5. /\ Sound(q) /\ q.pc \in {"render", "renderDynamic"}
          /\ q.old = file /\ q.alone = single
      BY <1>1, <2>2, <2>4 DEF Request, Sound
    <2>6. ASSUME NEW g \in Handlers, Rendering(g)
          PROVE  /\ Sound([changer[g] EXCEPT !.alone = FALSE])
                 /\ [changer[g] EXCEPT !.alone = FALSE].alone = FALSE
                 /\ [changer[g] EXCEPT !.alone = FALSE].pc = changer[g].pc
      <3>1. changer[g] \in Request /\ Sound(changer[g])
        BY <2>6, UnderWay, TypedParts DEF Inv, Rendering
      <3> QED BY <3>1 DEF Request, Sound
    <2>7. StateTyped'
      <3>1. good' \in [Files -> Versions \cup {Unknown}]
        BY <1>4, TypedParts DEF Inv, StateTyped
      <3> QED BY <1>2, <3>1, TypedParts DEF Inv, StateTyped
    <2>8. Typed'
      <3>1. \A g \in Handlers : Sound(changer'[g])
        BY <2>3, <2>5, <2>6, TypedParts DEF Inv
      <3>2. changer' \in [Handlers -> Request \cup {Idle}]
        <4>1. changer' = [g \in Handlers |-> changer'[g]]
          BY <1>4
        <4> QED BY <3>1, <4>1 DEF Sound
      <3> QED BY <2>7, <3>1, <3>2, TypedPartsNext
    <2>9. Rendering(h)' /\ \A g \in Handlers \ {h} : Rendering(g)' <=> Rendering(g)
      BY <2>3, <2>5, <2>6 DEF Rendering
    <2>10. LastValidated'
      BY <2>9 DEF LastValidated
    <2>11. RendersTell'
      <3>1. CASE single
        <4>1. \A g \in Handlers : ~Rendering(g)
          BY <1>1, <2>1, <3>1
        <4>2. \A f \in Files : good[f] \in {file[f], Unknown}
          BY <4>1 DEF Inv, LastValidated
        <4>3. good' = good
          BY <1>4, <2>1, <3>1
        <4>4. changer'[h] = q
          BY <2>3
        <4> QED BY <1>2, <2>5, <2>9, <3>1, <4>1, <4>2, <4>3, <4>4 DEF RendersTell
      <3>2. CASE ~single
        <4>1. \A f \in Files : good'[f] = Unknown
          BY <1>4, <2>1, <3>2
        <4>2. \A g \in Handlers : Rendering(g)' => ~changer'[g].alone
          BY <2>3, <2>5, <2>6, <2>9, <3>2
        <4> QED BY <4>1, <4>2 DEF RendersTell
      <3> QED BY <3>1, <3>2
    <2> QED BY <2>8, <2>10, <2>11 DEF Inv
  <1> QED BY <1>3, <1>4 DEF Backup

LEMMA StopInv ==
    ASSUME Inv, Stop
    PROVE  Inv'
  <1>1. /\ \A g \in Handlers : changer'[g] = Idle
        /\ changer' \in [Handlers -> Request \cup {Idle}]
    BY DEF Stop
  <1>2. UNCHANGED <<settings, acme, tls, file, changes>>
    BY DEF Stop, settingVars
  <1>3. /\ good' \in [Files -> Versions \cup {Unknown}]
        /\ stops' \in 0..MaxStops
        /\ callback' \in [Timers -> {"none", "fired", "restarting", "running"}]
    BY BoundsAssumption, TypedParts DEF Inv, StateTyped, Stop
  <1>4. StateTyped'
    BY <1>2, <1>3, TypedParts DEF Inv, StateTyped, Stop
  <1>5. Typed'
    BY <1>1, <1>4, IdleSound, TypedPartsNext
  <1>6. \A g \in Handlers : ~Rendering(g)'
    BY <1>1, IdleSound DEF Rendering
  <1>7. RendersTell'
    BY <1>6 DEF RendersTell
  <1>8. LastValidated'
    <2>1. CASE \E h \in Handlers : Rendering(h)
      BY <2>1 DEF Stop, LastValidated
    <2>2. CASE ~\E h \in Handlers : Rendering(h)
      BY <1>2, <2>2 DEF Inv, LastValidated, Stop
    <2> QED BY <2>1, <2>2
  <1> QED BY <1>5, <1>7, <1>8 DEF Inv

-----------------------------------------------------------------------------
(* The theorems. *)

LEMMA NextInv == Inv /\ [Next]_vars => Inv'
  <1> SUFFICES ASSUME Inv, [Next]_vars PROVE Inv'
    OBVIOUS
  <1>1. ASSUME NEW h \in Handlers,
               ChangeSettings(h) \/ ChangeDomain(h) \/ RenderTraefik(h) \/ CreateResource(h)
        PROVE  Inv'
    BY <1>1, NewRequestInv
  <1>2. ASSUME NEW h \in Handlers, Apply(h)
        PROVE  Inv'
    BY <1>2, WriteSettingsInv, InsertResourceInv, EnsureInv, ReadSettingsInv, BackupInv,
       RenderFileInv, ValidateInv, RestoreInv, ScheduleInv DEF Apply
  <1>3. ASSUME NEW t \in Timers, Callback(t)
        PROVE  Inv'
    BY <1>3, CallbackInv
  <1>4. CASE Poll \/ PollToggles
    BY <1>4, PollInv
  <1>5. CASE Stop
    BY <1>5, StopInv
  <1>6. CASE UNCHANGED vars
    BY <1>6, StutterInv
  <1> QED BY <1>1, <1>2, <1>3, <1>4, <1>5, <1>6 DEF Next

\* The inductive invariant holds at all times, whatever the number of requests served at
\* once, of changes and of stops (server.go and traefik.go, the code of Next).
THEOREM Invariance == Spec => []Inv
  BY InitInv, NextInv, PTL DEF Spec

\* The files of Traefik are those of the last render that validated: between renders,
\* whoever reads a file reads what Traefik accepted, whichever step of whichever render
\* failed, unless the file itself could not be put back, renders overlapped or the process
\* stopped in one since the last render of it that validated alone
\* (RenderStaticTraefikWithPanelDomains, RenderDynamicTraefikWithPanelDomains and
\* restoreTraefikBackups in traefik.go).
THEOREM FilesAlwaysValidated == Spec => []FilesValidated
  <1>1. Inv => FilesValidated
    BY DEF Inv, Typed, FilesValidated
  <1> QED BY <1>1, Invariance, PTL

-----------------------------------------------------------------------------
(* The restart that is promised. *)

\* While a static render waits for its restart there is a timer that will fire, or a callback
\* that has yet to run the restart; traefikRestartTimer need not hold it, since a callback
\* that its Stop came too late for clears the field.
RestartTended ==
    owed => \E t \in Timers : t \in live \/ callback[t] \in {"fired", "restarting"}

LEMMA ScheduleTends ==
  ASSUME Inv, RestartTended, NEW h \in Handlers, Schedule(h)
  PROVE  RestartTended'
  <1>1. changer[h].id \in Timers
    BY DEF Inv, Typed, Schedule, At
  <1>2. CASE live' = (live \ {stored}) \cup {changer[h].id}
    BY <1>1, <1>2 DEF RestartTended
  <1>3. CASE UNCHANGED <<live, stored, owed>>
    BY <1>3 DEF RestartTended, Schedule
  <1> QED BY <1>2, <1>3 DEF Schedule

LEMMA CallbackTends ==
  ASSUME Inv, RestartTended, NEW t \in Timers, Callback(t)
  PROVE  RestartTended'
  <1>1. callback \in [Timers -> {"none", "fired", "restarting", "running"}]
    BY DEF Inv, Typed, TypeOK
  <1>2. CASE Fire(t)
    <2>1. callback'[t] = "fired"
      BY <1>1, <1>2 DEF Fire
    <2> QED BY <2>1 DEF RestartTended
  <1>3. CASE Clear(t)
    <2>1. callback'[t] = "restarting"
      BY <1>1, <1>3 DEF Clear
    <2> QED BY <2>1 DEF RestartTended
  <1>4. CASE RestartService(t)
    BY <1>4 DEF RestartService, RestartTended
  <1>5. CASE Restarted(t)
    <2>1. live' = live /\ owed' = owed /\ callback[t] = "running"
          /\ \A u \in Timers : u # t => callback'[u] = callback[u]
      BY <1>1, <1>5 DEF Restarted, historyVars
    <2> QED BY <2>1 DEF RestartTended
  <1> QED BY <1>2, <1>3, <1>4, <1>5 DEF Callback

\* No restart that was promised is lost among the timers that replace one another, which is
\* what RestartFollows rests on (scheduleTraefikRestart in server.go).
THEOREM RestartAlwaysTended == Spec => []RestartTended
  <1>1. Init => RestartTended
    BY DEF Init, RestartTended
  <1>2. Inv /\ RestartTended /\ [Next]_vars => RestartTended'
    <2> SUFFICES ASSUME Inv, RestartTended, [Next]_vars PROVE RestartTended'
      OBVIOUS
    <2>1. ASSUME NEW h \in Handlers,
                 ChangeSettings(h) \/ ChangeDomain(h) \/ RenderTraefik(h) \/ CreateResource(h)
          PROVE  UNCHANGED <<live, callback, owed>>
      BY <2>1 DEF ChangeSettings, ChangeDomain, RenderTraefik, CreateResource, Begin, timerVars,
                  historyVars
    <2>2. ASSUME NEW h \in Handlers, Apply(h), ~Schedule(h)
          PROVE  UNCHANGED <<live, callback, owed>>
      BY <2>2 DEF Apply, WriteSettings, InsertResource, Ensure, DisableHTTPSToggles, ReadSettings,
                  Backup, RenderStatic, RenderDynamic, RenderFile, Validate, Restore, timerVars,
                  historyVars
    <2>3. CASE Poll \/ PollToggles
      BY <2>3 DEF Poll, PollToggles, timerVars, historyVars, RestartTended
    <2>4. CASE Stop
      BY <2>4 DEF Stop, RestartTended
    <2>5. CASE UNCHANGED vars
      BY <2>5 DEF vars, timerVars, historyVars, RestartTended
    <2>6. UNCHANGED <<live, callback, owed>> => RestartTended'
      BY DEF RestartTended
    <2> QED BY <2>1, <2>2, <2>3, <2>4, <2>5, <2>6, ScheduleTends, CallbackTends DEF Next
  <1> QED BY <1>1, <1>2, Invariance, PTL DEF Spec

=============================================================================

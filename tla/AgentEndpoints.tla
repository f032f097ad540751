--------------------------- MODULE AgentEndpoints ---------------------------
(***************************************************************************)
(* The agent's choice of server URL (internal/app/agent_client.go):        *)
(* agentEndpointManager, shared by the HTTP job loop and the stream loop,  *)
(* with the env file it persists. The server announces a URL and a         *)
(* fallback in the headers of every poll and in its answer to a discovery. *)
(* A manager's method takes its lock twice, and tries URLs in between.     *)
(***************************************************************************)
EXTENDS Naturals, FiniteSets

CONSTANTS
    Urls,           \* base URLs without their trailing slash
    Announcements,  \* what the server may announce: an AgentDiscovery
    First,          \* what it announced when the agent was installed
    Loops,          \* runHTTPJobLoop and runStreamJobLoop
    MaxMoves,       \* bound: changes of what the server announces
    MaxFlips,       \* bound: changes of what a URL leads to
    MaxFails,       \* bound: failed writes of the env file
    MaxRestarts     \* bound: restarts of the agent

AgentDiscovery == [server : Urls, fallback : Urls]

VARIABLES
    announced,  \* what the server announces
    leads,      \* what a URL leads to: the panel, another site, or nothing
    memory,     \* the manager's base, fallback and cfg
    file,       \* the env file: what a restarted agent reads
    throttled,  \* less than 10 s have passed since lastTry
    loop,       \* where each loop is
    moves, flips, fails, restarts

worldVars   == <<announced, leads, moves, flips>>
counterVars == <<fails, restarts>>
vars == <<worldVars, memory, file, throttled, loop, counterVars>>

Config == [server : Urls, fallback : Urls]

\* base: the active URL; server and fallback: cfg.ServerURL and cfg.FallbackURL,
\* which the manager's own fallback always equals.
Memory == [base : Urls, server : Urls, fallback : Urls]

Idle == [pc |-> "idle"]

TypeOK ==
    /\ announced \in Announcements
    /\ leads \in [Urls -> {"panel", "other", "nothing"}]
    /\ memory \in Memory
    /\ file \in Config
    /\ throttled \in BOOLEAN
    /\ loop \in [Loops -> {Idle}
          \cup [pc : {"failed"}]
          \cup [pc : {"discovering"}, at : Urls]
          \cup [pc : {"found"}, rescue : BOOLEAN, found : AgentDiscovery]
          \cup [pc : {"probing"}, rescue : BOOLEAN, found : AgentDiscovery, seen : Memory]
          \cup [pc : {"storing"}, rescue : BOOLEAN, next : Memory]
          \cup [pc : {"persisting"}, rescue : BOOLEAN, config : Config]]
    /\ moves \in 0..MaxMoves /\ flips \in 0..MaxFlips
    /\ fails \in 0..MaxFails /\ restarts \in 0..MaxRestarts

Started(config) ==
    [base |-> config.server, server |-> config.server, fallback |-> config.fallback]

Init ==
    /\ announced \in Announcements
    /\ leads = [u \in Urls |-> "panel"]
    /\ file = First
    /\ memory = Started(First)
    /\ throttled = FALSE
    /\ loop = [l \in Loops |-> Idle]
    /\ moves = 0 /\ flips = 0 /\ fails = 0 /\ restarts = 0

-----------------------------------------------------------------------------
(* One loop: a poll, and what the manager makes of it. *)

Goto(l, state) == loop' = [loop EXCEPT ![l] = state]

\* Any answer below 500 to /healthz counts.
Reachable(u) == leads[u] # "nothing"

\* A poll the panel answers carries what it announced when the poll arrived.
Poll(l) ==
    /\ loop[l] = Idle
    /\ Goto(l, IF leads[memory.base] = "panel"
               THEN [pc |-> "found", rescue |-> FALSE, found |-> announced]
               ELSE [pc |-> "failed"])
    /\ UNCHANGED <<worldVars, memory, file, throttled, counterVars>>

\* ReportFailure.
ReportFailure(l) ==
    /\ loop[l].pc = "failed"
    /\ IF memory.fallback = memory.base \/ throttled
       THEN /\ Goto(l, Idle)
            /\ UNCHANGED throttled
       ELSE /\ Goto(l, [pc |-> "discovering", at |-> memory.fallback])
            /\ throttled' = TRUE
    /\ UNCHANGED <<worldVars, memory, file, counterVars>>

Discover(l) ==
    /\ loop[l].pc = "discovering"
    /\ Goto(l, IF leads[loop[l].at] = "panel"
               THEN [pc |-> "found", rescue |-> TRUE, found |-> announced]
               ELSE Idle)
    /\ UNCHANGED <<worldVars, memory, file, throttled, counterVars>>

\* applyDiscovery copies the manager's state under the lock.
ReadState(l) ==
    /\ loop[l].pc = "found"
    /\ Goto(l, [pc |-> "probing", rescue |-> loop[l].rescue, found |-> loop[l].found,
                seen |-> memory])
    /\ UNCHANGED <<worldVars, memory, file, throttled, counterVars>>

\* Mutant: an announcement moves the agent only while its active URL fails.
NextBaseInRescue(seen, found, rescue) ==
    LET Try(u) == rescue /\ u # seen.base /\ Reachable(u) IN
    CASE Try(found.server) -> found.server
      [] ~Try(found.server) /\ Try(found.fallback) -> found.fallback
      [] OTHER -> seen.base

\* The URL that is active next: the announced one when it answers; in a rescue, when
\* that brings nothing new, the announced fallback or else the known one.
NextBase(seen, found, rescue) ==
    LET Try(u) == u # seen.base /\ Reachable(u) IN
    CASE Try(found.server) -> found.server
      [] ~Try(found.server) /\ rescue /\ Try(found.fallback) -> found.fallback
      [] ~Try(found.server) /\ rescue /\ ~Try(found.fallback) /\ Try(seen.fallback) ->
            seen.fallback
      [] OTHER -> seen.base

\* Mutant: the active URL is what is configured and persisted.
NextStateOfBase(seen, found, rescue) ==
    [base |-> NextBase(seen, found, rescue),
     server |-> NextBase(seen, found, rescue),
     fallback |-> found.fallback]

\* The configured server is the announced one whether it answers or not.
NextState(seen, found, rescue) ==
    [base |-> NextBase(seen, found, rescue),
     server |-> found.server,
     fallback |-> found.fallback]

\* Mutant: a rescue is not offered the fallback that the agent knows or is given.
ProbeWithoutRescue(l) ==
    /\ loop[l].pc = "probing"
    /\ LET q == loop[l]
           next == NextState(q.seen, q.found, FALSE) IN
          Goto(l, IF next = q.seen
                  THEN Idle
                  ELSE [pc |-> "storing", rescue |-> q.rescue, next |-> next])
    /\ UNCHANGED <<worldVars, memory, file, throttled, counterVars>>

Probe(l) ==
    /\ loop[l].pc = "probing"
    /\ LET q == loop[l]
           next == NextState(q.seen, q.found, q.rescue) IN
          Goto(l, IF next = q.seen
                  THEN Idle
                  ELSE [pc |-> "storing", rescue |-> q.rescue, next |-> next])
    /\ UNCHANGED <<worldVars, memory, file, throttled, counterVars>>

\* It then writes everything it derived from its copy.
Store(l) ==
    /\ loop[l].pc = "storing"
    /\ memory' = loop[l].next
    /\ Goto(l, [pc |-> "persisting", rescue |-> loop[l].rescue,
                config |-> [server |-> loop[l].next.server,
                            fallback |-> loop[l].next.fallback]])
    /\ UNCHANGED <<worldVars, file, throttled, counterVars>>

\* Mutant: the fallback is dropped from the new file.
PersistServerOnly(l) ==
    /\ loop[l].pc = "persisting"
    /\ file' = [server |-> loop[l].config.server]
    /\ Goto(l, Idle)
    /\ UNCHANGED <<worldVars, memory, throttled, counterVars>>

\* persistAgentEndpointConfig renames a whole new file over the old one.
Persist(l) ==
    /\ loop[l].pc = "persisting"
    /\ file' = loop[l].config
    /\ Goto(l, Idle)
    /\ UNCHANGED <<worldVars, memory, throttled, counterVars>>

\* A write that fails is logged.
PersistFails(l) ==
    /\ loop[l].pc = "persisting"
    /\ fails < MaxFails
    /\ fails' = fails + 1
    /\ Goto(l, Idle)
    /\ UNCHANGED <<worldVars, memory, file, throttled, restarts>>

-----------------------------------------------------------------------------
(* Time, the agent's restarts, and the world. *)

ThrottleEnds ==
    /\ throttled
    /\ throttled' = FALSE
    /\ UNCHANGED <<worldVars, memory, file, loop, counterVars>>

\* The agent stops at any point, and starts from its file.
Restart ==
    /\ restarts < MaxRestarts
    /\ restarts' = restarts + 1
    /\ memory' = Started(file)
    /\ throttled' = FALSE
    /\ loop' = [l \in Loops |-> Idle]
    /\ UNCHANGED <<worldVars, file, fails>>

\* An administrator changes the panel's domain.
Announce ==
    /\ moves < MaxMoves
    /\ moves' = moves + 1
    /\ announced' \in Announcements \ {announced}
    /\ UNCHANGED <<leads, flips, memory, file, throttled, loop, counterVars>>

\* DNS, a certificate or a route changes.
Reroute(u) ==
    /\ flips < MaxFlips
    /\ flips' = flips + 1
    /\ \E to \in {"panel", "other", "nothing"} \ {leads[u]} :
          leads' = [leads EXCEPT ![u] = to]
    /\ UNCHANGED <<announced, moves, memory, file, throttled, loop, counterVars>>

-----------------------------------------------------------------------------

LoopStep(l) ==
    \/ Poll(l) \/ ReportFailure(l) \/ Discover(l) \/ ReadState(l) \/ Probe(l)
    \/ Store(l) \/ Persist(l) \/ PersistFails(l)

Next ==
    \/ \E l \in Loops : LoopStep(l)
    \/ ThrottleEnds \/ Restart \/ Announce
    \/ \E u \in Urls : Reroute(u)

Spec == Init /\ [][Next]_vars

\* Both loops run for ever, every call they make has a timeout, and time passes.
Fairness ==
    /\ \A l \in Loops : WF_vars(LoopStep(l))
    /\ WF_vars(ThrottleEnds)

FairSpec == Spec /\ Fairness

-----------------------------------------------------------------------------
(* Properties. *)

\* "La IP fallback solo debe quedar como URL activa de rescate, no como
\* PANGOLITE_SERVER_URL" (agent_client.go:180-183): what is configured and what is in
\* the file is a server URL of an announcement, though the agent works through its
\* fallback and although either loop may have stored what it derived from an old copy.
RescueNotPersisted ==
    {memory.server, file.server} \subseteq {d.server : d \in Announcements}

\* What both loops and the env file hold is well formed, and never configures the
\* rescue address as the server.
ConfiguredAnnounced == TypeOK /\ RescueNotPersisted

FallbackStays == \A d \in Announcements : <>[](leads[d.fallback] = "panel")

\* While no URL leads to another site that answers /healthz, an agent whose fallback
\* leads to the panel never stops getting its polls answered.
KeepsPolling ==
    FallbackStays /\ <>[](\A u \in Urls : leads[u] # "other")
        => []<>(\E l \in Loops : loop[l].pc = "found" /\ ~loop[l].rescue)

\* It ends up at the URL the server announces when that leads to the panel, however
\* the loops overwrite each other's result on the way.
Reconnects ==
    FallbackStays =>
        <>[](leads[announced.server] = "panel" => memory.base = announced.server)

\* "La URL configurada/persistida debe ser el dominio principal sugerido por el
\* servidor cuando exista" (agent_client.go:180): the file comes to hold the URL that
\* the server announces.
PersistedFollows == FallbackStays => <>[](file.server = announced.server)

=============================================================================

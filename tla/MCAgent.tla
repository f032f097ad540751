------------------------------- MODULE MCAgent -------------------------------
(* Instances for TLC of the two models about an agent: its maintenance, and its choice  *)
(* of the server's URL. They share nothing: where one runs, the other rests.            *)
EXTENDS AgentMaintenance, TLC

CONSTANTS
    Urls, Announcements, First, Loops, MaxMoves, MaxFlips, MaxFails, MaxRestarts,
    d1, d2, ip

VARIABLES announced, leads, memory, file, throttled, loop, moves, flips, fails, restarts

E == INSTANCE AgentEndpoints

ASSUME AnnouncementsAssumption ==
    First \in Announcements /\ Announcements \subseteq E!AgentDiscovery
ASSUME BoundsAssumption == {MaxMoves, MaxFlips, MaxFails, MaxRestarts} \subseteq Nat

\* The panel has one domain or another, and always the fallback address.
Domains == {[server |-> d, fallback |-> ip] : d \in {d1, d2}}

OldDomain == [server |-> d1, fallback |-> ip]

Symmetry ==
    Permutations(Agents) \cup Permutations(Resources) \cup Permutations(Modes)

endpointVars ==
    <<announced, leads, memory, file, throttled, loop, moves, flips, fails, restarts>>

BothInit == Init /\ E!Init

MaintenanceNext == Next /\ UNCHANGED endpointVars
EndpointsNext   == E!Next /\ UNCHANGED vars

MaintenanceSpec == BothInit /\ [][MaintenanceNext]_<<vars, endpointVars>>
EndpointsSpec   == BothInit /\ [][EndpointsNext]_<<vars, endpointVars>> /\ E!Fairness

\* The configured and the persisted server are ones that were announced.
ConfiguredAnnounced == E!ConfiguredAnnounced

\* An agent whose fallback works never stops getting its polls answered.
KeepsPolling == E!KeepsPolling

\* It ends up at the URL the server announces.
Reconnects == E!Reconnects

=============================================================================

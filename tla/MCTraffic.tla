------------------------------ MODULE MCTraffic ------------------------------
(* An instance for TLC of the three parts that move data outside the streams of *)
(* the hub: uploads and downloads of a terminal, and the sessions of a public   *)
(* UDP port. They share nothing: a behaviour is one of one of them.             *)
EXTENDS Naturals, FiniteSets

CONSTANTS
    Unset,
    Terminals, Uploads, Other, Names, Chunks,
    Tickets, Gets, MaxTickets, Slots,
    Clients, Sessions, MaxSessions

VARIABLES
    part,
    bridge, uploadReader, active, written, parts, dir, told, sender, strays,
    offer, pending, late, get, job, archive, served, dropped,
    closed, socket, sessions, client, backend, once, udpReader, server, closer

U == INSTANCE TerminalUploads WITH reader <- uploadReader
D == INSTANCE TerminalDownloads WITH
        Offers <- {[of |-> "server", kind |-> "directory"],
                   [of |-> "agent", kind |-> "directory"],
                   [of |-> "agent", kind |-> "file"]}
S == INSTANCE UdpSessions WITH reader <- udpReader

\* The value of what is absent is no value.
ASSUME ValuesAssumption ==
    /\ Other # Unset /\ Other \notin Uploads
    /\ Unset \notin Terminals \cup Uploads \cup Gets \cup Tickets \cup D!Offer \cup Sessions \cup Clients
ASSUME BoundsAssumption == {Names, Chunks, MaxTickets, Slots, MaxSessions} \subseteq Nat \ {0}

uploadVars   == <<bridge, uploadReader, active, written, parts, dir, told, sender, strays>>
downloadVars == <<offer, pending, late, get, job, archive, served, dropped>>
udpVars      == <<closed, socket, sessions, client, backend, once, udpReader, server, closer>>
vars         == <<part, uploadVars, downloadVars, udpVars>>

Init ==
    /\ part \in {"uploads", "downloads", "udp"}
    /\ U!Init /\ D!Init /\ S!Init
    /\ part # "uploads" => \A n \in U!Candidates : dir[n] = Unset

Next ==
    /\ UNCHANGED part
    /\ \/ part = "uploads" /\ U!Next /\ UNCHANGED <<downloadVars, udpVars>>
       \/ part = "downloads" /\ D!Next /\ UNCHANGED <<uploadVars, udpVars>>
       \/ part = "udp" /\ S!Next /\ UNCHANGED <<uploadVars, downloadVars>>

\* Where a part does not run nothing of it is enabled.
Spec == Init /\ [][Next]_vars /\ D!Fairness /\ S!Fairness

\* What the browser is told of an upload is what happened to it, and a temporary file
\* has someone who will remove it.
UploadsKept == U!TypeOK /\ U!OutcomeTold /\ U!PartialsTended

\* No upload takes the place of a file that came to be there first.
NeverReplaced == U!NeverReplaced

\* A download's ticket is used once, and only with a slot; the backend sockets of a UDP
\* port are those of its map, and end with it.
Accounted == D!TypeOK /\ D!TicketsAccounted /\ S!SessionsKept

\* The slots of downloads and archives come back from all that is read or closed; the
\* Close of a UDP port ends its sessions and returns.
Drains == D!Returns /\ S!Ends

\* "Limpiar parciales ... cuando termina la sesion de terminal"
\* (contexto/69-transferencia-archivos-terminal.md:16).
PartialsRemoved == U!PartialsRemoved

=============================================================================

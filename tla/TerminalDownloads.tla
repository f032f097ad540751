-------------------------- MODULE TerminalDownloads --------------------------
(***************************************************************************)
(* Downloads from a terminal (internal/app/terminal_download.go): a ticket *)
(* that a request of the browser redeems once, the slots of downloads on   *)
(* the server, and the slot of archives that each process has.             *)
(*                                                                         *)
(* A download is of a file, sent as it is, or of a directory, sent as an   *)
(* archive made on the way; from the server itself, or from the agent      *)
(* through a stream of the hub.                                            *)
(***************************************************************************)
EXTENDS Naturals, FiniteSets

CONSTANTS
    Tickets,    \* tokens, each drawn once
    Gets,       \* requests that redeem one
    Unset,      \* the value of what is absent
    Offers,     \* what is asked for
    MaxTickets, \* terminalDownloadMaxTickets: 64 in the code
    Slots       \* cap(terminalDownloadSlots): 2 in the code

Processes == {"server", "agent"}

\* What a ticket is for.
Offer == [of : Processes, kind : {"file", "directory"}]

VARIABLES
    offer,      \* what each token is for, once created
    pending,    \* terminalDownloads: the tokens in the map
    late,       \* those past their ExpiresAt
    get,        \* the requests: where they are, and with which token
    job,        \* the agent's side of a request
    archive,    \* who holds terminalArchiveSlots of each process
    served,     \* history: the requests each token was given to
    dropped     \* history: tokens taken out of the map because they were late

ticketVars == <<offer, pending, late, served, dropped>>
vars == <<ticketVars, get, job, archive>>

TypeOK ==
    /\ offer \in [Tickets -> Offer \cup {Unset}]
    /\ pending \cup late \cup dropped \subseteq Tickets
    /\ get \in [Gets -> [pc : {"new", "slotted", "opened", "queued", "writing",
                               "starting", "header", "copying", "done"},
                         token : Tickets \cup {Unset}]]
    /\ job \in [Gets -> {"none", "file", "directory", "queued", "writing", "over", "lost"}]
    /\ archive \in [Processes -> Gets \cup {Unset}]
    /\ served \in [Tickets -> SUBSET Gets]

Init ==
    /\ offer = [t \in Tickets |-> Unset]
    /\ pending = {} /\ late = {}
    /\ get = [g \in Gets |-> [pc |-> "new", token |-> Unset]]
    /\ job = [g \in Gets |-> "none"]
    /\ archive = [p \in Processes |-> Unset]
    /\ served = [t \in Tickets |-> {}] /\ dropped = {}

-----------------------------------------------------------------------------

At(g, pc) == get[g].pc = pc

Goes(g, pc) ==
    get' = [get EXCEPT ![g] = [pc |-> pc, token |-> IF pc = "done" THEN Unset ELSE @.token]]

Of(g) == offer[get[g].token]

SlotsHeld == {g \in Gets : ~At(g, "new") /\ ~At(g, "done")}

Releases(g, p) == archive' = [archive EXCEPT ![p] = IF @ = g THEN Unset ELSE @]

-----------------------------------------------------------------------------
(* Tickets. *)

\* storeTerminalDownloadTicket: the late ones go first, then there is room or not.
Store(t, what) ==
    LET swept == pending \ late IN
    /\ offer[t] = Unset
    /\ dropped' = dropped \cup (pending \cap late)
    /\ IF Cardinality(swept) >= MaxTickets
       THEN pending' = swept /\ UNCHANGED offer
       ELSE pending' = swept \cup {t} /\ offer' = [offer EXCEPT ![t] = what]
    /\ UNCHANGED <<get, job, archive, late, served>>

Expire(t) ==
    /\ t \in pending \ late
    /\ late' = late \cup {t}
    /\ UNCHANGED <<offer, pending, get, job, archive, served, dropped>>

\* The slot comes first: a request without one leaves its ticket in the map.
Request(g, t) ==
    /\ At(g, "new") /\ offer[t] # Unset
    /\ get' = [get EXCEPT ![g] =
          IF Cardinality(SlotsHeld) < Slots
          THEN [pc |-> "slotted", token |-> t] ELSE [pc |-> "done", token |-> Unset]]
    /\ UNCHANGED <<ticketVars, job, archive>>

\* Mutant: the ticket stays in the map until the download is over.
TakeKeeps(g) ==
    LET t == get[g].token IN
    /\ At(g, "slotted")
    /\ IF t \in pending \ late
       THEN Goes(g, "opened") /\ served' = [served EXCEPT ![t] = @ \cup {g}]
       ELSE Goes(g, "done") /\ UNCHANGED served
    /\ UNCHANGED <<offer, pending, late, dropped, job, archive>>

Take(g) ==
    LET t == get[g].token IN
    /\ At(g, "slotted")
    /\ pending' = pending \ {t}
    /\ IF t \in pending \ late
       THEN /\ Goes(g, "opened")
            /\ served' = [served EXCEPT ![t] = @ \cup {g}]
            /\ UNCHANGED dropped
       ELSE /\ Goes(g, "done")
            /\ dropped' = dropped \cup (pending \cap {t})
            /\ UNCHANGED served
    /\ UNCHANGED <<offer, late, job, archive>>

-----------------------------------------------------------------------------
(* From the server itself. *)

\* inspectTerminalDownloadTarget walks a directory before it is offered again.
Inspect(g) ==
    /\ At(g, "opened") /\ Of(g).of = "server"
    /\ Goes(g, "done") \/ Goes(g, IF Of(g).kind = "file" THEN "writing" ELSE "queued")
    /\ UNCHANGED <<ticketVars, job, archive>>

TakeArchive(g) ==
    /\ At(g, "queued") /\ archive["server"] = Unset
    /\ Goes(g, "writing")
    /\ archive' = [archive EXCEPT !["server"] = g]
    /\ UNCHANGED <<ticketVars, job>>

\* Mutant: the slot of archives is kept when a write fails.
WriteEndsKeeping(g) ==
    /\ At(g, "writing")
    /\ Goes(g, "done")
    /\ Releases(g, "server") \/ UNCHANGED archive
    /\ UNCHANGED <<ticketVars, job>>

\* All was sent, something failed, or contextWriter found the context done.
WriteEnds(g) ==
    /\ At(g, "writing")
    /\ Goes(g, "done")
    /\ Releases(g, "server")
    /\ UNCHANGED <<ticketVars, job>>

-----------------------------------------------------------------------------
(* From the agent. *)

Online(g) ==
    /\ At(g, "opened") /\ Of(g).of = "agent"
    /\ Goes(g, "starting") \/ Goes(g, "done")
    /\ UNCHANGED <<ticketVars, job, archive>>

\* StartStream: the agent has attached, or it has not.
StartStream(g) ==
    /\ At(g, "starting")
    /\ \/ Goes(g, "header") /\ job' = [job EXCEPT ![g] = Of(g).kind]
       \/ Goes(g, "done") /\ UNCHANGED job
    /\ UNCHANGED <<ticketVars, archive>>

\* The agent's header comes with its first bytes; it may hold an error.
ReadHeader(g) ==
    /\ At(g, "header") /\ job[g] \in {"writing", "over"}
    /\ Goes(g, "copying") \/ Goes(g, "done")
    /\ UNCHANGED <<ticketVars, job, archive>>

\* The stream ends because the agent closed it, or because its keepalive failed.
StreamEnds(g) ==
    /\ At(g, "header")
    /\ job[g] \in {"over", "lost"}
    /\ Goes(g, "done")
    /\ UNCHANGED <<ticketVars, job, archive>>

\* What the agent sent is with the browser, or a write to it failed.
CopyEnds(g) ==
    /\ At(g, "copying")
    /\ job[g] \in {"over", "lost"}
    /\ Goes(g, "done")
    /\ UNCHANGED <<ticketVars, job, archive>>

Working(g, what) == job' = [job EXCEPT ![g] = what]

\* The agent inspects its target: an error, or the download begins.
AgentInspect(g) ==
    /\ \/ job[g] \in {"file", "directory"} /\ Working(g, "over")
       \/ job[g] = "file" /\ Working(g, "writing")
       \/ job[g] = "directory" /\ Working(g, "queued")
    /\ UNCHANGED <<ticketVars, get, archive>>

\* The agent waits for its slot whether or not anyone still waits for the archive.
AgentTakeArchive(g) ==
    /\ job[g] = "queued" /\ archive["agent"] = Unset
    /\ Working(g, "writing")
    /\ archive' = [archive EXCEPT !["agent"] = g]
    /\ UNCHANGED <<ticketVars, get>>

AgentWriteEnds(g) ==
    /\ job[g] = "writing"
    /\ Working(g, "over")
    /\ Releases(g, "agent")
    /\ UNCHANGED <<ticketVars, get>>

\* The agent stops, with all it was sending.
AgentStops ==
    /\ \E g \in Gets : job[g] \notin {"none", "over", "lost"}
    /\ job' = [g \in Gets |-> IF job[g] \in {"none", "over"} THEN job[g] ELSE "lost"]
    /\ archive' = [archive EXCEPT !["agent"] = Unset]
    /\ UNCHANGED <<ticketVars, get>>

\* The browser leaves: a request that waits for the slot of archives, or for the agent,
\* has its context done; one that is writing fails at its next write.
Leave(g) ==
    /\ \E pc \in {"queued", "starting", "header", "copying"} : At(g, pc)
    /\ Goes(g, "done")
    /\ UNCHANGED <<ticketVars, job, archive>>

-----------------------------------------------------------------------------

Handle(g) ==
    \/ Take(g) \/ Inspect(g) \/ TakeArchive(g)
    \/ Online(g) \/ StartStream(g) \/ ReadHeader(g) \/ StreamEnds(g)

Agent(g) == AgentInspect(g) \/ AgentTakeArchive(g)

Next ==
    \/ \E t \in Tickets : (\E what \in Offers : Store(t, what)) \/ Expire(t)
    \/ \E g \in Gets : Handle(g) \/ Agent(g) \/ Leave(g)
          \/ WriteEnds(g) \/ CopyEnds(g) \/ AgentWriteEnds(g)
    \/ \E g \in Gets, t \in Tickets : Request(g, t)
    \/ AgentStops

\* A handler and the agent's side of it go on, but for a write: it has no deadline, and
\* ends when the browser reads or its connection fails.
Fairness == \A g \in Gets : WF_vars(Handle(g)) /\ WF_vars(Agent(g))

Spec == Init /\ [][Next]_vars /\ Fairness

-----------------------------------------------------------------------------
(* Properties. *)

\* "un ticket HTTP ... temporal y de un solo uso" (README.md:487): whatever requests
\* race for it, a token is in the map, or was dropped late, or was given to one request
\* that had a slot; a request that found no slot has not cost it.
TicketsAccounted ==
    \A t \in Tickets :
        /\ Cardinality(served[t]) <= 1
        /\ t \in pending => served[t] = {} /\ t \notin dropped
        /\ t \in dropped => served[t] = {}
        /\ offer[t] # Unset /\ t \notin late => t \in pending \/ served[t] # {}

\* What is being sent waits for the browser.
Sending(g) ==
    \/ At(g, "writing") \/ job[g] = "writing"
    \/ At(g, "copying") /\ job[g] \in {"over", "lost"}

\* Nobody waits for ever on the others' slots: a request that has one gives it back,
\* though archives queue behind one another in two processes and browsers and agents
\* leave at any point.
SlotsReturn == \A g \in Gets : At(g, "slotted") ~> At(g, "done")

\* Nor does an archive that the agent has begun to prepare, whether or not anyone still
\* waits for it.
ArchivesGoRound == \A g \in Gets : job[g] = "queued" ~> job[g] # "queued"

\* As long as no browser leaves a download neither read nor closed for ever: one that
\* does keeps its slots, and the one slot of archives with them.
Returns == (\A g \in Gets : []<>~Sending(g)) => SlotsReturn /\ ArchivesGoRound

=============================================================================

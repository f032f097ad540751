----------------------------- MODULE UdpSessions -----------------------------
(***************************************************************************)
(* The sessions of one public UDP port whose backend is local              *)
(* (internal/app/public_l4.go): one goroutine reads the public socket and  *)
(* opens a backend socket per client; each session has a goroutine that    *)
(* reads the replies; the listener may be closed by a reconciliation.      *)
(*                                                                         *)
(* The three end sessions concurrently, through shutdown, whose body       *)
(* sync.Once runs once and makes the other callers wait.                   *)
(***************************************************************************)
EXTENDS Naturals, FiniteSets

CONSTANTS
    Clients,    \* client addresses
    Sessions,   \* bound: sessions opened in all
    Unset,      \* the value of what is absent
    MaxSessions \* publicL4UDPMaxSessions: 4096 in the code

VARIABLES
    closed,     \* state.closed
    socket,     \* the public socket is open
    sessions,   \* state.sessions
    client,     \* the client of a session, once opened
    backend,    \* sessions whose backend socket is open
    once,       \* shutdown of a session: not called, running, over
    reader,     \* what readReplies of a session does
    server,     \* what serve does: the session it writes to
    closer      \* the sessions Close has yet to shut down, or where it is

vars == <<closed, socket, sessions, client, backend, once, reader, server, closer>>

TypeOK ==
    /\ {closed, socket} \subseteq BOOLEAN
    /\ sessions \in [Clients -> Sessions \cup {Unset}]
    /\ client \in [Sessions -> Clients \cup {Unset}]
    /\ backend \subseteq Sessions
    /\ once \in [Sessions -> {"no", "running", "over"}]
    /\ reader \in [Sessions -> {"none", "reading", "ending", "ended"}]
    /\ server \in [pc : {"reading", "writing", "ending", "ended"}, of : Sessions \cup {Unset}]
    /\ closer \in [pc : {"idle", "sweeping", "done"}, left : SUBSET Sessions]

Reading == [pc |-> "reading", of |-> Unset]

Init ==
    /\ closed = FALSE /\ socket = TRUE
    /\ sessions = [c \in Clients |-> Unset]
    /\ client = [s \in Sessions |-> Unset]
    /\ backend = {}
    /\ once = [s \in Sessions |-> "no"]
    /\ reader = [s \in Sessions |-> "none"]
    /\ server = Reading
    /\ closer = [pc |-> "idle", left |-> {}]

-----------------------------------------------------------------------------
(* shutdown: the socket first, the map after, under state's lock. *)

\* Somebody who has to call it.
Called(s) ==
    \/ reader[s] = "ending"
    \/ server = [pc |-> "ending", of |-> s]
    \/ closer.pc = "sweeping" /\ s \in closer.left

ShutdownCloses(s) ==
    /\ Called(s) /\ once[s] = "no"
    /\ once' = [once EXCEPT ![s] = "running"]
    /\ backend' = backend \ {s}
    /\ UNCHANGED <<closed, socket, sessions, client, reader, server, closer>>

\* Mutant: the entry stays in the map.
ForgetNot(s) ==
    /\ once[s] = "running"
    /\ once' = [once EXCEPT ![s] = "over"]
    /\ UNCHANGED <<closed, socket, sessions, client, backend, reader, server, closer>>

Forget(s) ==
    /\ once[s] = "running"
    /\ once' = [once EXCEPT ![s] = "over"]
    /\ sessions' = IF sessions[client[s]] = s
                   THEN [sessions EXCEPT ![client[s]] = Unset] ELSE sessions
    /\ UNCHANGED <<closed, socket, client, backend, reader, server, closer>>

ShutdownReturns(s) ==
    /\ once[s] = "over"
    /\ \/ /\ reader[s] = "ending"
          /\ reader' = [reader EXCEPT ![s] = "ended"]
          /\ UNCHANGED <<server, closer>>
       \/ /\ server = [pc |-> "ending", of |-> s]
          /\ server' = Reading
          /\ UNCHANGED <<reader, closer>>
       \/ /\ closer.pc = "sweeping" /\ s \in closer.left
          /\ closer' = [closer EXCEPT !.left = @ \ {s}]
          /\ UNCHANGED <<reader, server>>
    /\ UNCHANGED <<closed, socket, sessions, client, backend, once>>

-----------------------------------------------------------------------------
(* serve and forwardLocal. *)

Count == Cardinality({c \in Clients : sessions[c] # Unset})

Fresh == {s \in Sessions : client[s] = Unset}

\* A datagram of a client that has a session: it is written after the unlock.
Lookup(c) ==
    /\ server = Reading /\ socket /\ ~closed
    /\ sessions[c] # Unset
    /\ server' = [pc |-> "writing", of |-> sessions[c]]
    /\ UNCHANGED <<closed, socket, sessions, client, backend, once, reader, closer>>

\* Mutant: whether the listener was closed is read before the lock.
OpenUnchecked(c) ==
    /\ server = Reading /\ socket
    /\ sessions[c] = Unset /\ Count < MaxSessions
    /\ \E s \in Fresh :
          /\ sessions' = [sessions EXCEPT ![c] = s]
          /\ client' = [client EXCEPT ![s] = c]
          /\ backend' = backend \cup {s}
          /\ reader' = [reader EXCEPT ![s] = "reading"]
          /\ server' = [pc |-> "writing", of |-> s]
    /\ UNCHANGED <<closed, socket, once, closer>>

\* One without: if there is room, a session is opened under the lock; if there is
\* none, or the backend cannot be dialled, the datagram is dropped.
OpenSession(c) ==
    /\ server = Reading /\ socket /\ ~closed
    /\ sessions[c] = Unset /\ Count < MaxSessions
    /\ \E s \in Fresh :
          /\ sessions' = [sessions EXCEPT ![c] = s]
          /\ client' = [client EXCEPT ![s] = c]
          /\ backend' = backend \cup {s}
          /\ reader' = [reader EXCEPT ![s] = "reading"]
          /\ server' = [pc |-> "writing", of |-> s]
    /\ UNCHANGED <<closed, socket, once, closer>>

WriteBackend ==
    /\ server.pc = "writing"
    /\ \/ server.of \in backend /\ server' = Reading
       \/ server' = [server EXCEPT !.pc = "ending"]
    /\ UNCHANGED <<closed, socket, sessions, client, backend, once, reader, closer>>

ServeEnds ==
    /\ server = Reading
    /\ server' = [pc |-> "ended", of |-> Unset]
    /\ UNCHANGED <<closed, socket, sessions, client, backend, once, reader, closer>>

\* readReplies: the session was idle too long, its socket was closed, or a reply
\* cannot be sent.
ReaderFails(s) ==
    /\ reader[s] = "reading"
    /\ reader' = [reader EXCEPT ![s] = "ending"]
    /\ UNCHANGED <<closed, socket, sessions, client, backend, once, server, closer>>

-----------------------------------------------------------------------------
(* udpListenerCloser. *)

Close ==
    /\ ~closed
    /\ closed' = TRUE
    /\ closer' = [pc |-> "sweeping", left |-> {s \in Sessions : \E c \in Clients : sessions[c] = s}]
    /\ UNCHANGED <<socket, sessions, client, backend, once, reader, server>>

CloseSocket ==
    /\ closer = [pc |-> "sweeping", left |-> {}]
    /\ closer' = [closer EXCEPT !.pc = "done"]
    /\ socket' = FALSE
    /\ UNCHANGED <<closed, sessions, client, backend, once, reader, server>>

-----------------------------------------------------------------------------

Shutdown(s) == ShutdownCloses(s) \/ Forget(s) \/ ShutdownReturns(s)

Next ==
    \/ \E s \in Sessions : Shutdown(s) \/ ReaderFails(s)
    \/ \E c \in Clients : Lookup(c) \/ OpenSession(c)
    \/ WriteBackend \/ ServeEnds
    \/ Close \/ CloseSocket

\* Goroutines go on; a read from a socket that was closed fails. A session that is
\* used never runs into its deadline.
Fairness ==
    /\ \A s \in Sessions :
          WF_vars(Shutdown(s)) /\ WF_vars(ReaderFails(s) /\ s \notin backend)
    /\ WF_vars(WriteBackend) /\ WF_vars(~socket /\ ServeEnds) /\ WF_vars(CloseSocket)

Spec == Init /\ [][Next]_vars /\ Fairness

-----------------------------------------------------------------------------
(* Properties. *)

\* A backend socket that is open is the one the map has for its client: the bound on
\* the map bounds the sockets, whoever ends sessions and in what order.
SocketsBounded ==
    /\ \A s \in backend : sessions[client[s]] = s
    /\ Cardinality(backend) <= MaxSessions

\* "UDP cierra sus sesiones cuando se retira el listener"
\* (contexto/84-plano-l4-dinamico.md:19): when Close has closed the public socket no
\* backend socket is left, and none is opened later.
ClosedMeansClosed == ~socket => backend = {} /\ \A c \in Clients : sessions[c] = Unset

SessionsKept == TypeOK /\ SocketsBounded /\ ClosedMeansClosed

\* Close returns and leaves no goroutine, and a session that anyone has begun to shut
\* down gives its place to another, though the three wait for one another in shutdown.
Ends ==
    /\ closed ~> ~socket /\ \A s \in Sessions : reader[s] \in {"none", "ended"}
    /\ \A s \in Sessions :
          client[s] # Unset /\ s \notin backend
              ~> reader[s] = "ended" /\ \A c \in Clients : sessions[c] # s

=============================================================================

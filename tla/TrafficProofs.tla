---------------------------- MODULE TrafficProofs ----------------------------
(***************************************************************************)
(* The data that moves outside the hub's streams: the sessions of a public *)
(* UDP port, the tickets of downloads and the files of uploads, for any    *)
(* number of clients, requests and terminals.                              *)
(***************************************************************************)
EXTENDS MCTraffic, FiniteSetTheorems, WellFoundedInduction, TLAPS

-----------------------------------------------------------------------------
(* The sessions of a UDP port. *)

\* The clients that have a session.
Mapped == {c \in Clients : sessions[c] # Unset}

\* An entry of the map is of the client that its session was opened for.
EntriesOwn == \A c \in Mapped : client[sessions[c]] = c

MapBounded == IsFiniteSet(Mapped) /\ Cardinality(Mapped) <= MaxSessions

BackendsMapped == \A s \in backend : client[s] # Unset /\ sessions[client[s]] = s

\* Who may come to call shutdown of a session, or has done so.
Opened(s) ==
    \/ once[s] # "no" \/ udpReader[s] # "none" \/ server.of = s \/ s \in closer.left
    \/ s \in backend

OpenedHaveClient == \A s \in Sessions : Opened(s) => client[s] # Unset

\* shutdown closes the socket before it takes out the entry, and returns after both.
ShutdownOrder ==
    \A s \in Sessions :
        /\ once[s] # "no" => s \notin backend
        /\ once[s] = "over" => \A c \in Clients : sessions[c] # s

\* What is in the map when Close sweeps is yet to be shut down by Close, and nothing is
\* there when it closes the socket.
CloseSweeps ==
    /\ closed <=> closer.pc # "idle"
    /\ closer.pc = "sweeping" => \A c \in Mapped : sessions[c] \in closer.left
    /\ closer.pc = "done" => Mapped = {}
    /\ ~socket => closer.pc = "done"

UdpInv ==
    /\ S!TypeOK
    /\ EntriesOwn /\ MapBounded /\ BackendsMapped
    /\ OpenedHaveClient /\ ShutdownOrder /\ CloseSweeps

LEMMA UnsetApart ==
    /\ Unset \notin Sessions /\ Unset \notin Clients /\ Unset \notin Tickets
    /\ Unset \notin Gets /\ Unset \notin Uploads
    /\ Other # Unset /\ Other \notin Uploads
  BY ValuesAssumption

\* The instance counts like FiniteSets.
LEMMA UdpCardinality == \A X : S!Cardinality(X) = Cardinality(X)
  BY DEF S!Cardinality, Cardinality

\* The map stays within its bound when it loses entries.
LEMMA MapShrinks ==
    ASSUME MapBounded, Mapped' \subseteq Mapped
    PROVE  MapBounded'
  <1>1. IsFiniteSet(Mapped') /\ Cardinality(Mapped') <= Cardinality(Mapped)
    BY FS_Subset DEF MapBounded
  <1>2. Cardinality(Mapped) \in Nat /\ Cardinality(Mapped') \in Nat /\ MaxSessions \in Nat
    BY <1>1, FS_CardinalityType, BoundsAssumption DEF MapBounded
  <1> QED BY <1>1, <1>2 DEF MapBounded

LEMMA UdpInit == S!Init => UdpInv
  <1> SUFFICES ASSUME S!Init PROVE UdpInv
    OBVIOUS
  <1>1. Mapped = {}
    BY DEF S!Init, Mapped
  <1>2. MapBounded
    BY <1>1, FS_EmptySet, BoundsAssumption DEF MapBounded
  <1>3. S!TypeOK
    BY DEF S!Init, S!TypeOK, S!Reading
  <1>4. OpenedHaveClient
    BY UnsetApart DEF S!Init, OpenedHaveClient, Opened, S!Reading
  <1>5. EntriesOwn /\ BackendsMapped /\ ShutdownOrder /\ CloseSweeps
    BY <1>1, UnsetApart DEF S!Init, EntriesOwn, BackendsMapped, ShutdownOrder, CloseSweeps
  <1> QED BY <1>2, <1>3, <1>4, <1>5 DEF UdpInv

\* Whoever calls shutdown of a session, that session was opened.
LEMMA CalledOpened ==
    ASSUME UdpInv, NEW s \in Sessions, S!Called(s) \/ once[s] # "no" \/ s \in backend
    PROVE  client[s] \in Clients
  <1>1. client[s] # Unset
    BY DEF UdpInv, OpenedHaveClient, Opened, S!Called
  <1> QED BY <1>1 DEF UdpInv, S!TypeOK

LEMMA ShutdownClosesInv ==
    ASSUME UdpInv, NEW s \in Sessions, S!ShutdownCloses(s)
    PROVE  UdpInv'
  <1>1. /\ once' = [once EXCEPT ![s] = "running"] /\ backend' = backend \ {s}
        /\ UNCHANGED <<closed, socket, sessions, client, udpReader, server, closer>>
    BY DEF S!ShutdownCloses
  <1>2. client[s] # Unset
    BY CalledOpened, UnsetApart DEF S!ShutdownCloses
  <1>3. S!TypeOK'
    BY <1>1 DEF UdpInv, S!TypeOK
  <1>4. Mapped' = Mapped
    BY <1>1 DEF Mapped
  <1>5. EntriesOwn' /\ MapBounded' /\ BackendsMapped' /\ CloseSweeps'
    BY <1>1, <1>4 DEF UdpInv, EntriesOwn, MapBounded, BackendsMapped, CloseSweeps
  <1>6. \A r \in Sessions : once'[r] = IF r = s THEN "running" ELSE once[r]
    BY <1>1 DEF UdpInv, S!TypeOK
  <1>7. OpenedHaveClient' /\ ShutdownOrder'
    BY <1>1, <1>2, <1>6 DEF UdpInv, OpenedHaveClient, Opened, ShutdownOrder
  <1> QED BY <1>3, <1>5, <1>7 DEF UdpInv

LEMMA ForgetInv ==
    ASSUME UdpInv, NEW s \in Sessions, S!Forget(s)
    PROVE  UdpInv'
  <1>1. /\ once[s] = "running" /\ once' = [once EXCEPT ![s] = "over"]
        /\ UNCHANGED <<closed, socket, client, backend, udpReader, server, closer>>
    BY DEF S!Forget
  <1>2. PICK c : c = client[s]
    OBVIOUS
  <1>3. c \in Clients
    BY <1>1, <1>2, CalledOpened
  <1>4. sessions' = IF sessions[c] = s THEN [sessions EXCEPT ![c] = Unset] ELSE sessions
    BY <1>2 DEF S!Forget
  <1>5. \A d \in Clients : sessions'[d] = IF d = c /\ sessions[c] = s THEN Unset ELSE sessions[d]
    BY <1>4 DEF UdpInv, S!TypeOK
  <1>6. S!TypeOK'
    BY <1>1, <1>4 DEF UdpInv, S!TypeOK
  <1>7. Mapped' \subseteq Mapped /\ \A d \in Mapped' : sessions'[d] = sessions[d]
    BY <1>5 DEF Mapped
  <1>8. MapBounded'
    BY <1>7, MapShrinks DEF UdpInv
  <1>9. EntriesOwn' /\ CloseSweeps'
    BY <1>1, <1>7 DEF UdpInv, EntriesOwn, CloseSweeps
  <1>10. \A r \in Sessions : once'[r] = IF r = s THEN "over" ELSE once[r]
    BY <1>1 DEF UdpInv, S!TypeOK
  <1>11. BackendsMapped'
    <2> SUFFICES ASSUME NEW r \in backend PROVE client[r] # Unset /\ sessions'[client[r]] = r
      BY <1>1 DEF BackendsMapped
    <2>1. r \in Sessions /\ client[r] \in Clients /\ sessions[client[r]] = r
      BY CalledOpened DEF UdpInv, S!TypeOK, BackendsMapped
    <2>2. r # s
      BY <1>1 DEF UdpInv, ShutdownOrder
    <2> QED BY <1>2, <1>5, <2>1, <2>2, UnsetApart
  <1>12. \A d \in Clients : sessions'[d] # s
    <2> SUFFICES ASSUME NEW d \in Clients, sessions[d] = s PROVE sessions'[d] # s
      BY <1>5, UnsetApart
    <2>1. d = c
      BY <1>2, UnsetApart DEF UdpInv, EntriesOwn, Mapped
    <2> QED BY <1>5, <2>1, UnsetApart
  <1>13. ShutdownOrder'
    BY <1>1, <1>5, <1>10, <1>12, UnsetApart DEF UdpInv, ShutdownOrder
  <1>14. OpenedHaveClient'
    BY <1>1, <1>2, <1>3, <1>10, UnsetApart DEF UdpInv, OpenedHaveClient, Opened
  <1> QED BY <1>6, <1>8, <1>9, <1>11, <1>13, <1>14 DEF UdpInv

\* Steps that change neither the map nor the sockets, and call shutdown of no session but
\* of one that was opened.
LEMMA UdpControl ==
    ASSUME UdpInv, S!TypeOK',
           UNCHANGED <<closed, socket, sessions, client, backend, once>>,
           \A s \in Sessions :
              /\ udpReader'[s] = "none" <=> udpReader[s] = "none"
              /\ server'.of = s => server.of = s \/ client[s] # Unset,
           closer'.left \subseteq closer.left,
           closer'.pc = closer.pc,
           \A s \in closer.left \ closer'.left : once[s] = "over"
    PROVE  UdpInv'
  <1>1. Mapped' = Mapped
    BY DEF Mapped
  <1>2. EntriesOwn' /\ MapBounded' /\ BackendsMapped' /\ ShutdownOrder'
    BY <1>1 DEF UdpInv, EntriesOwn, MapBounded, BackendsMapped, ShutdownOrder
  <1>3. OpenedHaveClient'
    BY DEF UdpInv, OpenedHaveClient, Opened
  <1>4. CloseSweeps'
    <2>1. \A c \in Mapped : sessions[c] \in closer.left => sessions[c] \in closer'.left
      <3> SUFFICES ASSUME NEW c \in Mapped, sessions[c] \in closer.left
                   PROVE  sessions[c] \in closer'.left
        OBVIOUS
      <3>1. c \in Clients /\ sessions[c] \in Sessions
        BY DEF Mapped, UdpInv, S!TypeOK
      <3>2. once[sessions[c]] # "over"
        BY <3>1 DEF UdpInv, ShutdownOrder
      <3> QED BY <3>2
    <2> QED BY <1>1, <2>1 DEF UdpInv, CloseSweeps
  <1> QED BY <1>2, <1>3, <1>4 DEF UdpInv

LEMMA UdpControlInv ==
    ASSUME UdpInv,
           \/ \E s \in Sessions : S!ShutdownReturns(s) \/ S!ReaderFails(s)
           \/ \E c \in Clients : S!Lookup(c)
           \/ S!WriteBackend \/ S!ServeEnds
    PROVE  UdpInv'
  <1>1. S!TypeOK
    BY DEF UdpInv
  <1>2. CASE \E s \in Sessions : S!ShutdownReturns(s)
    <2>1. PICK s \in Sessions : S!ShutdownReturns(s)
      BY <1>2
    <2>2. once[s] = "over" /\ UNCHANGED <<closed, socket, sessions, client, backend, once>>
      BY <2>1 DEF S!ShutdownReturns
    <2>3. CASE /\ udpReader[s] = "ending" /\ udpReader' = [udpReader EXCEPT ![s] = "ended"]
               /\ UNCHANGED <<server, closer>>
      <3>1. S!TypeOK'
        BY <1>1, <2>2, <2>3 DEF S!TypeOK
      <3>2. \A r \in Sessions : udpReader'[r] = IF r = s THEN "ended" ELSE udpReader[r]
        BY <1>1, <2>3 DEF S!TypeOK
      <3> QED BY <2>2, <2>3, <3>1, <3>2, UdpControl
    <2>4. CASE server' = S!Reading /\ UNCHANGED <<udpReader, closer>>
      <3>1. S!TypeOK' /\ server'.of = Unset
        BY <1>1, <2>2, <2>4 DEF S!TypeOK, S!Reading
      <3> QED BY <2>2, <2>4, <3>1, UnsetApart, UdpControl
    <2>5. CASE /\ closer' = [closer EXCEPT !.left = @ \ {s}]
               /\ UNCHANGED <<udpReader, server>>
      <3>1. S!TypeOK' /\ closer'.left = closer.left \ {s} /\ closer'.pc = closer.pc
        BY <1>1, <2>2, <2>5 DEF S!TypeOK
      <3> QED BY <2>2, <2>5, <3>1, UdpControl
    <2> QED BY <2>1, <2>3, <2>4, <2>5 DEF S!ShutdownReturns
  <1>3. CASE \E s \in Sessions : S!ReaderFails(s)
    <2>1. PICK s \in Sessions : S!ReaderFails(s)
      BY <1>3
    <2>2. S!TypeOK'
      BY <1>1, <2>1 DEF S!TypeOK, S!ReaderFails
    <2>3. /\ udpReader[s] = "reading"
          /\ \A r \in Sessions : udpReader'[r] = IF r = s THEN "ending" ELSE udpReader[r]
      BY <1>1, <2>1 DEF S!TypeOK, S!ReaderFails
    <2>4. UNCHANGED <<closed, socket, sessions, client, backend, once, server, closer>>
      BY <2>1 DEF S!ReaderFails
    <2> QED BY <2>2, <2>3, <2>4, UdpControl
  <1>4. CASE \E c \in Clients : S!Lookup(c)
    <2>1. PICK c \in Clients : S!Lookup(c)
      BY <1>4
    <2>2. UNCHANGED <<closed, socket, sessions, client, backend, once, udpReader, closer>>
      BY <2>1 DEF S!Lookup
    <2>3. sessions[c] \in Sessions /\ client[sessions[c]] = c
      BY <1>1, <2>1 DEF S!TypeOK, S!Lookup, UdpInv, EntriesOwn, Mapped
    <2>4. S!TypeOK' /\ server'.of = sessions[c]
      BY <1>1, <2>1, <2>3 DEF S!TypeOK, S!Lookup
    <2> QED BY <2>2, <2>3, <2>4, UnsetApart, UdpControl
  <1>5. CASE S!WriteBackend \/ S!ServeEnds
    <2>1. UNCHANGED <<closed, socket, sessions, client, backend, once, udpReader, closer>>
      BY <1>5 DEF S!WriteBackend, S!ServeEnds
    <2>2. S!TypeOK' /\ server'.of \in {Unset, server.of}
      BY <1>1, <1>5, <2>1 DEF S!TypeOK, S!WriteBackend, S!ServeEnds, S!Reading
    <2> QED BY <2>1, <2>2, UnsetApart, UdpControl
  <1> QED BY <1>2, <1>3, <1>4, <1>5

\* A session is opened under the lock of a listener that is not closed, while there is
\* room in the map.
LEMMA OpenSessionInv ==
    ASSUME UdpInv, NEW c \in Clients, S!OpenSession(c)
    PROVE  UdpInv'
  <1>1. /\ socket /\ ~closed /\ sessions[c] = Unset /\ S!Count < MaxSessions
        /\ UNCHANGED <<closed, socket, once, closer>> /\ S!TypeOK
    BY DEF S!OpenSession, UdpInv
  <1>2. PICK s \in S!Fresh :
           /\ sessions' = [sessions EXCEPT ![c] = s]
           /\ client' = [client EXCEPT ![s] = c]
           /\ backend' = backend \cup {s}
           /\ udpReader' = [udpReader EXCEPT ![s] = "reading"]
           /\ server' = [pc |-> "writing", of |-> s]
    BY DEF S!OpenSession
  <1>3. s \in Sessions /\ client[s] = Unset /\ ~Opened(s)
    BY <1>2 DEF S!Fresh, UdpInv, OpenedHaveClient
  <1>4. \A d \in Clients : sessions'[d] = IF d = c THEN s ELSE sessions[d]
    BY <1>1, <1>2 DEF S!TypeOK
  <1>5. \A r \in Sessions : client'[r] = IF r = s THEN c ELSE client[r]
    BY <1>1, <1>2 DEF S!TypeOK
  <1>6. S!TypeOK'
    BY <1>1, <1>2, <1>3 DEF S!TypeOK
  <1>7. Mapped' = Mapped \cup {c} /\ c \notin Mapped
    BY <1>1, <1>3, <1>4, UnsetApart DEF Mapped
  <1>8. MapBounded'
    <2>1. S!Count = Cardinality(Mapped)
      BY UdpCardinality DEF S!Count, Mapped
    <2>2. IsFiniteSet(Mapped') /\ Cardinality(Mapped') = Cardinality(Mapped) + 1
      BY <1>7, FS_AddElement DEF UdpInv, MapBounded
    <2>3. Cardinality(Mapped) \in Nat /\ MaxSessions \in Nat
      BY FS_CardinalityType, BoundsAssumption DEF UdpInv, MapBounded
    <2> QED BY <1>1, <2>1, <2>2, <2>3 DEF MapBounded
  <1>9. \A d \in Mapped : sessions[d] \in Sessions /\ sessions[d] # s
    BY <1>1, <1>3, UnsetApart DEF S!TypeOK, Mapped, UdpInv, EntriesOwn
  <1>10. EntriesOwn'
    BY <1>3, <1>4, <1>5, <1>7, <1>9 DEF UdpInv, EntriesOwn, Mapped
  <1>11. BackendsMapped'
    <2> SUFFICES ASSUME NEW r \in backend \cup {s}
                 PROVE  client'[r] # Unset /\ sessions'[client'[r]] = r
      BY <1>2 DEF BackendsMapped
    <2>1. CASE r = s
      BY <1>3, <1>4, <1>5, <2>1, UnsetApart
    <2>2. CASE r # s
      <3>1. r \in Sessions /\ client[r] \in Clients /\ sessions[client[r]] = r
        BY <2>2, CalledOpened DEF UdpInv, S!TypeOK, BackendsMapped
      <3>2. client[r] # c
        BY <1>1, <3>1, UnsetApart
      <3> QED BY <1>4, <1>5, <2>2, <3>1, <3>2, UnsetApart
    <2> QED BY <2>1, <2>2
  <1>12. OpenedHaveClient'
    <2> SUFFICES ASSUME NEW r \in Sessions, r # s, Opened(r)' PROVE client[r] # Unset
      BY <1>3, <1>5, UnsetApart DEF OpenedHaveClient
    <2>1. udpReader'[r] = udpReader[r] /\ server'.of # r
      BY <1>1, <1>2 DEF S!TypeOK
    <2> QED BY <1>1, <1>2, <2>1 DEF UdpInv, OpenedHaveClient, Opened
  <1>13. ShutdownOrder'
    <2>1. once[s] = "no"
      BY <1>3 DEF Opened
    <2> QED BY <1>1, <1>2, <1>3, <1>4, <2>1 DEF UdpInv, ShutdownOrder
  <1>14. CloseSweeps'
    <2>1. closer.pc = "idle" /\ socket
      BY <1>1 DEF UdpInv, CloseSweeps
    <2> QED BY <1>1, <2>1 DEF CloseSweeps
  <1> QED BY <1>6, <1>8, <1>10, <1>11, <1>12, <1>13, <1>14 DEF UdpInv

LEMMA CloseInv ==
    ASSUME UdpInv, S!Close \/ S!CloseSocket
    PROVE  UdpInv'
  <1>1. UNCHANGED <<sessions, client, backend, once, udpReader, server>> /\ S!TypeOK
    BY DEF S!Close, S!CloseSocket, UdpInv
  <1>2. Mapped' = Mapped
    BY <1>1 DEF Mapped
  <1>3. EntriesOwn' /\ MapBounded' /\ BackendsMapped' /\ ShutdownOrder'
    BY <1>1, <1>2 DEF UdpInv, EntriesOwn, MapBounded, BackendsMapped, ShutdownOrder
  <1>4. CASE S!Close
    <2>1. /\ ~closed /\ closed' = TRUE /\ socket' = socket
          /\ closer' = [pc |-> "sweeping",
                        left |-> {s \in Sessions : \E c \in Clients : sessions[c] = s}]
      BY <1>4 DEF S!Close
    <2>2. S!TypeOK'
      BY <1>1, <2>1 DEF S!TypeOK
    <2>3. OpenedHaveClient'
      <3> SUFFICES ASSUME NEW s \in Sessions, s \in closer'.left PROVE client[s] # Unset
        BY <1>1 DEF UdpInv, OpenedHaveClient, Opened
      <3>1. PICK c \in Clients : sessions[c] = s
        BY <2>1
      <3> QED BY <3>1, UnsetApart DEF UdpInv, EntriesOwn, Mapped
    <2>4. CloseSweeps'
      <3>1. closer.pc = "idle" /\ socket
        BY <1>1, <2>1 DEF UdpInv, CloseSweeps, S!TypeOK
      <3>2. \A c \in Mapped : sessions[c] \in closer'.left
        BY <1>1, <2>1 DEF Mapped, S!TypeOK
      <3> QED BY <1>1, <1>2, <2>1, <3>1, <3>2 DEF CloseSweeps
    <2> QED BY <1>3, <2>2, <2>3, <2>4 DEF UdpInv
  <1>5. CASE S!CloseSocket
    <2>1. /\ closer = [pc |-> "sweeping", left |-> {}] /\ closer' = [closer EXCEPT !.pc = "done"]
          /\ closed' = closed /\ socket' = FALSE
      BY <1>5 DEF S!CloseSocket
    <2>2. S!TypeOK'
      BY <1>1, <2>1 DEF S!TypeOK
    <2>3. OpenedHaveClient'
      BY <1>1, <2>1 DEF UdpInv, OpenedHaveClient, Opened
    <2>4. Mapped = {}
      BY <2>1 DEF UdpInv, CloseSweeps
    <2>5. CloseSweeps'
      BY <1>2, <2>1, <2>4 DEF UdpInv, CloseSweeps
    <2> QED BY <1>3, <2>2, <2>3, <2>5 DEF UdpInv
  <1> QED BY <1>4, <1>5

LEMMA UdpSame == UdpInv /\ UNCHANGED udpVars => UdpInv'
  <1> SUFFICES ASSUME UdpInv, UNCHANGED udpVars PROVE UdpInv'
    OBVIOUS
  <1>1. UNCHANGED <<closed, socket, sessions, client, backend, once, udpReader, server, closer>>
    BY DEF udpVars
  <1>2. S!TypeOK'
    BY <1>1 DEF UdpInv, S!TypeOK
  <1> QED BY <1>1, <1>2, UdpControl

LEMMA UdpNext == UdpInv /\ S!Next => UdpInv'
  BY ShutdownClosesInv, ForgetInv, UdpControlInv, OpenSessionInv, CloseInv
     DEF S!Next, S!Shutdown

\* The backend sockets are images of the map's entries: as few as those.
LEMMA UdpKept == UdpInv => S!SessionsKept
  <1> SUFFICES ASSUME UdpInv PROVE S!SessionsKept
    OBVIOUS
  <1>1. S!TypeOK
    BY DEF UdpInv
  <1>2. \A s \in backend : s \in Sessions /\ client[s] \in Mapped /\ sessions[client[s]] = s
    BY <1>1, CalledOpened, UnsetApart DEF S!TypeOK, UdpInv, BackendsMapped, Mapped
  <1>3. PICK Entries : Entries = {sessions[c] : c \in Mapped}
    OBVIOUS
  <1>4. IsFiniteSet(Entries) /\ Cardinality(Entries) <= Cardinality(Mapped)
    <2>1. PICK f : f = [c \in Mapped |-> sessions[c]]
      OBVIOUS
    <2>2. f \in Surjection(Mapped, Entries)
      BY <1>3, <2>1 DEF Surjection
    <2> QED BY <2>2, FS_Surjection DEF UdpInv, MapBounded
  <1>5. backend \subseteq Entries
    BY <1>2, <1>3
  <1>6. IsFiniteSet(backend) /\ Cardinality(backend) <= Cardinality(Entries)
    BY <1>4, <1>5, FS_Subset
  <1>7. /\ {Cardinality(backend), Cardinality(Entries), Cardinality(Mapped), MaxSessions}
              \subseteq Nat
    BY <1>4, <1>6, FS_CardinalityType, BoundsAssumption DEF UdpInv, MapBounded
  <1>8. Cardinality(backend) <= MaxSessions
    BY <1>4, <1>6, <1>7 DEF UdpInv, MapBounded
  <1>9. S!SocketsBounded
    BY <1>2, <1>8, UdpCardinality DEF S!SocketsBounded
  <1>10. S!ClosedMeansClosed
    <2>1. ~socket => Mapped = {}
      BY DEF UdpInv, CloseSweeps
    <2> QED BY <1>2, <2>1 DEF S!ClosedMeansClosed, Mapped
  <1> QED BY <1>1, <1>9, <1>10 DEF S!SessionsKept

-----------------------------------------------------------------------------
(* The tickets of downloads. *)

\* Where a token is: nobody has it before it is created, and then it is in one place.
TicketPlaces ==
    \A t \in Tickets :
        /\ served[t] = {} \/ \E g \in Gets : served[t] = {g}
        /\ offer[t] = Unset => t \notin pending \cup late \cup dropped /\ served[t] = {}
        /\ t \in pending => served[t] = {} /\ t \notin dropped
        /\ t \in dropped => served[t] = {}
        /\ offer[t] # Unset /\ t \notin late => t \in pending \/ served[t] # {}

\* A request that has a slot has a token that was created.
GetsHold ==
    \A g \in Gets : get[g].pc \notin {"new", "done"} =>
        get[g].token \in Tickets /\ offer[get[g].token] # Unset

DownloadInv == D!TypeOK /\ TicketPlaces /\ GetsHold

LEMMA DownloadCardinality == \A X : D!Cardinality(X) = Cardinality(X)
  BY DEF D!Cardinality, Cardinality

LEMMA DownloadInit == D!Init => DownloadInv
  BY DEF D!Init, DownloadInv, D!TypeOK, TicketPlaces, GetsHold

\* storeTerminalDownloadTicket drops what is late, and then finds room or none.
LEMMA StoreInv ==
    ASSUME DownloadInv, NEW t \in Tickets, NEW what \in D!Offer, D!Store(t, what)
    PROVE  DownloadInv'
  <1>1. /\ offer[t] = Unset /\ dropped' = dropped \cup (pending \cap late)
        /\ UNCHANGED <<get, job, archive, late, served>> /\ D!TypeOK
    BY DEF D!Store, DownloadInv
  <1>2. \/ pending' = pending \ late /\ UNCHANGED offer
        \/ pending' = (pending \ late) \cup {t} /\ offer' = [offer EXCEPT ![t] = what]
    BY DEF D!Store
  <1>3. what # Unset
    BY ValuesAssumption
  <1>4. D!TypeOK'
    BY <1>1, <1>2 DEF D!TypeOK
  <1>5. /\ \A u \in Tickets : offer'[u] \in {offer[u], what} /\ (u # t => offer'[u] = offer[u])
        /\ t \notin pending \cup late \cup dropped /\ served[t] = {}
        /\ offer'[t] # Unset <=> t \in pending'
    <2>1. t \notin pending \cup late \cup dropped /\ served[t] = {}
      BY <1>1 DEF DownloadInv, TicketPlaces
    <2> QED BY <1>1, <1>2, <1>3, <2>1 DEF D!TypeOK
  <1>6. TicketPlaces'
    <2> SUFFICES ASSUME NEW u \in Tickets
                 PROVE  /\ served[u] = {} \/ \E g \in Gets : served[u] = {g}
                        /\ offer'[u] = Unset => /\ u \notin pending' \cup late \cup dropped'
                                               /\ served[u] = {}
                        /\ u \in pending' => served[u] = {} /\ u \notin dropped'
                        /\ u \in dropped' => served[u] = {}
                        /\ offer'[u] # Unset /\ u \notin late => u \in pending' \/ served[u] # {}
      BY <1>1 DEF TicketPlaces
    <2>1. CASE u = t
      BY <1>1, <1>5, <2>1
    <2>2. CASE u # t
      BY <1>1, <1>2, <1>5, <2>2 DEF DownloadInv, TicketPlaces
    <2> QED BY <2>1, <2>2
  <1>7. GetsHold'
    BY <1>1, <1>3, <1>5 DEF DownloadInv, GetsHold
  <1> QED BY <1>4, <1>6, <1>7 DEF DownloadInv


LEMMA ExpireInv ==
    ASSUME DownloadInv, NEW t \in Tickets, D!Expire(t)
    PROVE  DownloadInv'
  <1>1. /\ t \in pending /\ late' = late \cup {t}
        /\ UNCHANGED <<offer, pending, get, job, archive, served, dropped>>
    BY DEF D!Expire
  <1>2. D!TypeOK'
    BY <1>1 DEF DownloadInv, D!TypeOK
  <1>3. TicketPlaces' /\ GetsHold'
    BY <1>1 DEF DownloadInv, TicketPlaces, GetsHold
  <1> QED BY <1>2, <1>3 DEF DownloadInv

\* A request goes on with the token it has, or ends.
GetMoves(g, q) ==
    /\ get' = [get EXCEPT ![g] = q]
    /\ q.pc \in {"new", "slotted", "opened", "queued", "writing", "starting", "header",
                 "copying", "done"}
    /\ q = [pc |-> q.pc, token |-> q.token]
    /\ q.token \in Tickets \cup {Unset}
    /\ q.pc \notin {"new", "done"} => q.token \in Tickets /\ offer[q.token] # Unset

LEMMA GetMovesInv ==
    ASSUME DownloadInv, NEW g \in Gets, NEW q, GetMoves(g, q), UNCHANGED offer
    PROVE  /\ get' \in [Gets -> [pc : {"new", "slotted", "opened", "queued", "writing",
                                       "starting", "header", "copying", "done"},
                                 token : Tickets \cup {Unset}]]
           /\ GetsHold'
  <1>1. get' \in [Gets -> [pc : {"new", "slotted", "opened", "queued", "writing",
                                       "starting", "header", "copying", "done"},
                                 token : Tickets \cup {Unset}]]
    BY DEF GetMoves, DownloadInv, D!TypeOK
  <1>2. \A f \in Gets : get'[f] = IF f = g THEN q ELSE get[f]
    BY DEF GetMoves, DownloadInv, D!TypeOK
  <1> QED BY <1>1, <1>2 DEF GetMoves, DownloadInv, GetsHold

LEMMA GoesMoves ==
    ASSUME DownloadInv, NEW g \in Gets, NEW pc, D!Goes(g, pc),
           pc \in {"new", "slotted", "opened", "queued", "writing", "starting", "header",
                   "copying", "done"},
           pc = "done" \/ get[g].pc \notin {"new", "done"}
    PROVE  \E q : GetMoves(g, q)
  <1>1. PICK q : q = [pc |-> pc, token |-> IF pc = "done" THEN Unset ELSE get[g].token]
    OBVIOUS
  <1>2. get' = [get EXCEPT ![g] = q]
    BY <1>1 DEF D!Goes
  <1>3. get[g].token \in Tickets \cup {Unset}
    BY DEF DownloadInv, D!TypeOK
  <1>4. pc # "done" => get[g].token \in Tickets /\ offer[get[g].token] # Unset
    BY DEF DownloadInv, GetsHold
  <1>5. GetMoves(g, q)
    BY <1>1, <1>2, <1>3, <1>4 DEF GetMoves
  <1> QED BY <1>5

LEMMA RequestInv ==
    ASSUME DownloadInv, NEW g \in Gets, NEW t \in Tickets, D!Request(g, t)
    PROVE  DownloadInv'
  <1>1. /\ offer[t] # Unset
        /\ UNCHANGED <<offer, pending, late, served, dropped, job, archive>>
    BY DEF D!Request, D!ticketVars
  <1>2. PICK q \in {[pc |-> "slotted", token |-> t], [pc |-> "done", token |-> Unset]} :
           get' = [get EXCEPT ![g] = q]
    BY DEF D!Request
  <1>3. GetMoves(g, q)
    BY <1>1, <1>2 DEF GetMoves
  <1>4. D!TypeOK' /\ GetsHold'
    BY <1>1, <1>3, GetMovesInv DEF DownloadInv, D!TypeOK
  <1>5. TicketPlaces'
    BY <1>1 DEF DownloadInv, TicketPlaces
  <1> QED BY <1>4, <1>5 DEF DownloadInv

\* A token is taken out of the map by one request, that gets it or finds it late.
LEMMA TakeInv ==
    ASSUME DownloadInv, NEW g \in Gets, D!Take(g)
    PROVE  DownloadInv'
  <1>1. /\ get[g].pc = "slotted" /\ UNCHANGED <<offer, late, job, archive>> /\ D!TypeOK
    BY DEF D!Take, D!At, DownloadInv
  <1>2. PICK t : t = get[g].token
    OBVIOUS
  <1>3. t \in Tickets
    BY <1>1, <1>2 DEF DownloadInv, GetsHold
  <1>4. pending' = pending \ {t}
    BY <1>2 DEF D!Take
  <1>5. CASE t \in pending \ late
    <2>1. D!Goes(g, "opened") /\ served' = [served EXCEPT ![t] = served[t] \cup {g}]
          /\ dropped' = dropped
      BY <1>2, <1>5 DEF D!Take
    <2>2. PICK q : GetMoves(g, q)
      BY <1>1, <2>1, GoesMoves
    <2>3. served' \in [Tickets -> SUBSET Gets]
      BY <1>1, <1>3, <2>1 DEF D!TypeOK
    <2>4. D!TypeOK' /\ GetsHold'
      BY <1>1, <1>4, <2>1, <2>2, <2>3, GetMovesInv DEF D!TypeOK
    <2>5. served[t] = {} /\ t \notin dropped
      BY <1>3, <1>5 DEF DownloadInv, TicketPlaces
    <2>6. \A u \in Tickets : served'[u] = IF u = t THEN {g} ELSE served[u]
      BY <1>1, <2>1, <2>5 DEF D!TypeOK
    <2>7. TicketPlaces'
      <3> SUFFICES ASSUME NEW u \in Tickets
                   PROVE  /\ served'[u] = {} \/ \E f \in Gets : served'[u] = {f}
                          /\ offer[u] = Unset => /\ u \notin pending' \cup late \cup dropped
                                                 /\ served'[u] = {}
                          /\ u \in pending' => served'[u] = {} /\ u \notin dropped
                          /\ u \in dropped => served'[u] = {}
                          /\ offer[u] # Unset /\ u \notin late =>
                                u \in pending' \/ served'[u] # {}
        BY <1>1, <2>1 DEF TicketPlaces
      <3>1. CASE u = t
        BY <1>3, <1>4, <1>5, <2>5, <2>6, <3>1 DEF DownloadInv, TicketPlaces
      <3>2. CASE u # t
        BY <1>4, <2>6, <3>2 DEF DownloadInv, TicketPlaces
      <3> QED BY <3>1, <3>2
    <2> QED BY <2>4, <2>7 DEF DownloadInv
  <1>6. CASE t \notin pending \ late
    <2>1. /\ D!Goes(g, "done") /\ dropped' = dropped \cup (pending \cap {t})
          /\ served' = served
      BY <1>2, <1>6 DEF D!Take
    <2>2. PICK q : GetMoves(g, q)
      BY <1>1, <2>1, GoesMoves
    <2>3. D!TypeOK' /\ GetsHold'
      BY <1>1, <1>3, <1>4, <2>1, <2>2, GetMovesInv DEF D!TypeOK
    <2>4. TicketPlaces'
      BY <1>1, <1>3, <1>4, <1>6, <2>1 DEF DownloadInv, TicketPlaces
    <2> QED BY <2>3, <2>4 DEF DownloadInv
  <1> QED BY <1>5, <1>6

\* The rest of a request leaves the tickets alone.
LEMMA HandleSame ==
    ASSUME DownloadInv, UNCHANGED <<offer, pending, late, served, dropped>>,
           UNCHANGED get \/ \E g \in Gets : \E q : GetMoves(g, q),
           job' \in [Gets -> {"none", "file", "directory", "queued", "writing", "over", "lost"}],
           archive' \in [D!Processes -> Gets \cup {Unset}]
    PROVE  DownloadInv'
  <1>1. CASE UNCHANGED get
    <2>1. D!TypeOK' /\ TicketPlaces' /\ GetsHold'
      BY <1>1 DEF DownloadInv, D!TypeOK, TicketPlaces, GetsHold
    <2> QED BY <2>1 DEF DownloadInv
  <1>2. CASE \E g \in Gets : \E q : GetMoves(g, q)
    <2>1. PICK g \in Gets : \E q : GetMoves(g, q)
      BY <1>2
    <2>2. PICK q : GetMoves(g, q)
      BY <2>1
    <2>3. D!TypeOK' /\ GetsHold'
      BY <2>2, GetMovesInv DEF DownloadInv, D!TypeOK
    <2>4. TicketPlaces'
      BY DEF DownloadInv, TicketPlaces
    <2> QED BY <2>3, <2>4 DEF DownloadInv
  <1> QED BY <1>1, <1>2

LEMMA HandleInv ==
    ASSUME DownloadInv, NEW g \in Gets,
           \/ D!Inspect(g) \/ D!TakeArchive(g) \/ D!Online(g) \/ D!StartStream(g)
           \/ D!ReadHeader(g) \/ D!StreamEnds(g) \/ D!Leave(g) \/ D!WriteEnds(g)
           \/ D!CopyEnds(g)
    PROVE  DownloadInv'
  <1>1. UNCHANGED <<offer, pending, late, served, dropped>> /\ D!TypeOK
    BY DEF D!Inspect, D!TakeArchive, D!Online, D!StartStream, D!ReadHeader, D!StreamEnds,
           D!Leave, D!WriteEnds, D!CopyEnds, D!ticketVars, DownloadInv
  <1>2. get[g].pc \notin {"new", "done"}
    BY DEF D!Inspect, D!TakeArchive, D!Online, D!StartStream, D!ReadHeader, D!StreamEnds,
           D!Leave, D!WriteEnds, D!CopyEnds, D!At
  <1>3. \E pc \in {"queued", "writing", "starting", "header", "copying", "done"} :
           D!Goes(g, pc)
    BY DEF D!Inspect, D!TakeArchive, D!Online, D!StartStream, D!ReadHeader, D!StreamEnds,
           D!Leave, D!WriteEnds, D!CopyEnds
  <1>4. \E q : GetMoves(g, q)
    BY <1>2, <1>3, GoesMoves
  <1>5. job' \in [Gets -> {"none", "file", "directory", "queued", "writing", "over", "lost"}]
    <2>1. D!Of(g) \in D!Offer
      BY <1>1, <1>2 DEF D!Of, DownloadInv, GetsHold, D!TypeOK
    <2>2. D!Of(g).kind \in {"file", "directory"}
      BY <2>1 DEF D!Offer
    <2>3. PICK k : k = D!Of(g).kind
      OBVIOUS
    <2>4. job' = job \/ job' = [job EXCEPT ![g] = k]
      BY <2>3 DEF D!Inspect, D!TakeArchive, D!Online, D!StartStream, D!ReadHeader,
             D!StreamEnds, D!Leave, D!WriteEnds, D!CopyEnds
    <2> QED BY <1>1, <2>2, <2>3, <2>4 DEF D!TypeOK
  <1>6. archive' \in [D!Processes -> Gets \cup {Unset}]
    BY <1>1 DEF D!Inspect, D!TakeArchive, D!Online, D!StartStream, D!ReadHeader,
           D!StreamEnds, D!Leave, D!WriteEnds, D!CopyEnds, D!Releases, D!TypeOK, D!Processes
  <1> QED BY <1>1, <1>4, <1>5, <1>6, HandleSame

LEMMA AgentSideInv ==
    ASSUME DownloadInv,
           \/ D!AgentStops
           \/ \E g \in Gets : D!AgentInspect(g) \/ D!AgentTakeArchive(g) \/ D!AgentWriteEnds(g)
    PROVE  DownloadInv'
  <1>1. UNCHANGED <<offer, pending, late, served, dropped, get>> /\ D!TypeOK
    BY DEF D!AgentStops, D!AgentInspect, D!AgentTakeArchive, D!AgentWriteEnds, D!ticketVars,
           DownloadInv
  <1>2. job' \in [Gets -> {"none", "file", "directory", "queued", "writing", "over", "lost"}]
    BY <1>1 DEF D!AgentStops, D!AgentInspect, D!AgentTakeArchive, D!AgentWriteEnds, D!Working,
           D!TypeOK
  <1>3. archive' \in [D!Processes -> Gets \cup {Unset}]
    BY <1>1 DEF D!AgentStops, D!AgentInspect, D!AgentTakeArchive, D!AgentWriteEnds,
           D!Releases, D!TypeOK, D!Processes
  <1> QED BY <1>1, <1>2, <1>3, HandleSame

LEMMA DownloadSame == DownloadInv /\ UNCHANGED downloadVars => DownloadInv'
  BY HandleSame DEF downloadVars, DownloadInv, D!TypeOK

LEMMA DownloadNext == DownloadInv /\ D!Next => DownloadInv'
  <1> SUFFICES ASSUME DownloadInv, D!Next PROVE DownloadInv'
    OBVIOUS
  <1>1. ASSUME NEW t \in Tickets, NEW what, D!Store(t, what),
               what \in {[of |-> "server", kind |-> "directory"],
                         [of |-> "agent", kind |-> "directory"],
                         [of |-> "agent", kind |-> "file"]}
        PROVE  DownloadInv'
    <2>1. what \in D!Offer
      BY <1>1 DEF D!Offer, D!Processes
    <2> QED BY <1>1, <2>1, StoreInv
  <1> QED BY <1>1, ExpireInv, RequestInv, TakeInv, HandleInv, AgentSideInv
          DEF D!Next, D!Handle, D!Agent

LEMMA DownloadKept == DownloadInv => D!TicketsAccounted
  <1> SUFFICES ASSUME DownloadInv, NEW t \in Tickets
               PROVE  /\ D!Cardinality(served[t]) <= 1
                      /\ t \in pending => served[t] = {} /\ t \notin dropped
                      /\ t \in dropped => served[t] = {}
                      /\ offer[t] # Unset /\ t \notin late => t \in pending \/ served[t] # {}
    BY DEF D!TicketsAccounted
  <1>1. Cardinality({}) = 0 /\ \A g \in Gets : Cardinality({g}) = 1
    BY FS_EmptySet, FS_Singleton
  <1>2. Cardinality(served[t]) <= 1
    BY <1>1 DEF DownloadInv, TicketPlaces
  <1>3. D!Cardinality(served[t]) <= 1
    BY <1>2, DownloadCardinality
  <1> QED BY <1>3 DEF DownloadInv, TicketPlaces

-----------------------------------------------------------------------------
(* Uploads. *)

\* The message that the reader of a terminal works on is about an upload.
InHand(t, u) == uploadReader[t] \in U!Work /\ uploadReader[t].up = u

Owns(t, u) == u \in active[t] \/ InHand(t, u)

OneOwner == \A u \in Uploads : \A s, t \in Terminals : Owns(s, u) /\ Owns(t, u) => s = t

\* What is known of an upload at each place of the reader that works on it. One whose
\* bridge has ended under it has lost its temporary file, or has left it astray.
Stage(t, u) ==
    /\ u \in active[t] \/ InHand(t, u) => sender[u] = t
    /\ u \in active[t] => told[u] = {"ready"}
    /\ InHand(t, u) /\ uploadReader[t].pc \in {"starting", "created"} =>
          told[u] = {} /\ (bridge[t] = "open" \/ u \in strays)
    /\ InHand(t, u) /\ uploadReader[t].pc = "starting" => u \notin parts \ strays
    /\ InHand(t, u) /\ uploadReader[t].pc \in {"looking", "linking", "linked"} =>
          told[u] = {"ready"} /\ written[u] = Chunks /\ (u \in active[t] \/ u \notin parts)
    /\ InHand(t, u) /\ uploadReader[t].pc \in {"linking", "linked"} =>
          uploadReader[t].name \in U!Candidates
    /\ InHand(t, u) /\ uploadReader[t].pc = "linked" => dir[uploadReader[t].name] = u

LinkedAt(t, u, n) ==
    InHand(t, u) /\ uploadReader[t].pc = "linked" /\ uploadReader[t].name = n

AllDead == \A t \in Terminals : bridge[t] = "dead"

\* A file is at a name when its upload is done, or about to be told so or undone; or when
\* the process died in between.
Outcome(u) ==
    /\ "done" \in told[u] => written[u] = Chunks /\ \E n \in U!Candidates : dir[n] = u
    /\ \A n \in U!Candidates : dir[n] = u =>
          \/ "done" \in told[u]
          \/ \E t \in Terminals : LinkedAt(t, u, n)
          \/ told[u] = {"ready"} /\ AllDead

Tended(u) ==
    u \in parts \ strays =>
        \E t \in Terminals : InHand(t, u) \/ (bridge[t] = "open" /\ u \in active[t])

DeadRest ==
    \A t \in Terminals : bridge[t] = "dead" => uploadReader[t] = U!Idle /\ active[t] = {}

UploadInv ==
    /\ U!TypeOK /\ OneOwner /\ DeadRest
    /\ \A t \in Terminals, u \in Uploads : Stage(t, u)
    /\ \A u \in Uploads : Outcome(u) /\ Tended(u)

LEMMA UploadIdle ==
    /\ U!Idle \notin U!Work /\ U!Idle.pc = "idle"
    /\ \A r \in U!Work : r # U!Idle /\ r.pc # "idle" /\ r.up \in Uploads
  <1>1. U!Idle.pc = "idle" /\ \A r \in U!Work : r.pc # "idle" /\ r.up \in Uploads
    BY DEF U!Idle, U!Work
  <1> QED BY <1>1

LEMMA UploadInit == U!Init => UploadInv
  <1> SUFFICES ASSUME U!Init PROVE UploadInv
    OBVIOUS
  <1>1. \A t \in Terminals : uploadReader[t] \notin U!Work /\ active[t] = {} /\ bridge[t] = "open"
    <2>1. PICK q : q = U!Idle
      OBVIOUS
    <2>2. \A t \in Terminals : uploadReader[t] = q
      BY <2>1 DEF U!Init
    <2> QED BY <2>1, <2>2, UploadIdle DEF U!Init
  <1>2. U!TypeOK
    <2>1. PICK q : q = U!Idle
      OBVIOUS
    <2>2. uploadReader \in [Terminals -> U!Work \cup {U!Idle}]
      BY <2>1 DEF U!Init
    <2>3. 0 \in 0..Chunks
      BY BoundsAssumption
    <2> QED BY <2>2, <2>3 DEF U!Init, U!TypeOK
  <1>3. \A t \in Terminals, u \in Uploads : ~Owns(t, u)
    BY <1>1 DEF Owns, InHand
  <1>4. \A n \in U!Candidates : dir[n] \notin Uploads
    BY UnsetApart DEF U!Init
  <1>5. \A u \in Uploads : told[u] = {} /\ u \notin parts
    BY DEF U!Init
  <1> QED BY <1>1, <1>2, <1>3, <1>4, <1>5
          DEF UploadInv, OneOwner, DeadRest, Stage, Outcome, Tended, Owns, InHand

\* A step of one terminal about one upload: what it has to establish is about the two.
LEMMA UploadStep ==
    ASSUME UploadInv, U!TypeOK', UNCHANGED <<bridge, strays>>,
           NEW t \in Terminals, NEW u \in Uploads,
           bridge[t] # "dead",
           \A s \in Terminals : Owns(s, u) => s = t,
           uploadReader[t] \in U!Work => uploadReader[t].up = u,
           uploadReader'[t] \in U!Work => uploadReader'[t].up = u,
           \A s \in Terminals : s # t => uploadReader'[s] = uploadReader[s] /\ active'[s] = active[s],
           active'[t] \ {u} = active[t] \ {u},
           parts' \ {u} = parts \ {u},
           \A v \in Uploads : v # u =>
              told'[v] = told[v] /\ written'[v] = written[v] /\ sender'[v] = sender[v],
           \A n \in U!Candidates : dir'[n] # dir[n] => {dir[n], dir'[n]} = {Unset, u},
           Stage(t, u)', Outcome(u)', Tended(u)'
    PROVE  UploadInv'
  <1>1. \A s \in Terminals, v \in Uploads \ {u} :
           (InHand(s, v)' <=> InHand(s, v)) /\ (v \in active'[s] <=> v \in active[s])
    <2> SUFFICES ASSUME NEW s \in Terminals, NEW v \in Uploads \ {u}
                 PROVE  (InHand(s, v)' <=> InHand(s, v)) /\ (v \in active'[s] <=> v \in active[s])
      OBVIOUS
    <2>1. CASE s = t
      BY <2>1 DEF InHand
    <2>2. CASE s # t
      BY <2>2 DEF InHand
    <2> QED BY <2>1, <2>2
  <1>2. \A s \in Terminals : s # t => ~InHand(s, u)' /\ u \notin active'[s]
    BY DEF InHand, Owns
  <1>3. \A s \in Terminals, v \in Uploads \ {u} :
           InHand(s, v)' => uploadReader'[s] = uploadReader[s]
    BY DEF InHand
  <1>4. \A n \in U!Candidates, v \in Uploads \ {u} : dir'[n] = v <=> dir[n] = v
    BY UnsetApart
  <1>5. \A v \in Uploads \ {u} : v \in parts' <=> v \in parts
    OBVIOUS
  <1>6. OneOwner'
    BY <1>1, <1>2 DEF UploadInv, OneOwner, Owns
  <1>7. DeadRest'
    BY DEF UploadInv, DeadRest
  <1>8. ASSUME NEW s \in Terminals, NEW v \in Uploads
        PROVE  Stage(s, v)'
    <2>1. CASE v = u
      BY <1>2, <2>1 DEF Stage
    <2>2. CASE v # u
      <3>1. Stage(s, v)
        BY DEF UploadInv
      <3>2. CASE InHand(s, v)'
        BY <1>1, <1>3, <1>4, <1>5, <2>2, <3>1, <3>2 DEF Stage
      <3>3. CASE ~InHand(s, v)'
        BY <1>1, <2>2, <3>1, <3>3 DEF Stage
      <3> QED BY <3>2, <3>3
    <2> QED BY <2>1, <2>2
  <1>9. ASSUME NEW v \in Uploads \ {u}
        PROVE  Outcome(v)' /\ Tended(v)'
    <2>1. Outcome(v) /\ Tended(v)
      BY DEF UploadInv
    <2>2. \A s \in Terminals, n \in U!Candidates : LinkedAt(s, v, n) => LinkedAt(s, v, n)'
      BY <1>1, <1>3 DEF LinkedAt
    <2>3. Outcome(v)'
      BY <1>4, <2>1, <2>2 DEF Outcome, AllDead
    <2>4. Tended(v)'
      BY <1>1, <1>5, <2>1 DEF Tended
    <2> QED BY <2>3, <2>4
  <1> QED BY <1>6, <1>7, <1>8, <1>9 DEF UploadInv

\* A terminal that has an upload in hand is alive and the only one.
LEMMA AtWork ==
    ASSUME UploadInv, NEW t \in Terminals, uploadReader[t].pc # "idle"
    PROVE  /\ uploadReader[t] \in U!Work /\ uploadReader[t].up \in Uploads
           /\ bridge[t] # "dead" /\ InHand(t, uploadReader[t].up)
           /\ sender[uploadReader[t].up] = t
           /\ \A s \in Terminals : Owns(s, uploadReader[t].up) => s = t
  <1>1. PICK q \in U!Work \cup {U!Idle} : q = uploadReader[t]
    BY DEF UploadInv, U!TypeOK
  <1>2. q # U!Idle
    BY <1>1, UploadIdle
  <1>3. q \in U!Work /\ q.up \in Uploads
    BY <1>2, UploadIdle
  <1>4. bridge[t] # "dead"
    BY <1>1, <1>2 DEF UploadInv, DeadRest
  <1>5. InHand(t, q.up)
    BY <1>1, <1>3 DEF InHand
  <1>6. sender[q.up] = t
    BY <1>3, <1>5 DEF UploadInv, Stage
  <1> QED BY <1>1, <1>3, <1>4, <1>5, <1>6 DEF UploadInv, OneOwner, Owns

\* A terminal that reads has nothing in hand, and what is active is its own.
LEMMA AtRest ==
    ASSUME UploadInv, NEW t \in Terminals, U!Reads(t)
    PROVE  /\ bridge[t] = "open" /\ uploadReader[t] = U!Idle /\ uploadReader[t] \notin U!Work
           /\ \A u \in active[t] :
                 u \in Uploads /\ told[u] = {"ready"} /\ \A s \in Terminals : Owns(s, u) => s = t
  <1>1. bridge[t] = "open" /\ uploadReader[t] = U!Idle /\ uploadReader[t] \notin U!Work
    BY UploadIdle DEF U!Reads
  <1>2. \A u \in active[t] : u \in Uploads
    BY DEF UploadInv, U!TypeOK
  <1> QED BY <1>1, <1>2 DEF UploadInv, OneOwner, Owns, Stage

\* The reader of a terminal goes to work.
LEMMA WorkDone ==
    ASSUME U!TypeOK, NEW t \in Terminals, NEW u \in Uploads, NEW n \in U!Candidates \cup {Unset},
           NEW pc \in {"starting", "created", "looking", "linking", "linked"},
           U!Doing(t, pc, u, n)
    PROVE  /\ uploadReader' \in [Terminals -> U!Work \cup {U!Idle}]
           /\ uploadReader'[t] \in U!Work
           /\ uploadReader'[t].pc = pc /\ uploadReader'[t].up = u /\ uploadReader'[t].name = n
           /\ \A s \in Terminals : s # t => uploadReader'[s] = uploadReader[s]
  <1>1. PICK q : q = [pc |-> pc, up |-> u, name |-> n]
    OBVIOUS
  <1>2. q \in U!Work /\ q.pc = pc /\ q.up = u /\ q.name = n
    BY <1>1 DEF U!Work
  <1>3. uploadReader' = [uploadReader EXCEPT ![t] = q]
    BY <1>1 DEF U!Doing
  <1>4. PICK W : W = U!Work \cup {U!Idle}
    OBVIOUS
  <1>5. uploadReader \in [Terminals -> W] /\ q \in W
    BY <1>2, <1>4 DEF U!TypeOK
  <1> QED BY <1>2, <1>3, <1>4, <1>5

\* It goes back to reading.
LEMMA WorkOver ==
    ASSUME U!TypeOK, NEW t \in Terminals, U!Rests(t)
    PROVE  /\ uploadReader' \in [Terminals -> U!Work \cup {U!Idle}]
           /\ uploadReader'[t] \notin U!Work
           /\ \A s \in Terminals : s # t => uploadReader'[s] = uploadReader[s]
  <1>1. PICK q : q = U!Idle
    OBVIOUS
  <1>2. q \notin U!Work
    BY <1>1, UploadIdle
  <1>3. uploadReader' = [uploadReader EXCEPT ![t] = q]
    BY <1>1 DEF U!Rests
  <1>4. PICK W : W = U!Work \cup {U!Idle}
    OBVIOUS
  <1>5. uploadReader \in [Terminals -> W] /\ q \in W
    BY <1>1, <1>4 DEF U!TypeOK
  <1> QED BY <1>2, <1>3, <1>4, <1>5

\* An upload that is undone leaves nothing behind, and the reader nothing in hand; one that
\* is done stays as it was.
LEMMA AbortInv ==
    ASSUME UploadInv, NEW t \in Terminals, NEW u \in Uploads,
           bridge[t] # "dead",
           \A s \in Terminals : Owns(s, u) => s = t,
           uploadReader[t] \in U!Work => uploadReader[t].up = u,
           UNCHANGED uploadReader \/ U!Rests(t),
           uploadReader'[t] \notin U!Work,
           U!Abort(t, u),
           UNCHANGED <<bridge, written, sender, strays>>,
           dir' \in [U!Candidates -> Uploads \cup {Other, Unset}],
           \A n \in U!Candidates : dir'[n] # dir[n] => dir[n] = u /\ dir'[n] = Unset,
           IF "done" \in told[u] THEN dir' = dir ELSE \A n \in U!Candidates : dir'[n] # u,
           u \in active[t] \/ u \notin parts \/ u \in strays
    PROVE  UploadInv'
  <1>1. U!TypeOK /\ active \in [Terminals -> SUBSET Uploads]
    BY DEF UploadInv, U!TypeOK
  <1>2. /\ uploadReader' \in [Terminals -> U!Work \cup {U!Idle}]
        /\ \A s \in Terminals : s # t => uploadReader'[s] = uploadReader[s]
    BY <1>1, WorkOver DEF U!TypeOK
  <1>3. /\ active' = [active EXCEPT ![t] = active[t] \ {u}]
        /\ told' = [told EXCEPT ![u] = told[u] \cup {"error"}]
        /\ parts' \subseteq parts /\ parts' \ {u} = parts \ {u}
        /\ u \in active[t] => u \notin parts'
    BY DEF U!Abort, U!Tell
  <1>4. /\ active' \in [Terminals -> SUBSET Uploads]
        /\ active'[t] = active[t] \ {u}
        /\ \A s \in Terminals : s # t => active'[s] = active[s]
    BY <1>1, <1>3
  <1>5. U!TypeOK'
    BY <1>1, <1>2, <1>3, <1>4 DEF U!TypeOK
  <1>6. \A v \in Uploads : told'[v] = IF v = u THEN told[u] \cup {"error"} ELSE told[v]
    BY <1>1, <1>3 DEF U!TypeOK
  <1>7. u \notin active'[t] /\ ~InHand(t, u)'
    BY <1>4 DEF InHand
  <1>8. Stage(t, u)'
    BY <1>7 DEF Stage
  <1>9. Outcome(u)'
    <2>1. Outcome(u)
      BY DEF UploadInv
    <2>2. "done" \in told'[u] <=> "done" \in told[u]
      BY <1>6
    <2> QED BY <2>1, <2>2 DEF Outcome
  <1>10. Tended(u)'
    BY <1>3 DEF Tended
  <1>11. active'[t] \ {u} = active[t] \ {u}
    BY <1>4
  <1>12. \A n \in U!Candidates : dir'[n] # dir[n] => {dir[n], dir'[n]} = {Unset, u}
    OBVIOUS
  <1> QED BY <1>2, <1>3, <1>4, <1>5, <1>6, <1>8, <1>9, <1>10, <1>11, <1>12, UploadStep

LEMMA StartInv ==
    ASSUME UploadInv, NEW t \in Terminals, NEW u \in Uploads, U!Start(t, u)
    PROVE  UploadInv'
  <1>1. /\ U!Reads(t) /\ told[u] = {} /\ UNCHANGED <<bridge, active, written, parts, dir, strays>>
        /\ sender' = [sender EXCEPT ![u] = t]
    BY DEF U!Start, U!Fresh
  <1>2. U!TypeOK /\ bridge[t] = "open" /\ uploadReader[t] \notin U!Work
    BY <1>1, AtRest DEF UploadInv
  <1>8. /\ sender' \in [Uploads -> Terminals \cup {Unset}]
        /\ \A v \in Uploads : sender'[v] = IF v = u THEN t ELSE sender[v]
    BY <1>1, <1>2 DEF U!TypeOK
  <1>3. \A s \in Terminals : ~Owns(s, u)
    <2> SUFFICES ASSUME NEW s \in Terminals, Owns(s, u) PROVE FALSE
      OBVIOUS
    <2>1. u \notin active[s]
      BY <1>1 DEF UploadInv, Stage
    <2>2. uploadReader[s] # U!Idle /\ uploadReader[s].up = u
      BY <2>1, UploadIdle DEF Owns, InHand
    <2> QED BY <2>2 DEF U!Start, U!Fresh
  <1>4. \A n \in U!Candidates : dir[n] # u
    <2>1. Outcome(u) /\ told[u] = {}
      BY <1>1 DEF UploadInv
    <2> QED BY <1>3, <2>1 DEF Outcome, LinkedAt, Owns
  <1>5. u \notin parts \ strays
    BY <1>3 DEF UploadInv, Tended, Owns
  <1>6. CASE U!FreeNames = {}
    <2>1. told' = [told EXCEPT ![u] = told[u] \cup {"error"}] /\ UNCHANGED uploadReader
      BY <1>6 DEF U!Start, U!Tell
    <2>2. U!TypeOK'
      BY <1>1, <1>2, <1>8, <2>1 DEF U!TypeOK
    <2>3. \A v \in Uploads : told'[v] = IF v = u THEN told[u] \cup {"error"} ELSE told[v]
      BY <1>2, <2>1 DEF U!TypeOK
    <2>4. u \notin active'[t] /\ ~InHand(t, u)'
      BY <1>1, <1>3, <2>1 DEF Owns, InHand
    <2>5. Stage(t, u)' /\ Outcome(u)' /\ Tended(u)'
      BY <1>1, <1>4, <1>5, <2>3, <2>4 DEF Stage, Outcome, Tended, Owns
    <2> QED BY <1>1, <1>2, <1>3, <1>8, <2>1, <2>2, <2>3, <2>5, UploadStep
  <1>7. CASE U!FreeNames # {}
    <2>1. U!Doing(t, "starting", u, Unset) /\ told' = told
      BY <1>7 DEF U!Start
    <2>2. /\ uploadReader' \in [Terminals -> U!Work \cup {U!Idle}]
          /\ uploadReader'[t].pc = "starting" /\ uploadReader'[t].up = u
          /\ \A s \in Terminals : s # t => uploadReader'[s] = uploadReader[s]
      BY <1>2, <2>1, WorkDone
    <2>3. U!TypeOK'
      BY <1>1, <1>2, <1>8, <2>1, <2>2 DEF U!TypeOK
    <2>4. Stage(t, u)' /\ Outcome(u)' /\ Tended(u)'
      BY <1>1, <1>2, <1>3, <1>4, <1>5, <1>8, <2>1, <2>2 DEF Stage, Outcome, Tended, Owns
    <2> QED BY <1>1, <1>2, <1>3, <1>8, <2>1, <2>2, <2>3, <2>4, UploadStep
  <1> QED BY <1>6, <1>7

\* The name that is looked for is free, and one of the names.
LEMMA FirstIsFree ==
    ASSUME U!FreeNames # {}
    PROVE  U!FirstFree \in U!FreeNames /\ U!FirstFree \in U!Candidates
  <1>1. PICK F : F = U!FreeNames
    OBVIOUS
  <1>2. F \subseteq Nat /\ F # {} /\ F \subseteq U!Candidates
    BY <1>1, BoundsAssumption DEF U!FreeNames, U!Candidates
  <1>3. PICK x \in F : \A y \in F : ~ (<<y, x>> \in OpToRel(<, Nat))
    BY <1>2, WFMin, NatLessThanWellFounded, Zenon
  <1>4. \A y \in F : ~ (y < x)
    BY <1>2, <1>3, Zenon DEF OpToRel
  <1>5. \A y \in F : x <= y
    BY <1>2, <1>4
  <1>6. PICK z : z = U!FirstFree
    OBVIOUS
  <1>7. z = CHOOSE n \in F : \A o \in F : n <= o
    BY <1>1, <1>6 DEF U!FirstFree
  <1>8. z \in F
    BY <1>3, <1>5, <1>7
  <1> QED BY <1>1, <1>2, <1>6, <1>8

LEMMA CreateTempInv ==
    ASSUME UploadInv, NEW t \in Terminals, U!CreateTemp(t)
    PROVE  UploadInv'
  <1>1. PICK u : u = uploadReader[t].up
    OBVIOUS
  <1>2. uploadReader[t].pc = "starting" /\ UNCHANGED <<bridge, active, written, dir, sender, strays>>
    BY DEF U!CreateTemp, U!At
  <1>3. /\ uploadReader[t] \in U!Work /\ u \in Uploads /\ bridge[t] # "dead" /\ InHand(t, u)
        /\ sender[u] = t
        /\ \A s \in Terminals : Owns(s, u) => s = t
    BY <1>1, <1>2, AtWork
  <1>4. Stage(t, u) /\ Outcome(u) /\ U!TypeOK
    BY <1>3 DEF UploadInv
  <1>5. told[u] = {} /\ (bridge[t] = "open" \/ u \in strays) /\ u \notin active[t]
    BY <1>2, <1>3, <1>4 DEF Stage
  <1>6. \A n \in U!Candidates : dir[n] # u
    <2> SUFFICES ASSUME NEW n \in U!Candidates, dir[n] = u PROVE FALSE
      OBVIOUS
    <2>1. PICK s \in Terminals : LinkedAt(s, u, n)
      BY <1>4, <1>5 DEF Outcome
    <2>2. s = t
      BY <1>3, <2>1 DEF LinkedAt, Owns
    <2> QED BY <1>2, <2>1, <2>2 DEF LinkedAt
  <1>7. CASE U!Rests(t) /\ U!Tell(u, "error") /\ UNCHANGED parts
    <2>1. told' = [told EXCEPT ![u] = told[u] \cup {"error"}]
      BY <1>7 DEF U!Tell
    <2>2. /\ uploadReader' \in [Terminals -> U!Work \cup {U!Idle}]
          /\ uploadReader'[t] \notin U!Work
          /\ \A s \in Terminals : s # t => uploadReader'[s] = uploadReader[s]
      BY <1>4, <1>7, WorkOver
    <2>3. U!TypeOK'
      BY <1>2, <1>4, <1>7, <2>1, <2>2 DEF U!TypeOK
    <2>4. \A v \in Uploads : told'[v] = IF v = u THEN told[u] \cup {"error"} ELSE told[v]
      BY <1>4, <2>1 DEF U!TypeOK
    <2>5. \A s \in Terminals : ~Owns(s, u)'
      BY <1>2, <1>3, <1>5, <2>2 DEF Owns, InHand
    <2>9. told'[u] = {"error"}
      BY <1>3, <1>5, <2>4
    <2>6. parts' = parts /\ u \notin parts \ strays
      BY <1>2, <1>3, <1>4, <1>7 DEF Stage
    <2>7. Stage(t, u)'
      <3>1. ~InHand(t, u)' /\ u \notin active'[t]
        BY <2>5 DEF Owns
      <3> QED BY <3>1 DEF Stage
    <2>8. Outcome(u)' /\ Tended(u)'
      BY <1>2, <1>3, <1>6, <2>6, <2>9 DEF Outcome, Tended
    <2> QED BY <1>1, <1>2, <1>3, <2>2, <2>3, <2>4, <2>6, <2>7, <2>8, UploadStep
  <1>8. CASE U!Doing(t, "created", u, Unset) /\ parts' = parts \cup {u} /\ UNCHANGED told
    <2>1. /\ uploadReader' \in [Terminals -> U!Work \cup {U!Idle}]
          /\ uploadReader'[t] \in U!Work
          /\ uploadReader'[t].pc = "created" /\ uploadReader'[t].up = u
          /\ \A s \in Terminals : s # t => uploadReader'[s] = uploadReader[s]
      BY <1>3, <1>4, <1>8, WorkDone
    <2>2. U!TypeOK'
      BY <1>2, <1>3, <1>4, <1>8, <2>1 DEF U!TypeOK
    <2>3. InHand(t, u)'
      BY <2>1 DEF InHand
    <2>4. Stage(t, u)' /\ Outcome(u)' /\ Tended(u)'
      BY <1>2, <1>3, <1>5, <1>6, <1>8, <2>1, <2>3 DEF Stage, Outcome, Tended
    <2> QED BY <1>1, <1>2, <1>3, <1>8, <2>1, <2>2, <2>4, UploadStep
  <1> QED BY <1>1, <1>7, <1>8 DEF U!CreateTemp

LEMMA RegisterInv ==
    ASSUME UploadInv, NEW t \in Terminals, U!Register(t)
    PROVE  UploadInv'
  <1>1. PICK u : u = uploadReader[t].up
    OBVIOUS
  <1>2. /\ uploadReader[t].pc = "created" /\ UNCHANGED <<bridge, written, parts, dir, sender, strays>>
        /\ U!Rests(t)
    BY DEF U!Register, U!At
  <1>3. /\ uploadReader[t] \in U!Work /\ u \in Uploads /\ bridge[t] # "dead" /\ InHand(t, u)
        /\ sender[u] = t
        /\ \A s \in Terminals : Owns(s, u) => s = t
    BY <1>1, <1>2, AtWork
  <1>4. Stage(t, u) /\ Outcome(u) /\ Tended(u) /\ U!TypeOK
    BY <1>3 DEF UploadInv
  <1>5. told[u] = {} /\ (bridge[t] = "open" \/ u \in strays) /\ u \notin active[t]
    BY <1>2, <1>3, <1>4 DEF Stage
  <1>6. \A n \in U!Candidates : dir[n] # u
    <2> SUFFICES ASSUME NEW n \in U!Candidates, dir[n] = u PROVE FALSE
      OBVIOUS
    <2>1. PICK s \in Terminals : LinkedAt(s, u, n)
      BY <1>4, <1>5 DEF Outcome
    <2>2. s = t
      BY <1>3, <2>1 DEF LinkedAt, Owns
    <2> QED BY <1>2, <2>1, <2>2 DEF LinkedAt
  <1>7. active' = [active EXCEPT ![t] = active[t] \cup {u}] /\ told' = [told EXCEPT ![u] = told[u] \cup {"ready"}]
    BY <1>1 DEF U!Register, U!Tell
  <1>8. /\ uploadReader' \in [Terminals -> U!Work \cup {U!Idle}]
        /\ uploadReader'[t] \notin U!Work
        /\ \A s \in Terminals : s # t => uploadReader'[s] = uploadReader[s]
    BY <1>2, <1>4, WorkOver
  <1>9. U!TypeOK'
    BY <1>2, <1>3, <1>4, <1>7, <1>8 DEF U!TypeOK
  <1>10. \A v \in Uploads : told'[v] = IF v = u THEN told[u] \cup {"ready"} ELSE told[v]
    BY <1>4, <1>7 DEF U!TypeOK
  <1>11. \A s \in Terminals : active'[s] = IF s = t THEN active[s] \cup {u} ELSE active[s]
    BY <1>4, <1>7 DEF U!TypeOK
  <1>14. told'[u] = {"ready"}
    BY <1>3, <1>5, <1>10
  <1>12. Stage(t, u)' /\ Outcome(u)'
    BY <1>2, <1>3, <1>6, <1>8, <1>14 DEF Stage, Outcome, InHand
  <1>13. Tended(u)'
    BY <1>2, <1>5, <1>11 DEF Tended
  <1> QED BY <1>1, <1>2, <1>3, <1>8, <1>9, <1>10, <1>11, <1>12, <1>13, UploadStep

\* A message about an upload: it is aborted, or grows, or goes in hand; or it is not active
\* any more, and an error is told.
LEMMA MessageInv ==
    ASSUME UploadInv, NEW t \in Terminals, NEW u \in Uploads,
           U!HandleChunk(t, u) \/ U!Cancel(t, u) \/ U!Finish(t, u)
    PROVE  UploadInv'
  <1>1. U!Reads(t) /\ sender[u] = t /\ UNCHANGED <<bridge, dir, sender, strays>>
    BY DEF U!HandleChunk, U!Cancel, U!Finish, U!Hears
  <1>2. Outcome(u) /\ Tended(u) /\ U!TypeOK /\ \A s \in Terminals : Stage(s, u)
    BY DEF UploadInv
  <1>3. /\ bridge[t] = "open" /\ uploadReader[t] \notin U!Work
        /\ \A s \in Terminals : Owns(s, u) => s = t
    BY <1>1, <1>2, AtRest DEF Stage, Owns
  <1>4. "done" \in told[u] \/ \A n \in U!Candidates : dir[n] # u
    <2> SUFFICES ASSUME NEW n \in U!Candidates, dir[n] = u, "done" \notin told[u] PROVE FALSE
      OBVIOUS
    <2>1. ~AllDead
      BY <1>3 DEF AllDead
    <2>2. PICK s \in Terminals : LinkedAt(s, u, n)
      BY <1>2, <2>1 DEF Outcome
    <2>3. s = t
      BY <1>3, <2>2 DEF LinkedAt, Owns
    <2> QED BY <1>3, <2>2, <2>3 DEF LinkedAt, InHand
  <1>5. u \in active[t] => told[u] = {"ready"} /\ \A n \in U!Candidates : dir[n] # u
    BY <1>2, <1>4 DEF Stage
  <1>6. CASE U!Abort(t, u) /\ UNCHANGED <<uploadReader, written>>
    <2>1. dir' \in [U!Candidates -> Uploads \cup {Other, Unset}]
      BY <1>1, <1>2 DEF U!TypeOK
    <2>2. u \in active[t] \/ u \notin parts \/ u \in strays
      BY <1>2, <1>3 DEF Tended, Owns, InHand
    <2> QED BY <1>1, <1>3, <1>4, <1>6, <2>1, <2>2, AbortInv
  <1>7. CASE /\ u \in active[t] /\ written[u] < Chunks
             /\ written' = [written EXCEPT ![u] = @ + 1]
             /\ UNCHANGED <<active, parts, told, uploadReader>>
    <2>1. written[u] + 1 \in 0..Chunks
      <3>1. written[u] \in 0..Chunks /\ Chunks \in Nat
        BY <1>2, BoundsAssumption DEF U!TypeOK
      <3> QED BY <1>7, <3>1
    <2>2. U!TypeOK'
      BY <1>1, <1>2, <1>7, <2>1 DEF U!TypeOK
    <2>3. \A v \in Uploads : v # u => written'[v] = written[v]
      BY <1>2, <1>7 DEF U!TypeOK
    <2>4. ~InHand(t, u)'
      BY <1>3, <1>7 DEF InHand
    <2>5. Stage(t, u)' /\ Outcome(u)' /\ Tended(u)'
      BY <1>1, <1>3, <1>5, <1>7, <2>4 DEF Stage, Outcome, Tended
    <2> QED BY <1>1, <1>3, <1>7, <2>2, <2>3, <2>5, UploadStep
  <1>8. CASE /\ u \in active[t] /\ written[u] = Chunks
             /\ U!Doing(t, "looking", u, Unset) /\ UNCHANGED <<active, parts, told, written>>
    <2>1. /\ uploadReader' \in [Terminals -> U!Work \cup {U!Idle}]
          /\ uploadReader'[t] \in U!Work
          /\ uploadReader'[t].pc = "looking" /\ uploadReader'[t].up = u
          /\ \A s \in Terminals : s # t => uploadReader'[s] = uploadReader[s]
      BY <1>2, <1>8, WorkDone
    <2>2. U!TypeOK'
      BY <1>1, <1>2, <1>8, <2>1 DEF U!TypeOK
    <2>3. Stage(t, u)' /\ Outcome(u)' /\ Tended(u)'
      BY <1>1, <1>3, <1>5, <1>8, <2>1 DEF Stage, Outcome, Tended
    <2> QED BY <1>1, <1>3, <1>8, <2>1, <2>2, <2>3, UploadStep
  <1> QED BY <1>6, <1>7, <1>8 DEF U!HandleChunk, U!Cancel, U!Finish

\* What is known while a name is looked for, linked and made good.
LEMMA AtPublishing ==
    ASSUME UploadInv, NEW t \in Terminals,
           uploadReader[t].pc \in {"looking", "linking", "linked"}
    PROVE  LET u == uploadReader[t].up IN
              /\ uploadReader[t] \in U!Work /\ u \in Uploads /\ InHand(t, u)
              /\ bridge[t] # "dead" /\ sender[u] = t
              /\ \A s \in Terminals : Owns(s, u) => s = t
              /\ told[u] = {"ready"} /\ written[u] = Chunks /\ (u \in active[t] \/ u \notin parts)
              /\ \A n \in U!Candidates :
                    dir[n] = u => uploadReader[t].pc = "linked" /\ n = uploadReader[t].name
  <1>1. PICK u : u = uploadReader[t].up
    OBVIOUS
  <1>2. /\ uploadReader[t] \in U!Work /\ u \in Uploads /\ bridge[t] # "dead" /\ InHand(t, u)
        /\ sender[u] = t
        /\ \A s \in Terminals : Owns(s, u) => s = t
    BY <1>1, AtWork
  <1>3. Stage(t, u) /\ Outcome(u)
    BY <1>2 DEF UploadInv
  <1>4. told[u] = {"ready"} /\ written[u] = Chunks /\ (u \in active[t] \/ u \notin parts)
    BY <1>2, <1>3 DEF Stage
  <1>5. ASSUME NEW n \in U!Candidates, dir[n] = u
        PROVE  uploadReader[t].pc = "linked" /\ n = uploadReader[t].name
    <2>1. ~AllDead
      BY <1>2 DEF AllDead
    <2>2. PICK s \in Terminals : LinkedAt(s, u, n)
      BY <1>3, <1>4, <1>5, <2>1 DEF Outcome
    <2>3. s = t
      BY <1>2, <2>2 DEF LinkedAt, Owns
    <2> QED BY <2>2, <2>3 DEF LinkedAt
  <1> QED BY <1>1, <1>2, <1>4, <1>5

LEMMA LookInv ==
    ASSUME UploadInv, NEW t \in Terminals, U!Look(t)
    PROVE  UploadInv'
  <1>1. PICK u : u = uploadReader[t].up
    OBVIOUS
  <1>2. uploadReader[t].pc = "looking" /\ UNCHANGED <<bridge, written, dir, sender, strays>>
    BY DEF U!Look, U!At
  <1>3. /\ uploadReader[t] \in U!Work /\ u \in Uploads /\ InHand(t, u)
        /\ bridge[t] # "dead" /\ sender[u] = t
        /\ \A s \in Terminals : Owns(s, u) => s = t
        /\ told[u] = {"ready"} /\ written[u] = Chunks /\ (u \in active[t] \/ u \notin parts)
        /\ \A n \in U!Candidates : dir[n] # u
    BY <1>1, <1>2, AtPublishing
  <1>4. U!TypeOK
    BY DEF UploadInv
  <1>5. CASE U!Rests(t) /\ U!Abort(t, u)
    <2>1. uploadReader'[t] \notin U!Work
      BY <1>4, <1>5, WorkOver
    <2>2. dir' \in [U!Candidates -> Uploads \cup {Other, Unset}]
      BY <1>2, <1>4 DEF U!TypeOK
    <2> QED BY <1>1, <1>2, <1>3, <1>5, <2>1, <2>2, AbortInv
  <1>6. CASE /\ U!FreeNames # {} /\ U!Doing(t, "linking", u, U!FirstFree)
             /\ UNCHANGED <<active, parts, told>>
    <2>1. PICK n : n = U!FirstFree
      OBVIOUS
    <2>2. n \in U!Candidates
      BY <1>6, <2>1, FirstIsFree
    <2>3. U!Doing(t, "linking", u, n) /\ UNCHANGED <<active, parts, told>>
      BY <1>6, <2>1
    <2>4. /\ uploadReader' \in [Terminals -> U!Work \cup {U!Idle}]
          /\ uploadReader'[t] \in U!Work
          /\ uploadReader'[t].pc = "linking" /\ uploadReader'[t].up = u
          /\ uploadReader'[t].name = n
          /\ \A s \in Terminals : s # t => uploadReader'[s] = uploadReader[s]
      BY <1>3, <1>4, <2>2, <2>3, WorkDone
    <2>5. U!TypeOK'
      BY <1>2, <1>4, <2>3, <2>4 DEF U!TypeOK
    <2>6. InHand(t, u)'
      BY <2>4 DEF InHand
    <2>7. Stage(t, u)'
      BY <1>2, <1>3, <2>2, <2>3, <2>4 DEF Stage
    <2>8. Outcome(u)' /\ Tended(u)'
      BY <1>2, <1>3, <2>3, <2>6 DEF Outcome, Tended
    <2> QED BY <1>1, <1>2, <1>3, <2>3, <2>4, <2>5, <2>7, <2>8, UploadStep
  <1> QED BY <1>1, <1>5, <1>6 DEF U!Look

LEMMA LinkInv ==
    ASSUME UploadInv, NEW t \in Terminals, U!Link(t)
    PROVE  UploadInv'
  <1>1. PICK u : u = uploadReader[t].up
    OBVIOUS
  <1>2. uploadReader[t].pc = "linking" /\ UNCHANGED <<bridge, written, sender, strays>>
    BY DEF U!Link, U!At
  <1>3. /\ uploadReader[t] \in U!Work /\ u \in Uploads /\ InHand(t, u)
        /\ bridge[t] # "dead" /\ sender[u] = t
        /\ \A s \in Terminals : Owns(s, u) => s = t
        /\ told[u] = {"ready"} /\ written[u] = Chunks /\ (u \in active[t] \/ u \notin parts)
        /\ \A n \in U!Candidates : dir[n] # u
    BY <1>1, <1>2, AtPublishing
  <1>4. U!TypeOK
    BY DEF UploadInv
  <1>5. PICK n : n = uploadReader[t].name
    OBVIOUS
  <1>6. n \in U!Candidates
    BY <1>2, <1>3, <1>5 DEF UploadInv, Stage
  <1>7. CASE U!Rests(t) /\ U!Abort(t, u) /\ UNCHANGED dir
    <2>1. uploadReader'[t] \notin U!Work
      BY <1>4, <1>7, WorkOver
    <2>2. dir' \in [U!Candidates -> Uploads \cup {Other, Unset}]
      BY <1>4, <1>7 DEF U!TypeOK
    <2> QED BY <1>1, <1>2, <1>3, <1>7, <2>1, <2>2, AbortInv
  <1>8. CASE /\ u \in parts /\ dir[n] # Unset
             /\ U!Doing(t, "looking", u, Unset)
             /\ UNCHANGED <<dir, active, parts, told>>
    <2>1. /\ uploadReader' \in [Terminals -> U!Work \cup {U!Idle}]
          /\ uploadReader'[t] \in U!Work
          /\ uploadReader'[t].pc = "looking" /\ uploadReader'[t].up = u
          /\ \A s \in Terminals : s # t => uploadReader'[s] = uploadReader[s]
      BY <1>3, <1>4, <1>8, WorkDone
    <2>2. U!TypeOK'
      BY <1>2, <1>4, <1>8, <2>1 DEF U!TypeOK
    <2>3. InHand(t, u)'
      BY <2>1 DEF InHand
    <2>4. Stage(t, u)'
      BY <1>2, <1>3, <1>8, <2>1 DEF Stage
    <2>5. Outcome(u)' /\ Tended(u)'
      BY <1>2, <1>3, <1>8, <2>3 DEF Outcome, Tended
    <2> QED BY <1>1, <1>2, <1>3, <1>8, <2>1, <2>2, <2>4, <2>5, UploadStep
  <1>9. CASE /\ u \in parts /\ dir[n] = Unset
             /\ dir' = [dir EXCEPT ![n] = u]
             /\ U!Doing(t, "linked", u, n)
             /\ UNCHANGED <<active, parts, told>>
    <2>1. /\ uploadReader' \in [Terminals -> U!Work \cup {U!Idle}]
          /\ uploadReader'[t] \in U!Work
          /\ uploadReader'[t].pc = "linked" /\ uploadReader'[t].up = u
          /\ uploadReader'[t].name = n
          /\ \A s \in Terminals : s # t => uploadReader'[s] = uploadReader[s]
      BY <1>3, <1>4, <1>6, <1>9, WorkDone
    <2>2. U!TypeOK'
      BY <1>2, <1>3, <1>4, <1>9, <2>1 DEF U!TypeOK
    <2>3. InHand(t, u)'
      BY <2>1 DEF InHand
    <2>4. \A m \in U!Candidates : dir'[m] = IF m = n THEN u ELSE dir[m]
      BY <1>4, <1>9 DEF U!TypeOK
    <2>5. Stage(t, u)'
      BY <1>2, <1>3, <1>6, <1>9, <2>1, <2>4 DEF Stage
    <2>6. LinkedAt(t, u, n)'
      BY <2>1, <2>3 DEF LinkedAt
    <2>7. Outcome(u)' /\ Tended(u)'
      BY <1>2, <1>3, <1>9, <2>3, <2>4, <2>6 DEF Outcome, Tended
    <2>8. \A m \in U!Candidates : dir'[m] # dir[m] => {dir[m], dir'[m]} = {Unset, u}
      BY <1>9, <2>4
    <2> QED BY <1>1, <1>2, <1>3, <1>9, <2>1, <2>2, <2>5, <2>7, <2>8, UploadStep
  <1> QED BY <1>1, <1>5, <1>7, <1>8, <1>9 DEF U!Link

LEMMA RemoveTempInv ==
    ASSUME UploadInv, NEW t \in Terminals, U!RemoveTemp(t)
    PROVE  UploadInv'
  <1>1. PICK u : u = uploadReader[t].up
    OBVIOUS
  <1>2. /\ uploadReader[t].pc = "linked" /\ UNCHANGED <<bridge, written, sender, strays>>
        /\ U!Rests(t)
    BY DEF U!RemoveTemp, U!At
  <1>3. PICK n : n = uploadReader[t].name
    OBVIOUS
  <1>4. /\ uploadReader[t] \in U!Work /\ u \in Uploads /\ InHand(t, u)
        /\ bridge[t] # "dead" /\ sender[u] = t
        /\ \A s \in Terminals : Owns(s, u) => s = t
        /\ told[u] = {"ready"} /\ written[u] = Chunks /\ (u \in active[t] \/ u \notin parts)
        /\ \A m \in U!Candidates : dir[m] = u => m = n
    BY <1>1, <1>2, <1>3, AtPublishing
  <1>5. U!TypeOK
    BY DEF UploadInv
  <1>6. n \in U!Candidates /\ dir[n] = u
    BY <1>2, <1>3, <1>4 DEF UploadInv, Stage
  <1>7. /\ uploadReader' \in [Terminals -> U!Work \cup {U!Idle}]
        /\ uploadReader'[t] \notin U!Work
        /\ \A s \in Terminals : s # t => uploadReader'[s] = uploadReader[s]
    BY <1>2, <1>5, WorkOver
  <1>8. CASE u \in parts
    <2>1. /\ parts' = parts \ {u}
          /\ active' = [active EXCEPT ![t] = active[t] \ {u}]
          /\ told' = [told EXCEPT ![u] = told[u] \cup {"done"}]
          /\ dir' = dir
      BY <1>1, <1>8 DEF U!RemoveTemp, U!Tell
    <2>2. U!TypeOK'
      BY <1>2, <1>5, <1>7, <2>1 DEF U!TypeOK
    <2>3. \A v \in Uploads : told'[v] = IF v = u THEN told[u] \cup {"done"} ELSE told[v]
      BY <1>5, <2>1 DEF U!TypeOK
    <2>4. \A s \in Terminals : active'[s] = IF s = t THEN active[s] \ {u} ELSE active[s]
      BY <1>5, <2>1 DEF U!TypeOK
    <2>5. Stage(t, u)'
      BY <1>7, <2>4 DEF Stage, InHand
    <2>6. Outcome(u)' /\ Tended(u)'
      BY <1>2, <1>4, <1>6, <2>1, <2>3 DEF Outcome, Tended
    <2> QED BY <1>1, <1>2, <1>4, <1>7, <2>1, <2>2, <2>3, <2>4, <2>5, <2>6, UploadStep
  <1>9. CASE u \notin parts
    <2>1. dir' = [dir EXCEPT ![n] = Unset] /\ U!Abort(t, u)
      BY <1>1, <1>3, <1>9 DEF U!RemoveTemp
    <2>2. \A m \in U!Candidates : dir'[m] = IF m = n THEN Unset ELSE dir[m]
      BY <1>5, <2>1 DEF U!TypeOK
    <2>3. dir' \in [U!Candidates -> Uploads \cup {Other, Unset}]
      BY <1>5, <2>1 DEF U!TypeOK
    <2>4. \A m \in U!Candidates : dir'[m] # u /\ (dir'[m] # dir[m] => dir[m] = u /\ dir'[m] = Unset)
      BY <1>4, <1>6, <2>2, UnsetApart
    <2> QED BY <1>1, <1>2, <1>4, <1>7, <1>9, <2>1, <2>3, <2>4, AbortInv
  <1> QED BY <1>8, <1>9

LEMMA EndInv ==
    ASSUME UploadInv, NEW t \in Terminals, U!End(t)
    PROVE  UploadInv'
  <1>1. /\ bridge[t] = "open" /\ bridge' = [bridge EXCEPT ![t] = "ended"]
        /\ active' = [active EXCEPT ![t] = {}]
        /\ parts' = parts \ active[t]
        /\ UNCHANGED <<uploadReader, written, dir, told, sender>>
    BY DEF U!End
  <1>2. PICK lost : lost = {u \in Uploads : /\ uploadReader[t] # U!Idle /\ uploadReader[t].up = u
                                           /\ u \notin active[t]}
    OBVIOUS
  <1>3. strays' = strays \cup lost
    BY <1>2 DEF U!End
  <1>4. U!TypeOK
    BY DEF UploadInv
  <1>5. U!TypeOK'
    BY <1>1, <1>2, <1>3, <1>4 DEF U!TypeOK
  <1>6. \A s \in Terminals : /\ bridge'[s] = IF s = t THEN "ended" ELSE bridge[s]
                             /\ active'[s] = IF s = t THEN {} ELSE active[s]
    BY <1>1, <1>4 DEF U!TypeOK
  <1>7. \A s \in Terminals, u \in Uploads : InHand(s, u)' <=> InHand(s, u)
    BY <1>1 DEF InHand
  <1>8. OneOwner'
    BY <1>6, <1>7 DEF UploadInv, OneOwner, Owns
  <1>9. DeadRest'
    BY <1>1, <1>6 DEF UploadInv, DeadRest
  <1>10. ASSUME NEW s \in Terminals, NEW u \in Uploads
         PROVE  Stage(s, u)'
    <2>1. Stage(s, u)
      BY DEF UploadInv
    <2>2. CASE s # t
      BY <1>1, <1>3, <1>6, <1>7, <2>1, <2>2 DEF Stage
    <2>3. CASE s = t
      <3>1. InHand(t, u) => u \in active[t] \/ u \in strays'
        BY <1>2, <1>3, UploadIdle DEF InHand
      <3>2. InHand(t, u) /\ uploadReader[t].pc \in {"starting", "created"} => u \in strays'
        BY <2>1, <2>3, <3>1 DEF Stage
      <3> QED BY <1>1, <1>3, <1>6, <1>7, <2>1, <2>3, <3>2 DEF Stage
    <2> QED BY <2>2, <2>3
  <1>11. ASSUME NEW u \in Uploads
         PROVE  Outcome(u)' /\ Tended(u)'
    <2>1. Outcome(u) /\ Tended(u) /\ ~AllDead
      BY <1>1 DEF UploadInv, AllDead
    <2>2. \A s \in Terminals, n \in U!Candidates : LinkedAt(s, u, n)' <=> LinkedAt(s, u, n)
      BY <1>1, <1>7 DEF LinkedAt
    <2>3. Outcome(u)'
      BY <1>1, <2>1, <2>2 DEF Outcome
    <2>4. Tended(u)'
      BY <1>1, <1>3, <1>6, <1>7, <2>1 DEF Tended
    <2> QED BY <2>3, <2>4
  <1> QED BY <1>5, <1>8, <1>9, <1>10, <1>11 DEF UploadInv

LEMMA DieInv == UploadInv /\ U!Die => UploadInv'
  <1> SUFFICES ASSUME UploadInv, U!Die PROVE UploadInv'
    OBVIOUS
  <1>1. PICK q : q = U!Idle
    OBVIOUS
  <1>2. /\ bridge' = [t \in Terminals |-> "dead"]
        /\ uploadReader' = [t \in Terminals |-> q]
        /\ active' = [t \in Terminals |-> {}]
        /\ strays' = strays \cup parts
        /\ UNCHANGED <<written, parts, dir, told, sender>>
    BY <1>1 DEF U!Die
  <1>3. q \notin U!Work
    BY <1>1, UploadIdle
  <1>4. U!TypeOK'
    BY <1>1, <1>2 DEF UploadInv, U!TypeOK
  <1>5. \A t \in Terminals, u \in Uploads : u \notin active'[t] /\ ~InHand(t, u)'
    BY <1>2, <1>3 DEF InHand
  <1>6. OneOwner' /\ DeadRest' /\ AllDead'
    BY <1>1, <1>2, <1>5 DEF OneOwner, Owns, DeadRest, AllDead
  <1>7. \A t \in Terminals, u \in Uploads : Stage(t, u)'
    BY <1>5 DEF Stage
  <1>8. ASSUME NEW u \in Uploads
        PROVE  Outcome(u)' /\ Tended(u)'
    <2>1. Outcome(u) /\ \A t \in Terminals : Stage(t, u)
      BY DEF UploadInv
    <2>2. \A t \in Terminals, n \in U!Candidates : LinkedAt(t, u, n) => told[u] = {"ready"}
      BY <2>1 DEF LinkedAt, Stage
    <2>3. Outcome(u)'
      BY <1>2, <1>6, <2>1, <2>2 DEF Outcome
    <2>4. Tended(u)'
      BY <1>2 DEF Tended
    <2> QED BY <2>3, <2>4
  <1> QED BY <1>4, <1>6, <1>7, <1>8 DEF UploadInv

LEMMA MakeOtherInv ==
    ASSUME UploadInv, NEW n \in U!Candidates, U!MakeOther(n)
    PROVE  UploadInv'
  <1>1. /\ dir[n] = Unset /\ dir' = [dir EXCEPT ![n] = Other]
        /\ UNCHANGED <<bridge, uploadReader, active, written, parts, told, sender, strays>>
    BY DEF U!MakeOther
  <1>2. U!TypeOK
    BY DEF UploadInv
  <1>3. U!TypeOK'
    BY <1>1, <1>2 DEF U!TypeOK
  <1>4. \A m \in U!Candidates, u \in Uploads : dir'[m] = u <=> dir[m] = u
    BY <1>1, <1>2, UnsetApart DEF U!TypeOK
  <1>5. OneOwner' /\ DeadRest'
    BY <1>1 DEF UploadInv, OneOwner, Owns, InHand, DeadRest
  <1>6. \A t \in Terminals, u \in Uploads : Stage(t, u)'
    <2> SUFFICES ASSUME NEW t \in Terminals, NEW u \in Uploads PROVE Stage(t, u)'
      OBVIOUS
    <2>1. Stage(t, u)
      BY DEF UploadInv
    <2> QED BY <1>1, <1>4, <2>1 DEF Stage, InHand
  <1>7. \A u \in Uploads : Outcome(u)' /\ Tended(u)'
    <2> SUFFICES ASSUME NEW u \in Uploads PROVE Outcome(u)' /\ Tended(u)'
      OBVIOUS
    <2>1. Outcome(u) /\ Tended(u)
      BY DEF UploadInv
    <2>2. Outcome(u)'
      BY <1>1, <1>4, <2>1 DEF Outcome, LinkedAt, InHand, AllDead
    <2>3. Tended(u)'
      BY <1>1, <2>1 DEF Tended, InHand
    <2> QED BY <2>2, <2>3
  <1> QED BY <1>3, <1>5, <1>6, <1>7 DEF UploadInv

LEMMA UploadNext == UploadInv /\ U!Next => UploadInv'
  BY StartInv, CreateTempInv, RegisterInv, MessageInv, LookInv, LinkInv, RemoveTempInv,
     EndInv, DieInv, MakeOtherInv DEF U!Next, U!Serve

LEMMA UploadSame == UploadInv /\ UNCHANGED uploadVars => UploadInv'
  <1> SUFFICES ASSUME UploadInv,
                      UNCHANGED <<bridge, uploadReader, active, written, parts, dir, told, sender, strays>>
               PROVE  UploadInv'
    BY DEF uploadVars
  <1>1. U!TypeOK' /\ OneOwner' /\ DeadRest'
    BY DEF UploadInv, U!TypeOK, OneOwner, Owns, InHand, DeadRest
  <1>2. \A t \in Terminals, u \in Uploads : Stage(t, u)'
    BY DEF UploadInv, Stage, InHand
  <1>3. \A u \in Uploads : Outcome(u)' /\ Tended(u)'
    BY DEF UploadInv, Outcome, Tended, LinkedAt, AllDead, InHand
  <1> QED BY <1>1, <1>2, <1>3 DEF UploadInv

LEMMA UploadKept == UploadInv => UploadsKept
  <1> SUFFICES ASSUME UploadInv PROVE U!OutcomeTold /\ U!PartialsTended
    BY DEF UploadInv, UploadsKept
  <1>1. \A u \in Uploads : (\E t \in Terminals : InHand(t, u)) => U!Busy(u)
    BY UploadIdle DEF InHand, U!Busy
  <1>4. ASSUME NEW u \in Uploads, NEW t \in Terminals, uploadReader[t] # U!Idle,
               uploadReader[t].up = u
        PROVE  InHand(t, u)
    <2>1. PICK W, q : W = U!Work /\ q = U!Idle
      OBVIOUS
    <2>2. uploadReader \in [Terminals -> W \cup {q}]
      BY <2>1 DEF UploadInv, U!TypeOK
    <2> QED BY <1>4, <2>1, <2>2 DEF InHand
  <1>5. ASSUME NEW u \in Uploads, NEW t \in Terminals
        PROVE  /\ Owns(t, u) => told[u] = {} \/ told[u] = {"ready"}
               /\ \A n \in U!Candidates : LinkedAt(t, u, n) => told[u] = {"ready"}
    <2>1. Stage(t, u)
      BY DEF UploadInv
    <2>2. uploadReader[t] \in U!Work =>
             uploadReader[t].pc \in {"starting", "created", "looking", "linking", "linked"}
      BY DEF U!Work
    <2> QED BY <2>1, <2>2 DEF Stage, Owns, InHand, LinkedAt
  <1>2. ASSUME NEW u \in Uploads
        PROVE  /\ "done" \in told[u] => U!Published(u) /\ written[u] = Chunks
               /\ "error" \in told[u] /\ "done" \notin told[u] =>
                     /\ ~U!Published(u) /\ ~U!Busy(u)
                     /\ \A t \in Terminals : u \notin active[t]
    <2>1. Outcome(u)
      BY DEF UploadInv
    <2>2. "done" \in told[u] => U!Published(u) /\ written[u] = Chunks
      BY <2>1 DEF Outcome, U!Published
    <2>3. ASSUME "error" \in told[u]
          PROVE  ~U!Busy(u) /\ \A t \in Terminals : u \notin active[t]
      BY <1>4, <1>5, <2>3 DEF U!Busy, Owns
    <2>4. ASSUME "error" \in told[u], "done" \notin told[u]
          PROVE  ~U!Published(u)
      BY <1>5, <2>1, <2>4 DEF Outcome, U!Published
    <2> QED BY <2>2, <2>3, <2>4
  <1>3. ASSUME NEW u \in parts \ strays
        PROVE  (\E t \in Terminals : bridge[t] = "open" /\ u \in active[t]) \/ U!Busy(u)
    <2>1. u \in Uploads /\ Tended(u)
      BY DEF UploadInv, U!TypeOK
    <2> QED BY <1>1, <2>1 DEF Tended
  <1> QED BY <1>2, <1>3 DEF U!OutcomeTold, U!PartialsTended

\* A name that something is at changes only when an upload is undone.
LEMMA UploadReplaces ==
    ASSUME UploadInv, U!Next, NEW n \in U!Candidates, dir[n] # Unset, dir'[n] # dir[n]
    PROVE  dir[n] \in Uploads /\ "error" \in told'[dir[n]] /\ "done" \notin told'[dir[n]]
  <1>1. U!TypeOK
    BY DEF UploadInv
  <1>2. \A t \in Terminals : U!RemoveTemp(t) =>
           dir[n] \in Uploads /\ "error" \in told'[dir[n]] /\ "done" \notin told'[dir[n]]
    <2> SUFFICES ASSUME NEW t \in Terminals, U!RemoveTemp(t)
                 PROVE  dir[n] \in Uploads /\ "error" \in told'[dir[n]] /\ "done" \notin told'[dir[n]]
      OBVIOUS
    <2>1. PICK u, m : u = uploadReader[t].up /\ m = uploadReader[t].name
      OBVIOUS
    <2>2. uploadReader[t].pc = "linked"
      BY DEF U!RemoveTemp, U!At
    <2>3. u \in Uploads /\ InHand(t, u)
      BY <2>1, <2>2, AtWork
    <2>4. m \in U!Candidates /\ dir[m] = u
      BY <2>1, <2>2, <2>3 DEF UploadInv, Stage
    <2>5. dir' = [dir EXCEPT ![m] = Unset] /\ told' = [told EXCEPT ![u] = told[u] \cup {"error"}]
      BY <2>1 DEF U!RemoveTemp, U!Abort, U!Tell
    <2>6. n = m
      BY <1>1, <2>5 DEF U!TypeOK
    <2>7. told[u] = {"ready"}
      BY <2>2, <2>3 DEF UploadInv, Stage
    <2> QED BY <1>1, <2>3, <2>4, <2>5, <2>6, <2>7 DEF U!TypeOK
  <1>3. \A t \in Terminals : ~U!Link(t)
    <2> SUFFICES ASSUME NEW t \in Terminals, U!Link(t) PROVE FALSE
      OBVIOUS
    <2>1. PICK u, m : u = uploadReader[t].up /\ m = uploadReader[t].name
      OBVIOUS
    <2>2. dir[m] = Unset /\ dir' = [dir EXCEPT ![m] = u]
      BY <2>1 DEF U!Link
    <2> QED BY <1>1, <2>2 DEF U!TypeOK
  <1>4. \A m \in U!Candidates : ~U!MakeOther(m)
    BY <1>1 DEF U!MakeOther, U!TypeOK
  <1>5. /\ ~U!Die
        /\ \A t \in Terminals :
              /\ ~U!End(t) /\ ~U!CreateTemp(t) /\ ~U!Register(t) /\ ~U!Look(t)
              /\ \A u \in Uploads :
                    ~U!Start(t, u) /\ ~U!HandleChunk(t, u) /\ ~U!Cancel(t, u) /\ ~U!Finish(t, u)
    BY DEF U!Die, U!End, U!CreateTemp, U!Register, U!Look, U!Start, U!HandleChunk, U!Cancel,
           U!Finish
  <1> QED BY <1>2, <1>3, <1>4, <1>5 DEF U!Next, U!Serve

-----------------------------------------------------------------------------
(* A behaviour of one part leaves the others as they began. *)

\* Each part's invariant; it holds of a part that does not run as well.
TrafficInv == UploadInv /\ DownloadInv /\ UdpInv

LEMMA TrafficStep == TrafficInv /\ [Next]_vars => TrafficInv'
  <1> SUFFICES ASSUME TrafficInv, [Next]_vars PROVE TrafficInv'
    OBVIOUS
  <1>1. CASE U!Next /\ UNCHANGED <<downloadVars, udpVars>>
    BY <1>1, UploadNext, DownloadSame, UdpSame DEF TrafficInv
  <1>2. CASE D!Next /\ UNCHANGED <<uploadVars, udpVars>>
    BY <1>2, UploadSame, DownloadNext, UdpSame DEF TrafficInv
  <1>3. CASE S!Next /\ UNCHANGED <<uploadVars, downloadVars>>
    BY <1>3, UploadSame, DownloadSame, UdpNext DEF TrafficInv
  <1>4. CASE UNCHANGED <<uploadVars, downloadVars, udpVars>>
    BY <1>4, UploadSame, DownloadSame, UdpSame DEF TrafficInv
  <1> QED BY <1>1, <1>2, <1>3, <1>4 DEF Next, vars

\* The inductive invariant of the three parts, whichever of them a behaviour is of.
THEOREM TrafficInvariance == Spec => []TrafficInv
  <1>1. Init => TrafficInv
    BY UploadInit, DownloadInit, UdpInit DEF Init, TrafficInv
  <1> QED BY <1>1, TrafficStep, PTL DEF Spec

\* Whatever the order in which uploads of any number of terminals start, grow, are
\* cancelled, also too late, and published, their bridges end under them and the process
\* dies: a file of which the browser was told "done" is whole and there, one of which it was
\* told only an error is not and will not be, and a temporary file has someone who will
\* remove it (terminal_upload.go: finish, abort, CloseAll).
THEOREM UploadsAlwaysKept == Spec => []UploadsKept
  <1>1. TrafficInv => UploadsKept
    BY UploadKept DEF TrafficInv
  <1> QED BY <1>1, TrafficInvariance, PTL

\* No step replaces what is at a name, but for the upload that a failed removal of its
\* temporary file undoes (terminal_upload.go: the link of finish never overwrites).
THEOREM UploadsNeverReplace == Spec => NeverReplaced
  <1> DEFINE Kept == \A n \in U!Candidates :
                        dir[n] # Unset /\ dir'[n] # dir[n] =>
                            dir[n] \in Uploads /\ "error" \in told'[dir[n]] /\ "done" \notin told'[dir[n]]
  <1>1. ASSUME TrafficInv, [Next]_vars PROVE [Kept]_(U!vars)
    <2>1. CASE U!Next
      BY <1>1, <2>1, UploadReplaces DEF TrafficInv
    <2>2. CASE UNCHANGED uploadVars
      BY <2>2 DEF U!vars, uploadVars
    <2> QED BY <1>1, <2>1, <2>2 DEF Next, vars
  <1> QED BY <1>1, TrafficInvariance, PTL DEF Spec, NeverReplaced, U!NeverReplaced

\* For any number of downloads: a ticket is answered at most once, and is accounted for
\* until it is; and the entries of a UDP port's map are its open sessions, at most
\* MaxSessions, none left when the port has closed (terminal_downloads.go, public_l4.go).
THEOREM AlwaysAccounted == Spec => []Accounted
  <1>1. TrafficInv => Accounted
    BY DownloadKept, UdpKept DEF TrafficInv, DownloadInv, Accounted
  <1> QED BY <1>1, TrafficInvariance, PTL

=============================================================================

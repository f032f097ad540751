--------------------------- MODULE PublicL4Proofs ---------------------------
(***************************************************************************)
(* No socket and no reservation of the public L4 manager is leaked, for    *)
(* any number of resources, ports, concurrent requests and restarts, and   *)
(* any order of their steps with those of the reconciler.                  *)
(***************************************************************************)
EXTENDS PublicL4, WellFoundedInduction, TLAPS

\* ReservationsTended is inductive with the types: a reservation follows its request.
Inv == TypeOK /\ SocketsAccounted /\ ReservationsTended

\* Of numbers that are not above a bound, one is the greatest.
LEMMA Greatest ==
    ASSUME NEW n \in Nat, NEW T, T \subseteq 0..n, T # {}
    PROVE  \E x \in T : \A y \in T : y <= x
  <1> DEFINE D == {n - t : t \in T}
  <1>1. D \subseteq Nat /\ D # {}
    <2>1. \A t \in T : n - t \in Nat
      OBVIOUS
    <2> QED BY <2>1
  <1>2. PICK d \in D : \A e \in D : ~ (<<e, d>> \in OpToRel(<, Nat))
    <2> HIDE DEF D
    <2> QED BY <1>1, WFMin, NatLessThanWellFounded, Zenon
  <1>3. \A e \in D : d <= e
    <2>1. \A e \in D : ~ (e < d)
      <3> HIDE DEF D
      <3> QED BY <1>1, <1>2, Zenon DEF OpToRel
    <2> QED BY <1>1, <2>1
  <1>4. PICK x \in T : d = n - x
    BY <1>2
  <1>5. ASSUME NEW y \in T PROVE y <= x
    <2>1. n - y \in D
      OBVIOUS
    <2>2. n - x <= n - y
      BY <2>1, <1>3, <1>4
    <2> QED BY <2>2
  <1> QED BY <1>5

\* A wanted port has a row that wants it: the CHOOSE of WantedRow has a witness.
LEMMA WantedRowTyped ==
    ASSUME NEW table \in SUBSET Row, NEW k \in WantedPorts(table)
    PROVE  WantedRow(table, k) \in Enabled(table, k)
  <1> DEFINE E == Enabled(table, k)
             T == {CreatedAt[r.id] : r \in E}
  <1>1. E \subseteq Row /\ E # {}
    BY DEF WantedPorts, Enabled
  <1>2. T \subseteq 0..LastStamp /\ T # {}
    BY <1>1, CreatedAtAssumption DEF Row
  <1>3. PICK x \in T : \A y \in T : y <= x
    <2> HIDE DEF T
    <2> QED BY <1>2, Greatest, CreatedAtAssumption
  <1>4. PICK r \in E : x = CreatedAt[r.id]
    BY <1>3
  <1>5. \A other \in E : CreatedAt[other.id] <= CreatedAt[r.id]
    BY <1>3, <1>4
  <1> QED BY <1>4, <1>5 DEF WantedRow

-----------------------------------------------------------------------------
(* The manager's critical sections, on the sockets. *)

SocketsTyped ==
    /\ bound \in [Ports -> {"free", "other", "ours"}]
    /\ listeners \in [Ports -> Row \cup {None}]
    /\ reservations \in [Ports -> Handlers \cup {None}]

SocketsSound == SocketsTyped /\ SocketsAccounted

Tending == {"reserving", "checking", "writing", "reading", "committing", "aborting"}

\* A reservation takes a free port, that nothing has.
LEMMA ReserveSound ==
    ASSUME SocketsSound, NEW h \in Handlers, NEW r \in Row, Reserve(h, r)
    PROVE  /\ SocketsSound'
           /\ \A k \in Ports : reservations'[k] = h => k = r.port \/ reservations[k] = h
           /\ \A k \in Ports : reservations'[k] # h => reservations'[k] = reservations[k]
  BY NoneAssumption DEF SocketsSound, SocketsTyped, SocketsAccounted, Reserve, Row

\* What ends a reservation ends no other, whatever becomes of its socket.
LEMMA AbortSound ==
    ASSUME SocketsSound, NEW h \in Handlers, NEW k \in Ports, Abort(h, k)
    PROVE  /\ SocketsSound'
           /\ reservations'[k] # h
           /\ \A p \in Ports : reservations'[p] # None => reservations'[p] = reservations[p]
  BY NoneAssumption DEF SocketsSound, SocketsTyped, SocketsAccounted, Abort, socketVars

LEMMA CommitSound ==
    ASSUME SocketsSound, NEW h \in Handlers, NEW k \in Ports, NEW r \in Row, Commit(h, k, r)
    PROVE  /\ SocketsSound'
           /\ reservations'[k] # h
           /\ \A p \in Ports : reservations'[p] # None => reservations'[p] = reservations[p]
  BY NoneAssumption DEF SocketsSound, SocketsTyped, SocketsAccounted, Commit, socketVars

\* A reconciliation opens and closes listeners only: with a reservation of a wanted port
\* it does nothing, and one of another port has no listener to close.
LEMMA SyncSound ==
    ASSUME SocketsSound, NEW table \in SUBSET Row, Sync(table)
    PROVE  /\ SocketsSound'
           /\ reservations' = reservations
  <1>1. CASE \E k \in WantedPorts(table) : reservations[k] # None
    BY <1>1 DEF Sync, socketVars, SocketsSound, SocketsTyped, SocketsAccounted
  <1>2. CASE ~ \E k \in WantedPorts(table) : reservations[k] # None
    <2> DEFINE Serves(k) ==
                   k \in WantedPorts(table) /\ (listeners[k] # None \/ k \in Opens(table))
    <2>1. /\ bound' = [k \in Ports |->
                CASE k \in Opens(table)  -> "ours"
                  [] k \in Closes(table) -> "free"
                  [] OTHER -> bound[k]]
          /\ listeners' = [k \in Ports |->
                IF Serves(k) THEN WantedRow(table, k) ELSE None]
          /\ reservations' = reservations
      BY <1>2 DEF Sync
    <2>2. \A k \in WantedPorts(table) : WantedRow(table, k) \in Row
      BY WantedRowTyped DEF Enabled
    <2>3. ASSUME NEW k \in Ports
          PROVE  /\ bound'[k] \in {"free", "other", "ours"}
                 /\ listeners'[k] \in Row \cup {None}
                 /\ bound'[k] = "ours" <=> (listeners'[k] # None \/ reservations'[k] # None)
                 /\ listeners'[k] = None \/ reservations'[k] = None
      <3>1. /\ bound[k] \in {"free", "other", "ours"}
            /\ bound[k] = "ours" <=> (listeners[k] # None \/ reservations[k] # None)
            /\ listeners[k] = None \/ reservations[k] = None
        BY DEF SocketsSound, SocketsTyped, SocketsAccounted
      <3>2. CASE k \in Opens(table)
        <4>1. k \in WantedPorts(table) /\ k \notin Closes(table) /\ Serves(k)
          BY <3>2 DEF Opens, Closes
        <4>2. bound'[k] = "ours" /\ listeners'[k] = WantedRow(table, k)
          BY <2>1, <3>2, <4>1
        <4> QED BY <1>2, <2>1, <2>2, <4>1, <4>2, NoneAssumption
      <3>3. CASE k \in Closes(table)
        <4>1. k \notin WantedPorts(table) /\ k \notin Opens(table) /\ ~ Serves(k)
          BY <3>3 DEF Opens, Closes
        <4>2. bound'[k] = "free" /\ listeners'[k] = None
          BY <2>1, <3>3, <4>1
        <4> QED BY <2>1, <3>1, <3>3, <4>2 DEF Closes
      <3>4. CASE k \notin Opens(table) /\ k \notin Closes(table)
        <4>1. bound'[k] = bound[k]
          BY <2>1, <3>4
        <4>2. CASE k \in WantedPorts(table) /\ listeners[k] # None
          <5>1. listeners'[k] = WantedRow(table, k)
            BY <2>1, <4>2
          <5> QED BY <2>1, <2>2, <3>1, <4>1, <4>2, <5>1, NoneAssumption
        <4>3. CASE ~ (k \in WantedPorts(table) /\ listeners[k] # None)
          <5>1. listeners'[k] = None
            BY <2>1, <3>4, <4>3
          <5>2. listeners[k] = None
            BY <3>4, <4>3 DEF Closes
          <5> QED BY <2>1, <3>1, <4>1, <5>1, <5>2
        <4> QED BY <4>2, <4>3
      <3> QED BY <3>2, <3>3, <3>4
    <2>4. SocketsTyped'
      <3> HIDE DEF Serves
      <3> QED BY <2>1, <2>3 DEF SocketsSound, SocketsTyped
    <2> QED BY <2>1, <2>3, <2>4 DEF SocketsSound, SocketsAccounted
  <1> QED BY <1>1, <1>2

-----------------------------------------------------------------------------
(* One request's steps. *)

RestTyped ==
    /\ db \subseteq Row
    /\ born \subseteq Resources
    /\ ops \in 0..MaxOps
    /\ takes \in 0..MaxTakes
    /\ stops \in 0..MaxStops
    /\ up \in BOOLEAN
    /\ reconciler \in [pc : {"waiting", "syncing"}, snap : SUBSET Row]

LEMMA TypeParts ==
    TypeOK <=> RestTyped /\ SocketsTyped /\ handler \in [Handlers -> Request \cup {Idle}]
  BY DEF TypeOK, RestTyped, SocketsTyped

LEMMA RequestTyped ==
    ASSUME TypeOK, NEW h \in Handlers, handler[h].pc # "idle"
    PROVE  handler[h] \in Request
  BY DEF TypeOK, Idle

\* A request q that tends the reservations of its handler h.
Tends(h, q) == \A k \in Ports : reservations[k] = h => k \in q.mine /\ q.pc \in Tending

LEMMA AllTend ==
    ASSUME TypeOK
    PROVE  ReservationsTended <=> \A h \in Handlers : Tends(h, handler[h])
  BY NoneAssumption DEF TypeOK, ReservationsTended, Tends, Tending

\* The request of h becomes q; other handlers have lost reservations at most.
LEMMA Moves ==
    ASSUME Inv, NEW h \in Handlers, NEW q \in Request \cup {Idle},
           handler' = [handler EXCEPT ![h] = q], RestTyped', SocketsSound',
           \A k \in Ports : reservations'[k] \notin {h, None} =>
                                reservations'[k] = reservations[k],
           \A k \in Ports : reservations'[k] = h => k \in q.mine /\ q.pc \in Tending
    PROVE  Inv'
  <1>1. TypeOK'
    <2>1. handler' \in [Handlers -> Request \cup {Idle}]
      BY DEF Inv, TypeOK
    <2> QED BY <2>1 DEF TypeOK, SocketsSound, RestTyped, SocketsTyped
  <1>2. \A g \in Handlers : Tends(g, handler[g])
    BY AllTend DEF Inv
  <1>3. ASSUME NEW k \in Ports, reservations'[k] # None
        PROVE  /\ k \in handler'[reservations'[k]].mine
               /\ handler'[reservations'[k]].pc \in Tending
    <2>1. handler \in [Handlers -> Request \cup {Idle}] /\ reservations'[k] \in Handlers
      BY <1>1, <1>3 DEF TypeOK, Inv
    <2>2. CASE reservations'[k] = h
      BY <2>1, <2>2
    <2>3. CASE reservations'[k] # h
      BY <1>2, <1>3, <2>1, <2>3 DEF Tends
    <2> QED BY <2>2, <2>3
  <1> QED BY <1>1, <1>3 DEF Inv, ReservationsTended, Tending, SocketsSound

\* The same when no socket moves.
LEMMA MovesAlone ==
    ASSUME Inv, NEW h \in Handlers, NEW q \in Request \cup {Idle},
           handler' = [handler EXCEPT ![h] = q], RestTyped', UNCHANGED socketVars,
           Tends(h, q)
    PROVE  Inv'
  <1>1. SocketsSound'
    BY DEF Inv, TypeOK, SocketsSound, SocketsTyped, SocketsAccounted, socketVars
  <1> QED BY <1>1, Moves DEF Tends, socketVars

\* A request that is at no place where it tends a reservation has none.
LEMMA HasNone ==
    ASSUME Inv, NEW h \in Handlers, handler[h].pc \notin Tending
    PROVE  \A k \in Ports : reservations[k] # h
  BY AllTend DEF Inv, Tends

\* An error ends a request that has no reservation, and makes the others abort theirs.
LEMMA RefuseSound ==
    ASSUME Inv, NEW h \in Handlers, handler[h].pc # "idle", Refuse(h), RestTyped',
           UNCHANGED socketVars
    PROVE  Inv'
  <1> DEFINE q == IF handler[h].mine = {} THEN Idle ELSE [handler[h] EXCEPT !.pc = "aborting"]
  <1>1. handler' = [handler EXCEPT ![h] = q]
    BY DEF Refuse
  <1>2. q \in Request \cup {Idle}
    BY RequestTyped DEF Inv, Request, PCs
  <1>3. Tends(h, q)
    BY AllTend, RequestTyped DEF Inv, Tends, Tending, Request
  <1> HIDE DEF q
  <1> QED BY <1>1, <1>2, <1>3, MovesAlone

\* A request goes on to a place where it tends its reservations, or has none.
LEMMA GoSound ==
    ASSUME Inv, NEW h \in Handlers, handler[h].pc # "idle", NEW pc \in PCs, Go(h, pc),
           pc \in Tending \/ handler[h].pc \notin Tending \/ handler[h].mine = {},
           RestTyped', UNCHANGED socketVars
    PROVE  Inv'
  <1> DEFINE q == [handler[h] EXCEPT !.pc = pc]
  <1>1. handler' = [handler EXCEPT ![h] = q]
    BY DEF Go
  <1>2. handler[h] \in Request /\ q \in Request
    BY RequestTyped DEF Inv, Request
  <1>3. Tends(h, q)
    BY <1>2, AllTend, HasNone DEF Inv, Tends, Request
  <1> HIDE DEF q
  <1> QED BY <1>1, <1>2, <1>3, MovesAlone

-----------------------------------------------------------------------------
(* The actions. *)

\* What a request may be begun with.
LEMMA WithRowsTyped ==
    ASSUME NEW pc \in PCs, NEW op \in AllOperations,
           NEW old \in SUBSET Row, NEW rows \in SUBSET Row
    PROVE  WithRows(pc, op, old, rows) \in Request
  BY DEF WithRows, Request

LEMMA BeginSound ==
    ASSUME Inv, NEW h \in Handlers, NEW op \in AllOperations, NEW pc \in PCs,
           NEW old \in SUBSET Row, NEW rows \in SUBSET Row,
           Begin(h, op, pc, old, rows), born' \subseteq Resources
    PROVE  Inv'
  <1> DEFINE q == WithRows(pc, op, old, rows)
  <1>1. handler' = [handler EXCEPT ![h] = q] /\ UNCHANGED socketVars /\ handler[h] = Idle
    BY DEF Begin
  <1>2. q \in Request
    BY WithRowsTyped
  <1>3. RestTyped'
    BY BoundsAssumption DEF Begin, Inv, TypeOK, RestTyped, lifeVars
  <1>4. Tends(h, q)
    BY <1>1, HasNone DEF Tends, Idle, Tending
  <1> HIDE DEF q
  <1> QED BY <1>1, <1>2, <1>3, <1>4, MovesAlone

LEMMA Switched ==
    ASSUME NEW on \in BOOLEAN, NEW chosen \in SUBSET Row
    PROVE  {[r EXCEPT !.on = on] : r \in chosen} \in SUBSET Row
  BY DEF Row

LEMMA BeginStepSound ==
    ASSUME Inv, NEW h \in Handlers, BeginStep(h)
    PROVE  Inv'
  <1>0. db \subseteq Row /\ born \subseteq Resources
    BY DEF Inv, TypeOK
  <1>1. CASE Create(h)
    <2>1. PICK i \in Resources \ born, k \in Ports, b \in Backends :
              /\ Begin(h, "create", "validating", {},
                       {[id |-> i, port |-> k, on |-> TRUE, backend |-> b]})
              /\ born' = born \cup {i}
      BY <1>1 DEF Create
    <2>2. {[id |-> i, port |-> k, on |-> TRUE, backend |-> b]} \in SUBSET Row
      BY DEF Row
    <2> QED BY <1>0, <2>1, <2>2, BeginSound DEF PCs, AllOperations
  <1>2. CASE Edit(h)
    <2>1. PICK r \in db, k \in Ports, on \in BOOLEAN, b \in Backends :
              Begin(h, "edit", "validating", {r},
                    {[id |-> r.id, port |-> k, on |-> on, backend |-> b]})
      BY <1>2 DEF Edit
    <2>2. {[id |-> r.id, port |-> k, on |-> on, backend |-> b]} \in SUBSET Row
      BY <1>0 DEF Row
    <2> QED BY <1>0, <1>2, <2>1, <2>2, BeginSound DEF PCs, AllOperations, Edit
  <1>3. CASE Control(h)
    <2>1. PICK r \in db, on \in BOOLEAN :
              Begin(h, "control", "reserving", {r}, {[r EXCEPT !.on = on]})
      BY <1>3 DEF Control
    <2>2. {[r EXCEPT !.on = on]} \in SUBSET Row
      BY <1>0 DEF Row
    <2> QED BY <1>0, <1>3, <2>1, <2>2, BeginSound DEF PCs, AllOperations, Control
  <1>4. CASE Bulk(h)
    <2>1. PICK chosen \in (SUBSET db) \ {{}}, op \in {"activate", "suspend"} :
              Begin(h, op, IF op = "activate" THEN "reserving" ELSE "writing", chosen,
                    {[r EXCEPT !.on = (op = "activate")] : r \in chosen})
      BY <1>4 DEF Bulk
    <2>2. {[r EXCEPT !.on = (op = "activate")] : r \in chosen} \in SUBSET Row
      BY <1>0, Switched
    <2>3. (IF op = "activate" THEN "reserving" ELSE "writing") \in PCs /\ op \in AllOperations
      BY DEF PCs, AllOperations
    <2>4. born' \subseteq Resources /\ chosen \in SUBSET Row
      BY <1>0, <1>4 DEF Bulk
    <2> QED BY <2>1, <2>2, <2>3, <2>4, BeginSound
  <1>5. CASE Delete(h)
    <2>1. PICK r \in db : Begin(h, "delete", "writing", {r}, {r})
      BY <1>5 DEF Delete
    <2> QED BY <1>0, <1>5, <2>1, BeginSound DEF PCs, AllOperations, Delete
  <1> QED BY <1>1, <1>2, <1>3, <1>4, <1>5 DEF BeginStep

\* What an action leaves alone keeps its type.
LEMMA RestKept ==
    ASSUME Inv, UNCHANGED <<storeVars, ops, lifeVars, reconciler>>
    PROVE  RestTyped'
  BY DEF Inv, TypeOK, RestTyped, storeVars, lifeVars

LEMMA ReserveOneSound ==
    ASSUME Inv, NEW h \in Handlers, ReserveOne(h)
    PROVE  Inv'
  <1>0. /\ handler[h] \in Request /\ handler[h].pc = "reserving"
        /\ RestTyped' /\ SocketsSound
    BY RestKept, RequestTyped DEF ReserveOne, Inv, TypeOK, SocketsSound, SocketsTyped
  <1>1. PICK r \in handler[h].todo :
          \/ /\ NeedsNoSocket(r)
             /\ handler' = [handler EXCEPT ![h].todo = @ \ {r}]
             /\ UNCHANGED socketVars
          \/ /\ CannotReserve(r)
             /\ Refuse(h)
             /\ UNCHANGED socketVars
          \/ /\ Reserve(h, r)
             /\ handler' = [handler EXCEPT ![h].todo = @ \ {r},
                                           ![h].mine = @ \cup {r.port}]
    BY DEF ReserveOne
  <1>2. r \in Row /\ Tends(h, handler[h])
    BY <1>0, AllTend DEF Request, Inv
  <1>3. CASE handler' = [handler EXCEPT ![h].todo = @ \ {r}] /\ UNCHANGED socketVars
    <2> DEFINE q == [handler[h] EXCEPT !.todo = @ \ {r}]
    <2>1. handler' = [handler EXCEPT ![h] = q]
      BY <1>3
    <2>2. q \in Request /\ Tends(h, q)
      BY <1>0, <1>2 DEF Request, Tends
    <2> HIDE DEF q
    <2> QED BY <1>0, <1>3, <2>1, <2>2, MovesAlone
  <1>4. CASE Refuse(h) /\ UNCHANGED socketVars
    BY <1>0, <1>4, RefuseSound
  <1>5. CASE /\ Reserve(h, r)
             /\ handler' = [handler EXCEPT ![h].todo = @ \ {r},
                                           ![h].mine = @ \cup {r.port}]
    <2> DEFINE q == [handler[h] EXCEPT !.todo = @ \ {r}, !.mine = @ \cup {r.port}]
    <2>1. handler' = [handler EXCEPT ![h] = q]
      BY <1>5
    <2>2. q \in Request /\ q.mine = handler[h].mine \cup {r.port} /\ q.pc \in Tending
      BY <1>0, <1>2 DEF Request, Tending, Row
    <2>3. /\ SocketsSound'
          /\ \A k \in Ports : reservations'[k] = h => k = r.port \/ reservations[k] = h
          /\ \A k \in Ports : reservations'[k] # h => reservations'[k] = reservations[k]
      BY <1>0, <1>2, <1>5, ReserveSound
    <2>4. \A k \in Ports : reservations'[k] = h => k \in q.mine /\ q.pc \in Tending
      BY <1>2, <2>2, <2>3 DEF Tends
    <2> HIDE DEF q
    <2> QED BY <1>0, <2>1, <2>2, <2>3, <2>4, Moves
  <1> QED BY <1>1, <1>3, <1>4, <1>5

LEMMA RecheckSound ==
    ASSUME Inv, NEW h \in Handlers, Recheck(h)
    PROVE  Inv'
  <1>0. /\ handler[h] \in Request /\ handler[h].pc = "checking"
        /\ RestTyped' /\ UNCHANGED socketVars /\ db \subseteq Row
    BY RestKept, RequestTyped DEF Recheck, Inv, TypeOK
  <1>1. CASE Refuse(h)
    BY <1>0, <1>1, RefuseSound
  <1>2. CASE ~ Refuse(h)
    <2> DEFINE rows == IF handler[h].op = "control" THEN AsTheyAre(handler[h])
                       ELSE handler[h].rows
               q == [handler[h] EXCEPT !.pc = "writing", !.rows = rows]
    <2>1. handler' = [handler EXCEPT ![h] = q]
      BY <1>2 DEF Recheck
    <2>2. rows \subseteq Row
      BY <1>0 DEF AsTheyAre, Row, Request
    <2>3. q \in Request /\ q.pc \in Tending /\ q.mine = handler[h].mine
      <3> HIDE DEF rows
      <3> QED BY <1>0, <2>2 DEF Request, PCs, Tending
    <2>4. Tends(h, q)
      <3> HIDE DEF q
      <3> QED BY <2>3, AllTend DEF Inv, Tends
    <2> HIDE DEF q
    <2> QED BY <1>0, <2>1, <2>3, <2>4, MovesAlone
  <1> QED BY <1>1, <1>2

LEMMA WriteSound ==
    ASSUME Inv, NEW h \in Handlers, Write(h)
    PROVE  Inv'
  <1> DEFINE q == handler[h]
             pc == CASE q.mine = {}       -> "listing"
                     [] q.op = "activate" -> "reading"
                     [] OTHER             -> "committing"
  <1>0. /\ q \in Request /\ q.pc = "writing" /\ db \subseteq Row
        /\ UNCHANGED <<born, ops, lifeVars, socketVars, reconciler>>
    BY RequestTyped DEF Write, Inv, TypeOK
  <1>1. CASE Refuse(h) /\ UNCHANGED db
    <2>1. RestTyped'
      BY <1>0, <1>1, RestKept DEF storeVars
    <2> QED BY <1>0, <1>1, <2>1, RefuseSound
  <1>2. CASE /\ db' = CASE q.op = "create" -> db \cup q.rows
                       [] q.op = "edit"   -> Update(db, q.rows)
                       [] q.op = "delete" -> {r \in db : r.id \notin Ids(q.rows)}
                       [] OTHER -> Update(db, AsTheyAre(q))
             /\ Go(h, pc)
    <2>1. db' \subseteq Row
      <3>1. q.rows \subseteq Row /\ AsTheyAre(q) \subseteq Row
        BY <1>0 DEF Request, AsTheyAre, Row
      <3>2. Update(db, q.rows) \subseteq Row /\ Update(db, AsTheyAre(q)) \subseteq Row
        BY <1>0, <3>1 DEF Update
      <3> QED BY <1>0, <1>2, <3>1, <3>2
    <2>2. RestTyped'
      BY <1>0, <2>1 DEF Inv, TypeOK, RestTyped, lifeVars
    <2>3. pc \in PCs /\ (pc \in Tending \/ q.mine = {})
      BY DEF PCs, Tending
    <2>4. Go(h, pc)
      BY <1>2
    <2> HIDE DEF pc
    <2> QED BY <1>0, <2>2, <2>3, <2>4, GoSound
  <1> QED BY <1>0, <1>1, <1>2 DEF Write

LEMMA ReadBackSound ==
    ASSUME Inv, NEW h \in Handlers, ReadBack(h)
    PROVE  Inv'
  <1>0. /\ handler[h] \in Request /\ handler[h].pc = "reading"
        /\ RestTyped' /\ UNCHANGED socketVars /\ db \subseteq Row
    BY RestKept, RequestTyped DEF ReadBack, Inv, TypeOK
  <1> DEFINE rows == {r \in db : r.id \in Ids(handler[h].rows)}
             q == [handler[h] EXCEPT !.pc = "committing", !.rows = rows]
  <1>1. handler' = [handler EXCEPT ![h] = q]
    BY DEF ReadBack
  <1>2. q \in Request /\ q.pc \in Tending /\ q.mine = handler[h].mine
    BY <1>0 DEF Request, PCs, Tending
  <1>3. Tends(h, q)
    <2> HIDE DEF q
    <2> QED BY <1>2, AllTend DEF Inv, Tends
  <1> HIDE DEF q
  <1> QED BY <1>0, <1>1, <1>2, <1>3, MovesAlone

LEMMA CommitOneSound ==
    ASSUME Inv, NEW h \in Handlers, CommitOne(h)
    PROVE  Inv'
  <1>0. /\ handler[h] \in Request /\ handler[h].pc = "committing"
        /\ RestTyped' /\ SocketsSound /\ Tends(h, handler[h])
    BY RestKept, RequestTyped, AllTend
       DEF CommitOne, Inv, TypeOK, SocketsSound, SocketsTyped
  <1>1. PICK k \in handler[h].mine :
          /\ LET fits == {r \in handler[h].rows :
                              handler[h].op # "activate" \/ (r.on /\ r.port = k)} IN
                IF fits = {} THEN Abort(h, k) ELSE \E r \in fits : Commit(h, k, r)
          /\ handler' = [handler EXCEPT ![h].mine = @ \ {k},
                           ![h].pc = IF handler[h].mine = {k} THEN "listing" ELSE @]
    BY DEF CommitOne
  <1> DEFINE q == [handler[h] EXCEPT !.mine = @ \ {k},
                       !.pc = IF handler[h].mine = {k} THEN "listing" ELSE @]
  <1>2. handler' = [handler EXCEPT ![h] = q]
    BY <1>1
  <1>3. /\ q \in Request /\ q.mine = handler[h].mine \ {k} /\ k \in Ports
        /\ q.pc = IF handler[h].mine = {k} THEN "listing" ELSE "committing"
    BY <1>0, <1>1 DEF Request, PCs
  <1>4. /\ SocketsSound'
        /\ reservations'[k] # h
        /\ \A p \in Ports : reservations'[p] # None => reservations'[p] = reservations[p]
    <2>1. CASE Abort(h, k)
      BY <1>0, <1>3, <2>1, AbortSound
    <2>2. CASE \E r \in handler[h].rows : Commit(h, k, r)
      <3>1. PICK r \in Row : Commit(h, k, r)
        BY <1>0, <2>2 DEF Request
      <3> QED BY <1>0, <1>3, <3>1, CommitSound
    <2> QED BY <1>1, <2>1, <2>2
  <1>5. \A p \in Ports : reservations'[p] = h => p \in q.mine /\ q.pc \in Tending
    <2> HIDE DEF q
    <2> QED BY <1>0, <1>3, <1>4, NoneAssumption DEF Tends, Tending
  <1> HIDE DEF q
  <1> QED BY <1>0, <1>2, <1>3, <1>4, <1>5, Moves

LEMMA AbortOneSound ==
    ASSUME Inv, NEW h \in Handlers, AbortOne(h)
    PROVE  Inv'
  <1>0. /\ handler[h] \in Request /\ handler[h].pc = "aborting"
        /\ RestTyped' /\ SocketsSound /\ Tends(h, handler[h])
    BY RestKept, RequestTyped, AllTend
       DEF AbortOne, Inv, TypeOK, SocketsSound, SocketsTyped
  <1>1. PICK k \in handler[h].mine :
          /\ Abort(h, k)
          /\ handler' = [handler EXCEPT ![h] =
                            IF handler[h].mine = {k} THEN Idle
                            ELSE [handler[h] EXCEPT !.mine = handler[h].mine \ {k}]]
    BY DEF AbortOne
  <1> DEFINE q == IF handler[h].mine = {k} THEN Idle
                  ELSE [handler[h] EXCEPT !.mine = handler[h].mine \ {k}]
  <1>2. handler' = [handler EXCEPT ![h] = q]
    BY <1>1
  <1>3. /\ q \in Request \cup {Idle} /\ k \in Ports
        /\ handler[h].mine # {k} => q.pc = "aborting" /\ q.mine = handler[h].mine \ {k}
    BY <1>0, <1>1 DEF Request
  <1>4. /\ SocketsSound'
        /\ reservations'[k] # h
        /\ \A p \in Ports : reservations'[p] # None => reservations'[p] = reservations[p]
    BY <1>0, <1>1, <1>3, AbortSound
  <1>5. \A p \in Ports : reservations'[p] = h => p \in q.mine /\ q.pc \in Tending
    <2> HIDE DEF q
    <2> QED BY <1>0, <1>3, <1>4, NoneAssumption DEF Tends, Tending
  <1> HIDE DEF q
  <1> QED BY <1>0, <1>2, <1>3, <1>4, <1>5, Moves

LEMMA ListResourcesSound ==
    ASSUME Inv, NEW h \in Handlers, ListResources(h)
    PROVE  Inv'
  <1>0. /\ handler[h] \in Request /\ handler[h].pc = "listing"
        /\ RestTyped' /\ UNCHANGED socketVars /\ db \subseteq Row
    BY RestKept, RequestTyped DEF ListResources, Inv, TypeOK
  <1> DEFINE q == [handler[h] EXCEPT !.snap = db, !.pc = "syncing"]
  <1>1. handler' = [handler EXCEPT ![h] = q]
    BY DEF ListResources
  <1>2. q \in Request
    BY <1>0 DEF Request, PCs
  <1>3. Tends(h, q)
    BY <1>0, HasNone DEF Tends, Tending
  <1> HIDE DEF q
  <1> QED BY <1>0, <1>1, <1>2, <1>3, MovesAlone

LEMMA RefreshSound ==
    ASSUME Inv, NEW h \in Handlers, Refresh(h)
    PROVE  Inv'
  <1>0. /\ handler[h] \in Request /\ handler[h].pc = "syncing"
        /\ RestTyped' /\ SocketsSound
        /\ handler' = [handler EXCEPT ![h] = Idle]
        /\ Sync(handler[h].snap)
    BY RestKept, RequestTyped DEF Refresh, Inv, TypeOK, SocketsSound, SocketsTyped
  <1>1. SocketsSound' /\ reservations' = reservations
    BY <1>0, SyncSound DEF Request
  <1>2. \A k \in Ports : reservations[k] # h
    BY <1>0, HasNone DEF Tending
  <1> QED BY <1>0, <1>1, <1>2, Moves

LEMMA RequestStepSound ==
    ASSUME Inv, NEW h \in Handlers, RequestStep(h)
    PROVE  Inv'
  <1>1. CASE Validate(h)
    <2>1. /\ handler[h].pc = "validating" /\ RestTyped' /\ UNCHANGED socketVars
          /\ Refuse(h) \/ Go(h, "probing")
      BY <1>1, RestKept DEF Validate
    <2> QED BY <2>1, RefuseSound, GoSound DEF PCs, Tending
  <1>2. CASE Probe(h)
    <2>1. /\ handler[h].pc = "probing" /\ RestTyped' /\ UNCHANGED socketVars
          /\ Refuse(h) \/ Go(h, "reserving")
      BY <1>2, RestKept DEF Probe
    <2> QED BY <2>1, RefuseSound, GoSound DEF PCs, Tending
  <1>3. CASE AllReserved(h)
    <2>1. /\ handler[h].pc = "reserving" /\ RestTyped' /\ UNCHANGED socketVars
          /\ Go(h, "writing") \/ Go(h, "checking")
      BY <1>3, RestKept DEF AllReserved
    <2> QED BY <2>1, GoSound DEF PCs, Tending
  <1> QED BY <1>1, <1>2, <1>3, ReserveOneSound, RecheckSound, WriteSound, ReadBackSound,
             CommitOneSound, AbortOneSound, ListResourcesSound, RefreshSound
          DEF RequestStep

-----------------------------------------------------------------------------
(* The invariant and what follows from it. *)

\* What the reconciler, the life of the server and other processes do leaves each
\* reservation to its request, or drops them all.
LEMMA OthersSound ==
    ASSUME Inv,
           \/ ReconcilerLists \/ ReconcilerSyncs
           \/ Close \/ Restart
           \/ \E k \in Ports : TakePort(k) \/ FreePort(k)
    PROVE  Inv'
  <1> USE DEF Inv
  <1>0. /\ RestTyped /\ SocketsSound /\ handler \in [Handlers -> Request \cup {Idle}]
        /\ Waiting \in [pc : {"waiting", "syncing"}, snap : SUBSET Row]
    BY TypeParts DEF SocketsSound, Waiting
  <1>1. ASSUME RestTyped', SocketsSound', UNCHANGED <<handler, reservations>>
        PROVE  Inv'
    BY <1>0, <1>1 DEF SocketsSound, SocketsTyped, RestTyped, TypeOK, ReservationsTended
  <1>2. CASE ReconcilerLists
    BY <1>0, <1>1, <1>2
       DEF ReconcilerLists, RestTyped, SocketsSound, SocketsTyped, SocketsAccounted,
           storeVars, lifeVars, socketVars
  <1>3. CASE ReconcilerSyncs
    <2>1. RestTyped' /\ UNCHANGED handler
      BY <1>0, <1>3 DEF ReconcilerSyncs, RestTyped, storeVars, lifeVars
    <2>2. SocketsSound' /\ reservations' = reservations
      BY <1>0, <1>3, SyncSound DEF ReconcilerSyncs, RestTyped
    <2> QED BY <1>1, <2>1, <2>2
  <1>4. ASSUME RestTyped', bound' = Unbound, listeners' = [k \in Ports |-> None],
               reservations' = [k \in Ports |-> None],
               handler' \in [Handlers -> Request \cup {Idle}]
        PROVE  Inv'
    BY <1>0, <1>4 DEF SocketsSound, SocketsTyped, SocketsAccounted, RestTyped, TypeOK,
                      ReservationsTended, Unbound
  <1>5. CASE Close
    <2>1. stops' \in 0..MaxStops /\ up' \in BOOLEAN
      <3>1. stops < MaxStops /\ stops' = stops + 1 /\ up' = FALSE
        BY <1>5 DEF Close
      <3>2. stops \in 0..MaxStops /\ MaxStops \in Nat
        BY <1>0, BoundsAssumption DEF RestTyped
      <3>3. up' \in BOOLEAN
        BY <3>1
      <3> QED BY <3>1, <3>2, <3>3
    <2>2. UNCHANGED <<db, born, ops, takes, reconciler>>
      BY <1>5 DEF Close, storeVars
    <2>3. RestTyped'
      BY <1>0, <2>1, <2>2 DEF RestTyped
    <2> QED BY <1>0, <1>4, <1>5, <2>3 DEF Close
  <1>6. CASE Restart
    BY <1>0, <1>4, <1>6, BoundsAssumption DEF Restart, RestTyped, storeVars
  <1>7. CASE \E k \in Ports : TakePort(k)
    BY <1>0, <1>1, <1>7, BoundsAssumption
       DEF TakePort, RestTyped, SocketsSound, SocketsTyped, SocketsAccounted, storeVars
  <1>8. CASE \E k \in Ports : FreePort(k)
    BY <1>0, <1>1, <1>8
       DEF FreePort, RestTyped, SocketsSound, SocketsTyped, SocketsAccounted,
           storeVars, lifeVars
  <1> QED BY <1>2, <1>3, <1>5, <1>6, <1>7, <1>8

\* The server starts without sockets or requests, whatever SQLite holds.
LEMMA InitSound == Init => Inv
  <1> SUFFICES ASSUME Init PROVE Inv
    OBVIOUS
  <1>1. born \subseteq Resources
    BY OldRowsAssumption DEF Init, Row
  <1>2. TypeOK
    BY <1>1, OldRowsAssumption, BoundsAssumption DEF Init, TypeOK, Waiting
  <1> QED BY <1>2 DEF Init, Inv, SocketsAccounted, ReservationsTended

LEMMA NextSound == Inv /\ [Next]_vars => Inv'
  <1> SUFFICES ASSUME Inv, [Next]_vars PROVE Inv'
    OBVIOUS
  <1>1. CASE UNCHANGED vars
    BY <1>1 DEF vars, storeVars, lifeVars, socketVars, Inv, TypeOK, SocketsAccounted,
                ReservationsTended
  <1>2. CASE \E h \in Handlers : BeginStep(h) \/ RequestStep(h)
    BY <1>2, BeginStepSound, RequestStepSound
  <1> QED BY <1>1, <1>2, OthersSound DEF Next

\* The invariant of the sockets and of the reservations, in every reachable state of
\* PublicL4Manager and its callers.
THEOREM Invariance == Spec => []Inv
  BY InitSound, NextSound, PTL DEF Spec

\* Every socket that PublicL4Manager has bound has one owner, a listener or a reservation
\* (public_l4.go:96-252), whatever requests, reconciliations, closes and restarts do in
\* between.
THEOREM SocketsAlwaysKnown == Spec => []SocketsKnown
  <1>1. Inv => SocketsKnown
    BY DEF Inv, SocketsKnown
  <1> QED BY <1>1, Invariance, PTL

\* No reservation outlives the request that made it (the deferred Abort of
\* server.go:1030-1059): Sync does not skip a reconciliation for ever.
THEOREM ReservationsAlwaysTended == Spec => []ReservationsTended
  <1>1. Inv => ReservationsTended
    BY DEF Inv
  <1> QED BY <1>1, Invariance, PTL

=============================================================================

---------------------------- MODULE AccessProofs ----------------------------
(***************************************************************************)
(* The limiters in front of the logins and of the password resets, and the *)
(* rows of sessions and links, for any number of addresses, of requests    *)
(* served at the same time, of requests in all, and any limits.            *)
(***************************************************************************)
EXTENDS Access, FiniteSetTheorems, TLAPS

-----------------------------------------------------------------------------
(* The inductive invariant. *)

\* TypeOK, with the domains it leaves out and the types of the histories.
Typed ==
    /\ handler \in [Handlers -> Request \cup {Idle}]
    /\ windows \in [Buckets -> [count : 1..Limit, over : BOOLEAN] \cup {Unset}]
    /\ attempts \in [Keys -> Attempt \cup {Unset}]
    /\ sessions \cup links \cup used \cup lapsed \cup ended \subseteq Ids
    /\ requests \in 0..MaxRequests
    /\ admitted \in [Buckets -> Nat]
    /\ tries \in [Keys -> Nat]
    /\ skipped \in [Keys -> Nat]

\* What a window that is not over has counted is what it let through: no sweep drops
\* one that is still running.
WindowsCount ==
    /\ \A b \in Buckets :
          admitted[b] = IF windows[b] = Unset \/ windows[b].over THEN 0 ELSE windows[b].count
    /\ Cardinality(Open(windows)) <= MaxWindows

\* The requests that have failed on key k and have yet to record it, and with them
\* those that are past the check of its lock.
Pending(k) ==
    {h \in Handlers : handler[h].pc \in {"failed", "recording"} /\ KeyOf(h) = k}

Through(k) ==
    {h \in Handlers : handler[h].pc \in {"checking", "failed", "recording"} /\ KeyOf(h) = k}

Fails(k) == IF attempts[k] = Unset THEN 0 ELSE attempts[k].fails

Locked(k) == attempts[k] # Unset /\ attempts[k].lock # "none"

\* An attempt has been recorded, skipped, or is pending. Once a key has locked, only
\* those that were through by then add to its failures.
FailuresCount(k) ==
    /\ tries[k] <= Fails(k) + skipped[k] + Cardinality(Pending(k))
    /\ attempts[k] # Unset /\ ~Locked(k) => Fails(k) < MaxFails
    /\ Locked(k) => Fails(k) + Cardinality(Through(k)) <= MaxFails + Cardinality(Handlers) - 1

AttemptsCount ==
    /\ \A k \in Keys : FailuresCount(k)
    /\ Cardinality({k \in Keys : attempts[k] # Unset}) <= MaxKeys

\* The number of a request is its own: no row has it before the request inserts it.
NumbersFresh ==
    /\ \A i \in sessions \cup ended : i <= requests
    /\ \A h \in Handlers : handler[h] # Idle =>
          /\ handler[h].id <= requests
          /\ handler[h].id \notin sessions \cup ended
          /\ \A g \in Handlers \ {h} : handler[g] # Idle => handler[g].id # handler[h].id

\* Only a login or a request for a link has a key.
PlacesRight ==
    \A h \in Handlers :
        handler[h].pc \in {"checking", "failed", "recording", "passed"} =>
            handler[h].kind # "confirm"

RowsCount == NumbersFresh /\ LinksBounded /\ SessionsEndWithReset

Inv == Typed /\ WindowsCount /\ PlacesRight /\ AttemptsCount /\ RowsCount

-----------------------------------------------------------------------------
(* What the constants and the types give. *)

LEMMA Finite ==
    /\ IsFiniteSet(Buckets) /\ IsFiniteSet(Keys)
    /\ IsFiniteSet(Handlers) /\ Cardinality(Handlers) \in Nat
  <1>1. IsFiniteSet(Kinds) /\ IsFiniteSet({"login", "reset"})
    <2>1. IsFiniteSet({"login"} \cup {"reset"})
      BY FS_Singleton, FS_AddElement
    <2>2. IsFiniteSet(({"login"} \cup {"reset"}) \cup {"confirm"})
      BY <2>1, FS_AddElement
    <2>3. /\ Kinds = ({"login"} \cup {"reset"}) \cup {"confirm"}
          /\ {"login", "reset"} = {"login"} \cup {"reset"}
      BY DEF Kinds
    <2> QED BY <2>1, <2>2, <2>3, Zenon
  <1>2. IsFiniteSet(Kinds \X Origins) /\ IsFiniteSet({"login", "reset"} \X Origins)
    BY <1>1, FS_Product, BoundsAssumption
  <1> QED BY <1>2, FS_CardinalityType, BoundsAssumption DEF Buckets, Keys

\* What a request at some place is, whatever its place.
LEMMA RequestTyped ==
    ASSUME Typed, NEW h \in Handlers, handler[h].pc # "idle"
    PROVE  /\ handler[h] \in Request
           /\ handler[h] # Idle
           /\ KeyOf(h) \in Kinds \X Origins
  <1>1. handler[h] \in Request
    BY DEF Typed, Idle
  <1> QED BY <1>1 DEF KeyOf, Request, Idle

LEMMA IdleIsNoRequest == Idle.pc = "idle" /\ \A q \in Request : q.pc # "idle" /\ q # Idle
  BY DEF Idle, Request

-----------------------------------------------------------------------------
(* Types. *)

\* The handlers' types, for the forms in which an action changes them.
LEMMA StepTyped ==
    ASSUME Typed, NEW h \in Handlers, handler[h].pc # "idle",
           NEW pc \in {"allowed", "checking", "failed", "passed", "opening", "recording",
                       "mailing", "inserting", "resetting"},
           Step(h, pc)
    PROVE  handler' \in [Handlers -> Request \cup {Idle}]
  BY RequestTyped DEF Typed, Step, Request

LEMMA LeaveTyped ==
    ASSUME Typed, NEW h \in Handlers, Leave(h)
    PROVE  handler' \in [Handlers -> Request \cup {Idle}]
  BY DEF Typed, Leave

LEMMA SweptTyped ==
    ASSUME Typed, NEW kind \in Kinds, NEW o \in Origins
    PROVE  /\ Swept(windows) \in [Buckets -> [count : 1..Limit, over : BOOLEAN] \cup {Unset}]
           /\ Current(Swept(windows), <<kind, o>>) \in [count : 0..Limit, over : BOOLEAN]
           /\ <<kind, o>> \in Buckets
  <1>1. Swept(windows) \in [Buckets -> [count : 1..Limit, over : BOOLEAN] \cup {Unset}]
    BY DEF Typed, Swept
  <1>2. <<kind, o>> \in Buckets
    BY DEF Buckets
  <1> QED BY <1>1, <1>2, BoundsAssumption DEF Current

LEMMA AllowTyped ==
    ASSUME Typed, NEW h \in Handlers, NEW kind \in Kinds, NEW o \in Origins, Allow(h, kind, o)
    PROVE  Typed'
  <1> DEFINE b == <<kind, o>>
             swept == Swept(windows)
             now == Current(swept, b)
  <1>1. /\ swept \in [Buckets -> [count : 1..Limit, over : BOOLEAN] \cup {Unset}]
        /\ now \in [count : 0..Limit, over : BOOLEAN]
        /\ b \in Buckets
    BY SweptTyped
  <1>2. requests' \in 0..MaxRequests /\ requests + 1 \in Ids
    BY BoundsAssumption DEF Allow, Typed, Ids
  <1>3. UNCHANGED <<attempts, sessions, links, used, lapsed, tries, skipped, ended>>
    BY DEF Allow, rowVars, triesVars
  <1>4. \/ windows' = swept /\ UNCHANGED <<handler, admitted>>
        \/ /\ now.count >= Limit
           /\ windows' = [swept EXCEPT ![b] = now]
           /\ UNCHANGED <<handler, admitted>>
        \/ /\ now.count < Limit
           /\ windows' = [swept EXCEPT ![b] = [now EXCEPT !.count = @ + 1]]
           /\ admitted' = [admitted EXCEPT ![b] = @ + 1]
           /\ handler' = [handler EXCEPT ![h] =
                 [pc |-> "allowed", id |-> requests + 1, kind |-> kind,
                  from |-> o, link |-> 0]]
    BY <1>1, BoundsAssumption DEF Allow
  <1> HIDE DEF b, swept, now
  <1>5. windows' \in [Buckets -> [count : 1..Limit, over : BOOLEAN] \cup {Unset}]
    BY <1>1, <1>4, BoundsAssumption
  <1>6. admitted' \in [Buckets -> Nat]
    BY <1>1, <1>4 DEF Typed
  <1>7. handler' \in [Handlers -> Request \cup {Idle}]
    <2>1. [pc |-> "allowed", id |-> requests + 1, kind |-> kind, from |-> o, link |-> 0]
              \in Request
      BY <1>2 DEF Request
    <2> QED BY <1>4, <2>1 DEF Typed
  <1> QED BY <1>2, <1>3, <1>5, <1>6, <1>7 DEF Typed

\* A failure counted is a failure.
LEMMA CountedTyped ==
    ASSUME NEW a \in Attempt \cup {Unset}
    PROVE  Counted(a) \in Attempt /\ Counted(a) # Unset
  BY UnsetAssumption, BoundsAssumption DEF Counted, Attempt

LEMMA LoginTyped ==
    ASSUME Typed, NEW h \in Handlers, Login(h)
    PROVE  Typed'
  <1>0. Typed /\ Idle.pc = "idle"
    BY DEF Idle
  <1>1. CASE LoginBlocked(h)
    <2> DEFINE k == KeyOf(h)
    <2>1. /\ handler[h].pc = "allowed" /\ handler[h].kind # "confirm"
          /\ UNCHANGED <<windows, sessions, links, used, lapsed, requests, admitted, ended>>
      BY <1>1 DEF LoginBlocked, At, rowVars
    <2>2. k \in Keys
      BY <2>1, RequestTyped DEF KeyOf, Keys, Kinds, Request
    <2>3. handler' \in [Handlers -> Request \cup {Idle}]
      BY <1>1, <2>1, StepTyped, LeaveTyped DEF LoginBlocked
    <2>4. attempts' \in [Keys -> Attempt \cup {Unset}]
      BY <1>1 DEF LoginBlocked, Typed
    <2>5. tries' \in [Keys -> Nat] /\ skipped' \in [Keys -> Nat]
      BY <1>1, <2>2 DEF LoginBlocked, Typed, triesVars
    <2> QED BY <2>1, <2>3, <2>4, <2>5 DEF Typed
  <1>2. CASE AuthenticateUser(h)
    <2>1. /\ handler[h].pc = "checking"
          /\ Step(h, "passed") \/ Step(h, "failed")
          /\ UNCHANGED <<windows, attempts, sessions, links, used, lapsed, requests, admitted,
                         skipped, ended>>
      BY <1>2 DEF AuthenticateUser, At, rowVars, limiterVars
    <2>2. handler' \in [Handlers -> Request \cup {Idle}]
      BY <2>1, StepTyped
    <2>3. tries' \in [Keys -> Nat]
      BY <1>2 DEF AuthenticateUser, Typed
    <2> QED BY <2>1, <2>2, <2>3 DEF Typed
  <1>3. CASE RecordLoginFailure(h)
    <2>1. /\ handler[h].pc \in {"failed", "recording"}
          /\ Leave(h) \/ Step(h, "mailing")
          /\ UNCHANGED <<windows, sessions, links, used, lapsed, requests, admitted,
                         tries, ended>>
      BY <1>3 DEF RecordLoginFailure, At, rowVars
    <2>2. handler' \in [Handlers -> Request \cup {Idle}]
      BY <2>1, StepTyped, LeaveTyped
    <2>3. attempts' \in [Keys -> Attempt \cup {Unset}] /\ skipped' \in [Keys -> Nat]
      BY <1>3, CountedTyped DEF RecordLoginFailure, Typed
    <2> QED BY <2>1, <2>2, <2>3 DEF Typed
  <1>4. CASE RecordLoginSuccess(h)
    <2>1. /\ handler[h].pc = "passed"
          /\ Step(h, "opening")
          /\ UNCHANGED <<windows, sessions, links, used, lapsed, requests, admitted, ended>>
      BY <1>4 DEF RecordLoginSuccess, At, rowVars
    <2>2. handler' \in [Handlers -> Request \cup {Idle}]
      BY <2>1, StepTyped
    <2>3. /\ attempts' \in [Keys -> Attempt \cup {Unset}]
          /\ tries' \in [Keys -> Nat] /\ skipped' \in [Keys -> Nat]
      BY <1>4 DEF RecordLoginSuccess, Forget, Typed
    <2> QED BY <2>1, <2>2, <2>3 DEF Typed
  <1>5. CASE CreateSession(h)
    <2>1. handler[h].id \in Ids
      BY <1>5, RequestTyped DEF CreateSession, At, Request
    <2>2. handler' \in [Handlers -> Request \cup {Idle}]
      BY <1>5, LeaveTyped DEF CreateSession
    <2> QED BY <1>5, <2>1, <2>2 DEF CreateSession, Typed, limiterVars, historyVars, triesVars
  <1> QED BY <1>1, <1>2, <1>3, <1>4, <1>5 DEF Login

LEMMA PasswordResetTyped ==
    ASSUME Typed, NEW h \in Handlers, PasswordReset(h)
    PROVE  Typed'
  <1>1. CASE DeleteLinks(h)
    <2>1. handler' \in [Handlers -> Request \cup {Idle}]
      BY <1>1, StepTyped, LeaveTyped DEF DeleteLinks, At
    <2> QED BY <1>1, <2>1 DEF DeleteLinks, Typed, limiterVars, historyVars, triesVars
  <1>2. CASE InsertLink(h)
    <2>1. handler[h].id \in Ids
      BY <1>2, RequestTyped DEF InsertLink, At, Request
    <2>2. handler' \in [Handlers -> Request \cup {Idle}]
      BY <1>2, LeaveTyped DEF InsertLink
    <2> QED BY <1>2, <2>1, <2>2 DEF InsertLink, Typed, limiterVars, historyVars, triesVars
  <1>3. CASE ReadLink(h)
    <2>1. handler' \in [Handlers -> Request \cup {Idle}]
      <3>1. CASE Leave(h)
        BY <3>1, LeaveTyped
      <3>2. CASE \E l \in links \ (used \cup lapsed) :
                    handler' = [handler EXCEPT ![h].pc = "resetting", ![h].link = l]
        <4>1. PICK l \in links :
                  handler' = [handler EXCEPT ![h].pc = "resetting", ![h].link = l]
          BY <3>2
        <4>2. handler[h] \in Request /\ l \in Ids
          BY <1>3, RequestTyped DEF ReadLink, At, Typed
        <4>3. [handler[h] EXCEPT !.pc = "resetting", !.link = l] \in Request
          BY <4>2 DEF Request
        <4>4. handler' =
                  [handler EXCEPT ![h] = [handler[h] EXCEPT !.pc = "resetting", !.link = l]]
          BY <4>1
        <4> QED BY <4>3, <4>4 DEF Typed
      <3> QED BY <1>3, <3>1, <3>2 DEF ReadLink
    <2> QED BY <1>3, <2>1
            DEF ReadLink, Typed, limiterVars, rowVars, historyVars, triesVars
  <1>4. CASE ConsumeLink(h)
    <2>1. handler' \in [Handlers -> Request \cup {Idle}]
      BY <1>4, LeaveTyped DEF ConsumeLink
    <2> QED BY <1>4, <2>1 DEF ConsumeLink, Typed, limiterVars, triesVars
  <1> QED BY <1>1, <1>2, <1>3, <1>4 DEF PasswordReset

LEMMA OthersTyped ==
    ASSUME Typed, (\E s \in Ids : DeleteSession(s)) \/ ResetUserPassword \/ Time \/ Restart
    PROVE  Typed'
  <1>1. CASE \E s \in Ids : DeleteSession(s)
    BY <1>1 DEF DeleteSession, Typed, limiterVars, historyVars, triesVars
  <1>2. CASE ResetUserPassword
    BY <1>2, BoundsAssumption DEF ResetUserPassword, Typed, limiterVars, triesVars
  <1>3. CASE \E b \in Buckets : WindowEnds(b)
    <2>1. PICK b \in Buckets : WindowEnds(b)
      BY <1>3
    <2>2. windows' \in [Buckets -> [count : 1..Limit, over : BOOLEAN] \cup {Unset}]
      BY <2>1 DEF WindowEnds, Typed
    <2> QED BY <2>1, <2>2 DEF WindowEnds, Typed, rowVars, triesVars
  <1>4. CASE \E k \in Keys : LockEnds(k)
    BY <1>4 DEF LockEnds, Held, Attempt, Typed, rowVars, historyVars, triesVars
  <1>5. CASE \E i \in Ids : Lapse(i)
    BY <1>5 DEF Lapse, Typed, limiterVars, rowVars, historyVars, triesVars
  <1>6. CASE Restart
    BY <1>6, BoundsAssumption DEF Restart, Typed, rowVars
  <1> QED BY <1>1, <1>2, <1>3, <1>4, <1>5, <1>6 DEF Time

LEMMA NextTyped ==
    ASSUME Typed, [Next]_vars
    PROVE  Typed'
  <1>1. CASE UNCHANGED vars
    BY <1>1 DEF vars, Typed, limiterVars, rowVars, historyVars, triesVars
  <1> QED BY <1>1, AllowTyped, LoginTyped, PasswordResetTyped, OthersTyped DEF Next

-----------------------------------------------------------------------------
(* Windows. *)

LEMMA OpenFinite ==
    ASSUME NEW w
    PROVE  IsFiniteSet(Open(w)) /\ Cardinality(Open(w)) \in Nat
  <1>1. Open(w) \subseteq Buckets
    BY DEF Open
  <1> QED BY <1>1, Finite, FS_Subset, FS_CardinalityType

\* Fewer windows are open when each that is open was before.
LEMMA FewerOpen ==
    ASSUME NEW w, NEW v, Open(v) \subseteq Open(w)
    PROVE  Cardinality(Open(v)) <= Cardinality(Open(w))
  BY OpenFinite, FS_Subset

\* A sweep drops windows that are over, and nothing else.
LEMMA SweptKeeps ==
    ASSUME Typed
    PROVE  /\ \A b \in Buckets :
                  \/ Swept(windows)[b] = windows[b]
                  \/ /\ Swept(windows)[b] = Unset
                     /\ windows[b] # Unset /\ windows[b].over
           /\ Open(Swept(windows)) \subseteq Open(windows)
  BY DEF Typed, Swept, Open

LEMMA AllowCounts ==
    ASSUME Typed, WindowsCount, NEW h \in Handlers, NEW kind \in Kinds, NEW o \in Origins,
           Allow(h, kind, o)
    PROVE  WindowsCount'
  <1> DEFINE b == <<kind, o>>
             swept == Swept(windows)
             now == Current(swept, b)
             Let(w, c) == IF w[c] = Unset \/ w[c].over THEN 0 ELSE w[c].count
  <1>1. /\ swept \in [Buckets -> [count : 1..Limit, over : BOOLEAN] \cup {Unset}]
        /\ now \in [count : 0..Limit, over : BOOLEAN]
        /\ b \in Buckets
    BY SweptTyped
  <1>2. /\ now = IF swept[b] = Unset \/ swept[b].over THEN [count |-> 0, over |-> FALSE]
                 ELSE swept[b]
        /\ now.over = FALSE
        /\ now.count = Let(swept, b)
    BY <1>1 DEF Current
  <1>3. \A c \in Buckets : admitted[c] = Let(swept, c)
    BY <1>1, SweptKeeps DEF WindowsCount
  <1>4. Cardinality(Open(swept)) <= MaxWindows
    BY SweptKeeps, FewerOpen, OpenFinite, BoundsAssumption DEF WindowsCount
  <1>5. \/ windows' = swept /\ UNCHANGED <<handler, admitted>>
        \/ /\ now.count >= Limit
           /\ windows' = [swept EXCEPT ![b] = now]
           /\ UNCHANGED <<handler, admitted>>
        \/ /\ now.count < Limit
           /\ swept[b] # Unset \/ Cardinality(Open(swept)) < MaxWindows
           /\ windows' = [swept EXCEPT ![b] = [now EXCEPT !.count = @ + 1]]
           /\ admitted' = [admitted EXCEPT ![b] = @ + 1]
    BY <1>1, BoundsAssumption DEF Allow
  <1> HIDE DEF b, swept, now
  <1>6. CASE windows' = swept /\ UNCHANGED admitted
    BY <1>3, <1>4, <1>6 DEF WindowsCount
  <1>7. CASE /\ now.count >= Limit
             /\ windows' = [swept EXCEPT ![b] = now]
             /\ UNCHANGED admitted
    <2>1. now = swept[b]
      BY <1>1, <1>2, <1>7, BoundsAssumption
    <2>2. windows' = swept
      BY <1>1, <1>7, <2>1
    <2> QED BY <1>3, <1>4, <1>7, <2>2 DEF WindowsCount
  <1>8. CASE /\ now.count < Limit
             /\ swept[b] # Unset \/ Cardinality(Open(swept)) < MaxWindows
             /\ windows' = [swept EXCEPT ![b] = [now EXCEPT !.count = @ + 1]]
             /\ admitted' = [admitted EXCEPT ![b] = @ + 1]
    <2>1. /\ windows'[b].count = now.count + 1 /\ windows'[b].over = FALSE
          /\ windows'[b] # Unset
      <3>1. windows'[b] = [now EXCEPT !.count = @ + 1]
        BY <1>1, <1>8
      <3>2. [now EXCEPT !.count = @ + 1] \in [count : Nat, over : BOOLEAN]
        BY <1>1, BoundsAssumption
      <3>3. windows'[b] # Unset
        BY <3>1, <3>2, UnsetAssumption
      <3> QED BY <1>1, <1>2, <3>1, <3>3
    <2>2. \A c \in Buckets \ {b} : windows'[c] = swept[c] /\ admitted'[c] = admitted[c]
      BY <1>1, <1>8 DEF Typed
    <2>3. admitted'[b] = now.count + 1
      BY <1>1, <1>2, <1>3, <1>8 DEF Typed
    <2>4. \A c \in Buckets : admitted'[c] = Let(windows', c)
      BY <1>3, <2>1, <2>2, <2>3
    <2>5. Open(windows') = Open(swept) \cup {b}
      BY <1>1, <2>1, <2>2 DEF Open
    <2>6. Cardinality(Open(windows')) <= MaxWindows
      <3>1. b \in Open(swept) \/ Cardinality(Open(swept)) < MaxWindows
        BY <1>1, <1>8 DEF Open
      <3>2. Cardinality(Open(windows')) =
                IF b \in Open(swept) THEN Cardinality(Open(swept))
                ELSE Cardinality(Open(swept)) + 1
        BY <2>5, OpenFinite, FS_AddElement
      <3> QED BY <1>4, <3>1, <3>2, OpenFinite, BoundsAssumption
    <2> QED BY <2>4, <2>6 DEF WindowsCount
  <1> QED BY <1>5, <1>6, <1>7, <1>8

LEMMA NextWindows ==
    ASSUME Typed, WindowsCount, [Next]_vars
    PROVE  WindowsCount'
  <1>1. ASSUME UNCHANGED <<windows, admitted>> PROVE WindowsCount'
    BY <1>1 DEF WindowsCount
  <1>2. CASE UNCHANGED vars
    BY <1>1, <1>2 DEF vars, limiterVars, historyVars
  <1>3. CASE \E h \in Handlers : Login(h) \/ PasswordReset(h)
    BY <1>1, <1>3
       DEF Login, PasswordReset, LoginBlocked, AuthenticateUser, RecordLoginFailure,
           RecordLoginSuccess, CreateSession, DeleteLinks, InsertLink, ReadLink, ConsumeLink,
           limiterVars, historyVars
  <1>4. CASE \/ \E s \in Ids : DeleteSession(s)
             \/ ResetUserPassword
             \/ \E k \in Keys : LockEnds(k)
             \/ \E i \in Ids : Lapse(i)
    BY <1>1, <1>4 DEF DeleteSession, ResetUserPassword, LockEnds, Lapse, limiterVars, historyVars
  <1>5. CASE \E b \in Buckets : WindowEnds(b)
    <2>1. PICK b \in Buckets : WindowEnds(b)
      BY <1>5
    <2>2. /\ \A c \in Buckets \ {b} : windows'[c] = windows[c] /\ admitted'[c] = admitted[c]
          /\ windows'[b] = Unset \/ windows'[b].over
          /\ windows[b] = Unset => windows'[b] = Unset
          /\ admitted'[b] = 0
      BY <2>1 DEF WindowEnds, Typed
    <2>3. \A c \in Buckets :
            admitted'[c] = IF windows'[c] = Unset \/ windows'[c].over THEN 0
                           ELSE windows'[c].count
      BY <2>2 DEF WindowsCount
    <2>4. Open(windows') \subseteq Open(windows)
      BY <2>2 DEF Open
    <2>5. Cardinality(Open(windows')) <= MaxWindows
      BY <2>4, FewerOpen, OpenFinite, BoundsAssumption DEF WindowsCount
    <2> QED BY <2>3, <2>5 DEF WindowsCount
  <1>6. CASE Restart
    <2>1. /\ windows' = [b \in Buckets |-> Unset] /\ admitted' = [b \in Buckets |-> 0]
      BY <1>6 DEF Restart
    <2>2. Open(windows') = {}
      BY <2>1 DEF Open
    <2>3. Cardinality(Open(windows')) = 0 /\ 0 <= MaxWindows
      BY <2>2, FS_EmptySet, BoundsAssumption
    <2>4. \A b \in Buckets : windows'[b] = Unset /\ admitted'[b] = 0
      BY <2>1
    <2> QED BY <2>3, <2>4 DEF WindowsCount
  <1> QED BY <1>2, <1>3, <1>4, <1>5, <1>6, AllowCounts DEF Next, Time

-----------------------------------------------------------------------------
(* Failures. *)

LEMMA SetsFinite ==
    ASSUME NEW k
    PROVE  /\ IsFiniteSet(Pending(k)) /\ Cardinality(Pending(k)) \in Nat
           /\ IsFiniteSet(Through(k)) /\ Cardinality(Through(k)) \in Nat
           /\ Cardinality(Pending(k)) <= Cardinality(Through(k))
           /\ Cardinality(Through(k)) <= Cardinality(Handlers)
  <1>1. Pending(k) \subseteq Through(k) /\ Through(k) \subseteq Handlers
    BY DEF Pending, Through
  <1> QED BY <1>1, Finite, FS_Subset, FS_CardinalityType

\* AttemptsCount gives the bound on the attempts.
LEMMA Bounded ==
    ASSUME Typed, AttemptsCount
    PROVE  AttemptsBounded
  <1> SUFFICES ASSUME NEW k \in Keys
               PROVE  tries[k] <= MaxFails + Cardinality(Handlers) - 1 + skipped[k]
    BY DEF AttemptsBounded
  <1>1. tries[k] \in Nat /\ skipped[k] \in Nat /\ Fails(k) \in Nat /\ MaxFails \in Nat \ {0}
    BY BoundsAssumption DEF Typed, Fails, Attempt
  <1>2. FailuresCount(k)
    BY DEF AttemptsCount
  <1>3. CASE Locked(k)
    BY <1>1, <1>2, <1>3, SetsFinite, Finite DEF FailuresCount
  <1>4. CASE ~ Locked(k)
    <2>1. Fails(k) < MaxFails
      BY <1>1, <1>2, <1>4 DEF FailuresCount, Fails
    <2> QED BY <1>1, <1>2, <2>1, SetsFinite, Finite DEF FailuresCount
  <1> QED BY <1>3, <1>4

\* How the two sets of a key change when handler h becomes q.
LEMMA SetsAfter ==
    ASSUME Typed, NEW h \in Handlers, NEW q, NEW k,
           handler' = [handler EXCEPT ![h] = q]
    PROVE  /\ Pending(k)' = (Pending(k) \ {h}) \cup
                 (IF q.pc \in {"failed", "recording"} /\ <<q.kind, q.from>> = k
                  THEN {h} ELSE {})
           /\ Through(k)' = (Through(k) \ {h}) \cup
                 (IF q.pc \in {"checking", "failed", "recording"} /\ <<q.kind, q.from>> = k
                  THEN {h} ELSE {})
  <1>1. \A g \in Handlers : handler'[g] = IF g = h THEN q ELSE handler[g]
    BY DEF Typed
  <1> QED BY <1>1 DEF Pending, Through, KeyOf

\* Nothing changes when h was not through and is not.
LEMMA SetsKept ==
    ASSUME Typed, NEW h \in Handlers, NEW q, NEW k,
           handler' = [handler EXCEPT ![h] = q],
           handler[h].pc \notin {"checking", "failed", "recording"},
           q.pc \notin {"checking", "failed", "recording"}
    PROVE  Pending(k)' = Pending(k) /\ Through(k)' = Through(k)
  <1>1. \A g \in Handlers : handler'[g] = IF g = h THEN q ELSE handler[g]
    BY DEF Typed
  <1> QED BY <1>1 DEF Pending, Through, KeyOf

\* Sets of other keys than that of h do not change either, when h keeps its key.
LEMMA OtherKeysKept ==
    ASSUME Typed, NEW h \in Handlers, NEW q, NEW k, k # KeyOf(h),
           handler' = [handler EXCEPT ![h] = q],
           q.pc \in {"checking", "failed", "recording"} =>
               q.kind = handler[h].kind /\ q.from = handler[h].from
    PROVE  Pending(k)' = Pending(k) /\ Through(k)' = Through(k)
  <1>1. \A g \in Handlers : handler'[g] = IF g = h THEN q ELSE handler[g]
    BY DEF Typed
  <1> QED BY <1>1 DEF Pending, Through, KeyOf

\* What a step that leaves the sets and the record of a key alone preserves.
LEMMA CountKept ==
    ASSUME NEW k, FailuresCount(k), Pending(k)' = Pending(k), Through(k)' = Through(k),
           attempts'[k] = attempts[k], tries'[k] = tries[k], skipped'[k] = skipped[k]
    PROVE  FailuresCount(k)'
  BY DEF FailuresCount, Fails, Locked

\* A record that is cleared, with the attempts that are still pending.
LEMMA CountCleared ==
    ASSUME NEW k, attempts'[k] = Unset, skipped'[k] = 0, tries'[k] \in Nat,
           tries'[k] <= Cardinality(Pending(k)')
    PROVE  FailuresCount(k)'
  <1>1. Pending(k)' \subseteq Handlers
    BY DEF Pending
  <1>2. Cardinality(Pending(k)') \in Nat
    BY <1>1, Finite, FS_Subset, FS_CardinalityType
  <1> QED BY <1>2 DEF FailuresCount, Fails, Locked

\* As many records as before, at most.
LEMMA FewerRecords ==
    ASSUME AttemptsCount, \A k \in Keys : attempts'[k] # Unset => attempts[k] # Unset
    PROVE  Cardinality({k \in Keys : attempts'[k] # Unset}) <= MaxKeys
  <1>1. {k \in Keys : attempts'[k] # Unset} \subseteq {k \in Keys : attempts[k] # Unset}
    OBVIOUS
  <1>2. {k \in Keys : attempts[k] # Unset} \subseteq Keys
    OBVIOUS
  <1> QED BY <1>1, <1>2, Finite, FS_Subset, FS_CardinalityType, BoundsAssumption
          DEF AttemptsCount

\* A step of a request that neither was through nor is, and touches no record.
LEMMA NeutralCounts ==
    ASSUME Typed, AttemptsCount, NEW h \in Handlers, NEW q,
           handler' = [handler EXCEPT ![h] = q],
           handler[h].pc \notin {"checking", "failed", "recording"},
           q.pc \notin {"checking", "failed", "recording"},
           UNCHANGED <<attempts, tries, skipped>>
    PROVE  AttemptsCount'
  <1>1. \A k \in Keys : Pending(k)' = Pending(k) /\ Through(k)' = Through(k)
    BY SetsKept
  <1>2. \A k \in Keys : FailuresCount(k)'
    BY <1>1, CountKept DEF AttemptsCount
  <1> QED BY <1>2 DEF AttemptsCount

LEMMA KeyTyped ==
    ASSUME Typed, NEW h \in Handlers, handler[h].pc # "idle", handler[h].kind # "confirm"
    PROVE  KeyOf(h) \in Keys
  BY RequestTyped DEF KeyOf, Keys, Kinds, Request

\* The numbers of a key that the proofs reckon with.
LEMMA NumbersTyped ==
    ASSUME Typed, NEW k \in Keys
    PROVE  /\ tries[k] \in Nat /\ skipped[k] \in Nat /\ Fails(k) \in Nat
           /\ MaxFails \in Nat \ {0} /\ Cardinality(Handlers) \in Nat
           /\ Cardinality(Pending(k)) \in Nat /\ Cardinality(Through(k)) \in Nat
  BY Finite, SetsFinite, BoundsAssumption DEF Typed, Fails, Attempt

LEMMA LoginBlockedCounts ==
    ASSUME Typed, AttemptsCount, NEW h \in Handlers, LoginBlocked(h)
    PROVE  AttemptsCount'
  <1>0. PICK k : k = KeyOf(h)
    OBVIOUS
  <1>1. /\ handler[h].pc = "allowed" /\ handler[h].kind # "confirm"
        /\ handler[h] \in Request /\ k \in Keys
    BY <1>0, KeyTyped, RequestTyped DEF LoginBlocked, At
  <1>2. CASE Held(k)
    <2>1. Leave(h) /\ UNCHANGED <<attempts, tries, skipped>>
      BY <1>0, <1>2 DEF LoginBlocked, triesVars
    <2> QED BY <1>1, <2>1, NeutralCounts, IdleIsNoRequest DEF Leave
  <1>3. CASE ~ Held(k)
    <2>1. PICK q : q = [handler[h] EXCEPT !.pc =
                           IF handler[h].kind = "login" THEN "checking" ELSE "recording"]
      OBVIOUS
    <2>2. /\ handler' = [handler EXCEPT ![h] = q]
          /\ IF Past(k)
             THEN /\ attempts' = [attempts EXCEPT ![k] = Unset]
                  /\ tries' = [tries EXCEPT ![k] = IF handler[h].kind = "reset" THEN 1 ELSE 0]
                  /\ skipped' = [skipped EXCEPT ![k] = 0]
             ELSE /\ tries' = [tries EXCEPT ![k] = IF handler[h].kind = "reset"
                                                   THEN @ + 1 ELSE @]
                  /\ UNCHANGED <<attempts, skipped>>
      BY <1>0, <1>3, <2>1, Zenon DEF LoginBlocked, Step
    <2>3. /\ q.pc = IF handler[h].kind = "login" THEN "checking" ELSE "recording"
          /\ q.kind = handler[h].kind /\ q.from = handler[h].from
          /\ handler[h].kind \in {"login", "reset"}
      BY <1>1, <2>1 DEF Request, Kinds
    <2>4. \A c \in Keys \ {k} : FailuresCount(c)'
      <3>1. \A c \in Keys \ {k} : Pending(c)' = Pending(c) /\ Through(c)' = Through(c)
        BY <1>0, <2>2, <2>3, OtherKeysKept
      <3>2. \A c \in Keys \ {k} :
                attempts'[c] = attempts[c] /\ tries'[c] = tries[c] /\ skipped'[c] = skipped[c]
        BY <2>2 DEF Typed
      <3> QED BY <3>1, <3>2, CountKept DEF AttemptsCount
    <2>5. h \notin Pending(k) /\ h \notin Through(k)
      BY <1>1 DEF Pending, Through
    <2>6. /\ Pending(k)' = IF handler[h].kind = "reset" THEN Pending(k) \cup {h} ELSE Pending(k)
          /\ Cardinality(Pending(k)') = IF handler[h].kind = "reset"
                                        THEN Cardinality(Pending(k)) + 1
                                        ELSE Cardinality(Pending(k))
      <3>1. \A g \in Handlers : handler'[g] = IF g = h THEN q ELSE handler[g]
        BY <2>2 DEF Typed
      <3>2. <<q.kind, q.from>> = k
        BY <1>0, <2>3 DEF KeyOf
      <3>3. Pending(k)' = IF handler[h].kind = "reset" THEN Pending(k) \cup {h} ELSE Pending(k)
        BY <2>3, <2>5, <3>1, <3>2 DEF Pending, KeyOf
      <3> QED BY <2>5, <3>3, SetsFinite, FS_AddElement
    <2>7. FailuresCount(k)'
      <3>1. CASE Past(k)
        <4>1. /\ attempts'[k] = Unset /\ skipped'[k] = 0
              /\ tries'[k] = IF handler[h].kind = "reset" THEN 1 ELSE 0
          BY <1>1, <2>2, <3>1 DEF Typed
        <4>2. tries'[k] \in Nat /\ tries'[k] <= Cardinality(Pending(k)')
          BY <1>1, <2>6, <4>1, NumbersTyped
        <4> QED BY <4>1, <4>2, CountCleared
      <3>2. CASE ~ Past(k)
        <4>1. /\ attempts'[k] = attempts[k] /\ skipped'[k] = skipped[k]
              /\ tries'[k] = IF handler[h].kind = "reset" THEN tries[k] + 1 ELSE tries[k]
          BY <1>1, <2>2, <3>2 DEF Typed
        <4>2. ~ Locked(k)
          BY <1>1, <1>3, <3>2 DEF Locked, Held, Past, Typed, Attempt
        <4>3. /\ tries[k] <= Fails(k) + skipped[k] + Cardinality(Pending(k))
              /\ attempts[k] # Unset => Fails(k) < MaxFails
          BY <1>1, <4>2 DEF AttemptsCount, FailuresCount
        <4>4. Fails(k)' = Fails(k) /\ ~ Locked(k)'
          BY <4>1, <4>2 DEF Fails, Locked
        <4>5. tries'[k] <= Fails(k) + skipped[k] + Cardinality(Pending(k)')
          BY <1>1, <2>6, <4>1, <4>3, NumbersTyped
        <4> QED BY <4>1, <4>3, <4>4, <4>5 DEF FailuresCount
      <3> QED BY <3>1, <3>2
    <2>8. Cardinality({c \in Keys : attempts'[c] # Unset}) <= MaxKeys
      <3>1. \A c \in Keys : attempts'[c] # Unset => attempts[c] # Unset
        BY <2>2 DEF Typed
      <3> QED BY <3>1, FewerRecords
    <2> QED BY <2>4, <2>7, <2>8 DEF AttemptsCount
  <1> QED BY <1>2, <1>3

LEMMA AuthenticateUserCounts ==
    ASSUME Typed, AttemptsCount, NEW h \in Handlers, AuthenticateUser(h),
           handler[h].kind # "confirm"
    PROVE  AttemptsCount'
  <1>0. PICK k : k = KeyOf(h)
    OBVIOUS
  <1>1. /\ handler[h].pc = "checking" /\ handler[h] \in Request /\ k \in Keys
        /\ UNCHANGED <<attempts, skipped>>
    BY <1>0, KeyTyped, RequestTyped DEF AuthenticateUser, At, limiterVars
  <1>2. PICK q : /\ handler' = [handler EXCEPT ![h] = q]
                 /\ \/ q.pc = "passed" /\ UNCHANGED tries
                    \/ q.pc = "failed" /\ tries' = [tries EXCEPT ![k] = @ + 1]
                 /\ q.kind = handler[h].kind /\ q.from = handler[h].from
    <2>1. CASE Step(h, "passed") /\ UNCHANGED tries
      <3>1. PICK q : q = [handler[h] EXCEPT !.pc = "passed"]
        OBVIOUS
      <3>2. q.pc = "passed" /\ q.kind = handler[h].kind /\ q.from = handler[h].from
        BY <1>1, <3>1 DEF Request
      <3>3. handler' = [handler EXCEPT ![h] = q]
        BY <2>1, <3>1 DEF Step
      <3> QED BY <2>1, <3>2, <3>3
    <2>2. CASE Step(h, "failed") /\ tries' = [tries EXCEPT ![k] = @ + 1]
      <3>1. PICK q : q = [handler[h] EXCEPT !.pc = "failed"]
        OBVIOUS
      <3>2. q.pc = "failed" /\ q.kind = handler[h].kind /\ q.from = handler[h].from
        BY <1>1, <3>1 DEF Request
      <3>3. handler' = [handler EXCEPT ![h] = q]
        BY <2>2, <3>1 DEF Step
      <3> QED BY <2>2, <3>2, <3>3
    <2> QED BY <1>0, <2>1, <2>2 DEF AuthenticateUser
  <1>3. \A c \in Keys \ {k} : FailuresCount(c)'
    <2>1. \A c \in Keys \ {k} : Pending(c)' = Pending(c) /\ Through(c)' = Through(c)
      BY <1>0, <1>2, OtherKeysKept
    <2>2. \A c \in Keys \ {k} : tries'[c] = tries[c]
      BY <1>2 DEF Typed
    <2> QED BY <1>1, <2>1, <2>2, CountKept DEF AttemptsCount
  <1>4. /\ h \notin Pending(k) /\ <<q.kind, q.from>> = k
        /\ \A g \in Handlers : handler'[g] = IF g = h THEN q ELSE handler[g]
    BY <1>0, <1>1, <1>2 DEF Pending, KeyOf, Typed
  <1>5. /\ Pending(k)' = IF q.pc = "failed" THEN Pending(k) \cup {h} ELSE Pending(k)
        /\ Through(k)' \subseteq Through(k)
    BY <1>0, <1>1, <1>2, <1>4 DEF Pending, Through, KeyOf
  <1>6. /\ Cardinality(Pending(k)') = IF q.pc = "failed" THEN Cardinality(Pending(k)) + 1
                                      ELSE Cardinality(Pending(k))
        /\ Cardinality(Through(k)') \in Nat
        /\ Cardinality(Through(k)') <= Cardinality(Through(k))
    BY <1>4, <1>5, SetsFinite, FS_AddElement, FS_Subset, FS_CardinalityType
  <1>7. FailuresCount(k)'
    <2>1. tries'[k] = IF q.pc = "failed" THEN tries[k] + 1 ELSE tries[k]
      BY <1>1, <1>2 DEF Typed
    <2>2. FailuresCount(k) /\ Fails(k)' = Fails(k) /\ Locked(k)' = Locked(k)
      BY <1>1 DEF AttemptsCount, Fails, Locked
    <2>3. tries'[k] <= Fails(k) + skipped[k] + Cardinality(Pending(k)')
      BY <1>1, <1>6, <2>1, <2>2, NumbersTyped DEF FailuresCount
    <2>4. Locked(k) =>
              Fails(k) + Cardinality(Through(k)') <= MaxFails + Cardinality(Handlers) - 1
      BY <1>1, <1>6, <2>2, NumbersTyped DEF FailuresCount
    <2> QED BY <1>1, <2>2, <2>3, <2>4 DEF FailuresCount
  <1> QED BY <1>1, <1>3, <1>7 DEF AttemptsCount

LEMMA RecordLoginFailureCounts ==
    ASSUME Typed, AttemptsCount, NEW h \in Handlers, RecordLoginFailure(h),
           handler[h].kind # "confirm"
    PROVE  AttemptsCount'
  <1>0. PICK k : k = KeyOf(h)
    OBVIOUS
  <1>1. /\ handler[h].pc \in {"failed", "recording"} /\ handler[h] \in Request /\ k \in Keys
        /\ UNCHANGED tries
    BY <1>0, KeyTyped, RequestTyped DEF RecordLoginFailure, At
  <1>2. PICK q : /\ handler' = [handler EXCEPT ![h] = q]
                 /\ q.pc \in {"idle", "mailing"}
    <2>1. Leave(h) \/ Step(h, "mailing")
      BY DEF RecordLoginFailure
    <2>2. CASE Leave(h)
      BY <2>2, IdleIsNoRequest DEF Leave
    <2>3. CASE Step(h, "mailing")
      <3>1. [handler[h] EXCEPT !.pc = "mailing"].pc = "mailing"
        BY <1>1 DEF Request
      <3> QED BY <2>3, <3>1 DEF Step
    <2> QED BY <2>1, <2>2, <2>3
  <1>3. IF attempts[k] = Unset /\ Full
        THEN skipped' = [skipped EXCEPT ![k] = @ + 1] /\ UNCHANGED attempts
        ELSE attempts' = [attempts EXCEPT ![k] = Counted(@)] /\ UNCHANGED skipped
    BY <1>0, Zenon DEF RecordLoginFailure
  <1>4. \A c \in Keys \ {k} : FailuresCount(c)'
    <2>1. \A c \in Keys \ {k} : Pending(c)' = Pending(c) /\ Through(c)' = Through(c)
      BY <1>0, <1>2, OtherKeysKept
    <2>2. \A c \in Keys \ {k} : attempts'[c] = attempts[c] /\ skipped'[c] = skipped[c]
      BY <1>3 DEF Typed
    <2> QED BY <1>1, <2>1, <2>2, CountKept DEF AttemptsCount
  <1>5. /\ h \in Pending(k) /\ h \in Through(k)
        /\ Pending(k)' = Pending(k) \ {h} /\ Through(k)' = Through(k) \ {h}
    <2>1. \A g \in Handlers : handler'[g] = IF g = h THEN q ELSE handler[g]
      BY <1>2 DEF Typed
    <2> QED BY <1>0, <1>1, <1>2, <2>1 DEF Pending, Through, KeyOf
  <1>6. /\ Cardinality(Pending(k)') = Cardinality(Pending(k)) - 1
        /\ Cardinality(Through(k)') = Cardinality(Through(k)) - 1
    BY <1>5, SetsFinite, FS_RemoveElement
  <1>7. FailuresCount(k)
    BY <1>1 DEF AttemptsCount
  <1>8. CASE attempts[k] = Unset /\ Full
    <2>1. skipped'[k] = skipped[k] + 1 /\ attempts' = attempts
      BY <1>1, <1>3, <1>8 DEF Typed
    <2>2. tries'[k] <= Fails(k) + skipped'[k] + Cardinality(Pending(k)')
      BY <1>1, <1>6, <1>7, <2>1, NumbersTyped DEF FailuresCount
    <2>3. FailuresCount(k)'
      BY <1>8, <2>1, <2>2 DEF FailuresCount, Fails, Locked
    <2> QED BY <1>4, <2>1, <2>3 DEF AttemptsCount
  <1>9. CASE ~ (attempts[k] = Unset /\ Full)
    <2>1. /\ attempts'[k] = Counted(attempts[k]) /\ skipped' = skipped
          /\ \A c \in Keys \ {k} : attempts'[c] = attempts[c]
          /\ attempts[k] \in Attempt \cup {Unset}
      BY <1>1, <1>3, <1>9 DEF Typed
    <2>2. attempts'[k] \in Attempt /\ attempts'[k] # Unset
      BY <2>1, CountedTyped
    <2>3. /\ attempts'[k].fails = Fails(k) + 1
          /\ attempts'[k].lock = IF Fails(k) + 1 >= MaxFails THEN "held"
                                 ELSE IF attempts[k] = Unset \/ attempts[k].lock = "past"
                                      THEN "none" ELSE attempts[k].lock
      <3>1. CASE attempts[k] = Unset
        BY <2>1, <3>1 DEF Counted, Fails
      <3>2. CASE attempts[k] # Unset
        BY <2>1, <3>2 DEF Counted, Fails
      <3> QED BY <3>1, <3>2
    <2>4. Fails(k)' = Fails(k) + 1
      BY <2>2, <2>3 DEF Fails
    <2>5. tries'[k] <= Fails(k)' + skipped'[k] + Cardinality(Pending(k)')
      BY <1>1, <1>6, <1>7, <2>1, <2>4, NumbersTyped DEF FailuresCount
    <2>6. ~ Locked(k)' => Fails(k)' < MaxFails
      <3>1. Fails(k) + 1 >= MaxFails => attempts'[k].lock = "held"
        BY <2>3
      <3> QED BY <1>1, <2>2, <2>4, <3>1, NumbersTyped DEF Locked
    <2>7. Locked(k)' =>
              Fails(k)' + Cardinality(Through(k)') <= MaxFails + Cardinality(Handlers) - 1
      <3>1. CASE Locked(k)
        BY <1>1, <1>6, <1>7, <2>4, <3>1, NumbersTyped DEF FailuresCount
      <3>2. CASE ~ Locked(k)
        <4>1. Fails(k) < MaxFails
          BY <1>1, <1>7, <3>2, NumbersTyped DEF FailuresCount, Fails
        <4>2. Cardinality(Through(k)') <= Cardinality(Handlers) - 1
          BY <1>1, <1>6, SetsFinite, NumbersTyped
        <4>3. Cardinality(Through(k)') \in Nat
          BY <1>5, SetsFinite, FS_Subset, FS_CardinalityType
        <4> QED BY <1>1, <2>4, <4>1, <4>2, <4>3, NumbersTyped
      <3> QED BY <3>1, <3>2
    <2>8. FailuresCount(k)'
      BY <2>5, <2>6, <2>7 DEF FailuresCount
    <2>9. Cardinality({c \in Keys : attempts'[c] # Unset}) <= MaxKeys
      <3> DEFINE R == {c \in Keys : attempts[c] # Unset}
      <3>1. {c \in Keys : attempts'[c] # Unset} = R \cup {k}
        BY <1>1, <2>1, <2>2
      <3>2. IsFiniteSet(R) /\ Cardinality(R) \in Nat
        <4>1. R \subseteq Keys
          OBVIOUS
        <4> QED BY <4>1, Finite, FS_Subset, FS_CardinalityType
      <3>3. Cardinality(R \cup {k}) = IF k \in R THEN Cardinality(R) ELSE Cardinality(R) + 1
        BY <3>2, FS_AddElement
      <3>4. k \in R \/ Cardinality(R) < MaxKeys
        BY <1>1, <1>9, <3>2, BoundsAssumption DEF Full
      <3>5. Cardinality(R) <= MaxKeys
        BY DEF AttemptsCount
      <3> HIDE DEF R
      <3> QED BY <3>1, <3>2, <3>3, <3>4, <3>5, BoundsAssumption
    <2> QED BY <1>4, <2>8, <2>9 DEF AttemptsCount
  <1> QED BY <1>8, <1>9

LEMMA RecordLoginSuccessCounts ==
    ASSUME Typed, AttemptsCount, NEW h \in Handlers, RecordLoginSuccess(h),
           handler[h].kind # "confirm"
    PROVE  AttemptsCount'
  <1>0. PICK k : k = KeyOf(h)
    OBVIOUS
  <1>1. /\ handler[h].pc = "passed" /\ handler[h] \in Request /\ k \in Keys
    BY <1>0, KeyTyped, RequestTyped DEF RecordLoginSuccess, At
  <1>2. PICK q : handler' = [handler EXCEPT ![h] = q] /\ q.pc = "opening"
    <2>1. [handler[h] EXCEPT !.pc = "opening"].pc = "opening"
      BY <1>1 DEF Request
    <2> QED BY <2>1 DEF RecordLoginSuccess, Step
  <1>3. \A c \in Keys : Pending(c)' = Pending(c) /\ Through(c)' = Through(c)
    BY <1>1, <1>2, SetsKept
  <1>4. /\ attempts'[k] = Unset /\ tries'[k] = 0 /\ skipped'[k] = 0
        /\ \A c \in Keys \ {k} :
              attempts'[c] = attempts[c] /\ tries'[c] = tries[c] /\ skipped'[c] = skipped[c]
    BY <1>0, <1>1 DEF RecordLoginSuccess, Forget, Typed
  <1>5. \A c \in Keys \ {k} : FailuresCount(c)'
    BY <1>3, <1>4, CountKept DEF AttemptsCount
  <1>6. FailuresCount(k)'
    BY <1>1, <1>3, <1>4, NumbersTyped, CountCleared
  <1>7. Cardinality({c \in Keys : attempts'[c] # Unset}) <= MaxKeys
    BY <1>1, <1>4, FewerRecords
  <1> QED BY <1>5, <1>6, <1>7 DEF AttemptsCount

\* The steps of a request that have nothing to do with failures.
LEMMA OtherStepsCount ==
    ASSUME Typed, AttemptsCount, NEW h \in Handlers,
           \/ \E kind \in Kinds, o \in Origins : Allow(h, kind, o)
           \/ CreateSession(h) \/ PasswordReset(h)
    PROVE  AttemptsCount'
  <1>0. Idle.pc = "idle"
    BY DEF Idle
  <1>1. CASE \E kind \in Kinds, o \in Origins : Allow(h, kind, o)
    <2>1. PICK kind \in Kinds, o \in Origins : Allow(h, kind, o)
      BY <1>1
    <2>2. UNCHANGED <<attempts, tries, skipped>> /\ handler[h].pc = "idle"
      BY <2>1 DEF Allow, triesVars, At
    <2>3. CASE UNCHANGED handler
      BY <2>2, <2>3 DEF AttemptsCount, FailuresCount, Fails, Locked, Pending, Through, KeyOf
    <2>4. CASE handler' = [handler EXCEPT ![h] =
                              [pc |-> "allowed", id |-> requests + 1, kind |-> kind,
                               from |-> o, link |-> 0]]
      <3>1. PICK q : q = [pc |-> "allowed", id |-> requests + 1, kind |-> kind,
                          from |-> o, link |-> 0]
        OBVIOUS
      <3>2. q.pc = "allowed" /\ handler' = [handler EXCEPT ![h] = q]
        BY <2>4, <3>1
      <3> QED BY <2>2, <3>2, NeutralCounts
    <2> QED BY <2>1, <2>3, <2>4 DEF Allow
  <1>2. CASE CreateSession(h) \/ PasswordReset(h)
    <2>1. /\ UNCHANGED <<attempts, tries, skipped>>
          /\ handler[h].pc \in {"opening", "mailing", "inserting", "allowed", "resetting"}
      BY <1>2 DEF CreateSession, PasswordReset, DeleteLinks, InsertLink, ReadLink, ConsumeLink,
                  limiterVars, historyVars, triesVars, At
    <2>2. handler[h] \in Request
      BY <2>1, RequestTyped
    <2>3. \/ Leave(h) \/ Step(h, "inserting")
          \/ \E l \in links : handler' = [handler EXCEPT ![h].pc = "resetting", ![h].link = l]
      BY <1>2 DEF CreateSession, PasswordReset, DeleteLinks, InsertLink, ReadLink, ConsumeLink
    <2>4. CASE Leave(h)
      BY <1>0, <2>1, <2>4, NeutralCounts DEF Leave
    <2>5. CASE Step(h, "inserting")
      <3>1. PICK q : q = [handler[h] EXCEPT !.pc = "inserting"]
        OBVIOUS
      <3>2. q.pc = "inserting" /\ handler' = [handler EXCEPT ![h] = q]
        BY <2>2, <2>5, <3>1 DEF Step, Request
      <3> QED BY <2>1, <3>2, NeutralCounts
    <2>6. CASE \E l \in links : handler' = [handler EXCEPT ![h].pc = "resetting", ![h].link = l]
      <3>1. PICK l \in links : handler' = [handler EXCEPT ![h].pc = "resetting", ![h].link = l]
        BY <2>6
      <3>2. PICK q : q = [handler[h] EXCEPT !.pc = "resetting", !.link = l]
        OBVIOUS
      <3>3. q.pc = "resetting" /\ handler' = [handler EXCEPT ![h] = q]
        BY <2>2, <3>1, <3>2 DEF Request
      <3> QED BY <2>1, <3>3, NeutralCounts
    <2> QED BY <2>3, <2>4, <2>5, <2>6
  <1> QED BY <1>1, <1>2

LEMMA NextAttempts ==
    ASSUME Typed, AttemptsCount, PlacesRight, [Next]_vars
    PROVE  AttemptsCount'
  <1>1. ASSUME UNCHANGED <<handler, attempts, tries, skipped>> PROVE AttemptsCount'
    BY <1>1 DEF AttemptsCount, FailuresCount, Fails, Locked, Pending, Through, KeyOf
  <1>2. CASE \/ UNCHANGED vars
             \/ \E s \in Ids : DeleteSession(s)
             \/ ResetUserPassword
             \/ \E b \in Buckets : WindowEnds(b)
             \/ \E i \in Ids : Lapse(i)
    BY <1>1, <1>2
       DEF vars, DeleteSession, ResetUserPassword, WindowEnds, Lapse, limiterVars, historyVars,
           triesVars
  <1>3. CASE \E k \in Keys : LockEnds(k)
    <2>1. PICK k \in Keys : LockEnds(k)
      BY <1>3
    <2>2. /\ attempts[k] \in Attempt /\ attempts[k] # Unset /\ attempts[k].lock = "held"
          /\ UNCHANGED <<handler, tries, skipped>>
          /\ attempts'[k] = [attempts[k] EXCEPT !.lock = "past"]
          /\ \A c \in Keys \ {k} : attempts'[c] = attempts[c]
      BY <2>1 DEF LockEnds, Held, Typed, historyVars, triesVars
    <2>3. \A c \in Keys : Pending(c)' = Pending(c) /\ Through(c)' = Through(c)
      BY <2>2 DEF Pending, Through, KeyOf
    <2>4. \A c \in Keys \ {k} : FailuresCount(c)'
      BY <2>2, <2>3, CountKept DEF AttemptsCount
    <2>5. attempts'[k] \in Attempt /\ attempts'[k] # Unset
      BY <2>2, UnsetAssumption DEF Attempt
    <2>6. Fails(k)' = Fails(k) /\ Locked(k)' /\ Locked(k)
      BY <2>2, <2>5 DEF Fails, Locked, Attempt
    <2>7. FailuresCount(k)'
      BY <2>2, <2>3, <2>6 DEF AttemptsCount, FailuresCount
    <2>8. Cardinality({c \in Keys : attempts'[c] # Unset}) <= MaxKeys
      BY <2>2, FewerRecords
    <2> QED BY <2>4, <2>7, <2>8 DEF AttemptsCount
  <1>4. CASE Restart
    <2>1. \A k \in Keys : attempts'[k] = Unset /\ tries'[k] = 0 /\ skipped'[k] = 0
      BY <1>4 DEF Restart
    <2>2. \A k \in Keys : Pending(k)' \subseteq Handlers
      BY DEF Pending
    <2>3. \A k \in Keys : FailuresCount(k)'
      BY <2>1, <2>2, CountCleared, Finite, FS_Subset, FS_CardinalityType
    <2>4. Cardinality({k \in Keys : attempts'[k] # Unset}) <= MaxKeys
      BY <2>1, FewerRecords
    <2> QED BY <2>3, <2>4 DEF AttemptsCount
  <1>5. ASSUME NEW h \in Handlers, Login(h) PROVE AttemptsCount'
    <2>1. handler[h].pc \in {"checking", "failed", "recording", "passed"} =>
              handler[h].kind # "confirm"
      BY DEF PlacesRight
    <2>2. CASE AuthenticateUser(h)
      BY <2>1, <2>2, AuthenticateUserCounts DEF AuthenticateUser, At
    <2>3. CASE RecordLoginFailure(h)
      BY <2>1, <2>3, RecordLoginFailureCounts DEF RecordLoginFailure, At
    <2>4. CASE RecordLoginSuccess(h)
      BY <2>1, <2>4, RecordLoginSuccessCounts DEF RecordLoginSuccess, At
    <2> QED BY <1>5, <2>2, <2>3, <2>4, LoginBlockedCounts, OtherStepsCount DEF Login
  <1> QED BY <1>2, <1>3, <1>4, <1>5, OtherStepsCount DEF Next, Time

\* A request's kind never changes, and "confirm" takes another way.
LEMMA NextPlaces ==
    ASSUME Typed, PlacesRight, [Next]_vars
    PROVE  PlacesRight'
  <1> DEFINE Right(q) == q.pc \in {"checking", "failed", "recording", "passed"} =>
                             q.kind # "confirm"
  <1>0. Idle.pc = "idle"
    BY DEF Idle
  <1>1. CASE UNCHANGED handler
    BY <1>1 DEF PlacesRight
  <1>2. ASSUME NEW h \in Handlers, NEW q, handler' = [handler EXCEPT ![h] = q], Right(q)
        PROVE  PlacesRight'
    <2>1. \A g \in Handlers : handler'[g] = IF g = h THEN q ELSE handler[g]
      BY <1>2 DEF Typed
    <2> QED BY <1>2, <2>1 DEF PlacesRight
  <1>3. ASSUME NEW h \in Handlers, Leave(h) PROVE PlacesRight'
    BY <1>0, <1>2, <1>3 DEF Leave
  <1>4. ASSUME NEW h \in Handlers, handler[h].pc # "idle",
               NEW pc \in {"failed", "passed", "opening", "mailing", "inserting",
                           "checking", "recording"},
               Step(h, pc),
               pc \in {"failed", "passed"} => handler[h].pc = "checking",
               pc \in {"checking", "recording"} => handler[h].kind # "confirm"
        PROVE  PlacesRight'
    <2>1. PICK q : q = [handler[h] EXCEPT !.pc = pc]
      OBVIOUS
    <2>2. q.pc = pc /\ q.kind = handler[h].kind
      BY <1>4, <2>1, RequestTyped DEF Request
    <2>3. handler[h].pc = "checking" => handler[h].kind # "confirm"
      BY DEF PlacesRight
    <2>4. handler' = [handler EXCEPT ![h] = q]
      BY <1>4, <2>1 DEF Step
    <2> QED BY <1>2, <1>4, <2>2, <2>3, <2>4
  <1>5. CASE \E h \in Handlers, kind \in Kinds, o \in Origins : Allow(h, kind, o)
    <2>1. PICK h \in Handlers, kind \in Kinds, o \in Origins : Allow(h, kind, o)
      BY <1>5
    <2>2. CASE handler' = [handler EXCEPT ![h] =
                              [pc |-> "allowed", id |-> requests + 1, kind |-> kind,
                               from |-> o, link |-> 0]]
      <3>1. Right([pc |-> "allowed", id |-> requests + 1, kind |-> kind,
                   from |-> o, link |-> 0])
        OBVIOUS
      <3> HIDE DEF Right
      <3> QED BY <1>2, <2>2, <3>1
    <2> QED BY <1>1, <2>1, <2>2 DEF Allow
  <1>6. ASSUME NEW h \in Handlers, Login(h) PROVE PlacesRight'
    <2>1. CASE LoginBlocked(h)
      BY <1>3, <1>4, <2>1 DEF LoginBlocked, At
    <2>2. CASE AuthenticateUser(h)
      BY <1>4, <2>2 DEF AuthenticateUser, At
    <2>3. CASE RecordLoginFailure(h)
      BY <1>3, <1>4, <2>3 DEF RecordLoginFailure, At
    <2>4. CASE RecordLoginSuccess(h)
      BY <1>4, <2>4 DEF RecordLoginSuccess, At
    <2>5. CASE CreateSession(h)
      BY <1>3, <2>5 DEF CreateSession
    <2> QED BY <1>6, <2>1, <2>2, <2>3, <2>4, <2>5 DEF Login
  <1>7. ASSUME NEW h \in Handlers, PasswordReset(h) PROVE PlacesRight'
    <2>1. CASE DeleteLinks(h)
      BY <1>3, <1>4, <2>1 DEF DeleteLinks, At
    <2>2. CASE InsertLink(h) \/ ConsumeLink(h)
      BY <1>3, <2>2 DEF InsertLink, ConsumeLink
    <2>3. CASE ReadLink(h)
      <3>1. CASE \E l \in links : handler' = [handler EXCEPT ![h].pc = "resetting", ![h].link = l]
        <4>1. PICK l \in links : handler' = [handler EXCEPT ![h].pc = "resetting", ![h].link = l]
          BY <3>1
        <4>2. PICK q : q = [handler[h] EXCEPT !.pc = "resetting", !.link = l]
          OBVIOUS
        <4>3. q.pc = "resetting" /\ handler' = [handler EXCEPT ![h] = q]
          BY <2>3, <4>1, <4>2, RequestTyped DEF ReadLink, At, Request
        <4> QED BY <1>2, <4>3
      <3> QED BY <1>3, <2>3, <3>1 DEF ReadLink
    <2> QED BY <1>7, <2>1, <2>2, <2>3 DEF PasswordReset
  <1>8. CASE Restart
    BY <1>0, <1>8 DEF Restart, PlacesRight
  <1>9. CASE (\E s \in Ids : DeleteSession(s)) \/ ResetUserPassword \/ Time \/ UNCHANGED vars
    BY <1>1, <1>9 DEF DeleteSession, ResetUserPassword, Time, WindowEnds, LockEnds, Lapse, vars
  <1> QED BY <1>5, <1>6, <1>7, <1>8, <1>9 DEF Next

-----------------------------------------------------------------------------
(* Rows. *)

Inserting == {h \in Handlers : At(h, "inserting")}

LEMMA InsertingFinite ==
    /\ IsFiniteSet(Inserting) /\ Cardinality(Inserting) \in Nat
    /\ Cardinality(Inserting) <= Cardinality(Handlers)
  <1>1. Inserting \subseteq Handlers
    BY DEF Inserting
  <1> QED BY <1>1, Finite, FS_Subset, FS_CardinalityType

LEMMA LinksFinite ==
    ASSUME Typed
    PROVE  IsFiniteSet(links) /\ Cardinality(links) \in Nat
  <1>1. links \subseteq 1..MaxRequests /\ MaxRequests \in Nat
    BY BoundsAssumption DEF Typed, Ids
  <1>2. IsFiniteSet(1..MaxRequests)
    BY <1>1, FS_Interval
  <1> QED BY <1>1, <1>2, FS_Subset, FS_CardinalityType

\* Of requests that move, only those that have deleted the older links insert one.
LEMMA NextLinks ==
    ASSUME Typed, LinksBounded, [Next]_vars
    PROVE  LinksBounded'
  <1> USE DEF Inserting
  <1>0. /\ Cardinality(links) + Cardinality(Inserting) <= Cardinality(Handlers)
        /\ Cardinality(Handlers) \in Nat
    BY Finite DEF LinksBounded
  <1>1. ASSUME links' \subseteq links, Inserting' \subseteq Inserting PROVE LinksBounded'
    <2>1. /\ Cardinality(links') <= Cardinality(links) /\ Cardinality(links') \in Nat
          /\ Cardinality(Inserting') <= Cardinality(Inserting) /\ Cardinality(Inserting') \in Nat
      BY <1>1, LinksFinite, InsertingFinite, FS_Subset, FS_CardinalityType
    <2> QED BY <1>0, <2>1, LinksFinite, InsertingFinite DEF LinksBounded
  <1>2. ASSUME links' = {} PROVE LinksBounded'
    <2>1. Inserting' \subseteq Handlers
      OBVIOUS
    <2>2. Cardinality(Inserting') <= Cardinality(Handlers) /\ Cardinality(Inserting') \in Nat
      BY <2>1, Finite, FS_Subset, FS_CardinalityType
    <2>3. Cardinality(links') = 0
      BY <1>2, FS_EmptySet
    <2> QED BY <1>0, <2>2, <2>3 DEF LinksBounded
  <1>3. ASSUME NEW h \in Handlers, NEW q, handler' = [handler EXCEPT ![h] = q],
               q.pc # "inserting"
        PROVE  Inserting' = Inserting \ {h}
    <2>1. \A g \in Handlers : handler'[g] = IF g = h THEN q ELSE handler[g]
      BY <1>3 DEF Typed
    <2> QED BY <1>3, <2>1 DEF At
  <1>4. ASSUME NEW h \in Handlers, Leave(h) PROVE Inserting' = Inserting \ {h}
    BY <1>3, <1>4, IdleIsNoRequest DEF Leave
  <1>5. ASSUME NEW h \in Handlers, handler[h].pc # "idle",
               NEW pc \in {"failed", "passed", "opening", "mailing", "checking", "recording"},
               Step(h, pc)
        PROVE  Inserting' = Inserting \ {h}
    <2>1. PICK q : q = [handler[h] EXCEPT !.pc = pc]
      OBVIOUS
    <2>2. q.pc = pc /\ handler' = [handler EXCEPT ![h] = q]
      BY <1>5, <2>1, RequestTyped DEF Request, Step
    <2> QED BY <1>3, <2>2
  <1>6. CASE \E h \in Handlers, kind \in Kinds, o \in Origins : Allow(h, kind, o)
    <2>1. PICK h \in Handlers, kind \in Kinds, o \in Origins : Allow(h, kind, o)
      BY <1>6
    <2>2. links' = links
      BY <2>1 DEF Allow, rowVars
    <2>3. CASE UNCHANGED handler
      BY <1>1, <2>2, <2>3 DEF At
    <2>4. CASE handler' = [handler EXCEPT ![h] =
                              [pc |-> "allowed", id |-> requests + 1, kind |-> kind,
                               from |-> o, link |-> 0]]
      <3>1. PICK q : q = [pc |-> "allowed", id |-> requests + 1, kind |-> kind,
                          from |-> o, link |-> 0]
        OBVIOUS
      <3>2. q.pc = "allowed" /\ handler' = [handler EXCEPT ![h] = q]
        BY <2>4, <3>1
      <3> QED BY <1>1, <1>3, <2>2, <3>2
    <2> QED BY <2>1, <2>3, <2>4 DEF Allow
  <1>7. ASSUME NEW h \in Handlers, Login(h) PROVE LinksBounded'
    <2>1. links' = links
      BY <1>7 DEF Login, LoginBlocked, AuthenticateUser, RecordLoginFailure,
                  RecordLoginSuccess, CreateSession, rowVars
    <2>2. Inserting' = Inserting \ {h}
      BY <1>4, <1>5, <1>7 DEF Login, LoginBlocked, AuthenticateUser, RecordLoginFailure,
                              RecordLoginSuccess, CreateSession, At
    <2> QED BY <1>1, <2>1, <2>2
  <1>8. ASSUME NEW h \in Handlers, PasswordReset(h) PROVE LinksBounded'
    <2>1. CASE DeleteLinks(h)
      <3>1. CASE Leave(h) /\ UNCHANGED links
        BY <1>1, <1>4, <3>1
      <3> QED BY <1>2, <2>1, <3>1 DEF DeleteLinks
    <2>2. CASE InsertLink(h)
      <3>1. h \in Inserting /\ Inserting' = Inserting \ {h}
        BY <1>4, <2>2 DEF InsertLink, At
      <3>2. CASE links' = links \cup {handler[h].id}
        <4>1. Cardinality(Inserting') = Cardinality(Inserting) - 1
          BY <3>1, InsertingFinite, FS_RemoveElement
        <4>2. /\ Cardinality(links') <= Cardinality(links) + 1
              /\ Cardinality(links') \in Nat
          BY <3>2, LinksFinite, FS_AddElement
        <4> QED BY <1>0, <4>1, <4>2, LinksFinite, InsertingFinite DEF LinksBounded
      <3>3. CASE UNCHANGED links
        BY <1>1, <3>1, <3>3
      <3> QED BY <2>2, <3>2, <3>3 DEF InsertLink
    <2>3. CASE ReadLink(h)
      <3>1. links' = links
        BY <2>3 DEF ReadLink, rowVars
      <3>2. CASE \E l \in links : handler' = [handler EXCEPT ![h].pc = "resetting", ![h].link = l]
        <4>1. PICK l \in links : handler' = [handler EXCEPT ![h].pc = "resetting", ![h].link = l]
          BY <3>2
        <4>2. PICK q : q = [handler[h] EXCEPT !.pc = "resetting", !.link = l]
          OBVIOUS
        <4>3. q.pc = "resetting" /\ handler' = [handler EXCEPT ![h] = q]
          BY <2>3, <4>1, <4>2, RequestTyped DEF ReadLink, At, Request
        <4> QED BY <1>1, <1>3, <3>1, <4>3
      <3> QED BY <1>1, <1>4, <2>3, <3>1, <3>2 DEF ReadLink
    <2>4. CASE ConsumeLink(h)
      BY <1>1, <1>4, <2>4 DEF ConsumeLink
    <2> QED BY <1>8, <2>1, <2>2, <2>3, <2>4 DEF PasswordReset
  <1>9. CASE Restart
    <2>1. links' = links /\ Inserting' = {}
      BY <1>9, IdleIsNoRequest DEF Restart, rowVars, At, Idle
    <2> QED BY <1>1, <2>1
  <1>10. CASE ResetUserPassword
    BY <1>2, <1>10 DEF ResetUserPassword
  <1>11. CASE (\E s \in Ids : DeleteSession(s)) \/ Time \/ UNCHANGED vars
    <2>1. UNCHANGED <<handler, links>>
      BY <1>11 DEF DeleteSession, Time, WindowEnds, LockEnds, Lapse, vars, rowVars
    <2> QED BY <1>1, <2>1 DEF At
  <1> QED BY <1>6, <1>7, <1>8, <1>9, <1>10, <1>11 DEF Next

\* Steps that number no request and insert no session.
LEMMA NumbersKept ==
    ASSUME Typed, NumbersFresh, SessionsEndWithReset, requests' \in Nat, requests <= requests',
           \/ sessions' \subseteq sessions /\ ended' = ended
           \/ sessions' = {} /\ ended' = ended \cup sessions,
           \A g \in Handlers : handler'[g] # Idle =>
               handler[g] # Idle /\ handler'[g].id = handler[g].id
    PROVE  NumbersFresh' /\ SessionsEndWithReset'
  <1>1. /\ \A i \in sessions \cup ended : i \in Nat
        /\ \A g \in Handlers : handler[g] # Idle => handler[g].id \in Nat
        /\ requests \in Nat
    BY BoundsAssumption DEF Typed, Ids, Request
  <1>2. sessions' \cup ended' \subseteq sessions \cup ended
    OBVIOUS
  <1>3. /\ \A i \in sessions' \cup ended' : i <= requests'
        /\ \A g \in Handlers : handler'[g] # Idle => handler'[g].id <= requests'
    BY <1>1, <1>2 DEF NumbersFresh
  <1>4. \A h \in Handlers : handler'[h] # Idle =>
          /\ handler'[h].id \notin sessions' \cup ended'
          /\ \A g \in Handlers \ {h} : handler'[g] # Idle => handler'[g].id # handler'[h].id
    BY <1>2, Zenon DEF NumbersFresh
  <1>5. SessionsEndWithReset'
    BY DEF SessionsEndWithReset
  <1> QED BY <1>3, <1>4, <1>5 DEF NumbersFresh

\* Any place of a request but the first keeps its number.
LEMMA StepKeeps ==
    ASSUME Typed, NEW h \in Handlers, handler[h].pc # "idle",
           \/ Leave(h) \/ \E pc : Step(h, pc)
           \/ \E l \in links : handler' = [handler EXCEPT ![h].pc = "resetting", ![h].link = l]
    PROVE  \A g \in Handlers : handler'[g] # Idle =>
               handler[g] # Idle /\ handler'[g].id = handler[g].id
  <1>0. handler[h] \in Request /\ handler[h] # Idle
    BY RequestTyped
  <1>1. CASE Leave(h)
    BY <1>1 DEF Leave, Typed
  <1>2. CASE \E pc : Step(h, pc)
    <2>1. PICK pc : Step(h, pc)
      BY <1>2
    <2>2. [handler[h] EXCEPT !.pc = pc].id = handler[h].id
      BY <1>0 DEF Request
    <2> QED BY <1>0, <2>1, <2>2 DEF Step, Typed
  <1>3. CASE \E l \in links :
                handler' = [handler EXCEPT ![h].pc = "resetting", ![h].link = l]
    <2>1. PICK l \in links : handler' = [handler EXCEPT ![h].pc = "resetting", ![h].link = l]
      BY <1>3
    <2>2. /\ handler' = [handler EXCEPT ![h] =
                             [handler[h] EXCEPT !.pc = "resetting", !.link = l]]
          /\ [handler[h] EXCEPT !.pc = "resetting", !.link = l].id = handler[h].id
      BY <1>0, <2>1 DEF Request
    <2> QED BY <1>0, <2>2 DEF Typed
  <1> QED BY <1>1, <1>2, <1>3

\* A session is inserted with a number that no reset has ended.
LEMMA CreateSessionFresh ==
    ASSUME Typed, NumbersFresh, SessionsEndWithReset, NEW h \in Handlers, CreateSession(h)
    PROVE  NumbersFresh' /\ SessionsEndWithReset'
  <1>1. /\ handler[h] \in Request /\ handler[h] # Idle
        /\ UNCHANGED <<requests, ended>>
        /\ \A g \in Handlers : handler'[g] = IF g = h THEN Idle ELSE handler[g]
        /\ sessions' \subseteq sessions \cup {handler[h].id}
    BY RequestTyped DEF CreateSession, At, Leave, historyVars, Typed
  <1>2. /\ handler[h].id <= requests /\ handler[h].id \notin sessions \cup ended
        /\ \A g \in Handlers \ {h} : handler[g] # Idle => handler[g].id # handler[h].id
    BY <1>1 DEF NumbersFresh
  <1> QED BY <1>1, <1>2 DEF NumbersFresh, SessionsEndWithReset

LEMMA AllowFresh ==
    ASSUME Typed, NumbersFresh, SessionsEndWithReset, NEW h \in Handlers,
           NEW kind \in Kinds, NEW o \in Origins, Allow(h, kind, o)
    PROVE  NumbersFresh' /\ SessionsEndWithReset'
  <1>1. /\ UNCHANGED <<sessions, ended>> /\ requests' = requests + 1 /\ handler[h].pc = "idle"
        /\ requests \in Nat
    BY BoundsAssumption DEF Allow, rowVars, At, Typed
  <1>2. CASE UNCHANGED handler
    BY <1>1, <1>2, NumbersKept
  <1>3. CASE handler' = [handler EXCEPT ![h] =
                            [pc |-> "allowed", id |-> requests + 1, kind |-> kind,
                             from |-> o, link |-> 0]]
    <2>1. PICK q : q = [pc |-> "allowed", id |-> requests + 1, kind |-> kind,
                        from |-> o, link |-> 0]
      OBVIOUS
    <2>2. /\ q.id = requests + 1
          /\ \A g \in Handlers : handler'[g] = IF g = h THEN q ELSE handler[g]
      BY <1>3, <2>1 DEF Typed
    <2>3. /\ \A i \in sessions \cup ended : i \in Nat /\ i <= requests
          /\ \A g \in Handlers : handler[g] # Idle =>
                handler[g].id \in Nat /\ handler[g].id <= requests
      BY BoundsAssumption DEF Typed, Ids, Request, NumbersFresh
    <2>4. requests + 1 \notin sessions \cup ended
      BY <1>1, <2>3
    <2>5. \A g \in Handlers : handler[g] # Idle => handler[g].id # requests + 1
      BY <1>1, <2>3
    <2>6. \A i \in sessions' \cup ended' : i <= requests'
      BY <1>1, <2>3
    <2>7. \A g \in Handlers : handler'[g] # Idle =>
          /\ handler'[g].id <= requests'
          /\ handler'[g].id \notin sessions' \cup ended'
          /\ \A f \in Handlers \ {g} : handler'[f] # Idle => handler'[f].id # handler'[g].id
      BY <1>1, <2>2, <2>3, <2>4, <2>5 DEF NumbersFresh
    <2> QED BY <1>1, <2>6, <2>7 DEF NumbersFresh, SessionsEndWithReset
  <1> QED BY <1>2, <1>3 DEF Allow

LEMMA NextNumbers ==
    ASSUME Typed, NumbersFresh, SessionsEndWithReset, [Next]_vars
    PROVE  NumbersFresh' /\ SessionsEndWithReset'
  <1>0. requests \in Nat
    BY BoundsAssumption DEF Typed
  <1>1. ASSUME NEW h \in Handlers, Login(h) PROVE NumbersFresh' /\ SessionsEndWithReset'
    <2>1. CASE CreateSession(h)
      BY <2>1, CreateSessionFresh
    <2>2. CASE \/ LoginBlocked(h) \/ AuthenticateUser(h)
               \/ RecordLoginFailure(h) \/ RecordLoginSuccess(h)
      <3>1. UNCHANGED <<sessions, ended, requests>> /\ handler[h].pc # "idle"
        BY <2>2 DEF LoginBlocked, AuthenticateUser, RecordLoginFailure, RecordLoginSuccess,
                    rowVars, At
      <3>2. Leave(h) \/ \E pc : Step(h, pc)
        <4>1. CASE LoginBlocked(h)
          <5>1. Leave(h) \/ Step(h, IF handler[h].kind = "login" THEN "checking" ELSE "recording")
            BY <4>1 DEF LoginBlocked
          <5> QED BY <5>1
        <4> QED BY <2>2, <4>1
                DEF AuthenticateUser, RecordLoginFailure, RecordLoginSuccess
      <3>3. \A g \in Handlers : handler'[g] # Idle =>
                 handler[g] # Idle /\ handler'[g].id = handler[g].id
        BY <3>1, <3>2, StepKeeps
      <3> QED BY <1>0, <3>1, <3>3, NumbersKept
    <2> QED BY <1>1, <2>1, <2>2 DEF Login
  <1>2. ASSUME NEW h \in Handlers, PasswordReset(h) PROVE NumbersFresh' /\ SessionsEndWithReset'
    <2>1. /\ \/ sessions' = sessions /\ ended' = ended
             \/ sessions' = {} /\ ended' = ended \cup sessions
          /\ requests' = requests /\ handler[h].pc # "idle"
          /\ \/ Leave(h) \/ \E pc : Step(h, pc)
             \/ \E l \in links : handler' = [handler EXCEPT ![h].pc = "resetting", ![h].link = l]
      <3>1. CASE DeleteLinks(h)
        <4>1. /\ sessions' = sessions /\ ended' = ended /\ requests' = requests
              /\ handler[h].pc # "idle"
          BY <3>1 DEF DeleteLinks, historyVars, At
        <4>2. Leave(h) \/ Step(h, "inserting")
          BY <3>1 DEF DeleteLinks
        <4> QED BY <4>1, <4>2
      <3>2. CASE InsertLink(h)
        BY <3>2 DEF InsertLink, historyVars, At
      <3>3. CASE ReadLink(h)
        BY <3>3 DEF ReadLink, rowVars, historyVars, At
      <3>4. CASE ConsumeLink(h)
        BY <3>4 DEF ConsumeLink, At
      <3> QED BY <1>2, <3>1, <3>2, <3>3, <3>4 DEF PasswordReset
    <2>2. \A g \in Handlers : handler'[g] # Idle =>
               handler[g] # Idle /\ handler'[g].id = handler[g].id
      BY <2>1, StepKeeps
    <2> QED BY <1>0, <2>1, <2>2, NumbersKept
  <1>3. CASE Restart
    <2>1. /\ UNCHANGED <<sessions, ended>> /\ requests' = requests + 1
          /\ \A g \in Handlers : handler'[g] = Idle
      BY <1>3 DEF Restart, rowVars
    <2> QED BY <1>0, <2>1, NumbersKept
  <1>4. CASE (\E s \in Ids : DeleteSession(s)) \/ ResetUserPassword \/ Time \/ UNCHANGED vars
    <2>1. /\ \/ sessions' \subseteq sessions /\ ended' = ended
             \/ sessions' = {} /\ ended' = ended \cup sessions
          /\ requests' \in {requests, requests + 1} /\ UNCHANGED handler
      BY <1>4 DEF DeleteSession, ResetUserPassword, Time, WindowEnds, LockEnds, Lapse, vars,
                  rowVars, historyVars
    <2> QED BY <1>0, <2>1, NumbersKept
  <1> QED BY <1>1, <1>2, <1>3, <1>4, AllowFresh DEF Next

-----------------------------------------------------------------------------
(* The invariant and what follows from it. *)

LEMMA InitSound == Init => Inv
  <1> SUFFICES ASSUME Init PROVE Inv
    OBVIOUS
  <1>1. Typed
    BY BoundsAssumption DEF Init, Typed
  <1>2. WindowsCount
    <2>1. Open(windows) = {} /\ MaxWindows \in Nat
      BY BoundsAssumption DEF Init, Open
    <2> QED BY <2>1, FS_EmptySet DEF Init, WindowsCount
  <1>3. PlacesRight
    BY DEF Init, PlacesRight, Idle
  <1>4. AttemptsCount
    <2>1. {k \in Keys : attempts[k] # Unset} = {} /\ MaxKeys \in Nat
      BY BoundsAssumption DEF Init
    <2>2. \A k \in Keys : FailuresCount(k)
      BY SetsFinite DEF Init, FailuresCount, Fails, Locked
    <2> QED BY <2>1, <2>2, FS_EmptySet DEF AttemptsCount
  <1>5. LinksBounded
    <2>1. /\ links = {} /\ {h \in Handlers : At(h, "inserting")} = {}
          /\ Cardinality(Handlers) \in Nat
      BY Finite DEF Init, At, Idle
    <2> QED BY <2>1, FS_EmptySet DEF LinksBounded
  <1> QED BY <1>1, <1>2, <1>3, <1>4, <1>5
          DEF Init, Inv, RowsCount, NumbersFresh, SessionsEndWithReset

LEMMA NextSound == Inv /\ [Next]_vars => Inv'
  BY NextTyped, NextWindows, NextPlaces, NextAttempts, NextLinks, NextNumbers
     DEF Inv, RowsCount

\* The invariant of the limiters, the links and the sessions, in every reachable state of
\* the handlers of logins and resets (server.go:240-470).
THEOREM Invariance == Spec => []Inv
  BY InitSound, NextSound, PTL DEF Spec

\* The limits hold for the password and for the links that reset it, whatever requests
\* are between the check of a lock and the record of a failure (loginBlocked and
\* recordLoginFailure, server.go:272-310), and wherever the sweeps of a full map fall
\* (fixedWindowLimiter.Allow, security.go:25).
THEOREM LimitersAlwaysBounded == Spec => []LimitersBounded
  <1>1. Inv => AttemptsBounded
    BY Bounded DEF Inv
  <1>2. Inv => WindowsBounded
    BY BoundsAssumption DEF Inv, Typed, WindowsCount, WindowsBounded
  <1> QED BY <1>1, <1>2, Invariance, PTL DEF LimitersBounded

\* A reset of the password ends every session that was open, those that a login under way
\* opens later are new, and the links of the account do not pile up
\* (CreatePasswordResetToken and ConsumePasswordResetToken, store.go:2397-2460).
THEOREM RowsAlwaysKept == Spec => []RowsKept
  <1>1. Inv => TypeOK
    <2>1. /\ Typed => handler \in [Handlers -> Request \cup {Idle}]
          /\ Typed /\ WindowsCount /\ AttemptsCount => TypeOK
      BY DEF Typed, WindowsCount, AttemptsCount, TypeOK, Open
    <2> QED BY <2>1 DEF Inv
  <1>2. Inv => LinksBounded /\ SessionsEndWithReset
    BY DEF Inv, RowsCount
  <1> QED BY <1>1, <1>2, Invariance, PTL DEF RowsKept

=============================================================================

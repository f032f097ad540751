------------------------------- MODULE Access -------------------------------
(***************************************************************************)
(* Logins, links that reset a password, and the two limiters in front of   *)
(* them (internal/app/server.go, security.go, store.go).                   *)
(*                                                                         *)
(* A request takes the window of its origin, then looks at its failures,   *)
(* then checks what it was given, then records a failure: each under its   *)
(* own lock or statement, with other requests in between. Both limiters    *)
(* are maps of bounded size in memory; sessions and links are rows.        *)
(*                                                                         *)
(* There is one account: BootstrapAdmin creates it and nothing else does.  *)
(* Whether a password is the right one is a free choice.                   *)
(***************************************************************************)
EXTENDS Naturals, FiniteSets

CONSTANTS
    Origins,    \* client addresses
    Handlers,   \* requests served at the same time
    Unset,      \* the value of what is absent
    MaxFails,   \* failures that lock a key: 5 in the code
    Limit,      \* requests per window: 30, 8 and 12 in the code
    MaxKeys,    \* capacity of loginAttempts: 8192 in the code
    SweepAbove, \* windows above which Allow sweeps: 4096 in the code
    MaxWindows, \* capacity of the window limiter: 8192 in the code
    MaxRequests \* bound: requests in all

Kinds == {"login", "reset", "confirm"}

\* "login-ip:", "password-reset-ip:" and "password-reset-confirm-ip:" with an address.
Buckets == Kinds \X Origins

\* username|ip, and reset:email|ip.
Keys == {"login", "reset"} \X Origins

\* A session or a link is known by the number of the request that inserted it.
Ids == 1..MaxRequests

ASSUME UnsetAssumption ==
    /\ Unset \notin [count : Nat, over : BOOLEAN]
    /\ Unset \notin [fails : Nat, lock : {"none", "held", "past"}]
ASSUME BoundsAssumption ==
    /\ {MaxFails, Limit, MaxKeys, MaxRequests} \subseteq Nat \ {0}
    /\ SweepAbove \in Nat /\ MaxWindows \in Nat
    /\ IsFiniteSet(Origins) /\ IsFiniteSet(Handlers)

VARIABLES
    handler,    \* the requests under way
    windows,    \* abuseLimiter.entries
    attempts,   \* loginAttempts: failures, and the lock: none, held or past
    sessions,   \* rows of sessions
    links,      \* rows of password_reset_tokens
    used,       \* the links with used_at set
    lapsed,     \* sessions and links whose expires_at has passed
    requests,   \* requests so far
    admitted,   \* history: requests a window let through since it last began
    tries,      \* history: attempts of a key since its record was last cleared
    skipped,    \* history: those of tries whose failure found the map full
    ended       \* history: sessions that were open when the password was reset

limiterVars == <<windows, attempts>>
rowVars     == <<sessions, links, used>>
triesVars   == <<tries, skipped>>
historyVars == <<admitted, triesVars, ended>>
vars == <<handler, limiterVars, rowVars, lapsed, requests, historyVars>>

Idle == [pc |-> "idle"]

Request ==
    [pc : {"allowed", "checking", "failed", "passed", "opening", "recording",
           "mailing", "inserting", "resetting"},
     id : Ids, kind : Kinds, from : Origins, link : Ids \cup {0}]

Attempt == [fails : Nat, lock : {"none", "held", "past"}]

TypeOK ==
    /\ handler \in [Handlers -> Request \cup {Idle}]
    /\ \A b \in Buckets : windows[b] \in [count : 1..Limit, over : BOOLEAN] \cup {Unset}
    /\ \A k \in Keys : attempts[k] \in Attempt \cup {Unset}
    /\ sessions \cup links \cup used \cup lapsed \cup ended \subseteq Ids
    /\ requests \in 0..MaxRequests
    /\ Cardinality({b \in Buckets : windows[b] # Unset}) <= MaxWindows
    /\ Cardinality({k \in Keys : attempts[k] # Unset}) <= MaxKeys

Init ==
    /\ handler = [h \in Handlers |-> Idle]
    /\ windows = [b \in Buckets |-> Unset]
    /\ attempts = [k \in Keys |-> Unset]
    /\ sessions = {} /\ links = {} /\ used = {} /\ lapsed = {}
    /\ requests = 0
    /\ admitted = [b \in Buckets |-> 0]
    /\ tries = [k \in Keys |-> 0] /\ skipped = [k \in Keys |-> 0]
    /\ ended = {}

-----------------------------------------------------------------------------

KeyOf(h) == <<handler[h].kind, handler[h].from>>

At(h, pc) == handler[h].pc = pc

Step(h, pc) == handler' = [handler EXCEPT ![h].pc = pc]

Leave(h) == handler' = [handler EXCEPT ![h] = Idle]

-----------------------------------------------------------------------------
(* fixedWindowLimiter: one window per kind of request and address. *)

Open(w) == {b \in Buckets : w[b] # Unset}

\* Mutant: a sweep drops every window.
SweptEntirely(w) ==
    IF Cardinality(Open(w)) > SweepAbove THEN [b \in Buckets |-> Unset] ELSE w

\* What Allow has before it looks for the key: expired windows are only dropped
\* when there are many.
Swept(w) ==
    IF Cardinality(Open(w)) > SweepAbove
    THEN [b \in Buckets |-> IF w[b] # Unset /\ w[b].over THEN Unset ELSE w[b]]
    ELSE w

\* The window that a request for b falls in: a new one if there is none, or if the
\* one there is over.
Current(w, b) ==
    IF w[b] = Unset \/ w[b].over THEN [count |-> 0, over |-> FALSE] ELSE w[b]

Allow(h, kind, o) ==
    LET b == <<kind, o>>
        swept == Swept(windows)
        now == Current(swept, b) IN
    /\ At(h, "idle")
    /\ requests < MaxRequests
    /\ requests' = requests + 1
    /\ \/ \* a new key when the map is full
          /\ swept[b] = Unset /\ Cardinality(Open(swept)) >= MaxWindows
          /\ windows' = swept
          /\ UNCHANGED <<handler, admitted>>
       \/ /\ swept[b] # Unset \/ Cardinality(Open(swept)) < MaxWindows
          /\ IF now.count >= Limit
             THEN /\ windows' = [swept EXCEPT ![b] = now]
                  /\ UNCHANGED <<handler, admitted>>
             ELSE /\ windows' = [swept EXCEPT ![b] = [now EXCEPT !.count = @ + 1]]
                  /\ admitted' = [admitted EXCEPT ![b] = @ + 1]
                  /\ handler' = [handler EXCEPT ![h] =
                        [pc |-> "allowed", id |-> requests + 1, kind |-> kind,
                         from |-> o, link |-> 0]]
    /\ UNCHANGED <<attempts, rowVars, lapsed, triesVars, ended>>

-----------------------------------------------------------------------------
(* loginAttempts: failures by key, behind loginMu. *)

Forget(k) ==
    /\ attempts' = [attempts EXCEPT ![k] = Unset]
    /\ tries' = [tries EXCEPT ![k] = 0]
    /\ skipped' = [skipped EXCEPT ![k] = 0]

Held(k) == attempts[k] # Unset /\ attempts[k].lock = "held"
Past(k) == attempts[k] # Unset /\ attempts[k].lock = "past"

\* A request for a link is an attempt as soon as it is let through, a login when its
\* password turns out to be wrong.
LoginBlocked(h) ==
    LET k == KeyOf(h) IN
    /\ At(h, "allowed") /\ handler[h].kind # "confirm"
    /\ IF Held(k)
       THEN Leave(h) /\ UNCHANGED <<attempts, triesVars>>
       ELSE /\ Step(h, IF handler[h].kind = "login" THEN "checking" ELSE "recording")
            /\ LET reset == handler[h].kind = "reset" IN
               IF Past(k)
               THEN /\ attempts' = [attempts EXCEPT ![k] = Unset]
                    /\ tries' = [tries EXCEPT ![k] = IF reset THEN 1 ELSE 0]
                    /\ skipped' = [skipped EXCEPT ![k] = 0]
               ELSE /\ tries' = [tries EXCEPT ![k] = IF reset THEN @ + 1 ELSE @]
                    /\ UNCHANGED <<attempts, skipped>>
    /\ UNCHANGED <<windows, rowVars, lapsed, requests, admitted, ended>>

Full == Cardinality({k \in Keys : attempts[k] # Unset}) >= MaxKeys

\* Mutant: the failures start again after a lock that is over.
CountedAfresh(a) ==
    LET fails == IF a = Unset \/ a.lock = "past" THEN 1 ELSE a.fails + 1 IN
    [fails |-> fails, lock |-> IF fails >= MaxFails THEN "held" ELSE "none"]

\* The record of a key after one more failure: a lock that is over is dropped, its
\* failures are kept.
Counted(a) ==
    LET fails == IF a = Unset THEN 1 ELSE a.fails + 1 IN
    [fails |-> fails,
     lock |-> IF fails >= MaxFails THEN "held"
              ELSE IF a = Unset \/ a.lock = "past" THEN "none" ELSE a.lock]

RecordLoginFailure(h) ==
    LET k == KeyOf(h) IN
    /\ At(h, "failed") \/ At(h, "recording")
    /\ IF attempts[k] = Unset /\ Full
       THEN skipped' = [skipped EXCEPT ![k] = @ + 1] /\ UNCHANGED attempts
       ELSE attempts' = [attempts EXCEPT ![k] = Counted(@)] /\ UNCHANGED skipped
    /\ IF At(h, "failed") THEN Leave(h) ELSE Step(h, "mailing")
    /\ UNCHANGED <<windows, rowVars, lapsed, requests, admitted, tries, ended>>

-----------------------------------------------------------------------------
(* Logins and sessions. *)

AuthenticateUser(h) ==
    /\ At(h, "checking")
    /\ \/ Step(h, "passed") /\ UNCHANGED tries
       \/ Step(h, "failed") /\ tries' = [tries EXCEPT ![KeyOf(h)] = @ + 1]
    /\ UNCHANGED <<limiterVars, rowVars, lapsed, requests, admitted, skipped, ended>>

RecordLoginSuccess(h) ==
    /\ At(h, "passed")
    /\ Step(h, "opening")
    /\ Forget(KeyOf(h))
    /\ UNCHANGED <<windows, rowVars, lapsed, requests, admitted, ended>>

\* The row is inserted, or SQLite refuses it.
CreateSession(h) ==
    /\ At(h, "opening")
    /\ Leave(h)
    /\ sessions' = sessions \cup {handler[h].id} \/ UNCHANGED sessions
    /\ UNCHANGED <<limiterVars, links, used, lapsed, requests, historyVars>>

\* logout, or SessionWithUser on a session that has expired.
DeleteSession(s) ==
    /\ s \in sessions
    /\ sessions' = sessions \ {s}
    /\ UNCHANGED <<handler, limiterVars, links, used, lapsed, requests, historyVars>>

-----------------------------------------------------------------------------
(* Links. *)

\* The address is the account's or not; the older links go first, in a statement of
\* their own.
DeleteLinks(h) ==
    /\ At(h, "mailing")
    /\ \/ Leave(h) /\ UNCHANGED <<links, used>>
       \/ Step(h, "inserting") /\ links' = {} /\ used' = {}
    /\ UNCHANGED <<limiterVars, sessions, lapsed, requests, historyVars>>

\* The row is there whether or not the mail then goes out.
InsertLink(h) ==
    /\ At(h, "inserting")
    /\ Leave(h)
    /\ links' = links \cup {handler[h].id} \/ UNCHANGED links
    /\ UNCHANGED <<limiterVars, sessions, used, lapsed, requests, historyVars>>

ReadLink(h) ==
    /\ At(h, "allowed") /\ handler[h].kind = "confirm"
    /\ \/ Leave(h)
       \/ \E l \in links \ (used \cup lapsed) :
             handler' = [handler EXCEPT ![h].pc = "resetting", ![h].link = l]
    /\ UNCHANGED <<limiterVars, rowVars, lapsed, requests, historyVars>>

\* Mutant: the sessions of the account stay open.
ConsumeLinkOnly(h) ==
    /\ At(h, "resetting")
    /\ Leave(h)
    /\ used' = used \cup ({handler[h].link} \cap links)
    /\ ended' = ended \cup sessions
    /\ UNCHANGED <<limiterVars, sessions, links, lapsed, requests, admitted, triesVars>>

\* The transaction: the password, the link used, no session left. The link's row may
\* be gone since it was read.
ConsumeLink(h) ==
    /\ At(h, "resetting")
    /\ Leave(h)
    /\ used' = used \cup ({handler[h].link} \cap links)
    /\ sessions' = {}
    /\ ended' = ended \cup sessions
    /\ UNCHANGED <<limiterVars, links, lapsed, requests, admitted, triesVars>>

\* pangolite user reset-password, in a process of its own.
ResetUserPassword ==
    /\ requests < MaxRequests
    /\ requests' = requests + 1
    /\ sessions' = {} /\ links' = {} /\ used' = {}
    /\ ended' = ended \cup sessions
    /\ UNCHANGED <<handler, limiterVars, lapsed, admitted, triesVars>>

-----------------------------------------------------------------------------
(* Time, and the end of the process. *)

WindowEnds(b) ==
    /\ admitted[b] > 0
    /\ admitted' = [admitted EXCEPT ![b] = 0]
    /\ windows' = [windows EXCEPT ![b] = IF @ = Unset THEN @ ELSE [@ EXCEPT !.over = TRUE]]
    /\ UNCHANGED <<handler, attempts, rowVars, lapsed, requests, triesVars, ended>>

LockEnds(k) ==
    /\ Held(k)
    /\ attempts' = [attempts EXCEPT ![k].lock = "past"]
    /\ UNCHANGED <<handler, windows, rowVars, lapsed, requests, historyVars>>

Lapse(i) ==
    /\ i \in (sessions \cup links) \ lapsed
    /\ lapsed' = lapsed \cup {i}
    /\ UNCHANGED <<handler, limiterVars, rowVars, requests, historyVars>>

Restart ==
    /\ requests < MaxRequests
    /\ requests' = requests + 1
    /\ handler' = [h \in Handlers |-> Idle]
    /\ windows' = [b \in Buckets |-> Unset]
    /\ attempts' = [k \in Keys |-> Unset]
    /\ admitted' = [b \in Buckets |-> 0]
    /\ tries' = [k \in Keys |-> 0] /\ skipped' = [k \in Keys |-> 0]
    /\ UNCHANGED <<rowVars, lapsed, ended>>

-----------------------------------------------------------------------------

Login(h) ==
    \/ LoginBlocked(h) \/ AuthenticateUser(h) \/ RecordLoginFailure(h)
    \/ RecordLoginSuccess(h) \/ CreateSession(h)

PasswordReset(h) == DeleteLinks(h) \/ InsertLink(h) \/ ReadLink(h) \/ ConsumeLink(h)

Time ==
    \/ \E b \in Buckets : WindowEnds(b)
    \/ \E k \in Keys : LockEnds(k)
    \/ \E i \in Ids : Lapse(i)

Next ==
    \/ \E h \in Handlers :
          \/ \E kind \in Kinds, o \in Origins : Allow(h, kind, o)
          \/ Login(h) \/ PasswordReset(h)
    \/ \E s \in Ids : DeleteSession(s)
    \/ ResetUserPassword
    \/ Time
    \/ Restart

Spec == Init /\ [][Next]_vars

-----------------------------------------------------------------------------
(* Properties. *)

\* Between two clearings of a key's record no more attempts are made on it than those
\* that lock it and those already past the check when it locked, except for those
\* whose failure found the map full: loginBlocked and recordLoginFailure are apart.
AttemptsBounded ==
    \A k \in Keys : tries[k] <= MaxFails + Cardinality(Handlers) - 1 + skipped[k]

\* However the sweeps of a crowded map fall, no window lets more than its limit
\* through.
WindowsBounded == \A b \in Buckets : admitted[b] <= Limit

\* Failures and requests are bounded, of one key and of one origin.
LimitersBounded == AttemptsBounded /\ WindowsBounded

\* The links of one account that are there, and those about to be inserted by
\* requests that have deleted the older ones, are never more than the requests that
\* are served at the same time.
LinksBounded ==
    Cardinality(links) + Cardinality({h \in Handlers : At(h, "inserting")})
        <= Cardinality(Handlers)

\* No session that was open when the password was reset is there afterwards.
SessionsEndWithReset == sessions \cap ended = {}

\* What the account's rows promise.
RowsKept == TypeOK /\ LinksBounded /\ SessionsEndWithReset

=============================================================================

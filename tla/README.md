# Verification of Pangolite

TLA+ models of Pangolite, checked with TLC on small instances, and theorems about them
checked with TLAPS. Paths of source files are relative to the repository; `app/` stands for
`internal/app/`.

Contents: 1 the system, 2 modules and code, 3 runs, 4 fairness, 5 proofs, 6 where the code and
its documents disagree, 7 what is not modelled, 8 plan, 9 how to run.

## 1. The system

Pangolite publishes services that run behind agents. A server owns the public sockets and a
panel; each agent dials out to the server, so everything that has to reach an agent waits in
the server until the agent polls for it.

| Component | State | Operations | Hard behaviour | Correct when |
|---|---|---|---|---|
| **TunnelHub, streams** (`app/tunnel.go`, `app/stream_bridge.go`) | `streamQueues`, `streams`, a session's `Attached` and `Done` channels, `agentStreamSlots`, `agentHTTPSlots` | `StartStream`, `WaitStream`, `SubmitStream`, `PollStream`, `CanAttachStream`, `AttachStream`, `CompleteStream`, `RemoveAgent` | the caller, the agent's poll, the agent's socket and an administrator meet under one mutex and two channels; `select` takes any ready arm; jobs are lost with a poll's connection | a session is bridged once, its channel is closed once, nobody waits for ever, nothing is left in the map |
| **TunnelHub, requests** (`app/tunnel.go`) | `queues`, `pending`, response channels | `Submit`, `Poll`, `Complete`, `RemoveAgent` | an answer races the caller's deadline; queues are replaced while callers hold them | a request is executed once at most, an acknowledged answer is returned, a caller with a deadline returns |
| TunnelHub, capabilities | `capabilities` | `UpdateAgentCapabilities`, `AgentSupports` | re-created after `RemoveAgent` | nothing is kept of a deleted agent |
| **Public sockets** (`app/public_l4.go`) | `listeners`, `reservations`, the sockets | `Reserve`, `Commit`, `Abort`, `Sync`, `Close` | requests reserve before they write SQLite; a list is read before the lock under which it is applied; other processes bind ports; crashes between write and commit | no socket is leaked, the listeners come to be what SQLite says |
| **Public traffic, UDP** (`app/public_l4.go`) | `sessions`, the backend sockets | `serve`, `forwardLocal`, `readReplies`, `shutdown`, `Close` | the reader of a session, a failed write and the listener's `Close` end it at once, through one `sync.Once` | the map bounds the sockets, `Close` leaves none and returns |
| **Agent, choice of the server** (`app/agent_client.go`) | `agentEndpointManager`, the env file | the HTTP and the stream loop, discovery, `persistAgentEndpointConfig` | two loops read, try URLs for seconds and store; the file is written outside the lock; restarts | the agent finds its way back to the announced server |
| Agent, execution (`app/agent_client.go`, `app/terminal_process_*.go`) | goroutines, processes | `executeAgentJob` and the stream handlers | | |
| **Maintenance** (`app/store.go`, `app/server.go`, `app/bulk_actions.go`) | `agent_maintenance`, `agent_maintenance_resources`, `resources.enabled` | suspend and resume by mode; create, edit, control, bulk, delete | suspensions overlap; a request writes back what it read before a suspension | resuming restores what was suspended and no more |
| **Rows: projects, agents, resources** (`app/store.go`) | SQLite | create, edit, control, delete | what a write depends on is looked up in statements of its own | rows refer to what is there, routes are unique |
| **Domains of the panel** (`app/store.go`, `app/server.go`) | `dashboard_domain`, `managed_domains`, the endpoints of agents | save settings, add, mark, activate, delete; install and rotate agents | a change is a transaction and five statements after it; restarts | one primary domain, the dashboard's; domains that agents use stay reachable |
| **Schema** (`app/store.go`) | the database, `schema_migrations` | `NewStore` | a start that ends between two statements; two processes | a Store that opens has its schema, the old database is kept |
| **Sessions, login limits, reset** (`app/server.go`, `app/security.go`, `app/store.go`) | `sessions`, two limiter maps, reset links | login, reset request and confirmation, the command that resets | the check and the record of a failure are apart, with a slow comparison in between; full maps | attempts are bounded, links are used once, a reset ends sessions |
| **Uploads** (`app/terminal_upload.go`, `app/terminal.go`) | a terminal's active uploads, temporary files, the directory | start, chunk, end, cancel; the bridge's end | the bridge closes the manager while its reader works; other programs make files | nothing is replaced, what the browser is told is true |
| **Downloads** (`app/terminal_download.go`) | tickets, slots of downloads, slots of archives | make and redeem a ticket, inspect, archive, stream | requests race for a ticket; slots are waited for in two processes | a ticket is used once, slots come back |
| **Traefik** (`app/traefik.go`, `app/server.go`) | two files and their backups, HTTPS toggles, the restart timer | change settings, domains or resources; render, validate, restore; `scheduleTraefikRestart` | failures half way, renders that overlap, restarts that replace one another | what stays has been validated, restarts are not lost |
| **Backups** (`app/maintenance.go`, `app/backup_remote.go`) | the backup directory, the remote place | create, clean, upload | a file is visible while it is written; failures | no backup is lost early, copies are whole |
| Event log, audit, configuration, branding, doctor, commands | files | one-shot | | |

The parts in bold are modelled. They interact like this: an administrator's request writes a
row of SQLite under a reservation of `PublicL4Manager`; a public connection or an HTTP request
for a remote resource becomes an *opener* of the hub's stream half, a health check, a legacy
HTTP request or a remote datagram a *job* of its request half; deleting an agent or the bulk
"reconnect" calls `RemoveAgent`, which cuts both halves; the agent reaches the hub through the
URL its endpoint manager has chosen.

`PROJECT.json` lists the components, and under `hazards` what is hard to test in this code at
its line, with the property that would catch it going wrong.

## 2. Modules and code

### TunnelStreams, StreamSessions, TunnelStreamsProofs

One action of `TunnelStreams` is one critical section of `TunnelHub.mu` or one operation on a
channel or a connection outside it, so that every interleaving of the goroutines is a
behaviour. The processes are the ones of the server:

- an **opener** is the public side of a stream: `proxyViaAgentStream` ("http"), `handleTCPConn`
  ("tcp") or `agentTerminalSocket` ("terminal"). The kinds differ in what the code makes
  different: HTTP and TCP hold a slot; HTTP never waits for `Done`; TCP waits with
  `context.Background()`; the deferred calls of HTTP close its pipe and then free the slot, and
  those of TCP the other way round; a stale listener may start a TCP opener for an agent that
  is gone.
- a **poll** is an `agentStreamPoll` handler. The agent's credentials are checked once, at its
  start. `PollTakeLost` is the `select` that takes a job for a client that is no longer there.
- a **socket** is an `agentStreamSocket` handler: it asks `CanAttachStream`, upgrades, calls
  `AttachStream`, bridges, and calls `CompleteStream`, whose test and close of `Done` come after
  its unlock and are steps of their own.
- an **administrator** deletes an agent (the row first, the hub later) or reconnects it.

`chans` holds every queue that was ever made, because goroutines keep the ones they obtained
after `RemoveAgent` has dropped them from the map. Session data are reduced to the identity of
the stream: `streams`, `attached` and `done` are the map and the two channels.

`StreamSessions` is the promise: a session is offered, joined once at most while it stands, and
ends once and for all; a caller is told of a join that happened, and is released by the end of
its session or by its own wish. `TunnelStreams` implements it (`ImplementsSessions`).

### TunnelJobs, AgentCalls, TunnelJobsProofs

`Submit`, `Poll` and `Complete` with the same treatment of queues. A *legacy* job is
`proxyViaAgentLegacy`, whose context ends with the browser and which holds a slot of
`agentHTTPSlots`; a *timed* job is a caller with a deadline (health checks, remote datagrams).
`Complete` finds the entry under the lock and sends on the channel of capacity one after it. An
agent answers a job it received once, later, or never (`Abandon`, bounded by `MaxLost`).
`AgentCalls` is the promise: a call that is executed once at most.

### PublicL4, PublicL4Proofs

`PublicL4Manager` with everything that calls it. A port is a `publicL4Key` (protocol and
number); `bound` is the operating system's view and `listeners` and `reservations` are the two
maps. A request goes through the steps of its handler in their order: validation against SQLite
(`Validate`), the probe of the port (`Probe`), one `Reserve` per row, the checks and the
statement of the store (`Recheck`, `Write`), the commit of each reservation, and the
reconciliation, whose list of rows (`ListResources`) and whose critical section (`Refresh`) are
two steps, as they are for the reconciler. `Refuse` runs the deferred aborts. `Close` and
`Restart` drop the sockets and keep SQLite. `TakePort` and `FreePort` are other processes.

Of a resource the model keeps what a listener uses: id, port, whether it is enabled, and a
backend. A port of a row has no unique index in SQLite, so that check and write race in the
model as they do in the code. Of two enabled rows of one port the code listens for the one whose
`created_at` is the greatest text (`CreatedAt`): the text of a time drops the zeros that end its
nanoseconds, so a row may come before an older one, or tie with it.

### AgentEndpoints, with AgentProofs

`agentEndpointManager` with its two loops. A URL leads to the panel, to another site that
answers `/healthz`, or to nothing; the world may change that, and the server may announce
another domain. A loop's failed poll is throttled, runs the discovery over the candidates in
the code's order, and `applyDiscovery` is the three steps it is in the code: a copy of the state
under the lock (`ReadState`), the trial of URLs without it (`Probe`), and the store (`Store`);
the env file is written after the unlock (`Persist`) and may fail. `Restart` starts from the
file.

### AgentMaintenance, with AgentProofs

The two maintenance tables and the columns `agent_id`, `mode` and `enabled` of `resources`. A
suspension and a resumption are one transaction each and one action each; `INSERT OR IGNORE`
keeps the record of an earlier suspension (`Known`), also under a mode the resource no longer
has, and `FlagsLeft` recomputes the flags from the records that remain. Deletions take their
records along (`ON DELETE CASCADE`). A single resource's request is two actions, the row it
reads (`ReadForControl`, `ReadForEdit`) and what it writes later (`WriteResource`), because the
code writes back `enabled` as it read it when the request does not say otherwise.

`by` and `own` are history: who changed a resource's `enabled` last, and whether a request has
touched it while a maintenance had it recorded. No action reads them.

### Access, AccessProofs

A request takes the window of its address (`Allow`), looks whether its account is locked
(`LoginBlocked`), compares the password (`AuthenticateUser`) and records the outcome
(`RecordLoginFailure`, `RecordLoginSuccess`): one action each, because each has a lock or a
statement of its own. `Swept`, `Full` and `Counted` are the bounds of the two maps: 4096 and 8192
entries in the code, `SweepAbove` and `MaxKeys` here. Time is the end of windows and locks.
Links (`DeleteLinks`, `InsertLink`, `ReadLink`, `ConsumeLink`) and sessions are rows; the command
that resets a password (`ResetUserPassword`) is another process on the same database. `tries`,
`admitted`, `skipped` and `ended` are history.

### TerminalUploads, TerminalDownloads, UdpSessions, TrafficProofs

*Uploads*: one reader per terminal handles one message at a time; `FirstFree` and `Link` are the
look for a name and the hard link that publishes under it, and `End` is the bridge's own
goroutine, which closes the manager whatever the reader is doing. `MakeOther` is anyone else in
the directory. `told` is the set of what the browser was told of an upload. Data, an end or a
cancel may come for an upload that is no longer active (`Hears`), and is answered with an error
then too: the browser cancels when its 60 s wait for "done" runs out (`assets/app/terminal.js`), so
a published file may be told "done" and then an error. The file stays, and `OutcomeTold` says what
an error means only where "done" was not told. Assumed of the directory: what can be made in it
can be removed from it. *Downloads*: `Take` is the critical section in which a ticket is redeemed and the
slot is taken or refused; an archive queues for the one slot of its process, the server's or the
agent's, and a request from an agent is the opener of a stream of the hub. *UDP sessions*:
`shutdown` is three actions, one for the caller that runs the body of `sync.Once` and one for
those that wait for it, since `Close` calls it for every session in turn.

### Registry, PanelDomains, SchemaMigration, Backups, StoreProofs

*Registry*: `CheckProject`, `CheckAgent`, `CheckRoute` and the counts of `DeleteProjectIfEmpty`
are statements before the write, and `Accepts` is what SQLite itself refuses: foreign keys and
the unique index of the routes of enabled HTTP resources. *PanelDomains*: a change of the
dashboard's domain is `Previous`, `Clearing`, `Commit`, `EnsureManagedDomain`, `ClearPrimary`,
`SetPrimary`, `Replaced` and `PreviousLegacy`, in this order, with everything else in between;
`Restart` runs what `NewServer` does to the domains. *SchemaMigration*: `Migrations` lists the
statements of the versions, `Run` and `AddColumn` say what each does to a database reduced to the
columns, tables and rows that tell the statements apart; a process may end before any of them.
`target` is what an undisturbed start makes of the database it found (`Effects`, `Migrated`). The `UPDATE`s of versions 2
and 4 look for the empty text in a column that has just been given its DEFAULT, and never find
it: the model has them as statements without effect. *Backups*: the file of `VACUUM INTO` is in
the directory, and in the list, from its first page on: a request may upload it before it is
whole, and `early` remembers those that did.

### Traefik, TraefikProofs

A file is known by the settings it was rendered for. A render backs both files up, writes the one
and the other, validates, and puts the backups back if anything failed; each is an action, and may
fail. The settings are read before the files are backed up, and the HTTPS toggles are switched off
(`Ensure`, `DisableHTTPSToggles`) before that. `stored`, `live` and `callback` are the field
`traefikRestartTimer`, the timers that have not fired and the callbacks that run: a timer that is
stopped too late runs its callback beside the new one. Renders have no lock between them. What
overlapping renders leave in a file is `Unknown`, for which no property is claimed. `good` and
`owed` are history. `pangolite render-traefik` and the render before the start
(`PANGOLITE_BOOTSTRAP_TRAEFIK`) are left out; they render without the panel's legacy domains, so
that these are missing from Traefik until the next change renders anew.

## 3. Runs

| Run | Instance | Shows |
|---|---|---|
| `streams-safety` | 1 agent, 2 openers (HTTP or TCP) for 1 slot of each kind and 1 queue place, 1 poll, 2 sockets, 1 reconnect, a deletion | `NoDoubleClose`, `OneBridge`, `WaiterHasCloser`, `SessionHasReaper`, `HTTPPipesBounded`; `Inv`, the invariant of the proofs, of which type correctness is a part |
| `streams-live` | 1 stream of each kind in turn, 2 sockets, 1 reconnect, a deletion, 1 lost job | `ImplementsSessions`; callers return (`WaitersReturn`, `CancelledReturn`), removed TCP and terminal sessions end (`RemovedWaitersEnd`), and nothing is left in the hub of a stream whose caller has returned (`NothingLeftBehind`) |
| `jobs` | 1 agent, a legacy and a timed job, 1 poll, 1 post, 1 reconnect, a deletion, 1 lost job | `AtMostOnce`, `CallersKnown` (`PendingExact`, `RefusedTooLate`), `AcceptedIsReturned`, `QueuedIsReachable`; `ImplementsCalls`; `TimedReturn`; `SlotComesBack`: a legacy handler gives its slot back once the browser has left, and `Submit` returns once an answer is acknowledged |
| `l4` | 2 resources, one of an earlier life, 2 ports, 2 requests of any of the 6 kinds at a time, the reconciler, another process, a close or a restart | `SocketsKnown` (no socket without an owner, none with two), `ReservationsTended`, `Converges` |
| `endpoints` | 2 domains and a fallback, 2 loops, 1 change of domain, 2 changes of where a URL leads, 1 failed write, 1 restart | `ConfiguredAnnounced`, `KeepsPolling`, `Reconnects` |
| `maintenance` | 2 agents, 2 modes, 2 resources, 6 requests of which one single request may be under way | `RecordsFlagged`, `Transparent`, and `Inv`, the invariant of the proofs |
| `access` | 2 requests at a time, 4 in all, one address, 2 failures lock, maps of fewer places than there are keys, 2 windows | `LimitersBounded`: between two clearings of a key no more attempts than lock it and those already past the check, and no window lets more through than its limit; `RowsKept`: links stay as few as requests at a time, and no session open at a reset outlives it |
| `traffic` | one of: 2 terminals and 2 uploads in a directory of 3 names; 3 requests for 2 tickets and 2 slots; 2 UDP sessions of 2 clients for 1 place | `UploadsKept`: a file told "done" is whole and there, one told only an error is not and will not be, and temporary files have someone who will remove them; `NeverReplaced`; `Accounted`: tickets used once and backend sockets within the map; `Drains`: slots come back, sessions end and `Close` returns |
| `store` | one of: 2 projects, agents and resources, 1 route, 3 requests; 2 domains, 1 agent, 3 requests, a restart; 2 processes that migrate a database of before the versions or of version 6, a restart; 2 backups and 2 days | `RowsConsistent`, `DeletionSpares`; `DomainsSettle`; `MigrationSound`: a start makes good what another left half done, and the first database has a copy; `BackupsKept` |
| `traefik` | 2 requests at a time, 2 in all, 1 resource, a stop | `FilesValidated`, with renders that fail anywhere and restorations that fail for any of the files; `TraefikFollows`: a restart that was promised is tried while the process runs (a stop forgets it, and the next start of the service renders nothing by itself), and no resource keeps HTTPS without certificates |
| `panel-legacy` | 2 domains, 1 agent, one request at a time | finding, section 6 |
| `backups-retention` | 2 backups, a retention of 1 day | finding, section 6 |

`MCTraffic` and `MCStore` put parts that share nothing side by side: a behaviour is one of one of
them, chosen in the initial state, so that one run checks several small instances. `MCAgent` holds
the maintenance of agents and their choice of the server; the runs `maintenance` and `endpoints`
check one each, while the other rests. In `store` the two values of each kind
are alike and no property tells them apart: `Exchange` is the symmetry that exchanges them. All its
properties are of states or of single steps, for which a symmetry is sound.

Why these bounds. *Streams*: every property is about one session and those who touch it, and a
session is contended for by two sockets at most before the first one has attached; two openers
are needed where they contend, for a slot or a queue place. One reconnect and one deletion give
two `RemoveAgent`s. The proofs remove the bounds from the safety properties. *Jobs*: the queue's
place and the slot are contended for with two jobs; a third adds no new pair. *Ports*: a
reservation, a listener and a row of one port can each be of another request with two requests
and the reconciler, and the second port lets a request hold one and be refused the other. With
one row of an earlier life the first request of each kind has something to act on. Two texts of a
time (`LastStamp` = 1) are enough to have the row that is made second listed first.
*Endpoints*: the first change of where URLs lead sends the agent to its fallback and the second
may bring it back, while both loops are at work; the change of domain comes between.
*Maintenance*: six requests are enough for a creation, two overlapping suspensions, a move or a
change of mode, and two resumptions; the proofs remove the bound. 
*Access*: a key locks after two failures while the second request is past the check, and with
room for one key the map is full when a second comes; two windows let one run out.
*Uploads*: two terminals contend for one name, and a third name is free when both are taken.
*Downloads*: three requests are one more than the slots, and two of them want one ticket, or
two archives of one process. *UDP*: the second client needs the place of the first.
*Rows*: the races are between the look-up of one request and the write of another, on one row of
each kind and the one that takes its place. *Domains*: a change needs the domain before and the
one after; three requests are two that race and one that must put right what they left.
*Migrations*: version 6 is the last one before the copy of the maintenance tables, and 0 stands
for all older databases; the proof has every version from 0 to 13. *Traefik*: two changes
are what one timer replaces another for, and what two renders overlap with. Deadlock is not
checked: in every model the bounded actions run out, and the system may then rest.

Each property has, in `PROJECT.json`, a plausible bug of the code (a definition next to the one
it replaces, marked "Mutant") with which TLC finds it violated.

## 4. Fairness

Only what the code's own scheduling gives: a goroutine that can take a step takes it; a `select`
with a ready arm is woken; timers fire.

- *TunnelStreams*: weak fairness of an opener's and a socket's own steps. `GiveUp` is fair with
  `SeeAttached` because of `StartStream`'s 30 s timer. `ExchangeEnds` and `BridgeEnds` are fair
  only when the connection has been closed: reading and writing it then fails. An open
  connection, a browser and an agent are never obliged to do anything. A bridge to a silent
  agent is also ended by its keepalive (a ping every 30 s, answered within 20 s); that is a
  reason for `BridgeEnds` to be possible, and no property needs it to be fair.
- *TunnelJobs*: the steps of `Submit` and `Complete`, and `EndContext` of a job with a deadline.
  `EndContext` of a legacy job (the browser leaves) is not fair, nor is anything of an agent.
  `ReleaseSlot` is fair only once the browser has left: `proxyViaAgentLegacy` copies the answer to
  it with no deadline (`http.Server` has no `WriteTimeout`), so that a browser that stays and does
  not read keeps the slot. `SlotComesBack` therefore speaks of the slot only for a browser that
  has left, to whom a write fails, and of an acknowledged answer only as far as `Submit` returns it.
- *PublicL4*: the steps of a request that has begun, and the reconciler, whose ticker runs every
  10 s until the process ends. `FreePort` is not fair: `Converges` excepts a port that another
  process keeps, and says nothing while the server is down.
- *AgentEndpoints*: the two loops never stop, and the 10 s of the throttle pass. What URLs lead to
  is not the agent's: `KeepsPolling` and `Reconnects` assume that the fallback works from some
  time on, and `KeepsPolling` that no URL leads to another site for ever. Without that second
  assumption it is false: `agentEndpointReachable` takes any answer below 500 for the panel.
- *TerminalDownloads*: the handlers of requests and the agent's side of a download go on, except
  for writes: the code puts no deadline on them, so that a browser that neither reads nor closes
  keeps its slots, and with them the one slot of archives. `Returns` says so: it assumes that no
  download is sent for ever. A browser may leave at any point.
- *UdpSessions*: the goroutines of a listener go on, and a read from a closed socket fails; the
  listener's own read may also fail before (`ServeEnds`), which is not fair. That a
  session runs into its read deadline (30 s without use) is possible and not fair: it may be used
  for ever.
- *Traefik*: timers fire and callbacks run, and Traefik polls its HTTP provider again and again.
  Handlers have no fairness: `TraefikFollows` holds though a request never ends.
- *Access*, *TerminalUploads*, *Registry*, *PanelDomains*, *SchemaMigration*, *Backups*: only safety is
  claimed, and no fairness is assumed.

## 5. Proofs

Theorems hold for every value of the constants that the ASSUMEs of the modules admit: any set of
agents, streams, handlers, resources and modes, any capacity above zero, any bound. (The bounds
are in the guards of the actions; the proofs never use that they are small.) Nothing else is
assumed. Where cardinalities are counted (`AccessProofs`) the addresses and the requests at a time
are a finite set of any size.

In each module the theorem `Invariance` (in modules of several parts `EndpointInvariance`,
`RegistryInvariance`, `DomainsInvariance`, `BackupsInvariance`, `SchemaInvariance`,
`TrafficInvariance`) proves that an
inductive invariant always holds, with one lemma for each action or group of actions with the same
effect; what the runs check follows from it. None of those properties is inductive by itself,
except where the text says so. What each invariant adds, and why:

**TunnelStreamsProofs**: `NeverDoubleClose`, `NeverTwoBridges`, `WaiterNeverForgotten`,
`SessionNeverOrphaned`, `PipesBounded`. `NoDoubleClose` needs to know that whoever is about to close
`Done` has taken the session out of the map (`OwedLeftMap`), that sessions with a closed `Done` have
left it (`DoneLeftMap`), and that no two sockets work for one session (`OneSocket`); the latter needs
that a socket has attached to its session (`SocketsAttached`) and that `AttachStream` looks at
`Attached` again under the lock. `WaiterHasCloser` needs what holds of every attached session whose
opener is still there (`AttachedEnds`), because the opener learns of the attachment later than it
happens. `HTTPPipesBounded` needs that every pipe's opener holds a slot (`SlotInv`), which is the
order of the deferred calls of `proxyViaAgentStream`.
`Refinement` proves `Spec => ImplementsSessions`: the initial states map to the initial states of
`StreamSessions`, and under `Inv` each step maps to one of its steps or to a stutter. `RemoveAgent`
maps to `End` of all sessions of the agent, `SeeAttached` to `Hear`, `Unregister` to `Withdraw`,
`WaitReturns` and `ExchangeEnds` to `Release`.

**TunnelJobsProofs**: `NeverTwice`, `CallersAlwaysKnown`, `AcceptedAlwaysReturned`,
`QueuedAlwaysReachable`. A job must be at one place only: in one queue and there once
(`OnceQueued`), or in one agent's hands or one `Complete` (`OnceTaken`), or over (`Exclusive`); a
caller that could not enqueue has its job nowhere (`NotSentNowhere`). This is not obvious in the
code, since goroutines keep queues that `RemoveAgent` has replaced. `QueuedIsReachable` needs
`QueueInHand`: the queue `Submit` obtained under the lock, and will use without it, is the one the
next poll reads as long as nothing was cut off. From the same invariant, `RoomForEveryResponse`: the
`default` arm of `Complete`'s send, which would answer "not accepted" to an agent whose answer is
welcome (`app/tunnel.go:153`), is never taken. `Refinement` proves that `TunnelJobs` implements
`AgentCalls`.

**PublicL4Proofs**: `SocketsAlwaysKnown`, `ReservationsAlwaysTended`. Here the properties with the
types are inductive together; the long step is the reconciliation, which closes, keeps and opens
listeners of all ports at once. `Greatest` and the lemmas after it show that of the
enabled rows of a port one has the greatest `created_at`, whatever finite set of texts there is.

**AgentProofs**, maintenance: `RecordsAlwaysFlagged`, `MaintenanceTransparent`. `Transparent` needs
more: the resumption of one agent could take the record of another agent's resource.
`UntouchedRecord` says that an untouched resource has a record of its own agent at most, and one
only; `BornRows`, that an identifier drawn anew has no row, and hence by `RecordsFlagged` no record
either. Choice of the server: `RescueNeverPersisted` needs `CarriesAnnounced`, since `Store` and
`Persist` write what a loop derived, some steps before, from a copy of the state; the announcement,
the copy and what comes of both have an announced server at each place of the loop.

**AccessProofs**: `LimitersAlwaysBounded`, `RowsAlwaysKept`. `WindowsCount` says that what a window
has counted is what it let through, which is that no sweep drops one that still runs. `FailuresCount`
bounds the attempts by the failures recorded, those skipped (a full map), and those of the requests
that have failed and have yet to record it (`Pending`); once a key is locked, only the requests that
were past the check by then (`Through`) may add to it. `NumbersFresh` says that no row has the number
of a request before it inserts one; a session open at a reset cannot come back under its number.
`LinksBounded` counts the links against the requests that are about to insert one.

**TraefikProofs**: `FilesAlwaysValidated`. `restoreTraefikBackups` ignores what fails when it puts the
files back: a backup that cannot be read leaves what the render wrote, and a write may be cut short
(the disk that was full for the render is full for it too). `Restore` may therefore fail for any of
the files, and nothing is known of those (`good` is Unknown) until a render of them validates; the
others are what was valid. `RendersTell` distinguishes a render that nothing overlaps,
whose backups are what was valid and which has not yet touched the other files, from overlapping
ones, of which nothing is known: the property says so too, since they share names of temporary files
and of backups. `RestartAlwaysTended` is the safety half of `TraefikFollows`: while a static
render waits for its restart some timer will fire or some callback has yet to restart, though a
callback that `Stop` came too late for may clear the field of the timer that replaced it.

**StoreProofs**. Rows: `RowsAlwaysConsistent`, `DeletionAlwaysSpares`. What a request has looked up
must still help when it writes: `AgentChecked` says that past its check the agent is of the row's
project or gone for good, since agents never change their project and identifiers are drawn once
(`AgentsDrawn`); SQLite's foreign key refuses the second case. `DeletionsCount` follows what a
deletion could see through its two counts. Domains: `DomainsAlwaysSettle`. The marks disagree with the
setting in the middle of every change. `SettledAlone` says that they agree whenever the last to
change domains did so alone and is not between two of its statements (`Replacing`); `AloneAt` says
how far it has come at each of them. Backups: `BackupsAlwaysKept`, an action property and an
invariant in one. `OneVacuum` and `JobSound`: one file is written at a time and it is of today, so
that no cleaning takes it; a file that waits for its copy is whole, gone, or one that a request
asked for too early (`early`). Migrations: `MigrationAlwaysSound`, from every version and for any
number of processes, starts and interruptions. `target` is computed by running all statements in
turn, and an interrupted start runs some of them twice, so the invariant needs a description of
their end that no order of repetitions changes: `Finish(d)`, written down column by column.
`EffectKeeps` proves that no statement changes the `Finish` of the database it runs on, which gives
`target = Finish(db)` at every step, with any number of processes at once. `Done` says what each
statement leaves for good, and `Undoes` the four kinds of statement that take back what another has
left (the DEFAULT of a new column, the marks of the panel's domain, the table of trusted networks);
`Order` proves from the list that none of them comes later than what it would undo, though all of
them may run again, and `EffectLasts` and `EffectSpares` that what was done therefore stays (`Upto`)
while one process migrates. What has been through all statements is its own `Finish` (`Finished`),
which is `Resumable`. Two processes at once run statements out of order, and only the columns and
tables stay (`Presence`); that is `SchemaComplete`, and why `Resumable` excludes them. `Covered` and
the clause before the processes in `SchemaInv` are the copy before the first change. `Effects` and
`Migrated` are functions defined by the value before: that there is one (`Chain`), and that each of
its values has what every step keeps, is proved by taking the least number that fails (`UpFrom`),
which takes no induction theorem with an operator for a parameter.

**TrafficProofs**: `UploadsAlwaysKept`, `UploadsNeverReplace` (an action property),
`AlwaysAccounted`. Uploads: one terminal owns an upload (`OneOwner`), `Stage` is what is known at each
place of the reader with the bridge's end possible at any of them (an upload is owned by the
terminal it was sent on, so that a message for one that is over finds nothing to undo), `Outcome` ties a file under a
name to what the browser has been or will be told, and `Tended` ties each temporary file to a reader
or an open bridge. Downloads: `TicketPlaces`, a token is in one place at a time, and `GetsHold`. UDP:
`EntriesOwn`, `MapBounded`, `BackendsMapped`, and the order of `shutdown` and of the sweep of `Close`
(`ShutdownOrder`, `CloseSweeps`), without which a reader's own shutdown could take out the entry of a
later session of the same client. `FirstIsFree` shows that the name an upload is given is the first
one that is free.

**Only model-checked.** Liveness under fairness and ENABLED are beyond TLAPS here: `WaitersReturn`,
`CancelledReturn`, `RemovedWaitersEnd`, `NothingLeftBehind`, `TimedReturn`, `SlotComesBack`,
`Converges`, `KeepsPolling`, `Reconnects`, `Drains` and `TraefikFollows`. Every other property of a
passing run is proved.


## 6. Where the code and its documents disagree

Two are runs that TLC must find violated:

- `AutomaticRemoved` (`backups-retention`): `DeleteOldBackups` removes the old files whose name
  contains "-auto-", and `backupFilename` calls the automatic ones `pangolite-<stamp>-auto.db`. None
  is ever removed, and a manual backup with a label that begins with "auto " is. `README.md:562`
  says that old automatic backups are cleaned up.
- `PreviousIsLegacy` (`panel-legacy`): the domain that becomes legacy is the one in the settings, not
  the one marked as primary. After the dashboard's domain was cleared, new agents still get the
  marked domain; setting another one finds no previous domain and leaves the marked one active,
  where Traefik does not route it
  (`contexto/39-ciclo-vida-dominios-clientes.md:13`).

Others are stated in the modules, where a reader can check them, and are known not to hold:

- `ReconnectRestartsStreams` (`TunnelStreams`): the panel answers "streams y colas reiniciados"
  (`app/bulk_actions.go:307`), but an HTTP stream and its bridge survive a reconnect, since no HTTP
  handler waits for `Done`.
- `DeletedAgentForgotten` (`TunnelStreams`): a poll, or a stream, that passed its check before the
  agent's row was deleted makes the queue of the deleted agent anew after `RemoveAgent`, against
  `contexto/65-hardening-seguridad-rendimiento-ponytail.md:105`.
- `ClosesOnlyAffected` (`PublicL4`): a reconciliation with a list read before another request's write
  closes the listener that request has just opened; the next one opens it again (`Converges`).
- `PersistedFollows` (`AgentEndpoints`): the two loops may write the env file in the opposite order of
  their stores, and the older URL stays in the file.
- `SuspendedUntilReactivated` (`AgentMaintenance`): a control request that does not mention `enabled`,
  read before a suspension, turns the suspended resource on again.
- `ResumeOnlySuspended` (`AgentMaintenance`): a resource that was turned on and off again by hand
  during a maintenance is turned on when it ends.
- `DeletesOnlyEmpty` (`Registry`): an agent or a resource made between the counts of
  `DeleteProjectIfEmpty` and its DELETE goes with the project (`ON DELETE CASCADE`).
- `PartialsRemoved` (`TerminalUploads`): an upload whose start was under way when the bridge closed
  the manager leaves its temporary file.

And one that `FilesValidated` excepts: "Si la validación falla, Pangolite restaura la configuración
anterior" (`docs/arquitectura.md:87`) is not so when the restoration fails as well, which is not told.

## 7. Not modelled

- *Capabilities of the hub*: `UpdateAgentCapabilities` and `AgentSupports` only choose between the
  two ways of sending a request, which `TunnelStreams` and `TunnelJobs` have as free choices; an
  entry that a poll makes anew after `RemoveAgent` stays, as a queue does.
- *The accept loop and the local TCP copy*: a listener of `PublicL4` always accepts. In the code
  `acceptTCP` returns on an error such as too many open files and leaves its entry in the map.
- *The agent's execution of jobs and its terminal processes*: what the hub sees of them (an answer,
  a socket, silence) is the environment of the hub's models.
- *Framing of the terminal's control messages, limits on headers, trimming of the event log*:
  algorithms on bytes, without state shared with the parts above.
- *Audit, branding, templates, rendering, configuration, doctor, installers*: sequential file,
  text or network I/O.
- In the modelled parts: payloads, headers, wording, logging, authentication of requests, and
  errors of SQLite other than those of a missing row, a conflict or a foreign key. The counts of
  the use of a domain are one step. Of the passwords, which one is right is a free choice.

## 8. Plan

1. The hub as a whole: both halves with the shared `agentHTTPSlots`, capabilities and one
   `RemoveAgent`; what is left of a deleted agent.
2. Pure algorithms against reference definitions: `headerLimitReader`, trimming of the event log,
   `checkResourcesBounded`, the filters of the terminal's frames.

## 9. How to run

`tlc -config <run>.cfg <module>.tla` for a run of `PROJECT.json`, with the community modules on the
path; `tlapm <module>.tla` for the proofs.

# Berth in TLA+

Berth is a small self-hosted platform. A **hub** (`berth-hub`) serves the dashboard, the
JSON API and the deployed apps; it keeps its rows in SQLite and the deployed files in a
directory tree. One **agent** per host (`berth-agent`) dials the hub, keeps one gRPC
`Session` stream open and runs Podman containers for the hub over it. This directory holds
TLA+ models of the parts of Berth that are hard to get right and hard to test, the TLC
configurations that check them, and TLAPS proofs for the results that matter most.

`PROJECT.json` is the index: components, runs, mutants, the map from definitions to source
lines, findings, hazards and theorems. This file explains them.

1. [The system](#1-the-system)
2. [The modules](#2-the-modules)
3. [The runs](#3-the-runs)
4. [Fairness](#4-fairness)
5. [The proofs](#5-the-proofs)
6. [Where code and comments disagree](#6-where-code-and-comments-disagree)
7. [Not modelled](#7-not-modelled)
8. [Plan](#8-plan)

## 1. The system

### Components, their state and their operations

| Component | State | Operations | What makes it correct | Module |
|---|---|---|---|---|
| Hub storage (`storage.rs`, `berth-db`, `state.rs`) | rows of apps and deployments; `apps/<app>/deployments/<dep>/files`; `tmp/`; `write_lock` | create, rename, delete app; upload; record, finish and fail a git deployment; activate; delete deployment; startup sweeps | handlers of several steps look atomic; rows never point at nothing, also after a crash; nothing stays Pending | `HubStorage`, `AppCatalog` |
| Agent link and registry (`agent_link.rs`, `grpc.rs`) | registry host → link; per link `pending`, `streams`, `outbound` | connect, disconnect, the call shapes, `resolve`, `end_stream`, `fail_all_pending` | a reply reaches its own call, in order; calls return; one live session per host, unregistered when lost | `AgentLink`, `RemoteCalls` |
| Run-mode deployments (`routes/api.rs`, hub `containers.rs`, `agent_fs.rs`, `reconcile.rs`) | rows; containers and directories on the agent; the `agent_connected` channel | deploy task, activation, deletions, reconciliation, orphan sweep | what is active was confirmed by the agent, and is stopped only for a confirmed successor; a reconnect repairs what a lost request left | `RunDeployments` |
| App serving and relay (`routes/apps.rs`, agent `relay.rs`) | a map entry and two channels per request, the session's two channels | feeder, head, body, upgrade, end of stream | no chunk lost or reordered; honest ends; requests do not block each other for ever; entries are removed | `HttpRelay` |
| Accounts (`auth.rs`, `authz.rs`, `users.rs`, `auth_routes.rs`, `main.rs`) | users, grants, API tokens, in-memory sessions | login, logout, user management, password change, tokens, grants, `bootstrap_admin` | an admin remains; sessions end with the credentials; grants and tokens stay with their account | `Accounts` |
| Git fetch and builds (`git_fetch.rs`, `routes/api.rs`, agent `containers.rs`, `handlers.rs`) | a semaphore of fetch permits, staging directories, a build container and its log | clone with a timeout, build, stream output, delayed cleanup | fetches stay bounded; nothing is removed under its user; the log precedes the result; tasks end | `GitBuilds` |
| Uploads and containers on the agent (hub `agent_fs.rs`, agent `fs_ops.rs`, `containers.rs`, `handlers.rs`) | the table of uploads in flight, a deployment's directory, its container and its install container | make the directory, route chunks, unpack, place; install, start, delayed removal, stop | files are whole or absent; handlers end; a removal by name hits its own container; no container is forgotten | `AgentDeployments` |
| Deployment logs (`deployment_logs.rs`, hub `containers.rs`) | `install.log`, `run.log`, `run.log.1`; the registry of live pumps; broadcasts | pump, rotate, attach, follow | the log is bounded; readers miss nothing; followers are let go; capture resumes | `DeploymentLogs` |
| Hosts, TLS and secrets (`hosts.rs`, `storage.rs`, `agent_tls.rs`, `tls.rs`, `secrets.rs`, agent `hub_tls.rs`) | host rows; certificate, key and fingerprint files; `secrets.key`; the agent's pin | first start, load, enrol, revoke, dial with a pin, redial, reload | the hub's identity outlives crashes; a revoked host stays out; a good agent gets its session back; renewals take effect | `Enrolment` |
| Agent session loop (agent `main.rs`) | one stream, channels of requests in flight | dial, redial, dispatch | as seen in the modules that use it | `AgentLink`, `HttpRelay`, `GitBuilds`, `AgentDeployments`, `Enrolment` |
| Configuration, protocol, statistics, MCP, UI, site | none that is shared | see section 7 | | — |

### Interaction

The dashboard and the MCP endpoint call the same functions of `routes/api.rs` and
`storage.rs`. Handlers that change apps or deployments hold `write_lock` around their database
and file steps, but never across a call to the agent. Calls to the agent go through
`AgentLink`: the caller registers in a map, sends over the session's outbound channel and waits;
the session's one reader task resolves replies against the maps. A connecting agent puts a token
into a channel of capacity one, and a single task (`reconcile.rs`) consumes it. Git deployments
outlive their request as detached tasks. The relay and the log pumps use the streaming calls of
the link, with the same reader. A pump copies a stream into a file and a broadcast channel; the log
endpoint joins the two. `AgentLink` begins where `Enrolment` has got the agent authenticated, and
`AgentDeployments` opens up the single agent steps of `RunDeployments`.

### What is hard here

* Every `.await` is a point where another task runs, and where axum drops the handler when
  the client goes away. Every handler here is therefore a sequence of steps, and every step
  of a request may be its last.
* A crash of the hub loses memory and keeps rows and trees; a restart of the agent loses tasks
  and sleeping cleanups and keeps containers. Either may leave a file created and not written.
* A timeout on the hub does not stop what the agent has begun.
* An error of Podman is often ignored (`.ok()`), and a removal that failed is not tried again.
* Neither side sends anything to keep a connection alive: one end may not hear that the other is gone.
* Three mutexes per link and no lock at all around the account tables: what has been read may
  be out of date when it is used.
* Bounded channels make one slow consumer hold up everybody behind the same reader.

The list `hazards` in `PROJECT.json` gives each place with its line and the properties that
watch it.

## 2. The modules

Each module has one action per step that other tasks can observe: between two awaits that touch
shared state there is one action. `\* variant:` operators are plausible mistakes; the list
`mutants` puts each in place of the definition that follows it, and TLC then finds the named
property violated.

**AppCatalog** is the abstract specification of the catalogue of apps: each operation is one
change of the rows. **HubStorage** is the implementation: one process per request, `pc[p]`
names its next durable step; `appName`, `active`, `status` are the rows, `appDirs`, `depDirs`,
`files`, `tmp` the file system. `Locked` is the set of steps inside `write_lock`. `Cancel`
drops a request at an await, `Crash` ends the process, and `SweepTmp`, `SweepOrphanApp`,
`SweepOrphanDep`, `StartServing` are the startup sweeps. `Reconcile` is
`fail_pending_deployments`, which reads a row and writes it later, without the lock.
`ImplementsCatalog` maps the rows to `AppCatalog`, file steps to stuttering. Ids are UUIDs and
never made twice (`mintedApps`, `depApp`).

**AgentLink** has the sessions of one host. `phase[s]` follows `Hub::session` through `connect`,
`touch_last_seen`, the reader task, `disconnect` and the three locks of `fail_all_pending`
(`disconnected` → `no_pending` → `no_streams` → `dead`). A call goes `insert` → `outbound` →
`send` → `wait` → (`ending`) → `done`; `outq`, `inbound` and `chan` are the channels. The link of
a host that is not connected is `NoLink`. The chunks of one upload are one message here. The agent
takes a request (`AgentReceives`) or does not.
**RemoteCalls** is the abstract specification of what a caller sees: a call begins, is sent once, is
answered in order up to its limit, and ends by its last answer or for any other reason, after which it is
handed nothing. `ImplementsCalls` maps a call to it by its `pc`, by whether it is with the agent or on the
way (`Requested`), and by what it was sent and took; the session, the maps and the channels stutter.

**RunDeployments** has the deployments of one run-mode app. A change of rows is one step, as
`AppCatalog` allows; a call to the agent is three: sent (`rpc[p]`), carried out by the agent,
answered. When the hub has given up (timeout, dropped request, lost session), the call is in
`late` and may still be carried out. `Effect` says what a call does on the agent
(`RunningAfter`, `DirsAfter`); shipping a deployment (create the directory, upload) is one call.
`Failures` selects what the environment does in a run.

**HttpRelay** follows ordinary and upgraded requests from the browser's side of the hub to the
container and back: `up` and `down` are the session, `inbox[r]` and `body[r]` the channels of a
request at each end, `entry` and `inflight` the two maps. `Route` is the agent's session loop,
`Resolve` the hub's reader; both wait for room in a channel. A request enters the map (`Request`),
fetches the outbound sender (`GetOutbound`) and sends (`FeedHead`) in three steps, between which the
end of the session takes its own two (`link`: "open", "cleared", "dead"). A session is not reopened:
later requests belong to another link.

**Accounts** has the rows of `users`, `app_permissions` (of one app) and `api_tokens`, the
session map, and requests that hold rows they have read (`who`, `row`). `born`, `pw`, `late`,
`stale` and `skipped` are history that only the properties read. Passwords are numbers, each new
one greater; verifying one is a comparison with the row that was read.

**GitBuilds** has the tasks of `execute_git_deployment` with the three things that outlive them:
the blocking clone thread, the agent's command and its container. `wire[d]` holds the replies
under way, chunks and then the result; `skipped[d]` and `sent[d]` say where the log began, with the
last `TailLines` lines, and how far it has come. Podman may fail to create, start, wait for, stop,
log (`LogBreaks`) and remove a container. A lost session's link takes requests until its last lock
(`ending`). The rows are `HubStorage`'s.

**AgentDeployments** has one run-mode deployment on its agent. `call` follows
`ship_run_deployment_to_agent`, `out` the chunks in the session, `entry` the table
`in_flight_uploads`; handler `u` goes `open` → `receive` → `unpack` → `place` → `answer` →
`deregister`, so a chunk that comes after the last step meets no entry and makes a second handler.
The disk is `dir`, `zip`, `staging`, `files`. `start[s]` follows `start_run_container` through its
inspection, the install container (`inst`, whose incarnations `gen` tells apart) and the
deployment's own (`main`); `cleanup` holds the sleeping removals, `Sweep` is the forced removal by a
reconciliation. Faults are lost sessions, agent restarts, and errors of the disk and of Podman, of
which there is one for every call the code makes: `CreateFails`, `WaitFails`, `CleanupFails`,
`RemovalFails`, a failed stop in `WaitTimeout`.

**DeploymentLogs** has the pumps of one deployment. A task goes through its start request, whose
reply stream carries the install log, and then asks for the run log. `registry` admits one pump,
`install`, `run` and `old` are the files, `Rotate` renames and reopens. A reader subscribes, reads
the two files one after the other, then follows the broadcast, which drops what it cannot hold
(`Lag`). The agent's follow begins with the last `TailLines` lines of a container and ends when the
container stops, which Podman then starts again (`BoxRestarts`), is removed, or Podman breaks the log
off (`LogFails`). A chunk gets its size when it is written; `uncounted` is what `bytes_written` misses.
A call on the link of a lost session (`closing`) leaves its stream `unanswered`.

**Enrolment** has the files both processes keep for each other: `cert`, `key`, `print`, `secrets` on
the hub, `pin` on the agent, each `Missing`, `Torn` or a number. `Boot`, `Persist`, `LoadSecrets` are the
hub's start, one file at a time, with a file that cannot be read (`misread`); `Agent` is the dial loop
with its delay, `Session` the handler of `grpc.rs` with `find_host_by_token` and the reader task. An end
that does not hear of a lost connection is "deaf". `Https` and `Renew` are the certificate of the web
server with its watcher.

The `MC` modules only add symmetry sets where a run uses them. Each `...Proofs` module holds the proofs
about the module it is named after.

## 3. The runs

State counts are TLC's distinct states, rounded. Several of the properties below are conjunctions
of named parts, one idea each; the part is named where the text needs it.

| Run | Instance | What it shows |
|---|---|---|
| `storage_safety` | 2 apps (one git), 2 deployments, 2 names, 2 requests, 1 crash (270 000) | `RowsConsistent`, `DiskConsistent`: rows, trees and the active pointer stay consistent whatever two requests interleave, are dropped or lose to a crash; `StartupLeavesNoOrphans`: a start leaves exactly the trees the rows name; `ImplementsCatalog`: the handlers implement `AppCatalog` |
| `storage_liveness` | 1 app, 2 deployments, 2 requests, 1 crash (120 000) | `WorkResolves`: nobody waits for `write_lock` for ever; no deployment stays Pending |
| `link_calls` | 1 one-shot and 1 streaming call, 2 sessions, 2 replies, capacities 1 (580 000) | `ImplementsCalls`: the link implements `RemoteCalls`; `TablesCurrent`: no entry left by a returned call, one served session per host; `CallersReturn`; `LostSessionUnregistered` |
| `run_concurrent` | 2 deployments, 2 requests at a time, 4 in all, one agent error or dropped request (1.7 million) | `SwitchesSafely`: the active deployment was confirmed by the agent; only a confirmed successor has it stopped |
| `run_reconcile` | 1 request at a time, 3 in all, one of timeout, lost session, agent restart, dropped request (500 000) | `ReconcileRestores`: after the agent's next connection the active deployment runs again; no connection signal is lost |
| `nothing_serving` | 2 requests, no failure | **violation**, section 6 |
| `relay` | 1 ordinary request and 1 upgrade, 1 chunk each way, all capacities 1, 1 failure (900 000) | `BodiesFaithful`: chunks in turn, honest ends; `EntriesAccounted`; `RelaysEnd`: both requests end |
| `accounts` | 2 names, 2 requests at a time, 5 in all, 1 restart, 1 dropped request (1.2 million) | `AdminRemains`, `SessionsFollowCredentials`, `RowsStayPersonal` |
| `git_builds` | 2 deployments, one with a build, 1 permit, 2 chunks of output, a tail of 1, 2 faults (160 000) | `FetchesContained`: bounded fetches, staging kept while in use; `LogComplete`; `BuildsEnd`: tasks end, containers are removed |
| `agent_deployments` | a zip of 2 chunks, channels of 1, 2 start requests, 2 faults (170 000) | `FilesWhole`: the files are absent or complete, and complete once the hub was told so; `CleanupSpares`: a removal by name takes no other's install; `UploadsEnd`; `InstallBoxGone` |
| `deployment_logs` | 1 activation, 1 reconciliation, 1 reader, 1 install line, 2 run lines, chunks of size 1 or 2, rotation at 1, lag 1, 1 fault (450 000) | `RunLogBounded`; `ReadersMissNothing`; `FollowersEnd`; `CaptureResumes` |
| `enrolment` | 1 host, 2 faults, a renewal, a delay of at most 3 (290 000) | `IdentityLasts`, `RevocationLasts`, `AgentReturns`, `RenewalsTakeEffect` |

Why the bounds are enough for the questions asked: every hazard behind these properties is
between *two* parties (two requests, a request and the reconciler, a call and the end of its
session, two relayed requests behind one reader), so two of each is the smallest instance where
they all happen. Two deployments give an old and a new one, two sessions a late disconnect beside
a newer session, two replies an order to get wrong, five account requests the sequence promote,
log in, demote, demote, create. Two chunks make a zip that can be incomplete, two faults a crash
and then the lost connection or the second crash during the repair (`agent_deployments`,
`enrolment`), or a container that cannot be stopped and whose log breaks off as well (`git_builds`).
A rotation limit of one makes every second line rotate, and a chunk of two outgrow the limit. Capacities of one make every channel full at once, which is
where blocking happens; the permit count of one makes both clones compete (the code has two); of the two deployments one builds, as two builds share nothing else. One
fault per behaviour is what the code's recovery is written for; two faults that overlap (a second
lost session during the recovery from the first) are outside the runs with one fault, except where
a proof covers them. Symmetry is used only in runs without liveness properties.

All runs have `CHECK_DEADLOCK FALSE`: the bounds on requests and faults let every model come to
rest, and the liveness properties say what must have happened by then.

Some properties carry exceptions. They are the behaviours the code really has:

* `AdminRemains` excuses a demotion or deletion by somebody who was an admin on arrival and is
  none any more (`stale`), and the failed start that may follow it (section 6).
* `SessionsFollowCredentials` excuses the moment between a change and its own revocation, a request
  dropped in that moment, and a login that had read the row before.
* `ReconcileRestores` excuses files that are gone: the orphan sweep may have removed them (below).
* `BodiesFaithful` excuses broken peers: the relay closes a broken body like a complete one.
* `CallersReturn` excuses a streamed call that entered the map after `fail_all_pending` had emptied
  it, and a one-shot call that waits for room in the session's channel, which an agent that does not
  read never makes (`SendBlocked`; only the wait for the reply has a timeout).
* `RelaysEnd` excuses a request that entered the map after it had been emptied and sent before the
  receiver was dropped (`Stranded`), and an upgraded connection whose browser was gone before the hub's
  pump started. `EntriesAccounted` excuses a request abandoned before its head, and an upgrade whose 101
  response cannot be built.
* `LostSessionUnregistered` speaks of sessions whose reader runs and that are known to be lost (section 4).
* `FetchesContained` excuses a build container whose session was lost, or whose command failed (its
  wait or its stop did) and whose log broke off: the hub has its answer and removes the directory.
* `LogComplete` speaks of the log from the tail it began with, and excuses one that Podman broke off
  and a container that the forced cleanup removed. `BuildsEnd` excuses an agent that restarted within
  the 30 seconds, a removal that failed, a container that was created and not started, and a call
  that nobody answers (`Unanswered`).
* `UploadsEnd` excuses an upload whose last chunk will not come (`cut`), `CleanupSpares` what follows
  the forced removal by a reconciliation (`swept`), `InstallBoxGone` a container that failed to start,
  whose agent restarted or whose one removal failed (`forgotten`).
* `RunLogBounded` adds to the limit less than one chunk and what failed `metadata` calls and partial
  writes left out of `bytes_written` (`uncounted`).
* `ReadersMissNothing` excuses a reader that lagged, or whose files were rotated or truncated while
  it read them; `FollowersEnd` a pump that nobody answers; `CaptureResumes` a new pump that met one about
  to end, a reconciliation that failed, a start nobody answered, a container started for a task that had
  given up, and a log that ended while its container ran on (`missed`).
* `IdentityLasts` excuses the certificate of a hub that could not read a file of `agent-tls/` at a start
  (`misread`), but not its secrets key.
* `AgentReturns` excuses a torn pin, such a certificate, an HTTPS pair that does not fit, an orphaned
  registry entry, and an end that does not hear of the loss of its connection ("deaf");
  `RenewalsTakeEffect` a renewal between the load at startup and the watcher's first look (`stale`).

The exceptions are needed: of those in `AgentLink`, `HttpRelay`, `GitBuilds`, `AgentDeployments`,
`DeploymentLogs` and `Enrolment`, TLC refutes the property without each.

## 4. Fairness

* `HubStorage`: strong fairness of each request's next step, because tokio's mutex is handed over
  in FIFO order, so a waiting request gets the lock although others take it in between; weak
  fairness of startup; weak fairness of reconciliation, which assumes that some agent connects
  again: the agent redials until it succeeds, and a session does not last for ever. Without a
  further connection a row whose request was dropped between insert and spawn does stay Pending.
* `AgentLink`, `HttpRelay`, `GitBuilds`: one weak-fairness condition on the disjunction of all
  steps the runtime takes by itself. Each of these steps consumes something (a message, a phase,
  a timer), so no infinite behaviour starves one of them, and the one condition is as strong as a
  condition for each. Not in it: the agent's replies, lost sessions, peers that close, a network
  that answers a clone, a command that ends. A timeout is a step of its own and does fire. In
  `AgentLink` and `HttpRelay` the consumer of a stream is assumed to read: a browser that stops
  reading without closing holds up its host's session, and no timeout in the code ends that. That the
  agent takes requests is not assumed in `AgentLink`; `GitBuilds` and `DeploymentLogs` have the sending
  of a request as one step that does not block. In all of these modules a session that is lost is one
  that the hub's reader hears of: neither side sets a keepalive (`grpc.rs:113-119`, agent
  `main.rs:103-106`), so a silent loss is no event for the hub, and it is `Enrolment` that has it.
* `RunDeployments`: weak fairness of every task on the hub and of every task on the agent,
  separately, because a reconciliation may repeat. Nobody has to send a request and the agent need
  not connect.
* `AgentDeployments`: weak fairness of each handler, each start task, each sleeping cleanup (its timer
  fires), the hub's upload and the agent's routing, and of a removal once begun. No request need
  come and no install command end by itself: its timeout ends it.
* `DeploymentLogs`: weak fairness of the tasks on both sides, of readers that read on, and of the
  reconciliation after a lost session, because the agent dials until it succeeds. A container need
  not print.
* `Enrolment`: weak fairness of the steps of the hub's start (a service manager starts it again), the
  watcher, the agent's loop and the session handler, and of an end that has heard of the loss of its
  connection. Hearing of it (`Hear`) has no fairness: it takes a message that nobody acknowledges, and
  both sides may have none to send; a reader that waits in `resolve` (`agent_link.rs:73`) does not hear
  of it either. Admins, renewals and crashes need not happen.
* `Accounts` has no liveness property and no fairness.

## 5. The proofs

Proved for every value of the constants under the modules' `ASSUME`s, which say only that bounds
are naturals, capacities are positive, and ids of different kinds differ.

**HubStorageProofs.** `StorageInvariant` shows that `IndInv` is inductive. The safety properties
are not inductive by themselves: they need who holds the lock (`LockInv`), that nothing runs during
the sweeps (`StartupInv`), what a request's arguments are (`ArgsInv`), that an id under
construction is known to nobody else (`FreshInv`), that what a handler has checked under the lock is
still true when it acts on it (`SectionInv`), and that trees are nested (`NestedInv`). From it
follow `TypeCorrect`, `RowsStayConsistent`, `TreesBehindRows`, `CleanStart` (an action property) and
`StorageImplementsCatalog`, the refinement: every initial state is one of `AppCatalog`'s and every step is one of its steps or
leaves the rows unchanged.

**RunDeploymentsProofs.** `SwitchesSafely` speaks of the active deployment and of the requests to stop
a container; `SwitchInv` adds where both come from: a task past the agent's answer works on a
confirmed deployment (`WorkInv`), and every stop, sent or late, was sent by the app's deletion, by the
deletion of a deployment whose row is gone for good, or by the activation of another confirmed one
(`CallsInv`). A late stop is harmless for that reason and not because of when it arrives.
`SwitchesAreSafe` and `TypeCorrect` follow.
`RowsFollow` is the step simulation of `RowsFollowCatalog`: with the app, its rows and the active deployment
for `AppCatalog`'s variables, every handler and the reconciliation take one of its steps or leave them alone
(`RowSteps`, action by action). Deleting an app again is a stutter because a deleted app has no rows and no
active deployment (`GoneInv`). It is about steps only, as the app is there from the start, and
is proved without being the property of a run.

**AgentLinkProofs.** `LinkInv` adds to `NoStaleEntry` and `OneSessionPerHost` that a call is only in
the maps of the link it took and only after it put itself there, and that an answered one-shot
call has left its map. `TablesStayCurrent` is both together. Hence a late `disconnect`, which removes
by host id, never removes a newer session, and a returned call leaves nothing behind, for any number of
calls and sessions. `OrderInv`, on top of it, follows the replies of a call on their way: the caller has the first
ones, its channel the next, the reader holds at most the one after those, and the session's stream has
the rest in order and, while the session is whole, without a gap. `RepliesStayInOrder` says that it is
an invariant. From it follows the refinement `LinkImplementsCalls`: a request is sent once because nothing
of a call travels before it was sent (`Addressed`), what `Receive` takes is the next answer and one the agent
has given because the channel holds the ones after those taken (`InTransit`), and every other step of a call
begins it, ends it or is not seen. `TypeCorrect` is proved beside it.

**HttpRelayProofs.** `RelayInv` does the same for bodies, in both directions. `UpChain` says that the
container has the first parts of a request, its channel the next ones and the session's stream those
that follow, up to the one to be sent next; `DownChain` says it of the response, from the browser back to
the agent. The gaps the code makes itself are part of it: the end of a body that was broken off may come
early (`Jumps`), nothing follows an end, and once a receiver is gone nothing is claimed of what is dropped.
`Stages` ties the places of a request together (a task exists only after its head was sent; what reads a
response is in the map, or the session is gone and its stream empty). The lemmas on queues say once what an append, a
removal of the first message, a lost session and a message of another request do to the order; each
action then has one lemma for its own request, and all share one for the other requests (`ElsewhereKept`).
`DownChain` is claimed of a request only while it reads (`Reads`) and, for what is still to come, while its
sender is in the map: a request that entered it too late is handed nothing (`Served`).
`BodiesAreFaithful`, `EntriesStayAccounted` and `TypeCorrect` follow.

**AccountsProofs.** `AccountsInv` says what a request has established by the step it is at: a row
it has read bears an id that is used for no other name (ids are never reused, names never change),
and a demotion or deletion that passed `Allowed` is not about the requester. If the requester is
still an admin when the row is written, that admin is left; otherwise `stale` is set. Hence
`TypeCorrect`, `AdminAlwaysRemains` and `OwnershipPersonal`. `SessionInv` is about sessions and logins
under way: each is backed by its row, or by a change that is about to end it or to keep it
(`Credentials`). It needs that the passwords known to sessions and to finished changes are never newer
than the table's (`Ages`), or a revoked session could become current again, and that a login's key is
its own (`Keys`), or the exception for the session that a change keeps could cover another one. Hence
`SessionsFollow`.

**GitBuildsProofs.** `BuildInv`: running clones and free permits add up to `Permits` (by the theorems on
finite sets), a task waits for every clone and, while its session lasts, for every container that works in
its directory, unless the command failed and its log broke off, and the chunks skipped, in the log, on
the wire and still to be sent add up to what was printed, with the result behind them. A good result says
that the container had exited, a bad one beside a running container that its log was broken off (`LogInv`). Hence `FetchesAreContained`, `LogsAreComplete` and `TypeCorrect`.

**AgentDeploymentsProofs.** `AgentInv`: a handler that has begun and not ended is the one in the table,
so the staging directory has one owner (`PlaceInv`); until a reconciliation sweeps, at most one start
request waits for the install container or sleeps before removing it, and it is the one that created it
(`HoldInv`). Hence `FilesAreWhole`, `CleanupsSpare` and `TypeCorrect`.

**HubStorageProofs, last part** (the proofs about `Enrolment`, whose operators bear the component's name
where `HubStorage` has one of the same kind). `IdentityInv` rests on the order of the writes: `fingerprint.txt` is written last and
only while it is missing, so once it exists, even torn, certificate and key are whole and made again only
by a start that could not read one of them (`PrintIsLast`), and until then an agent is pinned to nothing
else (`PinInv`). The secrets key is never made again (`SealInv`). Hence `IdentityIsStable`. The action
property `RevocationLasts` (`RevocationIsFinal`) needs no invariant: it holds of every step by itself.

**DeploymentLogsProofs.** `FileInv`: the `bytes_written` of the registered pump and the bytes left
uncounted are the length of `run.log`. That makes the bound inductive: a pump writes one chunk to a file
it takes to be shorter than the limit or renames one that has reached it, and the next pump takes the
length over when it opens the file, or, when it cannot read it, leaves all of it uncounted. `ReaderInv` says of each reader where its `due` chunks are (`Caught`): seen, waiting in its
receiver (`Pending`), or on disk in a file it has still to read (`Unread`), unless it is excused; and that only a
reader that reads has a receiver and one that is done has emptied it (`Shape`). A push moves no chunk out of
those three places, and a rotation or truncation while the file is read excuses the reader. Hence
`RunLogBounded` and `ReadersMissNothing`.

Only model-checked: the liveness properties (`WorkResolves`, `ReconcileRestores`,
`LostSessionUnregistered`, `CallersReturn`, `RelaysEnd`, `BuildsEnd`, `FollowersEnd`, `CaptureResumes`,
`UploadsEnd`, `InstallBoxGone`, `AgentReturns`, `RenewalsTakeEffect`), because fairness is out of the
prover's reach. Every safety property that a run checks is a theorem.

## 6. Where code and comments disagree

One run ends in a violation of what a comment of the repository says:

* `nothing_serving` — "never to 'nothing is serving'" (`routes/api.rs:476`): the old container is
  stopped before the flip of `active`, which fails when the new deployment is deleted in between.

More comments do not hold as written. The properties that would state them carry the exception
instead, and TLC finds the counterexample when the exception is taken out:

* `fail_all_pending` "unblocks every waiting caller" (`agent_link.rs`): a streaming call that registers
  after `streams` is cleared and before `outbound` is dropped waits for ever (`CallersReturn`).
* For the same reason "fails any new call immediately instead of queuing into a dead connection" does
  not hold: a relayed request, a start or a build that registers in between is sent and not answered.
  The relayed request waits for its head (`routes/apps.rs:226`, `RelaysEnd`), the others in
  `drain_command_output` (`BuildsEnd`; `FollowersEnd`, as the start keeps its log pump registered).
* "so the fingerprint stays stable across restarts" (`agent_tls.rs:20`): `read_all` takes any error for
  a missing file, so a start that cannot read a file that is there replaces the certificate that agents
  have pinned; `secrets.rs:71-75` refuses to start in the same case (`IdentityLasts`).
* An upgraded connection is "relayed until either side closes": the agent's task holds the only map
  from which its own sender would be removed, so without a final chunk it never ends (`RelaysEnd`).
* "the config file becomes the recovery path": two admins who demote each other leave the configured
  name as a member; the insert of `bootstrap_admin` then fails on the unique index, at this start and
  every later one (`AdminRemains`).

Smaller ones:

* "so the caller's final result always follows every chunk of output that led up to it"
  (agent `containers.rs:309`): not the lines that were older than the log's tail when it was opened, nor those
  behind an error of the log stream; the result does not tell.
* "the backlog already covers everything up to subscribe time" (`deployment_logs.rs:200`): not when
  `run.log` is rotated between the reads of the two files.
* A redundant pump "just opens and immediately closes a redundant stream" (`reconcile.rs:138`): the
  agent's handler goes on following the log until the session or the container ends. When the pump it
  yields to is itself about to end, nobody captures the log.
* "only attempts that never even connect grow the backoff" (agent `main.rs:88`): a refused session
  does too.
* "install already ran" (`reconcile.rs:132`): the agent runs the install again when the container is
  absent.

Without any line of the repository that promises otherwise:

* The handler of `Hub::session` can be dropped after it registered the host and before the reader
  exists that would unregister it (`grpc.rs:44-62`, `HandlerDropped`): the host is refused until
  the hub restarts.
* Deleting an app lists its deployments once (`routes/api.rs:295`): a deploy task in flight can
  start its container afterwards, and no row names it.
* The orphan sweep reads the rows before it lists the agent's directories (`storage.rs:152`): a
  deployment shipped in between is removed.
* Reconciliation fails every Pending row, also one whose task is alive (`reconcile.rs:39`), so two
  tasks of one app can run; `HubStorage` includes this and its invariants hold.
* A browser that leaves before the response head leaves its `streams` entry until the session ends, and
  so does an upgrade whose 101 response cannot be built (`routes/apps.rs:281`).
* A one-shot call sends without a timeout (`agent_link.rs:120`): while the agent's loop waits in
  `relay.rs:61` for room in a request's channel and the session's channel is full, it waits too.
* A connection lost without a sign is noticed by nobody who only waits for messages: the hub keeps the
  host's entry and refuses its redials (`grpc.rs:45-49`), or the agent waits in `inbound.message()`.
* When Podman fails the wait for a build and breaks its log off, the hub has its result and removes the
  staging directory while the container still works in it.
* The followed log of a container that stops ends, and Podman starts the container again
  (`UNLESS_STOPPED`): its log is captured by nobody until the agent's next connection.
* `run.log` outgrows its limit by up to a chunk, and by what is not counted: a failed `metadata()` counts
  an existing file as empty (`deployment_logs.rs:134-137`).
* A zip uploaded to a run-mode app is activated by storage alone (`storage.rs:943`); the container of
  the deployment it replaces keeps running.
* An upload whose last chunk never comes leaves its handler waiting: its own entry in
  `in_flight_uploads` keeps the channel open, so the error path at `handlers.rs:399` is not reached.
  A chunk that comes late starts a second handler, which never places anything.
* An install or build container that is created and fails to start is not removed, and neither is one
  whose delayed removal fails (`containers.rs:342`); its name blocks later installs. A slow second start runs the install beside the running container. After a
  reconciliation has swept an install container, the sleeping removal scheduled for it can hit the
  next one of that name.
* A start handler whose hub has given up starts a container nobody pumps; the tail that opens a
  follow repeats lines in `run.log` after a reconnect.
* A crash while the pin is written leaves an empty pin, which matches no certificate; one while
  `secrets.key` is written at the first start stops every later one; an empty `fingerprint.txt` is only logged.
* Revoking a host does not end the session it has.
* A renewal between the load of the HTTPS certificate and the watcher's first look at the files is
  not noticed until the next renewal or restart.

## 7. Not modelled

* Host routing, the dashboard's static files, error mapping: stateless.
* The MCP endpoint: another front end of the modelled operations.
* Statistics, configuration, generated protocol code: library calls and data the properties do not
  tell apart. Cryptography likewise: a certificate fits its own key and fingerprint and no other.
* The UI, the site, build tasks: no state of the system. The migrations' unique indexes are guards
  in `HubStorage` and `Accounts`.
* Inside modelled parts: zip extraction and the byte limits of a fetch (sequential checks on the
  paths and sizes of one archive), expiry times (an expired session is a choice in `Lookup`), the
  login lockout, `update_host_ip`, the times and the address that `touch_host_last_seen` writes, the uniqueness of host names, static files, headers, the pulling
  of images. A second host, and an app moved between two, are not modelled: links and agents of
  different hosts share nothing, and the move itself touches no container.

## 8. Plan

Done, in this order: `HubStorage` with `AppCatalog`, `AgentLink` with `RemoteCalls`, `RunDeployments`, `HttpRelay`,
`Accounts`, `GitBuilds`, `DeploymentLogs`, `AgentDeployments`, `Enrolment`; the proofs of every
safety property.

Next, in order of importance:

1. Hosts: several per hub and an app moved to another host.
2. The login lockout with its window.
3. An abstract specification of serving that `RunDeployments` implements.

# OpenDaemon in TLA+

OpenDaemon is a local daemon that runs coding agents for products: a product
creates a task for an agent profile in a granted directory, the daemon locks the
directory, prepares a workspace, runs the provider (a CLI process, an ACP
session or an HTTP request), records every step in SQLite and streams the events
to clients and to an optional control plane. A web console administers it. This
directory holds TLA+ models of that code, the TLC runs that check them and TLAPS
proofs about them. Source paths below are relative to the repository's root.

## 1. Inventory

| Part | State | Operations | What makes it correct |
|---|---|---|---|
| task vocabulary (`src/task/{model,state,event}.rs`) | none | `validate_transition` | a task moves along the documented graph, terminal is final |
| task store (`src/store/tasks.rs`, `sqlite.rs`) | tables `tasks`, `task_events`, `directory_locks`, `task_permission_requests` | `create`, `transition`, `append_event`, `acquire_lock`, `save_execution_result`, permission methods | log gapless, log and status agree, locks exclude |
| scheduler (`src/scheduler/service.rs`, `locks.rs`) | none of its own | `enqueue_task`, `try_acquire_directory_lock`, `prepare_workspace`, `mark_running`, `fail_task`, `cancel_task` | capacity, lock before work, lock released at the end |
| execution (`src/scheduler/execution.rs`) | locals of a call | `execute_task`, `cancel_running_task`, `persist_outcome` | a running task ends, its result is stored |
| adapters (`src/runtime/{cli,acp,http}.rs`) | a map from task to a cancel sender, child processes | `execute`, `cancel` | a provider ends by exit, timeout or cancel, and the call returns |
| event bus and stream (`src/task/service.rs`) | a broadcast channel of 256 | `publish`, `stream` | a client sees events in order, none is lost by the handoff, and the stream ends behind the task's end |
| permission bridge (`src/task/{service,permission}.rs`) | pending requests, waiters | `record_permission_request`, `await_permission_decision`, `resolve_permission_response` | one decision per request, delivered to the provider that asked |
| control plane (`src/control_plane/{client,dispatch}.rs`) | session, delivered callbacks | `run_session`, `ingest`, `cancel_remote_task`, callbacks | one local task per remote one, callbacks in order, ends reported |
| registration and liveness (`src/control_plane/{registration,liveness}.rs`, `src/store/daemon_state.rs`) | table `daemon_state` | `accept`, `mark_heartbeat`, `evaluate` | one identity, a truthful status |
| directory grants (`src/security/directory.rs`, `src/store/directory_grants.rs`) | table `directory_grants` | create, patch, delete, authorize | stored policies valid, no authorization beyond a grant |
| agent profiles (`src/agent/`, `src/store/agent_profiles.rs`) | table `agent_profiles` | create, patch, delete | a profile stays valid under patches |
| products and authentication (`src/product/`, `src/api/auth.rs`, `src/store/products.rs`) | tables of products and tokens | create, patch, issue, revoke, authenticate | a revoked token stays out |
| runtime detection (`src/runtime/{detect,store}.rs`) | a map of runtime views, version commands | detect, list | a detection answers in full, and it ends |
| console state (`crates/opendaemon-console-ui/src/state/app.rs`) | signals, the browser's storage | sign in and out, refresh, mutations | what a refresh loads is of one credential, no token left behind |
| provider registry, configuration and start, read-only routes, console client and views | none that changes | reads | not modelled, see section 6 |

How they interact. API handlers and the control plane's message handler call the
scheduler directly; every store method opens a SQLite connection of its own, so
the database is the only thing two calls share, apart from the adapters' maps of
cancel senders, the waiters of the permission bridge and the event bus.
`execute_task` is the driver of an execution; in this commit its only callers
are tests, so the models leave open who calls it, how often and for which task.
The daemon runs on tokio's multi-threaded runtime: two calls interleave between
any two statements, and the models let them. (The tests run on the
current-thread runtime, where a call is preempted only while the provider runs.)

What is hard here: nearly every store operation reads on one connection and
writes on another (check-then-act); events are committed first and published
later; a cancel can arrive between any two statements of an execution; an ACP
session is two tokio tasks and a process; a link to the control plane breaks
without notice; the daemon may die at any point and nothing is recovered at
start. `PROJECT.json` lists these hazards with their lines and the properties
that would catch them.

## 2. Modules

Tasks:

* `TaskState`: statuses, the transition table and validator, event types, lock
  modes. Pure operators.
* `TaskStore`: the tables as variables (`status`, `events`, `locks`, `results`)
  and each SQL statement or transaction as an action fragment. A row's payload,
  timestamps and identity columns are left out; an event is its sequence number
  and type, a lock row its directory, task and mode; `UNIQUE(task_id, sequence)`
  is the guard of `InsertEvent`. Released lock rows are dropped, since every
  query filters on `held`.
* `Scheduler`: the calls. `pc[p]` is the next statement of call `p`, `local[p]`
  its local variables. `TransitionValidate`, `TransitionSequence`,
  `TransitionCommit` are `TaskStore::transition`, shared by every caller as a
  subroutine (`local.then` is the statement after it, and an error returns from
  the whole call, as `?` does). `ExecuteTask` to `SaveResult` are
  `execute_task` in order; `CancelTask` is `cancel_task`, `CancelRunningTask` is
  `cancel_running_task`. `LaunchProvider`, `ProviderReturns` and `OutputEnds` are
  the CLI adapter: a registered sender is a one-shot channel, and replacing or
  removing it drops it, which the receiver cannot tell from a cancel; after the
  wait, both pipes are read to their end. A call at these last two statements is
  `InAdapter`, and nothing makes it leave. `Create`, `ChangeGrant`, `StoreError` and
  `Crash` are the surroundings; the last three happen only if `Disturbances` names
  them. `OneLocker`, `OneMover`, `NoEndWhileLocking` and `OneClaimer` name the windows
  the code leaves open between a read and the write that relies on it.
* `TaskLifecycle`: the abstract specification, one atomic step per promise:
  create, acquire a compatible lock, move along the table and give the locks up
  in the step that becomes terminal. `Scheduler` implements it as long as no two
  calls overlap in a window.
* `TaskEventStream`: the event bus and the events routes over the same tables. A
  writer reads its sequence number, commits and publishes in three steps; a
  permission decision is published twice, as in the code. A stream is the task
  spawned by `TaskEventService::stream`: `Subscribe`, `ListReplay`, `SendReplay`,
  `EndReplay`, then `Receive`, or `Lag`, `ListMissed`, `SendMissed`; `highest` is
  the cursor that filters all of them. A read of the replay that fails refuses the
  connection, a read of the missed rows that fails ends the stream (`broken`).
  `RecvError::Closed` does not occur: the daemon's `AppState` holds the bus as long
  as there are streams. The bus is the whole history, a receiver a position in
  it, and it has lagged when more than `Capacity` events are ahead.

Providers:

* `RuntimeSession`: the ACP adapter (`main` is `execute_inner`, `reader` is
  `handle_stdout`, `child` the process with its three pipes), the HTTP adapter,
  and the permission bridge. A child that exits or is killed may leave the pipes
  in `Inherited` open in a descendant: `EndOfStdout` and the two joins (`AcpJoin`,
  `AcpJoinStderr`) wait until they are closed. A `Resolver` is one POST of a permission response:
  `ReadRequest`, `CheckWaiter`, `ResolvePermissionRequest`,
  `NotifyPermissionResolution`.
* `PermissionPromise`: the abstract bridge, three steps per request: asked,
  decided, answered. `RuntimeSession` implements it.
* `RuntimeDetection`: the detect route, its version commands and the store. Each
  request reads the registry anew (one of `Registries`) and inserts its views into
  the map, which nothing is taken out of.

The control plane:

* `DaemonRegistration`: the rows of `daemon_state`, registration, heartbeats and
  `LivenessTracker::evaluate` under a clock skew.
* `ControlPlane`: `run`, `run_session` and the frames, over it. `HandleFrame` is a
  text message with everything it calls; `HandleEvent` is an event of the bus
  with its callback, keyed and recorded before it is sent. A task is moved by the
  client itself (a dispatch, a remote cancel) and by the calls in `Mover` (the
  scheduler, the API): `BeginMove`, `CommitMove`, `PublishMove` are
  `TaskStore::transition`, so that two moves of a task may both validate and both
  commit; `stale` records the tasks to which that has happened. The control plane
  sends any frame, the link breaks without notice, a read fails (which ends the
  client), the daemon restarts.

Products:

* `DirectoryPolicy`, `AgentPolicy`: validation, merging and authorization of
  grants and profiles, as operators on records.
* `ProductAccess`: products, tokens and the two statements of authentication.
* `Admission`: grants, profiles, `enqueue_task` and the rows an execution reads,
  over it. Every handler is a sequence of statements (`pc`), each a transaction
  of its own. A grant's id is the rowid SQLite gives it. `ProductBody`, `GrantBody`,
  `ProfileBody` and `TaskBody` are the request structs: what deserialization leaves
  of a body, before the handler has checked anything.

The console: `Console` is `AppState`, one action per request an operation waits
for, composed with `RuntimeDetection`, which answers its detections. `resources` is
what is on the screen, each section with the credential it was loaded with:
`refresh_all` replaces all of it at once, `detect_runtimes` the runtimes alone;
`created` is the token `create_product_token` shows.

`MCScheduler`, `MCStream`, `MCSession`, `MCAdmission`, `MCConsole` give the
constants values; `*Proofs` hold the theorems.

## 3. Runs

Passing runs:

| Run | Instance | Shows |
|---|---|---|
| `sched_faults` | many threads, one task, two executors, every disturbance | the inductive invariant `IInv` and the types hold when a task is executed twice at once, any statement fails, the daemon dies or the grant changes |
| `sched_live` | many threads, an executor, two cancellers, a stopper, one output event, each of the three lock policies, fair | `GaplessLog`, `StatusIsLastLifecycleEvent`, `EventsAreJustified`: reading the sequence number outside the transaction is harmless, because a stale number is refused by the UNIQUE constraint and a number that is still free is the next one. `RunningEnds`: a running task ends unless its adapter never returns. `PreparationLeadsOn` |
| `sched_windows` | four tasks of one directory (one writes), three executors, a canceller, capacity 2, many threads; a state in which two calls overlap in a window is checked and not continued (constraint `Windows`) | `ExclusiveLocks`, `TerminalHoldsNoLock`, `CapacityRespected`, `PreparedHoldsLock`, `RunsAtMostOnce`, `WritersRunAlone`, `TerminalIsFinal`, and `ImplementsLifecycle` (refinement, identity mapping of `status` and `locks`) |
| `stream` | two writers, one client that reconnects once, a channel of one event, reads that fail | `FramesAscend`; `OnlyOvertakenIsSkipped`: a row is missed only if a later one was published before it; `ClosesAfterTerminal`, `StreamEnds`, `GoneClientIsReaped` |
| `session_reuse` | two ACP sessions that use one request id, two responses | `WaiterIsAwaited`, and `PromiseKept` (refinement of `PermissionPromise`) |
| `session_live` | an ACP session whose pipes a descendant may hold, an HTTP session, a response, cancel, timeout, crash, fair | `DecisionReachesSession`, `SessionReturnsOrWaits`, `CancelReturns` |
| `control` | one remote task that the client and another call move, any two frames, one cut or restart, two ids the control plane may hand out | `DispatchedOnce`, `CallbacksAscend`, `IdentityIsStable`, `OnlineIsFresh`, `EndIsReported` |
| `admission` | any three of 29 requests at a time, and executions | `StoredRowsAreValid`, `ProvidersAreKnown`, `RemoteIsGated`, `RevokedTokenIsBarred`, `OwnerNeverChanges` |
| `console` | two calls at a time, a bootstrap and a product credential, a registry with and without a provider that has a version command | `RefreshIsWhole`, `SignedOutLeavesNoToken`, `AnswerIsComplete`, `LoadingEnds` |

Runs that violate what the documentation says of the program (each is a finding
in `PROJECT.json` with the quotation):

| Run | What the code does |
|---|---|
| `sched_terminal_overwrite` | two transitions validated against the same status both commit; a terminal status is replaced |
| `session_timeout` | a session that waits for a permission decision does not return when its time is over |
| `admission_id_reuse` | a deleted grant's id is given again, and a queued task runs in another product's directory |

Bounds, and why they are enough.

* Scheduler: `Task`, `Executor`, `Canceller`, `Stopper` and `Dir` are the named sets
  of each cfg; `MaxOutput` bounds the output events of one provider run,
  `MaxConcurrent` is the program's own limit. Every call runs once, which bounds
  the log. Each race needs two calls and, for locks, two tasks; in `sched_windows`
  three tasks that only read and three executors are there so that capacity 2
  could be exceeded, and a fourth that writes so that locks conflict. Executors are symmetric, and so are tasks that only read. Every executor may run every task,
  in turn and at once; the constraint `Targeted` of `MCScheduler` leaves out the
  tasks no executor is about.
* Stream: `MaxRows` 6 leaves two rows beyond the four of a running task, one for
  each writer: enough for a terminal row and one that overtakes it or comes
  late. `Capacity` 1 makes a receiver lag at the second event, `MaxConnects` 2 is
  one reconnect, and a cursor of 3 leaves one row to replay. Streams share
  nothing but what they read, so one is enough.
* Sessions: `session_reuse` has the smallest number of sessions and responses
  that can collide on an id; `session_live` lets the provider write a frame that
  may be unread when the child ends, and `Inherited` names all three pipes.
  `MayCrash` allows one crash, since no session is taken up again.
* Control plane: `MaxFrames` 2 is a dispatch and its repetition, a dispatch and a
  cancel, or two registrations; one `Mover` beside the client makes the race of two
  moves; `MaxCuts` 1 is one broken link or restart; `Capacity` 3 is less than the
  events of a task's life, so that the client lags. `MaxTime` 2 reaches
  `Threshold + Skew`, both 1.
* Admission: `MaxGrant`, `Token`, `MaxTasks` are larger than three calls can use.
  Three calls are two that race and one that deletes or revokes under them; the
  id reuse takes four (create a task, delete, create a grant, execute).
* Console: two calls are a refresh of one session and the sign-in of the next, or
  two detections. The providers are one with a version command, whose manifest
  comes and goes, and one that is never detected.

Fairness. In general, a call that has started takes its next step eventually,
because tokio polls every woken task, and timers fire.

* `Scheduler`: a call that is not in its adapter. Nothing makes an adapter return:
  an HTTP request has no timeout, an ACP session may wait for a decision, and the
  pipes of a killed CLI process are read to an end that a descendant can put off
  (`src/runtime/cli.rs:182`). Nobody has to start a call. `RunningEnds` excepts an
  executor that stays in its adapter for ever, and is checked for one executor per
  task, without store errors and crashes: each of these can leave a task running
  (nothing retries it).
* `TaskEventStream`: started writers and spawned stream tasks; no client has to
  connect, stay or leave.
* `RuntimeSession`: the two tasks of a session and started responses. Nothing
  makes a provider write, read or exit, a descendant close a pipe, an HTTP server
  answer or a product decide; `SessionReturnsOrWaits` and `CancelReturns` except the
  session that waits for ever for a decision or for a pipe.
* `ControlPlane`: separate conditions, since `select!` picks at random among the
  arms that are ready: connecting, frames, events and a move under way each go on.
* `Console`: requests are answered or fail, and a detection goes on; nothing
  makes a version command exit or close its output.

What the code does and no run of this project asserts. The first three are
reproduced by leaving `Windows` and the symmetry out of `sched_windows`, and (for the
capacity) two tasks and `MaxConcurrent = 1`: TLC then finds `ExclusiveLocks`,
`TerminalHoldsNoLock` and `CapacityRespected` violated. The others are allowed by
the actions as they stand and are read off them, not kept as runs. They contradict
a document or surprise a reader:

* Two executors pass the lock check together and both hold an exclusive row
  (`src/store/tasks.rs:539`, against `docs/tasks/phase-5-task-scheduler.md:499`); a
  cancel between check and insert leaves a held row of a cancelled task
  (`src/scheduler/service.rs:152`, against line 513); two executors pass one
  capacity count (`service.rs:132`, line 991).
* A cancel through the store frees the directory under a working provider
  (`service.rs:232`, against line 47). `running` is committed before
  the process starts (`execution.rs:131`), and the executor of a cancelled task
  stores no result (`execution.rs:190`, against
  `docs/tasks/phase-6-runtime-adapters.md:448`).
* Under lock policy none a queued task can neither run nor fail (`service.rs:146`,
  against line 501), and one that waited for a place runs without a lock; a task
  that waits is never tried again (`service.rs:153`).
* A killed provider whose descendant holds a pipe open keeps its execution, its
  task and its lock (`src/runtime/cli.rs:182`, `src/runtime/acp.rs:181` and `194`);
  so does an HTTP provider that never answers (`src/runtime/http.rs:71`, `103`).
* Any error of a control-plane session, a refused dispatch included, ends the
  client for good (`src/control_plane/client.rs:173`, against
  `docs/tasks/phase-10-control-plane.md:248`). A task's end is not reported if it
  is published while the client is disconnected or lags (`client.rs:271`).
* Two calls that move one task at once both commit, and if both moves are ends
  the control plane hears of two: terminal callbacks are keyed by the sequence
  number of their event (`client.rs:388`). `CallbacksAscend` excepts these tasks.
* A stream whose read of the missed rows fails closes under its client without a
  terminal row (`src/task/service.rs:182`).
* A live tail skips an event that was overtaken on the bus until the client
  reconnects with an older cursor (`src/task/service.rs`, `highest`).
* Two racing patches may bring direct mode back, or leave a provider with a model
  the registry does not list for it; a racing patch may enable a product that
  was disabled (`src/store/products.rs:116`). The list `[worktree, worktree]`
  evades the check for a git repository. `execute_task` uses the profile as it is
  then.
* Remote execution is checked for the provider the request names
  (`src/api/tasks.rs:125`). A request that names none takes the profile's, and if
  that is an HTTP provider the task is admitted without `tasks:remote_execution`
  and without the grant's `allow_remote_execution`; so is every dispatch of the
  control plane, which names none (`src/control_plane/dispatch.rs`).
  `docs/tasks/phase-10-control-plane.md:298-312` says of these gates "any missing
  policy gate must fail closed". `RemoteIsGated` excepts the request that names none;
  without that exception `admission` violates it.
* The console may show the previous credential's data until the next refresh, and
  beside it the runtimes (`crates/opendaemon-console-ui/src/state/app.rs:247`) or a
  new token (`app.rs:230`) of a call that was made in an earlier session. The
  stored token need not be the one in use: a stored session that is tried at the
  page load may be accepted after somebody has signed in with another token.
* The map of runtimes keeps the views of providers that have left the registry
  (`src/runtime/store.rs:25`); a route lists only those of the registry it reads.
* A version command that exits and leaves its output open in another process is
  waited for without a limit.

## 4. Proofs

All theorems hold for every value of the constants that satisfies the named
assumptions (`DirOfAssumption`, `SchedulerAssumption`, `NoExecutorAssumption`,
`StreamAssumption`, `SessionAssumption`, `RegistrationAssumption`,
`ControlPlaneAssumption`, `DetectionAssumption`, `ConsoleAssumption`,
`RegistryAssumption`, `AccessAssumption`, `AdmissionAssumption`, `TablesAssumption`,
`RequestAssumption`): the constants have their types, the kinds of calls are
disjoint, the null values are not members; requests have the fields their structs
have, and the daemon starts on tables its own handlers could have written. TLC
evaluates each of them on the instances it checks. Hypotheses that are not
always true of the program are written in the theorem instead, as `ASSUME`.

`SchedulerProofs`, for the multi-threaded scheduler with any disturbances:

* `InductiveInvariant`: `Spec => []IInv`;
* `TypeCorrect`, `LogIsGapless`, `LogDeterminesStatus`, `LogIsJustified`: its
  corollaries for `TypeOK`, `GaplessLog`, `StatusIsLastLifecycleEvent`,
  `EventsAreJustified`.

None of the log properties is inductive by itself: a call that is
about to commit carries a number and a status it read earlier. `CallInv` says
what is still true of them: the number lies in `1..NextSequence` because MAX only
grows, and some lifecycle event from which the move is allowed is in the log
because events are never deleted. `InsertTakesNext` then shows that an insert
which succeeds takes exactly the next number (every smaller one is taken), and
`InsertKeepsTables` that it keeps the log gapless, equal to the status, and
justified. Every other action leaves the log alone and only has to leave its own
call sound (`QuietStep`).

`WindowProofs`, for the multi-threaded scheduler with any disturbances. On the
daemon's runtime two calls may overlap between a read and the write that relies
on it, and then the lock discipline and the finality of ends do break
(`sched_terminal_overwrite`, section 3). What can be proved is that nothing else
breaks them: each theorem has the form `Spec /\ []W => P`, where `W` names the
window the argument needs, and no other. Everything outside the window interleaves
freely.

| Theorem | Windows | Property |
|---|---|---|
| `LocksExclude` | `OneLocker`: one call per directory between `find_active_locks` and `insert_lock` | `ExclusiveLocks` |
| `TerminalReleases` | `NoEndWhileLocking`: no end of a task committed between its entry check and its lock's insert | `TerminalHoldsNoLock` |
| `TerminalStays` | `OneMover`: one call per task between validation and transaction | `TerminalIsFinal` |
| `TasksRunOnce` | `OneMover` | `RunsAtMostOnce` |
| `CapacityIsKept` | `OneMover`, `OneClaimer`: one call between the count and its commit of `preparing` | `CapacityRespected` |
| `PreparedAreLocked` | `OneMover`, `LocksAreRequired`: no grant has lock policy none | `PreparedHoldsLock` |
| `WritersAreAlone` | `OneMover`, `OneLocker`, `LocksAreRequired` | `WritersRunAlone` |
| `SchedulerImplementsLifecycle` | `OneLocker`, `OneMover`, `NoEndWhileLocking` | `ImplementsLifecycle` |

The inductive invariants add to `IInv` what a call in the window still knows.
`LockerInv`: the call at its insert has seen no row that conflicts, and no other
call is there to add one. `EndInv`: the task of a call on its way to the insert has
not ended. `MoverInv`: the verdict of the validator is still true at the commit
(`FreshVerdict`); `RouteOK` ties the status a caller of `transition` asked for to
the statement it returns to; `RunEventsInv` and `LaunchInv` say that a task with an
event `running` is running or has ended, so that no second `running` passes the
validator, and that one executor at most is at its provider. `CapacityInv`: while a
call is `Claiming`, the place it counted is free. `LockedInv`: a task that is
prepared, or about to be, holds its row, and a writer's row is exclusive; two
providers of running tasks, one of them a writer's, would be two rows that
`ExclusiveLocks` forbids. For the refinement the two statements that write are the
abstract steps: the insert of a lock is `Acquire`, the transaction is `Move`
(`StepsAreAbstract`). `LocksAreRequired` is needed because with policy none a task
that waited for a place is prepared without a row.

`TaskLifecycleProofs`: the abstract specification keeps the lock discipline and
the finality of terminal statuses (`LifecycleLocks`, `LifecycleTerminal`).

`TaskEventStreamProofs`, for any number of writers, streams, tasks and rows and
any capacity: `FramesInOrder` (`FramesAscend`), `OnlyOvertakenLost`
(`OnlyOvertakenIsSkipped`), `ClosedBehindTheEnd` (`ClosesAfterTerminal`).
`TablesInv` says that the log is gapless, that what is published is stored, and
that a terminal status has its row; `StreamsInv` says of each stream that its
cursor is the client's last id (`CursorOK`), that what it still has to send is a
gapless stretch of rows beyond the cursor (`PendingOK`), that what it has read
off the bus is at or below the cursor or about to be sent (`PositionOK`), and
that a stream that will not tail has a terminal row among what it has sent or
will send (`TailOK`); a stream that a failed read has broken is excepted. A row is then passed over only by `Receive`, and the event
that passes it is the later row on the bus.

`RuntimeSessionProofs`, for any number of sessions, ids and responses:
`WaitersAreAwaited` (`WaiterIsAwaited`) and the refinement `BridgeKeepsPromise`
(`PromiseKept`). `BridgeInv` says that a reader past
`record_permission_request` owns the row of its request and has not answered it,
that a reader about to respond and a resolver about to notify hold the row's
decision, and that nothing is answered before it is decided. Uniqueness of the
reader is what makes `Answer` happen once: the row names one session, and
`request_id` alone is the primary key.

`ControlPlaneProofs`, for any number of remote tasks, frames, cuts and ids:
`RemoteTaskIsOne` (`DispatchedOnce`), `CallbacksInOrder` (`CallbacksAscend`),
`IdentityStays` (`IdentityIsStable`), `ReportsAreFresh` (`OnlineIsFresh`). For the
callbacks, of a task that no racing move has made stale: an event on the bus or
about to be published is of a status the task has reached (`EventsFollow`), one of
them at most is an end (`OneEnd`), no callback is ahead of its task
(`CallbacksFollow`), and a callback the client does not remember, because the set
of delivered keys was lost in a restart, is behind everything it has still to read
(`UnreadIsNew`). Publications may come in any order.
For the status, the first row's heartbeat is at most the last contact plus the
skew.

`ConsoleProofs`, for any number of calls, credentials, providers and registries:
`SectionsAreOfOneRefresh` (`RefreshIsWhole`), `NoTokenLeftBehind`
(`SignedOutLeavesNoToken`), `DetectionsAnswerInFull` (`AnswerIsComplete`). The
strengthening (`CallOK`) says that what a call has loaded is of its own client,
and that a call under way has a credential; of a detection (`DetectionInv`), that
once it has saved, the store holds its whole registry, which no later save takes
back.

`AdmissionProofs`, for any requests and any number of calls, products, tokens,
profiles, grants and tasks: `AdmissionTypeCorrect` (`TypeOK`), `StoredRowsStayValid`
(`StoredRowsAreValid`), `ProvidersStayKnown` (`ProvidersAreKnown`),
`AdmissionIsAuthorized` (every admitted task passed `authorize` with one reading of
its grant and one of its profile), `RemoteStaysGated` (`RemoteIsGated`), `RevokedStaysBarred`
(`RevokedTokenIsBarred`), `OwnersStay` (`OwnerNeverChanges`). A handler checks in
one transaction and writes in a later one, so none of these is inductive: what
the write relies on is in the handler's locals. `AdmissionInv` therefore says of
each call, label by label, which request it serves (`RequestFits`), which rows it
has read and what it found of them (`RowsFit`: the merge of a patch with the row
*as read* is valid, the pair of grant and profile *as read* authorizes, the
provider the request names is the profile's), and that
a call with a revoked token is refused or waits to be (`BarredFits`). A call's
facts are about its own locals, or about what only grows (token rows, revocations,
admitted tasks), so no other call can take them away (`OthersKeep`); each action
has to show only its own. That the facts are about rows as read is also the
limit of the result: nothing is said of the rows as they are at the write, and
the races listed in section 3 are in that gap.

`OwnGrantWithoutDeletion` is the other side of the finding `admission_id_reuse`: if
no request deletes a grant, `Spec => []RunsUnderOwnGrant`. The id of a deleted grant
is the only thing that leads a task into another product's directory.

What is only model-checked: the liveness properties (`RunningEnds`,
`PreparationLeadsOn`, `StreamEnds`, `GoneClientIsReaped`, `DecisionReachesSession`,
`SessionReturnsOrWaits`, `CancelReturns`, `EndIsReported`, `LoadingEnds`), because
fairness and ENABLED are outside the prover. Every invariant and every action
property of a passing run, and both refinements, are proved, under the hypotheses
named above; what the violation runs refute is of course not.

## 5. Limits

* A provider is its outcome and the frames or events it leaves; its effect on
  the directory is only that it is at work. A provider that outlives a crashed
  daemon is not represented.
* `Scheduler`, `TaskEventStream`, `ControlPlane` and `Admission` each keep the part of
  a task that their code looks at. In `ControlPlane` the events of local tasks, which
  only fill the channel, are left out, and so is a local task whose metadata has a
  malformed `control_plane` entry, which ends the client as a failing read does.
* `complete_task`, `save_result` and the public `release_locks` have no caller
  outside the tests and are left out.
* SQLite is taken to be serializable per transaction, and a failed statement to
  leave no trace. A grant's rowid is one more than the largest in use, which is
  what SQLite does for a table without AUTOINCREMENT.
* The checks of strings in a profile or a task are one Boolean of the request.
* The clock of the daemon does not run backwards; the control plane's is ahead by
  a constant.

## 6. Not modelled

* Provider registry: manifests are read and validated on every request
  (`src/api/mod.rs:189`). `RuntimeDetection` lets each detection read another
  registry; in `Admission` it is a constant, so that what a manifest removed between
  two requests does to stored profiles is not covered.
* Configuration, CLI and process start: parsing of arguments and environment.
* Console, status, session and health routes: reads and static files.
* Console client and views: requests and markup; a request succeeds or fails in
  `Console`.
* Path guard: file-system I/O; what a path is, is a choice in `Admission`.
* Hashing of tokens, templates, environment filtering, output capping, and the
  wire formats of the control plane and of ACP: data without protocol.

## 7. What is left

A version of the two lock theorems per directory: one grant with policy none does
not weaken the locks of the others. A run for the request that names no provider.

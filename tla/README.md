# CoachIQ verification

TLA+ models of the parts of CoachIQ's backend (`src/backend`) whose behaviour
depends on the order of events: the safety service that stops everything, the
CAN services that send, receive, record and reassemble messages, the way of a
command to a light and of its state to the database, access control, WebSocket
broadcasts, and the platform they start on. TLC checks each on small instances;
TLAPS proves the results that matter most for every value of the constants.

```
tlc -workers 2 -config SafetyAttached.cfg MCSafetyService.tla
tlapm SafetyServiceProofs.tla
```

Contents: [1 the system](#1-the-system) · [2 the models](#2-the-models) ·
[3 the runs](#3-the-runs) · [4 what the code does otherwise](#4-what-the-code-does-otherwise) ·
[5 the proofs](#5-the-proofs) · [6 what is not modelled](#6-what-is-not-modelled) · [7 plan](#7-plan)

## 1 The system

One Python process runs everything on a single asyncio event loop. Between two
points where a coroutine really suspends (a sleep, a database or network call,
a queue, another task) its code is atomic; everything hard happens at those
points. A `ServiceRegistry` builds several dozen services in dependency order,
HTTP and WebSocket handlers call them, and background tasks poll and expire.

| Component | State | Operations | Interacts with | What is hard |
|---|---|---|---|---|
| Safety service (`services/safety_service.py`) | interlocks and overrides, emergency-stop and safe-state flags, mode with expiry and session, watchdog, vehicle state | emergency stop, reset, override, modes, state update, check; monitor, watchdog | PIN manager, registry, every safety-critical service | stops that overlap while services are being called; a PIN authorization between check and change; expiries; a hung service |
| CAN message injector (`integrations/can/message_injector.py`) | open buses, active tasks, flags | single, burst and periodic injection, stops | python-can, facade | tasks cancelled at every point; callers that wait out a duration |
| BAM reassembly (`integrations/rvc/bam_handler.py`) | sessions by source and PGN | announcement, packet, clean-up, eviction | CAN bus service | lost, repeated, abandoned transfers; capacity |
| Entity control (`services/entity_domain_service.py`) | pending operations, emergency flag | safe and bulk control, emergency stop | entity service | a stop while operations are between their awaits |
| CAN transmit path (`services/entity_service.py`, `integrations/can/manager.py`) | transmit queue, optimistic entity states | light command, writer | entity manager, WebSocket | state changed before the awaits, frame queued after them |
| Entity persistence (`services/entity_persistence_service.py`) | queue of changed entities, database rows | listen, debounce, batch, retry, load, stop | entity manager, SQLite | cancel or crash between taking a batch and writing it |
| CAN facade and bus service (`services/can_facade.py`, `can_bus_service.py`) | status, emergency flag, listeners and notifiers | two emergency stops, health task, receive | injector, filter, recorder | the stops overlap and wait for the same tasks |
| CAN recorder (`integrations/can/can_bus_recorder.py`) | one state for recording and replay, their tasks | record, pause, replay, three stops | files, the bus | tasks that outlive the state they wrote |
| Message deduplicator (`message_deduplicator.py`) | hashes in a window, their order | test | CAN bus service | edge of the window, repeated hashes, size limit |
| WebSocket service (`services/websocket_service.py`, `websocket/`) | sets of clients, authenticated connections | connect, broadcast, expire, stop | every service that broadcasts | a set changed while a broadcast iterates over it |
| PIN manager (`services/pin_manager.py`) | failures, sessions, operations | validate, authorize, revoke | database | decisions on rows read before an await |
| Authentication (`auth_manager.py`, `auth_repository.py`) | failed logins, refresh tokens, second factor | login, refresh, revoke, verify | database | look-up, use and count in separate awaits; failing queries |
| Rate limit (`security_audit_service.py`), invitations (`user_invitation_service.py`) | a deque of requests; two dictionaries | check; create, accept, revoke, clean up | safety service; email | windows of different length; a newer entry under an old key |
| Service registry (`core/service_registry.py`, `service_dependency_resolver.py`) | services, stages, statuses | start all, clean up, shut down | every service | a failure in a stage that runs in parallel |
| Database update (`database_update_service.py`) | job, flag, back-ups | back up, migrate, verify, roll back | Alembic, files | the flag tested and set around an await; failing while recording a failure |
| Notification queue (`notification_queue.py`) | write batch, rows, timer | enqueue, flush, close | SQLite | callers, timer and close flush the same batch |
| Brake monitor (`brake_safety_monitor.py`) | operations by identifier, deadline tasks | track, complete, expire | — | identifiers of one millisecond |
| Everything else | mostly data or statistics | — | — | see section 6 |

What makes them correct, in a line each: a safety stop, however it overlaps
with others, reaches the safe state and every safety-critical service; no
override outlives the mode it belongs to or its own expiry; after a stop of
injector, recorder or bus nothing is sent or received; reassembled messages are
messages that were sent; the interface comes to show what the lamps do; saved
states follow those in memory and never run ahead or back; a broadcast reaches
its clients; guesses, sessions, codes, tokens and requests stay within their
limits however the database calls interleave; a start-up fails only because a
service did, and leaves none behind; a migration happens or did not; nothing
enqueued is forgotten; a missed deadline is seen.

`PROJECT.json` lists every component and, under *hazards*, the lines where each
of these may go wrong.

## 2 The models

| Module | Contents | Instance | Proofs |
|---|---|---|---|
| `SafetyService` | the safety service and its endpoints | `MCSafetyService` | `SafetyServiceProofs` |
| `CANMessageInjector` | the injector | `MCCANMessageInjector` | `CANMessageInjectorProofs` |
| `BAMHandler` | the reassembly, with the senders and the bus as environment | `MCBAMHandler` | `BAMHandlerProofs` |
| `EntityControl` | a command from the request to the lamp and back | `MCEntities` | `EntityProofs` |
| `EntityPersistence` | saving and loading entity states, with crashes | `MCEntities` | `EntityProofs` |
| `DurableState` | what saving promises (abstract specification) | `MCEntities` | `EntityProofs` |
| `PINManager`, `AccountLockout`, `BackupCodes` | PINs and their sessions; failed logins; the second factor | `MCAccess` | `AccessProofs` |
| `RefreshTokens` | refresh tokens and their rotation | `MCAccess` | `AccessProofs` |
| `RateLimit` | the rate limit of safety operations | `MCAccess`, `MCRateLimit` | `AccessProofs` |
| `UserInvitations` | invitations by email | `MCAccess` | `AccessProofs` |
| `WebSocketService` | connections, broadcasts, expiry | `MCAccess` | `AccessProofs` |
| `CANFacade` | facade and bus service under emergency stops | `MCCan` | `CanProofs` |
| `CANBusRecorder` | recording and replay | `MCCan` | `CanProofs` |
| `MessageDeduplicator` | duplicates of bridged interfaces | `MCCan` | `CanProofs` |
| `ServiceRegistry` | stages, start-up, clean-up, shutdown | `MCPlatform` | `PlatformProofs` |
| `DatabaseUpdate` | migrations with back-up and roll-back | `MCPlatform` | `PlatformProofs` |
| `NotificationQueue` | the write batch | `MCPlatform` | `PlatformProofs` |
| `BrakeSafetyMonitor` | operations with deadlines | `MCPlatform` | `PlatformProofs` |
| `SequenceLemmas` | least elements, recursive functions, how many of a list of times are recent | | |

The modules of one instance share no variable, so interleaving them would show
nothing: a variable `focus` picks, once, the component whose steps a behaviour
takes, and the run explores every behaviour of each. `safety`, `injector` and
`BAM` have instances of their own.

Names follow the code. A definition whose comment starts with *Mutant:* is a
plausible bug, used to confirm that a property can fail; no specification uses it.

### SafetyService

State: `state` is `_system_state` as the set of conditions that hold; `engaged`,
`override` the fields of the interlocks; `active_overrides`, `in_safe_state`,
`emergency`, `mode`, `mode_left`, `mode_session` the fields of the service;
`task` the place where each API call in flight (`Requests`) and the monitor and
watchdog tasks are suspended; `told` and `answer` record what the services have
been told since the latest stop began and what the last PIN operation returned.
Times are kept as ticks left: `None`, `Expired`, or a count whose 0 is the
instant of expiry itself (the code compares with `>`).

Suspension points: `asyncio.sleep` of the two loops, `authorize_operation`
(database), and the `emergency_stop` of another service. Interlock methods and
audit calls never suspend, so an action runs from one of these points to the
next, with all it calls. `ServiceStopped(t, s)` is the return (or exception) of
one service during the loop of a stop or of `_shutdown_safety_critical_features`;
`LastServiceStopped` is what follows: engage all interlocks, enter the safe
state, go through the services a second time, go on. `MonitorIteration` is one
round of `_health_monitoring_loop`, whose `_check_emergency_conditions` may call
`emergency_stop` twice in a row (field `again`). The operations with a PIN have
a `BeginWithPin` step (checks before the await) and a `...Granted` or `Denied`
step (everything after it).

The collaborators are constants, because the constructor takes them as
parameters: `RegistryAttached`, `HealthSummaries` (what the registry's
`get_health_summary()` may do), `AuthOutcomes`, `AuditService`,
`HealthCheckCalled` (whether anything calls `_perform_health_check`). In the
application as wired: no registry (main.py:1616 sets another attribute), a PIN
manager without a database session so that `authorize_operation` answers False,
and no caller of `_perform_health_check`. The runs use this wiring and the
intended one.

Abstractions: the order of the services is left open, except that `safety_service`,
itself registered as critical (main.py:1106), comes first. It is not in `Services`:
its own `emergency_stop` returns at once when a stop is active, and otherwise
begins one inside the first, the places `nested` of `EnterSafeState` and
`LastServiceStopped`. Of the five conditions the default
interlocks use, the two that all three require (not moving, parking brake) are
one, and a run may fix others as always met by leaving them out of `Conditions`;
audit log entries, feature states and status queries are left out.

### CANMessageInjector

State: `running`, `emergency`, `buses`, `active` are the fields of the service;
`job` says where each burst or periodic injection is (`created`: its task has
not run yet), which bus object it holds, how many messages are left and have
failed, whether its duration is over and whether it has been cancelled; `call`
is where each `emergency_stop` and the one `stop` is; `sent` whether the last
step put a message on a bus. A burst is awaited inside `inject` and is in no
dictionary; a periodic injection is a task in `_active_injections`. A stop has
two steps: cancel, then (after `gather`) close and clear. A task cancelled before
its first run never executes its `finally`. A bus that has been shut down
refuses messages, as python-can's do: an assumption about external code.
`startup()` is called once by the registry; restart is not modelled. A request
that validation refuses changes nothing.

### BAMHandler

State: `sessions`, `source_to_sessions`, `last_cleanup` are the handler's fields;
`sending` is what each source is transmitting and `out` the last return value.
`process_frame` is synchronous: one frame is one step, which includes the
periodic clean-up at its head, eviction at capacity, storing, completing and
removing. The bus is `Lossy` (frames vanish or repeat, transfers are abandoned,
headers may be inconsistent) or delivers everything in order. Payloads are
labelled with transfer and position, so that a delivered message shows where
each piece comes from. Sizes count packets, not bytes.

### EntityControl

`operation` is where each safe operation is between its two broadcasts and its
acknowledgement. A bulk creates a semaphore of its own for its operations (`bulk`,
`limit`); a single operation waits for none, and neither do two bulks for each
other. `pending` and `halted` are the domain service's fields, `light`
the entity's state and `device` the lamp's own level. `Advance` takes an
operation from one await to the next; `WriterTakes` and `WriterSendsAgain` are
`can_writer`, which sends each frame twice; `StatusMessage` is what the light
reports on its own. The acknowledgement never comes, because the poll calls a
method that no class defines, so every wait ends by its timeout. `WriterStarted`
says whether `can_writer` runs; `main.py` does not start it, the run does.

### EntityPersistence and DurableState

A state is the moment it was written, on a clock that counts changes. The worker
is a place and what it holds (`worker`): collecting, debouncing, writing,
waiting before a retry, draining. `Crash` may come between any two steps and
leaves only `stored`. `DurableState` has two variables, the latest and the saved
state of each entity: any set of entities may be saved at once, each saved state
moves only forward and only to a state the entity has had. `Durable` maps
`entityState[e].at` and `stored[e].at` to them; `PersistenceIsDurable` says
that the one implements the other, which the run checks and a theorem proves.

### Access control

Each module has the requests in flight as a function from request to place and
what it has read; every query is an await. In `PINManager` changes to loaded
objects are seen at once by other requests (one SQLAlchemy session), while the
result of a query may be out of date. In `AccountLockout`, `BackupCodes` and
`RefreshTokens` the repository's methods are atomic and may fail, and a
failure looks like an empty answer. The exception is the mark of a used backup
code, whose UPDATE and COMMIT are two steps: all sessions share one SQLite
connection (`StaticPool`, database_engine.py:230), and the end of any of them
rolls back what another has not committed (`RollBack`). The other modules leave
this out; it would make any write of theirs one more that may be lost, which
`EntityPersistence` and `RefreshTokens` have as failing writes reported to their
caller, not as silent ones. `RateLimit` never suspends: a check is one
step, and one deque serves every category. `UserInvitations` has the two
dictionaries, and as history what a clean-up made unreachable. Times are ticks
of a bounded clock.

### WebSocketService

`data_clients` and `authenticated_connections` are the sets; `cast` says for each
broadcast which client it sends to, whom it has met, once or twice, and whether
the set has changed since it began (`disturbed`). Python raises at the next element
when the size is another than at the start. When as many have left as have joined
it does not, but the elements of a CPython set may have moved: some may then be skipped
and others met again (`Ahead`), here at most twice. What is broadcast
serializes to JSON. `handler` where the
coroutine of each connection is, `expiry_task` the round of token expiry.

### CANFacade, CANBusRecorder, MessageDeduplicator

In `CANFacade`, `task` and `notifier` say what still runs, `stop` what each call
of either emergency stop still waits for, one task after the other; the
facade's services stop in parallel and may raise. The order in which the
listeners are cancelled is open. In `CANBusRecorder` a replay or auto-save task
is a value with a place, so that a task the recorder has lost track of is still
there. `message_buffer` is the number of the session whose messages it holds:
loading a file for a replay empties and refills it (`BeginReplay`, `LoadFails`), and a
save writes what the buffer holds then (`saving`, or `overwriting` with other
messages). Sessions have files of different names (two that start in one second
would share one), and replays are given a file, as the API does, not a session
object. `MessageDeduplicator` keeps the queue with its repeated entries.

### ServiceRegistry, DatabaseUpdate, NotificationQueue, BrakeSafetyMonitor

`ServiceRegistry` starts from any graph of required dependencies; `StageOf` is
the resolver's answer with its optimization, and the services of a stage run in
parallel, each with its own start-up that may raise. `DatabaseUpdate` has the
schema as a number, or `Torn`; each of its steps may fail. `NotificationQueue`
has the lock with its holder, the batch and the table, and a timer that, once
cancelled, is done only after it has run again; its `dequeue_batch` never
returns anything (see section 4), so the dispatcher has nothing to do. In
`BrakeSafetyMonitor` an identifier is the millisecond it was made in. It measures
by the wall clock, which moves with ticks and may be set (`SetClock`; a slewed
clock is one that is set now and then), while its tasks sleep by the event loop's
clock (`due`, a countdown). `disable()` forgets what is pending and leaves the
tasks, which find nothing, or something else under the same identifier.
`deadline_violations` keeps the last 1000; here it keeps all.

## 3 The runs

| Run | Configuration | Question | Properties |
|---|---|---|---|
| `safety_attached` | 2 services, 2 requests, PIN and plain stops, resets, shutdown, failing health summaries | do overlapping stops reach the safe state and every service, also when one hangs? | EmergencyUnderwayOrSafe, AllServicesTold, MonitorHangReachesSafeState |
| `safety_recovery` | 1 request, overrides and modes, health check called | does the monitor react to violations and expiries, and do modes and overrides end together? | OverridesTracked, ViolationsStop, ExpiredOverrideReengages, LeavingModeClearsOverrides |
| `safety_deployed` | no registry, as wired | are the services told in the application? | AllServicesTold (violated) |
| `safety_released` | as wired | do interlocks stay engaged during a stop? | StopKeepsInterlocks (violated) |
| `injector` | 3 jobs, 1 interface, 2 emergency stops and a shutdown, bursts of up to 4, 1 failure tolerated | does a stop end everything, and stay quiet? | LiveTasksTracked, QuietAfterStop, TimedInjectionsEnd |
| `bam_lossy` | 2 sources, 2 PGNs, 2 packets, 2 sessions, malformed headers | do the dictionaries agree, within capacity and age, whatever the bus does? | IndexMatchesSessions, SessionsBounded, PacketsInPlace, StaleNeverFed |
| `bam_lossless` | 3 sources, 2 slots | is every message of a perfect bus one transfer? | DeliversOneTransfer |
| `entities` | 2 operations on 2 lights, single, in one bulk or in two, 1 failing send, 1 stop; 2 entities, 4 changes, 2 failing writes, 1 stop or crash | is what runs within reach of a stop, does the interface show the lamp again, is every notified change saved? | RunningOperationsTracked, StateConverges, OperationsEnd, CleanStopSavesAll, NotifiedChangeSaved, PersistenceIsDurable |
| `access` | 2 requests of each kind, limits of 1 to 3; 3 connections, 2 casters | do limits hold while requests interleave and the database fails? do broadcasts and expiries get through? | OperationsWithinLimit, GuessesBounded, WrongPasswordsBounded, CodeUsedOnce, TokenUsesBounded, BurstWithinLimit, OneActiveInvitation, ListeningClientsServed, ExpiredConnectionCloses |
| `rate_limit_hour` | an hour of three ticks, a minute of one | does the hourly limit hold? | EmergencyOperationsPerHour (violated) |
| `can` | 2 interfaces, 2 facade and 1 bus stop; 2 recordings, 2 replays, 4 stops; 3 hashes in a cache of 2 | does a stop leave nothing running, are recordings kept, are duplicates repeats? | StopLeavesNothingRunning, StoppedFacadeRefuses, RecorderQuietAfterStop, RecordingsKept, DuplicatesAreRepeats |
| `platform` | every graph of 4 services; 3 migrations; 4 notifications in batches of 2; 2 brake operations, a switch and a clock that is set | do start-up, migration, write batch and deadlines keep their promises when steps fail? | FailsOnlyByItself, FailedStartupCleansUp, MigrationAllOrNothing, EnqueuedIsWritten, BrakeDeadlinesSeen |

**Properties with exceptions.** Several hold only with an exception that is part
of the code's behaviour, and the exception is written into the property, as a
disjunct over a history variable or a count, so that everything outside it is still checked:
`GuessesBounded` allows one guess more for each validation that had passed the
check, `WrongPasswordsBounded` also one for each failing query, `TokenUsesBounded` one
for each failing call, `CodeUsedOnce` the codes whose mark was rolled back,
`RecordingsKept` and `DuplicatesAreRepeats` name the races that lose a recording or an entry,
`EnqueuedIsWritten` what a failed flush leaves in memory, `MigrationAllOrNothing`
that a step of the roll-back failed or that another job ran meanwhile,
`ListeningClientsServed` that the set of clients changed during the broadcast,
`BrakeDeadlinesSeen` that another operation had the same identifier, the monitor
was switched off or the clock was set. Section 4 lists these exceptions as behaviours.

**Bounds.** *Safety:* the interlocks are the three the code sets up, so the
threshold of three violations is the code's; `stationary` stands for the two
conditions that all three require. Two requests are enough for every race: each has at most one suspension
with a check before and a change after it; monitor, watchdog and the plain
endpoints are further actors. A duration of one tick has the cases before, at
and after expiry. `SafetyAttached` sets no overrides or modes (they do not
influence what is called), `SafetyRecovery` has a single request. *Injector:*
two emergency stops overlap each other and the shutdown; three jobs let one send
while another is cancelled and a third has not run. *BAM:* two slots for three
pairs or more force eviction, three ticks let a session grow stale in the middle
of a transfer. *Entities:* two operations, single, in two bulks or in one of one or two
places, run together on one light or on two, or one waits behind the other; a batch of two and four changes let
an entity change again while its batch is written or waits for a retry; two
failing writes are as many as the retries, so a batch is given up. *Access:*
with limits this small, two requests overtake each limit if anything can; the
clocks reach past two lockouts, lifetimes and windows. Three connections let one be
pruned, one join and one stay behind them; in the look at broadcasts the third stays and each
caster casts once, in the look at expiry there are two. *CAN:* three calls of stop wait
for the same tasks; two replays let one be orphaned by the other; three hashes
overflow a cache of two, and the clock passes four windows. *Platform:* four services have chains, diamonds and
cycles; three migrations let a third find what two left; four notifications fill two
batches; two operations share a millisecond of two ticks, and the wall clock
goes on for twice the deadline. *Failures:* one code's mark is rolled back (`MaxUndone`),
one call of the token repository and one query of the lockout fail.

**Fairness.** `SafetyService` assumes what the event loop gives: a task whose sleep
is over eventually runs and time passes, and, in the run where somebody calls
it, the health check is called again and again. Nothing is assumed of services,
which may hang, nor of users. `CANMessageInjector` assumes that sleeps end, tasks
and gathers resume, and a duration passes; a caller may go away, so `CallerCancels`
has no fairness. `MCEntities`: the persistence worker and a load go on, and as
long as an operation can go from one await to the next, the writer write or a
light report its state, which RV-C lights do from time to time, one of them does
(there are finitely many of these steps, so none is left out for ever); commands, failures, stops and crashes
are not fair. `MCAccess`: sends and closings end, the expiry task comes round
again, and a handler whose connection is gone notices when it receives. All
fairness is weak. The other instances have only safety properties.

**Deadlock.** It is checked in the safety and BAM runs. The others may stop when
every call has been made and every task has ended, within the bounds, so their
configurations switch it off.

**Symmetry** is used for requests, sources, PGNs, stops and migrations in runs without liveness.

## 4 What the code does otherwise

Runs that end in a counterexample; `PROJECT.json` quotes the lines:

- `safety_deployed`: the registry is injected into `_service_registry`, the
  service reads `service_registry`; an emergency stop calls no service.
- `safety_released`: the first state update or check during an emergency stop
  releases the interlocks whose conditions hold.
- `rate_limit_hour`: all categories share one deque, and a request with a window
  of a minute drops the hour's emergency operations from it.

Seen while modelling; the models keep these behaviours where they concern a
modelled state.

*Safety.* An expired mode never ends as wired (nothing calls
`check_mode_expiration`). With an audit service attached, PIN operations take
effect and report failure. `SafetyServiceRegistry` has no `get_health_summary`, so an attached registry
would make the monitor's first round raise and enter the safe state. A stop called by
an API request that hangs in a service is taken over by nobody. With a registry, the safety
service is on its own list: entering the safe state calls its `emergency_stop`, so
the watchdog raises the emergency flag too, and a reset granted while a stop is under way is
undone when that stop enters the safe state.

*CAN.* A burst goes on sending while `emergency_stop` waits for cancelled tasks.
After an interrupted transfer and a lost announcement, packets of one PGN are
handed on under another (frames carry no PGN). Nobody calls the facade's `start`
and `stop`: its health task never runs; if it did, DEGRADED would permit sends during a stop.
Nothing clears the facade's and the bus service's emergency flags. The facade
calls `inject_message`, `get_queue_status` and others that do not exist. A listener
ends at its first error while the health check says healthy. Two `start_replay`
calls may orphan a replay task, whose end sets the recorder idle in the
middle of a recording; `start_recording` during `stop_recording` loses the
older session; a failed auto-save makes `emergency_stop` raise before it cancels
the replay. `load_recording` clears and refills the recorder's one buffer
(can_bus_recorder.py:662-664): a replay that is started while a stop still has to save
its session makes the stop write the file's messages under the session's name. A message exactly at the end of the deduplicator's window is queued
twice, and the older entry takes the newer one with it.

*Entities.* `can_writer` is never started: commands are acknowledged and never
sent. `get_entity_current_state` does not exist, so no acknowledgement ever
arrives. An operation in flight queues its frame after an emergency stop and
overwrites the mark the stop left. After an optimistic update `raw` is an integer
and the next command raises until a status message comes. A `task_done()` too
many ends the writer after a frame for a missing interface. The registry calls `startup()`, but
`EntityManagerService` has `start()`: persistence does not run as wired. A load
puts a whole saved record into `state` and overwrites newer changes; optimistic
updates are not notified and so not saved.

*Access.* As wired the PIN manager has no database session and refuses everything. A
blocked attempt counts as a failure and extends the lockout. A revocation between query and
decision does not stop an operation; concurrent validations may exceed the session
limit. Lockout and revocation checks fail open on database errors: a failing look-up
returns None, which `validate_refresh_token` takes for a token without a row, so that a
revoked token passes, although its comment says fail-fast (auth_manager.py:530). Two concurrent
refreshes of one token give two live tokens. Backup codes used up are replaced silently
and never shown. A code whose mark was rolled back with another session's
end lets somebody in again. `verify_mfa_setup` may enable another secret than the one it checked. `get_failed_attempts_count` negates a column
object and is always 0. Cleaning up an expired invitation drops the email entry of a newer one.

*WebSocket.* Broadcasts iterate over the live set: when a client joins, leaves or
is pruned meanwhile, the broadcast raises, the clients behind it get nothing, and
the caller, such as a light command, fails after its optimistic update. When as
many have joined as left, it does not raise and may skip clients or send to
one twice. Methods
that entity services call (`broadcast_entity_update`) do not exist. One failing close ends
a round of expiry. A client that joins during `stop()` is forgotten and not closed.

*Platform.* `shutdown()` of the enhanced registry goes through stages that are never
filled, so no service is shut down. The emergency clean-up shuts services down in
the order of their creation. `dequeue_batch` has `# nosec` inside its SQL, SQLite
refuses it, and no notification is ever delivered. A failed flush is retried
only by the next call. Two migrations may both pass the flag's test; a failure
while recording a failure skips the roll-back. A job that was rolled back keeps the status
`rolling_back`; one that says completed may still fail to record it. As the code
stands no migration gets as far as a back-up that could be restored:
`get_current_version` (database_update_repository.py:217) executes a raw SQL string,
SQLAlchemy refuses it, and the step that calls it fails; the model leaves the
answer open. The clean-up of a failed start-up only asks services that have a
method `shutdown`, and a start-up that is cancelled cleans up nothing
(`CancelledError` is no `Exception`). Brake identifiers collide within a millisecond;
a clock set back while an operation is pending lets it be completed late without a violation.

## 5 The proofs

Every safety invariant, every safety action property and the refinement that the
passing runs check is also a theorem: for arbitrary sets, every number of
concurrent calls and all values of the numbers. The assumptions are those named
in the modules (`...Assumption`), which the runs evaluate: that limits are
natural numbers and, where the code divides by them or counts up to them, not
zero; that the sets of requests, logins, services and interfaces are finite; that
an attached registry has services; that the kinds of stops of the recorder are different calls; that the rate limiter's
clean-up waits at least as long as each window and the longest lockout is not shorter than
the first; that the set of interfaces does not contain the names of the two
tasks without an interface, that `Torn` is no version, that the sentinel is no
entity id, that the holders of the queue's lock are told apart.

The bounds on clocks and counts that the runs need (`MaxTime`, `MaxGuesses`, ...)
are arbitrary in the proofs: no argument uses how large they are.

*Induction.* An argument over a list of any length (a recursive function, how
many elements satisfy something) is by the set of its counterexamples: a
non-empty set of natural numbers has a least element (`LeastElement`), and that
one's predecessor is no counterexample. From it `SequenceLemmas` derives that
recursive functions exist (`RecursionExists`), and what appending a time does to
`HowMany(list, x)`, the number of its times after `x`. The models write
recursion as functions on `0..n` so that their values are given by it.

*Safety service, injector, reassembly*

- `TypeCorrect` (`Spec => []TypeOK`, safety): one lemma per conjunct.
- `StopNeverAbandoned` (`Spec => []EmergencyUnderwayOrSafe`). Not inductive by
  itself: a task in the second loop over the services might finish outside the
  safe state. `StopInv` adds `ShuttingIsSafe`, that `_enter_safe_state` has set the
the flag before it calls anybody, also the stop nested in it.
- `ServicesAlwaysTold` (`RegistryAttached` implies `Spec => []AllServicesTold`):
  `BeingTold` says that in the safe state some one task still has before it every
  service not yet told. A new stop empties `told` and has all before it, so overlapping
  stops never leave a service to each other. Without the registry it is false (`safety_deployed`).
- `OverridesAlwaysTracked` (`Spec => []OverridesTracked`): inductive relative to
  `TypeOK`. The delicate case is an override found expired: it is dropped from
  the interlock and stays in `_active_overrides`, which the implication allows.
- `ModesEndClean` (`Spec => LeavingModeClearsOverrides`): from the two before,
  because leaving a mode finds overrides only through `_active_overrides`.
- `LiveTasksAlwaysTracked` and `StopsAreQuiet` (`Spec => QuietAfterStop`) for the
  injector, from `IInv`: a waiting call knows every registered task and no
  injection is accepted meanwhile (`WaitsForAll`), and after a call has returned
  no job holds an open bus (`AllClosed`).
- `SessionsAlwaysBounded` (`Spec => []SessionsBounded`) for the reassembly: the
  sessions are a finite subset of sources × PGNs. Eviction comes before insertion.
- `MessagesInPlace` (`Spec => []PacketsInPlace`): packets are filed under their own
  number within the announced count, so a session with as many packets as
  announced has all of them.
- `StaleSessionsNeverFed` (`Spec => StaleNeverFed`), from `SessionsInv`: at the last cleanup,
  every session that still exists was within the timeout, so between two
  cleanups it ages by at most the interval.
- `IndexAlwaysMatches` (`Spec => []IndexMatchesSessions`), from `Matching`: each
  source's list also holds each PGN only once. Without that, `remove`, which takes
  one occurrence, would leave a second; so the removal of the model, which
  takes all, is the code's. `RemainingList` says what the removal leaves, by induction.
- `OneTransferDelivered` (`~Lossy => (Spec => []DeliversOneTransfer)`), from
  `LosslessInv`: on a bus that loses and repeats nothing, a source has at most the session of the
  transfer it is sending, under its PGN, with that transfer's packets up to the
  next one. It rests on `Matching` and on `ReassemblyInv`. On a lossy bus it is false (section 4).

*Entities*

- `SavingIsDurable` (`EPSpec => PersistenceIsDurable`): the refinement. `DurableInv`
  says that no state is from the future, that an entity in memory is not behind
  its row (a load happens only while no worker runs), and that what is being
  written lies between the two; so a commit, also a late one of a cancelled
  worker or a dying process, moves rows forward and not past memory.
- `CleanStopsSave` (`EPSpec => []CleanStopSavesAll`), from `CarriedInv`: a change the
  service was told of is saved, or its entity is queued or in the batch being
  collected, or what is being written has it. It needs that the sentinel is no entity id.
- `StopsReachOperations` (`ECSpec => []RunningOperationsTracked`): inductive with the shape
  of `operation`. A stop marks what is tracked and empties the set; an operation that was
  marked may go on, and keeps the mark for as long as it runs.

*Access*

- `SessionsSpareTheirLimit` (`PMSpec => []OperationsWithinLimit`), from `SessionsInv`: no row
  is ever deleted or used for another session, so the number an authorization read still
  names its session when it decides, and the decision and the count are one step.
- `LockoutBoundsGuesses` (`PMSpec => []GuessesBounded`), from `GuessesInv`: in the
  window that ends now, the guesses and the validations that have passed the
  check and not yet counted (`Guessing`) are together at most the limit plus the number of
  validations less one. `GuessesBounded` alone is not inductive: it does not see
  the validations in flight. That the last failure is the latest one makes the
  lockout the check computes cover the window.
- `LockoutBoundsPasswords` (`ALSpec => []WrongPasswordsBounded`), from `LoginsInv`: as before,
  with one more for each failing call, which hides a failure from the count, and
  with `LockoutNotShorter`: an escalated lockout is never shorter than the first.
- `CodesWorkOnce` (`BCSpec => []CodeUsedOnce`), from `CodesInv`: a new batch has codes that
  never were, so a code that is unused, and was not made so by a roll-back, has let
  nobody in, also when a batch is replaced between the look-up of a code and its use.
- `TokenUsesAreBounded` (`RTSpec => []TokenUsesBounded`), from `UsesInv`: a token without a row
  passes, so `RetiredInv` says that a row is deleted only after its token has
  expired, and that no row becomes active again; a retired token then passes only
  by a failed look-up. While a token can be used, each acceptance is a refresh that
  still holds it or a call that failed (`UsesLimit`).
- `BurstsLimited` (`RLSpec => []BurstWithinLimit`), from `RequestsInv`: the deque is the tail of
  all the allowed requests, and what it has forgotten is older than the shortest
  window (`RemembersLast`), whichever category's check dropped it. For a longer
  window this is false (`rate_limit_hour`).
- `InvitationsExclusive` (`UISpec => []OneActiveInvitation`), from `InvitationsInv`: the email's
  entry is its active invitation.
- `ListenersAreServed` (`WSSpec => []ListeningClientsServed`), from `ServedInv`: a broadcast
  prunes only clients whose send failed, none of which is up; and while nobody
  joins or leaves, the set is the one it began with, so it has met everybody
  when nobody is ahead of it.

*CAN*

- `StopsEndEverything` (`CFSpec => []StopLeavesNothingRunning`) for the facade: what a
  stop still has to wait for covers everything that has not ended (`Covers`), at
  every step, whoever ended it; the list of listeners is emptied only when none is
  left (`ListenersFirst`: the listeners come before the engine). It needs that the initial list has
  every interface.
- `StoppedStaysStopped` (`CFSpec => []StoppedFacadeRefuses`).
- `EmergencyQuietsRecorder` (`CBSpec => []RecorderQuietAfterStop`), from `QuietInv`: after a stop has
  begun and until a replay starts, a replay that has sent a late message does not sleep
  before another, and the stop waits for the very task the recorder knows.
- `NoRecordingForgotten` (`CBSpec => []RecordingsKept`), from `KeptInv`: the buffer holds the
  messages of the current session unless one of the races has met it, and a session that is no
  longer recorded and not yet saved belongs to a call that will save it.
- `DuplicatesAreSeenBefore` (`MDSpec => DuplicatesAreRepeats`), from `DedupInv`: the queue has the
  entry of every hash of the cache, so a hash leaves the cache only with an entry
  that expired, or is counted as lost. `Cleaning` treats the queue's repeated entries.

*Platform*

- `StagesRespectDependencies` (`SRSpec => []FailsOnlyByItself`) and `FailureIsCleanedUp`
  (`SRSpec => []FailedStartupCleansUp`), from `StartupInv`: the stages before the current one are
  up, those after it have not begun, and what was created is on the list to clean up or has
  been shut down. They rest on what the resolver computes, for every graph:
  a service's layer is the first round in which its requirements are ready
  (`LayerIs`), so it is after theirs (`LayersGrow`), and the optimization of the
  stages keeps it so (`StagesGrow`).
- `UpdatesAllOrNothing` (`DUSpec => []MigrationAllOrNothing`): the invariant follows a
  job that is alone through its places, with what the schema, the back-up and the
  version it read are at each, and shows that the flag keeps others out from its
  acceptance to its end, unless two calls passed the test together.
- `NoNotificationForgotten` (`NQSpec => []EnqueuedIsWritten`) for the queue: the
  invariant relates the lock, the flush under way and the batch: what a flush
  has taken is in its transaction or back in the batch, and a batch that is not empty has
  a timer or a flush, unless one failed.
- `DeadlinesAreSeen` (`BSSpec => []BrakeDeadlinesSeen`), from `BrakeInv`: every identifier that is
  pending or a violation is an operation's, and one an operation has for itself is
  pending from its start until its response or its task comes, as long as the monitor
  stays on. That the task then finds it late, with no comparison in the task itself, is
  `WillBePast`: the wall clock and the countdown move together unless the clock is
  set. Every pending identifier keeps a task, whatever is switched or set (`Watched`).

Only model-checked: liveness under fairness (`ViolationsStop`,
`ExpiredOverrideReengages`, `MonitorHangReachesSafeState`, `TimedInjectionsEnd`,
`StateConverges`, `OperationsEnd`, `NotifiedChangeSaved`, `ExpiredConnectionCloses`),
which TLAPS does not handle: `ENABLED`, on which fairness rests, is beyond it. The violated
properties of section 4 have their counterexamples and no proof of anything.

## 6 What is not modelled

- As wired, unreachable: the notification dispatcher (nothing is ever dequeued),
  device discovery (`start_discovery` is not called, `process_can_message` neither, and
  its comparison of PGNs cannot match 17-bit ones), the facade's `start` and
  `stop`, fallback dependencies, restart of a single service.
- Decoding and encoding of RV-C and J1939 (bit fields), analytics, diagnostics,
  predictive maintenance, anomaly detection, traffic heuristics (statistics over
  floating-point data): functions with no protocol to go wrong.
- SQLite, repositories, configuration parsing, e-mail templates: input and
  output, whose failures the models above take as open.
- Token formats and password hashing; API routers, which forward; the frontend, a client.
- `_deprecated/`, which the backend does not import.
- In modelled components: log entries, statistics, status queries, file formats
  and filters of the recorder; the seven other WebSocket streams, which have the form of the one modelled.

The models cover the parts whose behaviour depends on ordering, failure and time;
by lines of code that is a small share of the backend, most of which is
data: tables, schemas, formatting, routing of requests, statistics.

## 7 Plan

1. Proofs: the session limit of `PINManager` when validations do not overlap.
2. `EntityControl` composed with `WebSocketService`, so that a broadcast that
   raises is what makes a command fail (now the broadcast's failure is open).
3. `PINManager` as refinement of the open `AuthOutcomes` of `SafetyService`.
4. The debouncer and token bucket of notifications, once something is delivered.

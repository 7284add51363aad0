# Verification of the UAM density control system

TLA+ modules, TLC configurations and TLAPS proofs for the pipeline of this
repository: vehicles that are simulated (L1), publish their status over MQTT
(L2), are ranked and landed by a scheduler with Redis (L3), shown and approved
on a dashboard (L4) and stored in TimescaleDB (L5).

`PROJECT.json` lists the runs, the source lines every definition stands for, the
hazards, the finding and the theorems. To check one run or one proof module:

    tlc -workers 2 -config scheduler_safety.cfg MCScheduler
    tlapm SchedulerProofs.tla

## 1. The system

| Component | State | Operations | Talks to |
|---|---|---|---|
| Simulator `AppService` (`apps/simulator`) | `vehicleStates`, one interval per vehicle, `vehicleSeq`, pending respawn timers | 1 s tick, `approveLanding`, `stopSimulation`, `resetSimulation` | publishes `uam/status/<vertiport>`, `uam/landed`; takes `uam/command/land`, `uam/command/reset` (all QoS 0) |
| Scheduler `AppController`, `AppService` | a Redis connection | `handleJamsilStatus`, `handleAllStatus`, `handleUamLanded`; `updatePriorityQueue`, `sendLandingCommand`, `sendResetCommand` | Redis, MQTT, gateway, persistence |
| Scheduler `EventsGateway` | `landedUams`, `landedUamIds`, `rawBuffer`, a second Redis connection | `registerLanded`, `handleLandingApprove`, `triggerAutoReset` (180 s), map timer (500 ms), top-10 poll (1 s), `handleConnection`, start-up | Redis, WebSocket clients |
| Redis (external) | ZSET `uam:landing:queue`, keys `uam:detail:<id>` with a 60 s expiry | commands, in order per connection | |
| `PersistenceService` | `telemetryBuffer`, `isFlushing`, `pool` | `pushTelemetry`, `flushTelemetryBatch` (500 ms or 200 rows), `saveLandingEvent`, start and shutdown | TimescaleDB |
| Dashboard `useUamData`, `App` | the two streams, the landed list, the lock, the approval dialog, the reset overlay | socket handlers, lock, approve, confirm, cancel | WebSocket |
| Dashboard panels | the ticker's animations, flash and badge; the others show their properties | effects, timers, folding | `App` |
| End-to-end benchmark | packets sent and received, an idle counter | sender, listener, check, exit code | MQTT, WebSocket |

What is hard. All of the scheduler is one Node.js process: a handler runs
without interruption up to its next `await`, and then any other handler may run.
The landing bookkeeping checks an id, awaits Redis, and writes; it uses two
connections to the same Redis, so that commands of one handler and of another
are executed in either order; Redis may answer with an error; a reset empties
everything in the middle; the process may die while Redis keeps its keys. The
poll reads the queue and its details at different times and does not wait for the
poll before. MQTT may lose a status, a landing or a command, and a message of one
simulation may arrive in the next. The persistence service hands over a buffer
that is being filled while an INSERT is awaited. A vehicle's flight is a small
state machine in which phases of flight, battery and approval interact. The
dashboard keeps copies of what it was sent, loses its connection, and acts on
what the operator saw.

What makes each part correct:

* landing core: a landing is registered once, listed once, blocked while listed;
  a blocked vehicle is shown; a landed vehicle leaves queue and map;
* streams: lists arrive in order, without vehicles that are gone, with the most
  urgent first; the map has the vehicles that were heard last;
* flight: every vehicle lands, in time, once it is going down it goes down, and
  at the vertiport unless in an emergency;
* fleet: one state and one interval per vehicle, a fleet of 20;
* simulator and scheduler: what is queued flies, what is blocked descends, what
  landed is written down, or there is a known cause;
* persistence: each row stored once, in order, or lost for a known cause;
* dashboard: it shows what the gateway has; old approvals do no harm;
* benchmark: it counts right, waits, and ends.

The full list of hazards, each at its line, is `hazards` in `PROJECT.json`.

## 2. Modules

| Module | Models |
|---|---|
| `Scheduler` | the handlers of `AppController`, `AppService`, `EventsGateway` between their awaits; Redis; errors, crashes |
| `LandingLog` | the abstract specification of the landing bookkeeping |
| `SchedulerProofs` | invariants of `Scheduler`, and that it implements `LandingLog` |
| `Priority` | the score of a status; the dashboard's emergency and ETA |
| `QueueStream` (extends `Priority`) | stream B: the poll, beside landings, the reset and statuses |
| `QueueStreamProofs` | invariants of `QueueStream` |
| `MapStream` | stream A: the map buffer, its timer and the clients' maps |
| `MapStreamProofs` | invariants of `MapStream` |
| `Display` (extends `Priority`) | what the panels make of the queue: cards, markers, timeline, dialog |
| `Movement` | one tick of a vehicle as a function of its state |
| `Flight` (extends `Movement`) | one vehicle from its start to its touchdown, with LAND at any time |
| `Fleet` | the simulator's vehicle map, intervals, ids, respawn timers and reset |
| `System` (extends `Fleet`) | simulator, scheduler, audit log and the lossy topics between them |
| `SystemProofs` | invariants of `Flight`, `Fleet` and `System`, and that `System` implements `Fleet` |
| `Persistence` | the telemetry buffer, its flushes, start-up, shutdown, crashes |
| `PersistenceProofs` | invariants of `Persistence` |
| `Dashboard` | `useUamData`, `App` and the gateway's side of the socket |
| `DashboardProofs` | invariants of `Dashboard`; theorems about `Priority` and `Display` |
| `Ticker` | `PipelineStreamTicker`: streaks, flash, badge |
| `TickerProofs` | invariants of `Ticker` |
| `BenchmarkE2E` | the end-to-end benchmark |
| `BenchmarkProofs` | invariants of `BenchmarkE2E` |
| `MCScheduler`, `MCQueueStream`, `MCMapStream`, `MCFlight` | symmetries, and the inputs of the runs |

Definitions named `...Unchecked`, `...Late` and so on, commented "Mutant", are not
part of any specification: they are plausible mistakes, and each property is
checked to fail when one of them takes the place of the definition it varies
(`mutants` in `PROJECT.json`).

### Scheduler

State: `queue` and `detail` are the ZSET's members and the vehicles with a detail
key; `landedUams` (ids, newest first), `landedUamIds`, `rawBuffer` (ids) are the
gateway's fields; `commands` is the MQTT channel to the simulator.

A handler in progress is a *task*. Its `at` names the Redis command it awaits:

| Handler | awaits |
|---|---|
| `handleJamsilStatus` | `zadd`, `set` (one pipeline) |
| `handleLandingApprove` | `landZrem`, `landDel`, then those of `registerLanded` |
| `registerLanded`, `handleUamLanded` | `regZrem`, `regDel` |
| `triggerAutoReset` | `resetDel`, `resetKeys`, `resetDelKeys` |
| `onModuleInit` | `bootDel` |

One action is what happens between two awaits: `HandleLandingApprove` is the
code from the duplicate check to the first await, `LandZremmed` what follows the
reply, and so on; where the code after the last await calls `registerLanded`,
`LandDeleted` takes its first part, its early return included. `conn` holds, for
each of the two connections, the tasks whose command has been written and not
executed; `Execute(c)` executes the oldest of a connection, atomically, and sets
`replied`; `Continue(t)` resumes the task. Between execution and reply another
task may run, as in the code. A pipeline's two commands are next to each other on
their connection, but the other connection may be served between them.

Errors: `RejectStatus` (an error in the result of a pipeline is not looked at),
`RejectLanding` (a rejected await ends the handler where it is; the framework
catches it), `RejectFatal` (a rejected await of the reset, its KEYS included, of
start-up, or of a read of the poll is an unhandled rejection and ends the process).
`Crash` keeps Redis and loses the rest. `cutShort` is history: the vehicles whose own
registration or approval an error ended in this process. The properties except these
vehicles and no others, so that an error is shown to harm nobody else.

Nothing waits for start-up but the timers and WebSocket approvals (`Booted`): messages
are handled from `startAllMicroservices` on, which `main.ts` calls before `listen`
runs `onModuleInit`. `OnModuleInit` is a step of its own, so that a `uam/landed` handled
before it has its ZREM on the connection ahead of the start-up DEL.

Abstractions: scores are not in this model (the queue is a set; `QueueStream` has
them), the map buffer is a set whose victim at the limit is any other entry
(`MapStream` has the order), the age of its entries is "any of them may be old".
The telemetry push and the landing audit change only the persistence service's
state and are in `Persistence` and `System`. Broadcasts are in `QueueStream` and
`Dashboard`. Commands that ioredis would send again after a reconnection are not
modelled.

### Priority and QueueStream

Batteries are tenths of a percent and distances hundredths of a kilometre, the
precision of a packet; a score is in fortieths of a point, which makes both slopes
whole numbers. `QueueStream` keeps, for each vehicle, the status whose score the
ZSET has and the status in its detail key: they differ while a pipeline is half
executed (`half`) and when a key has expired. The gateway's connection is `commands`,
those whose replies have yet to be handled, and `replies`, the answers to the first
of them: `Execute` adds one, `Deliver` takes one with its command and appends what
the handler writes next. A poll goes `idle`, `reading` (its ZREVRANGE is written),
`read` (it is executed), `getting` (the ids are in, and one GET per id is written),
`ready` (all details are in, and the promises of `Promise.all` have yet to run),
`idle`. While a poll is `ready` the event loop is in the middle of a turn: replies that
came with the last one may be handled first, nothing else happens (`Turn`).

The rest is history. `before` of a poll are the polls that read the queue before it and
are still on their way, `fresh` the vehicles that reported meanwhile, and `late` says
that a landing or a reset was broadcast while it was `ready`. `stored` numbers the status
that put a vehicle in the queue last; a removal counts the statuses that were stored
before its ZREM or DEL (`since`), and `gone` is that count for the latest removal the
clients have been told of, so `stored > gone` means that the vehicle reported since.

How landings race each other is `Scheduler`'s subject: here a landing is registered
once, and its two commands and its broadcast are what matters.

### MapStream

`rawBuffer` is the JavaScript Map as the set of its entries, each with the number of
its insertion (`at`), since that is the order in which a Map keeps its keys. `Inserted`
is `delete` and `set`, `Trimmed` the eviction of the head, the entry inserted first. Time
passes with the 500 ms
timer, which ages every status; `storing` are Jamsil statuses whose pipeline Redis
has yet to answer, in the order of the connection. `live` is history: the same
buffer without a limit. An entry of `mapUams` has an age too, so that it can be asked
whether what replaces it is newer: `updateMapBuffer` does not look.

### Display

The panels' decisions as operators on the list they are given: colour and zones of
cards, colour and size of markers, colour and position on the timeline, the
dialog. The distance to the vertiport is an input. There is no state; the theorems
at the end of `DashboardProofs` are what is said about them.

### Movement and Flight

Doubles are integers: metres of altitude, thousandths of a percent of battery, speed
in 0.0001 degrees a second, of which the code draws 3 to 10. A position is the
distance to the destination in decimetres, which the code measures on the sphere
(`getDistanceKm`) while it moves in degrees: 0.0001 degrees are 88 dm along a parallel
at this latitude and 111 along a meridian, so a vehicle has a `course`, 88 to 112 dm per
0.0001 degrees, which its straight way keeps. `Move` is the tick: the emergency check,
the step, the arrival at the LDP, the altitude by phase, the drain. `UpdateMovement`
and `StopVehicle` are the two ends of a tick, `ApproveLanding` the LAND
handler, guarded by `waitingForLanding` as in the code.

### Fleet

`flying` are the keys of `vehicleStates` and `ticking` the ids whose interval runs,
kept apart because the code keeps them apart: `stopSimulation` and
`resetSimulation` have to clear both. `respawns` counts the pending 2 s timers, which
nothing cancels. A vehicle may land at any tick; that it does is `Flight`'s. The id
sequence starts again after `IdSpace` (9999) vehicles; a respawn that would meet an
id still in the air is excluded by the guard of `Respawn`, because a flight ends
within about 1000 s (90 % of battery at 0.095 % a second) and the fleet does not
start 9999 vehicles in that time.

### System

`Fleet` with, for each vehicle, whether it waits at its LDP and is approved, and the
scheduler beside it. `reports` and `commands` are the two directions of the broker,
each in order; `LoseReport` and `LoseCommand` drop a message. All vehicles are bound
for Jamsil; the others never enter the queue.

The scheduler's handlers are cut at their awaits, as in `Scheduler`. `app` and `gateway`
are the calls that wait on its two connections; `ExecuteApp` and `ExecuteGateway` run
the oldest of one, in any order between the two.

* A status passes the check and waits as a `zadd` in `app` (`HandleJamsilStatus`);
  Redis stores it whatever has happened meanwhile.
* An approval, of any vehicle that was ever shown and is not blocked, publishes LAND and
  waits as a `zrem` in `app` (`HandleLandingApprove`), then in `approving` for the DEL
  of the detail key, and registers afterwards (`RegisterApproved`).
* `RegisterLanded` adds the id and waits as a ZREM in `gateway`. For `uam/landed` that
  call is a `landedZrem`, after which the handler has the landing in `saving` until
  its answers are in and the row is written (`LandingSaved`); a vehicle that is
  registered already is written down at once.
* The reset waits as `resetDel` (`TriggerAutoReset`); `clearing` counts those between
  their DEL and their end (`ResetEnds`), which clears the ids and publishes RESET.

`RejectApp`, `RejectApproving` and `RejectGateway` are refused calls, which end an
approval or a registration and let a status go on; a refused call of the reset, the
poll or start-up is a `Crash`, which may come at any time and loses all but Redis and
what is on its way. `OnModuleInit` puts `bootDel` behind the calls of messages that
came first; approvals and the reset timer wait for its answer (`up`).

Bounds: `MaxReports` and `MaxCommands` messages on their way; the scheduler takes a
message or an approval while fewer than `MaxCalls` calls wait (`Room`), which `RegisterApproved`
and the reset do not ask.

The history variables name causes. `excused`: a queued vehicle that was stored when
nothing would take it out again, or whose ZREM was refused when nothing else would
(`Stranded`: it counts as landed, or no `uam/landed` of it is on its way and it is
down, gone or about to be replaced by a reset); it is excused until it leaves the queue.
`unheard`: a flying vehicle that LAND did not reach, lost or before the vehicle
hovered. `unreported`: its `uam/landed` was lost. `unsaved`: its row was not written,
because the INSERT failed or the handler was ended by an error or a crash.

Every id is used once: the model stops when `IdSpace` ids are given out. What
happens when the sequence comes round is in `Fleet`, whose theorems cover it.

### Persistence

A row is the number of its push. `inserts` are the batches whose INSERT is
awaited, as a set: that it never has two members is `TypeOK`, not an assumption.
`lost` is history: rows of a failed INSERT, of a crash, or handed to a pool that
has ended. `due` is history too: rows pushed before a shutdown that no INSERT was
in the way of. `phase` is `starting` until `onModuleInit` has made the pool, which is
after the first messages may have come, then `running`, `destroying` while
`onModuleDestroy` awaits its flush, `ending` while `pool.end()` waits for the
clients in use, `closed`. The application does not enable Nest's shutdown hooks
(`main.ts`), so `onModuleDestroy` runs when the application is closed by its
host, and a signal is a `Crash`.

### Dashboard

`down` and `up` are the socket's two directions. A disconnection loses what is on
its way down and any tail of what is on its way up; approvals that are emitted
without a connection stay in `up`, because socket.io buffers them. The gateway's
side is `handleConnection`, the poll with any list at all, registrations in two
steps and the reset in three, of which the middle one is before the await of
`sendResetCommand`: only continuations run between it and the last. On the
dashboard's side a socket handler sets state at once; `rendered` is the `uams` of the
last render, which is what `handleToggleLock` has in its closure. The lock is read
through a ref, and a click is rendered before the next event, so `isQueueLocked`
needs no second copy. The operator may do anything at any time, since neither
dialog nor overlay takes the keyboard away.

### Ticker

Lists are their lengths. Each approval starts five timers, in units of 160 ms: three
that move the flash on, one that puts it out, one that removes the badge; none is
ever cleared, and one may be late by `MaxLate`. `Fold` and `Unfold` unmount and mount
the component, which runs all its effects; `VisibilityChange` is the browser's tab.
`InstantLatency` and `Smoothed` are the arithmetic of the latency display.

### BenchmarkE2E

A packet is its sequence number, which makes the `packetId` unique. Packets in flight
arrive in any order, may be lost, and may stay in flight after their arrival, to
arrive again (QoS 1). `CheckComplete` and `CheckIncomplete` are the two branches of
the 150 ms check; `quiet` is history: checks since the last packet was counted.

## 3. Runs

| Run | Question | Bounds |
|---|---|---|
| `scheduler_safety` | consistency with everything that can go wrong | 3 vehicles: one bound for Jamsil, one not, one left over; 2 tasks; map limit 1; 1 command, error, reset, crash |
| `scheduler_races` | one registration; implements `LandingLog` | 2 vehicles, 3 tasks, 2 commands, 1 crash, no reset |
| `scheduler_liveness` | resets unblock, approvals are registered and shown | 1 vehicle, 2 tasks, 1 of each failure |
| `scheduler_ghost` | the finding | 1 vehicle, 2 tasks |
| `queue_stream` | order and content of the lists | 2 vehicles, 2 statuses of 2 kinds (emergency or not), 2 polls, 1 landing or reset |
| `map_stream` | order and age in the map buffer and on the map | 3 vehicles, 2 for Jamsil, limit 2, age 3, 4 statuses, 2 landings, 1 reset |
| `flight` | battery reserve, direction, landing | the code's constants; 3 speeds, distances; 2 courses, batteries |
| `system` | fleet, queue, blocked ids and audit log agree | fleet of 1, 2 ids, 1 reset of each side, 1 report and 1 LAND on their way, 3 calls; errors, crashes and losses without bound |
| `persistence` | rows | batch of 2, 6 rows, 2 failures, 1 crash |
| `dashboard` | what is shown is what there is | 1 vehicle, 2 messages each way, 1 reset, 2 disconnections |
| `ticker` | animations, flash, badge | 2 vehicles, 4 updates, 2 approvals, 2 toggles, timers late by 1 |
| `benchmark_e2e` | counts, patience, end | 3 samples, batches of 2, 3 idle checks, 6 packets |

Why the bounds are enough. Every race of the landing core is between two handlers
(status against landing, approval against notice, either against the reset), with
Redis as a third actor; two tasks have them all, and `scheduler_races` adds a
third handler. One vehicle suffices for the races; the others are there because
queue, buffer and list tell vehicles apart, and the limit of 1 makes every second
insert an eviction. Polls can only overtake in pairs, and an order needs two
vehicles. In `map_stream` a third vehicle is beyond the limit, and an age of 3
leaves room for a status that waits while a later one of the same vehicle is stored and shown. Six rows are three batches: one stored, one awaited, one in
the buffer. In `flight` the distances are the shortest, a typical and the longest
leg of a spawn, the courses the two ends of what the three vertiports have, and the
batteries the lowest of a start and one that lasts longer;
the vehicles that nobody approves hover until the battery is at its threshold. In
`system` one vehicle is in the air at a time and the second id is its successor, by a
landing or by the reset, so that late messages and calls of the one meet the other.
Three calls are a status, an approval or a notice, and a reset, on the two connections:
the ghost of `scheduler_ghost` happens here too. The theorems are for any fleet and
any bounds. In `dashboard` vehicles do not interact,
and a list of one vehicle or none has the differences that matter. Batches of 2
for 3 samples make STRESS stop inside a batch and STEADY send more than was asked.

Fairness. `Scheduler`: weak fairness of each task's continuation (the event loop
runs every callback whose reply is in) and of each connection (Redis serves what
it is sent). Messages, approvals, timers, errors, crashes and the delivery of
commands are never forced. `Flight`: the 1 s interval. `Persistence`: start-up
completes, the timer fires, the database answers an INSERT, by success or error.
`Dashboard`: the socket reconnects (socket.io does so for ever), timers fire, the
event loops run; the operator owes nothing. `BenchmarkE2E`: connections are made or
refused, timers fire; the network owes nothing. The other modules have safety
properties only and no fairness.

`CHECK_DEADLOCK FALSE` is set for `flight`, where a vehicle that has landed is
gone, `persistence`, where a closed service is closed, `benchmark_e2e`, which is
over when it is over, and `ticker`, which is idle when nothing is received.

## 4. Properties

Scheduler. `LandedIdsListed`: an id that is refused as landed is listed or about
to be, if no command of its own registration was refused. `OneRegistration`: check-and-add without an await between makes
`registerLanded` idempotent whatever its callers saw before, until a reset.
`BufferExcludesLanded`: the map loses landed vehicles, even when a status is
stored late or its pipeline failed. `LandedStaysOutOfQueue`: a landed vehicle that is neither queued nor on its
way into the queue stays out (the finding is a status that was on its way).
`LeftoversGone`: the start-up DEL works although messages are handled before it.
`ResetUnblocks`: a reset that began does not leave vehicles blocked, for it ends or the
process does. `ApprovedIsRegistered`, `RegisteredIsListed`: progress of all landings
whose own commands were not refused.

Streams. `ListsInOrder`, `GoneStaysGone`: though polls overlap, one connection in
order is enough to keep their lists, and the broadcasts of landings and resets, in
order. `EmergenciesLead`: score and details may be of different times, but only a
vehicle that reported meanwhile can be shown out of order. `MostRecent`: the buffer
has the latest insertions of what an unlimited one would hold. `MapNeverGoesBack`: one
connection in order is enough for no status to replace a newer one of its vehicle,
though nobody compares timestamps. `LandedLeaveMap`: landings reach the map at the next
tick, also when a status of the vehicle is stored later.

System. `GhostsHaveCause`: a queued vehicle that is down, gone or blocked is on its
way out, or it has one of the causes that the code cannot help: its `uam/landed` was
lost, its ZADD overtook the ZREM of its registration (the finding) or came during a
reset or after its simulation, or its ZREM was refused. What is left to go wrong is
everything else: that a crash, an approval of a vehicle that is not queued, a stale
dialog, a second registration, or a registration that a reset forgets leaves a ghost.
None does. `BlockedDescend`: a flying vehicle that counts as landed
descends, unless its LAND is late, lost or came too early; in particular no late
message or call of one simulation blocks a vehicle of the next. `LandingsAudited`: the
log has the landings and nothing else, whoever registered them, unless the message was
lost or an error or a crash ended the handler. `FleetKept`: no landing or reset loses a
vehicle; it is a lower bound, since respawn timers that survive a reset add vehicles.

Flight. `ReserveKept`: 15 % is early enough: with the code's constants no battery
is below 9.6 %, from any phase of the flight. `AwayOnlyInEmergency`,
`EveryFlightLands`.

Persistence. `EachRowOnce`, `LossHasCause`, `StoredInOrder`, `RowsSettle`;
`ShutdownFlushes`: a shutdown stores what is in the buffer, if no INSERT is in the
way of its flush.

Dashboard. `LandedShownIsCurrent`: connected and with nothing on its way, the
dashboard shows the gateway's landed list. `StaleApprovalsListNothingTwice`: old
dialogs and buffered approvals do not list a vehicle twice. `UnlockedIsCurrent`,
`OverlayEnds`. Ticker. `StreaksBounded`, `LitIsTimed`, `BadgeKept`. Benchmark.
`CountedOnce`, `SuccessIsComplete`, `Patient`, `Ends`.

Exceptions that the properties name are behaviour of the code; section 5 lists
them.

## 5. The finding, and what else the models show

`scheduler_ghost`: a status handler that passed `isAlreadyLanded` and whose
ZADD is executed after the ZREM of the landing leaves the landed vehicle in the
queue. Nothing removes it before the next reset: its status messages stop and
the ZSET has no expiry. It holds a place of the top 10, while the code's comment
and a document say that this cannot happen.

The following is what the code does, too; the properties state it as exceptions or
are weaker for it.

* Two approvals within two Redis round trips both send LAND: the duplicate check
  reads a set that is filled afterwards. The simulator takes the second for nothing.
* A registration that awaits Redis while the reset clears the lists puts its record
  into the new list, unblocked (why `OneRegistration` and
  `StaleApprovalsListNothingTwice` end at a reset).
* A landing that is listed while the reset awaits `sendResetCommand` is hidden by the
  literal empty list that follows, until the next landing.
* An approval of a vehicle that is not at its LDP yet is registered at once and
  ignored by the simulator: the vehicle flies on unseen and lands in an emergency.
* Below 15 % a vehicle descends where it is, and may touch down far from the vertiport.
* Respawn timers that are pending at a reset enlarge the fleet beyond 20.
* A restarted simulator counts its ids from 1 again; those that count as landed stay
  invisible to the queue until the reset.
* A member of the queue without a detail key holds one of the ten places and is not
  shown.
* A poll whose list is empty has no details to wait for and may overtake an earlier
  poll; one whose last reply comes in the same turn as the end of a landing or a reset
  sends its older list after that broadcast.
* An empty map buffer is not sent: the last vehicles stay on the map.
* A shutdown during an INSERT flushes nothing; the rows pushed meanwhile are lost.
* The scheduler's emergency is below 15 %, the dashboard's below 20 %.
* A vehicle that flies very near the vertiport is shown with 0 minutes, one that hovers
  above it with 1.5.
* The dialog survives a reset, with a vehicle of the old simulation.
* `pendingChangeCount` does not count vehicles that have left the queue.
* The ticker takes `mapUams[0]` for the latest packet; it is the buffer's oldest. The
  latency it shows is between 8 and 22 ms whatever the delay (`LatencyPlausible`).
* Unfolding the ticker shows the last approval's badge again; the timer of an earlier
  badge takes a later one away; a vehicle approved twice in a row gets no second badge.

## 6. Proofs

All theorems are for every value of the constants that the named assumptions
allow; TLC evaluates these assumptions on every run. No theorem rests on anything
else. Type invariants, and invariants that another one implies or that are only
needed for proofs, are proved here and not repeated by a run (`TypeOK` of `Scheduler`,
`Fleet`, `Persistence`, `Ticker`, `BenchmarkE2E`; `FlightTypeOK`, `SystemTypeOK`;
`NoDuplicateRecords`, `RecordsBacked`, `DescentIsFinal`, `OnlyFlyingTick`,
`QuietGrace`).

`SchedulerProofs`. `TypeInv` is inductive: `TypeOK`, that every task on a
connection awaits a command of that connection, and that tasks are well formed.
`StepOK` has a lemma for each family of actions. From the point of view of the
landing bookkeeping a step is then one of five kinds (`StepKinds`): it *stays*
(list, ids and registering tasks as they were), *begins* a registration of an id
that was not blocked, *records* one, *forgets* everything (reset, restart) or
*drops* one (a rejected command). The two inductive invariants are about these
kinds and about `cutShort` only. `OnceInv` (until a reset): a registering task's id is blocked, not yet
listed, and no other task registers it; the list has no duplicates and is within
the blocked ids. `OneRegistration` alone is not inductive, for a list that already
has the id would get it again. `ListedInv`: a blocked id that is not `cutShort` is listed
or being registered, and in the map buffer only while being registered; it
survives resets and restarts, since these empty the ids, and errors, since a vehicle
whose registration one of them ends is `cutShort` from then on, as long as it is
blocked (`HistoryKept`). `Refinement` maps each
kind to a step of `LandingLog` or a stutter; it assumes `MaxResets = 0`, because with
resets it is false (section 5). `LandedStaysOutOfQueueHolds` has its own view of a
step (`StoringSteps`): a handler starts storing only a vehicle that is not blocked,
and the queue gains only vehicles that are being stored. `LeftoversGoneHolds` needs of
the tasks only that none stores a vehicle of the earlier run, and that the queue has
none of them from the answer to `bootDel` on (`LeftoverInv`).

`SystemProofs`, about `Flight`. `FlightInv` adds to the types: an unapproved vehicle far from its
destination is at cruise altitude, a vehicle's battery covers the descent from its
altitude at 20 m a tick once it is approved in an emergency, and a vehicle that is
approved is at its LDP or in an emergency. The battery bound needs the altitude in
it: `ReserveKept` alone says nothing of how long the descent still lasts.

About `Fleet`. `FleetInv` is the conjunction of the three invariants and that the fleet
is finite; `NextIdsCount`, that the next k ids are k different ones also where the
sequence starts again, is what the reset needs.

About `System`. Every step of the system is a step of the fleet or leaves it alone
(`StepIsFleet`), so that `Fleet`'s theorems hold in it (`ImplementsFleet`,
`SystemFleetKept`). The channels are sequences, but the argument needs only the sets
of vehicles whose `uam/landed` or LAND is on its way; the lemmas under "Messages" say
what sending, handling and losing a message does to these. `SystemInv` is
`FleetInv`, `Channels` (types of messages and calls, and that a landing is in a channel at
most once, without which its row could be written twice) and five `Parts`. `Sets` and `Fresh`:
the ids in use have been given out, so a new vehicle finds no message, call or approval
with its id. `Blocked` is `BlockedDescend` for the vehicles that an approval under
way will register as well, since the registration finds them only two awaits later.
`Audit` says that the places of a landing, from its message to its row, are disjoint.
`Ghosts` is `GhostsHaveCause` in the terms of `Stranded` and `Removal`: a queued vehicle that
is stranded has an excuse or a call that will take it out. It is inductive because a
queued vehicle becomes stranded only by a registration, which puts such a call on a
connection, by a lost message, or by the DEL of a reset, which empties the queue: whoever
is in it while a RESET is coming was stored since, is excused, and stays so when the
vehicle is taken out of the air. `GhostsHaveCause` by itself does not survive
`HandleResetCommand`. A refused call gives the excuse as it goes, and a crash leaves the
start-up DEL to come.

`PersistenceProofs`. `PersistenceInv` is `TypeOK`, `EachRowOnce`, `LossHasCause` and
`Ordered`: what is stored was pushed before what is in flight, and that before what
is in the buffer. `StoredInOrder` follows from it, and `DueStored`, that rows due at a
shutdown are in an INSERT or stored, gives `ShutdownFlushes`.

`QueueStreamProofs`. The polls are argued from what is on the connection. A step is of
one of a few kinds: a poll begins, its ZREVRANGE is executed (`Reads`), it learns its
ids (`Asks`) or a detail (`Learns`), it ends (`Ends`), or no poll moves and the connection
grows or moves up by commands that belong to none (`Moved`). The four parts of the
invariant are proved on these kinds.
`PollsOK` says what a poll waits for: one ZREVRANGE and nothing else before it is
executed, and once it has n of its details exactly the GETs of the others, in order.
`OrderOK` orders two polls: of one that read the queue earlier every command is before
those of the later one, so its last detail comes first; `ListsInOrder` by itself says
nothing of the way there. `RemovalsOK` follows a removal along the connection: a vehicle
in the queue, or in a list on its way, has a status newer than every removal that was
executed, is on its way or was announced, except those that come after the list on
the connection, and these are announced after the list is sent unless it is `late`.
`ScoresOK` says that score and detail of a queued vehicle are of the same status, but
for the one between ZADD and SET (`HalfOK`), and that any detail a poll may still get
for a vehicle that has not reported since is in the order of the scores it read
(`InScoreOrder`); that emergencies outrank the others is then arithmetic
(`EmergencyAhead`). TLC checked `RemovalsOK` and `ScoresOK`, their quantifiers bounded, on
a small instance before they were proved.

`MapStreamProofs`. `Recent` is kept by each operation on the buffer: that the head
exists (`HeadExists`, from the well-foundedness of the numbers) and that evicting it
leaves the latest. `MapInv` adds that until a reset a listed vehicle is blocked and out
of the buffer, which `LandedLeaveMap` needs: a status stored late finds it blocked.
`MapNeverGoesBack` has an invariant of its own (`InOrder`): the statuses of the connection
are in the order of their ages, none is older than what the buffer or the map has of its
vehicle, and the buffer is never behind the map.

`DashboardProofs`. `DashboardInv` adds `Current`, that the last `landed:update` on its way
down, or what is shown if there is none, is the gateway's list, and `Disjoint`, that
registrations under way and the list have no vehicle in common and are all blocked.
About `Priority` and `Display`: the range of the score, that an emergency outranks
everything else, that the score is monotone. `TrackMonotone` rests on a lemma that
integer division is monotone.

`BenchmarkProofs`. `BenchmarkInv` adds to the counts that the run in its grace period
has all packets (so nothing can be counted or sent), and that `idleCounter` is at most
the number of quiet checks.

`TickerProofs`. `TickerInv` adds that a folded ticker is dark and has no timers.
`StreaksBounded` has an invariant of its own, the streaks of the two streams counted in
the list of all (`StreaksOK`), and `BadgeKept` that the only timer, unless approvals
overlapped, is that of the badge on show (`BadgeTimed`).

Only model-checked: the liveness properties (`ResetUnblocks`, `ApprovedIsRegistered`,
`RegisteredIsListed`, `EveryFlightLands`, `RowsSettle`, `OverlayEnds`, `Ends`), which
are beyond the prover. Every invariant and every action property of a run is proved,
but for the finding, which is false.

## 7. Not modelled

* Drawing: the 3D map, the canvas, markers and animations as pictures, the header, the
  landed log, badges, translations. They show properties they are given, or call
  third-party libraries.
* The I/O isolation benchmark and `verify-persistence.ts`: measurements of a database,
  without a state of the system's own. The latencies of the end-to-end benchmark.
* Framework wiring, deployment files, `apps/gateway` (empty).
* A crash of the simulator. No code handles it, so there is nothing it promises;
  section 5 has the consequence.
* The clients' `map:update` of a reset and of a lost connection are in `MapStream` only
  as far as the map shows old vehicles; two dashboards at once see the same broadcasts
  and share nothing.

What could come next: `MapStream`'s buffer shown to implement the set of `Scheduler`, and
`QueueStream`'s lists the input of `Dashboard`.

# SomnyToo: verification project

TLA+ models of the SomnyToo server (`src/`, Rust, tokio), the TLC
configurations that check them, and theorems that TLAPS checks. The models are
read from the code; a comment or the documentation (`src/README.md`) is only
used where a run shows that the code does something else. Paths below are
relative to `src/src/core/protocol/` unless they start with `src/`.

1. [The system](#1-the-system)
2. [The modules](#2-the-modules)
3. [What the runs check](#3-what-the-runs-check)
4. [What is proved](#4-what-is-proved)
5. [Where the code does not do what it says](#5-where-the-code-does-not-do-what-it-says)
6. [What is not modelled, and the plan](#6-what-is-not-modelled-and-the-plan)

## 1. The system

A TCP server accepts connections, makes a session for each with the phantom
handshake, and hands every frame to the *batch system*: a reader that cuts
frames, one event handler, a work-stealing dispatcher with worker loops behind a
circuit breaker and a QoS manager, a writer that batches the answers, and an
adaptive controller that tunes all of them. Rate limiters and a congestion
controller stand beside the door, a monitoring registry and an SQL layer beside
the whole. Everything runs as tokio tasks of one process that share state
through `RwLock`s, `DashMap`s, atomics, semaphores and bounded channels; nothing
is persisted.

The way of a frame, with the part that decides at each step:

    client -> reader task -> reader channel -> converter -> event channel
           -> event handler (breaker, priority) -> dispatcher queue or injector
           -> worker loop (QoS permit, decryption) -> results
           -> track_task_result -> process_task_result (session, packet breaker)
           -> packet service (ping, heartbeat) -> writer -> client

### 1.1 Inventory

| part | state | operations | interacts with | hard behaviour | what makes it correct |
|---|---|---|---|---|---|
| circuit breaker `batch_system/circuit_breaker.rs` | state, failure count, probe successes, time of the last failure, recovery model, each behind a lock of its own | `allow_request`, `record_success`, `record_failure`, `reset` | event handler, `submit_task`, worker loops, `process_task_result`, adaptive controller, performance monitor | calls interleave between locks; lock orders that cross; decisions on a copied state | Closed means below the threshold; Open has backed off; Open is left; calls come to an end |
| dispatcher `batch_system/optimized/work_stealing_dispatcher.rs`, `factory.rs` | a bounded queue per worker, the injector, length counters, backlog, results, `is_running` | `submit_task`, the worker loops, the task cleaner, `shutdown`, `get_result` | event handler, breaker, QoS manager, session manager, crypto | counters changed apart from the channels; two loops on a queue; refusal of a permit; shutdown in mid-turn | a task is in one place; counters cover the queues; queued tasks are taken; loops end |
| QoS manager `batch_system/qos_manager.rs` | three semaphores, three leaky buckets, quotas, statistics | `acquire_permit`, `adapt_quotas` | worker loops, controller, performance monitor | a timeout racing a permit; quotas changed while permits are out; locks held across `await` | permits are neither lost nor made; callers are answered |
| worker pool scaling `batch_system/integration.rs` | scaling settings, `scaling_lock`, pool and its counter, command channel | `scale_up`, `scale_down`, auto-scaler, command handler, monitor's check, emergency shutdown | adaptive controller sends commands | non-atomic counter; guards alive across `await`; a lagging broadcast receiver | counter equals workers, within limits; an emergency shutdown is obeyed |
| connections `server/tcp_server_phantom.rs`, `connection_manager_phantom.rs` | one task per connection; the map of shutdown senders | handshake, registration, wait, clean-up | session manager, batch system | registration step by step while the reader already runs; clean-up against frames under way | a connection that is gone leaves nothing behind |
| sessions and heartbeats `server/session_manager_phantom.rs`, `server/heartbeat/` | sessions, heartbeat entries, `cleanup_lock` | add, register, look up, heartbeat, force-remove; check loop, sender loop | connections, worker loops, packet service | two maps under two locks; late heartbeats | a heartbeat entry has a session; a served session is known |
| event pipeline `batch_system/integration.rs` | two bounded channels, `active_connections`, statistics | converter, event handler, `track_task_result`, `process_task_result`, shutdown | reader, dispatcher, breaker, writer | the only consumer also produces; opened and closed events by different ways; polling with a limit | every event is handled; entries follow connections; answers go to their own stream |
| reader `batch_system/core/reader.rs`, `packets/frame_reader.rs` | per connection: errors in a row; models of size, rate and timeout; connection count | register, read loop | event pipeline | a timeout in mid-frame; ten idle reads end the reader alone | frames are cut where they were made; the count is the number of readers |
| writer `batch_system/core/writer.rs`, `packets/frame_writer.rs` | streams, task channel, backpressure semaphore, per-loop batches | `write`, immediate write, writer loops, shutdown | event pipeline | one receiver for all loops; failures of one batch; permits | an answer is written once or reported |
| adaptive batcher `batch_system/adaptive_batcher.rs` | batch size, predictors, PID and MPC state | record, compute | controller, batch processor | a chain of corrections | the size stays within its limits |
| adaptive controller `batch_system/integration.rs` 200-900 | learning state, history | one cycle: batch size, workers, QoS, breakers, crypto | everything above | it stops with the first callee that does not return | cycles go on |
| buffer pool `batch_system/optimized/buffer_pool.rs` | five free lists, statistics | acquire, return, clean up, adjust | reader, writer | lists changed by clean-up while in use | buffers are in one place; capacity kept |
| crypto processor `batch_system/optimized/crypto_processor.rs` | queues per worker, injector, batch processor | submit, worker loop, batch loop, shutdown | dispatcher, controller | the same queue and counter pattern as the dispatcher | a task is in one place |
| rate limiter `server/security/rate_limiter/` | striped counters, per-source history | `check_packet`, clean-up | congestion controller | a window reset racing an increment | a window admits no more than its limit |
| congestion control `server/security/congestion_control/` | AIMD limits, reputation, offenses, bans, IP database, caches | packet decision, opened/closed, ban, whitelist, periodic clean-up | server start | cache against database; expiry of bans | a whitelisted source is not banned; limits stay in range |
| packets, handshake, sessions' keys `phantom_crypto/`, `packets/` | sequence counters, keys | create, decode, handshake | reader, writer, worker loops | lengths of 16 bits; the two sides of the handshake | what is framed can be read |
| scatter/assemble `phantom_crypto/memory/` | parts of a key | scatter, verify, assemble | sessions | fallbacks | assembling inverts scattering |
| monitoring `src/src/core/monitoring/` | monitors, alerts, health history, cache | register, collect, clean up | server start, heartbeat system | caches and histories with limits | histories stay within their limits |
| SQL layer `src/src/core/sql_server/` | pools, replicas and their measures, caches, limiter, blocks | execute, batch, select replica, scale, health checks | server start | replicas that come and go while selected; batches that fail halfway | a selected replica exists; replica count within limits |
| metrics, tracing, audit, configuration, query text, ciphers | counters, text, arithmetic | | | | outside a model's reach or without control flow |

### 1.2 What is hard in this code

`PROJECT.json` lists the hazards with their lines. They are of six kinds:

- *locks and guards across `await`.* tokio's `RwLock` is fair and not reentrant:
  a task that reads what it will write waits for itself. The breaker's controller
  path, `adapt_quotas`, `scale_up`/`scale_down`, the auto-scaler, the congestion
  controller's `update_config` and the monitoring's health check do this; the counter
  updater and the query cache do it with the shards of a `DashMap`.
- *state that is checked under one lock and used under another:* the breaker's
  copied state, the dispatcher's counters, the two registries of a session, the
  lists of the silent sessions, the balancer's replicas and their metrics, the
  limiter's times, the permits that are free when the quotas change, the size of the
  pool.
- *order of events:* `ConnectionOpened` and `ConnectionClosed` go by two ways; a
  result may come after its poller has gone; packets of one session are made by many
  tasks.
- *limits and numbers:* bounded channels, the broadcast channel of commands, the
  injector's backlog, permits, the clamps of the batch size, the 16 bits and the
  65,536 bytes of a frame.
- *partial failure:* a refused permit, a stream that breaks under an answer, half a
  frame on a stream, a query in a batch that fails.
- *time:* a read that times out in the middle of a frame, heartbeats that race the
  check, windows that slide while a call waits.

## 2. The modules

| module | models | composes / is used by |
|---|---|---|
| `CircuitBreaker` | one breaker and the tasks that call it, one action per lock acquisition | `CircuitBreakerProofs`, `MCCircuitBreaker` |
| `WorkStealingDispatcher` | `submit_task`, worker loops, cleaner, shutdown | `WorkStealingDispatcherProofs`, `MCWorkStealingDispatcher`; implements `TaskService` |
| `TaskService` | the abstract promise about a task: refused, or taken and then dropped or done once, with a result until it is forgotten | instantiated by `WorkStealingDispatcher` |
| `QosManager` | `acquire_permit` and `adapt_quotas` | `IntegrationProofs`, `MCControls` |
| `Scaling` | the pool, the three tasks that resize it, the commands | `IntegrationProofs`, `MCControls` |
| `Connections` | connection tasks with sessions, heartbeats and connection manager, reader tasks, converter and event handler, frames up to their answer | `ServerProofs`, `MCServer`; implements `FrameService` |
| `FrameService` | the abstract promise about a frame: answered at most once, on its own stream, or dropped | instantiated by `Connections` |
| `EventPipeline` | the two bounded channels, converter, event handler, trackers of results, and the tasks that share the statistics with them | `IntegrationProofs`, `MCEventPipeline` |
| `BatchWriter` | `write`, the immediate write, the loops that share one receiver, failures, shutdown | `PartsProofs`, `MCParts` |
| `BatchReader` | one reader's task over `read_frame`, with its peer | `PartsProofs`, `MCParts` |
| `PhantomPackets` | a connection from both ends: handshake, sequence numbers, packets, answers | `PartsProofs`, `MCParts` |
| `AdaptiveBatcher` | the measurements and the decision about the batch size and the workers | `PartsProofs`, `MCParts` |
| `BufferPool` | the buffers of each class, the background task and its clone, the forced cleanup | `PartsProofs`, `MCParts` |
| `ControlCycle` | a turn of the control loop, its seven optimisations and their locks | `PartsProofs`, `MCParts` |
| `CongestionControl` | what concurrent calls do to the standing of one address; the configuration | `PartsProofs`, `MCParts` |
| `LockPrograms` | tasks that take locks in the order of a program, with fair queues, and what holds of all of them | instantiated by `SystemTasks` and `HealthReports` |
| `SystemTasks` | the two handlers and twelve loops of the batch system as users of its shared locks, with the flags that end them | `ServicesProofs`, `MCServices` |
| `HealthReports` | the calls of the monitoring as users of its locks | `ServerProofs`, `MCServer` |
| `Heartbeats` | the check of the silent, the sender, the commands, a caller, with time | `ServicesProofs`, `MCServices` |
| `SqlServer` | the executor with its mutex, and the two-level cache | `ServicesProofs`, `MCServices` |
| `SqlBatch` | the gathering and running of batches | `ServerProofs`, `MCServer` |
| `SqlLimits` | the rate limiter with its cleanups, patterns and blocks, with time | `ServerProofs`, `MCServer` |
| `SqlScaling` | the balancer of the replicas and the auto-scaler | `ServerProofs`, `MCServer` |
| `Filters` | what `retain` leaves of a list; `FilterTheorems` proves what it keeps | `SqlServer`, `SqlBatch`, `SqlLimits`, `SqlScaling` |

`MCParts`, `MCServices`, `MCServer` and `MCControls` put parts that share no variable
into one run: the initial state chooses the part that moves (`part`), the others
stutter, and the states add up and do not multiply.

How state and actions correspond to the code (the exact lines are in
`PROJECT.json`, "map"):

**CircuitBreaker.** Each field of the Rust struct is a variable; the recovery
model is `delay` and `attempts`, times are counted in units of `base_delay`.
`pc[c]` is the lock that caller `c` wants next. A guard that Rust keeps alive to
the end of a scope is a step in a `Holds...` set, and an action that needs the
lock is enabled only when nobody stands at such a step; a guard that dies with
its statement is part of one step. Callers come in four kinds, because the code
behaves in four ways when it is rejected: submitters record a failure
(`handle_data_received`, `submit_task`), pollers do not (worker loops), the
controller tries a recovery with the recovery model locked, the performance
monitor resets. Requests of the metrics and the Markov and failure-rate models
are left out: nothing reads them to decide.

**WorkStealingDispatcher.** `queue`, `injector` and `count` are the channels and
the atomic lengths; the send or receive and the change of the counter are two
actions, as they are two statements. `submit_task` is a sequence (check, send,
count) of the one event handler. The factory starts the loops that `new` has
started already, so a worker may have several `Loops`. What the load balancer
computes only chooses a worker: the choice is left open. What the breaker refuses at the top of a turn is left out:
the loop sleeps and begins the next turn, which changes nothing but the time, so a turn
that does not begin yet (`StartTurn`) stands for it, and that turns begin at all is a
hypothesis of the liveness. Cancelled, expired and
undecryptable tasks end with a result like the others. `Fate` maps a state to what
`TaskService` sees of each task: the channels and the loops tell while it is inside,
`finished` and `results` afterwards, and of a task that is nowhere `accepted`.

**QosManager.** A call is: count the request and see the buckets, see the
semaphore, wait with a timeout of 50 ms, get the permit or give up; a permit that
arrives in the moment of the timeout is returned. `free` is the semaphore, and the
permits that are out are with the callers. An adaptation looks at the free permits of a
class (`SeeFree`), and adds what they lack of the new capacity in a later step
(`AddPermits`), so calls come in between.
High and Critical callers keep the quotas read-locked while they wait. What
`adapt_quotas` computes is any member of `Decisions`.

**Scaling.** `tpc` is the next step of the command handler, the auto-scaler and
the performance monitor; `lock` is `scaling_lock`; `reads` counts the guards of
`scaling_settings` that a task has alive. The counter of the pool is loaded by the caller
(`Lock`) and again by `add_workers` or `remove_workers` (`Plan`), which then waits for
the handles, spawns (`Spawn`) and stores the new counter (`Store`): `loaded` and `goal`
are what a task has in its hands meanwhile. `Pause`, `Resume` and `AdjustConfig`
are never sent by anybody and are left out. Emergency shutdown is the command
that the handler obeys.

**Connections.** `task[c]` is the next step of a connection's task. The three
registries are sets of connections: a session id is new for every handshake, so
the connection stands for it. Addresses are not: `Addr` may be the same for
several connections, and `active_connections` and the events are by address, as
in the code. The reader starts before the writer, the announcement and the
session's heartbeat are in place. A frame goes from the reader's channel through
the converter to the handler, then to the dispatcher (one step: `Lose` is
everything that can drop it there), finds its session, beats, and is written to
the stream that its session has in the writer. The main program's heartbeat
manager has no sessions and the session manager's never starts its loop, so no
loop ends a connection; only the timer of 300 seconds does.

**EventPipeline.** Where `Connections` asks what the events do to the registries
and to an answer, this module asks whether they get through. `handler`,
`tracker[f]`, `updater` and `monitor` are the next steps of the four kinds of
task; a step at which a guard of the statistics or of `active_connections` lives
across an `await` makes `StatsFree` or `ConnectionsFree` false, and a guard that
dies with its block is part of one action. A place in a bounded channel is `Room`.
The dispatcher is what its callers see of it: a frame that was accepted may or
may not get a `result`, which the tracker copies and leaves. Calls of the breaker,
the session manager, the packet service and the writer are assumed to return
(what they do when they do not is the subject of the other modules), and any of
their outcomes may come. `collision` says which of the updater's three keys falls
into the shard of an earlier one: the hasher is seeded at the start, so the
initial state chooses, and a collision never goes away. Left out: the
collector of statistics, the batch and SIMD processors and the session cache, whose
queues nothing fills; the cleaner of results, which takes away what is older than
300 seconds, long after the tracker; the names and values of the metrics. That a
`DashMap` blocks the thread and not only the task is not modelled either.

**BatchWriter.** `wpc[t]` and `lpc[i]` are the next steps of the calls of `write`
and of the loops. `registered`, `active` and the frames are the vector of streams; its
lock is held while a frame is written, so `LockFree` is that nobody stands at
`"writing"`. The loop that has the mutex of `task_rx` keeps it for good
(`receiver`) and drops tasks of other addresses. A frame reaches its stream whole, or
the stream is given up with a part of it (`cut`). `returned` counts the permits
that the loops give back for tasks whose call has given its own back already.

**BatchReader.** The wire is a number of pieces, two of each header and one of each
body; `taken` and `start` are where the reader is and where it believes that the frame
began. A read that times out forgets what it took. The timeout model is what it does to the
timeout: it raises it from a measured time, up to 30 s. The channel of the events is
bounded and shared with the other readers: `inChannel` is how many are in it, whoever sent
them, and the task waits for room in both of its sends.

**PhantomPackets.** `line[e]` has what is on its way to an end. A session is the
secret and the salt that `from_dh_shared` orders by role; a packet opens with the
session it was made with. Numbers are taken by one task and packets sent by another,
so they arrive out of order. Sizes are kept, since `create` and `read_frame` have
different limits.

**AdaptiveBatcher.** The estimates (the optimum of the model, the terms of the PID
controller, which candidate is cheapest) are choices; what is done with them, with
every clamp and rounding, is the code's. The workers' cost depends on no estimate and
is computed.

**BufferPool.** Nothing takes a buffer and nothing returns one, so a class is a
number of idle buffers. The background task works on a clone with queues of its own:
`tended[c][a]` is how many of its buffers are at most `a` turns old.

**ControlCycle.** A turn is `join!` of seven branches in one task: `step[b]` is where
each is. The configuration's `RwLock` is fair to a waiting writer; the entry of a
metric is a `DashMap` guard, so waiting for it stops the thread (`frozen`). What
`adapt_quotas` and the open breaker's retry do when they do not return is
`QosHangs` and `BreakersHang`: the modules of those parts say when.

**CongestionControl.** One address: `record`, `cached` and `tracked` are the database,
the reputation cache and the offence tracker, each with a lock of its own, so a call
is a sequence of looks and writes, with what it saw in `calls[c].saw`. Scores are in
percent; the logarithm of the offences is a constant function. A record that is missing
is looked for in one step and made in another, for the manager as for the score.

**LockPrograms, SystemTasks, HealthReports.** A call is a sequence of steps, each with
a lock, a mode and the last step under its guard. A task that cannot have a lock stands
in its line, and nobody overtakes. The programs are read from the functions one
by one, with the temporaries that Rust keeps to the end of a statement or of a block.
A function that takes different locks according to what it finds is several programs:
`adjust_config` has one for what needs no lock, one that looks at the limits only, one
whose scaling finds nothing to do and one that changes the pool, both under the guard of
the limits; `update_scaling_settings` three. The turn of the controller has a second
program, in which it stops as `ControlCycle` says it may.
`SystemTasks` also has the three flags and lets every loop end when its own is down; an
instance follows some of the loops, the two handlers always run.

**Heartbeats.** A tick is the ping interval. Every task looks at one map at a time and
goes on with what it saw: `todo[w]` is the rest of its list. The model has all the
tasks of the library running on one set of sessions; in the program as `main` builds it
the running manager has no sessions and the one with sessions is not started.

**SqlServer, SqlBatch, SqlLimits, SqlScaling.** `desk` is the executor's fair mutex with
its waiters; the cache is followed for one SELECT, with the first level (`near`), the
second (`kept`) and its age. A batch is gathered and run under one mutex: reads in
any order, writes in theirs. `SqlLimits` keeps times as ages, since `check_limit` takes the
time first and compares with it later. `SqlScaling` has the two lists under two locks
that the code edits one after the other.

## 3. What the runs check

Each run finishes in about three minutes or less with two workers.

| run | instance | states | checks |
|---|---|---|---|
| `breaker_safety` | two submitters and the controller; threshold 2, two probes, back-off cap 1 | 304 k | `ClosedBelowThreshold`, `NoOtherDeadlock` |
| `breaker_recovery` | two pollers and a resetter, fair | 147 k | `OpenIsLeft` |
| `dispatch_safety` | two workers with a loop each, queues of 3, injector of 1, six tasks | 665 k | `OnePlace`, `CounterCovers`, `LeftStays` |
| `dispatch_live` | one worker with two loops, cleaner, shutdown, three tasks, fair | 16 k | `QueuedIsTaken`, `LoopsEnd`, `TasksServed` |
| `controls` | one High, one Normal, one Critical caller, one permit each, one adaptation, two calls; or a pool of 2 to 4 and a channel of 2 commands, fair | 59 k | `PermitsConserved`, `AnswerComes`; `PoolCounted`, `EmergencyStops` |
| `pipeline` | one frame, one connection, two places in each channel, fair | 163 k | `HandledOnce`, `SettlesOrStopped` |
| `parts` | writer: three streams at two addresses, one immediate and one queued write, one permit. Reader: three frames, three errors in a row, a channel of one event. Packets: two of each of three types, sizes at the limit. Batcher: sizes 32 to 1024, a window of 4. Buffers: two classes of 5. Control: two breakers per turn. Congestion: two calls, one offence that is enough | 428 k | the types of the seven; `PermitsComeBack`, `NothingAfterCut`; `FramesInOrder`, `ReadersEnd`; `PacketsOpen`; `DecisionsBounded`; `PoolOnlyDrains`; `ControlGoesOn`; `BansAreManual`, `DecisionsComeBack` |
| `server` | two connections from one address, one frame on the first. Or: three callers of the monitoring; two concurrent checks of one client, window of 3; four queries in batches of 3; two replicas under each strategy | 807 k | the types of the five; `GoneLeavesNothing`, `HeartbeatHasSession`, `StaleOnlyWhenLate`, `FramesServed`; `OthersNeverHang`; `WindowHolds`; `RunOnceInOrder`; `PickedIsHealthy` |
| `services` | both handlers with every event and command, and any one of three loops; two clients of the executor, one of them impatient; one session under the four tasks of the heartbeats, fair | 241 k | `OthersNeverDeadlock`, `TasksWindDown`; `QueriesComeBack`; `OnlySilentAreCut`, `SilenceIsNoticed` |
| `breaker_crossed`, `dispatch_lost`, `pipeline_stalls` | as small as shows it | | one property each, violated: see section 5 |

Why the bounds are enough:

- *Breaker.* With a threshold of 2 a failure can be below, at and (if the code
  were wrong) above it; two submitters give every interleaving of two calls, the
  controller is the third lock order. The back-off reaches its cap. The worker
  loops and the monitor are in a run of their own, since all callers together
  only multiply the states.
- *Dispatcher.* A queue of 3 is the least at which `optimal_steal_policy` lets a
  loop steal; with an injector of 1 both channels fill up, and the limit 4 is met
  by the counters with the drift. `MaxTasks` bounds the task ids (the code's
  counter has 64 bits).
- *QoS.* One permit makes every second caller wait, and is out or free when an adaptation
  looks and when it adds; the thresholds of rates are
  left out, so that one adaptation at any moment covers them. `MaxCalls` bounds
  the counted requests of each class, and with them the statistics.
- *Scaling.* From 2 to 4 a resize may be by one, by two and refused; two commands
  fill the channel so that a third is lost.
- *Connections.* One address with two connections is the least for a stale
  entry, and one frame for a wrong stream. The channels are unbounded here (the
  code has 50,000 places); `EventPipeline` has their capacity.
- *Event pipeline.* A frame's tracker meets the tasks of other frames only in the
  locks and in the channel, and there the connection's two events and the
  handler's own report stand for them: with two places the channel fills up in front of
  the handler, the converter and the tracker. `pipeline_stalls` has three
  places, so that one frame and one connection cannot fill the channel.
- *Writer.* Three streams are the least with two at one address and a loop that drops
  another's task; one permit is the least that can be missing. One write of each
  way meets every lock.
- *Reader.* Three frames let a read give up in one, go astray in the next and find
  a frame again; three errors in a row stand for the ten. A channel of one event is full
  as soon as another reader has sent, so that both sends wait.
- *Packets.* The payloads 65,439 and 65,440 lie on both sides of what a frame takes.
  `MaxPackets` bounds what the client makes.
- *Batcher.* The limits are the code's; a window of 4 with decisions from 2 and a fit
  from 3 has the same cases as 1000, 10 and 50. `Optima` and `PidSums` lie below,
  inside and above their clamps.
- *Buffer pool, control.* One class whose minimum is below and one whose minimum is near
  its buffers; two breakers per turn are the least with a first and a last.
- *Congestion control.* Two calls are the least that race between a look and a write;
  one offence weighs enough for the cut at 80 to matter. Expiry, forgetting and
  cleanup come at any time.
- *Lock programs.* A deadlock in a cycle needs two tasks or, behind a waiting writer,
  three: both handlers and a loop, or three callers of the monitoring. The loops followed
  are those that hold one lock while they wait for another, and the controller, whose flag
  and whose stop are others; the theorem is about all of them.
- *Heartbeats.* Sessions only share tasks, so one session under four tasks has the
  races; a timeout of one tick and two missed pings separate the two limits.
- *SQL.* The limiter: a request more than the limit, a window of three units and a delay
  of one, so that a slower call's time lies before a faster call's sweep. The batches:
  two reads and two writes with a limit of three, so that the last query is flushed. The
  replicas: two, since the pick is by place.

`CHECK_DEADLOCK FALSE` stands in every configuration because every one of these
systems may really stop: calls run out, loops end after a shutdown, connections
are gone, or the tasks have deadlocked, which is then the subject of a property
(`NoOtherDeadlock`, `AnswerComes`, `EmergencyStops`, `SettlesOrStopped`,
`OthersNeverDeadlock`, `OthersNeverHang`, `QueriesComeBack`, `DecisionsComeBack`,
`ControlGoesOn`).

Fairness, and why the code has it:

- tokio runs every task that can go on, so weak fairness of each task's step;
- tokio's locks and semaphores are handed out in the order of the requests, so a
  task whose lock is free again and again gets it: strong fairness of the steps
  that wait for one. `LockPrograms` and `SqlServer` have the queues themselves and
  need weak fairness only;
- `tokio::select!` chooses at random among the branches that are ready, so a
  branch that is ready again and again is taken: strong fairness of `Receive`
  and `Steal`. A loop's own steps (`OwnStep`) end by themselves; that the breaker lets a
  turn begin (`LetIn`) and that the QoS manager answers (`PermitsAnswered`) is not up to
  the loop, and stands as a hypothesis in `QueuedIsTaken` and `LoopsEnd`;
- places in a channel are handed out in the order of the sends, so strong fairness
  of the steps that wait for `Room`, and of a reader's step, which may wait to send;
  readers, results, the monitor's turns and the
  shutdown are under no obligation to come;
- timers fire: weak fairness of `Tick`, of `Pass`, and of a read's timeout. Requests
  are not fair where nothing makes clients ask, except in `breaker_recovery`: the
  worker loops ask by themselves. The database answers (`Fetched` or `DatabaseFails`):
  what happens when it does not is the impatient client's `GiveUp`.

In the runs of several parts a liveness property is stated as
`part = "x" /\ XFair => Property`, with the fairness of that part restricted to the
behaviours in which it moves: the fairness formulas of the other parts would claim
steps that they never take.

`OpenIsLeft` is conditional on `age # Never`: a close that races a stale
transition can leave the breaker Open with no time of failure, and then only the
next failure sets one. It is also only claimed with worker loops that ask:
rejected submitters stamp `last_failure` anew each time (`integration.rs` 1330,
`work_stealing_dispatcher.rs` 1038), so that under steady rejected load the delay
never elapses for them.

The hypotheses of the other liveness properties are promises that other modules are
about, and none of them holds without condition. A breaker that stays open keeps a loop
from its queue for as long (`work_stealing_dispatcher.rs` 494-497): `OpenIsLeft` says that
the loops' own asking brings it back, with the exceptions above. `acquire_permit` answers
until an adaptation has been applied (`AnswerComes`), and after that its callers may wait
for ever. A reader waits to send its events while the channel is full, at its end too
(`reader.rs` 408, 462): `ReaderEnds` is for a channel that has room again and again
(`SendEnds`), which the converter sees to as long as the pipeline has not stopped
(`SettlesOrStopped`).

Several properties say exactly how far a promise goes, since the code breaks the plain
one: `TurnsGoOn` names the four ways in which the control loop stops, `FramesInOrder` is
about frames until a read gave up in one, `OthersNeverDeadlock` (in the set `Hanging`) and
`OthersNeverHang` name the calls that deadlock and claim that there are no more,
`PermitsConserved` bounds what an adaptation issues in excess and does not forbid it, `WindowHolds` is about a
window shorter by a call's delay, `QueriesReturn` and `DecisionsReturn` except the one call
that waits for itself.

Each property of a passing run has a mutant in `PROJECT.json`: a definition of
the model changed as a plausible bug would change the code, for which TLC finds
the property violated. Mutants are the operators marked "Mutant:" in the modules;
nothing else uses them.

## 4. What is proved

For every value of the constants that satisfies the modules' assumptions:

| theorem | says, for |
|---|---|
| `CircuitBreakerProofs!TypeCorrect`, `ClosedIsBelowThreshold`, `OneAlwaysMayGoOn`, `CrossedForEver`, `OpenHasBackedOff`, `OpensAtThreshold` | any number of callers of each kind (the last two where nobody resets) |
| `WorkStealingDispatcherProofs!TypeCorrect`, `TaskInOnePlace`, `CountersCover`, `CountersDriftByOne`, `LeftoversStay`, `TasksAreServed` | any workers, loops, capacities and tasks; the last one is the refinement of `TaskService` |
| `IntegrationProofs!QTypeCorrect`, `PermitsAreConserved`, `RejectionsAreHalf`, `AdaptationIsTheEnd` | any callers, capacities and decisions |
| `IntegrationProofs!STypeCorrect`, `PoolStaysCounted`, `ResizedOnce` | any limits and channel capacity |
| `IntegrationProofs!PTypeCorrect`, `FramesHandledOnce`, `PipelineStaysStopped`, `PipelineGoesOn` | any frames, connections and capacity |
| `ServerProofs!TypeCorrect`, `GoneIsGone`, `HeartbeatsAreOfSessions`, `ServedAreKnown`, `StaleEntriesAreLate`, `FramesAreServed` | any connections, addresses and frames; the last one is the refinement of `FrameService` |
| `ServerProofs!NoOtherHangs`, `HealthHangsLast`, `HealthIsNeverReported`, `HealthGoesOn` | any number of callers of the monitoring |
| `ServerProofs!NoMoreInAWindow` | any clients, checks, limits, windows and delays shorter than the window |
| `ServerProofs!QueriesRunOnceInOrder` | any queries and size of the batches |
| `ServerProofs!PicksAreHealthy` | any number of replicas, any limit of errors |
| `PartsProofs!WTypeCorrect`, `NothingFollowsACut`, `PermitsAllComeBack` | any streams, addresses, finite sets of calls and batch sizes |
| `PartsProofs!FramesComeInOrder` | any number of frames, errors in a row, and read times |
| `PartsProofs!PacketsTypeCorrect`, `EveryPacketOpens` | any number of packets and payload sizes |
| `PartsProofs!DecisionsStayBounded` | any limits, samples, optima and sums of the controller |
| `PartsProofs!PoolTypeCorrect`, `PoolNeverRefills` | any classes, minima, ages and steps |
| `PartsProofs!ControlTypeCorrect`, `StuckForEver`, `TurnsMayGoOn` | any number of breakers per turn |
| `PartsProofs!GUTypeCorrect`, `BansAreManualAlways` | any concurrent calls, weights of offences, and thresholds from 80 on |
| `ServicesProofs!NoOtherDeadlocks`, `DeadlocksStay`, `TasksGoOn` | any loops in any slots beside the two handlers |
| `ServicesProofs!HeartbeatsTypeCorrect`, `NoAnswererIsCut` | any sessions, timeout and limit of missed heartbeats |
| `ServicesProofs!SqlServerTypeCorrect`, `HungForEver` | any clients, impatient or not |
| `PartsProofs!PartsTypeCorrect`, `ServerProofs!ServerTypeCorrect`, `ServicesProofs!ServicesTypeCorrect` | the types of the parts that one run puts side by side |
| `LockPrograms!OrderedNeverDeadlock`, `OnlyDeadlocksStop`, `DeadlocksLast` | any locks, tasks and programs |
| `FilterTheorems!RetainTwice`, `RetainElements` | any list and any test |

`OneMayGoOn`, `OpenBackedOff`, `OpensOnlyAtThreshold`, `DriftAtMostOne`, `HalfRejected`,
`UnknownOnlyAtEdges`, the types of some modules and most of what says that a stop is for
ever or the only one have a theorem and no run of their own: TLC found them true on the
instances above before they were proved (`OneMayGoOn` as a part of `NoOtherDeadlock`), and
the runs are kept for what is not proved or what composes. The assumptions are those of the modules (`BreakerAssumption` and so on), each
of which TLC evaluates in the run of its module.

The arguments:

- *Breaker.* The property alone is not inductive: between reading the state and
  writing it a caller may be overtaken. The strengthening says what a caller that
  stands between two steps knows: who holds the state's lock and has it Closed or
  HalfOpen (`HolderKnowsState`), and that a caller about to open has a count at
  the threshold or saw HalfOpen (`OpenerIsRight`). `OneMayGoOn` follows the chain of the
  locks from last_failure over the state and the failure count to the total: at each,
  either a holder finds its next lock free or it wants one earlier in the chain.
- *Dispatcher.* `Balanced` relates each counter to its queue, the task being sent
  and the loops between taking and counting; with saturation at 0 the drift is
  the one send that was overtaken. `OnePlace` needs that ids which have not been
  given out are nowhere. `LeftStays` rests on the arithmetic of the policy
  (`StealsFromThree`): no counter rises and no loop decides to steal.
- *Dispatcher as a service.* `TasksAreServed` needs to tell a task that was let go from one
  that was turned away, since both are nowhere: `Entered` says that only what was sent has
  been accepted, and that what is inside has been accepted or is the current one, whose
  place `spc` knows. Each loop step moves one task's fate by one, and the cleaner and the
  shutdown forget several at once.
- *QoS.* Until an adaptation has added its permits, those that are free and those that
  callers have are the capacity, and then they are more by what was decided less the free
  ones that it saw (`PermitsCounted`). At that moment each caller of the class had one
  permit at most, so the free ones lacked no more than one per caller of the capacity
  (`SeenLacks`): that is how many are issued a second time. For it the set of callers is
  finite.
  `HalfRejected` needs
  `RefusalsCovered`: each request under way has been counted and may still be
  refused, so the requests exceed twice the refusals by those under way.
- *Scaling.* The counter is right because whoever has loaded it, planned, or spawned and
  not stored yet has `scaling_lock` (`LockHeld`), so what a task has in its hands is still
  the size of the pool (`PlanKept`), and because the first task that has changed the pool
  never gives the lock back (`ResizerStays`): the size changes at most once, and an
  effective `scale_down` is never reached.
- *Connections.* `Registered` says for each step of a connection's task which
  registries have it; three properties follow. `FrameEvents` (an event in the
  reader's channel is of a frame that is with the reader, and there is one) is
  what makes a converter that stops drop only pending frames, and gives the
  refinement. `Ordered` says that in the handler's channel closed follows opened
  unless the connection was announced late, and that closed is under way while
  the connection may be entered; `StaleOnlyWhenLate` follows. `Counted` keeps the
  reader's count the number of its tasks, by the cardinality lemmas.
- *Event pipeline.* `HandledOnce` counts the copies of an event over the four
  places where one can be (`Copies`), so the lemmas say how `Append`, `Tail` and
  dropping a sequence change that count. The strengthening (`Once`) adds that a
  frame which is still to be read has neither an event nor a tracker: reading it
  makes the first copy, and submitting or refusing it destroys the last one.
- *Writer.* `NothingAfterCut` holds because a cut stream is registered and dead
  (`CutIsDead`), and because the stream that a writer found alive stays so until the
  frame is written: only one writes at a time (`OneWrites`). That the first of the
  streams that fit exists rests on the well-foundedness of the numbers. The permits are
  an equation between a counter and the cardinality of the calls under way, which each
  action moves by the same amount; for it the set of calls has to be finite.
- *Reader.* `OnTrack` says where the read stands in its frame: until a read gave up in
  the middle of one, `start` is a multiple of a frame, and the pieces taken and those
  needed add up to the piece that the step is at. After that only `Behind` is left: all
  that was delivered lies before what is being read, so nothing comes again.
- *Packets.* Each packet is in one place at a time: being written, on the line, or
  opened (`OnePlace`), and an end has used every number below its counter exactly once
  (`NumbersUsedOnce`). Both ends have the one session that the handshake derives
  (`SameSession`), so nothing is refused. That the server makes no more packets than the
  client did needs the pigeonhole principle for initial segments of the numbers: its
  answers name requests, no two the same one (`AnswersOnce`).
- *Batcher.* `DecisionsBounded` is inductive with the types: a third of a
  sum whose last part is the present size plus 64 is below the bound or no more than the
  present size (`ThirdIsBounded`), and four workers are cheapest beside four
  (`FourStay`).
- *Buffer pool.* The buffers of a class are kept as running totals by age, so that a
  cleaning and a filling are pointwise and the bound is on one number.
- *Control.* A writer of the configuration finds no readers but its own
  (`WritesAlone`), and a branch that goes on to the metrics has a breaker left
  (`BreakersLeft`).
- *Congestion control.* `BanKnown` is spread over the three places that know of an
  address: a score above 80, in the cache or in the hands of a call, is one of an
  address that was banned, since the logarithm is cut at 80 before time takes off
  from it (`ScoreIsCut`), and an automatic ban wants more than the threshold. So a
  call that bans by itself repeats a ban that was made.
- *Deadlocks.* `OrderedNeverDeadlock` is about any programs: if there is a rank of the
  locks such that a step which takes one under a guard goes up, then of the tasks in a
  circle take one that waits for the highest rank, and of those in that line the first;
  what it waits for holds that lock and wants a higher one. It needs `LocksInv`: locks
  are locks and whoever stands in a line wants its lock, which is proved once for all
  programs. For the monitoring one rank serves. For the batch system none does, since
  the event handler takes the statistics and the connections in both orders; but it is
  one task and in one event at a time, so the rank depends on the event it is in
  (`RankWith`).
- *A stop is for ever, and nothing else stops.* Where a part can come to a standstill two
  theorems say what the exception in its property means. The first is that the stop
  lasts: `CrossedForEver`, `PipelineStaysStopped`, `AdaptationIsTheEnd`, `StuckForEver`,
  `HungForEver`, and from `DeadlocksLast`, for all lock programs, `DeadlocksStay` and
  `HealthHangsLast`. Those who wait want locks that others of them hold or stand before
  them in the line for, so no step is theirs and no step of anybody else changes what
  they wait for. The second is that otherwise something may go on: `OneAlwaysMayGoOn`,
  `PipelineGoesOn`, `TurnsMayGoOn`, and from `OnlyDeadlocksStop` `TasksGoOn` and
  `HealthGoesOn`. ENABLED is out of the prover's reach, so "may go on" is spelled out as
  the guard of the next step (`ConverterMayGo`, `BranchMayGo`, `MayGoOn` and the like),
  and TLC has compared the guards of the pipeline and of the control loop with ENABLED in
  every state of small instances. These are what liveness under fairness rests on, which
  stays with TLC.
- *Limiter.* A request list and what was accepted agree on everything younger than the
  window (`LimitKept`): a cleaning drops only what is older than that at the time of the
  call that cleans. A window that is shorter by the longest delay lies within that,
  wherever it begins in the delay, and a window of the past was such a one in its time.
  Time passing maps the list, cleaning filters it, and that the two commute as needed is
  the theory in `FilterTheorems` (`RetainTwice`, `RetainMapped`). Induction over a list is
  there an argument about a set of sequences that has the empty one and is closed under
  `Append` (`SequencesAll`).
- *Batches.* The batch is the end of what was added (`LastAdded`), so its place tells
  what has run: all before it, and of it the writes that are behind (`BehindWasRun`,
  `RanWasAdded`).
- *Replicas.* While nobody edits, the nodes are the addresses of the metrics, place by
  place; during an edit the nodes are what the metrics will be (`Aligned`). Since a
  selection waits for the end of an edit, a pick by place has the health of its place.
- *Executor.* The desk has each caller once and only its first has got further than the
  queue (`Queued`); the impatient one may leave from any place.
- *Heartbeats.* `SenderKnows` and `SilentAreLate` say what the list of a task and the
  one in its hands have been seen to be; an answer between the look and the cut changes
  the entry and not what was seen. Only one task removes at a time (`OneRemoves`).

Trying to prove has changed the models where they could not be reasoned about:

- `SystemTasks!OpsOf` and `SqlScaling!SelectReplica` had a `CASE` whose guards overlapped:
  the choice among them was TLC's, not the code's. They are disjoint now.
- `BufferPool` had the number of buffers of each age and summed them by a fold, of which
  nothing can be proved; it has the running totals now, which say the same.
- Lists are filtered by membership in a set (`Filters!Retain`) and not by a test: an
  operator with an operator parameter can be used in no lemma.
- `NoOtherDeadlock` is in two parts: that some call has its locks free, which is proved,
  and that such a call has a step to take, which uses ENABLED.
- The period of `current_index` in `SqlScaling` is any common multiple of the numbers of
  replicas; it was the one for three.

Only model-checked: everything under fairness (`OpenIsLeft`, `QueuedIsTaken`,
`LoopsEnd`, `AnswerComes`, `EmergencyStops`, `SettlesOrStopped`, `ReadersEnd`,
`ControlGoesOn`, `DecisionsComeBack`, `TasksWindDown`, `QueriesComeBack`,
`SilenceIsNoticed`), which the prover does not do, and the half of `NoOtherDeadlock` that
uses ENABLED. Every other property that a passing run checks has a theorem.

## 5. Where the code does not do what it says

Three runs show a disagreement; `PROJECT.json` ("findings") quotes the lines.

- `breaker_crossed` (`NoCrossedLocks`): `record_failure` and `record_success` take the same two locks
  in opposite orders and can wait for each other for ever.
- `dispatch_lost` (`NoTaskLost`): a task whose permit is refused is logged as requeued and is
  dropped.
- `pipeline_stalls` (`EverySettles`): the counter updater keeps the entries of three keys of a
  `DashMap` locked together. When two of them share a shard, which the hasher decides
  at the start of the process, the task waits for itself with the statistics
  read-locked, and every frame waits behind it.

### Seen while modelling

Facts that the models contain and that a reader of the code may want to know. Those
about locks are what the exceptions in the properties stand for.

*A task that waits for itself or for a crossed order.*
An adaptation waits to write the statistics it is reading (`qos_manager.rs` 830). A
resize waits to write the settings it is reading, with `scaling_lock` held
(`integration.rs` 2259, 2295); the auto-scaler calls it with `scaling_lock` held, the
monitor and the command that sets the number of workers (`adjust_config`) with the settings
read-locked (2026, 2138), so that they may also wait for ever when there is nothing to
resize: a writer that comes between the two guards is enough. `update_scaling_settings`
lets its own guard go before it scales up (2327), and waits for ever only when that changes
the pool. The adaptive controller calls `allow_request` with
the recovery model write-locked, which `allow_request` reads when the breaker is Open
(722-727). The event handler waits for itself when it reports a refusal and the channel is
full (1336, 1369). `get_system_status` takes the connections and the statistics in the
order that crosses `handle_data_processed` (2401). `update_config` of the congestion
controller saves under its own write lock once a path is set. The query cache removes an
expired SELECT under its own guard, with the executor's mutex held (`orm/cache.rs` 51).
`comprehensive_health_check` asks for the history under its own guard and never returns,
and `collect_metrics` reads the metrics under its own read guard
(`monitoring/unified_monitor.rs`); `main` builds no registry that would call them.

*Work that is lost or never done.*
A task in the injector stays there while its workers' queues count fewer than three
tasks (`work_stealing_dispatcher.rs` 55-98, 625); `submit_task` still accepts after
`shutdown`; `injector_backlog` is never lowered; results inserted after the shutdown
cleared them are never cleaned; `track_task_result` polls for ten seconds of its thirty;
`new` and the factory both start the loops and a cleaner; `remove_workers` ends all the
dynamic workers at once, and dynamic workers do nothing. A start after a stop or a pause
restarts none of the loops that have ended. The queues of the SIMD processor, of the
pending batches and of the crypto processor have no producer, so `BatchCompleted` is
never sent; dropping a clone of the crypto processor stops the original's workers. Of the
commands only scaling and the emergency shutdown are sent. The buffer pool is emptied by
its first forced cleanup and never filled again. Anomalies are never put where the
controller looks for them; no breaker named "writer" is made; the adaptation history grows
without a limit. The 101st query of one client and operation is refused for good
(`sql_server/security`), and the `BatchProcessor` cannot be reached once its server is
registered. The balancer's round robin ignores health, its connection counts never rise,
an unhealthy replica never recovers, and nobody calls the balancer or the auto-scaler;
a replica count of 0 is accepted, and a concurrent check overwrites one that was set.

*Ends of connections.*
A connection's task waits for a timer only, although the comment at
`connection_manager_phantom.rs` 66 speaks of a signal from the reader; an idle
client loses its reader after ten timeouts while its session lives on; the writer's
streams are never removed; `total_data_sent` counts the decrypted request and then the
response (1613, 1504). The session manager's heartbeat manager has the sessions and is
never started; the one that `main` runs has none, and nobody sends heartbeat commands.

*Answers that differ from what a name suggests.*
The automatic blacklisting adds no address that was not banned before, since a score
from offences stays at 80; the learning mode does not change what a blacklisted
address is told; addresses that are blocked at the start of `IpBlocker` are free
after the block's duration though they stay listed; the limiter may admit a request by a
time older than a sweep. More than ten dangerous queries among the first hundred block a client
too (`security/advanced.rs` 196): `SqlLimits` does not count them and lets it happen to any
pattern that is long enough. A packet payload that `create` accepts may be longer than a
frame that `read_frame` takes. The batch size never comes into the upper part of its
range, and the number of workers that the predictive controller proposes is always the
present one.

## 6. What is not modelled, and the plan

Left out for good: cipher and hash arithmetic and the CPU detection; scatter and
assembly of keys, which are data at random offsets; audit records, traces, exports and
reports, which nothing decides on; the text of SQL statements and the pattern filters;
reading of configuration files; the database itself (pools, transactions), which is
external.

Left out because no code calls it: the packet counters of `micro_limiter.rs` (their
class and priorities are used, their limits by nobody; they are sequential under one
mutex each), the monitoring's `cache.rs`, the processing of batches in the reader,
`acquire` and the return of buffers, the tasks of the crypto processor, the session
manager's `cleanup_expired_sessions`.

Modelled as the library they are, though `main` does not run them: the heartbeats with
all their tasks, the congestion controller, the monitoring's health check, the
balancer and the auto-scaler. What they would do is what the library promises; what the
server does today is in `Connections` and `SystemTasks`.

Left to do: the compositions that are only assumed now. `EventPipeline` takes the
writer's calls to return, whose own steps are in `BatchWriter`; `ControlCycle` takes the
hanging of `adapt_quotas` as a choice, which `QosManager` explains; and `EventPipeline`
has what `TaskService` promises of the dispatcher as `Work` and `GiveUp`, without an
INSTANCE that would say so.

# Sutram: specifications and proofs

TLA+ models of the Sutram platform, the TLC configurations that check them on
small instances, and TLAPS proofs of the properties that matter most. Paths
are relative to `src/`; `workflow/`, `memory/`, `gateway/` and `observability/`
abbreviate `services/<name>/app/`, and `core/` abbreviates
`packages/core/sutram_core/`.

    tlc -workers 2 -config engine_faults.cfg MCExecutionEngine   # a run
    tlapm ExecutionEngine_proofs.tla                             # the proofs

## 1. The system

| Component | State it keeps | Operations | Interacts with |
|---|---|---|---|
| Distributed lock (`core/locking/redis_lock.py`) | one Redis key per lock, with a token and a TTL; a heartbeat task per holder | acquire, renew every ttl/2, release by compare-and-delete | executor, recovery |
| Status machine (`workflow/engine/state_machine.py`) | the transition table | `transition`, `can_transition` | executor, control routes |
| Execution engine (`workflow/engine/executor.py`, `checkpoint.py`, `tasks/execute.py`) | the execution's row and its checkpoints in PostgreSQL | one Celery task drives an execution from PENDING to COMPLETED or PAUSED | lock, both event streams, Celery queue |
| Cost tracker (`workflow/engine/cost_tracker.py`) | totals of one run, in memory | `add`, which may refuse | executor |
| Control routes (`workflow/routes/executions.py`) | none of their own | execute, pause, resume, cancel | the row, the Celery queue |
| Recovery (`workflow/engine/recovery.py`, `tasks/recover.py`) | none of its own | scan for stale RUNNING rows, claim under the lock, re-enqueue | the row, the lock, the Celery queue |
| SSE stream (`workflow/routes/executions.py` 172-238) | one consumer group per execution stream | read, acknowledge, yield | the stream `execution:{id}` |
| API gateway (`gateway/routes/proxy.py`, `core/middleware`) | idempotency keys and rate counters in Redis | authenticate, count, deduplicate, proxy | every service |
| Observability consumer (`observability/consumer`, `observability/sampling`) | a consumer group, span buffers in Redis, traces and audit rows in PostgreSQL, process metrics | consume, buffer, sample, flush, reclaim | the streams `executions` and `memory.events` |
| Webhook delivery (`workflow/webhooks`, `workflow/routes/webhooks.py`) | subscriptions and deliveries in PostgreSQL | subscribe, deliver, retry, dead-letter | Celery, subscribers |
| Memory service (`memory/`) | items and summaries in PostgreSQL, query cache in Redis, archives in S3 | store, forget, search, compress | the stream `memory.events` |
| Auth, tenancy, settings, schemas, migrations, health and query endpoints | configuration | stateless checks and reads | every service |

Most of these run as many processes: several Celery workers, web pods, recovery
scans and consumer replicas. They meet in PostgreSQL rows that several of them
write, in Redis keys, in the Celery queue and in the consumer groups of the
streams. What is hard to get right:

- *Interleavings.* A request reads the row, checks the FSM, and updates later;
  a task loads the row before it has the lock; a search reads rows that a
  deletion is about to remove, and caches them afterwards.
- *Transactions.* A run's transaction spans several steps. A session commits after
  the response has been sent. A rollback does not undo what Redis, S3, a stream
  or a subscriber has already been told.
- *Crashes and redelivery.* Celery and the consumer groups deliver again what was
  not acknowledged; a lock key outlives its owner until its TTL.
- *Leases and windows.* The lock is a lease renewed by a task of the event loop
  that it protects. A rate counter must outlive the requests still to be counted.
- *Retries.* A client retries a request whose first attempt may have succeeded, or
  may still be running upstream.

What makes each component correct: the lock excludes and is never freed by a
stranger; one worker at a time advances an execution; nothing is reported before
its checkpoint or committed before its announcement; a stop stops; a completed
execution has run all its steps; runs and locks do not hang; no event is sent to
two SSE clients; an idempotency key admits one request at a time, stores one item
and is freed by a 5xx; no window admits more than the limit; an acknowledged
event has its audit row, and a slow one its trace; a delivery is given up only
after its whole schedule, and does not stay pending; a forgotten item
finally stays out of the cache; an item is marked compressed only with a summary of it.

## 2. Plan

Written, in this order:

1. `Mutex`, `LeaseLock`, `LeaseLock_proofs`, `RedisLock`, `RedisLock_proofs`
2. `ExecutionFSM`, `ExecutionReport`, `ExecutionEngine`, `MCExecutionEngine`,
   `ExecutionEngine_proofs`
3. `EventConsumers`, `MCEventConsumers`, `EventConsumers_proofs`
4. `EventStream`, `EventStream_proofs`
5. `Gateway`, `MCGateway`, `Gateway_proofs`
6. `MemoryStore`, `MemoryStore_proofs`
7. `WebhookDelivery`, `WebhookDelivery_proofs`

Left, most useful first: the gateway composed with the execute route and the
engine, so that a key, a row and a message are followed together; an abstract
life cycle of a memory item, implemented by `MemoryStore`; the idempotency key as
a `Mutex` of its requests.

How the modules fit together:

    Mutex <- LeaseLock <- RedisLock            the lock implements the lease, and
                ^                              without lost leases a mutex
                +------- ExecutionEngine       workers and scans use the lease
    ExecutionReport <----/                     and tell each stream a report
          |
          +.. Follows of EventConsumers, EventStream

An arrow is a refinement, stated with `INSTANCE ... WITH`, checked by a run and
proved. `ExecutionEngine` uses the table of `ExecutionFSM`. The dotted line is the
order in which a run reports, which the readers of the streams take for granted:
their `Follows` is the `Next` of `ExecutionReport` with the step numbers forgotten.
What `MemoryStore` commits has been announced to the stream that
`EventConsumers` reads.

## 3. The modules

### Mutex, LeaseLock and RedisLock

`Mutex` is the lock the README promises: an owner or nobody, and no way from one
owner to the next but through nobody.

`LeaseLock` is the lock as it can be had from a key with a TTL: clients enter
when the key is free and leave whether or not the key is still theirs; a death
may orphan the key, and `Expire` removes an orphan, or, if `LeaseMayExpire`, the
key of a live holder. It is what the engine relies on and what the Redis lock
provides, so neither has to be looked at together with the other. With
`LeaseMayExpire` FALSE it implements `Mutex`.

`RedisLock` is the code, for one key. `token` and `ttl` are the Redis key; a
token is named by the client whose acquisition made it, or `Orphan` once nobody
can present it any more. `cs[c]` says that `c` is inside the `async with` body,
`hb[c]` where its heartbeat task is, `timer[c]` how long its sleep still lasts.

| Action | Code |
|---|---|
| `Acquire` | `SET NX EX` answered OK, heartbeat task created (45-50) |
| `HeartbeatGet`, `HeartbeatExpire` | the two commands of one renewal (64-70); between them anything may happen, so `EXPIRE` may hit a key that has changed hands |
| `HeartbeatDies` | a Redis call of the loop raises; nobody notices until release |
| `Release` | cancel and await the heartbeat, then the Lua script (53-58). Only `CancelledError` is suppressed, so a dead heartbeat re-raises and the script is skipped |
| `Crash` | the process dies inside the body |
| `Tick` | sleeps and TTL run down; the key disappears at zero |

Time is discrete. `MaxLag` bounds how many ticks a due heartbeat step may wait.
asyncio gives no such bound, which is why the promises that need one say so:
`Timely` is `Interval + MaxLag < TTL` and no Redis error. `ImplementsLease` maps
`inside` to the clients in the body and `LeaseMayExpire` to `~Timely`; timers, TTL
and heartbeats are stuttering.

### ExecutionFSM

The nested dict of `state_machine.py` as a set of triples, with `Moves` for
`transition` and `CanTransition`.

### ExecutionEngine

One execution and everything that acts on it. Executions share only the queue
and the workers, so one is enough.

| Variable | Code |
|---|---|
| `row` | the committed row: status, `context.current_step_index`, and whether `last_heartbeat` is older than the threshold |
| `draft`, `rowOwner` | the version written by the open transaction that has the row lock, and whose it is |
| `checkpoints` | committed `checkpoints` rows, by `step_index` |
| `lock` | the token under `execution:{id}:lock` |
| `queue` | messages of `workflow.execute` in the broker |
| `pc`, `seen`, `at` | per worker: where its task is, the ORM object as loaded and changed, the loop variable |
| `req`, `op` | per request: where the handler is and the trigger it applies |
| `pod` | per recovery scan: where it is |
| `events`, `latest` | what each of the two streams has received, and the last of it |
| `limit` | `max_per_execution` of the cost tracker |
| `crashes`, `outages` | counters that bound the faults |

PostgreSQL at READ COMMITTED is four operators: `Visible`, `Write` (take the row
lock or wait, then write over the newest version), `Commit`, `Rollback`. They,
the broker, the clock and Redis key expiry are external and are modelled by
what the code relies on.

The labels of `pc` cut `_run` and `Executor.run` at every await that touches
shared state. A task goes `load` (SELECT, terminal check) - `acquire` - `setup`
(latest checkpoint, FSM check) - `submit` - `announce` - `opened` (commit), then
per step `check` (refresh, stop signal) - `checkpoint` - `step` (cost, context in
memory, publication) - `save` (flush), then `finish` - `completed` - `commit` -
`release` - `close` - `ack`. Exceptions go to `over_budget` or `error` inside the
loop's `try`, to `raise` and `rollback` outside it. Details that matter and are
kept:

- `submit` is applied to the status loaded *before* the lock was acquired.
- SQLAlchemy leaves a column out of the UPDATE when its value equals the one
  loaded, so `UpdateStatus` and `SaveContext` depend on `seen`.
- The context is assigned before the publication, so the flush of the error
  handler writes it too (`PauseOnError`).
- A heartbeat that died of a Redis error is raised again where the lock is
  released: the script is skipped, the key is left to its TTL and the task rolls
  back (`HeartbeatRaises` in `Release` and `Unclaim`).
- `_publish` is two XADDs: a failure or a crash may leave the event on the global
  stream only (`PublishRaises`, `Crash`).
- A held lock ends the task normally, so its message is acknowledged (`TryLock`).
- A crash rolls the transaction back, leaves the lock key as `Orphan` and
  returns the message (`acks_late`, `reject_on_worker_lost`).
- `last_heartbeat` is written with the status only, so a live run grows stale
  (`HeartbeatAges`).
- Requests select, check and update in separate steps; `pause` and `cancel` commit
  when the session dependency closes, `resume` and `execute` before `delay()`.

Abstracted away: variables, outputs, error texts, the daily limit (its total is
never injected), deleted executions or workflows, failures of PostgreSQL itself,
and the tenant context. Costs do not accumulate: every run makes a tracker that
starts at 0.0 and the simulated steps add 0.0, so the total compared is always 0
(`NewTotal`) and the tracker refuses every step (a limit below 0) or none. The
models follow what a refusal does; that the tracker keeps to a limit is not
claimed, as no step could make it do so.

Two refinements say what the engine does to its surroundings. `UsesLease` maps
the lock key and those between acquire and release (`Holders`) to `LeaseLock`.
`ReportsRun` maps either stream, with the committed status, to `ExecutionReport`.

### ExecutionReport

An execution as a reader of one of its streams sees it: `told` and `latest`, the
events sent, and `status`, the committed status. A run begins with `Started` at any
time, `Advance` goes from a step to the next, `Pause` and `Complete` end what is
under way, and `Settle` commits a status: RUNNING and COMPLETED only once they
were told. `Faultless` adds that a step is not told before all the steps below it,
nor the completion before all steps. Who writes, how often a run is taken over,
and where a run starts again are left open.

### EventConsumers

The replicas of the observability service on the two streams. An entry is named
by its position in its stream. One execution publishes in the order of
`Executor.run` (`Follows`): steps, a pause or a completion only while a run is under
way, but a new `started` after any event, since a redelivery or a second message
starts the run again. The memory service publishes in any order.

| Variable | Code |
|---|---|
| `stream`, `group`, `since`, `created` | the streams and the consumer group: its last delivered entry, where it was created |
| `pending`, `idle` | the group's pending entries list; those idle long enough for XAUTOCLAIM |
| `pc`, `at`, `batch`, `claimed`, `processed` | per replica: the label, the stream it is at, the entries it fetched and has not finished, whether XAUTOCLAIM fetched them, `messages_processed` |
| `work` | the rows its open transaction will commit |
| `buffer` | spans in the Redis hash of the execution |
| `audit`, `traces`, `spans` | committed rows |

A replica goes `Start` (create the group at `$`), then `Read` or `Reclaim`, and for
each entry `Handle` - `Commit` - `Ack`, and for a completion `Handle` -
`DeleteBuffer` - `Commit` - `Ack`: the HGETALL and the DELETE of
`TailSampler.flush` are two calls, between which another replica may buffer a span
or flush as well. Both write Redis at once: they are not undone when the
transaction fails (`Fails`, `Crash`). The HSET of a span and the EXPIRE behind it
are one step, since the buffer may expire at any time anyway (`BufferExpires`).

`messages_processed` is kept as 0, then 1 to `ReclaimEvery` round and round, since
the code asks only whether it is a positive multiple of `_RECLAIM_EVERY`.
`StepCompletedEvent` carries a dict that is published as JSON text and refused by
the parser (`JsonEncoded`, `Unparsable`): the entry aborts the round (`Abort`) and
stays pending. An XREADGROUP that raises ends the round too, an XAUTOCLAIM that
raises only its stream (`FetchRaises`); a start may fail with none or the first of
the two groups created (`StartRaises`).

### EventStream

`GET /executions/{id}/stream`. All connections read one consumer group, each
under a consumer name of its own. `Connect` creates the group or finds it,
`Read` takes entries that no connection was given, `Ack` and `Yield` are two steps,
in this order, `Leave` ends a connection anywhere: the client, the gateway's proxy
or a Redis error. `received` is what a client has been sent.

### Gateway

One tenant's requests through `proxy`: `Arrive` (token, clock), `Count` (the rate
script), `TakeKey` (SET NX), `Receive` (the upstream answer), `DeleteKey` (after a
5xx). `CallRaises` and `RedisRaises` are exceptions anywhere, after the command was
carried out or not; after an upstream exception the key stays. The upstream
service is the two routes that take a key. They commit in opposite order:
`execute` commits, then enqueues, then answers; `store_memory` answers, then its session
commits. `upstream[q]` follows the request's transaction although the gateway may
have given up on it. A retry is another request with the same key. Time is
discrete; `arrived[q]` is the clock that `RateLimiter.check` read before its INCR,
and `MaxDelay` bounds the ticks between the two.

### MemoryStore

One tenant's items. Per item, `client` follows the request that stores or forgets
it; `row` is the committed row. The DELETE and the compression's UPDATE lock rows:
`DeleteRow` and `Mark` wait for one another. `cache` is the one cached answer of a
query that every item matches. A search is `Lookup` - `SelectItems` -
`SelectSummaries` - `SelectRows` - `SetCache`; scores are abstracted to a choice
of at most `TopK` candidates. A compression is `SelectBatch` - `Archive` - `Mark` -
`CommitRun`, and several may overlap. Sessions commit after the response, so
`Invalidate` precedes `CommitStore` and `CommitForget`. That is why a search may
cache a forgotten item again, even after its row is gone: `ForgottenLeavesCache`
says that this dies out, since a search that starts later cannot find the item and
a cached answer is not renewed by being read.

### WebhookDelivery

One delivery and its subscription. A message carries its number of retries, which
is the attempt it stands for: `queue[a]` counts the messages of attempt `a`. A
task is `Take` - `Load` - `CheckSubscription` - `Post` - `Save` - `Retry` - `Ack`.
`Crash` returns the message, perhaps behind the POST, the commit or the
publication of the retry; `Raises` ends the task, and its message is acknowledged.
Nothing in the repository inserts a delivery: `Trigger` stands for the caller.

## 4. The runs

The `MC` modules name instances that a `.cfg` cannot write (cost limits, events
per stream, symmetry); everything else is in the `.cfg` files. Processes are
model values. Deadlock is checked where a system cannot stop (the lock, the
consumers); elsewhere an execution that ended, a client that left or a delivery
that was settled is a legitimate end.

| Run | Instance | Shows |
|---|---|---|
| `lock_timely` | 3 clients, the 30 s TTL of the code in ticks of a second, lag up to 14 | `TypeOK`, `MutualExclusion`, `LeaseMargin`, and `ImplementsMutex`: the lock implements `Mutex` |
| `lock_stalled` | 2 clients, lag beyond the TTL, Redis errors | `ImplementsLease`: the lock implements `LeaseLock`; `OnlyOwnerOrExpiryFrees`: only its owner or the TTL takes a live holder's key; `OrphanExpires` |
| `engine_faults` | 2 workers, 1 request, 1 scan, 2 checkpointed steps, 1 death, 1 failed publication or heartbeat, both limits | `TypeOK`, `OneExecutor`, `RecoverySparesLiveWorker`, `NeverBeforeCheckpoint`, `CheckpointBeforeEvent`, `NoStepStartsOnceStopped`; `UsesLease` and `ReportsRun`: the engine implements `LeaseLock` and `ExecutionReport` |
| `engine_calm` | 2 workers, 3 requests of any kind, no fault | `ReportsRun` with `Faultless`, of which `NoStepSkipped` is a consequence; `RunEnds` and `LockComesBack` under fairness |
| `consumers_faults` | 2 replicas, 2 execution events and 1 memory event, 1 failed call, death or expired buffer | `TypeOK`, `AckedIsAudited`, `SlowIsTraced`, `SpanOncePerTrace`; without a fault, `SpanKeptInOrder` and `MemoryEventsHandled` |
| `sse` | 3 connections, 4 events, batches of 2 | `TypeOK`, `SentOnceInOrder`; `LoneClientSeesEnd` under fairness |
| `gateway` | 3 requests of any kind, 1 key, 1 fault, across a window boundary | `TypeOK`, `OneUpstreamPerKey`, `OneItemPerKey`, `KeyFreedAfter5xx`, `WindowHolds` |
| `memory` | 2 items, 1 search, 2 compressions, 1 fault | `TypeOK`, `CompressedHasSummary`; `ForgottenLeavesCache` and `OldIsCompressed` under fairness |
| `webhook` | 2 workers, a schedule of 3 delays, 2 faults | `TypeOK`, `DeadAfterEveryAttempt`; `DeliveryEnds` under fairness |

Three runs are expected to end in a violation. Each checks what the repository
says of the program, and the trace is what the code does:

| Run | Property | What happens |
|---|---|---|
| `engine_crash_stuck` | `RunEnds` | A worker dies while RUNNING. The redelivery and every scan come back to a RUNNING row, on which `submit` raises: the execution stays RUNNING for ever |
| `engine_step_lost` | `NoStepSkipped` | The checkpoint of step 0 is committed, its report fails, the run pauses; the resumed run starts at step 1 and completes |
| `consumers_backlog` | `ExecutionEventsHandled` | A step event is published as JSON text and validated as a dict: it never parses, and its entry stays pending however often it is reclaimed |

*Bounds.* Two workers, replicas or compressions give every pairwise race; a third
could only wait for the same lock, row or entry. Two steps give a first, a last
and a step boundary, with and without a checkpoint. One fault at any point reaches
every handler's error path; the webhook run has two, so that a redelivered chain
of messages can fail again, and the engine has one death and one failed
publication or heartbeat. Three requests allow pause, resume and a cancel on top.
`MaxQueue` only stops scans from filling the queue. `TTL` and `MaxLag` are chosen
on both sides of `Interval + MaxLag < TTL`. In `consumers_faults` `PollCount` and
`ReclaimEvery` are 2, so that reclaims happen, and an XAUTOCLAIM claims one entry
at a time instead of 50; one round of both streams is enough for a batch, an abort
and a redelivery. In `sse`, four events allow a pause and a second run, and
batches of two put entries behind a terminal one. In `gateway`, one key suffices
since keys share nothing but the limiter; a window is two ticks and its counter
lives for three, the least that `MaxDelay + Window <= CounterTTL` allows with a
delay of one (the code has 120 s for a window of 60 s), so a counter does expire
within the bound. In `memory`, batches of one out of two old items make
compressions overlap and queue, and `TopK` of 1 makes items compete.

*Fairness.* All fairness is weak and on what a scheduler, an event loop or a clock
does anyway: a Celery worker takes messages and goes on with its task, a request
that has begun is served, beat starts a recovery scan every 60 seconds and a
compression every day, a consumer goes on with its loop, a connected SSE client's
generator runs on, a due heartbeat step runs, keys expire, rows and entries grow
old. Nothing makes a client call or stay, a process die, a call fail, a service
publish, or anybody restart a consumer whose start has failed.
`MemoryEventsHandled`, and what `SpanKeptInOrder` says of the span, end at the
first fault: a message that failed is reclaimed only if the count of processed
messages is a multiple of fifty at the end of a round.

### Known counterexamples

The code does not hold the following, and no property claims it. Each can be
followed in the model named.

- `cancel` reads RUNNING, waits for the row lock, and overwrites the COMPLETED
  committed meanwhile (`executions.py:163-166`; `ExecutionEngine`).
- A resume's message arrives while the paused run still holds the lock: it is
  acknowledged and the row stays PENDING, which nothing scans (`executor.py:290`;
  `ExecutionEngine`).
- The lease expires under a live worker, and two workers are past `submit`
  (`redis_lock.py:65`; `ExecutionEngine` with `LeaseMayExpire`). Their reports mix, so
  `ReportsRun` assumes that no lease is lost.
- Two messages of one PENDING row: the second worker has loaded PENDING, gets the
  lock after the first completed, and runs the execution again
  (`executor.py:153`; `ExecutionEngine`).
- A pause or cancel waits for the row lock that the run keeps between checkpoints,
  and the next step starts (`executor.py:219`; `ExecutionEngine`).
- `delay()` raises after the commit: the 500 frees the key, and the retry creates
  a second execution (`executions.py:64`; `Gateway`). `OneItemPerKey` is therefore
  stated for the route that commits last.
- A commit fails after the 201 or 204: the key stays with a request that stored
  nothing (`memory/dependencies.py:98-113`; `Gateway`, `MemoryStore`).
- Summaries take places among the `top_k` and are then dropped, since their rows
  are looked up in `memory_items` (`memory/routes/memory.py:225-228`;
  `MemoryStore`). The repository's README says at 157 that archived memories
  remain retrievable.
- A process dies, or a commit fails, between the flush of the span buffer and the
  commit: the redelivery stores the trace without the span
  (`handler.py:86`; `EventConsumers`).
- A replica buffers the span of a start between the HGETALL and the DELETE of
  another replica's flush: the span is deleted unread, and both entries are
  acknowledged (`tail_sampler.py:70-72`; `EventConsumers`). `SpanKeptInOrder` is
  therefore stated for a start acknowledged before any completion is handed out.
- An event acknowledged for an SSE client that has gone is lost to all others,
  and two clients of one execution share its events out
  (`executions.py:212-227`; `EventStream`).
- A task that raises leaves its delivery pending with no message
  (`webhooks/tasks.py:65`; `WebhookDelivery`), a repeated chain of attempts may
  overwrite `delivered` with `dead_lettered`, `failed` is not among the settled
  statuses, and the last delay of the schedule is never waited for
  (`webhooks/tasks.py:53`, `:91`).

## 5. The proofs

For every number of processes, requests, items and steps, every bound on faults,
and every limit, window and schedule. The assumptions are the named `ASSUME`s on
the constants and what a theorem states.

`LeaseLock_proofs`: `HolderKeepsKey` (the invariant `InsideHoldsKey`) and from it
`LeaseIsMutex`, for distinct tokens and a lease that is not lost: at most one
client is inside, so `Enter` is `Acquire`, `Exit` is `Leave`, and `Expire` is a stutter.

`RedisLock_proofs`:

| Theorem | Inductive invariant |
|---|---|
| `TypeCorrect` | `TypeOK` |
| `MarginHolds`, `Exclusion` (timely) | `LeaseMargin`. That nobody else is inside says nothing about the key; the margin does: a holder's token is under the key, its heartbeat lives, and the key outlives the rest of the sleep plus the lag still allowed. `MarginStep` proves it action by action (`Tick` is where the arithmetic is), `MarginExcludes` draws the conclusion |
| `OnlyOwnerOrExpiry` | an action property, from the types: `Tick` is the only step of another that removes a live holder's key |
| `Refinement` | `LeaseInv`: `TokenIsLive` (a token under the key is that of a client inside, or `Orphan`) and, if timely, the margin. No assumption: an untimely lock implements the lease that may be lost |
| `MutexRefinement` (timely) | none of its own: `Refinement`, and `LeaseIsMutex` for this lock's lease |

`ExecutionEngine_proofs`:

| Theorem | Inductive invariant |
|---|---|
| `TypeCorrect` | `TypeOK`, with the range of the loop variable inside the loop body |
| `LockSafety`, `ScansFindNobody` (no lease lost) | `LockOwned`: whoever is inside the lock body owns the key |
| `NeverRepeatsCheckpointed` (no lease lost) | `LockOwned` and `AheadOfCheckpoints`: nobody else writes a checkpoint between one's own |
| `CheckpointsComeFirst` | `StepHasCheckpoint`: a worker at a checkpointed step has its checkpoint committed. Holds with lost leases, crashes and failed publications, since checkpoints are never removed |
| `StopSignalHonoured` | `DraftFollowsRow`: inside the loop a worker's own uncommitted version has the committed status, so what `refresh` shows is what is committed |
| `AnnouncedBeforeCommitted` | `AnnouncedOrUncommitted`: a status not announced yet belongs to a transaction that cannot commit |
| `LeaseRefinement` | `LockIsLive`: nobody leaves the lock body and keeps the key. Holds with lost leases |
| `ReportRefinement` (no lease lost) | `ReportInv`: `LockOwned`, `LatestIsOfRun`, `OwnInGlobal`, with the invariants of `AnnouncedBeforeCommitted` and, if calm, of `CompletedReportsAll` |
| `CompletedReportsAll` (calm) | `LockOwned` and `NothingSkipped`: every step up to the newest checkpoint is reported, save the one a worker is at |

`ReportRefinement` is proved in four steps. `SentOrNot`: whatever is sent, by a
publication, one that raises or a death in the middle of it, goes to the end of a
stream, and the committed row stays. `LatestStep`: the last event of both streams
is the one on which the worker inside builds its next; it needs `LockOwned`, since
a second worker would put its own events between. `SendersMayFollow` concludes
that the event to be sent may come next, and `EveryStepMoves` that any other step
changes the status, to one that was told, or nothing that the stream shows.

What links lock and engine is `LeaseLock`: `Refinement` says that the Redis lock
provides it, with `LeaseMayExpire` exactly when it is not timely, and
`LeaseRefinement` that the engine uses its key in no other way. The engine's
theorems marked "no lease lost" are those for a timely lock.

The other modules:

| Theorem | Inductive invariant |
|---|---|
| `EventConsumers`: `TypeCorrect` | `TypeOK` and `NotYetCreated`: nothing is delivered before the group exists, so its start at `$` skips no pending entry |
| `SpansStoredOnce` | `OneSpanBuffered`: the buffer and every open transaction hold the span at most once, and a transaction only with its trace |
| `SpanKept` | `KeptInv`: `SpansInCommitOnly`, `MemoryStreamOnly`, `DeletesForCompletion` and `HandledIsBuffered`, that is, until a completion is handed out nobody deletes and the span of a handled start is buffered. From then on, while nothing fails, `SpanSecured` is preserved: before anybody deletes the buffer, somebody has read the span from it for a transaction that commits |
| `AuditComplete`, `SlowKept` | `WorkMatchesEvent`: what an entry calls for is in the transaction before the commit and in the database before the acknowledgement. Published entries and rows only grow |
| `EventStream`: `TypeCorrect`, `NothingTwice` | `HeldOnce`, `HeldNotSent`: what connections hold are disjoint runs of consecutive entries behind all that was sent |
| `Gateway`: `OneAtATime`, `OneItem`, `RetryAfter5xx` | `OwnerTookKey`, `KeyGuards`, `RepliesOnce`: whoever is, or may be, at work upstream owns its key; a 5xx says that nothing is open |
| `LimitPerWindow`, `TwiceTheLimit` | `CountsInTime`, `CounterLives`: a counter lives until nobody can count in its window any more, and counts at least the requests admitted. A span of one window's length meets two windows |
| `MemoryStore`: `TypeCorrect`, `AnnouncedBeforeCommitted`, `NothingLostToCompression` | `RowFollowsClient`, `MarkedIsHeld`, `PastPublish`: a row exists between its two commits, a marked row is in the batch and no DELETE has it |
| `WebhookDelivery`: `TypeCorrect`, `GivenUpAfterAll` | `AttemptsInOrder`: a message, or a task, stands for an attempt whose predecessors were all refused |

Only model-checked: the liveness properties (`RunEnds`, `LockComesBack`,
`OrphanExpires`, `MemoryEventsHandled`, `LoneClientSeesEnd`, `ForgottenLeavesCache`,
`OldIsCompressed`, `DeliveryEnds`), since fairness and ENABLED are beyond the prover.
Proved but checked by no passing run of their own: `CommittedIsAnnounced` of the
engine and, if calm, its `NoStepSkipped`, of which `ReportsRun` says more,
`CommittedIsAnnounced` of `MemoryStore`, and `BurstAtMostTwice`.

Each definition called a faulty variant stands beside the operator it alters: put
in its place, it makes TLC find the property of that name's run violated, which
shows that the property depends on that line of the code. `PROJECT.json` pairs
them with their runs.

## 6. Not modelled

- *Numbers and bytes:* vector similarity and scores, access counts (they only feed
  the scores), encryption and signing, URL validation, header and URL building,
  payloads. They are pure functions, abstracted to the choices that depend on them.
- *Process-local state:* Prometheus counters, which a redelivered event changes
  twice, and the Redis client that is created once per worker process while every
  task has an event loop of its own.
- *The deployment:* row-level security. The execution task never sets the tenant
  context, so what it sees depends on the database role.
- *What nothing uses:* `migrate_to_current`, the daily cost total, the accumulation
  of costs (every step adds 0.0), step failures (`StepFailedEvent` is never
  published, so the branch of `should_keep` for a failed step is never taken).
- *Simplified steps:* streams are not trimmed (XADD keeps about 10000 entries, and
  a consumer group that falls behind by more would lose some); the ownership 404
  of the SSE endpoint and an XGROUP CREATE that raises there make no connection;
  the SCAN and the DELETEs of a cache invalidation are one step, as `SetCache` may
  follow at once; a compression's UPDATE waits for all its rows at once, where
  PostgreSQL locks them one by one and may abort a deadlock (`RunFails`).
- *Simple parts:* workflow CRUD, health and query endpoints, settings, database
  migrations.
- *Bounds of the models:* the 24 hours of an idempotency key do not end within a
  run of `Gateway`; items with the retention policy "forever" are never
  compressed and left out; one embedding model per search; one tenant, one
  execution and one delivery at a time, since others share nothing with them but
  queues and workers; countdowns of retries are abstracted to any delay.

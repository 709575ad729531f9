# TLA+ model of scm-order-inventory-backend

This directory specifies the order path of the SCM backend in TLA+, checks the
specifications with TLC on small instances, and proves with TLAPS, for every
value of the constants, all of the safety properties that hold. All paths
below are relative to the repository; `gw/`, `os/`, `iw/` and `shared/` stand
for `src/apps/api-gateway/src/`, `src/apps/order-service/src/`,
`src/apps/inventory-worker/src/` and `src/shared/`.

## 1. The system

```
client -> API gateway -> order service -> PostgreSQL orders + outbox_events
              |               |
            Redis       outbox publisher -> RabbitMQ -> inventory worker
                                               |             |
                                              DLQ     PostgreSQL inventory,
                                                      orders, processed_messages
```

| Component | State it keeps | Operations | Talks to | What is hard | What makes it correct |
|---|---|---|---|---|---|
| Gateway order route (`gw/routes/order.routes.ts`, `gw/clients/order.client.ts`, `shared/infrastructure/idempotency.ts`) | two Redis keys per Idempotency-Key: a lock (60 s, no owner) and a result (24 h) | look up, reserve, forward, store, release | Redis commands, HTTP to the order service | concurrent requests with one key, a lock that expires or is deleted by a stranger, lost replies, crashes | a retry after a 202 creates nothing; the lock excludes; no lock is leaked; every request ends |
| Order intake (`os/routes/order.routes.ts`, `os/services/order.service.ts`, `os/repositories`) | `orders`, `outbox_events` | `createOrder`, `createEvent` | PostgreSQL | two transactions for one business action | a 202 is durable; an event belongs to an order |
| Outbox publisher (`os/worker/outbox.publisher.ts`) | status of outbox rows, the AMQP channel and its buffer | timer, fetch, publish, mark published, mark failed | PostgreSQL, RabbitMQ | overlapping runs, no publisher confirms, a channel that nobody reopens | no row stays PENDING; PUBLISHED means sent; an event is sent once unless something failed |
| Inventory worker (`iw/`) | the delivery in hand, the open transaction; `inventory`, `orders`, `processed_messages` | consume, reserve, transaction, mark, ack or nack | RabbitMQ, PostgreSQL | redelivery, handlers that outlive their channel, row locks, lost COMMIT replies | an order is charged once; stock adds up; the inbox and the dead letters tell the truth; the queue drains |
| Order status table (`shared/types/order-*.ts`) | none | `canTransitionOrderStatus` | both services | checked on constants, not on the row | consulted by both models |
| Snowflake generator (`shared/utils/snowflake.ts`) | `lastTimestamp`, `sequence` of each process | `nextId` | the clock | sequence exhaustion, a clock set back, a restart | no id is issued twice |
| Order pipeline (`docker-compose.yml`, `database/init.sql`) | the `orders` table and the queue that service and worker share | the components' | both components | both insert the same order id; resends meet a busy worker | each component keeps its own promise; no event is ahead of its order |
| Authentication, rate limit, schemas (`gw/plugins`, `gw/server.ts`, `shared/api-contracts/order.ts`) | none the handler reads | turn a request away | the order route | their order, and the answer the client gets | a request is turned away without touching Redis |
| Service startup (`os/server.ts`, `iw/worker.ts`, `gw/server.ts`, `shared/infrastructure`) | the process, its AMQP channel, its clients | connect, prepare, serve, exit, restart | PostgreSQL, Redis, RabbitMQ, Docker | dependencies that come and go in any order; a dead channel in a live process | the services come back once the dependencies stay |
| Readiness (`gw/routes/system.routes.ts`, `os/routes/system.routes.ts`) | none | `GET /ready` | PostgreSQL, Redis | a PING that waits for Redis while PostgreSQL changes | the answer follows the dependencies |
| Configuration, errors, contracts, metrics, logging | none that influences the order path | read only | | | not modelled |
| Scripts (`src/scripts`, `src/setup-db.js`) | run by hand | seed, reset, sync stock | | | not modelled |

PROJECT.json lists every component with its sources and status, and every
hazard with the line where it bites and the properties that cover it.

## 2. Modules

| Module | Role |
|---|---|
| `OrderStatus` | the status values and the transition table of `shared/types` |
| `InventoryWorker` | the worker: consumer, service, two repositories, their tables; crashes, closed channels, failing SQL calls |
| `InventoryLedger` | what the worker promises: one atomic step charges one message at most once |
| `OrderOutbox` | the order service: the two writes of a request, and the publisher |
| `OrderEvents` | what the order service promises: an event follows its order, is sent once stored, and its row does not lie |
| `OrderPipeline` | `OrderOutbox` and `InventoryWorker` over one `orders` table and one queue |
| `GatewayIdempotency` | the gateway's `POST /orders` route: what precedes the handler, and the handler over the Redis keys |
| `ServiceLifecycle` | the processes under docker-compose, outages of their dependencies, the readiness routes |
| `Snowflake` | the id generator |
| `InventoryWorkerProofs`, `OrderOutboxProofs`, `GatewayIdempotencyProofs`, `SnowflakeProofs`, `OrderPipelineProofs`, `ServiceLifecycleProofs` | the theorems about each of them, with the lemmas they rest on |
| `SumProofs` | lemmas about the sum of a function over a finite set |
| `MC*` | small instances for TLC: the events, key assignments and machine ids of the runs |

### InventoryWorker

A step is one SQL statement or broker call plus the synchronous code up to the
next `await`. `pc[w]` names the call that process `w` waits for:
`reserve` is `reserveMessage`; `update`, `insert` and `commit` are the
statements of `executeOrderTransaction`; `markProcessed` and `markFailed` are
the inbox updates; `ack` and `nack` settle the delivery. `prefetch(1)` makes one
delivery per process. BEGIN is part of `UpdateStock`: it takes no lock and
shows nothing.

- **Transactions.** PostgreSQL runs at READ COMMITTED. `newStock[w]` is the
  value the open UPDATE wrote; `RowLocked` blocks a second UPDATE that would
  match the row, and `OrderPending` is the wait on an uncommitted UNIQUE key.
  An UPDATE whose WHERE does not match the committed row does not wait.
- **Inbox.** `INSERT ... ON CONFLICT DO NOTHING` autocommits. Any existing row,
  PROCESSING, PROCESSED or FAILED, makes the delivery a duplicate (`Skip`).
- **Failures.** A call on the pool may reject with or without having taken
  effect: `ReserveFails`, `MarkProcessedFails`, `MarkFailedFails`. A statement of
  the transaction that rejects took none (`TxnFails`), because it runs on a client
  that was taken from the pool and has no `error` listener: losing its
  connection, and with it the reply of a COMMIT, ends the process after the
  transaction took effect (`CommitReplyLost`). `Crash` requeues the delivery, rolls back and restarts the
  process. `CloseChannel` requeues it while the handler goes on; its later ack
  or nack throws, the throwing nack in the `catch` rejects the consumer's
  promise, and the process ends and is restarted (`restart: always`).
- **The other writer of `orders`.** `PlaceOrder` is the order service's INSERT
  (`os/repositories/order.repository.ts`), at any time; it waits for an
  uncommitted row of the same id as the worker's own INSERT does.
- **Initial states.** Empty tables; `physical_stock` is any natural.

`Reserve`, `UpdateStock` and the others are preceded by *faulty variants*: what
the code would be with a plausible slip (no WHERE clause, no UNIQUE, a swallowed
error). They are in no specification; substituting one makes the property that
watches over it fail.

### OrderOutbox

`handler[r]` follows one request through `createOrder` and `createEvent`, which
are two calls with a transaction each. `Runs` are slots for runs of
`publishPendingEvents`: `setInterval` does not wait for the previous one, so
several may be active; `overlapped` records that they were. `rows[t]` is the
set of rows a run has still to do and `Row(t)` the next of them: the oldest by
`createdAt`, which is the order of `fetchPendingEvents` and of the loop over its
result. `catalog` is which requests name a product with an inventory
row; the foreign key refuses the others. `channel.publish` puts a copy in
`buffer`; `Flush` moves it to the exchange, which drops it when
no queue is bound. The worker's `startListening` binds the queue (`BindQueue`).
`CloseChannel` is final until a crash, because nothing reconnects and the HTTP
server keeps the process alive. `RequestHasUser` says whether some hook sets
`request.user`; no hook does (see 6), and the other runs set it to TRUE to see
what lies behind. An id generator that meets a set-back clock throws before either
write (`Outcomes`); `MonotoneClock` excludes that, and only the run that looks for
the answer of a valid request without any failure sets it. The order INSERT
runs on a client without an `error` listener, as the worker's transaction does, so
a lost reply of its COMMIT is the INSERT followed by `Crash`; the outbox INSERT
goes through the pool and may reject with its effect.

### GatewayIdempotency

A new request first meets the rate limiter, the schemas of header and body,
and the token check, in the order in which Fastify runs them (`onRequest`,
validation, `preHandler`). Each may turn it away: `Throttle`, `RejectInvalid`,
`RejectAnonymous`. The gateway's error handler knows only its own error class,
so a throttled and an invalid request are both answered 500. A request whose
header or body violates its schema has the key `NoKey`.

Behind them `stage[r]` is the Redis or HTTP call request `r` waits for, in the
order of the handler. Redis commands are atomic. Each call may fail, with its
effect or without. `ExpireLock` is the lock's TTL; `fetch` has no timeout of its
own, so an execution may outlive it. `ExpireResult` is the TTL of the stored
result, a day later. `Release` is the `finally` block: it deletes the lock
whoever owns it. The order service is external: it creates an order or it does
not, and its reply arrives or does not.

### OrderPipeline

Both components are INSTANCEs over shared variables: `orders` is the table both
insert into, `published` counts the copies that reached the queue, which is
`delivered` of `OrderOutbox`. A step is a step of one component with the other's
variables unchanged; only `Flush` is a step of both, because a message leaves
the service's buffer and enters the worker's queue (if it is bound) at once. A
request stands for the order id and the event id it generates.

`ImplementsWorker` and `ImplementsIntake` say that each component keeps its own
specification in this composition. They are not consequences of the way the
module is written: the worker's rows must never look to the service like a
change of its own, every copy must enter the queue as `InventoryWorker!Publish`
says, and the service's INSERT must be a `PlaceOrder`. Through
`ImplementsWorker` and `ImplementsIntake`, which are proved, the theorems about
the components speak about the composed system.

### ServiceLifecycle

`up` is the set of dependencies that run, `proc[s]` the stage of a service
process (`connecting`, `preparing`, `serving`, `exited`), `link[s]` its AMQP
channel. A dependency goes away and comes back at any time.

- The gateway waits for Redis while its modules load and for nothing else. The
  order service and the worker exit when RabbitMQ is not there; Docker restarts
  them. The order service does not need PostgreSQL to start, because the first
  publisher run logs its errors.
- The pool and the Redis client reconnect. A client held for a transaction has
  no `error` listener, so the loss of PostgreSQL may end a serving process.
- A broker that crashes ends both processes (the connection's `error` has no
  listener). One that is stopped in order (CONNECTION_FORCED) only closes the
  connection: the worker's event loop then runs dry and the worker is
  restarted; the order service lives on, kept by its HTTP server and its timer,
  with a channel that nobody reopens.
- `probe[s]` is the call a `GET /ready` waits for: PostgreSQL first, then, in the
  gateway, a PING that waits in the client's queue (`queued`) while Redis is away.
  The gateway's limiter is registered before its routes and covers `GET /ready`: a
  probe over the quota asks nothing and is answered 500 (`Throttle`).

### Snowflake

Two generators, each with its machine id and the clock of its host. `Id` is the shift-and-or
of the code written as arithmetic on bounded fields. `WaitEnds` is the end of
the busy wait after an exhausted sequence. `SetBack` moves the clock back under
running processes, `Restart` forgets `lastTimestamp`; both are bounded.

## 3. Runs

| Run | Question | Instance | Distinct states |
|---|---|---|---|
| `worker_contention` | Is each order charged once and the stock never miscounted when workers contend? Is the machinery an implementation of `InventoryLedger`? | 2 workers, 2 messages of one order on different products, 1 of another order on the first product, whose stock covers one of the two; 2 crashes or closures, 2 SQL faults | 744 000 |
| `worker_odd_events` | What do odd events do: stock never grows, failures are final, dead letters are honest, a vanished message leaves a trace, the queue drains | 2 workers, 4 messages of one order: quantity -1, two good ones on different products, malformed; 1 crash, 1 SQL fault | 205 000 |
| `worker_silent_drop` | Is every failure routed to the DLQ? **Violated** | 1 crash | |
| `worker_dead_letter` | Is a dead-lettered message rolled back? **Violated** | 1 SQL fault | |
| `outbox` | What do a 202 and the row statuses guarantee when publisher runs overlap, what does an orphaned order or a resend cost, does the machinery implement `OrderEvents`, and does every row leave PENDING? | 2 requests, the second perhaps of an unknown product, 2 runs, batch 2; any 2 of 2 SQL faults, 1 closure, 1 crash | 381 000 |
| `outbox_lost_event` | Is every stored event delivered? **Violated** | 1 closure | |
| `outbox_no_user` | Is a valid request accepted by the code as it is? **Violated** | no failure | |
| `gateway_shared_key` | What does the idempotency protocol guarantee behind its gates? | 3 requests with one key, 1 without; expiry of lock and result, 1 Redis fault, 1 service fault, 1 crash | 227 000 |
| `gateway_duplicate` | Is there one order per key? **Violated** | 2 requests, no failure | |
| `snowflake_unique` | Are ids unique and growing? | 2 machine ids, 2 sequence numbers, 4 instants, 1 set-back, 1 restart | 1 270 000 |
| `order_pipeline` | Do the components keep their promises over one table and one queue, and what becomes of an order? | 2 requests (one of an unknown product), 2 workers, 1 run; on each side 1 SQL fault and 1 crash | 77 000 |
| `service_lifecycle` | Which service comes back from which outage, and what do the readiness routes say? | the 3 services and 3 dependencies of `docker-compose.yml`, unbounded outages, 1 further crash | 21 000 |

**Why the bounds are enough.** Two workers are what the row lock, the pending
unique key and a handler that outlives its channel need. Two messages of one order
lock different rows, so their INSERTs meet at the order id while both transactions are
open (`OrderPending`); the third message competes for a row and is refused when it
comes second. An unknown product is met in `order_pipeline`. Two crashes allow a redelivery that
is disturbed again, two SQL faults a failing transaction whose failure path
fails too. For safety the theorems remove all the bounds (see 5); they
matter for liveness and for the violated claims. In the outbox every row-level race is between two
runs and one row; a batch of two is needed to abandon the rest of
a batch; two faults, of any kind, let a mark call and the one that should repair
it fail. In the pipeline one fault and one crash on each side let a resend meet
every stage of the first copy. In the gateway a stranger's lock is deleted by the
first of three requests while the second owns it and the third comes. In the generator two sequence numbers exhaust a
millisecond in two calls, and two generators collide as soon as their machine
field overlaps. Counters `crashes`, `dbFaults`, `closes`, `redisFaults`,
`serviceFaults`, `osDbFaults`, `osCrashes` and `published` are bounded by their
`Max` constant, the faults of `OrderOutbox` also together by `MaxFaults`, and
nothing else is but the time, set-backs and restarts of `Snowflake`.

**Symmetry** is used only in `worker_contention`, on the interchangeable
workers, and there is no leads-to property in that run.

**Deadlock** is checked in every run. A run ends in an explicit stuttering step
(`Terminating`, `AllDone`, `TimeIsUp`) that is enabled only when all the work is
done; the outbox's timer and the readiness probes never stop.

**Fairness.** Weak fairness on a process's next step says that a call the
process awaits returns or fails and that the process is scheduled; the clients
of PostgreSQL and Redis and Node's event loop do this. `FairSpec` of
`InventoryWorker` makes a live consumer take what is in the queue; `FairSpec` of
`OrderOutbox` lets the timer fire and the socket drain; that of
`GatewayIdempotency` lets calls return. Publishing, new requests, faults, expiry,
crashes and the start of the worker are never forced. `OrderPipeline` has the
fairness of its components. In `ServiceLifecycle` Docker restarts what exits
(`restart: always`), a process goes on with its start, and a monitor keeps
asking; outages, recoveries and a client that gives up a queued PING are not
forced, so its properties have the form "once the dependencies stay". A worker
blocked on a row lock is not enabled, so `QueueDrains` also says that lock holders release.

## 4. Properties

`IInv` of each module is its type invariant and the invariants that the proofs
of section 5 need; in the tables of PROJECT.json it stands for both.

Worker: `OneOwner` (the inbox excludes the other deliveries of a message, even
while a handler with a closed channel runs), `OrderChargedOnce`, `StockLedger`,
`ProcessedMeansPaid`, `DeadLetterHonest` (as long as no SQL call fails, nothing
charged is dead-lettered or FAILED), `LostLeavesTrace` (a message vanishes only
after a crash or closure, and its inbox row stays PROCESSING or FAILED),
`StockNeverGrows`, `FailureIsFinal`, `QueueDrains`, `ImplementsLedger`.

Outbox: `AcceptedIsDurable`, `OrphanNeedsFault` (an order whose request ended
without an event costs a failed call or a crash), `ResendNeedsFault` (one extra
copy costs a crash or two failed mark calls), `ImplementsEvents` (a row says
PUBLISHED only after its event was sent, never returns to PENDING, and nothing
reaches the broker that was not sent), `PendingIsResolved`,
`StoredIsDeliveredOnceBound`. `ResendNeedsFault` is claimed only as long as no
two runs overlapped: after that the same row is sent twice without any failure.

Gateway: `RetryCreatesNothing` (a request received after a 202 for its key
creates no order unless the stored result has expired, whatever failed before
and whichever lock expired), `AcceptedOrderExists`, `ExclusiveUntilStored`,
`ExtraOrderNeedsFault`, `LockNotLeaked`, `EveryRequestEnds`. Exclusion is
claimed only until a first result is stored: `storeIdempotencyRecord` deletes
the lock and `finally` deletes it again, so from then on the second delete may
remove a lock that another request has taken (see 6).

Pipeline: `EventFollowsOrder` (no copy of an event is ahead of its committed
order row), `PlacedIsNeverPaid` and `StoredIsDeadLettered` (what really happens
to an order of the order service, see 6), `ResendNeedsFault` (the service's, which
`IInv` contains), `ImplementsWorker`, `ImplementsIntake`.

Lifecycle: `WorkerReattaches`, `PublisherReattaches` (unless RabbitMQ was ever
stopped in order), `ServicesStart` (the restarts converge, with or without
PostgreSQL), `ReadinessSettles` (once PostgreSQL and Redis stay as they are the routes settle
at 200 or at 503, RabbitMQ having no say; the gateway's as long as the probes stay within the quota,
`WithinQuota`, because one over it is answered 500 whatever runs).

Snowflake: `NoRepeat` (one generator, set-back clocks included), `NoCollision`
(two generators), `IdsGrow`.

## 5. Proofs

Every safety invariant, action property and refinement that a passing run checks
is also a theorem, for every value of the constants: any sets of workers,
messages, requests, keys, publisher runs and generators, any events (any
integer quantity), any initial stock, any field widths, any bounds on faults,
crashes and time.

| Module | Theorem | Statement |
|---|---|---|
| `InventoryWorkerProofs` | `Invariance` | `Spec => []IInv` |
| | `TypeCorrect` | `Spec => []TypeOK`, hence no negative stock |
| | `ReservationExcludes` | `Spec => []OneOwner` |
| | `NoDoubleCharge` | `Spec => []OrderChargedOnce` |
| | `StockIsAccounted` | `Spec => []StockLedger` |
| | `ProcessedIsTrue` | `Spec => []ProcessedMeansPaid` |
| | `DeadLettersAreHonest` | `Spec => []DeadLetterHonest` |
| | `LossLeavesTrace` | `Spec => []LostLeavesTrace` |
| | `StockOnlyShrinks` | `Spec => StockNeverGrows` |
| | `FailureStays` | `Spec => FailureIsFinal` |
| | `LedgerRefinement` | `Spec => ImplementsLedger` |
| `OrderOutboxProofs` | `Invariance` | `Spec => []IInv` |
| | `Durability` | `Spec => []AcceptedIsDurable` |
| | `OrphansArePaid` | `Spec => []OrphanNeedsFault` |
| | `ResendsArePaid` | `Spec => []ResendNeedsFault` |
| | `EventsRefinement` | `Spec => ImplementsEvents` |
| `GatewayIdempotencyProofs` | `Invariance` | `Spec => []IInv` |
| | `RetryIsIdempotent` | `Spec => []RetryCreatesNothing` |
| | `AcceptedIsCreated` | `Spec => []AcceptedOrderExists` |
| | `LockExcludes` | `Spec => []ExclusiveUntilStored` |
| | `ExtraOrdersArePaid` | `Spec => []ExtraOrderNeedsFault` |
| | `LocksAreReleased` | `Spec => []LockNotLeaked` |
| `SnowflakeProofs` | `Invariance` | `Spec => []IInv` |
| | `IdsAreUnique` | `Spec => []NoRepeat` |
| | `MachinesAreApart` | `Spec => []NoCollision` |
| | `IdsAreOrdered` | `Spec => IdsGrow` |
| `OrderPipelineProofs` | `Invariance` | `Spec => []IInv` |
| | `EventsFollowOrders` | `Spec => []EventFollowsOrder` |
| | `NoOrderIsPaid` | `Spec => []PlacedIsNeverPaid` |
| | `ResendsArePaid` | `Spec => []ResendNeedsFault` |
| | `IntakeRefinement` | `Spec => ImplementsIntake` |
| | `WorkerRefinement` | `Spec => ImplementsWorker` |
| `ServiceLifecycleProofs` | `Invariance` | `Spec => []IInv` |

**Assumptions** are the named ASSUMEs of the modules, and TLC evaluates each of
them in a run. They say that constants are well typed, that `NoMessage`,
`NoKey` and `NoOrder` are outside the sets they extend, that stocks and bounds
are naturals, that a batch is not empty, and that a machine id fits its field
(the constructor of the generator throws otherwise). None of them bounds a set. The pipeline's
assumptions imply those of both components (`IntakeAssumptions`,
`WorkerAssumptions`).

Each module follows one scheme: `IInv` at the end of the component's module, which
a run checks first; `InvInit`, one `...Step` lemma per group of conjuncts with a
step per action, and `InvStep`, which puts them together. None of the goals is
inductive; what each needs is this.

**Worker.** That an order is charged once needs to know that a committing
transaction found no order row and that no other one is about to commit the same
id (`OrdersHeld`); that its message was not charged before, which follows from
holding the reservation (`Reserved`, `ChargedByOwner`, `OneOwner`); that stock
never becomes negative or is overwritten needs the private value of an open
transaction to be the committed one minus the quantity, which holds because the
row is locked (`RowsHeld`). `FailuresMarked` carries `DeadLetterHonest`: without
SQL faults every `nack` follows a written FAILED row. `LostLeavesTrace` needs to
know where every published message is (`Accounted`), and that without a crash the
handler that inserted an inbox row is still there (`OwnerRemains`); a channel
closes only under a running handler (`ChannelsOpen`). The refinement maps
`Commit` and `CommitReplyLost` to `Charge` and everything else to a stutter.

**StockLedger** is a statement about a sum over a set that grows.
`SumFunctionOnSet` folds along a recursive function, and no induction theorem of
the library can be used here (each takes an operator). `SumProofs` argues by
minimal counterexample: among the subsets of a finite set that violate a claim one
is minimal (`MinimalSubset`, from the well-foundedness of strict inclusion), and
removing an element from it gives a contradiction. That yields the existence and
uniqueness of the recursive function, and from them `SumAdd` (adding an
element adds its value) and `SumAgrees` (only the values on the set matter), which
is what `AccountStep` needs for the one step that charges. The charged messages
are finitely many because each step charges at most one.

**Outbox.** `AcceptedIsDurable` is close to inductive with `Progress`. The two
cost bounds are not. `OrphanNeedsFault` needs that orphans are finitely many and
are added one at a time by a step that spends a fault (`GrowsByOne`). For
`ResendNeedsFault` the bound must be kept with something to spare wherever the row may
be sent again: `SendsArePaid` says so for every row that is PENDING or in a
batch and not just being marked, and says that a row whose `markPublished` failed has
paid the first of its two faults. It relies on `OneRun` and so on the absence
of overlapping runs, as the property does. The refinement of `OrderEvents` holds with
overlaps too: a run that publishes or marks works on a stored row (`RowsStored`),
one that marks it PUBLISHED has sent it, and buffered and delivered copies were
sent (`SendsRecorded`).

**Gateway.** While no result was stored and no lock expired (`Unsettled`), the
lock of a key has one holder (`HolderOwnsLock`), and without Redis faults and
crashes a lock has a holder at all (`LockHasHolder`). `OrdersArePaid` is the
bound of `ExtraOrderNeedsFault` without the free order, at the points where another call
of the order service is possible; it is what makes the next order the free
one. `RetryIsServed` ties a retry to the stored result, so it ends at its GET.

**Generator.** `IdFields` shows that equal ids have equal fields and `FieldOrder`
that a greater pair of time and sequence gives a greater id, both by multiplication
over fields of arbitrary width; `NoCollision` is then a comparison of
machine fields. Uniqueness keeps, for every id issued, that its pair lies behind the
generator (`Used`): before `lastTimestamp`, at it with a smaller sequence or an
exhausted one, or before the clock of a generator that restarted. The last
case needs a clock that was not set back (`ClockAhead`), hence `ClockTrusted`.

**Pipeline.** `OrderPipelineProofs` takes the proof modules of both components as
instances under the substitution of the composition; `SameIntake` and
`SameWorker` identify their definitions with those of `Intake` and `Worker`.
`ServiceEffect`, `ConsumerEffect` and `FlushEffect` say what a step of one
component does to what the other one reads, and with them `StepRefines` shows
that every step of the pipeline is a step or a stutter of each component, from an
invariant that holds both components' `IInv` and that no transaction reaches its
COMMIT (`NoneCommits`): an event is never ahead of its order row, so every INSERT
of the worker meets it. Through `IntakeRefinement` and `WorkerRefinement` every theorem
about a component holds in the composed system.

**Lifecycle.** `IInv` is the consistency behind the liveness properties: a channel is
dead only after an orderly stop of the broker and open only while it runs, and
no readiness answer or pending probe outlives its process.

**Only model-checked**: the liveness properties (`QueueDrains`, `PendingIsResolved`,
`StoredIsDeliveredOnceBound`, `EveryRequestEnds`, `StoredIsDeadLettered`,
`WorkerReattaches`, `PublisherReattaches`, `ServicesStart`, `ReadinessSettles`),
because weak fairness is about ENABLED, which the prover does not reason
about. The five claims of section 6 that are violated are refuted by TLC's
counterexamples.

## 6. Disagreements between the code and its documentation

| Run | The code | The text |
|---|---|---|
| `worker_silent_drop` | The inbox row is committed before the transaction. After a crash or a closed channel in between, the redelivery is skipped and acknowledged (`iw/services/inventory.service.ts:41`). | `README.md:808` "not silently dropped" |
| `worker_dead_letter` | `markMessageProcessed` shares the `try` with the committed transaction (`:53`): its failure dead-letters a paid order. | `docs/architecture.md:152` "the transaction is rolled back" |
| `order_pipeline` | The worker inserts the order id that the order service has inserted: every such transaction is rolled back and every message dead-lettered (`iw/repositories/inventory.repository.ts:42`). The run passes with `PlacedIsNeverPaid` and `StoredIsDeadLettered`. | `docs/deployment.md:329` "a sample order can traverse the full flow" |
| `service_lifecycle` | The order service's `GET /ready` asks PostgreSQL only (`os/routes/system.routes.ts:90`); with a dead channel it answers 200 for good. `PublisherReattaches` has to exclude an orderly stop of RabbitMQ, `ReadinessSettles` ignores RabbitMQ. | `docs/deployment.md:235-238` "RabbitMQ is reachable" |
| `outbox_lost_event` | After the channel closes every publish throws, rows become FAILED, and only PENDING rows are fetched (`os/worker/outbox.publisher.ts:92`). | `README.md:828` "durable" publication |
| `outbox_no_user` | No hook sets `request.user`, so the handler throws and answers 500 (`os/routes/order.routes.ts:63`). | `README.md:743` "returns an asynchronous acceptance response" |
| `gateway_duplicate` | The result is read before the lock is taken and not under it (`gw/routes/order.routes.ts:122`). | `docs/idempotency.md:25` "do not create duplicate orders" |

Others were met on the way and have no run of their own:

- order row and outbox row are two transactions, so a failure between them
  leaves an order without an event (against `README.md:426`); `OrphanNeedsFault`
  says that nothing else does;
- a lost reply of the outbox insert answers 500 for an event that will be
  published (against `README.md:788`);
- the second delete of the lock (`gw/routes/order.routes.ts:168`) removes the lock
  of a request that missed the cache and has just acquired it, and a third
  request executes beside that one (against `docs/idempotency.md:20`), which is
  why `ExclusiveUntilStored` stops at the first result;
- the limiter runs before the token check (`docs/api.md:99-100` has it after),
  and its 429 and every schema violation reach the client as 500, a
  throttled `GET /ready` included;
- while Redis is away the gateway's `GET /ready` does not answer 503
  (`docs/observability.md:162`): it waits for the queued PING;
- the worker is started by Compose before PostgreSQL or RabbitMQ is reachable
  (`docs/deployment.md:243-246`); restarts make up for it, as `ServicesStart` shows.

## 7. What is not modelled

- The limiter's window (a plugin's): any request may be over the quota. How a
  token is verified: its verdict only.
- Resubmitting a dead letter, which is done by hand: its inbox row is FAILED and
  stays so (`FailureIsFinal`), so the worker would skip and acknowledge it.
- A clock that is set back before a restart: the generator may then repeat an id,
  which `ClockTrusted` excludes.
- Operations without a caller: `updateOrderStatus`, `findOrderById`,
  `hasIdempotencyRecord`, `OutboxPublisher.stop`.
- `GET /health` (a constant) and `GET /metrics`; metrics, logging,
  configuration, the OpenAPI export. The scripts under `src/scripts` and
  `src/setup-db.js` are straight-line SQL run by hand; seeding a running system
  overwrites the stock the workers have charged.
- What an outage of PostgreSQL takes from the queue: each delivery fails at its
  reservation and is dead-lettered, and nothing limits how many. The SQL faults of
  `InventoryWorker` show one at a time.
- One gateway with the order service: the gateway's requests reach
  `OrderOutbox` as new ones, and nothing in the order service knows the
  idempotency key, so the two share no state to compose over.
- Network partitions between PostgreSQL and a live process beyond single
  failing calls; RabbitMQ losing durable messages.

## 8. Plan

1. Done: `OrderStatus`, `InventoryLedger`, `InventoryWorker`, `OrderOutbox`, `OrderEvents`,
   `GatewayIdempotency`, `Snowflake`, `OrderPipeline`, `ServiceLifecycle`, their
   runs, and the proofs of all their safety properties.
2. An abstract service that answers a key once, which `GatewayIdempotency`
   refines from the first 202 on, with its refinement proved.
3. Action properties worth a theorem: that a stored result is only replaced or
   expired, that an inbox row never leaves PROCESSED.

## 9. How to run

```
tlc -config MCWorkerContention.cfg MCInventoryWorker
tlapm InventoryWorkerProofs.tla
```

`tlapm` on any of the proof modules of section 2 checks it; `OrderPipelineProofs`
uses two of the others.

Each row of section 3 is a `.cfg` listed under `runs` in PROJECT.json. None
takes more than four minutes on two cores.

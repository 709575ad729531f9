----------------------------- MODULE OrderOutbox -----------------------------
(***************************************************************************)
(* The order service: the POST /orders handler, which writes an order row  *)
(* and an outbox row in two separate database calls, and the outbox        *)
(* publisher, a timer that sends PENDING rows to RabbitMQ.                 *)
(*                                                                         *)
(* Handlers and publisher runs share one Node process; every await is a    *)
(* step boundary.  The timer has no reentrancy guard, so a run may start   *)
(* while earlier ones are still waiting for the database: each element of  *)
(* Runs is a slot for one such run.  channel.publish only hands a message  *)
(* to the client library's buffer; the broker sees it later, or never.     *)
(*                                                                         *)
(* A request stands for the order id and the event id it generates, which  *)
(* are fresh.  PostgreSQL, the broker and the AMQP client are external.    *)
(***************************************************************************)
EXTENDS Integers, FiniteSets, OrderStatus

CONSTANTS Requests,        \* POST /orders requests
          Valid,           \* those that pass the checks of createOrder
          Catalogs,        \* what catalog may be
          RequestHasUser,  \* a hook has set request.user before the handler
          MonotoneClock,   \* the clock is never behind the last order id's
          Runs,            \* slots for overlapping publisher runs
          BatchSize,       \* rows one run fetches at most
          MaxDbFaults,     \* bound: failing SQL calls
          MaxCloses,       \* bound: AMQP channel closures
          MaxCrashes,      \* bound: process crashes
          MaxFaults        \* bound: all of these together

ASSUME RequestAssumption == /\ Valid \subseteq Requests
                            /\ Catalogs \subseteq SUBSET Requests
                            /\ {RequestHasUser, MonotoneClock} \subseteq BOOLEAN
ASSUME BatchAssumption == BatchSize \in Nat \ {0}
ASSUME BoundAssumption == /\ MaxDbFaults \in Nat
                          /\ MaxCloses \in Nat
                          /\ MaxCrashes \in Nat
                          /\ MaxFaults \in Nat

VARIABLES
  \* order service process
  handler,    \* where each request's handler is, or how it ended
  run,        \* stage of each publisher run
  rows,       \* rows it has fetched and not finished, a set: see Row
  channel,    \* whether the AMQP channel is usable
  buffer,     \* copies handed to the client library, not yet on the broker
  \* PostgreSQL
  order,      \* orders.status, or "absent"
  event,      \* outbox_events.status, or "absent"
  createdAt,  \* outbox_events.created_at, 0 before
  \* broker
  bound,      \* the worker has declared and bound the order queue
  delivered,  \* copies that reached the order queue
  catalog,    \* requests whose product has an inventory row; nothing inserts one
  \* history and bounds
  sent,       \* calls of channel.publish that returned
  overlapped, \* a run has started while another was active
  dbFaults, closes, crashes

http    == <<handler, order>>
outbox  == <<event, createdAt>>
ticking == <<run, rows, overlapped>>
amqp    == <<channel, buffer, bound, delivered, sent>>
context == <<catalog, dbFaults, closes, crashes>>
vars    == <<http, outbox, ticking, amqp, context>>

\* accepted: 202.  rejected: 400.  failed: 500.  gone: the process crashed.
HandlerStages == {"new", "insertOrder", "createEvent",
                  "accepted", "rejected", "failed", "gone"}
Answered == {"accepted", "rejected", "failed", "gone"}
RunStages == {"off", "fetch", "publish", "markPublished", "markFailed"}

\* The row a run works on: rows come in the order of their creation.
Oldest(S) == {r \in S : \A s \in S : createdAt[r] <= createdAt[s]}
Row(t) == CHOOSE r \in Oldest(rows[t]) : TRUE

TypeOK ==
  /\ handler \in [Requests -> HandlerStages]
  /\ run \in [Runs -> RunStages]
  /\ rows \in [Runs -> SUBSET Requests]
  /\ channel \in {"open", "closed"}
  /\ buffer \in [Requests -> Nat]
  /\ order \in [Requests -> {"absent"} \union OrderStatuses]
  /\ event \in [Requests -> {"absent", "PENDING", "PUBLISHED", "FAILED"}]
  /\ createdAt \in [Requests -> Nat]
  /\ bound \in BOOLEAN
  /\ delivered \in [Requests -> Nat]
  /\ sent \in [Requests -> Nat]
  /\ catalog \in Catalogs
  /\ overlapped \in BOOLEAN
  /\ dbFaults \in 0..MaxDbFaults
  /\ closes \in 0..MaxCloses
  /\ crashes \in 0..MaxCrashes

\* Bindings survive in the broker, so they may exist already.
Init ==
  /\ handler = [r \in Requests |-> "new"]
  /\ run = [t \in Runs |-> "off"]
  /\ rows = [t \in Runs |-> {}]
  /\ channel = "open"
  /\ buffer = [r \in Requests |-> 0]
  /\ order = [r \in Requests |-> "absent"]
  /\ event = [r \in Requests |-> "absent"]
  /\ createdAt = [r \in Requests |-> 0]
  /\ bound \in BOOLEAN
  /\ delivered = [r \in Requests |-> 0]
  /\ sent = [r \in Requests |-> 0]
  /\ catalog \in Catalogs
  /\ overlapped = FALSE
  /\ dbFaults = 0
  /\ closes = 0
  /\ crashes = 0

FaultsLeft == dbFaults + closes + crashes < MaxFaults

DbFault ==
  /\ dbFaults < MaxDbFaults /\ FaultsLeft
  /\ dbFaults' = dbFaults + 1
  /\ UNCHANGED <<catalog, closes, crashes>>

-----------------------------------------------------------------------------
(* The HTTP handler and OrderService.createOrder.                          *)

Answer(r, outcome) == handler' = [handler EXCEPT ![r] = outcome]

\* What happens before the first await.  Reading request.user.id throws a
\* TypeError when no hook has set the user, and generateOrderId throws when the
\* clock is behind lastTimestamp; the handler's catch turns both into a 500.
Outcomes(r) ==
  CASE ~RequestHasUser                                       -> {"failed"}
    [] RequestHasUser /\ r \notin Valid                      -> {"rejected"}
    [] RequestHasUser /\ r \in Valid
         /\ ~canTransitionOrderStatus("PENDING", "PROCESSING") -> {"failed"}
    [] OTHER -> IF MonotoneClock THEN {"insertOrder"} ELSE {"insertOrder", "failed"}

Receive(r) ==
  /\ handler[r] = "new"
  /\ \E outcome \in Outcomes(r) : Answer(r, outcome)
  /\ UNCHANGED <<order, outbox, ticking, amqp, context>>

\* Faulty variant: the answer does not wait for the outbox row.
InsertOrderAnswers(r) ==
  /\ handler[r] = "insertOrder"
  /\ r \in catalog
  /\ order' = [order EXCEPT ![r] = "PROCESSING"]
  /\ Answer(r, "accepted")
  /\ UNCHANGED <<outbox, ticking, amqp, context>>

\* BEGIN, INSERT and COMMIT show to others as one step.
InsertOrder(r) ==
  /\ handler[r] = "insertOrder"
  /\ r \in catalog
  /\ order' = [order EXCEPT ![r] = "PROCESSING"]
  /\ Answer(r, "createEvent")
  /\ UNCHANGED <<outbox, ticking, amqp, context>>

\* Foreign key orders.product_id.
RefuseOrder(r) ==
  /\ handler[r] = "insertOrder"
  /\ r \notin catalog
  /\ Answer(r, "failed")
  /\ UNCHANGED <<order, outbox, ticking, amqp, context>>

\* Faulty variant: the repository swallows the error after ROLLBACK.
InsertOrderFailsSilently(r) ==
  /\ handler[r] = "insertOrder"
  /\ DbFault
  /\ Answer(r, "createEvent")
  /\ UNCHANGED <<order, outbox, ticking, amqp>>

\* connect is refused, or a statement is answered with an error.  A COMMIT
\* whose reply is lost takes the connection with it: the client taken from the
\* pool has no 'error' listener, so the process ends (InsertOrder, then Crash).
InsertOrderFails(r) ==
  /\ handler[r] = "insertOrder"
  /\ DbFault
  /\ Answer(r, "failed")
  /\ UNCHANGED <<order, outbox, ticking, amqp>>

Stored == {r \in Requests : event[r] # "absent"}

\* created_at DEFAULT NOW(): later than every row there is.
StoreEvent(r) ==
  /\ event' = [event EXCEPT ![r] = "PENDING"]
  /\ createdAt' = [createdAt EXCEPT ![r] = Cardinality(Stored) + 1]

CreateEvent(r) ==
  /\ handler[r] = "createEvent"
  /\ StoreEvent(r)
  /\ Answer(r, "accepted")
  /\ UNCHANGED <<order, ticking, amqp, context>>

\* Faulty variant: createEvent is not awaited, its failure is not noticed.
CreateEventUnnoticed(r) ==
  /\ handler[r] = "createEvent"
  /\ DbFault
  /\ UNCHANGED outbox
  /\ Answer(r, "accepted")
  /\ UNCHANGED <<order, ticking, amqp>>

CreateEventFails(r) ==
  /\ handler[r] = "createEvent"
  /\ DbFault
  /\ StoreEvent(r) \/ UNCHANGED outbox
  /\ Answer(r, "failed")
  /\ UNCHANGED <<order, ticking, amqp>>

-----------------------------------------------------------------------------
(* One run of publishPendingEvents.                                        *)

SetRun(t, stage, left) ==
  /\ run' = [run EXCEPT ![t] = stage]
  /\ rows' = [rows EXCEPT ![t] = left]
  /\ UNCHANGED overlapped

SetEvent(r, status) == event' = [event EXCEPT ![r] = status]

\* The for loop goes on to the next row, or the run ends.
NextRow(t) ==
  LET left == rows[t] \ {Row(t)}
  IN SetRun(t, IF left = {} THEN "off" ELSE "publish", left)

\* setInterval fires, or start() makes its first call.
Tick(t) ==
  /\ run[t] = "off"
  /\ run' = [run EXCEPT ![t] = "fetch"]
  /\ overlapped' = (overlapped \/ \E u \in Runs : run[u] # "off")
  /\ UNCHANGED <<http, outbox, rows, amqp, context>>

\* SELECT ... WHERE status = 'PENDING' ORDER BY created_at LIMIT batchSize.
PendingBatch ==
  LET pending == {r \in Requests : event[r] = "PENDING"}
  IN {r \in pending :
        Cardinality({s \in pending : createdAt[s] < createdAt[r]}) < BatchSize}

Fetch(t) ==
  /\ run[t] = "fetch"
  /\ SetRun(t, IF PendingBatch = {} THEN "off" ELSE "publish", PendingBatch)
  /\ UNCHANGED <<http, outbox, amqp, context>>

FetchFails(t) ==
  /\ run[t] = "fetch"
  /\ DbFault
  /\ SetRun(t, "off", {})
  /\ UNCHANGED <<http, outbox, amqp>>

\* Faulty variant: under backpressure the message is not kept.
PublishEventDropped(t) ==
  /\ run[t] = "publish"
  /\ channel = "open"
  /\ sent' = [sent EXCEPT ![Row(t)] = @ + 1]
  /\ SetRun(t, "markPublished", rows[t])
  /\ UNCHANGED <<http, outbox, channel, buffer, bound, delivered, context>>

\* channel.publish returns; its result (backpressure) is only logged.
PublishEvent(t) ==
  /\ run[t] = "publish"
  /\ channel = "open"
  /\ buffer' = [buffer EXCEPT ![Row(t)] = @ + 1]
  /\ sent' = [sent EXCEPT ![Row(t)] = @ + 1]
  /\ SetRun(t, "markPublished", rows[t])
  /\ UNCHANGED <<http, outbox, channel, bound, delivered, context>>

\* Faulty variant: the error of publish is logged and forgotten.
PublishThrowsUnnoticed(t) ==
  /\ run[t] = "publish"
  /\ channel = "closed"
  /\ SetRun(t, "markPublished", rows[t])
  /\ UNCHANGED <<http, outbox, amqp, context>>

\* On a closed channel publish throws.
PublishThrows(t) ==
  /\ run[t] = "publish"
  /\ channel = "closed"
  /\ SetRun(t, "markFailed", rows[t])
  /\ UNCHANGED <<http, outbox, amqp, context>>

\* Faulty variant: rows are left PENDING after publishing.
MarkPublishedForgotten(t) ==
  /\ run[t] = "markPublished"
  /\ NextRow(t)
  /\ UNCHANGED <<http, outbox, amqp, context>>

MarkPublished(t) ==
  /\ run[t] = "markPublished"
  /\ SetEvent(Row(t), "PUBLISHED")
  /\ NextRow(t)
  /\ UNCHANGED <<http, createdAt, amqp, context>>

\* markPublished shares the try block with publish.
MarkPublishedFails(t) ==
  /\ run[t] = "markPublished"
  /\ DbFault
  /\ SetEvent(Row(t), "PUBLISHED") \/ UNCHANGED event
  /\ SetRun(t, "markFailed", rows[t])
  /\ UNCHANGED <<http, createdAt, amqp>>

\* Faulty variant: a status the publisher's row type does not know.
MarkFailedUnknown(t) ==
  /\ run[t] = "markFailed"
  /\ SetEvent(Row(t), "ERROR")
  /\ NextRow(t)
  /\ UNCHANGED <<http, createdAt, amqp, context>>

\* Faulty variant: the row goes back to PENDING for another try.
MarkFailedRetries(t) ==
  /\ run[t] = "markFailed"
  /\ SetEvent(Row(t), "PENDING")
  /\ NextRow(t)
  /\ UNCHANGED <<http, createdAt, amqp, context>>

MarkFailed(t) ==
  /\ run[t] = "markFailed"
  /\ SetEvent(Row(t), "FAILED")
  /\ NextRow(t)
  /\ UNCHANGED <<http, createdAt, amqp, context>>

\* markFailed throws out of the catch block: the rest of the batch is left.
MarkFailedFails(t) ==
  /\ run[t] = "markFailed"
  /\ DbFault
  /\ SetEvent(Row(t), "FAILED") \/ UNCHANGED event
  /\ SetRun(t, "off", {})
  /\ UNCHANGED <<http, createdAt, amqp>>

-----------------------------------------------------------------------------
(* Client library, broker and process failures.                            *)

\* A buffered message reaches the exchange, which drops it unless a queue is
\* bound (mandatory is not set).
Flush(r) ==
  /\ buffer[r] > 0
  /\ buffer' = [buffer EXCEPT ![r] = @ - 1]
  /\ delivered' = IF bound THEN [delivered EXCEPT ![r] = @ + 1] ELSE delivered
  /\ UNCHANGED <<http, outbox, ticking, channel, bound, sent, context>>

\* The inventory worker's startListening declares and binds the order queue.
BindQueue ==
  /\ ~bound
  /\ bound' = TRUE
  /\ UNCHANGED <<http, outbox, ticking, channel, buffer, delivered, sent, context>>

NoBuffer == [r \in Requests |-> 0]

\* The connection is closed without an 'error' event.  Nothing reopens it;
\* the HTTP server keeps the process alive.
CloseChannel ==
  /\ channel = "open"
  /\ closes < MaxCloses /\ FaultsLeft
  /\ closes' = closes + 1
  /\ channel' = "closed"
  /\ buffer' = NoBuffer
  /\ UNCHANGED <<http, outbox, ticking, bound, delivered, sent, catalog, dbFaults, crashes>>

\* The process dies and is restarted with a new channel.
Crash ==
  /\ crashes < MaxCrashes /\ FaultsLeft
  /\ crashes' = crashes + 1
  /\ handler' = [r \in Requests |->
                   IF handler[r] \in {"insertOrder", "createEvent"}
                   THEN "gone" ELSE handler[r]]
  /\ run' = [t \in Runs |-> "off"]
  /\ rows' = [t \in Runs |-> {}]
  /\ UNCHANGED overlapped
  /\ channel' = "open"
  /\ buffer' = NoBuffer
  /\ UNCHANGED <<order, outbox, bound, delivered, sent, catalog, dbFaults, closes>>

-----------------------------------------------------------------------------
HandlerStep(r) ==
  InsertOrder(r) \/ RefuseOrder(r) \/ CreateEvent(r)

RunStep(t) ==
  \/ Tick(t) \/ Fetch(t) \/ PublishEvent(t) \/ PublishThrows(t)
  \/ MarkPublished(t) \/ MarkFailed(t)

Fault ==
  \/ \E r \in Requests : InsertOrderFails(r) \/ CreateEventFails(r)
  \/ \E t \in Runs :
       FetchFails(t) \/ MarkPublishedFails(t) \/ MarkFailedFails(t)
  \/ CloseChannel \/ Crash

Next ==
  \/ \E r \in Requests : Receive(r) \/ HandlerStep(r) \/ Flush(r)
  \/ \E t \in Runs : RunStep(t)
  \/ BindQueue
  \/ Fault

Spec == Init /\ [][Next]_vars

\* Replies arrive, the timer keeps firing, the socket drains.  Clients,
\* faults and the worker's start are never forced.
FairSpec ==
  /\ Spec
  /\ \A r \in Requests : WF_vars(HandlerStep(r)) /\ WF_vars(Flush(r))
  /\ \A t \in Runs : WF_vars(RunStep(t))

-----------------------------------------------------------------------------
(* Properties.                                                             *)

\* A 202 answer means that the order row and its event are both stored; an
\* event is never stored without its order, whichever call failed before.
AcceptedIsDurable ==
  \A r \in Requests :
    /\ handler[r] = "accepted" => event[r] # "absent"
    /\ event[r] # "absent" => order[r] = "PROCESSING"

Orphans == {r \in Requests : /\ handler[r] \in Answered
                             /\ order[r] # "absent"
                             /\ event[r] = "absent"}

\* Order row and event are two transactions.  An order whose request has ended
\* without an event costs a failing call of its own, unless the process
\* crashed: README, business flow step 7, says that the order service
\* "persists the order and writes an outbox event".
OrphanNeedsFault == crashes = 0 => Cardinality(Orphans) <= dbFaults

\* As long as no two runs overlapped, an event is sent again only after a
\* crash between publish and markPublished, or after both mark calls failed:
\* at most one extra copy per crash or pair of failed calls.
ResendNeedsFault ==
  ~overlapped =>
    \A r \in Requests : 2 * (sent[r] - 1 - crashes) <= dbFaults

\* However database calls, channel and process fail, no event stays PENDING:
\* a row whose batch was abandoned is picked up by a later run.
PendingIsResolved ==
  \A r \in Requests : event[r] = "PENDING" ~> event[r] # "PENDING"

\* Failing database calls lose no event: one that is stored and not yet sent
\* when its queue is bound reaches the broker, unless the channel closes or
\* the process crashes.  (An event sent earlier may have met an exchange
\* without a queue.)
StoredIsDeliveredOnceBound ==
  \A r \in Requests :
    (event[r] = "PENDING" /\ sent[r] = 0 /\ bound)
      ~> (delivered[r] > 0 \/ closes > 0 \/ crashes > 0)

\* Handlers, overlapping runs and their failures keep the promise of
\* OrderEvents: an outbox row follows its order, PUBLISHED is never a lie and
\* no row returns to PENDING.
Events == INSTANCE OrderEvents WITH
            placed <- {r \in Requests : order[r] # "absent"}
ImplementsEvents == Events!Spec

\* README, outbox pattern for reliable publication: "event creation is
\* durable and can be published independently of the request lifecycle".
StoredIsDelivered ==
  \A r \in Requests : event[r] = "PENDING" ~> delivered[r] > 0

\* README, POST /api/orders: a valid request for a known product gets the
\* success response as long as nothing fails.
ValidIsAccepted ==
  \A r \in Valid \intersect catalog :
    dbFaults = 0 /\ crashes = 0 => handler[r] # "failed"

-----------------------------------------------------------------------------
(* The inductive invariant behind the safety properties.                   *)

\* A handler writes the order row first and the event next.
Progress ==
  \A r \in Requests :
    /\ handler[r] \in {"new", "insertOrder"} => order[r] = "absent"
    /\ handler[r] = "createEvent" => order[r] = "PROCESSING" /\ event[r] = "absent"

\* A run has rows exactly while it publishes; each of them is stored.
RowsStored ==
  \A t \in Runs : /\ rows[t] = {} <=> run[t] \in {"off", "fetch"}
                  /\ rows[t] \subseteq Stored

\* Without overlap there is one active run.
OneRun ==
  ~overlapped => \A t, u \in Runs : run[t] # "off" /\ run[u] # "off" => t = u

\* A run has called publish for r, or tried to, and has not marked it yet.
Marking(r) ==
  \E t \in Runs : run[t] \in {"markPublished", "markFailed"} /\ Row(t) = r

\* What may still be sent: PENDING rows and rows in a batch.
Sendable(r) ==
  /\ event[r] \in {"absent", "PENDING"} \/ \E t \in Runs : r \in rows[t]
  /\ ~Marking(r)

\* Without overlap, each copy of a row that may be sent again is paid for by
\* a crash or two failed calls; a row whose markPublished failed has paid the
\* first of them.
SendsArePaid ==
  ~overlapped =>
    /\ \A r \in Requests : Sendable(r) => 2 * (sent[r] - crashes) <= dbFaults
    /\ \A t \in Runs : run[t] = "markFailed" =>
         2 * (sent[Row(t)] - 1 - crashes) + 1 <= dbFaults

\* A row is marked published only after it was sent, and what reaches the
\* broker or waits for the socket was sent.
SendsRecorded ==
  /\ \A t \in Runs : run[t] = "markPublished" => sent[Row(t)] > 0
  /\ \A r \in Requests : buffer[r] + delivered[r] <= sent[r]

IInv ==
  /\ TypeOK
  /\ Progress
  /\ AcceptedIsDurable
  /\ RowsStored
  /\ IsFiniteSet(Stored)
  /\ crashes = 0 => IsFiniteSet(Orphans)
  /\ OrphanNeedsFault
  /\ OneRun
  /\ SendsArePaid
  /\ ResendNeedsFault
  /\ SendsRecorded

==============================================================================

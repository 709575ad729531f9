---------------------------- MODULE OrderPipeline ----------------------------
(***************************************************************************)
(* The order service and the inventory worker together, as docker-compose  *)
(* runs them: one PostgreSQL with one orders table that both insert into,  *)
(* and one exchange that carries the outbox events into the worker's       *)
(* queue.  Each component keeps its own module; here they share orders and *)
(* published, and a step is a step of one of them, except that a message   *)
(* leaves the publisher's buffer and enters the queue in one step.         *)
(*                                                                         *)
(* A request stands for the order id and the event id it generates, so a   *)
(* message of the worker is the request that caused it.                    *)
(***************************************************************************)
EXTENDS Integers

CONSTANTS Requests,            \* POST /orders requests
          Workers,             \* inventory worker processes
          Runs,                \* slots for overlapping publisher runs
          NoMessage,           \* not a request
          ProductIds,          \* product ids in the requests
          Inventory,           \* products with an inventory row
          Event,               \* the event createOrder builds from a request
          InitialStock,        \* physical_stock at the start
          BatchSize,           \* rows one publisher run fetches at most
          MaxCopies,           \* copies of one event the queue can receive
          MaxServiceDbFaults,  \* bound: failing SQL calls of the service
          MaxCloses,           \* bound: closures of its AMQP channel
          MaxServiceCrashes,   \* bound: its crashes
          MaxDbFaults,         \* bound: failing SQL calls of the workers
          MaxCrashes           \* bound: worker crashes and channel closures

\* createOrder fills every field of the event and uses the new order's id.
ASSUME EventAssumption ==
  /\ Event \in [Requests -> [orderId : Requests, productId : ProductIds,
                             quantity : Int, wellFormed : BOOLEAN]]
  /\ \A r \in Requests : Event[r].orderId = r /\ Event[r].wellFormed
ASSUME MessageAssumption == NoMessage \notin Requests
ASSUME StockAssumption == /\ Inventory \subseteq ProductIds
                          /\ InitialStock \in [Inventory -> Nat]
ASSUME BatchAssumption == BatchSize \in Nat \ {0}
ASSUME BoundAssumption ==
  {MaxCopies, MaxServiceDbFaults, MaxCloses, MaxServiceCrashes,
   MaxDbFaults, MaxCrashes} \subseteq Nat

VARIABLES
  orders, published,                                   \* shared
  handler, run, rows, overlapped, osChannel, buffer,   \* order service
  event, createdAt, bound, sent, catalog, osDbFaults, closes, osCrashes,
  queue, dlq, pc, msg, channel, newStock, stock,       \* inventory worker
  inbox, applied, crashes, dbFaults

intakeVars == <<handler, run, rows, overlapped, osChannel, buffer, event,
                createdAt, bound, sent, catalog, osDbFaults, closes, osCrashes>>
workerVars == <<queue, dlq, pc, msg, channel, newStock, stock, inbox,
                applied, crashes, dbFaults>>
vars == <<orders, published, intakeVars, workerVars>>

\* Requests of products with an inventory row.
Catalog == {r \in Requests : Event[r].productId \in Inventory}

\* The table orders is in one database, and the service's messages are what
\* the worker's queue receives.
Intake == INSTANCE OrderOutbox WITH
            Valid <- {r \in Requests : Event[r].quantity > 0},
            Catalogs <- {Catalog},
            RequestHasUser <- TRUE,
            MonotoneClock <- FALSE,
            MaxDbFaults <- MaxServiceDbFaults,
            MaxCrashes <- MaxServiceCrashes,
            MaxFaults <- MaxServiceDbFaults + MaxCloses + MaxServiceCrashes,
            channel <- osChannel,
            order <- orders,
            delivered <- published,
            dbFaults <- osDbFaults,
            crashes <- osCrashes

Worker == INSTANCE InventoryWorker WITH
            Messages <- Requests,
            OrderIds <- Requests

Init == Intake!Init /\ Worker!Init

-----------------------------------------------------------------------------
ServiceStep ==
  /\ \/ \E r \in Requests : Intake!Receive(r) \/ Intake!HandlerStep(r)
     \/ \E t \in Runs : Intake!RunStep(t)
     \/ Intake!BindQueue
     \/ Intake!Fault
  /\ UNCHANGED workerVars

\* Faulty variant: the binding's routing key is not the publisher's.
FlushMisrouted(r) ==
  /\ Intake!Flush(r)
  /\ UNCHANGED workerVars

\* A buffered copy reaches the exchange, and the queue if it is bound.
Flush(r) ==
  /\ Intake!Flush(r)
  /\ IF bound THEN Worker!Publish(r) ELSE UNCHANGED workerVars

ConsumerStep(w) ==
  /\ Worker!WorkerStep(w) \/ Worker!FaultStep(w)
  /\ UNCHANGED intakeVars

Next ==
  \/ ServiceStep
  \/ \E r \in Requests : Flush(r)
  \/ \E w \in Workers : ConsumerStep(w)

Spec == Init /\ [][Next]_vars

\* The fairness of the components: awaited calls return, the timer fires,
\* the socket drains, live workers consume.
FairSpec ==
  /\ Spec
  /\ \A r \in Requests :
       /\ WF_vars(Intake!HandlerStep(r) /\ UNCHANGED workerVars)
       /\ WF_vars(Flush(r))
  /\ \A t \in Runs : WF_vars(Intake!RunStep(t) /\ UNCHANGED workerVars)
  /\ \A w \in Workers : WF_vars(Worker!WorkerStep(w) /\ UNCHANGED intakeVars)

-----------------------------------------------------------------------------
(* Properties.                                                             *)

\* Whatever the worker finds in an event was committed by the order service
\* before: no copy of an event, buffered, queued or in a handler, is ahead of
\* its order row, through failing calls, crashes and overlapping runs.
EventFollowsOrder ==
  \A r \in Requests :
    \/ event[r] # "absent"
    \/ buffer[r] > 0
    \/ queue[r] > 0
    \/ \E w \in Workers : msg[w] = r
    => orders[r] # "absent"

\* No order of the order service is ever paid and no stock is ever deducted
\* for one: the worker inserts the order id the service has inserted before
\* it, so the UNIQUE constraint rolls each of its transactions back.
PlacedIsNeverPaid ==
  /\ \A r \in Requests : orders[r] # "PAID"
  /\ stock = InitialStock

\* For want of a worker crash or a closed channel, every event that is stored
\* and not yet sent when the queue is bound ends in the dead-letter queue:
\* neither failing SQL calls on both sides nor repeated sends change its fate.
StoredIsDeadLettered ==
  \A r \in Requests :
    (event[r] = "PENDING" /\ sent[r] = 0 /\ bound)
      ~> (r \in dlq \/ closes + osCrashes + crashes > 0)

\* An event reaches the shared queue twice only for a crash of the service or
\* two failing mark calls, whatever the worker does with the first copy.
ResendNeedsFault == Intake!ResendNeedsFault

\* The worker in the pipeline is the worker of its own module, its
\* environment included: the order service's INSERT never meets an
\* uncommitted row of the same id, and messages enter the queue only as
\* Publish says.  What is proved of InventoryWorker holds here.
ImplementsWorker == Worker!Spec

\* The order service keeps its own specification too: the worker, which
\* writes to the same table, never changes a row the service has written.
ImplementsIntake == Intake!Spec

-----------------------------------------------------------------------------
(* The inductive invariant behind the safety properties.                   *)

\* Every transaction fails at its INSERT.
NoneCommits == \A w \in Workers : pc[w] # "commit"

IInv ==
  /\ Intake!IInv
  /\ Worker!IInv
  /\ EventFollowsOrder
  /\ PlacedIsNeverPaid
  /\ NoneCommits

==============================================================================

--------------------------- MODULE InventoryWorker ---------------------------
(***************************************************************************)
(* The inventory worker: consumers on RabbitMQ's order queue that turn an  *)
(* order.created event into one PostgreSQL transaction (deduct the stock,  *)
(* insert the PAID order), guarded by an inbox table against redelivery.   *)
(*                                                                         *)
(* Every await of the code is a step boundary: a step is one SQL statement *)
(* or one broker call together with the synchronous code up to the next    *)
(* await.  pc[w] names the call worker process w is waiting for.  prefetch *)
(* is 1, so a process handles one delivery at a time; several processes    *)
(* compete for the queue.                                                  *)
(*                                                                         *)
(* The broker and PostgreSQL are external: the queue is a bag of message   *)
(* copies (redelivery and competing consumers destroy the order anyway),   *)
(* the row lock of an UPDATE and the wait on an uncommitted unique key are *)
(* guards, and a transaction's writes stay private until COMMIT.           *)
(***************************************************************************)
EXTENDS Integers, Functions, OrderStatus

CONSTANTS Workers,       \* worker processes
          Messages,      \* message ids (the outbox event ids)
          NoMessage,     \* not a message: the process handles nothing
          OrderIds,      \* order ids the events carry
          ProductIds,    \* product ids the events carry
          Inventory,     \* products with a row in the inventory table
          Event,         \* the event each message carries
          InitialStock,  \* physical_stock when the run starts
          MaxCopies,     \* bound: times the publisher sends one message
          MaxCrashes,    \* bound: process crashes and channel closures
          MaxDbFaults    \* bound: failing SQL calls

\* quantity is any integer: the consumer checks typeof only.  (A fraction, or
\* a number beyond INTEGER, fails the UPDATE like a product without a row.)
\* wellFormed abstracts JSON.parse and the typeof checks.
EventType == [orderId : OrderIds, productId : ProductIds,
              quantity : Int, wellFormed : BOOLEAN]

ASSUME EventAssumption == Event \in [Messages -> EventType]
ASSUME NoMessageAssumption == NoMessage \notin Messages
ASSUME StockAssumption == /\ Inventory \subseteq ProductIds
                          /\ InitialStock \in [Inventory -> Nat]
ASSUME BoundAssumption == /\ MaxCopies \in Nat
                          /\ MaxCrashes \in Nat
                          /\ MaxDbFaults \in Nat

VARIABLES
  \* broker
  queue,      \* ready copies of each message in queues.order
  published,  \* copies the publisher has sent so far
  dlq,        \* messages dead-lettered through the DLX
  \* worker processes
  pc,         \* the call each process is waiting for
  msg,        \* the delivery it handles
  channel,    \* whether its AMQP channel is usable
  newStock,   \* stock written by its open transaction, not yet visible
  \* PostgreSQL, committed state
  stock,      \* inventory.physical_stock
  orders,     \* orders.status, or "absent"
  inbox,      \* processed_messages.status, or "absent"
  \* history and bounds
  applied,    \* committed transactions per message
  crashes,    \* crashes and channel closures so far
  dbFaults    \* failed SQL calls so far

broker   == <<queue, published, dlq>>
process  == <<pc, msg, channel, newStock>>
database == <<stock, orders, inbox>>
history  == <<applied, crashes, dbFaults>>
vars     == <<broker, process, database, history>>

Stages == {"idle", "reserve", "update", "insert", "commit",
           "markProcessed", "markFailed", "ack", "nack"}

\* Between a successful reservation and the end of the try/catch.
OwningStages == {"update", "insert", "commit", "markProcessed", "markFailed"}

OrderId(w)  == Event[msg[w]].orderId
Product(w)  == Event[msg[w]].productId
Quantity(w) == Event[msg[w]].quantity

\* The UPDATE has run and the transaction is still open: its row is locked.
InTransaction(w) == pc[w] \in {"insert", "commit"}
RowLocked(p) == \E v \in Workers : InTransaction(v) /\ Product(v) = p

Held(m) == \E w \in Workers : msg[w] = m

TypeOK ==
  /\ queue \in [Messages -> Nat]
  /\ published \in [Messages -> 0..MaxCopies]
  /\ dlq \subseteq Messages
  /\ pc \in [Workers -> Stages]
  /\ msg \in [Workers -> Messages \union {NoMessage}]
  /\ channel \in [Workers -> {"open", "closed"}]
  /\ newStock \in [Workers -> Nat]
  /\ stock \in [Inventory -> Nat]
  /\ orders \in [OrderIds -> {"absent"} \union OrderStatuses]
  /\ inbox \in [Messages -> {"absent", "PROCESSING", "PROCESSED", "FAILED"}]
  /\ applied \in [Messages -> Nat]
  /\ crashes \in 0..MaxCrashes
  /\ dbFaults \in 0..MaxDbFaults

\* The order service writes the order row (PlaceOrder) before it publishes the
\* event; after reset-db, or with another producer, the row is missing.
Init ==
  /\ queue = [m \in Messages |-> 0]
  /\ published = [m \in Messages |-> 0]
  /\ dlq = {}
  /\ pc = [w \in Workers |-> "idle"]
  /\ msg = [w \in Workers |-> NoMessage]
  /\ channel = [w \in Workers |-> "open"]
  /\ newStock = [w \in Workers |-> 0]
  /\ stock = InitialStock
  /\ orders = [o \in OrderIds |-> "absent"]
  /\ inbox = [m \in Messages |-> "absent"]
  /\ applied = [m \in Messages |-> 0]
  /\ crashes = 0
  /\ dbFaults = 0

-----------------------------------------------------------------------------
(* The order service: its INSERT INTO orders waits for a transaction that  *)
(* has inserted the same id; its publisher may send an event repeatedly.   *)

PlaceOrder(o) ==
  /\ orders[o] = "absent"
  /\ \A w \in Workers : pc[w] = "commit" => OrderId(w) # o
  /\ orders' = [orders EXCEPT ![o] = "PROCESSING"]
  /\ UNCHANGED <<broker, process, stock, inbox, history>>

Publish(m) ==
  /\ published[m] < MaxCopies
  /\ published' = [published EXCEPT ![m] = @ + 1]
  /\ queue' = [queue EXCEPT ![m] = @ + 1]
  /\ UNCHANGED <<dlq, process, database, history>>

\* The synchronous checks of the consumer and of the service.
Acceptable(m) ==
  Event[m].wellFormed /\ canTransitionOrderStatus("PROCESSING", "PAID")

Deliver(w, m) ==
  /\ pc[w] = "idle"
  /\ queue[m] > 0
  /\ Acceptable(m)
  /\ queue' = [queue EXCEPT ![m] = @ - 1]
  /\ pc' = [pc EXCEPT ![w] = "reserve"]
  /\ msg' = [msg EXCEPT ![w] = m]
  /\ UNCHANGED <<published, dlq, channel, newStock, database, history>>

\* Faulty variant: nack with requeue, and the broker delivers again.
RequeueMalformed(w, m) ==
  /\ pc[w] = "idle"
  /\ queue[m] > 0
  /\ ~Acceptable(m)
  /\ UNCHANGED vars

\* A check fails before the first await: nack without requeue.
RejectMalformed(w, m) ==
  /\ pc[w] = "idle"
  /\ queue[m] > 0
  /\ ~Acceptable(m)
  /\ queue' = [queue EXCEPT ![m] = @ - 1]
  /\ dlq' = dlq \union {m}
  /\ UNCHANGED <<published, process, database, history>>

-----------------------------------------------------------------------------
(* Service and repositories.                                               *)

Goto(w, stage) == pc' = [pc EXCEPT ![w] = stage]

\* ROLLBACK, or the backend dropping a dead client's transaction.
Rollback(w) == newStock' = [newStock EXCEPT ![w] = 0]

SetInbox(w, status) == inbox' = [inbox EXCEPT ![msg[w]] = status]

\* Faulty variant: ON CONFLICT DO UPDATE, every delivery wins.
ReserveAlways(w) ==
  /\ pc[w] = "reserve"
  /\ SetInbox(w, "PROCESSING")
  /\ Goto(w, "update")
  /\ UNCHANGED <<broker, msg, channel, newStock, stock, orders, history>>

\* Faulty variant: a FAILED row may be reserved again.
ReserveFailedAgain(w) ==
  /\ pc[w] = "reserve"
  /\ inbox[msg[w]] \in {"absent", "FAILED"}
  /\ SetInbox(w, "PROCESSING")
  /\ Goto(w, "update")
  /\ UNCHANGED <<broker, msg, channel, newStock, stock, orders, history>>

\* INSERT ... ON CONFLICT DO NOTHING inserts the row.
Reserve(w) ==
  /\ pc[w] = "reserve"
  /\ inbox[msg[w]] = "absent"
  /\ SetInbox(w, "PROCESSING")
  /\ Goto(w, "update")
  /\ UNCHANGED <<broker, msg, channel, newStock, stock, orders, history>>

\* ... or finds one, whatever its status: the delivery is skipped.
Skip(w) ==
  /\ pc[w] = "reserve"
  /\ inbox[msg[w]] # "absent"
  /\ Goto(w, "ack")
  /\ UNCHANGED <<broker, msg, channel, newStock, database, history>>

\* Faulty variant: no WHERE physical_stock >= quantity, no CHECK.
UpdateStockUnguarded(w) ==
  /\ pc[w] = "update"
  /\ Product(w) \in Inventory
  /\ ~RowLocked(Product(w))
  /\ newStock' = [newStock EXCEPT ![w] = stock[Product(w)] - Quantity(w)]
  /\ Goto(w, "insert")
  /\ UNCHANGED <<broker, msg, channel, database, history>>

\* Faulty variant: SELECT, then write back, without locking the row.
UpdateStockUnlocked(w) ==
  /\ pc[w] = "update"
  /\ Product(w) \in Inventory
  /\ stock[Product(w)] >= Quantity(w)
  /\ newStock' = [newStock EXCEPT ![w] = stock[Product(w)] - Quantity(w)]
  /\ Goto(w, "insert")
  /\ UNCHANGED <<broker, msg, channel, database, history>>

\* BEGIN; UPDATE inventory ... WHERE physical_stock >= quantity.
UpdateStock(w) ==
  /\ pc[w] = "update"
  /\ Product(w) \in Inventory
  /\ ~RowLocked(Product(w))
  /\ stock[Product(w)] >= Quantity(w)
  /\ newStock' = [newStock EXCEPT ![w] = stock[Product(w)] - Quantity(w)]
  /\ Goto(w, "insert")
  /\ UNCHANGED <<broker, msg, channel, database, history>>

\* The UPDATE matched no row: unknown product, or not enough stock.  A row
\* that does not match is not waited for, even when it is locked.
RefuseStock(w) ==
  /\ pc[w] = "update"
  /\ Product(w) \in Inventory => stock[Product(w)] < Quantity(w)
  /\ Goto(w, "markFailed")
  /\ UNCHANGED <<broker, msg, channel, newStock, database, history>>

\* Another open transaction has inserted the same order_id.
OrderPending(w) ==
  \E v \in Workers \ {w} : pc[v] = "commit" /\ OrderId(v) = OrderId(w)

\* Faulty variant: orders.order_id without UNIQUE.
InsertOrderNotUnique(w) ==
  /\ pc[w] = "insert"
  /\ Quantity(w) > 0
  /\ Goto(w, "commit")
  /\ UNCHANGED <<broker, msg, channel, newStock, database, history>>

\* Faulty variant: a SELECT of the order id instead of UNIQUE; an uncommitted
\* row is not seen.
InsertOrderSelected(w) ==
  /\ pc[w] = "insert"
  /\ Quantity(w) > 0
  /\ orders[OrderId(w)] = "absent"
  /\ Goto(w, "commit")
  /\ UNCHANGED <<broker, msg, channel, newStock, database, history>>

\* Faulty variant: orders.quantity without CHECK (quantity > 0).
InsertOrderAnyQuantity(w) ==
  /\ pc[w] = "insert"
  /\ orders[OrderId(w)] = "absent"
  /\ ~OrderPending(w)
  /\ Goto(w, "commit")
  /\ UNCHANGED <<broker, msg, channel, newStock, database, history>>

\* INSERT INTO orders passes CHECK (quantity > 0) and UNIQUE (order_id).
InsertOrder(w) ==
  /\ pc[w] = "insert"
  /\ Quantity(w) > 0
  /\ orders[OrderId(w)] = "absent"
  /\ ~OrderPending(w)
  /\ Goto(w, "commit")
  /\ UNCHANGED <<broker, msg, channel, newStock, database, history>>

RefuseOrder(w) ==
  /\ pc[w] = "insert"
  /\ Quantity(w) > 0 => orders[OrderId(w)] # "absent"
  /\ Rollback(w)
  /\ Goto(w, "markFailed")
  /\ UNCHANGED <<broker, msg, channel, database, history>>

\* COMMIT takes effect: the private writes become visible, locks go.
ApplyTransaction(w) ==
  /\ stock' = [stock EXCEPT ![Product(w)] = newStock[w]]
  /\ orders' = [orders EXCEPT ![OrderId(w)] = "PAID"]
  /\ applied' = [applied EXCEPT ![msg[w]] = @ + 1]
  /\ newStock' = [newStock EXCEPT ![w] = 0]
  /\ UNCHANGED inbox

Commit(w) ==
  /\ pc[w] = "commit"
  /\ ApplyTransaction(w)
  /\ Goto(w, "markProcessed")
  /\ UNCHANGED <<broker, msg, channel, crashes, dbFaults>>

MarkProcessed(w) ==
  /\ pc[w] = "markProcessed"
  /\ SetInbox(w, "PROCESSED")
  /\ Goto(w, "ack")
  /\ UNCHANGED <<broker, msg, channel, newStock, stock, orders, history>>

MarkFailed(w) ==
  /\ pc[w] = "markFailed"
  /\ SetInbox(w, "FAILED")
  /\ Goto(w, "nack")
  /\ UNCHANGED <<broker, msg, channel, newStock, stock, orders, history>>

-----------------------------------------------------------------------------
(* Settling the delivery.  On a closed channel ack and nack both throw;    *)
(* the throwing nack of the catch block rejects the handler's promise,     *)
(* which ends the process, and it restarts with a fresh channel.           *)

Settle(w) ==
  /\ Goto(w, "idle")
  /\ msg' = [msg EXCEPT ![w] = NoMessage]
  /\ channel' = [channel EXCEPT ![w] = "open"]
  /\ UNCHANGED <<published, newStock, database, history>>

Ack(w) ==
  /\ pc[w] = "ack"
  /\ Settle(w)
  /\ UNCHANGED <<queue, dlq>>

\* Faulty variant: nack(msg, false, true).
NackRequeue(w) ==
  /\ pc[w] = "nack"
  /\ Settle(w)
  /\ queue' = IF channel[w] = "open"
              THEN [queue EXCEPT ![msg[w]] = @ + 1] ELSE queue
  /\ UNCHANGED dlq

\* nack(msg, false, false): to the dead-letter queue.
Nack(w) ==
  /\ pc[w] = "nack"
  /\ Settle(w)
  /\ dlq' = IF channel[w] = "open" THEN dlq \union {msg[w]} ELSE dlq
  /\ UNCHANGED queue

-----------------------------------------------------------------------------
(* Failing SQL calls.  The call rejects; whether its effect happened is    *)
(* not known to the caller.                                                *)

DbFault == dbFaults < MaxDbFaults /\ dbFaults' = dbFaults + 1

\* reserveMessage is awaited outside the try: straight to nack.
ReserveFails(w) ==
  /\ pc[w] = "reserve"
  /\ DbFault
  /\ Goto(w, "nack")
  /\ \/ inbox[msg[w]] = "absent" /\ SetInbox(w, "PROCESSING")
     \/ UNCHANGED inbox
  /\ UNCHANGED <<broker, msg, channel, newStock, stock, orders, applied, crashes>>

\* Faulty variant: the repository swallows the error after ROLLBACK.
TxnFailsSilently(w) ==
  /\ pc[w] \in {"update", "insert", "commit"}
  /\ DbFault
  /\ Rollback(w)
  /\ Goto(w, "markProcessed")
  /\ UNCHANGED <<broker, msg, channel, database, applied, crashes>>

\* connect is refused, or a statement of the transaction is answered with an
\* error: the connection lives on for the ROLLBACK.
TxnFails(w) ==
  /\ pc[w] \in {"update", "insert", "commit"}
  /\ DbFault
  /\ Rollback(w)
  /\ Goto(w, "markFailed")
  /\ UNCHANGED <<broker, msg, channel, database, applied, crashes>>

\* markMessageProcessed is inside the try: its failure marks FAILED.
MarkProcessedFails(w) ==
  /\ pc[w] = "markProcessed"
  /\ DbFault
  /\ Goto(w, "markFailed")
  /\ SetInbox(w, "PROCESSED") \/ UNCHANGED inbox
  /\ UNCHANGED <<broker, msg, channel, newStock, stock, orders, applied, crashes>>

MarkFailedFails(w) ==
  /\ pc[w] = "markFailed"
  /\ DbFault
  /\ Goto(w, "nack")
  /\ SetInbox(w, "FAILED") \/ UNCHANGED inbox
  /\ UNCHANGED <<broker, msg, channel, newStock, stock, orders, applied, crashes>>

-----------------------------------------------------------------------------
(* Crashes.  The broker requeues the unacknowledged delivery, PostgreSQL   *)
(* rolls the open transaction back, and the process is restarted.          *)

Disturb(w) ==
  /\ crashes < MaxCrashes
  /\ crashes' = crashes + 1
  /\ pc[w] # "idle"
  /\ queue' = IF channel[w] = "open"
              THEN [queue EXCEPT ![msg[w]] = @ + 1] ELSE queue
  /\ UNCHANGED <<published, dlq, dbFaults>>

Restart(w) ==
  /\ Goto(w, "idle")
  /\ msg' = [msg EXCEPT ![w] = NoMessage]
  /\ channel' = [channel EXCEPT ![w] = "open"]

Crash(w) ==
  /\ Disturb(w)
  /\ Rollback(w)
  /\ Restart(w)
  /\ UNCHANGED <<database, applied>>

\* Faulty variant: an 'error' listener keeps the process alive, and the caller
\* of a COMMIT that took effect sees a rejected query.
CommitReplyLostHandled(w) ==
  /\ pc[w] = "commit"
  /\ crashes < MaxCrashes
  /\ crashes' = crashes + 1
  /\ ApplyTransaction(w)
  /\ Goto(w, "markFailed")
  /\ UNCHANGED <<broker, msg, channel, dbFaults>>

\* COMMIT takes effect and the connection goes before its reply: the client
\* taken from the pool has no 'error' listener, so the process ends.
CommitReplyLost(w) ==
  /\ pc[w] = "commit"
  /\ Disturb(w)
  /\ ApplyTransaction(w)
  /\ Restart(w)

\* The channel closes under a running handler: the delivery goes back to
\* the queue while the handler continues on its database pool.
CloseChannel(w) ==
  /\ channel[w] = "open"
  /\ Disturb(w)
  /\ channel' = [channel EXCEPT ![w] = "closed"]
  /\ UNCHANGED <<pc, msg, newStock, database, applied>>

-----------------------------------------------------------------------------
WorkerStep(w) ==
  \/ \E m \in Messages : Deliver(w, m) \/ RejectMalformed(w, m)
  \/ Reserve(w) \/ Skip(w)
  \/ UpdateStock(w) \/ RefuseStock(w)
  \/ InsertOrder(w) \/ RefuseOrder(w)
  \/ Commit(w)
  \/ MarkProcessed(w) \/ MarkFailed(w)
  \/ Ack(w) \/ Nack(w)

FaultStep(w) ==
  \/ ReserveFails(w) \/ TxnFails(w)
  \/ MarkProcessedFails(w) \/ MarkFailedFails(w)
  \/ Crash(w) \/ CommitReplyLost(w) \/ CloseChannel(w)

\* Everything was published and consumed: the workers wait for more.
Terminating ==
  /\ \A m \in Messages : published[m] = MaxCopies /\ queue[m] = 0
  /\ \A w \in Workers : pc[w] = "idle"
  /\ UNCHANGED vars

Next ==
  \/ \E o \in OrderIds : PlaceOrder(o)
  \/ \E m \in Messages : Publish(m)
  \/ \E w \in Workers : WorkerStep(w) \/ FaultStep(w)
  \/ Terminating

Spec == Init /\ [][Next]_vars

\* A live process takes the deliveries and replies that wait for it.  The
\* order service and the faults are never forced.
FairSpec == Spec /\ \A w \in Workers : WF_vars(WorkerStep(w))

-----------------------------------------------------------------------------
(* Properties.                                                             *)

\* Of all the deliveries of one message, concurrent or repeated, at most
\* one runs the transaction: the inbox reservation excludes the others even
\* while a handler whose channel closed is still running.
OneOwner ==
  \A v, w \in Workers :
    (v # w /\ pc[v] \in OwningStages /\ pc[w] \in OwningStages)
      => msg[v] # msg[w]

\* Stock is deducted at most once per order, over all messages and copies
\* that carry it, and the deduction and the PAID row appear together.
OrderChargedOnce ==
  \A m \in Messages : applied[m] > 0 =>
    /\ applied[m] = 1
    /\ orders[Event[m].orderId] = "PAID"
    /\ \A n \in Messages \ {m} :
         Event[n].orderId = Event[m].orderId => applied[n] = 0

Charged(p) == {m \in Messages : applied[m] > 0 /\ Event[m].productId = p}
charge == [m \in Messages |-> applied[m] * Event[m].quantity]

\* No deduction is lost or doubled by concurrent transactions, rollbacks or
\* crashes: stock and the charged quantities add up to the initial stock.
StockLedger ==
  \A p \in Inventory :
    stock[p] + SumFunctionOnSet(charge, Charged(p)) = InitialStock[p]

\* A PROCESSED inbox row is never written for a transaction that did not
\* commit, whichever statement failed on the way.
ProcessedMeansPaid ==
  \A m \in Messages : inbox[m] = "PROCESSED" =>
    applied[m] = 1 /\ orders[Event[m].orderId] = "PAID"

\* All copies of m are gone and m neither took effect nor was dead-lettered.
Lost(m) ==
  /\ published[m] > 0 /\ queue[m] = 0 /\ ~Held(m)
  /\ applied[m] = 0 /\ m \notin dlq

\* A message can vanish only after a crash or a channel closure, and then
\* its inbox row, stuck in PROCESSING or FAILED, still tells.
LostLeavesTrace ==
  \A m \in Messages : Lost(m) =>
    crashes > 0 /\ inbox[m] \in {"PROCESSING", "FAILED"}

\* As long as no SQL call fails, a charged message is neither dead-lettered
\* nor marked FAILED, through crashes, redeliveries and closed channels: an
\* operator may resubmit dead letters.
DeadLetterHonest ==
  dbFaults = 0 =>
    \A m \in Messages : applied[m] > 0 => m \notin dlq /\ inbox[m] # "FAILED"

\* No event ever raises a stock, a negative quantity included: the UPDATE
\* would, and only the CHECK on the later INSERT rolls it back.
StockNeverGrows ==
  [][\A p \in Inventory : stock'[p] <= stock[p]]_vars

\* Once a message is marked FAILED it stays so, and no later delivery of it
\* charges anything.
FailureIsFinal ==
  [][\A m \in Messages : inbox[m] = "FAILED" =>
       inbox'[m] = "FAILED" /\ applied'[m] = applied[m]]_vars

\* Every copy is eventually settled: no message circulates forever, and no
\* handler waits forever for a row lock or a unique key.
QueueDrains ==
  \A m \in Messages : queue[m] > 0 ~> (queue[m] = 0 /\ ~Held(m))

\* The whole machinery charges stock like one atomic step per message.
Ledger == INSTANCE InventoryLedger WITH
            charged <- {m \in Messages : applied[m] > 0}
ImplementsLedger == Ledger!Spec

\* README, failure handling: "Message consumption failures are not silently
\* dropped.  They are routed to the DLQ."
NoSilentDrop == \A m \in Messages : ~Lost(m)

\* docs/architecture.md, inventory worker: "If processing fails: the
\* transaction is rolled back".
DeadLetterMeansRolledBack ==
  \A m \in Messages : m \in dlq => applied[m] = 0

-----------------------------------------------------------------------------
(* The inductive invariant behind the safety properties.                   *)

\* A busy process handles a message that passed the synchronous checks.
Handling ==
  \A w \in Workers :
    /\ pc[w] = "idle" <=> msg[w] = NoMessage
    /\ pc[w] # "idle" => Acceptable(msg[w])

\* From the reservation to the end of the try the inbox row is PROCESSING.
Reserved ==
  \A w \in Workers :
    /\ pc[w] \in OwningStages => inbox[msg[w]] # "absent"
    /\ pc[w] \in OwningStages \ {"markFailed"} => inbox[msg[w]] = "PROCESSING"

\* The deduction is made by the owner, between commit and markProcessed.
ChargedByOwner ==
  /\ \A w \in Workers :
       /\ pc[w] \in {"update", "insert", "commit"} => applied[msg[w]] = 0
       /\ pc[w] = "markProcessed" => applied[msg[w]] = 1
  /\ \A m \in Messages : inbox[m] = "absent" => applied[m] = 0
  /\ \A m \in Messages : applied[m] > 0 => Acceptable(m)

\* An open transaction holds its row and knows the committed stock of it.
RowsHeld ==
  \A w \in Workers : InTransaction(w) =>
    /\ Product(w) \in Inventory
    /\ newStock[w] = stock[Product(w)] - Quantity(w)
    /\ \A v \in Workers \ {w} : InTransaction(v) => Product(v) # Product(w)

\* A transaction about to commit holds its order id.
OrdersHeld ==
  \A w \in Workers : pc[w] = "commit" =>
    /\ Quantity(w) > 0
    /\ orders[OrderId(w)] = "absent"
    /\ \A v \in Workers \ {w} : pc[v] = "commit" => OrderId(v) # OrderId(w)

\* While no SQL call fails, dead letters are the malformed and the FAILED.
FailuresMarked ==
  dbFaults = 0 =>
    /\ \A w \in Workers : pc[w] = "nack" => inbox[msg[w]] = "FAILED"
    /\ \A w \in Workers : pc[w] = "markFailed" => applied[msg[w]] = 0
    /\ \A m \in dlq : Acceptable(m) => inbox[m] = "FAILED"

\* A channel closes only under a running handler, whose process then restarts.
ChannelsOpen ==
  \A w \in Workers : channel[w] = "closed" => pc[w] # "idle" /\ crashes > 0

\* A delivery that is acknowledged has, or had found, an inbox row; while no
\* process crashes, the handler that inserted it sees the message to its end.
OwnerRemains ==
  /\ \A w \in Workers : pc[w] = "ack" => inbox[msg[w]] # "absent"
  /\ crashes = 0 =>
       \A m \in Messages : inbox[m] # "absent" =>
         \/ applied[m] > 0
         \/ m \in dlq
         \/ \E w \in Workers : msg[w] = m /\ pc[w] \in OwningStages \union {"nack"}

\* Where a published message is, or what is left of it.
Accounted ==
  \A m \in Messages : published[m] > 0 =>
    \/ queue[m] > 0
    \/ m \in dlq
    \/ applied[m] > 0
    \/ \E w \in Workers : msg[w] = m /\ channel[w] = "open"
    \/ crashes > 0 /\ inbox[m] # "absent"

IInv ==
  /\ TypeOK
  /\ Handling
  /\ OneOwner
  /\ Reserved
  /\ ChargedByOwner
  /\ RowsHeld
  /\ OrdersHeld
  /\ OrderChargedOnce
  /\ ProcessedMeansPaid
  /\ FailuresMarked
  /\ DeadLetterHonest
  /\ ChannelsOpen
  /\ OwnerRemains
  /\ Accounted

==============================================================================

------------------------ MODULE InventoryWorkerProofs ------------------------
(***************************************************************************)
(* Theorems about InventoryWorker for every number of workers and          *)
(* messages, every stock, and any number of copies, crashes and faults.    *)
(***************************************************************************)
EXTENDS InventoryWorker, SumProofs, TLAPS

LEMMA EventFields ==
  \A m \in Messages : /\ Event[m].orderId \in OrderIds
                      /\ Event[m].productId \in ProductIds
                      /\ Event[m].quantity \in Int
  BY EventAssumption DEF EventType

\* No message is lost, owned or charged in an initial state.
LEMMA InvInit == Init => IInv
<1> SUFFICES ASSUME Init PROVE IInv
  OBVIOUS
<1>1. TypeOK
  BY StockAssumption, BoundAssumption DEF Init, TypeOK, Stages, OrderStatuses
<1>2. Handling /\ OneOwner /\ Reserved /\ ChargedByOwner
  BY DEF Init, Handling, OneOwner, Reserved, ChargedByOwner, OwningStages
<1>3. RowsHeld /\ OrdersHeld
  BY DEF Init, RowsHeld, OrdersHeld, InTransaction
<1>4. OrderChargedOnce /\ ProcessedMeansPaid /\ FailuresMarked /\ DeadLetterHonest
  BY DEF Init, OrderChargedOnce, ProcessedMeansPaid, FailuresMarked, DeadLetterHonest
<1>5. ChannelsOpen /\ OwnerRemains /\ Accounted
  BY DEF Init, ChannelsOpen, OwnerRemains, Accounted
<1> QED
  BY <1>1, <1>2, <1>3, <1>4, <1>5 DEF IInv

LEMMA BusyHasMessage ==
  ASSUME TypeOK, Handling, NEW w \in Workers, pc[w] # "idle"
  PROVE  msg[w] \in Messages
  BY DEF TypeOK, Handling

\* Handling is needed: a busy process must have a message to write about.
LEMMA TypeStep ==
  ASSUME TypeOK, Handling, [Next]_vars
  PROVE  TypeOK'
<1> USE EventFields, NoMessageAssumption, BoundAssumption DEF TypeOK, Stages
<1>1. CASE UNCHANGED vars
  BY <1>1 DEF vars, broker, process, database, history
<1>0. ASSUME NEW o \in OrderIds, PlaceOrder(o) PROVE TypeOK'
  BY <1>0 DEF PlaceOrder, OrderStatuses, broker, process, history
<1>2. ASSUME NEW m \in Messages, Publish(m) PROVE TypeOK'
  BY <1>2 DEF Publish, process, database, history
<1>3. ASSUME NEW w \in Workers, NEW m \in Messages, Deliver(w, m) PROVE TypeOK'
  BY <1>3 DEF Deliver, database, history
<1>4. ASSUME NEW w \in Workers, NEW m \in Messages, RejectMalformed(w, m)
      PROVE TypeOK'
  BY <1>4 DEF RejectMalformed, process, database, history
<1>5. ASSUME NEW w \in Workers, Reserve(w) PROVE TypeOK'
  BY <1>5, BusyHasMessage DEF Reserve, SetInbox, Goto, broker, history
<1>6. ASSUME NEW w \in Workers, Skip(w) PROVE TypeOK'
  BY <1>6 DEF Skip, Goto, broker, database, history
<1>7. ASSUME NEW w \in Workers, UpdateStock(w) PROVE TypeOK'
  BY <1>7, BusyHasMessage
     DEF UpdateStock, Product, Quantity, Goto, broker, database, history
<1>8. ASSUME NEW w \in Workers, RefuseStock(w) PROVE TypeOK'
  BY <1>8 DEF RefuseStock, Goto, broker, database, history
<1>9. ASSUME NEW w \in Workers, InsertOrder(w) PROVE TypeOK'
  BY <1>9 DEF InsertOrder, Goto, broker, database, history
<1>10. ASSUME NEW w \in Workers, RefuseOrder(w) PROVE TypeOK'
  BY <1>10 DEF RefuseOrder, Rollback, Goto, broker, database, history
<1>11. ASSUME NEW w \in Workers, Commit(w) \/ CommitReplyLost(w) PROVE TypeOK'
  <2>1. msg[w] \in Messages
    BY <1>11, BusyHasMessage DEF Commit, CommitReplyLost
  <2>a. ApplyTransaction(w)
    BY <1>11 DEF Commit, CommitReplyLost
  <2>b. newStock[w] \in Nat /\ "PAID" \in OrderStatuses
    BY DEF OrderStatuses
  <2>2. stock' \in [Inventory -> Nat]
    BY <2>a, <2>b DEF ApplyTransaction
  <2>4. orders' \in [OrderIds -> {"absent"} \union OrderStatuses]
    BY <2>a, <2>b DEF ApplyTransaction
  <2>5. /\ applied' \in [Messages -> Nat]
        /\ newStock' \in [Workers -> Nat]
        /\ UNCHANGED inbox
    BY <2>a, <2>1 DEF ApplyTransaction
  <2>3. /\ pc' \in [Workers -> Stages]
        /\ crashes' \in 0..MaxCrashes
        /\ queue' \in [Messages -> Nat]
        /\ msg' \in [Workers -> Messages \union {NoMessage}]
        /\ channel' \in [Workers -> {"open", "closed"}]
        /\ UNCHANGED <<published, dlq, dbFaults>>
    BY <1>11, <2>1 DEF Commit, CommitReplyLost, Disturb, Restart, Goto, broker
  <2> QED
    BY <2>2, <2>3, <2>4, <2>5
<1>12. ASSUME NEW w \in Workers, MarkProcessed(w) \/ MarkFailed(w) PROVE TypeOK'
  BY <1>12, BusyHasMessage
     DEF MarkProcessed, MarkFailed, SetInbox, Goto, broker, history
<1>13. ASSUME NEW w \in Workers, Ack(w) \/ Nack(w) PROVE TypeOK'
  BY <1>13, BusyHasMessage DEF Ack, Nack, Settle, Goto, database, history
<1>14. ASSUME NEW w \in Workers,
              \/ ReserveFails(w) \/ TxnFails(w)
              \/ MarkProcessedFails(w) \/ MarkFailedFails(w)
       PROVE TypeOK'
  BY <1>14, BusyHasMessage
     DEF ReserveFails, TxnFails, MarkProcessedFails, MarkFailedFails,
         DbFault, Rollback, SetInbox, Goto, broker, database
<1>15. ASSUME NEW w \in Workers, Crash(w) \/ CloseChannel(w) PROVE TypeOK'
  <2>1. Disturb(w) /\ msg[w] \in Messages
    BY <1>15, BusyHasMessage DEF Crash, CloseChannel, Disturb
  <2>2. /\ queue' \in [Messages -> Nat]
        /\ crashes' \in 0..MaxCrashes
        /\ UNCHANGED <<published, dlq, stock, orders, inbox, applied, dbFaults>>
    BY <1>15, <2>1 DEF Disturb, Crash, CloseChannel, database
  <2>3. /\ pc' \in [Workers -> Stages]
        /\ msg' \in [Workers -> Messages \union {NoMessage}]
        /\ channel' \in [Workers -> {"open", "closed"}]
        /\ newStock' \in [Workers -> Nat]
    BY <1>15 DEF Crash, CloseChannel, Restart, Rollback, Goto
  <2> QED
    BY <2>2, <2>3
<1> QED
  BY <1>0, <1>1, <1>2, <1>3, <1>4, <1>5, <1>6, <1>7, <1>8, <1>9, <1>10, <1>11,
     <1>12, <1>13, <1>14, <1>15
     DEF Next, WorkerStep, FaultStep, Terminating

\* Who owns a message: the deliveries, their inbox rows and what they charged.
LEMMA OwnershipStep ==
  ASSUME IInv, [Next]_vars, TypeOK'
  PROVE  Handling' /\ OneOwner' /\ Reserved' /\ ChargedByOwner'
<1> DEFINE Goal == Handling /\ OneOwner /\ Reserved /\ ChargedByOwner
<1> USE EventFields, NoMessageAssumption
    DEF IInv, Handling, OneOwner, Reserved, ChargedByOwner, OwningStages,
        TypeOK
<1>1. CASE UNCHANGED vars
  BY <1>1 DEF vars, broker, process, database, history
<1>0. ASSUME NEW o \in OrderIds, PlaceOrder(o) PROVE Goal'
  BY <1>0 DEF PlaceOrder, OrderId, broker, process, history
<1>2. ASSUME NEW m \in Messages, Publish(m) PROVE Goal'
  BY <1>2 DEF Publish, process, database, history
<1>3. ASSUME NEW w \in Workers, NEW m \in Messages, Deliver(w, m) PROVE Goal'
  BY <1>3 DEF Deliver, database, history
<1>4. ASSUME NEW w \in Workers, NEW m \in Messages, RejectMalformed(w, m) PROVE Goal'
  BY <1>4 DEF RejectMalformed, process, database, history
<1>5. ASSUME NEW w \in Workers, Reserve(w) PROVE Goal'
  BY <1>5 DEF Reserve, SetInbox, Goto, broker, history
<1>6. ASSUME NEW w \in Workers, Skip(w) PROVE Goal'
  BY <1>6 DEF Skip, Goto, broker, database, history
<1>7. ASSUME NEW w \in Workers, UpdateStock(w) PROVE Goal'
  BY <1>7 DEF UpdateStock, RowLocked, Goto, broker, database, history
<1>8. ASSUME NEW w \in Workers, RefuseStock(w) PROVE Goal'
  BY <1>8 DEF RefuseStock, Goto, broker, database, history
<1>9. ASSUME NEW w \in Workers, InsertOrder(w) PROVE Goal'
  BY <1>9 DEF InsertOrder, OrderPending, Goto, broker, database, history
<1>10. ASSUME NEW w \in Workers, RefuseOrder(w) PROVE Goal'
  BY <1>10 DEF RefuseOrder, Rollback, Goto, broker, database, history
<1>11. ASSUME NEW w \in Workers, Commit(w) PROVE Goal'
  BY <1>11 DEF Commit, ApplyTransaction, Goto, broker
<1>12. ASSUME NEW w \in Workers, CommitReplyLost(w) PROVE Goal'
  BY <1>12 DEF CommitReplyLost, ApplyTransaction, Disturb, Restart, Goto
<1>13. ASSUME NEW w \in Workers, MarkProcessed(w) PROVE Goal'
  BY <1>13 DEF MarkProcessed, SetInbox, Goto, broker, history
<1>14. ASSUME NEW w \in Workers, MarkFailed(w) PROVE Goal'
  BY <1>14 DEF MarkFailed, SetInbox, Goto, broker, history
<1>15. ASSUME NEW w \in Workers, Ack(w) PROVE Goal'
  BY <1>15 DEF Ack, Settle, Goto, database, history
<1>16. ASSUME NEW w \in Workers, Nack(w) PROVE Goal'
  BY <1>16 DEF Nack, Settle, Goto, database, history
<1>17. ASSUME NEW w \in Workers, ReserveFails(w) PROVE Goal'
  BY <1>17 DEF ReserveFails, DbFault, SetInbox, Goto, broker
<1>18. ASSUME NEW w \in Workers, TxnFails(w) PROVE Goal'
  BY <1>18 DEF TxnFails, DbFault, Rollback, Goto, broker, database
<1>19. ASSUME NEW w \in Workers, MarkProcessedFails(w) PROVE Goal'
  BY <1>19 DEF MarkProcessedFails, DbFault, SetInbox, Goto, broker
<1>20. ASSUME NEW w \in Workers, MarkFailedFails(w) PROVE Goal'
  BY <1>20 DEF MarkFailedFails, DbFault, SetInbox, Goto, broker
<1>21. ASSUME NEW w \in Workers, Crash(w) PROVE Goal'
  BY <1>21 DEF Crash, Disturb, Restart, Rollback, Goto, database
<1>22. ASSUME NEW w \in Workers, CloseChannel(w) PROVE Goal'
  BY <1>22 DEF CloseChannel, Disturb, database
<1> QED
  BY <1>0, <1>1, <1>2, <1>3, <1>4, <1>5, <1>6, <1>7, <1>8, <1>9, <1>10, <1>11,
    <1>12, <1>13, <1>14, <1>15, <1>16, <1>17, <1>18, <1>19, <1>20, <1>21,
    <1>22
     DEF Next, WorkerStep, FaultStep, Terminating

\* What an open transaction holds: its stock row and its order id.
LEMMA TransactionStep ==
  ASSUME IInv, [Next]_vars, TypeOK'
  PROVE  RowsHeld' /\ OrdersHeld'
<1> DEFINE Goal == RowsHeld /\ OrdersHeld
<1> USE EventFields
    DEF IInv, RowsHeld, OrdersHeld, InTransaction, Product, Quantity, OrderId,
        Handling, ChargedByOwner, OwningStages, TypeOK
<1>1. CASE UNCHANGED vars
  BY <1>1 DEF vars, broker, process, database, history
<1>0. ASSUME NEW o \in OrderIds, PlaceOrder(o) PROVE Goal'
  BY <1>0 DEF PlaceOrder, OrderId, broker, process, history
<1>2. ASSUME NEW m \in Messages, Publish(m) PROVE Goal'
  BY <1>2 DEF Publish, process, database, history
<1>3. ASSUME NEW w \in Workers, NEW m \in Messages, Deliver(w, m) PROVE Goal'
  BY <1>3 DEF Deliver, database, history
<1>4. ASSUME NEW w \in Workers, NEW m \in Messages, RejectMalformed(w, m) PROVE Goal'
  BY <1>4 DEF RejectMalformed, process, database, history
<1>5. ASSUME NEW w \in Workers, Reserve(w) PROVE Goal'
  BY <1>5 DEF Reserve, SetInbox, Goto, broker, history
<1>6. ASSUME NEW w \in Workers, Skip(w) PROVE Goal'
  BY <1>6 DEF Skip, Goto, broker, database, history
<1>7. ASSUME NEW w \in Workers, UpdateStock(w) PROVE Goal'
  BY <1>7 DEF UpdateStock, RowLocked, Goto, broker, database, history
<1>8. ASSUME NEW w \in Workers, RefuseStock(w) PROVE Goal'
  BY <1>8 DEF RefuseStock, Goto, broker, database, history
<1>9. ASSUME NEW w \in Workers, InsertOrder(w) PROVE Goal'
  BY <1>9 DEF InsertOrder, OrderPending, Goto, broker, database, history
<1>10. ASSUME NEW w \in Workers, RefuseOrder(w) PROVE Goal'
  BY <1>10 DEF RefuseOrder, Rollback, Goto, broker, database, history
<1>11. ASSUME NEW w \in Workers, Commit(w) PROVE Goal'
  BY <1>11 DEF Commit, ApplyTransaction, Goto, broker
<1>12. ASSUME NEW w \in Workers, CommitReplyLost(w) PROVE Goal'
  BY <1>12 DEF CommitReplyLost, ApplyTransaction, Disturb, Restart, Goto
<1>13. ASSUME NEW w \in Workers, MarkProcessed(w) PROVE Goal'
  BY <1>13 DEF MarkProcessed, SetInbox, Goto, broker, history
<1>14. ASSUME NEW w \in Workers, MarkFailed(w) PROVE Goal'
  BY <1>14 DEF MarkFailed, SetInbox, Goto, broker, history
<1>15. ASSUME NEW w \in Workers, Ack(w) PROVE Goal'
  BY <1>15 DEF Ack, Settle, Goto, database, history
<1>16. ASSUME NEW w \in Workers, Nack(w) PROVE Goal'
  BY <1>16 DEF Nack, Settle, Goto, database, history
<1>17. ASSUME NEW w \in Workers, ReserveFails(w) PROVE Goal'
  BY <1>17 DEF ReserveFails, DbFault, SetInbox, Goto, broker
<1>18. ASSUME NEW w \in Workers, TxnFails(w) PROVE Goal'
  BY <1>18 DEF TxnFails, DbFault, Rollback, Goto, broker, database
<1>19. ASSUME NEW w \in Workers, MarkProcessedFails(w) PROVE Goal'
  BY <1>19 DEF MarkProcessedFails, DbFault, SetInbox, Goto, broker
<1>20. ASSUME NEW w \in Workers, MarkFailedFails(w) PROVE Goal'
  BY <1>20 DEF MarkFailedFails, DbFault, SetInbox, Goto, broker
<1>21. ASSUME NEW w \in Workers, Crash(w) PROVE Goal'
  BY <1>21 DEF Crash, Disturb, Restart, Rollback, Goto, database
<1>22. ASSUME NEW w \in Workers, CloseChannel(w) PROVE Goal'
  BY <1>22 DEF CloseChannel, Disturb, database
<1> QED
  BY <1>0, <1>1, <1>2, <1>3, <1>4, <1>5, <1>6, <1>7, <1>8, <1>9, <1>10, <1>11,
    <1>12, <1>13, <1>14, <1>15, <1>16, <1>17, <1>18, <1>19, <1>20, <1>21,
    <1>22
     DEF Next, WorkerStep, FaultStep, Terminating

\* What is charged, paid and marked PROCESSED.
LEMMA LedgerStep ==
  ASSUME IInv, [Next]_vars, TypeOK'
  PROVE  OrderChargedOnce' /\ ProcessedMeansPaid'
<1> DEFINE Goal == OrderChargedOnce /\ ProcessedMeansPaid
<1> USE EventFields
    DEF IInv, OrderChargedOnce, ProcessedMeansPaid, OrdersHeld, OrderId,
        ChargedByOwner, Reserved, OwningStages, Handling, TypeOK
<1>1. CASE UNCHANGED vars
  BY <1>1 DEF vars, broker, process, database, history
<1>0. ASSUME NEW o \in OrderIds, PlaceOrder(o) PROVE Goal'
  BY <1>0 DEF PlaceOrder, OrderId, broker, process, history
<1>2. ASSUME NEW m \in Messages, Publish(m) PROVE Goal'
  BY <1>2 DEF Publish, process, database, history
<1>3. ASSUME NEW w \in Workers, NEW m \in Messages, Deliver(w, m) PROVE Goal'
  BY <1>3 DEF Deliver, database, history
<1>4. ASSUME NEW w \in Workers, NEW m \in Messages, RejectMalformed(w, m) PROVE Goal'
  BY <1>4 DEF RejectMalformed, process, database, history
<1>5. ASSUME NEW w \in Workers, Reserve(w) PROVE Goal'
  BY <1>5 DEF Reserve, SetInbox, Goto, broker, history
<1>6. ASSUME NEW w \in Workers, Skip(w) PROVE Goal'
  BY <1>6 DEF Skip, Goto, broker, database, history
<1>7. ASSUME NEW w \in Workers, UpdateStock(w) PROVE Goal'
  BY <1>7 DEF UpdateStock, RowLocked, Goto, broker, database, history
<1>8. ASSUME NEW w \in Workers, RefuseStock(w) PROVE Goal'
  BY <1>8 DEF RefuseStock, Goto, broker, database, history
<1>9. ASSUME NEW w \in Workers, InsertOrder(w) PROVE Goal'
  BY <1>9 DEF InsertOrder, OrderPending, Goto, broker, database, history
<1>10. ASSUME NEW w \in Workers, RefuseOrder(w) PROVE Goal'
  BY <1>10 DEF RefuseOrder, Rollback, Goto, broker, database, history
<1>11. ASSUME NEW w \in Workers, Commit(w) PROVE Goal'
  BY <1>11 DEF Commit, ApplyTransaction, Goto, broker
<1>12. ASSUME NEW w \in Workers, CommitReplyLost(w) PROVE Goal'
  BY <1>12 DEF CommitReplyLost, ApplyTransaction, Disturb, Restart, Goto
<1>13. ASSUME NEW w \in Workers, MarkProcessed(w) PROVE Goal'
  BY <1>13 DEF MarkProcessed, SetInbox, Goto, broker, history
<1>14. ASSUME NEW w \in Workers, MarkFailed(w) PROVE Goal'
  BY <1>14 DEF MarkFailed, SetInbox, Goto, broker, history
<1>15. ASSUME NEW w \in Workers, Ack(w) PROVE Goal'
  BY <1>15 DEF Ack, Settle, Goto, database, history
<1>16. ASSUME NEW w \in Workers, Nack(w) PROVE Goal'
  BY <1>16 DEF Nack, Settle, Goto, database, history
<1>17. ASSUME NEW w \in Workers, ReserveFails(w) PROVE Goal'
  BY <1>17 DEF ReserveFails, DbFault, SetInbox, Goto, broker
<1>18. ASSUME NEW w \in Workers, TxnFails(w) PROVE Goal'
  BY <1>18 DEF TxnFails, DbFault, Rollback, Goto, broker, database
<1>19. ASSUME NEW w \in Workers, MarkProcessedFails(w) PROVE Goal'
  BY <1>19 DEF MarkProcessedFails, DbFault, SetInbox, Goto, broker
<1>20. ASSUME NEW w \in Workers, MarkFailedFails(w) PROVE Goal'
  BY <1>20 DEF MarkFailedFails, DbFault, SetInbox, Goto, broker
<1>21. ASSUME NEW w \in Workers, Crash(w) PROVE Goal'
  BY <1>21 DEF Crash, Disturb, Restart, Rollback, Goto, database
<1>22. ASSUME NEW w \in Workers, CloseChannel(w) PROVE Goal'
  BY <1>22 DEF CloseChannel, Disturb, database
<1> QED
  BY <1>0, <1>1, <1>2, <1>3, <1>4, <1>5, <1>6, <1>7, <1>8, <1>9, <1>10, <1>11,
    <1>12, <1>13, <1>14, <1>15, <1>16, <1>17, <1>18, <1>19, <1>20, <1>21,
    <1>22
     DEF Next, WorkerStep, FaultStep, Terminating

\* What is marked FAILED and dead-lettered while the database works.
LEMMA FailureStep ==
  ASSUME IInv, [Next]_vars, TypeOK'
  PROVE  FailuresMarked' /\ DeadLetterHonest'
<1> DEFINE Goal == FailuresMarked /\ DeadLetterHonest
<1> USE EventFields, BoundAssumption
    DEF IInv, FailuresMarked, DeadLetterHonest, ChargedByOwner, OneOwner,
        Reserved, OwningStages, Handling, TypeOK
<1>1. CASE UNCHANGED vars
  BY <1>1 DEF vars, broker, process, database, history
<1>0. ASSUME NEW o \in OrderIds, PlaceOrder(o) PROVE Goal'
  BY <1>0 DEF PlaceOrder, OrderId, broker, process, history
<1>2. ASSUME NEW m \in Messages, Publish(m) PROVE Goal'
  BY <1>2 DEF Publish, process, database, history
<1>3. ASSUME NEW w \in Workers, NEW m \in Messages, Deliver(w, m) PROVE Goal'
  BY <1>3 DEF Deliver, database, history
<1>4. ASSUME NEW w \in Workers, NEW m \in Messages, RejectMalformed(w, m) PROVE Goal'
  BY <1>4 DEF RejectMalformed, process, database, history
<1>5. ASSUME NEW w \in Workers, Reserve(w) PROVE Goal'
  BY <1>5 DEF Reserve, SetInbox, Goto, broker, history
<1>6. ASSUME NEW w \in Workers, Skip(w) PROVE Goal'
  BY <1>6 DEF Skip, Goto, broker, database, history
<1>7. ASSUME NEW w \in Workers, UpdateStock(w) PROVE Goal'
  BY <1>7 DEF UpdateStock, RowLocked, Goto, broker, database, history
<1>8. ASSUME NEW w \in Workers, RefuseStock(w) PROVE Goal'
  BY <1>8 DEF RefuseStock, Goto, broker, database, history
<1>9. ASSUME NEW w \in Workers, InsertOrder(w) PROVE Goal'
  BY <1>9 DEF InsertOrder, OrderPending, Goto, broker, database, history
<1>10. ASSUME NEW w \in Workers, RefuseOrder(w) PROVE Goal'
  BY <1>10 DEF RefuseOrder, Rollback, Goto, broker, database, history
<1>11. ASSUME NEW w \in Workers, Commit(w) PROVE Goal'
  BY <1>11 DEF Commit, ApplyTransaction, Goto, broker
<1>12. ASSUME NEW w \in Workers, CommitReplyLost(w) PROVE Goal'
  BY <1>12 DEF CommitReplyLost, ApplyTransaction, Disturb, Restart, Goto
<1>13. ASSUME NEW w \in Workers, MarkProcessed(w) PROVE Goal'
  BY <1>13 DEF MarkProcessed, SetInbox, Goto, broker, history
<1>14. ASSUME NEW w \in Workers, MarkFailed(w) PROVE Goal'
  BY <1>14 DEF MarkFailed, SetInbox, Goto, broker, history
<1>15. ASSUME NEW w \in Workers, Ack(w) PROVE Goal'
  BY <1>15 DEF Ack, Settle, Goto, database, history
<1>16. ASSUME NEW w \in Workers, Nack(w) PROVE Goal'
  BY <1>16 DEF Nack, Settle, Goto, database, history
<1>17. ASSUME NEW w \in Workers, ReserveFails(w) PROVE Goal'
  BY <1>17 DEF ReserveFails, DbFault, SetInbox, Goto, broker
<1>18. ASSUME NEW w \in Workers, TxnFails(w) PROVE Goal'
  BY <1>18 DEF TxnFails, DbFault, Rollback, Goto, broker, database
<1>19. ASSUME NEW w \in Workers, MarkProcessedFails(w) PROVE Goal'
  BY <1>19 DEF MarkProcessedFails, DbFault, SetInbox, Goto, broker
<1>20. ASSUME NEW w \in Workers, MarkFailedFails(w) PROVE Goal'
  BY <1>20 DEF MarkFailedFails, DbFault, SetInbox, Goto, broker
<1>21. ASSUME NEW w \in Workers, Crash(w) PROVE Goal'
  BY <1>21 DEF Crash, Disturb, Restart, Rollback, Goto, database
<1>22. ASSUME NEW w \in Workers, CloseChannel(w) PROVE Goal'
  BY <1>22 DEF CloseChannel, Disturb, database
<1> QED
  BY <1>0, <1>1, <1>2, <1>3, <1>4, <1>5, <1>6, <1>7, <1>8, <1>9, <1>10, <1>11,
    <1>12, <1>13, <1>14, <1>15, <1>16, <1>17, <1>18, <1>19, <1>20, <1>21,
    <1>22
     DEF Next, WorkerStep, FaultStep, Terminating

\* IInv is inductive.
\* Where the copies of a message are: a step that ends one delivery of it
\* leaves another copy, a charge, a dead letter, or a crash and an inbox row.
LEMMA CustodyStep ==
  ASSUME IInv, [Next]_vars, TypeOK'
  PROVE  ChannelsOpen' /\ OwnerRemains' /\ Accounted'
<1> DEFINE Goal == ChannelsOpen /\ OwnerRemains /\ Accounted
<1> SUFFICES Goal'
  OBVIOUS
<1> USE NoMessageAssumption, BoundAssumption
    DEF IInv, TypeOK, Stages, Handling, ChannelsOpen, OwnerRemains, Accounted,
        OwningStages, Goto
<1>1. CASE UNCHANGED vars
  BY <1>1 DEF vars, broker, process, database, history
<1>0. ASSUME NEW o \in OrderIds, PlaceOrder(o) PROVE Goal'
  BY <1>0 DEF PlaceOrder, broker, process, history
<1>2. ASSUME NEW m \in Messages, Publish(m) PROVE Goal'
  BY <1>2 DEF Publish, process, database, history
<1>3. ASSUME NEW w \in Workers, NEW m \in Messages, Deliver(w, m) PROVE Goal'
  BY <1>3 DEF Deliver, database, history
<1>4. ASSUME NEW w \in Workers, NEW m \in Messages, RejectMalformed(w, m)
      PROVE Goal'
  BY <1>4 DEF RejectMalformed, process, database, history
<1>5. ASSUME NEW w \in Workers, Reserve(w) PROVE Goal'
  BY <1>5, BusyHasMessage DEF Reserve, SetInbox, broker, history
<1>6. ASSUME NEW w \in Workers, Skip(w) PROVE Goal'
  BY <1>6 DEF Skip, broker, database, history
<1>7. ASSUME NEW w \in Workers,
             UpdateStock(w) \/ RefuseStock(w) \/ InsertOrder(w) \/ RefuseOrder(w)
      PROVE Goal'
  BY <1>7 DEF UpdateStock, RefuseStock, InsertOrder, RefuseOrder, broker,
              database, history
<1>8. ASSUME NEW w \in Workers, Commit(w) PROVE Goal'
  BY <1>8, BusyHasMessage DEF Commit, ApplyTransaction, broker
<1>9. ASSUME NEW w \in Workers, MarkProcessed(w) \/ MarkFailed(w) PROVE Goal'
  BY <1>9, BusyHasMessage
     DEF MarkProcessed, MarkFailed, SetInbox, ChargedByOwner, broker, history
<1>10. ASSUME NEW w \in Workers, Ack(w) PROVE Goal'
  BY <1>10, BusyHasMessage DEF Ack, Settle, database, history
<1>11. ASSUME NEW w \in Workers, Nack(w) PROVE Goal'
  BY <1>11, BusyHasMessage DEF Nack, Settle, database, history
<1>12. ASSUME NEW w \in Workers,
              \/ ReserveFails(w) \/ TxnFails(w)
              \/ MarkProcessedFails(w) \/ MarkFailedFails(w)
       PROVE Goal'
  BY <1>12, BusyHasMessage
     DEF ReserveFails, TxnFails, MarkProcessedFails, MarkFailedFails, DbFault,
         SetInbox, broker, database
<1>13. ASSUME NEW w \in Workers, Crash(w) PROVE Goal'
  BY <1>13, BusyHasMessage DEF Crash, Disturb, Restart, database
<1>14. ASSUME NEW w \in Workers, CloseChannel(w) PROVE Goal'
  BY <1>14, BusyHasMessage DEF CloseChannel, Disturb, database
<1>15. ASSUME NEW w \in Workers, CommitReplyLost(w) PROVE Goal'
  BY <1>15, BusyHasMessage DEF CommitReplyLost, ApplyTransaction, Disturb, Restart
<1> QED
  BY <1>0, <1>1, <1>2, <1>3, <1>4, <1>5, <1>6, <1>7, <1>8, <1>9, <1>10, <1>11,
     <1>12, <1>13, <1>14, <1>15
     DEF Next, WorkerStep, FaultStep, Terminating

LEMMA InvStep ==
  ASSUME IInv, [Next]_vars
  PROVE  IInv'
<1>1. TypeOK'
  BY TypeStep DEF IInv
<1> QED
  BY <1>1, OwnershipStep, TransactionStep, LedgerStep, FailureStep, CustodyStep
     DEF IInv

THEOREM Invariance == Spec => []IInv
  BY InvInit, InvStep, PTL DEF Spec

-----------------------------------------------------------------------------
(* The safety properties.                                                  *)

\* Every variable keeps its type: no stock is ever negative, whatever the
\* quantities in the events are.
THEOREM TypeCorrect == Spec => []TypeOK
<1>1. IInv => TypeOK
  BY DEF IInv
<1> QED
  BY <1>1, Invariance, PTL

\* Of all deliveries of a message at most one runs the transaction.
THEOREM ReservationExcludes == Spec => []OneOwner
<1>1. IInv => OneOwner
  BY DEF IInv
<1> QED
  BY <1>1, Invariance, PTL

\* Stock is deducted at most once per order.
THEOREM NoDoubleCharge == Spec => []OrderChargedOnce
<1>1. IInv => OrderChargedOnce
  BY DEF IInv
<1> QED
  BY <1>1, Invariance, PTL

\* A PROCESSED inbox row stands for a committed transaction.
THEOREM ProcessedIsTrue == Spec => []ProcessedMeansPaid
<1>1. IInv => ProcessedMeansPaid
  BY DEF IInv
<1> QED
  BY <1>1, Invariance, PTL

\* While no SQL call fails, dead letters may be resubmitted.
THEOREM DeadLettersAreHonest == Spec => []DeadLetterHonest
<1>1. IInv => DeadLetterHonest
  BY DEF IInv
<1> QED
  BY <1>1, Invariance, PTL

\* A message vanishes only after a crash or a closed channel, and its inbox row
\* still tells, for any number of copies and competing workers.
THEOREM LossLeavesTrace == Spec => []LostLeavesTrace
<1>1. IInv => LostLeavesTrace
  <2> SUFFICES ASSUME IInv, NEW m \in Messages, Lost(m)
               PROVE  crashes > 0 /\ inbox[m] \in {"PROCESSING", "FAILED"}
    BY DEF LostLeavesTrace
  <2>1. crashes > 0 /\ inbox[m] # "absent"
    BY DEF IInv, Accounted, TypeOK, Lost, Held
  <2>2. inbox[m] # "PROCESSED"
    BY DEF IInv, ProcessedMeansPaid, Lost
  <2> QED
    BY <2>1, <2>2 DEF IInv, TypeOK
<1> QED
  BY <1>1, Invariance, PTL

\* Only COMMIT changes stock or the history of charges.
LEMMA OnlyCommitCharges ==
  ASSUME [Next]_vars
  PROVE  \/ UNCHANGED <<stock, applied>>
         \/ \E w \in Workers : pc[w] = "commit" /\ ApplyTransaction(w)
  BY DEF Next, WorkerStep, FaultStep, Terminating, vars, broker, process,
         database, history, PlaceOrder, Publish, Deliver, RejectMalformed, Reserve, Skip,
         UpdateStock, RefuseStock, InsertOrder, RefuseOrder, Commit,
         MarkProcessed, MarkFailed, Settle, Ack, Nack, ReserveFails, TxnFails,
         CommitReplyLost, MarkProcessedFails, MarkFailedFails, Crash,
         CloseChannel

\* What a COMMIT does to the committed state.
LEMMA CommitEffect ==
  ASSUME IInv, NEW w \in Workers, pc[w] = "commit", ApplyTransaction(w)
  PROVE  /\ msg[w] \in Messages
         /\ Product(w) \in Inventory
         /\ Quantity(w) \in Nat \ {0}
         /\ stock[Product(w)] >= Quantity(w)
         /\ stock' = [stock EXCEPT ![Product(w)] = @ - Quantity(w)]
         /\ applied[msg[w]] = 0
         /\ applied' = [applied EXCEPT ![msg[w]] = 1]
<1>1. msg[w] \in Messages
  BY BusyHasMessage DEF IInv
<1>2. /\ Product(w) \in Inventory
      /\ newStock[w] = stock[Product(w)] - Quantity(w)
  BY DEF IInv, RowsHeld, InTransaction
<1>3. Quantity(w) \in Nat \ {0}
  BY <1>1, EventFields DEF IInv, OrdersHeld, Quantity
<1>4. stock[Product(w)] >= Quantity(w)
  <2>1. newStock[w] \in Nat /\ stock[Product(w)] \in Nat
    BY <1>2 DEF IInv, TypeOK
  <2> QED
    BY <1>2, <1>3, <2>1
<1>5. applied[msg[w]] = 0
  BY DEF IInv, ChargedByOwner
<1> QED
  BY <1>1, <1>2, <1>3, <1>4, <1>5 DEF ApplyTransaction, IInv, TypeOK

\* No event raises a stock.
THEOREM StockOnlyShrinks == Spec => StockNeverGrows
<1>1. IInv /\ [Next]_vars => [\A p \in Inventory : stock'[p] <= stock[p]]_vars
  <2> SUFFICES ASSUME IInv, [Next]_vars, NEW p \in Inventory
               PROVE  stock'[p] <= stock[p]
    OBVIOUS
  <2>1. stock[p] \in Nat
    BY DEF IInv, TypeOK
  <2>2. CASE UNCHANGED <<stock, applied>>
    BY <2>1, <2>2
  <2>3. ASSUME NEW w \in Workers, pc[w] = "commit", ApplyTransaction(w)
        PROVE  stock'[p] <= stock[p]
    BY <2>1, <2>3, CommitEffect DEF IInv, TypeOK
  <2> QED
    BY <2>2, <2>3, OnlyCommitCharges
<1> QED
  BY <1>1, Invariance, PTL DEF Spec, StockNeverGrows

\* Only a fresh reservation and the owner's mark calls write the inbox.
LEMMA InboxWriters ==
  ASSUME TypeOK, [Next]_vars, NEW m \in Messages, inbox'[m] # inbox[m]
  PROVE  \E w \in Workers :
           /\ msg[w] = m
           /\ \/ inbox[m] = "absent"
              \/ pc[w] = "markProcessed"
              \/ pc[w] = "markFailed" /\ inbox'[m] = "FAILED"
<1>1. \E w \in Workers :
        \/ Reserve(w) \/ MarkProcessed(w) \/ MarkFailed(w)
        \/ ReserveFails(w) \/ MarkProcessedFails(w) \/ MarkFailedFails(w)
  BY DEF Next, WorkerStep, FaultStep, Terminating, vars, process, database,
         PlaceOrder, Publish, Deliver, RejectMalformed, Skip, UpdateStock, RefuseStock,
         InsertOrder, RefuseOrder, Commit, ApplyTransaction, Settle, Ack, Nack,
         TxnFails, CommitReplyLost, Crash, CloseChannel
<1>2. PICK w \in Workers :
        \/ Reserve(w) \/ MarkProcessed(w) \/ MarkFailed(w)
        \/ ReserveFails(w) \/ MarkProcessedFails(w) \/ MarkFailedFails(w)
  BY <1>1
<1> QED
  BY <1>2 DEF TypeOK, SetInbox, Reserve, MarkProcessed, MarkFailed,
              ReserveFails, MarkProcessedFails, MarkFailedFails

\* A message marked FAILED stays FAILED and is never charged later.
THEOREM FailureStays == Spec => FailureIsFinal
<1>1. IInv /\ [Next]_vars =>
        [\A m \in Messages : inbox[m] = "FAILED" =>
           inbox'[m] = "FAILED" /\ applied'[m] = applied[m]]_vars
  <2> SUFFICES ASSUME IInv, [Next]_vars, NEW m \in Messages, inbox[m] = "FAILED"
               PROVE  inbox'[m] = "FAILED" /\ applied'[m] = applied[m]
    OBVIOUS
  <2>1. ASSUME NEW w \in Workers, pc[w] = "commit", ApplyTransaction(w)
        PROVE  applied'[m] = applied[m]
    <3>1. msg[w] # m
      BY <2>1 DEF IInv, Reserved, OwningStages
    <3> QED
      BY <2>1, <3>1, CommitEffect DEF IInv, TypeOK
  <2>2. applied'[m] = applied[m]
    BY <2>1, OnlyCommitCharges
  <2>3. inbox'[m] = "FAILED"
    <3> SUFFICES ASSUME inbox'[m] # "FAILED" PROVE FALSE
      OBVIOUS
    <3>1. PICK w \in Workers : msg[w] = m /\ pc[w] = "markProcessed"
      BY InboxWriters DEF IInv
    <3> QED
      BY <3>1 DEF IInv, Reserved, OwningStages
  <2> QED
    BY <2>2, <2>3
<1> QED
  BY <1>1, Invariance, PTL DEF Spec, FailureIsFinal

-----------------------------------------------------------------------------
(* The ledger of the stock.                                                *)

ChargedIsFinite == \A p \in Inventory : IsFiniteSet(Charged(p))

\* A COMMIT takes from the stock of its product what it adds to the charges.
LEMMA AccountStep ==
  ASSUME IInv, ChargedIsFinite, StockLedger, [Next]_vars
  PROVE  ChargedIsFinite' /\ StockLedger'
<1>1. CASE UNCHANGED <<stock, applied>>
  BY <1>1 DEF ChargedIsFinite, StockLedger, Charged, charge
<1>2. ASSUME NEW w \in Workers, pc[w] = "commit", ApplyTransaction(w),
             NEW p \in Inventory
      PROVE  /\ IsFiniteSet(Charged(p)')
             /\ stock'[p] + SumFunctionOnSet(charge', Charged(p)') = InitialStock[p]
  <2> DEFINE m == msg[w]
             S == Charged(p)
             f == charge
  <2>1. /\ m \in Messages /\ Product(w) = Event[m].productId
        /\ Quantity(w) = Event[m].quantity /\ Event[m].quantity \in Int
        /\ applied[m] = 0 /\ applied' = [applied EXCEPT ![m] = 1]
        /\ stock' = [stock EXCEPT ![Product(w)] = @ - Quantity(w)]
    BY <1>2, CommitEffect, EventFields DEF Product, Quantity
  <2>2. applied \in [Messages -> Nat] /\ stock \in [Inventory -> Nat]
    BY DEF IInv, TypeOK
  <2>3. /\ IsFiniteSet(S) /\ m \notin S
        /\ stock[p] + SumFunctionOnSet(f, S) = InitialStock[p]
    BY <2>1 DEF ChargedIsFinite, StockLedger, Charged
  <2>4. charge'[m] = Event[m].quantity /\ \A n \in S : charge'[n] = f[n] /\ f[n] \in Int
    <3>1. \A n \in S : n \in Messages /\ n # m
      BY <2>3 DEF Charged
    <3>2. \A n \in S : charge'[n] = f[n]
      BY <2>1, <2>2, <3>1 DEF charge
    <3>3. \A n \in S : f[n] \in Int
      BY <2>2, <3>1, EventFields DEF charge
    <3>4. charge'[m] = 1 * Event[m].quantity
      BY <2>1, <2>2 DEF charge
    <3> QED
      BY <2>1, <3>2, <3>3, <3>4
  <2>5. SumFunctionOnSet(charge', S) = SumFunctionOnSet(f, S)
    <3> HIDE DEF f, S
    <3> QED
      BY <2>3, <2>4, SumAgrees
  <2>6. SumFunctionOnSet(f, S) \in Int
    <3> HIDE DEF f, S
    <3> QED
      BY <2>3, <2>4, SumIsInt
  <2>7. CASE p = Product(w)
    <3>1. Charged(p)' = S \union {m}
      BY <2>1, <2>2, <2>7 DEF Charged
    <3>2. SumFunctionOnSet(charge', S \union {m}) = charge'[m] + SumFunctionOnSet(charge', S)
      <4> HIDE DEF m, S, f
      <4>1. \A n \in S \union {m} : charge'[n] \in Int
        BY <2>1, <2>4
      <4> QED
        BY <2>3, <4>1, SumAdd
    <3>3. IsFiniteSet(S \union {m})
      BY <2>3, FS_AddElement
    <3>4. stock'[p] = stock[p] - Event[m].quantity
      BY <2>1, <2>2, <2>7
    <3>5. stock'[p] + (Event[m].quantity + SumFunctionOnSet(f, S)) = InitialStock[p]
      <4> HIDE DEF m, S, f
      <4> QED
        BY <2>1, <2>2, <2>3, <2>6, <3>4
    <3> HIDE DEF m, S, f
    <3> QED
      BY <2>4, <2>5, <3>1, <3>2, <3>3, <3>5
  <2>8. CASE p # Product(w)
    <3>1. Charged(p)' = S
      BY <2>1, <2>2, <2>8 DEF Charged
    <3>2. stock'[p] = stock[p]
      BY <2>1, <2>2, <2>8
    <3> HIDE DEF S, f
    <3> QED
      BY <2>3, <2>5, <3>1, <3>2
  <2> QED
    BY <2>7, <2>8
<1> QED
  BY <1>1, <1>2, OnlyCommitCharges DEF ChargedIsFinite, StockLedger

\* Stock and the charged quantities always add up to the initial stock, for
\* any number of messages: no deduction is lost or doubled by concurrent
\* transactions, rollbacks, lost replies or crashes (updateInventoryStock).
THEOREM StockIsAccounted == Spec => []StockLedger
<1>1. Init => ChargedIsFinite /\ StockLedger
  <2> SUFFICES ASSUME Init, NEW p \in Inventory
               PROVE  /\ IsFiniteSet(Charged(p))
                      /\ stock[p] + SumFunctionOnSet(charge, Charged(p)) = InitialStock[p]
    BY DEF ChargedIsFinite, StockLedger
  <2>1. Charged(p) = {}
    BY DEF Init, Charged
  <2>2. InitialStock[p] \in Nat /\ stock[p] = InitialStock[p]
    BY StockAssumption DEF Init
  <2> QED
    BY <2>1, <2>2, SumOfNone, FS_EmptySet
<1> QED
  BY <1>1, AccountStep, Invariance, PTL DEF Spec

-----------------------------------------------------------------------------
(* Queue, inbox, transactions and failures implement the atomic ledger.    *)

\* A COMMIT is the ledger's Charge; everything else is a stutter.
THEOREM LedgerRefinement == Spec => ImplementsLedger
<1> DEFINE charged == {m \in Messages : applied[m] > 0}
<1>1. Init => Ledger!Init
  BY DEF Init, Ledger!Init
<1>2. IInv /\ [Next]_vars => [Ledger!Next]_(Ledger!vars)
  <2> SUFFICES ASSUME IInv, [Next]_vars
               PROVE  Ledger!Next \/ UNCHANGED <<stock, charged>>
    BY DEF Ledger!vars
  <2>1. CASE UNCHANGED <<stock, applied>>
    BY <2>1
  <2>2. ASSUME NEW w \in Workers, pc[w] = "commit", ApplyTransaction(w)
        PROVE  Ledger!Next
    <3>a. PICK m \in Messages : m = msg[w]
      BY <2>2, CommitEffect
    <3>1. charged' = charged \union {msg[w]}
      BY <2>2, CommitEffect DEF IInv, TypeOK
    <3>2. \A n \in charged : Event[n].orderId # Event[msg[w]].orderId
      <4>1. orders[OrderId(w)] = "absent"
        BY <2>2 DEF IInv, OrdersHeld
      <4> QED
        BY <4>1 DEF IInv, OrderChargedOnce, OrderId
    <3>3. msg[w] \notin charged
      BY <2>2, CommitEffect
    <3>4. Ledger!Charge(m)
      BY <2>2, <3>a, <3>1, <3>2, <3>3, CommitEffect
         DEF Ledger!Charge, Product, Quantity
    <3> QED
      BY <3>4 DEF Ledger!Next
  <2> QED
    BY <2>1, <2>2, OnlyCommitCharges
<1> QED
  BY <1>1, <1>2, Invariance, PTL DEF Spec, ImplementsLedger, Ledger!Spec

==============================================================================

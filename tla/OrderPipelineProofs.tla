------------------------- MODULE OrderPipelineProofs -------------------------
(***************************************************************************)
(* Theorems about OrderPipeline for any requests, workers, events, stock   *)
(* and numbers of failures.  The lemmas about the components come from     *)
(* their own proof modules, instantiated as OrderPipeline instantiates the *)
(* components.                                                             *)
(***************************************************************************)
EXTENDS OrderPipeline, TLAPS

IntakeProofs == INSTANCE OrderOutboxProofs WITH
                  Valid <- {r \in Requests : Event[r].quantity > 0},
                  Catalogs <- {Catalog},
                  RequestHasUser <- TRUE,
                  MonotoneClock <- FALSE,
                  MaxDbFaults <- MaxServiceDbFaults,
                  MaxCrashes <- MaxServiceCrashes,
                  MaxFaults <- MaxServiceDbFaults + MaxCloses + MaxServiceCrashes,
                  channel <- osChannel,
                  order <- orders,
                  delivered <- published,
                  dbFaults <- osDbFaults,
                  crashes <- osCrashes

WorkerProofs == INSTANCE InventoryWorkerProofs WITH
                  Messages <- Requests,
                  OrderIds <- Requests

\* The two instances of the order service are one specification.
LEMMA SameIntake ==
  /\ Intake!Init <=> IntakeProofs!Init
  /\ [Intake!Next]_(Intake!vars) <=> [IntakeProofs!Next]_(IntakeProofs!vars)
  /\ Intake!IInv <=> IntakeProofs!IInv
<1>1. Intake!Init <=> IntakeProofs!Init
  BY DEF Intake!Init, Intake!NoBuffer, IntakeProofs!Init,
         IntakeProofs!NoBuffer
<1>2. [Intake!Next]_(Intake!vars) <=> [IntakeProofs!Next]_(IntakeProofs!vars)
  BY DEF Intake!Next, Intake!Fault, Intake!RunStep, Intake!HandlerStep,
         Intake!Receive, Intake!Flush, Intake!BindQueue, Intake!vars,
         Intake!http, Intake!outbox, Intake!ticking, Intake!amqp,
         Intake!context, Intake!Answer, Intake!Outcomes, Intake!InsertOrder,
         Intake!RefuseOrder, Intake!InsertOrderFails, Intake!Stored,
         Intake!StoreEvent, Intake!CreateEvent, Intake!CreateEventFails,
         Intake!SetRun, Intake!SetEvent, Intake!NextRow, Intake!Tick,
         Intake!PendingBatch, Intake!Fetch, Intake!FetchFails,
         Intake!PublishEvent, Intake!PublishThrows, Intake!MarkPublished,
         Intake!MarkPublishedFails, Intake!MarkFailed,
         Intake!MarkFailedFails, Intake!NoBuffer, Intake!CloseChannel,
         Intake!Crash, Intake!DbFault, Intake!FaultsLeft,
         Intake!Cardinality, Intake!IsFiniteSet, Intake!Oldest, Intake!Row,
         Intake!canTransitionOrderStatus, Intake!ORDER_TRANSITIONS,
         Intake!OrderStatuses, IntakeProofs!Next, IntakeProofs!Fault,
         IntakeProofs!RunStep, IntakeProofs!HandlerStep,
         IntakeProofs!Receive, IntakeProofs!Flush, IntakeProofs!BindQueue,
         IntakeProofs!vars, IntakeProofs!http, IntakeProofs!outbox,
         IntakeProofs!ticking, IntakeProofs!amqp, IntakeProofs!context,
         IntakeProofs!Answer, IntakeProofs!Outcomes,
         IntakeProofs!InsertOrder, IntakeProofs!RefuseOrder,
         IntakeProofs!InsertOrderFails, IntakeProofs!Stored,
         IntakeProofs!StoreEvent, IntakeProofs!CreateEvent,
         IntakeProofs!CreateEventFails, IntakeProofs!SetRun,
         IntakeProofs!SetEvent, IntakeProofs!NextRow, IntakeProofs!Tick,
         IntakeProofs!PendingBatch, IntakeProofs!Fetch,
         IntakeProofs!FetchFails, IntakeProofs!PublishEvent,
         IntakeProofs!PublishThrows, IntakeProofs!MarkPublished,
         IntakeProofs!MarkPublishedFails, IntakeProofs!MarkFailed,
         IntakeProofs!MarkFailedFails, IntakeProofs!NoBuffer,
         IntakeProofs!CloseChannel, IntakeProofs!Crash,
         IntakeProofs!DbFault, IntakeProofs!FaultsLeft,
         IntakeProofs!Cardinality, IntakeProofs!IsFiniteSet,
         IntakeProofs!Oldest, IntakeProofs!Row,
         IntakeProofs!canTransitionOrderStatus,
         IntakeProofs!ORDER_TRANSITIONS, IntakeProofs!OrderStatuses
<1>3. Intake!IInv <=> IntakeProofs!IInv
  BY DEF Intake!IInv, Intake!TypeOK, Intake!Progress,
         Intake!AcceptedIsDurable, Intake!RowsStored, Intake!Stored,
         Intake!Orphans, Intake!OrphanNeedsFault, Intake!OneRun,
         Intake!SendsArePaid, Intake!Sendable, Intake!Marking,
         Intake!ResendNeedsFault, Intake!SendsRecorded,
         Intake!Cardinality, Intake!IsFiniteSet,
         Intake!HandlerStages, Intake!Answered, Intake!RunStages,
         Intake!Oldest, Intake!Row, Intake!OrderStatuses, IntakeProofs!IInv,
         IntakeProofs!TypeOK, IntakeProofs!Progress,
         IntakeProofs!AcceptedIsDurable, IntakeProofs!RowsStored,
         IntakeProofs!Stored, IntakeProofs!Orphans,
         IntakeProofs!OrphanNeedsFault, IntakeProofs!OneRun,
         IntakeProofs!SendsArePaid, IntakeProofs!Sendable,
         IntakeProofs!Marking, IntakeProofs!ResendNeedsFault,
         IntakeProofs!SendsRecorded,
         IntakeProofs!Cardinality, IntakeProofs!IsFiniteSet,
         IntakeProofs!HandlerStages, IntakeProofs!Answered,
         IntakeProofs!RunStages, IntakeProofs!Oldest, IntakeProofs!Row,
         IntakeProofs!OrderStatuses
<1> QED
  BY <1>1, <1>2, <1>3

\* So are those of the worker.
LEMMA SameWorker ==
  /\ Worker!Init <=> WorkerProofs!Init
  /\ [Worker!Next]_(Worker!vars) <=> [WorkerProofs!Next]_(WorkerProofs!vars)
  /\ Worker!IInv <=> WorkerProofs!IInv
<1>1. Worker!Init <=> WorkerProofs!Init
  BY DEF Worker!Init, WorkerProofs!Init
<1>2. [Worker!Next]_(Worker!vars) <=> [WorkerProofs!Next]_(WorkerProofs!vars)
  BY DEF Worker!Next, Worker!PlaceOrder, Worker!Publish, Worker!WorkerStep,
         Worker!FaultStep, Worker!Terminating, Worker!vars, Worker!broker,
         Worker!process, Worker!database, Worker!history, Worker!Acceptable,
         Worker!Deliver, Worker!RejectMalformed, Worker!Goto,
         Worker!Rollback, Worker!SetInbox, Worker!Reserve, Worker!Skip,
         Worker!UpdateStock, Worker!RefuseStock, Worker!OrderPending,
         Worker!InsertOrder, Worker!RefuseOrder, Worker!ApplyTransaction,
         Worker!Commit, Worker!MarkProcessed, Worker!MarkFailed,
         Worker!Settle, Worker!Ack, Worker!Nack, Worker!DbFault,
         Worker!ReserveFails, Worker!TxnFails, Worker!CommitReplyLost,
         Worker!MarkProcessedFails, Worker!MarkFailedFails, Worker!Disturb,
         Worker!Restart, Worker!Crash, Worker!CloseChannel, Worker!OrderId, Worker!Product,
         Worker!Quantity, Worker!InTransaction, Worker!RowLocked,
         Worker!canTransitionOrderStatus, Worker!ORDER_TRANSITIONS,
         Worker!OrderStatuses, WorkerProofs!Next, WorkerProofs!PlaceOrder,
         WorkerProofs!Publish, WorkerProofs!WorkerStep,
         WorkerProofs!FaultStep, WorkerProofs!Terminating,
         WorkerProofs!vars, WorkerProofs!broker, WorkerProofs!process,
         WorkerProofs!database, WorkerProofs!history,
         WorkerProofs!Acceptable, WorkerProofs!Deliver,
         WorkerProofs!RejectMalformed, WorkerProofs!Goto,
         WorkerProofs!Rollback, WorkerProofs!SetInbox, WorkerProofs!Reserve,
         WorkerProofs!Skip, WorkerProofs!UpdateStock,
         WorkerProofs!RefuseStock, WorkerProofs!OrderPending,
         WorkerProofs!InsertOrder, WorkerProofs!RefuseOrder,
         WorkerProofs!ApplyTransaction, WorkerProofs!Commit,
         WorkerProofs!MarkProcessed, WorkerProofs!MarkFailed,
         WorkerProofs!Settle, WorkerProofs!Ack, WorkerProofs!Nack,
         WorkerProofs!DbFault, WorkerProofs!ReserveFails,
         WorkerProofs!TxnFails, WorkerProofs!CommitReplyLost,
         WorkerProofs!MarkProcessedFails, WorkerProofs!MarkFailedFails,
         WorkerProofs!Disturb, WorkerProofs!Restart, WorkerProofs!Crash,
         WorkerProofs!CloseChannel, WorkerProofs!OrderId,
         WorkerProofs!Product, WorkerProofs!Quantity,
         WorkerProofs!InTransaction, WorkerProofs!RowLocked,
         WorkerProofs!canTransitionOrderStatus,
         WorkerProofs!ORDER_TRANSITIONS, WorkerProofs!OrderStatuses
<1>3. Worker!IInv <=> WorkerProofs!IInv
  BY DEF Worker!IInv, Worker!TypeOK, Worker!Handling, Worker!OneOwner,
         Worker!Reserved, Worker!ChargedByOwner, Worker!RowsHeld,
         Worker!OrdersHeld, Worker!OrderChargedOnce,
         Worker!ProcessedMeansPaid, Worker!FailuresMarked,
         Worker!DeadLetterHonest, Worker!ChannelsOpen, Worker!OwnerRemains,
         Worker!Accounted, Worker!Stages, Worker!OwningStages,
         Worker!OrderId, Worker!Product, Worker!Quantity,
         Worker!InTransaction, Worker!Acceptable,
         Worker!canTransitionOrderStatus, Worker!ORDER_TRANSITIONS,
         Worker!OrderStatuses, WorkerProofs!IInv, WorkerProofs!TypeOK,
         WorkerProofs!Handling, WorkerProofs!OneOwner,
         WorkerProofs!Reserved, WorkerProofs!ChargedByOwner,
         WorkerProofs!RowsHeld, WorkerProofs!OrdersHeld,
         WorkerProofs!OrderChargedOnce, WorkerProofs!ProcessedMeansPaid,
         WorkerProofs!FailuresMarked, WorkerProofs!DeadLetterHonest,
         WorkerProofs!ChannelsOpen, WorkerProofs!OwnerRemains,
         WorkerProofs!Accounted, WorkerProofs!Stages,
         WorkerProofs!OwningStages, WorkerProofs!OrderId,
         WorkerProofs!Product, WorkerProofs!Quantity,
         WorkerProofs!InTransaction, WorkerProofs!Acceptable,
         WorkerProofs!canTransitionOrderStatus,
         WorkerProofs!ORDER_TRANSITIONS, WorkerProofs!OrderStatuses
<1> QED
  BY <1>1, <1>2, <1>3

\* The assumptions of the components hold of their instances.
LEMMA IntakeAssumptions ==
  /\ IntakeProofs!RequestAssumption
  /\ IntakeProofs!BatchAssumption
  /\ IntakeProofs!BoundAssumption
<1>1. IntakeProofs!RequestAssumption
  BY DEF IntakeProofs!RequestAssumption, Catalog
<1>2. IntakeProofs!BatchAssumption
  BY BatchAssumption DEF IntakeProofs!BatchAssumption
<1>3. IntakeProofs!BoundAssumption
  BY BoundAssumption DEF IntakeProofs!BoundAssumption
<1> QED
  BY <1>1, <1>2, <1>3

LEMMA WorkerAssumptions ==
  /\ WorkerProofs!EventAssumption
  /\ WorkerProofs!NoMessageAssumption
  /\ WorkerProofs!StockAssumption
  /\ WorkerProofs!BoundAssumption
<1>1. WorkerProofs!EventAssumption
  BY EventAssumption DEF WorkerProofs!EventAssumption, WorkerProofs!EventType
<1>2. WorkerProofs!NoMessageAssumption
  BY MessageAssumption DEF WorkerProofs!NoMessageAssumption
<1>3. WorkerProofs!StockAssumption
  BY StockAssumption DEF WorkerProofs!StockAssumption
<1>4. WorkerProofs!BoundAssumption
  BY BoundAssumption DEF WorkerProofs!BoundAssumption
<1> QED
  BY <1>1, <1>2, <1>3, <1>4

\* What OrderOutboxProofs and InventoryWorkerProofs prove, of these instances.
LEMMA IntakeInvariance ==
  /\ Intake!Init => Intake!IInv
  /\ Intake!IInv /\ [Intake!Next]_(Intake!vars) => Intake!IInv'
<1>1. IntakeProofs!Init => IntakeProofs!IInv
  BY IntakeAssumptions, IntakeProofs!InvInit
<1>2. IntakeProofs!IInv /\ [IntakeProofs!Next]_(IntakeProofs!vars)
        => IntakeProofs!IInv'
  BY IntakeAssumptions, IntakeProofs!InvStep
<1>3. Intake!IInv' <=> IntakeProofs!IInv'
  BY SameIntake, PTL
<1> QED
  BY <1>1, <1>2, <1>3, SameIntake

LEMMA WorkerInvariance ==
  /\ Worker!Init => Worker!IInv
  /\ Worker!IInv /\ [Worker!Next]_(Worker!vars) => Worker!IInv'
<1>1. WorkerProofs!Init => WorkerProofs!IInv
  BY WorkerAssumptions, WorkerProofs!InvInit
<1>2. WorkerProofs!IInv /\ [WorkerProofs!Next]_(WorkerProofs!vars)
        => WorkerProofs!IInv'
  BY WorkerAssumptions, WorkerProofs!InvStep
<1>3. Worker!IInv' <=> WorkerProofs!IInv'
  BY SameWorker, PTL
<1> QED
  BY <1>1, <1>2, <1>3, SameWorker

-----------------------------------------------------------------------------
(* What a step of one component does to what the other one reads.          *)

Places(r) ==
  /\ orders[r] = "absent"
  /\ orders' = [orders EXCEPT ![r] = "PROCESSING"]

\* The order service inserts order rows of its own, and copies of stored
\* events enter its buffer.
LEMMA ServiceEffect ==
  ASSUME Intake!IInv, ServiceStep
  PROVE  /\ published' = published
         /\ orders' = orders \/ \E r \in Requests : Places(r)
         /\ \A r \in Requests : buffer'[r] > 0 => buffer[r] > 0 \/ event[r] # "absent"
<1> USE DEF Intake!Answer, Intake!DbFault, Intake!outbox, Intake!ticking,
            Intake!amqp, Intake!context
<1>1. ASSUME NEW r \in Requests, Intake!Receive(r) \/ Intake!HandlerStep(r)
      PROVE  /\ UNCHANGED <<published, buffer>>
             /\ orders' = orders \/ Places(r)
  <2>1. handler[r] = "insertOrder" => orders[r] = "absent"
    BY DEF Intake!IInv, Intake!Progress
  <2> QED
    BY <1>1, <2>1 DEF Places, Intake!Receive, Intake!HandlerStep, Intake!InsertOrder,
                      Intake!RefuseOrder, Intake!CreateEvent
<1>2. ASSUME NEW r \in Requests, Intake!InsertOrderFails(r) \/ Intake!CreateEventFails(r)
      PROVE  UNCHANGED <<published, buffer, orders>>
  BY <1>2 DEF Intake!InsertOrderFails, Intake!CreateEventFails
<1>3. ASSUME NEW t \in Runs, Intake!PublishEvent(t)
      PROVE  /\ UNCHANGED <<published, orders>>
             /\ \A r \in Requests : buffer'[r] > 0 => buffer[r] > 0 \/ event[r] # "absent"
  <2>1. rows[t] # {}
    BY <1>3 DEF Intake!PublishEvent, Intake!IInv, Intake!RowsStored
  <2>2. Intake!Row(t) \in Intake!Stored
    <3>1. IntakeProofs!TypeOK <=> Intake!TypeOK
      BY DEF IntakeProofs!TypeOK, Intake!TypeOK, IntakeProofs!HandlerStages,
             Intake!HandlerStages, IntakeProofs!RunStages, Intake!RunStages,
             IntakeProofs!OrderStatuses, Intake!OrderStatuses
    <3>2. IntakeProofs!Row(t) \in rows[t]
      BY <2>1, <3>1, IntakeAssumptions, IntakeProofs!RowInBatch DEF Intake!IInv
    <3>3. IntakeProofs!Row(t) = Intake!Row(t)
      BY DEF IntakeProofs!Row, Intake!Row, IntakeProofs!Oldest, Intake!Oldest
    <3> QED
      BY <3>2, <3>3 DEF Intake!IInv, Intake!RowsStored
  <2> QED
    BY <1>3, <2>2 DEF Intake!PublishEvent, Intake!http, Intake!Stored,
                      Intake!IInv, Intake!TypeOK
<1>4. ASSUME NEW t \in Runs,
             \/ Intake!RunStep(t) /\ ~Intake!PublishEvent(t)
             \/ Intake!FetchFails(t) \/ Intake!MarkPublishedFails(t)
             \/ Intake!MarkFailedFails(t)
      PROVE  UNCHANGED <<published, orders, buffer>>
  BY <1>4 DEF Intake!RunStep, Intake!Tick, Intake!Fetch, Intake!PublishThrows,
              Intake!MarkPublished, Intake!MarkFailed, Intake!FetchFails,
              Intake!MarkPublishedFails, Intake!MarkFailedFails, Intake!http
<1>5. ASSUME Intake!BindQueue \/ Intake!CloseChannel \/ Intake!Crash
      PROVE  /\ UNCHANGED <<published, orders>>
             /\ \A r \in Requests : buffer'[r] > 0 => buffer[r] > 0
  BY <1>5 DEF Intake!BindQueue, Intake!CloseChannel, Intake!Crash, Intake!http,
              Intake!NoBuffer
<1> QED
  BY <1>1, <1>2, <1>3, <1>4, <1>5 DEF ServiceStep, Intake!Fault

\* As long as no transaction reaches its COMMIT, a worker leaves orders and
\* stock alone; it handles copies that were queued, and only they return to
\* the queue.
LEMMA ConsumerEffect ==
  ASSUME Worker!IInv, NoneCommits, NEW w \in Workers, ConsumerStep(w)
  PROVE  /\ UNCHANGED <<orders, stock, published, event, buffer>>
         /\ \A r \in Requests : queue'[r] > 0 => queue[r] > 0 \/ \E v \in Workers : msg[v] = r
         /\ \A r \in Requests : \A v \in Workers :
              msg'[v] = r => msg[v] = r \/ queue[r] > 0
         /\ \A v \in Workers : pc'[v] = "commit" => v = w /\ Worker!InsertOrder(w)
<1> USE DEF Worker!broker, Worker!process, Worker!database, Worker!history,
            Worker!Goto, Worker!DbFault, Worker!TypeOK, intakeVars
<1>1. Worker!TypeOK /\ pc[w] # "commit"
  BY DEF Worker!IInv, NoneCommits
<1>2. ASSUME NEW m \in Requests, Worker!Deliver(w, m) \/ Worker!RejectMalformed(w, m)
      PROVE  /\ UNCHANGED <<orders, stock, published>>
             /\ \A r \in Requests : queue'[r] > 0 => queue[r] > 0
             /\ \A r \in Requests : \A v \in Workers :
                  msg'[v] = r => msg[v] = r \/ queue[r] > 0
             /\ \A v \in Workers : pc'[v] = "commit" => pc[v] = "commit"
  BY <1>1, <1>2, MessageAssumption DEF Worker!Deliver, Worker!RejectMalformed
<1>3. ASSUME \/ Worker!Reserve(w) \/ Worker!Skip(w) \/ Worker!UpdateStock(w)
             \/ Worker!RefuseStock(w) \/ Worker!InsertOrder(w) \/ Worker!RefuseOrder(w)
             \/ Worker!MarkProcessed(w) \/ Worker!MarkFailed(w)
             \/ Worker!ReserveFails(w) \/ Worker!TxnFails(w)
             \/ Worker!MarkProcessedFails(w) \/ Worker!MarkFailedFails(w)
      PROVE  /\ UNCHANGED <<orders, stock, published, queue, msg>>
             /\ \A v \in Workers : pc'[v] = "commit" =>
                  pc[v] = "commit" \/ (v = w /\ Worker!InsertOrder(w))
  BY <1>1, <1>3 DEF Worker!Reserve, Worker!Skip, Worker!UpdateStock,
    Worker!RefuseStock, Worker!InsertOrder, Worker!RefuseOrder,
    Worker!MarkProcessed, Worker!MarkFailed, Worker!ReserveFails,
    Worker!TxnFails, Worker!MarkProcessedFails, Worker!MarkFailedFails
<1>4. ASSUME Worker!Ack(w) \/ Worker!Nack(w)
      PROVE  /\ UNCHANGED <<orders, stock, published, queue>>
             /\ \A v \in Workers : msg'[v] \in {msg[v], NoMessage}
             /\ \A v \in Workers : pc'[v] = "commit" => pc[v] = "commit"
  BY <1>1, <1>4 DEF Worker!Ack, Worker!Nack, Worker!Settle
<1>5. ASSUME Worker!Crash(w) \/ Worker!CloseChannel(w)
      PROVE  /\ UNCHANGED <<orders, stock, published>>
             /\ \A r \in Requests : queue'[r] > 0 => queue[r] > 0 \/ msg[w] = r
             /\ \A v \in Workers : msg'[v] \in {msg[v], NoMessage}
             /\ \A v \in Workers : pc'[v] = "commit" => pc[v] = "commit"
  BY <1>1, <1>5 DEF Worker!Crash, Worker!CloseChannel, Worker!Disturb, Worker!Restart
<1>6. \A r \in Requests : r # NoMessage
  BY MessageAssumption
<1>7. UNCHANGED <<event, buffer>>
  BY DEF ConsumerStep
<1> HIDE DEF Worker!TypeOK
<1>8. \/ \E m \in Requests : Worker!Deliver(w, m) \/ Worker!RejectMalformed(w, m)
      \/ Worker!Reserve(w) \/ Worker!Skip(w) \/ Worker!UpdateStock(w)
      \/ Worker!RefuseStock(w) \/ Worker!InsertOrder(w) \/ Worker!RefuseOrder(w)
      \/ Worker!MarkProcessed(w) \/ Worker!MarkFailed(w)
      \/ Worker!ReserveFails(w) \/ Worker!TxnFails(w)
      \/ Worker!MarkProcessedFails(w) \/ Worker!MarkFailedFails(w)
      \/ Worker!Ack(w) \/ Worker!Nack(w) \/ Worker!Crash(w) \/ Worker!CloseChannel(w)
  BY <1>1 DEF ConsumerStep, Worker!WorkerStep, Worker!FaultStep, Worker!Commit,
              Worker!CommitReplyLost
<1> QED
  BY <1>2, <1>3, <1>4, <1>5, <1>6, <1>7, <1>8 DEF NoneCommits

-----------------------------------------------------------------------------
(* The refinement and the invariant.                                       *)

\* A flush is one of the service's steps, and the worker's publisher step if
\* the queue is bound.
LEMMA FlushEffect ==
  ASSUME NEW r \in Requests, Flush(r)
  PROVE  /\ Intake!Next
         /\ UNCHANGED <<orders, stock, event, pc, msg>>
         /\ Worker!Publish(r) \/ UNCHANGED <<Worker!vars, queue>>
         /\ buffer[r] > 0
         /\ buffer' = [buffer EXCEPT ![r] = @ - 1]
         /\ queue' = [queue EXCEPT ![r] = @ + 1] \/ queue' = queue
<1>1. Intake!Next
  BY DEF Flush, Intake!Next
<1>2. CASE bound
  BY <1>1, <1>2 DEF Flush, Intake!Flush, Intake!outbox, Worker!Publish,
                    Worker!process, Worker!database
<1>3. CASE ~bound
  BY <1>1, <1>3 DEF Flush, Intake!Flush, Intake!http, Intake!outbox, workerVars,
                    Worker!vars, Worker!broker, Worker!process, Worker!database,
                    Worker!history
<1> QED
  BY <1>2, <1>3

\* Every step is a step of each component, or leaves its variables alone: an
\* order row of the service is the worker's PlaceOrder, for which no
\* transaction may hold the order id, and no worker writes an order.
LEMMA StepRefines ==
  ASSUME IInv, [Next]_vars
  PROVE  [Intake!Next]_(Intake!vars) /\ [Worker!Next]_(Worker!vars)
<1>1. CASE ServiceStep
  <2>1. Intake!Next
    BY <1>1 DEF ServiceStep, Intake!Next
  <2>2. /\ UNCHANGED <<published, workerVars>>
        /\ orders' = orders \/ \E r \in Requests : Places(r)
    BY <1>1, ServiceEffect DEF IInv, ServiceStep
  <2>3. CASE orders' = orders
    BY <2>1, <2>2, <2>3 DEF workerVars, Worker!vars, Worker!broker,
                            Worker!process, Worker!database, Worker!history
  <2>4. ASSUME NEW r \in Requests, Places(r) PROVE Worker!PlaceOrder(r)
    BY <2>2, <2>4 DEF Places, IInv, NoneCommits, workerVars, Worker!PlaceOrder,
                      Worker!broker, Worker!process, Worker!history
  <2> QED
    BY <2>1, <2>2, <2>3, <2>4 DEF Worker!Next
<1>2. ASSUME NEW r \in Requests, Flush(r)
      PROVE  Intake!Next /\ [Worker!Next]_(Worker!vars)
  BY <1>2, FlushEffect DEF Worker!Next
<1>3. ASSUME NEW w \in Workers, ConsumerStep(w)
      PROVE  UNCHANGED Intake!vars /\ Worker!Next
  <2>1. UNCHANGED <<orders, published, intakeVars>>
    BY <1>3, ConsumerEffect DEF IInv, ConsumerStep
  <2> QED
    BY <1>3, <2>1 DEF ConsumerStep, intakeVars, Worker!Next, Intake!vars,
                      Intake!http, Intake!outbox, Intake!ticking, Intake!amqp,
                      Intake!context
<1>4. CASE UNCHANGED vars
  BY <1>4 DEF vars, intakeVars, workerVars, Intake!vars, Intake!http,
              Intake!outbox, Intake!ticking, Intake!amqp, Intake!context,
              Worker!vars, Worker!broker, Worker!process, Worker!database,
              Worker!history
<1> QED
  BY <1>1, <1>2, <1>3, <1>4 DEF Next

\* The initial states are initial states of both components.
LEMMA InvInit == Init => IInv
<1> SUFFICES ASSUME Init PROVE IInv
  OBVIOUS
<1>1. Intake!IInv /\ Worker!IInv
  BY IntakeInvariance, WorkerInvariance DEF Init
<1>2. EventFollowsOrder
  BY MessageAssumption DEF Init, Intake!Init, Worker!Init, EventFollowsOrder
<1>3. PlacedIsNeverPaid /\ NoneCommits
  BY DEF Init, Worker!Init, PlacedIsNeverPaid, NoneCommits
<1> QED
  BY <1>1, <1>2, <1>3 DEF IInv

\* Every step keeps the invariant: an event is only sent and handled after its
\* order, so the INSERT of every transaction is refused.
LEMMA InvStep ==
  ASSUME IInv, [Next]_vars
  PROVE  IInv'
<1>1. Intake!IInv' /\ Worker!IInv'
  BY StepRefines, IntakeInvariance, WorkerInvariance DEF IInv
<1>2. /\ \A r \in Requests : event[r] # "absent" => orders[r] # "absent"
      /\ \A r \in Requests : event'[r] # "absent" => orders'[r] # "absent"
  <2>1. Intake!AcceptedIsDurable /\ Intake!AcceptedIsDurable'
    BY <1>1 DEF IInv, Intake!IInv
  <2> QED
    BY <2>1 DEF Intake!AcceptedIsDurable
<1>3. /\ orders \in [Requests -> {"absent"} \union Intake!OrderStatuses]
      /\ buffer \in [Requests -> Nat] /\ queue \in [Requests -> Nat]
  BY DEF IInv, Intake!IInv, Intake!TypeOK, Worker!IInv, Worker!TypeOK
<1> DEFINE Ahead(r) == buffer[r] > 0 \/ queue[r] > 0 \/ \E w \in Workers : msg[w] = r
<1>4. \A r \in Requests : Ahead(r) => orders[r] # "absent"
  BY DEF IInv, EventFollowsOrder
<1>5. CASE ServiceStep
  <2>1. /\ orders' = orders \/ \E r \in Requests : Places(r)
        /\ \A r \in Requests : buffer'[r] > 0 => buffer[r] > 0 \/ event[r] # "absent"
        /\ UNCHANGED workerVars
    BY <1>5, ServiceEffect DEF IInv, ServiceStep
  <2>2. \A r \in Requests : /\ orders[r] # "absent" => orders'[r] # "absent"
                            /\ orders'[r] \in {orders[r], "PROCESSING"}
    BY <1>3, <2>1 DEF Places
  <2>3. EventFollowsOrder'
    BY <1>2, <1>4, <2>1, <2>2 DEF EventFollowsOrder, workerVars
  <2>4. PlacedIsNeverPaid' /\ NoneCommits'
    BY <2>1, <2>2 DEF IInv, PlacedIsNeverPaid, NoneCommits, workerVars
  <2> QED
    BY <1>1, <2>3, <2>4 DEF IInv
<1>6. ASSUME NEW r \in Requests, Flush(r) PROVE IInv'
  <2>1. \A s \in Requests : Ahead(s)' => Ahead(s)
    BY <1>3, <1>6, FlushEffect
  <2>2. EventFollowsOrder'
    BY <1>2, <1>4, <1>6, <2>1, FlushEffect DEF EventFollowsOrder
  <2>3. PlacedIsNeverPaid' /\ NoneCommits'
    BY <1>6, FlushEffect DEF IInv, PlacedIsNeverPaid, NoneCommits
  <2> QED
    BY <1>1, <2>2, <2>3 DEF IInv
<1>7. ASSUME NEW w \in Workers, ConsumerStep(w) PROVE IInv'
  <2>1. /\ UNCHANGED <<orders, stock, published, event, buffer>>
        /\ \A r \in Requests :
             queue'[r] > 0 => queue[r] > 0 \/ \E v \in Workers : msg[v] = r
        /\ \A r \in Requests : \A v \in Workers :
             msg'[v] = r => msg[v] = r \/ queue[r] > 0
        /\ \A v \in Workers : pc'[v] = "commit" => v = w /\ Worker!InsertOrder(w)
    BY <1>7, ConsumerEffect DEF IInv
  <2>2. \A r \in Requests : Ahead(r)' => Ahead(r)
    BY <2>1
  <2>3. EventFollowsOrder'
    BY <1>2, <1>4, <2>1, <2>2 DEF EventFollowsOrder
  <2>4. ~Worker!InsertOrder(w)
    <3> SUFFICES ASSUME Worker!InsertOrder(w) PROVE FALSE
      OBVIOUS
    <3>1. msg[w] \in Requests
      BY DEF Worker!InsertOrder, IInv, Worker!IInv, Worker!TypeOK, Worker!Handling
    <3>2. orders[msg[w]] # "absent"
      BY <1>4, <3>1
    <3> QED
      BY <3>1, <3>2, EventAssumption DEF Worker!InsertOrder, Worker!OrderId
  <2>5. PlacedIsNeverPaid' /\ NoneCommits'
    BY <2>1, <2>4 DEF IInv, PlacedIsNeverPaid, NoneCommits
  <2> QED
    BY <1>1, <2>3, <2>5 DEF IInv
<1>8. CASE UNCHANGED vars
  BY <1>1, <1>8 DEF vars, intakeVars, workerVars, IInv, EventFollowsOrder,
                    PlacedIsNeverPaid, NoneCommits
<1> QED
  BY <1>5, <1>6, <1>7, <1>8 DEF Next

\* The inductive invariant of the pipeline.
THEOREM Invariance == Spec => []IInv
  BY InvInit, InvStep, PTL DEF Spec

\* No copy of an event, buffered, queued or in a handler, is ahead of its order
\* row (createOrder, publishPendingEvents, consume), for any number of
\* requests, workers, overlapping runs, failing calls and crashes.
THEOREM EventsFollowOrders == Spec => []EventFollowsOrder
<1>1. IInv => EventFollowsOrder
  BY DEF IInv
<1> QED
  BY <1>1, Invariance, PTL

\* No order of the order service is ever paid and no stock is deducted for one:
\* the worker's INSERT INTO orders meets the row insertOrder has written.
THEOREM NoOrderIsPaid == Spec => []PlacedIsNeverPaid
<1>1. IInv => PlacedIsNeverPaid
  BY DEF IInv
<1> QED
  BY <1>1, Invariance, PTL

\* What OrderOutbox promises of repeated sends holds in the pipeline.
THEOREM ResendsArePaid == Spec => []ResendNeedsFault
<1>1. IInv => ResendNeedsFault
  BY DEF IInv, ResendNeedsFault, Intake!IInv
<1> QED
  BY <1>1, Invariance, PTL

\* The order service in the pipeline implements its own specification: the
\* workers never write a row of its orders.
THEOREM IntakeRefinement == Spec => ImplementsIntake
<1>1. Init => Intake!Init
  BY DEF Init
<1> QED
  BY <1>1, StepRefines, Invariance, PTL DEF Spec, ImplementsIntake, Intake!Spec

\* The worker in the pipeline implements its own specification, its environment
\* included: the service's INSERT never meets an uncommitted row of the same
\* id, and copies enter the queue only as Publish says.
THEOREM WorkerRefinement == Spec => ImplementsWorker
<1>1. Init => Worker!Init
  BY DEF Init
<1> QED
  BY <1>1, StepRefines, Invariance, PTL DEF Spec, ImplementsWorker, Worker!Spec

=============================================================================

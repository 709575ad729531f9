-------------------------- MODULE OrderOutboxProofs --------------------------
(***************************************************************************)
(* Theorems about OrderOutbox for any requests, publisher runs and batch   *)
(* size, and any number of failing calls, closures and crashes.            *)
(***************************************************************************)
EXTENDS OrderOutbox, FiniteSetTheorems, TLAPS

\* A nonempty set of natural numbers has a least element.
LEMMA LeastNumber ==
  ASSUME NEW T \in SUBSET Nat, T # {}
  PROVE  \E n \in T : \A m \in T : n <= m
<1> DEFINE Less == {x \in Nat \X Nat : x[1] < x[2]}
<1>1. OpToRel(<, Nat) = Less
  BY Zenon DEF OpToRel
<1>2. IsWellFoundedOn(Less, Nat)
  BY <1>1, NatLessThanWellFounded
<1>3. \E n \in T : \A m \in T : ~(<<m, n>> \in Less)
  <2> HIDE DEF Less
  <2> QED
    BY <1>2, WFMin
<1>4. PICK n \in T : \A m \in T : ~(<<m, n>> \in Less)
  BY <1>3
<1>5. ASSUME NEW m \in T PROVE n <= m
  <2>1. <<m, n>> \in Nat \X Nat /\ <<m, n>>[1] = m /\ <<m, n>>[2] = n
    OBVIOUS
  <2>2. ~(m < n)
    BY <1>4, <2>1, Zenon
  <2> QED
    BY <2>2
<1> QED
  BY <1>5

\* The row a publishing run works on is one of its rows.
LEMMA RowInBatch ==
  ASSUME TypeOK, NEW t \in Runs, rows[t] # {}
  PROVE  Row(t) \in rows[t] /\ Row(t) \in Requests
<1> DEFINE Times == {createdAt[r] : r \in rows[t]}
<1>1. rows[t] \subseteq Requests
  BY DEF TypeOK
<1>2. Times \in SUBSET Nat /\ Times # {}
  BY <1>1 DEF TypeOK
<1>3. PICK n \in Times : \A m \in Times : n <= m
  BY <1>2, LeastNumber
<1>4. PICK r \in rows[t] : createdAt[r] = n
  BY <1>3
<1>5. r \in Oldest(rows[t])
  BY <1>3, <1>4 DEF Oldest
<1>6. Row(t) \in Oldest(rows[t])
  BY <1>5 DEF Row
<1> QED
  BY <1>1, <1>6 DEF Oldest

\* It stays the same while later rows are stored.
LEMMA RowStable ==
  ASSUME NEW t \in Runs, UNCHANGED rows[t],
         \A r \in rows[t] : createdAt'[r] = createdAt[r]
  PROVE  Row(t)' = Row(t)
<1>1. Oldest(rows[t])' = Oldest(rows[t])
  BY DEF Oldest
<1> QED
  BY <1>1 DEF Row

\* A handler that starts fails, rejects the request or goes on to its insert.
LEMMA OutcomeStages ==
  ASSUME NEW r \in Requests
  PROVE  Outcomes(r) \subseteq {"failed", "rejected", "insertOrder"}
  BY DEF Outcomes

\* A batch holds PENDING rows only.
LEMMA BatchIsPending ==
  PendingBatch \subseteq {r \in Requests : event[r] = "PENDING"}
  BY DEF PendingBatch

\* Nothing is stored or sent in an initial state.
LEMMA InvInit == Init => IInv
<1> SUFFICES ASSUME Init PROVE IInv
  OBVIOUS
<1>1. TypeOK
  <2>1. bound \in BOOLEAN /\ overlapped \in BOOLEAN
    BY Zenon DEF Init
  <2> QED
    BY <2>1, BoundAssumption
       DEF Init, TypeOK, HandlerStages, RunStages, OrderStatuses
<1>2. Stored = {} /\ Orphans = {}
  BY DEF Init, Stored, Orphans
<1>3. Progress /\ AcceptedIsDurable /\ RowsStored /\ OneRun
  BY DEF Init, Progress, AcceptedIsDurable, RowsStored, OneRun
<1>4. IsFiniteSet(Stored) /\ (crashes = 0 => IsFiniteSet(Orphans))
  BY <1>2, FS_EmptySet
<1>5. OrphanNeedsFault
  BY <1>2, FS_EmptySet DEF Init, OrphanNeedsFault
<1>6. SendsArePaid /\ ResendNeedsFault
  BY DEF Init, SendsArePaid, ResendNeedsFault
<1>7. SendsRecorded
  BY DEF Init, SendsRecorded
<1> QED
  BY <1>1, <1>3, <1>4, <1>5, <1>6, <1>7 DEF IInv

LEMMA TypeStep ==
  ASSUME IInv, [Next]_vars
  PROVE  TypeOK'
<1> USE BoundAssumption DEF IInv, TypeOK, HandlerStages, RunStages, OrderStatuses,
        Answer, SetRun, SetEvent, DbFault, http, outbox, ticking, amqp, context
<1>1. CASE UNCHANGED vars
  BY <1>1 DEF vars
<1>2. ASSUME NEW r \in Requests, Receive(r) PROVE TypeOK'
  BY <1>2, OutcomeStages DEF Receive
<1>3. ASSUME NEW r \in Requests, InsertOrder(r) \/ RefuseOrder(r) \/ InsertOrderFails(r)
      PROVE  TypeOK'
  BY <1>3 DEF InsertOrder, RefuseOrder, InsertOrderFails
<1>4. ASSUME NEW r \in Requests, CreateEvent(r) \/ CreateEventFails(r)
      PROVE  TypeOK'
  <2>1. Cardinality(Stored) + 1 \in Nat
    BY FS_CardinalityType
  <2> QED
    BY <1>4, <2>1 DEF CreateEvent, CreateEventFails, StoreEvent
<1>5. ASSUME NEW t \in Runs, Tick(t) PROVE TypeOK'
  <2>1. overlapped' \in BOOLEAN
    BY <1>5, Zenon DEF Tick
  <2> QED
    BY <1>5, <2>1 DEF Tick
<1>6. ASSUME NEW t \in Runs, Fetch(t) \/ FetchFails(t) PROVE TypeOK'
  BY <1>6, BatchIsPending DEF Fetch, FetchFails
<1>7. ASSUME NEW t \in Runs, PublishEvent(t) \/ PublishThrows(t) PROVE TypeOK'
  <2>1. Row(t) \in Requests
    BY <1>7, RowInBatch DEF PublishEvent, PublishThrows, RowsStored
  <2> QED
    BY <1>7, <2>1 DEF PublishEvent, PublishThrows
<1>8. ASSUME NEW t \in Runs, MarkPublished(t) \/ MarkFailed(t) PROVE TypeOK'
  BY <1>8 DEF MarkPublished, MarkFailed, NextRow
<1>9. ASSUME NEW t \in Runs, MarkPublishedFails(t) \/ MarkFailedFails(t)
      PROVE  TypeOK'
  BY <1>9 DEF MarkPublishedFails, MarkFailedFails
<1>10. ASSUME NEW r \in Requests, Flush(r) PROVE TypeOK'
  BY <1>10 DEF Flush
<1>11. CASE BindQueue
  BY <1>11 DEF BindQueue
<1>12. CASE CloseChannel \/ Crash
  BY <1>12 DEF CloseChannel, Crash, NoBuffer
<1> QED
  BY <1>1, <1>2, <1>3, <1>4, <1>5, <1>6, <1>7, <1>8, <1>9, <1>10, <1>11, <1>12
     DEF Next, HandlerStep, RunStep, Fault

\* Order rows, event rows and batches: an event row follows its order row and
\* is never deleted, and one run is active until two overlap.
LEMMA StorageStep ==
  ASSUME IInv, [Next]_vars, TypeOK'
  PROVE  Progress' /\ AcceptedIsDurable' /\ RowsStored' /\ OneRun'
<1> DEFINE Goal == Progress /\ AcceptedIsDurable /\ RowsStored /\ OneRun
<1> SUFFICES Goal'
  OBVIOUS
<1> USE DEF IInv, TypeOK, HandlerStages, RunStages, Progress, AcceptedIsDurable,
        RowsStored, OneRun, Stored, Answer, SetRun, SetEvent, DbFault, http,
        outbox, ticking, amqp, context
<1>1. CASE UNCHANGED vars
  BY <1>1 DEF vars
<1>2. ASSUME NEW r \in Requests, Receive(r) PROVE Goal'
  BY <1>2, OutcomeStages DEF Receive
<1>3. ASSUME NEW r \in Requests, InsertOrder(r) \/ RefuseOrder(r) \/ InsertOrderFails(r)
      PROVE  Goal'
  BY <1>3 DEF InsertOrder, RefuseOrder, InsertOrderFails
<1>4. ASSUME NEW r \in Requests, CreateEvent(r) \/ CreateEventFails(r)
      PROVE  Goal'
  BY <1>4 DEF CreateEvent, CreateEventFails, StoreEvent
<1>5. ASSUME NEW t \in Runs, Tick(t) PROVE Goal'
  <2>1. ~overlapped' => ~overlapped /\ \A u \in Runs : run[u] = "off"
    BY <1>5, Zenon DEF Tick
  <2>2. /\ run' = [run EXCEPT ![t] = "fetch"] /\ run[t] = "off"
        /\ UNCHANGED <<handler, order, event, rows>>
    BY <1>5 DEF Tick
  <2> QED
    BY <2>1, <2>2
<1>6. ASSUME NEW t \in Runs, Fetch(t) \/ FetchFails(t) PROVE Goal'
  BY <1>6, BatchIsPending DEF Fetch, FetchFails
<1>7. ASSUME NEW t \in Runs, PublishEvent(t) \/ PublishThrows(t) PROVE Goal'
  BY <1>7 DEF PublishEvent, PublishThrows
<1>8. ASSUME NEW t \in Runs, MarkPublished(t) \/ MarkFailed(t) PROVE Goal'
  <2>1. Row(t) \in rows[t]
    BY <1>8, RowInBatch DEF MarkPublished, MarkFailed
  <2> QED
    BY <1>8, <2>1 DEF MarkPublished, MarkFailed, NextRow
<1>9. ASSUME NEW t \in Runs, MarkPublishedFails(t) \/ MarkFailedFails(t)
      PROVE  Goal'
  <2>1. Row(t) \in rows[t]
    BY <1>9, RowInBatch DEF MarkPublishedFails, MarkFailedFails
  <2> QED
    BY <1>9, <2>1 DEF MarkPublishedFails, MarkFailedFails
<1>10. ASSUME NEW r \in Requests, Flush(r) PROVE Goal'
  BY <1>10 DEF Flush
<1>11. CASE BindQueue
  BY <1>11 DEF BindQueue
<1>12. CASE CloseChannel
  BY <1>12 DEF CloseChannel
<1>13. CASE Crash
  BY <1>13 DEF Crash
<1> QED
  BY <1>1, <1>2, <1>3, <1>4, <1>5, <1>6, <1>7, <1>8, <1>9, <1>10, <1>11, <1>12,
     <1>13 DEF Next, HandlerStep, RunStep, Fault

\* No step removes an order or an event row, and only a failing call makes an
\* orphan, one at a time.
LEMMA OrphanAdded ==
  ASSUME IInv, [Next]_vars, crashes' = 0
  PROVE  /\ crashes = 0
         /\ \/ Orphans' \subseteq Orphans /\ dbFaults <= dbFaults'
            \/ /\ \E r \in Requests : Orphans' \subseteq Orphans \union {r}
               /\ dbFaults' = dbFaults + 1
<1> DEFINE Goal ==
      /\ crashes = 0
      /\ \/ Orphans' \subseteq Orphans /\ dbFaults <= dbFaults'
         \/ /\ \E r \in Requests : Orphans' \subseteq Orphans \union {r}
            /\ dbFaults' = dbFaults + 1
<1> USE BoundAssumption
    DEF IInv, TypeOK, Progress, RowsStored, Stored, Orphans, Answered, Answer,
        SetRun, SetEvent, DbFault, http, outbox, ticking, amqp, context
<1>1. CASE UNCHANGED vars
  BY <1>1 DEF vars
<1>2. ASSUME NEW r \in Requests, Receive(r) PROVE Goal
  BY <1>2, OutcomeStages DEF Receive
<1>3. ASSUME NEW r \in Requests, InsertOrder(r) \/ RefuseOrder(r) \/ InsertOrderFails(r)
      PROVE  Goal
  BY <1>3 DEF InsertOrder, RefuseOrder, InsertOrderFails
<1>4. ASSUME NEW r \in Requests, CreateEvent(r) \/ CreateEventFails(r) PROVE Goal
  BY <1>4 DEF CreateEvent, CreateEventFails, StoreEvent
<1>5. ASSUME NEW t \in Runs,
             \/ Tick(t) \/ Fetch(t) \/ FetchFails(t)
             \/ PublishEvent(t) \/ PublishThrows(t)
      PROVE  Goal
  BY <1>5 DEF Tick, Fetch, FetchFails, PublishEvent, PublishThrows
<1>6. ASSUME NEW t \in Runs,
             \/ MarkPublished(t) \/ MarkPublishedFails(t)
             \/ MarkFailed(t) \/ MarkFailedFails(t)
      PROVE  Goal
  BY <1>6 DEF MarkPublished, MarkPublishedFails, MarkFailed, MarkFailedFails, NextRow
<1>7. ASSUME NEW r \in Requests, Flush(r) PROVE Goal
  BY <1>7 DEF Flush
<1>8. CASE BindQueue \/ CloseChannel \/ Crash
  BY <1>8 DEF BindQueue, CloseChannel, Crash
<1> QED
  BY <1>1, <1>2, <1>3, <1>4, <1>5, <1>6, <1>7, <1>8
     DEF Next, HandlerStep, RunStep, Fault

\* One row is stored at a time.
LEMMA StoredAdded ==
  ASSUME IInv, [Next]_vars
  PROVE  \/ Stored' \subseteq Stored
         \/ \E r \in Requests : Stored' \subseteq Stored \union {r}
<1> USE DEF Stored, IInv, TypeOK, RowsStored, Answer, SetRun, SetEvent, http,
        outbox, ticking, amqp, context
<1> DEFINE Goal == \/ Stored' \subseteq Stored
                   \/ \E r \in Requests : Stored' \subseteq Stored \union {r}
<1>1. CASE UNCHANGED event
  BY <1>1
<1>2. ASSUME NEW r \in Requests, CreateEvent(r) \/ CreateEventFails(r) PROVE Goal
  BY <1>2 DEF CreateEvent, CreateEventFails, StoreEvent
<1>3. ASSUME NEW t \in Runs,
             \/ MarkPublished(t) \/ MarkPublishedFails(t)
             \/ MarkFailed(t) \/ MarkFailedFails(t)
      PROVE  Goal
  <2>1. Row(t) \in Stored
    BY <1>3, RowInBatch
       DEF MarkPublished, MarkPublishedFails, MarkFailed, MarkFailedFails
  <2> QED
    BY <1>3, <2>1
       DEF MarkPublished, MarkPublishedFails, MarkFailed, MarkFailedFails
<1>4. ASSUME NEW r \in Requests,
             \/ Receive(r) \/ Flush(r)
             \/ InsertOrder(r) \/ RefuseOrder(r) \/ InsertOrderFails(r)
      PROVE  UNCHANGED event
  BY <1>4 DEF Receive, Flush, InsertOrder, RefuseOrder, InsertOrderFails
<1>5. ASSUME NEW t \in Runs,
             \/ Tick(t) \/ Fetch(t) \/ FetchFails(t)
             \/ PublishEvent(t) \/ PublishThrows(t)
      PROVE  UNCHANGED event
  BY <1>5 DEF Tick, Fetch, FetchFails, PublishEvent, PublishThrows
<1>6. CASE BindQueue \/ CloseChannel \/ Crash
  BY <1>6 DEF BindQueue, CloseChannel, Crash
<1>7. CASE UNCHANGED vars
  BY <1>7 DEF vars
<1> QED
  BY <1>1, <1>2, <1>3, <1>4, <1>5, <1>6, <1>7
     DEF Next, HandlerStep, RunStep, Fault

\* A finite set stays finite when it loses elements or gains one.
LEMMA GrowsByOne ==
  ASSUME NEW S, NEW T, IsFiniteSet(S), Cardinality(S) \in Nat
  PROVE  /\ T \subseteq S =>
              IsFiniteSet(T) /\ Cardinality(T) \in Nat
                             /\ Cardinality(T) <= Cardinality(S)
         /\ \A x : T \subseteq S \union {x} =>
              IsFiniteSet(T) /\ Cardinality(T) \in Nat
                             /\ Cardinality(T) <= Cardinality(S) + 1
<1>1. ASSUME NEW U, IsFiniteSet(U), T \subseteq U
      PROVE  /\ IsFiniteSet(T) /\ Cardinality(T) \in Nat
             /\ Cardinality(T) <= Cardinality(U)
  BY <1>1, FS_Subset, FS_CardinalityType
<1>2. ASSUME NEW x
      PROVE  /\ IsFiniteSet(S \union {x})
             /\ Cardinality(S \union {x}) \in Nat
             /\ Cardinality(S \union {x}) <= Cardinality(S) + 1
  <2>1. /\ IsFiniteSet(S \union {x})
        /\ Cardinality(S \union {x}) = IF x \in S THEN Cardinality(S)
                                                  ELSE Cardinality(S) + 1
    BY FS_AddElement
  <2> QED
    BY <2>1
<1>3. ASSUME NEW x, T \subseteq S \union {x}
      PROVE  /\ IsFiniteSet(T) /\ Cardinality(T) \in Nat
             /\ Cardinality(T) <= Cardinality(S) + 1
  <2>1. /\ IsFiniteSet(S \union {x})
        /\ Cardinality(S \union {x}) \in Nat
        /\ Cardinality(S \union {x}) <= Cardinality(S) + 1
    BY <1>2
  <2>2. /\ IsFiniteSet(T) /\ Cardinality(T) \in Nat
        /\ Cardinality(T) <= Cardinality(S \union {x})
    BY <1>1, <1>3, <2>1
  <2> QED
    BY <2>1, <2>2
<1> QED
  BY <1>1, <1>3

LEMMA OrphanStep ==
  ASSUME IInv, [Next]_vars, TypeOK'
  PROVE  /\ IsFiniteSet(Stored)'
         /\ (crashes = 0 => IsFiniteSet(Orphans))'
         /\ OrphanNeedsFault'
<1>1. IsFiniteSet(Stored')
  BY StoredAdded, GrowsByOne, FS_CardinalityType DEF IInv
<1>2. ASSUME crashes' = 0
      PROVE  IsFiniteSet(Orphans') /\ Cardinality(Orphans') <= dbFaults'
  <2>1. crashes = 0
    BY <1>2, OrphanAdded
  <2>2. IsFiniteSet(Orphans) /\ Cardinality(Orphans) <= dbFaults
    BY <2>1 DEF IInv, OrphanNeedsFault
  <2>3. Cardinality(Orphans) \in Nat
    BY <2>2, FS_CardinalityType
  <2>4. dbFaults \in Nat /\ dbFaults' \in Nat
    BY BoundAssumption DEF IInv, TypeOK
  <2> QED
    BY <1>2, <2>2, <2>3, <2>4, OrphanAdded, GrowsByOne
<1> QED
  BY <1>1, <1>2 DEF OrphanNeedsFault

\* Overlap is never forgotten.
LEMMA OverlapStays ==
  ASSUME [Next]_vars, ~overlapped'
  PROVE  ~overlapped
<1> USE Zenon DEF SetRun, NextRow, DbFault, http, outbox, ticking, amqp, context
<1>1. CASE UNCHANGED vars
  BY <1>1 DEF vars
<1>2. ASSUME NEW r \in Requests,
             \/ Receive(r) \/ HandlerStep(r) \/ Flush(r)
             \/ InsertOrderFails(r) \/ CreateEventFails(r)
      PROVE  ~overlapped
  BY <1>2 DEF Receive, HandlerStep, InsertOrder, RefuseOrder, CreateEvent, Flush,
              InsertOrderFails, CreateEventFails
<1>3. ASSUME NEW t \in Runs,
             RunStep(t) \/ FetchFails(t) \/ MarkPublishedFails(t) \/ MarkFailedFails(t)
      PROVE  ~overlapped
  BY <1>3 DEF RunStep, Tick, Fetch, PublishEvent, PublishThrows, MarkPublished,
              MarkFailed, FetchFails, MarkPublishedFails, MarkFailedFails
<1>4. CASE BindQueue \/ CloseChannel \/ Crash
  BY <1>4 DEF BindQueue, CloseChannel, Crash
<1> QED
  BY <1>1, <1>2, <1>3, <1>4 DEF Next, Fault

\* The copies sent.  A row is handed to the channel only when it is sendable,
\* and becomes sendable again only by a crash or by the second of two failing
\* mark calls.
LEMMA SendStep ==
  ASSUME IInv, [Next]_vars, TypeOK', RowsStored'
  PROVE  SendsArePaid' /\ ResendNeedsFault'
<1> DEFINE Sent(r) == 2 * (sent[r] - 1 - crashes) <= dbFaults
           Again(r) == Sendable(r) => 2 * (sent[r] - crashes) <= dbFaults
           Half(t) == run[t] = "markFailed" =>
                        2 * (sent[Row(t)] - 1 - crashes) + 1 <= dbFaults
           Goal == /\ \A r \in Requests : Sent(r) /\ Again(r)
                   /\ \A t \in Runs : Half(t)
<1> SUFFICES ASSUME ~overlapped' PROVE Goal'
  BY DEF SendsArePaid, ResendNeedsFault
<1>1. ~overlapped /\ Goal
  BY OverlapStays DEF IInv, SendsArePaid, ResendNeedsFault
<1>2. /\ \A r \in Requests : sent[r] \in Nat /\ sent'[r] \in Nat
      /\ crashes \in Nat /\ dbFaults \in Nat /\ dbFaults' \in Nat
  BY BoundAssumption DEF IInv, TypeOK
<1>3. ASSUME UNCHANGED <<run, rows, sent, crashes>>, dbFaults <= dbFaults',
             \A t \in Runs : Row(t)' = Row(t),
             \A r \in Requests :
               event'[r] \in {"absent", "PENDING"} => event[r] \in {"absent", "PENDING"}
      PROVE  Goal'
  <2>1. \A r \in Requests : Sendable(r)' => Sendable(r)
    BY <1>3 DEF Sendable, Marking
  <2>2. \A t \in Runs : run[t] = "markFailed" => Row(t) \in Requests
    BY RowInBatch DEF IInv, RowsStored
  <2> QED
    BY <1>1, <1>2, <1>3, <2>1, <2>2
<1>4. ASSUME UNCHANGED <<rows, createdAt>>
      PROVE  \A t \in Runs : Row(t)' = Row(t)
  BY <1>4, RowStable
\* The only active run, and its row.
<1>5. ASSUME NEW t \in Runs, run[t] # "off"
      PROVE  /\ \A u \in Runs \ {t} : run[u] = "off" /\ rows[u] = {}
             /\ rows[t] # {} => Row(t) \in rows[t] /\ Row(t) \in Requests
             /\ \A r \in Requests :
                  Marking(r) <=> /\ run[t] \in {"markPublished", "markFailed"}
                                 /\ Row(t) = r
  BY <1>1, <1>5, RowInBatch DEF IInv, OneRun, RowsStored, Marking
<1> USE DEF SetRun, SetEvent, DbFault, http, outbox, ticking, amqp, context
<1>6. CASE UNCHANGED vars
  BY <1>3, <1>4, <1>6, <1>2 DEF vars
<1>7. ASSUME NEW r \in Requests,
             \/ Receive(r) \/ Flush(r)
             \/ InsertOrder(r) \/ RefuseOrder(r) \/ InsertOrderFails(r)
      PROVE  Goal'
  BY <1>2, <1>3, <1>4, <1>7
     DEF Receive, Flush, InsertOrder, RefuseOrder, InsertOrderFails
<1>8. ASSUME NEW r \in Requests, CreateEvent(r) \/ CreateEventFails(r) PROVE Goal'
  <2>1. \A t \in Runs : r \notin rows[t] /\ UNCHANGED rows[t]
    BY <1>8 DEF CreateEvent, CreateEventFails, IInv, Progress, RowsStored, Stored
  <2>2. \A s \in Requests \ {r} : createdAt'[s] = createdAt[s]
    BY <1>8 DEF CreateEvent, CreateEventFails, StoreEvent, IInv, TypeOK
  <2>3. \A t \in Runs : Row(t)' = Row(t)
    BY <2>1, <2>2, RowStable DEF IInv, TypeOK
  <2>4. \A s \in Requests :
          event'[s] \in {"absent", "PENDING"} => event[s] \in {"absent", "PENDING"}
    BY <1>8 DEF CreateEvent, CreateEventFails, StoreEvent, IInv, TypeOK, Progress
  <2>5. UNCHANGED <<run, rows, sent, crashes>> /\ dbFaults <= dbFaults'
    BY <1>2, <1>8 DEF CreateEvent, CreateEventFails
  <2> QED
    BY <1>3, <2>3, <2>4, <2>5
<1>9. CASE BindQueue \/ CloseChannel
  BY <1>2, <1>3, <1>4, <1>9 DEF BindQueue, CloseChannel
<1>10. ASSUME NEW t \in Runs, Tick(t) PROVE Goal'
  <2>1. \A u \in Runs : run[u] = "off"
    BY <1>10, Zenon DEF Tick
  <2>2. /\ \A u \in Runs : run'[u] \in {"off", "fetch"}
        /\ UNCHANGED <<rows, createdAt, event, sent, crashes, dbFaults>>
    BY <1>10, <2>1 DEF Tick, IInv, TypeOK
  <2>3. \A r \in Requests : Sendable(r)' => Sendable(r)
    BY <2>1, <2>2 DEF Sendable, Marking
  <2> QED
    BY <1>1, <2>2, <2>3
<1>11. ASSUME NEW t \in Runs, Fetch(t) \/ FetchFails(t) PROVE Goal'
  <2>1. run[t] = "fetch"
    BY <1>11 DEF Fetch, FetchFails
  <2>2. /\ \A u \in Runs : run'[u] \in {"off", "publish"}
        /\ rows'[t] \subseteq {r \in Requests : event[r] = "PENDING"}
        /\ \A u \in Runs \ {t} : rows'[u] = {}
        /\ UNCHANGED <<event, sent, crashes>> /\ dbFaults <= dbFaults'
    BY <1>2, <1>5, <1>11, <2>1, BatchIsPending DEF Fetch, FetchFails, IInv, TypeOK
  <2>3. \A r \in Requests : Sendable(r)' => Sendable(r)
    BY <1>5, <2>1, <2>2 DEF Sendable
  <2> QED
    BY <1>1, <1>2, <2>2, <2>3
<1>12. ASSUME NEW t \in Runs, PublishEvent(t) PROVE Goal'
  <2>0. run[t] = "publish" /\ rows[t] # {} /\ UNCHANGED <<rows, createdAt>>
    BY <1>12 DEF PublishEvent, IInv, TypeOK, RowsStored
  <2>1. /\ run[t] = "publish" /\ Row(t) \in rows[t] /\ Row(t) \in Requests
        /\ \A u \in Runs : Row(u)' = Row(u)
    BY <1>4, <1>5, <2>0
  <2>2. /\ run'[t] = "markPublished" /\ \A u \in Runs \ {t} : run'[u] = "off"
        /\ sent' = [sent EXCEPT ![Row(t)] = @ + 1]
        /\ UNCHANGED <<event, rows, crashes, dbFaults>>
    BY <1>5, <1>12, <2>1 DEF PublishEvent, IInv, TypeOK
  <2>3. Sendable(Row(t)) /\ ~Sendable(Row(t))'
    BY <1>5, <2>1, <2>2 DEF Sendable, Marking
  <2>4. \A r \in Requests : Sendable(r)' => Sendable(r)
    BY <1>5, <2>1, <2>2 DEF Sendable
  <2>5. \A r \in Requests : sent'[r] = IF r = Row(t) THEN sent[r] + 1 ELSE sent[r]
    BY <2>2 DEF IInv, TypeOK
  <2> QED
    BY <1>1, <1>2, <2>1, <2>2, <2>3, <2>4, <2>5
<1>13. ASSUME NEW t \in Runs, PublishThrows(t) PROVE Goal'
  <2>0. run[t] = "publish" /\ rows[t] # {} /\ UNCHANGED <<rows, createdAt>>
    BY <1>13 DEF PublishThrows, IInv, TypeOK, RowsStored
  <2>1. /\ run[t] = "publish" /\ Row(t) \in rows[t] /\ Row(t) \in Requests
        /\ \A u \in Runs : Row(u)' = Row(u)
    BY <1>4, <1>5, <2>0
  <2>2. /\ run'[t] = "markFailed" /\ \A u \in Runs \ {t} : run'[u] = "off"
        /\ UNCHANGED <<event, rows, sent, crashes, dbFaults>>
    BY <1>5, <1>13, <2>1 DEF PublishThrows, IInv, TypeOK
  <2>3. Sendable(Row(t)) /\ \A r \in Requests : Sendable(r)' => Sendable(r)
    BY <1>5, <2>1, <2>2 DEF Sendable
  <2> QED
    BY <1>1, <1>2, <2>1, <2>2, <2>3
<1>14. ASSUME NEW t \in Runs, MarkPublished(t) \/ MarkFailed(t) PROVE Goal'
  <2>1. /\ run[t] \in {"markPublished", "markFailed"}
        /\ Row(t) \in rows[t] /\ Row(t) \in Requests
    BY <1>5, <1>14 DEF MarkPublished, MarkFailed, IInv, RowsStored
  <2>2. /\ \A u \in Runs : run'[u] \in {"off", "publish"}
        /\ rows'[t] = rows[t] \ {Row(t)}
        /\ \A u \in Runs \ {t} : rows'[u] = {}
        /\ event'[Row(t)] \in {"PUBLISHED", "FAILED"}
        /\ \A r \in Requests \ {Row(t)} : event'[r] = event[r]
        /\ UNCHANGED <<sent, crashes, dbFaults>>
    BY <1>5, <1>14, <2>1 DEF MarkPublished, MarkFailed, NextRow, IInv, TypeOK
  <2>3. \A r \in Requests : Sendable(r)' => Sendable(r)
    BY <1>5, <2>1, <2>2 DEF Sendable
  <2> QED
    BY <1>1, <2>2, <2>3
<1>15. ASSUME NEW t \in Runs, MarkPublishedFails(t) PROVE Goal'
  <2>0. run[t] = "markPublished" /\ rows[t] # {} /\ UNCHANGED <<rows, createdAt>>
    BY <1>15 DEF MarkPublishedFails, IInv, TypeOK, RowsStored
  <2>1. /\ run[t] = "markPublished" /\ Row(t) \in rows[t] /\ Row(t) \in Requests
        /\ \A u \in Runs : Row(u)' = Row(u)
    BY <1>4, <1>5, <2>0
  <2>2. /\ run'[t] = "markFailed" /\ \A u \in Runs \ {t} : run'[u] = "off"
        /\ \A r \in Requests \ {Row(t)} : event'[r] = event[r]
        /\ UNCHANGED <<rows, sent, crashes>> /\ dbFaults' = dbFaults + 1
    BY <1>5, <1>15, <2>1 DEF MarkPublishedFails, IInv, TypeOK
  <2>3. \A r \in Requests : Sendable(r)' => Sendable(r)
    BY <1>5, <2>1, <2>2 DEF Sendable, Marking
  <2> QED
    BY <1>1, <1>2, <2>1, <2>2, <2>3
<1>16. ASSUME NEW t \in Runs, MarkFailedFails(t) PROVE Goal'
  <2>1. /\ run[t] = "markFailed" /\ Row(t) \in rows[t] /\ Row(t) \in Requests
    BY <1>5, <1>16 DEF MarkFailedFails, IInv, RowsStored
  <2>2. /\ \A u \in Runs : run'[u] = "off" /\ rows'[u] = {}
        /\ \A r \in Requests \ {Row(t)} : event'[r] = event[r]
        /\ UNCHANGED <<sent, crashes>> /\ dbFaults' = dbFaults + 1
    BY <1>5, <1>16, <2>1 DEF MarkFailedFails, IInv, TypeOK
  <2>3. \A r \in Requests \ {Row(t)} : Sendable(r)' => Sendable(r)
    BY <1>5, <2>1, <2>2 DEF Sendable
  <2>4. 2 * (sent[Row(t)] - crashes) <= dbFaults + 1
    BY <1>1, <1>2, <2>1
  <2> QED
    BY <1>1, <1>2, <2>1, <2>2, <2>3, <2>4
<1>17. CASE Crash
  <2>1. /\ \A u \in Runs : run'[u] = "off"
        /\ UNCHANGED <<sent, dbFaults>> /\ crashes' = crashes + 1
    BY <1>17 DEF Crash
  <2> QED
    BY <1>1, <1>2, <2>1
<1> QED
  BY <1>6, <1>7, <1>8, <1>9, <1>10, <1>11, <1>12, <1>13, <1>14, <1>15, <1>16,
     <1>17 DEF Next, HandlerStep, RunStep, Fault

\* A run that gets to markPublished has sent its row, and a copy that is
\* buffered or delivered was sent.
LEMMA RecordStep ==
  ASSUME IInv, [Next]_vars, TypeOK'
  PROVE  SendsRecorded'
<1> DEFINE Sent(t) == run[t] = "markPublished" => sent[Row(t)] > 0
           Copies(r) == buffer[r] + delivered[r] <= sent[r]
           Goal == (\A t \in Runs : Sent(t)) /\ \A r \in Requests : Copies(r)
<1> SUFFICES Goal'
  BY DEF SendsRecorded
<1>1. Goal
  BY DEF IInv, SendsRecorded
<1>2. \A r \in Requests : /\ buffer[r] \in Nat /\ delivered[r] \in Nat
                          /\ sent[r] \in Nat
  BY DEF IInv, TypeOK
<1>3. ASSUME UNCHANGED <<buffer, delivered, sent>>,
             \A t \in Runs : run'[t] = "markPublished" =>
                              run[t] = "markPublished" /\ Row(t)' = Row(t)
      PROVE  Goal'
  BY <1>1, <1>3
<1>4. ASSUME UNCHANGED <<rows, createdAt>>
      PROVE  \A t \in Runs : Row(t)' = Row(t)
  BY <1>4, RowStable
<1>5. ASSUME NEW t \in Runs, UNCHANGED createdAt,
             \A u \in Runs \ {t} : run'[u] = run[u] /\ rows'[u] = rows[u]
      PROVE  \A u \in Runs \ {t} : Row(u)' = Row(u) /\ run'[u] = run[u]
  BY <1>5, RowStable
<1> USE DEF SetRun, SetEvent, DbFault, http, outbox, ticking, amqp, context
<1>6. CASE UNCHANGED vars
  BY <1>3, <1>4, <1>6 DEF vars
<1>7. ASSUME NEW r \in Requests,
             \/ Receive(r)
             \/ InsertOrder(r) \/ RefuseOrder(r) \/ InsertOrderFails(r)
      PROVE  Goal'
  BY <1>3, <1>4, <1>7
     DEF Receive, InsertOrder, RefuseOrder, InsertOrderFails
<1>8. ASSUME NEW r \in Requests, CreateEvent(r) \/ CreateEventFails(r)
      PROVE  Goal'
  <2>1. UNCHANGED <<run, rows, buffer, delivered, sent>>
    BY <1>8 DEF CreateEvent, CreateEventFails
  <2>2. \A t \in Runs : r \notin rows[t]
    BY <1>8 DEF CreateEvent, CreateEventFails, IInv, Progress, RowsStored,
                Stored
  <2>3. \A s \in Requests \ {r} : createdAt'[s] = createdAt[s]
    BY <1>8 DEF CreateEvent, CreateEventFails, StoreEvent, IInv, TypeOK
  <2>4. \A t \in Runs : Row(t)' = Row(t)
    BY <2>1, <2>2, <2>3, RowStable DEF IInv, TypeOK
  <2> QED
    BY <1>3, <2>1, <2>4
<1>9. ASSUME NEW t \in Runs,
             \/ Tick(t) \/ Fetch(t) \/ FetchFails(t) \/ PublishThrows(t)
             \/ MarkPublished(t) \/ MarkPublishedFails(t)
             \/ MarkFailed(t) \/ MarkFailedFails(t)
      PROVE  Goal'
  <2>1. /\ UNCHANGED <<createdAt, buffer, delivered, sent>>
        /\ run'[t] # "markPublished"
        /\ \A u \in Runs \ {t} : run'[u] = run[u] /\ rows'[u] = rows[u]
    BY <1>9 DEF Tick, Fetch, FetchFails, PublishThrows, MarkPublished,
                MarkPublishedFails, MarkFailed, MarkFailedFails, NextRow,
                IInv, TypeOK
  <2> QED
    BY <1>3, <1>5, <2>1
<1>10. ASSUME NEW t \in Runs, PublishEvent(t) PROVE Goal'
  <2>1. UNCHANGED <<rows, createdAt, delivered>> /\ rows[t] # {}
    BY <1>10 DEF PublishEvent, IInv, TypeOK, RowsStored
  <2>2. Row(t) \in Requests /\ \A u \in Runs : Row(u)' = Row(u)
    BY <1>4, <2>1, RowInBatch DEF IInv
  <2>3. /\ \A r \in Requests \ {Row(t)} :
             buffer'[r] = buffer[r] /\ sent'[r] = sent[r]
        /\ buffer'[Row(t)] = buffer[Row(t)] + 1
        /\ sent'[Row(t)] = sent[Row(t)] + 1
        /\ \A u \in Runs \ {t} : run'[u] = run[u]
    BY <1>10, <2>2 DEF PublishEvent, IInv, TypeOK
  <2>4. \A r \in Requests : Copies(r)' /\ sent'[r] >= sent[r]
    BY <1>1, <1>2, <2>1, <2>3
  <2>5. \A u \in Runs \ {t} : Sent(u)'
    <3> SUFFICES ASSUME NEW u \in Runs \ {t}, run[u] = "markPublished"
                 PROVE  sent'[Row(u)] > 0
      BY <2>2, <2>3
    <3>1. Row(u) \in Requests
      BY RowInBatch DEF IInv, RowsStored
    <3>2. sent[Row(u)] > 0 /\ sent'[Row(u)] >= sent[Row(u)]
      BY <1>1, <2>4, <3>1
    <3> QED
      BY <1>2, <2>3, <3>1, <3>2
  <2>6. Sent(t)'
    BY <1>2, <2>2, <2>3
  <2> QED
    BY <2>4, <2>5, <2>6
<1>11. ASSUME NEW r \in Requests, Flush(r) PROVE Goal'
  <2>1. UNCHANGED <<run, sent>> /\ \A t \in Runs : Row(t)' = Row(t)
    BY <1>4, <1>11 DEF Flush
  <2>2. \A s \in Requests : Copies(s)'
    BY <1>1, <1>2, <1>11 DEF Flush, IInv, TypeOK
  <2> QED
    BY <1>1, <2>1, <2>2
<1>12. CASE BindQueue
  BY <1>3, <1>4, <1>12 DEF BindQueue
<1>13. CASE CloseChannel \/ Crash
  <2>1. /\ UNCHANGED <<sent, delivered>>
        /\ \A r \in Requests : buffer'[r] = 0
        /\ \A t \in Runs : run'[t] = "markPublished" =>
                            UNCHANGED <<run, rows, createdAt>>
    BY <1>13 DEF CloseChannel, Crash, NoBuffer
  <2>2. \A r \in Requests : Copies(r)'
    BY <1>1, <1>2, <2>1
  <2> QED
    BY <1>1, <1>4, <2>1, <2>2
<1> QED
  BY <1>6, <1>7, <1>8, <1>9, <1>10, <1>11, <1>12, <1>13
     DEF Next, HandlerStep, RunStep, Fault

LEMMA InvStep == IInv /\ [Next]_vars => IInv'
<1> SUFFICES ASSUME IInv, [Next]_vars PROVE IInv'
  OBVIOUS
<1>1. TypeOK'
  BY TypeStep
<1>2. Progress' /\ AcceptedIsDurable' /\ RowsStored' /\ OneRun'
  BY <1>1, StorageStep
<1>3. IsFiniteSet(Stored)' /\ (crashes = 0 => IsFiniteSet(Orphans))' /\ OrphanNeedsFault'
  BY <1>1, OrphanStep
<1>4. SendsArePaid' /\ ResendNeedsFault'
  BY <1>1, <1>2, SendStep
<1>5. SendsRecorded'
  BY <1>1, RecordStep
<1> QED
  BY <1>1, <1>2, <1>3, <1>4, <1>5 DEF IInv

\* Every reachable state of the order service satisfies the inductive
\* invariant: rows are written in order, orphans and resends are paid for.
THEOREM Invariance == Spec => []IInv
<1> QED
  BY InvInit, InvStep, PTL DEF Spec

\* A 202 of POST /orders means that the order row and the event are stored,
\* and no event is ever stored without its order.
THEOREM Durability == Spec => []AcceptedIsDurable
<1>1. IInv => AcceptedIsDurable
  BY DEF IInv
<1> QED
  BY <1>1, Invariance, PTL

\* The two database calls of createOrder leave at most one order without
\* event per failing call, as long as the process does not crash.
THEOREM OrphansArePaid == Spec => []OrphanNeedsFault
<1>1. IInv => OrphanNeedsFault
  BY DEF IInv
<1> QED
  BY <1>1, Invariance, PTL

\* A timer whose runs do not overlap publishes an event again only after a
\* crash or two failing mark calls, for any number of rows and any batch size.
THEOREM ResendsArePaid == Spec => []ResendNeedsFault
<1>1. IInv => ResendNeedsFault
  BY DEF IInv
<1> QED
  BY <1>1, Invariance, PTL

\* Every step of handlers, overlapping runs, failures and crashes is one of
\* the steps OrderEvents allows, or changes nothing it speaks of.
THEOREM EventsRefinement == Spec => ImplementsEvents
<1> DEFINE placed == {r \in Requests : order[r] # "absent"}
<1> USE DEF SetRun, SetEvent, Answer, http, outbox, ticking, amqp, context
<1>1. Init => Events!Init
  BY DEF Init, Events!Init
<1>2. IInv /\ [Next]_vars => [Events!Next]_(Events!vars)
  <2> SUFFICES ASSUME IInv, [Next]_vars
               PROVE  Events!Next \/ UNCHANGED <<placed, event, sent, delivered>>
    BY DEF Events!vars
  <2> DEFINE Kept == UNCHANGED <<placed, event, sent, delivered>>
             Allowed == Events!Next \/ Kept
  <2>1. ASSUME UNCHANGED <<order, event, sent, delivered>> PROVE Allowed
    BY <2>1
  <2>2. ASSUME NEW r \in Requests, InsertOrder(r) PROVE Allowed
    <3>1. order[r] = "absent" /\ UNCHANGED <<event, sent, delivered>>
      BY <2>2 DEF InsertOrder, IInv, Progress
    <3>2. placed' = placed \union {r}
      BY <2>2 DEF InsertOrder, IInv, TypeOK
    <3> QED
      BY <3>1, <3>2 DEF Events!Place, Events!Next
  <2>3. ASSUME NEW r \in Requests, CreateEvent(r) \/ CreateEventFails(r)
        PROVE  Allowed
    <3>1. /\ order[r] # "absent" /\ event[r] = "absent"
          /\ UNCHANGED <<order, sent, delivered>>
          /\ UNCHANGED event \/ event' = [event EXCEPT ![r] = "PENDING"]
      BY <2>3 DEF CreateEvent, CreateEventFails, StoreEvent, IInv, Progress
    <3>2. event' = [event EXCEPT ![r] = "PENDING"] => Events!Store(r)
      BY <3>1 DEF Events!Store
    <3> QED
      BY <3>1, <3>2, <2>1 DEF Events!Next
  \* A run that publishes or marks works on a stored row.
  <2>4. ASSUME NEW t \in Runs, run[t] \notin {"off", "fetch"}
        PROVE  Row(t) \in Requests /\ event[Row(t)] # "absent"
    BY <2>4, RowInBatch DEF IInv, RowsStored, Stored
  <2>5. ASSUME NEW t \in Runs, PublishEvent(t) PROVE Allowed
    <3>1. Events!Send(Row(t))
      BY <2>4, <2>5 DEF PublishEvent, Events!Send
    <3> QED
      BY <2>4, <2>5, <3>1 DEF PublishEvent, Events!Next
  <2>6. ASSUME NEW t \in Runs,
               \/ MarkPublished(t) \/ MarkPublishedFails(t)
               \/ MarkFailed(t) \/ MarkFailedFails(t)
        PROVE  Allowed
    <3>1. /\ run[t] \in {"markPublished", "markFailed"}
          /\ UNCHANGED <<order, sent, delivered>>
          /\ \/ UNCHANGED event
             \/ run[t] = "markPublished"
                /\ event' = [event EXCEPT ![Row(t)] = "PUBLISHED"]
             \/ event' = [event EXCEPT ![Row(t)] = "FAILED"]
      BY <2>6
         DEF MarkPublished, MarkPublishedFails, MarkFailed, MarkFailedFails
    <3>2. run[t] = "markPublished" => sent[Row(t)] > 0
      BY DEF IInv, SendsRecorded
    <3>3. UNCHANGED event \/ Events!Settle(Row(t))
      BY <2>4, <3>1, <3>2 DEF Events!Settle
    <3> QED
      BY <2>1, <2>4, <3>1, <3>3 DEF Events!Next
  <2>7. ASSUME NEW r \in Requests, Flush(r) PROVE Allowed
    <3>1. delivered[r] < sent[r]
      BY <2>7 DEF Flush, IInv, TypeOK, SendsRecorded
    <3>2. /\ UNCHANGED <<order, event, sent>>
          /\ \/ UNCHANGED delivered
             \/ delivered' = [delivered EXCEPT ![r] = @ + 1]
      BY <2>7 DEF Flush
    <3>3. UNCHANGED delivered \/ Events!Deliver(r)
      BY <3>1, <3>2 DEF Events!Deliver
    <3> QED
      BY <2>1, <3>2, <3>3 DEF Events!Next
  <2>8. ASSUME NEW r \in Requests,
               Receive(r) \/ RefuseOrder(r) \/ InsertOrderFails(r)
        PROVE  Allowed
    BY <2>1, <2>8 DEF Receive, RefuseOrder, InsertOrderFails
  <2>9. ASSUME NEW t \in Runs,
               Tick(t) \/ Fetch(t) \/ FetchFails(t) \/ PublishThrows(t)
        PROVE  Allowed
    BY <2>1, <2>9 DEF Tick, Fetch, FetchFails, PublishThrows
  <2>10. CASE BindQueue \/ CloseChannel \/ Crash
    BY <2>1, <2>10 DEF BindQueue, CloseChannel, Crash
  <2>11. CASE UNCHANGED vars
    BY <2>1, <2>11 DEF vars
  <2> QED
    BY <2>2, <2>3, <2>5, <2>6, <2>7, <2>8, <2>9, <2>10, <2>11
       DEF Next, HandlerStep, RunStep, Fault
<1> QED
  BY <1>1, <1>2, Invariance, PTL DEF Spec, ImplementsEvents, Events!Spec

==============================================================================

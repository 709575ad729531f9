----------------------- MODULE GatewayIdempotencyProofs -----------------------
(***************************************************************************)
(* Theorems about GatewayIdempotency for any requests and keys, and any    *)
(* number of failing calls and crashes, with or without expiry.            *)
(***************************************************************************)
EXTENDS GatewayIdempotency, FiniteSetTheorems, TLAPS

\* Nothing is stored, locked, created or answered in the initial state.
LEMMA InvInit == Init => IInv
<1> SUFFICES ASSUME Init PROVE IInv
  OBVIOUS
<1>1. TypeOK
  <2>1. expired \in BOOLEAN
    BY Zenon DEF Init
  <2> QED
    BY <2>1, BoundAssumption DEF Init, TypeOK, Stages
<1>2. Progress /\ ResultIsOrder /\ AcceptedOrderExists /\ RetryIsServed
  BY DEF Init, Progress, ResultIsOrder, AcceptedOrderExists, RetryIsServed
<1>3. HolderOwnsLock /\ LockHasHolder
  BY DEF Init, HolderOwnsLock, LockHasHolder, HoldingStages
<1>4. \A k \in Keys : Orders(k) = {}
  BY DEF Init, Orders
<1>5. OrdersArePaid /\ ExtraOrderNeedsFault
  BY <1>4, FS_EmptySet, BoundAssumption DEF Init, OrdersArePaid, ExtraOrderNeedsFault
<1> QED
  BY <1>1, <1>2, <1>3, <1>5 DEF IInv

LEMMA TypeStep ==
  ASSUME TypeOK, Progress, ResultIsOrder, [Next]_vars
  PROVE  TypeOK'
<1> USE BoundAssumption DEF TypeOK, Stages, Goto, Reply, Finish, RedisFault,
        ServiceFault, request, redis, bounds
<1>1. CASE UNCHANGED vars
  BY <1>1 DEF vars
<1>2. ASSUME NEW r \in Requests,
             Throttle(r) \/ RejectInvalid(r) \/ RejectAnonymous(r) \/ Receive(r)
      PROVE  TypeOK'
  BY <1>2 DEF Throttle, RejectInvalid, RejectAnonymous, Receive, TurnAway
<1>3. ASSUME NEW r \in Requests, GetHit(r) \/ GetMiss(r) \/ GetFails(r)
      PROVE  TypeOK'
  BY <1>3 DEF GetHit, GetMiss, GetFails, Progress
<1>4. ASSUME NEW r \in Requests, Reserve(r) \/ ReserveBusy(r) \/ ReserveFails(r)
      PROVE  TypeOK'
  BY <1>4 DEF Reserve, ReserveBusy, ReserveFails, Progress
<1>5. ASSUME NEW r \in Requests, Process(r) \/ ProcessFails(r)
      PROVE  TypeOK'
  BY <1>5 DEF Process, ProcessFails
<1>6. ASSUME NEW r \in Requests, Store(r) \/ StoreFails(r)
      PROVE  TypeOK'
  BY <1>6 DEF Store, StoreFails, SetResult, Progress
<1>7. ASSUME NEW r \in Requests,
             DelLock(r) \/ DelLockFails(r) \/ Release(r) \/ ReleaseFails(r)
      PROVE  TypeOK'
  BY <1>7 DEF DelLock, DelLockFails, Release, ReleaseFails
<1>8. ASSUME NEW k \in Keys, ExpireLock(k) \/ ExpireResult(k)
      PROVE  TypeOK'
  <2>1. expired' \in BOOLEAN
    BY <1>8, Zenon DEF ExpireLock, ExpireResult
  <2>2. stored' = stored /\ lapsed' \subseteq stored
    BY <1>8 DEF ExpireLock, ExpireResult, ResultIsOrder
  <2> QED
    BY <1>8, <2>1, <2>2 DEF ExpireLock, ExpireResult
<1>9. CASE Crash
  BY <1>9 DEF Crash
<1> QED
  BY <1>1, <1>2, <1>3, <1>4, <1>5, <1>6, <1>7, <1>8, <1>9
     DEF Next, RequestStep, RequestFault, AllDone

\* Orders, stored results and answers: what Redis and the clients were told
\* stays true, and a retry is served from the stored result.
LEMMA ResultStep ==
  ASSUME IInv, [Next]_vars, TypeOK'
  PROVE  Progress' /\ ResultIsOrder' /\ AcceptedOrderExists' /\ RetryIsServed'
<1> DEFINE Goal == Progress /\ ResultIsOrder /\ AcceptedOrderExists /\ RetryIsServed
<1> SUFFICES Goal'
  OBVIOUS
<1> USE KeyAssumption, OrderAssumption
    DEF IInv, TypeOK, Stages, Progress, ResultIsOrder, AcceptedOrderExists,
        RetryIsServed, Goto, Reply, Finish, RedisFault, ServiceFault, request,
        redis, bounds
<1>1. CASE UNCHANGED vars
  BY <1>1 DEF vars
<1>2. ASSUME NEW r \in Requests,
             Throttle(r) \/ RejectInvalid(r) \/ RejectAnonymous(r)
      PROVE  Goal'
  BY <1>2 DEF Throttle, RejectInvalid, RejectAnonymous, TurnAway
<1>3. ASSUME NEW r \in Requests, Receive(r) PROVE Goal'
  BY <1>3 DEF Receive
<1>4. ASSUME NEW r \in Requests, GetHit(r) PROVE Goal'
  BY <1>4 DEF GetHit
<1>5. ASSUME NEW r \in Requests, GetMiss(r) \/ GetFails(r) PROVE Goal'
  BY <1>5 DEF GetMiss, GetFails
<1>6. ASSUME NEW r \in Requests, Reserve(r) \/ ReserveBusy(r) \/ ReserveFails(r)
      PROVE  Goal'
  BY <1>6 DEF Reserve, ReserveBusy, ReserveFails
<1>7. ASSUME NEW r \in Requests, Process(r) \/ ProcessFails(r) PROVE Goal'
  BY <1>7 DEF Process, ProcessFails
<1>8. ASSUME NEW r \in Requests, Store(r) \/ StoreFails(r) PROVE Goal'
  BY <1>8 DEF Store, StoreFails, SetResult
<1>9. ASSUME NEW r \in Requests, DelLock(r) \/ DelLockFails(r) PROVE Goal'
  BY <1>9 DEF DelLock, DelLockFails
<1>10. ASSUME NEW r \in Requests, Release(r) \/ ReleaseFails(r) PROVE Goal'
  BY <1>10 DEF Release, ReleaseFails
<1>11. ASSUME NEW k \in Keys, ExpireLock(k) PROVE Goal'
  BY <1>11 DEF ExpireLock
<1>12. ASSUME NEW k \in Keys, ExpireResult(k) PROVE Goal'
  BY <1>12 DEF ExpireResult
<1>13. CASE Crash
  BY <1>13 DEF Crash
<1> QED
  BY <1>1, <1>2, <1>3, <1>4, <1>5, <1>6, <1>7, <1>8, <1>9, <1>10, <1>11, <1>12,
     <1>13 DEF Next, RequestStep, RequestFault, AllDone

\* The lock: a request that reserved a key excludes the others, and leaves
\* the lock behind only when Redis fails it or the process crashes.
LEMMA LockStep ==
  ASSUME IInv, [Next]_vars, TypeOK'
  PROVE  HolderOwnsLock' /\ LockHasHolder'
<1> DEFINE Goal == HolderOwnsLock /\ LockHasHolder
<1> SUFFICES Goal'
  OBVIOUS
<1> USE BoundAssumption
    DEF IInv, TypeOK, Stages, HoldingStages, Unsettled, Progress, HolderOwnsLock,
        LockHasHolder, Goto, Reply, Finish, RedisFault, ServiceFault, request,
        redis, bounds
<1>1. CASE UNCHANGED vars
  BY <1>1 DEF vars
<1>2. ASSUME NEW r \in Requests,
             \/ Throttle(r) \/ RejectInvalid(r) \/ RejectAnonymous(r)
             \/ Receive(r) \/ GetHit(r) \/ GetMiss(r) \/ GetFails(r)
      PROVE  Goal'
  BY <1>2 DEF Throttle, RejectInvalid, RejectAnonymous, TurnAway, Receive,
              GetHit, GetMiss, GetFails
<1>3. ASSUME NEW r \in Requests, Reserve(r) PROVE Goal'
  BY <1>3 DEF Reserve
<1>4. ASSUME NEW r \in Requests, ReserveBusy(r) \/ ReserveFails(r) PROVE Goal'
  BY <1>4 DEF ReserveBusy, ReserveFails
<1>5. ASSUME NEW r \in Requests, Process(r) \/ ProcessFails(r) PROVE Goal'
  BY <1>5 DEF Process, ProcessFails
<1>6. ASSUME NEW r \in Requests, Store(r) \/ StoreFails(r) PROVE Goal'
  BY <1>6 DEF Store, StoreFails, SetResult
<1>7. ASSUME NEW r \in Requests, DelLock(r) \/ DelLockFails(r) PROVE Goal'
  BY <1>7 DEF DelLock, DelLockFails
<1>8. ASSUME NEW r \in Requests, Release(r) \/ ReleaseFails(r) PROVE Goal'
  BY <1>8 DEF Release, ReleaseFails
<1>9. ASSUME NEW k \in Keys, ExpireLock(k) \/ ExpireResult(k) PROVE Goal'
  BY <1>9 DEF ExpireLock, ExpireResult
<1>10. CASE Crash
  BY <1>10 DEF Crash
<1> QED
  BY <1>1, <1>2, <1>3, <1>4, <1>5, <1>6, <1>7, <1>8, <1>9, <1>10
     DEF Next, RequestStep, RequestFault, AllDone

\* The number of orders of a key is a natural number, unchanged as long as
\* no order is created.
LEMMA OrdersCount ==
  ASSUME IsFiniteSet(created), NEW k \in Keys
  PROVE  /\ IsFiniteSet(Orders(k))
         /\ Cardinality(Orders(k)) \in Nat
         /\ UNCHANGED created => Cardinality(Orders(k))' = Cardinality(Orders(k))
<1>1. Orders(k) \in SUBSET created
  BY DEF Orders
<1>2. IsFiniteSet(Orders(k))
  BY <1>1, FS_Subset
<1>3. Cardinality(Orders(k)) \in Nat
  BY <1>2, FS_CardinalityType
<1>4. UNCHANGED created => Orders(k)' = Orders(k)
  BY DEF Orders
<1> QED
  BY <1>2, <1>3, <1>4

\* A call of the order service adds at most one order, to its own key.
LEMMA OrderAdded ==
  ASSUME IsFiniteSet(created), NEW r \in Requests, NEW k \in Keys,
         created' = created \union {r}
  PROVE  /\ IsFiniteSet(created')
         /\ Cardinality(Orders(k)') \in Nat
         /\ Cardinality(Orders(k)') <= Cardinality(Orders(k)) + 1
         /\ Key[r] # k => Cardinality(Orders(k)') = Cardinality(Orders(k))
<1>1. IsFiniteSet(Orders(k)) /\ Cardinality(Orders(k)) \in Nat
  BY OrdersCount
<1>2. IsFiniteSet(created')
  BY FS_AddElement
<1>3. CASE Key[r] = k
  <2>1. Orders(k)' = Orders(k) \union {r}
    BY <1>3 DEF Orders
  <2>2. Cardinality(Orders(k) \union {r})
          = IF r \in Orders(k) THEN Cardinality(Orders(k))
                               ELSE Cardinality(Orders(k)) + 1
    BY <1>1, FS_AddElement
  <2> QED
    BY <1>1, <1>2, <1>3, <2>1, <2>2
<1>4. CASE Key[r] # k
  <2>1. Orders(k)' = Orders(k)
    BY <1>4 DEF Orders
  <2> QED
    BY <1>1, <1>2, <1>4, <2>1
<1> QED
  BY <1>3, <1>4

\* The count of orders per key.  Only a request that holds the lock calls the
\* order service, and its key has no unpaid order then.
LEMMA CountStep ==
  ASSUME IInv, [Next]_vars, TypeOK', HolderOwnsLock', Progress'
  PROVE  OrdersArePaid' /\ ExtraOrderNeedsFault'
<1> DEFINE Paid(k) ==
             /\ Unsettled(k)
             /\ \/ k \notin lock
                \/ \E r \in Requests : /\ Key[r] = k
                                      /\ stage[r] \in {"process", "release"}
           Few(k) ==
             /\ Paid(k) => Cardinality(Orders(k)) <= redisFaults + serviceFaults
             /\ Unsettled(k) =>
                  Cardinality(Orders(k)) <= 1 + redisFaults + serviceFaults
<1>1. SUFFICES IsFiniteSet(created') /\ \A k \in Keys : Few(k)'
  BY DEF OrdersArePaid, ExtraOrderNeedsFault, Unsettled
<1>2. IsFiniteSet(created) /\ \A k \in Keys : Few(k)
  BY DEF IInv, OrdersArePaid, ExtraOrderNeedsFault, Unsettled
<1>3. /\ redisFaults \in Nat /\ redisFaults' \in Nat
      /\ serviceFaults \in Nat /\ serviceFaults' \in Nat
  BY BoundAssumption DEF IInv, TypeOK
<1>4. ASSUME UNCHANGED created,
             redisFaults <= redisFaults', serviceFaults <= serviceFaults',
             \A k \in Keys : (Unsettled(k)' => Unsettled(k)) /\ (Paid(k)' => Paid(k))
      PROVE  IsFiniteSet(created') /\ \A k \in Keys : Few(k)'
  BY <1>2, <1>3, <1>4, OrdersCount
<1> USE BoundAssumption
    DEF IInv, TypeOK, Stages, Unsettled, Progress, Goto, Reply, Finish,
        RedisFault, ServiceFault, request, redis, bounds
<1>5. CASE UNCHANGED vars
  BY <1>4, <1>5 DEF vars
<1>6. ASSUME NEW r \in Requests,
             \/ Throttle(r) \/ RejectInvalid(r) \/ RejectAnonymous(r)
             \/ Receive(r) \/ GetHit(r) \/ GetMiss(r) \/ GetFails(r)
             \/ Reserve(r) \/ ReserveBusy(r) \/ ReserveFails(r)
      PROVE  IsFiniteSet(created') /\ \A k \in Keys : Few(k)'
  BY <1>4, <1>6 DEF Throttle, RejectInvalid, RejectAnonymous, TurnAway, Receive,
                    GetHit, GetMiss, GetFails, Reserve, ReserveBusy, ReserveFails
<1>7. ASSUME NEW r \in Requests, Process(r) \/ ProcessFails(r)
      PROVE  IsFiniteSet(created') /\ \A k \in Keys : Few(k)'
  <2> USE DEF Process, ProcessFails
  <2>1. CASE UNCHANGED created
    <3>1. ProcessFails(r) /\ serviceFaults' = serviceFaults + 1
      BY <1>7, <2>1
    <3>2. Unsettled(Key[r]) => Paid(Key[r])
      BY <3>1
    <3>3. \A k \in Keys : /\ Unsettled(k)' => Unsettled(k)
                         /\ Paid(k)' /\ k # Key[r] => Paid(k)
      BY <3>1
    <3> QED
      BY <1>2, <1>3, <2>1, <3>1, <3>2, <3>3, OrdersCount
  <2>2. CASE created' = created \union {r}
    <3> SUFFICES ASSUME NEW k \in Keys PROVE IsFiniteSet(created') /\ Few(k)'
      BY <1>2, <2>2, FS_AddElement
    <3>1. /\ IsFiniteSet(created')
          /\ Cardinality(Orders(k)') \in Nat
          /\ Cardinality(Orders(k)) \in Nat
          /\ Cardinality(Orders(k)') <= Cardinality(Orders(k)) + 1
          /\ Key[r] # k => Cardinality(Orders(k)') = Cardinality(Orders(k))
      BY <1>2, <2>2, OrderAdded, OrdersCount
    <3>2. /\ redisFaults' = redisFaults /\ serviceFaults <= serviceFaults'
          /\ Unsettled(k)' = Unsettled(k)
      BY <1>3, <1>7
    <3>3. CASE Key[r] # k
      <4>1. Paid(k)' => Paid(k)
        BY <1>7, <3>3
      <4> QED
        BY <1>2, <1>3, <3>1, <3>2, <3>3, <4>1
    <3>4. CASE Key[r] = k
      <4>1. Unsettled(k) => Cardinality(Orders(k)) <= redisFaults + serviceFaults
        BY <1>2, <1>7, <3>4
      <4>2. \/ serviceFaults' = serviceFaults + 1
            \/ ~ Paid(k)'
        BY <1>7, <3>4 DEF HolderOwnsLock, HoldingStages
      <4> QED
        BY <1>3, <3>1, <3>2, <4>1, <4>2
    <3> QED
      BY <3>3, <3>4
  <2> QED
    BY <1>7, <2>1, <2>2
<1>8. ASSUME NEW r \in Requests, Store(r) \/ StoreFails(r)
      PROVE  IsFiniteSet(created') /\ \A k \in Keys : Few(k)'
  <2>1. /\ UNCHANGED created
        /\ redisFaults <= redisFaults' /\ UNCHANGED serviceFaults
        /\ \A k \in Keys : /\ Unsettled(k)' => Unsettled(k)
                           /\ Paid(k)' /\ k # Key[r] => Paid(k)
        /\ Unsettled(Key[r])' => redisFaults' = redisFaults + 1
    BY <1>3, <1>8 DEF Store, StoreFails, SetResult
  <2> QED
    BY <1>2, <1>3, <2>1, OrdersCount
<1>9. ASSUME NEW r \in Requests, DelLock(r) \/ DelLockFails(r)
      PROVE  IsFiniteSet(created') /\ \A k \in Keys : Few(k)'
  BY <1>4, <1>9 DEF DelLock, DelLockFails
<1>10. ASSUME NEW r \in Requests, Release(r) \/ ReleaseFails(r)
      PROVE  IsFiniteSet(created') /\ \A k \in Keys : Few(k)'
  BY <1>4, <1>10 DEF Release, ReleaseFails
<1>11. ASSUME NEW k \in Keys, ExpireLock(k) \/ ExpireResult(k)
      PROVE  IsFiniteSet(created') /\ \A j \in Keys : Few(j)'
  BY <1>4, <1>11 DEF ExpireLock, ExpireResult
<1>12. CASE Crash
  BY <1>4, <1>12 DEF Crash
<1> QED
  BY <1>5, <1>6, <1>7, <1>8, <1>9, <1>10, <1>11, <1>12
     DEF Next, RequestStep, RequestFault, AllDone

LEMMA InvStep == IInv /\ [Next]_vars => IInv'
<1> SUFFICES ASSUME IInv, [Next]_vars PROVE IInv'
  OBVIOUS
<1>1. TypeOK'
  BY TypeStep DEF IInv
<1>2. Progress' /\ ResultIsOrder' /\ AcceptedOrderExists' /\ RetryIsServed'
  BY <1>1, ResultStep
<1>3. HolderOwnsLock' /\ LockHasHolder'
  BY <1>1, LockStep
<1>4. OrdersArePaid' /\ ExtraOrderNeedsFault'
  BY <1>1, <1>2, <1>3, CountStep
<1> QED
  BY <1>1, <1>2, <1>3, <1>4 DEF IInv

\* In every reachable state results, answers and retries name orders of their
\* key, a lock has its holder, and each surplus order its failed call.
THEOREM Invariance == Spec => []IInv
<1> QED
  BY InvInit, InvStep, PTL DEF Spec

\* A retry after a 202 creates an order only when the result has lapsed,
\* whatever failed or raced before: getCachedIdempotencyRecord comes before
\* the reservation, and the 202 after storeIdempotencyRecord.
THEOREM RetryIsIdempotent == Spec => []RetryCreatesNothing
<1>1. IInv => RetryCreatesNothing
  BY DEF IInv, RetryIsServed, RetryCreatesNothing
<1> QED
  BY <1>1, Invariance, PTL

\* Each 202 names an order that exists, created for a request with its key.
THEOREM AcceptedIsCreated == Spec => []AcceptedOrderExists
<1>1. IInv => AcceptedOrderExists
  BY DEF IInv
<1> QED
  BY <1>1, Invariance, PTL

\* The Redis lock, although it carries no owner, is a mutual exclusion until
\* a result is stored or a lock runs out.
THEOREM LockExcludes == Spec => []ExclusiveUntilStored
<1>1. IInv => ExclusiveUntilStored
  BY DEF IInv, HolderOwnsLock, HoldingStages, Unsettled, Executing,
         ExclusiveUntilStored
<1> QED
  BY <1>1, Invariance, PTL

\* Every order of a key beyond the first is paid for by a failed call of its
\* own; crashes create none.
THEOREM ExtraOrdersArePaid == Spec => []ExtraOrderNeedsFault
<1>1. IInv => ExtraOrderNeedsFault
  BY DEF IInv
<1> QED
  BY <1>1, Invariance, PTL

\* finally releases each lock unless Redis fails or the process crashes.
THEOREM LocksAreReleased == Spec => []LockNotLeaked
<1>1. IInv => LockNotLeaked
  BY DEF IInv, LockHasHolder, HoldingStages, Stages, LockNotLeaked
<1> QED
  BY <1>1, Invariance, PTL

==============================================================================

------------------------- MODULE GatewayIdempotency -------------------------
(***************************************************************************)
(* The gateway's POST /orders route: the hooks in front of the handler     *)
(* (rate limit, schema validation, token check, in this order), the        *)
(* handler, and the two Redis keys it keeps per Idempotency-Key: a lock    *)
(* (SET NX EX 60, value "1", no owner) and the stored result (SET EX 24h). *)
(*                                                                         *)
(* Requests run concurrently in one or more gateway processes; every await *)
(* is a step boundary, and stage[r] names the call request r waits for.    *)
(* Redis executes one command at a time.  The order service is external:   *)
(* a call creates an order or not, and its reply arrives or not.           *)
(* An order is named by the request that created it.                       *)
(***************************************************************************)
EXTENDS Integers, FiniteSets

CONSTANTS Requests,         \* POST /orders requests
          Keys,             \* valid values of the Idempotency-Key header
          NoKey,            \* the header or the body violates its schema
          NoOrder,          \* Redis holds no result
          Key,              \* the key of each request
          LocksMayExpire,   \* requests may outlive the lock's 60 seconds
          ResultsMayExpire, \* requests may come 24 hours after the first
          MaxRedisFaults,   \* bound: failing Redis calls
          MaxServiceFaults, \* bound: failing order-service calls
          MaxCrashes        \* bound: crashes of the gateway

ASSUME KeyAssumption == NoKey \notin Keys /\ Key \in [Requests -> Keys \union {NoKey}]
ASSUME OrderAssumption == NoOrder \notin Requests
ASSUME BoundAssumption == /\ LocksMayExpire \in BOOLEAN
                          /\ ResultsMayExpire \in BOOLEAN
                          /\ MaxRedisFaults \in Nat
                          /\ MaxServiceFaults \in Nat
                          /\ MaxCrashes \in Nat

VARIABLES
  stage,      \* the call each request waits for
  answer,     \* status code sent, 0 before
  body,       \* the order named in a 202 answer
  lock,       \* keys whose lock exists in Redis
  result,     \* stored result of each key
  created,    \* requests for which the order service created an order
  \* history and bounds
  retry,      \* requests received after a 202 for their key was sent
  stored,     \* keys for which a result was ever stored
  expired,    \* some lock has expired
  lapsed,     \* keys whose result has expired
  redisFaults, serviceFaults, crashes

request == <<stage, answer, body>>
redis   == <<lock, result, stored, expired, lapsed>>
bounds  == <<redisFaults, serviceFaults, crashes>>
vars    == <<request, redis, created, retry, bounds>>

Stages == {"new", "get", "reserve", "process", "store", "delLock",
           "release", "done"}

\* Inside the try block, before the result is stored.
Executing(r) == stage[r] \in {"process", "store"}

TypeOK ==
  /\ stage \in [Requests -> Stages]
  /\ answer \in [Requests -> {0, 202, 401, 409, 500}]
  /\ body \in [Requests -> Requests \union {NoOrder}]
  /\ lock \subseteq Keys
  /\ result \in [Keys -> Requests \union {NoOrder}]
  /\ created \subseteq Requests
  /\ retry \subseteq Requests
  /\ stored \subseteq Keys
  /\ expired \in BOOLEAN
  /\ lapsed \subseteq stored
  /\ redisFaults \in 0..MaxRedisFaults
  /\ serviceFaults \in 0..MaxServiceFaults
  /\ crashes \in 0..MaxCrashes

Init ==
  /\ stage = [r \in Requests |-> "new"]
  /\ answer = [r \in Requests |-> 0]
  /\ body = [r \in Requests |-> NoOrder]
  /\ lock = {}
  /\ result = [k \in Keys |-> NoOrder]
  /\ created = {}
  /\ retry = {}
  /\ stored = {}
  /\ expired = FALSE
  /\ lapsed = {}
  /\ redisFaults = 0
  /\ serviceFaults = 0
  /\ crashes = 0

Goto(r, next) == stage' = [stage EXCEPT ![r] = next]

Reply(r, code, o) ==
  /\ answer' = [answer EXCEPT ![r] = code]
  /\ body' = [body EXCEPT ![r] = o]

\* The handler returns, or throws to Fastify's error handler.
Finish(r, code, o) == Goto(r, "done") /\ Reply(r, code, o)

RedisFault ==
  /\ redisFaults < MaxRedisFaults
  /\ redisFaults' = redisFaults + 1
  /\ UNCHANGED <<serviceFaults, crashes>>

ServiceFault ==
  /\ serviceFaults < MaxServiceFaults
  /\ serviceFaults' = serviceFaults + 1
  /\ UNCHANGED <<redisFaults, crashes>>

-----------------------------------------------------------------------------
(* In front of the handler.  errorHandler knows only AppErrors: it answers *)
(* the limiter's 429 and a failed validation with 500.                     *)

TurnAway(r, code) ==
  /\ stage[r] = "new"
  /\ Finish(r, code, NoOrder)
  /\ UNCHANGED <<redis, created, retry, bounds>>

\* The client's address has used up the limiter's quota of the second.
Throttle(r) == TurnAway(r, 500)

\* A header or body that violates its schema.
RejectInvalid(r) == Key[r] = NoKey /\ TurnAway(r, 500)

\* authHook: the token is missing, invalid or expired.
RejectAnonymous(r) == Key[r] # NoKey /\ TurnAway(r, 401)

\* The handler starts.  Its own check of the header cannot fail any more.
Receive(r) ==
  /\ stage[r] = "new"
  /\ Key[r] # NoKey
  /\ Goto(r, "get")
  /\ retry' = IF \E s \in Requests : Key[s] = Key[r] /\ answer[s] = 202
              THEN retry \union {r} ELSE retry
  /\ UNCHANGED <<answer, body, redis, created, bounds>>

\* getCachedIdempotencyRecord.
GetHit(r) ==
  /\ stage[r] = "get"
  /\ result[Key[r]] # NoOrder
  /\ Finish(r, 202, result[Key[r]])
  /\ UNCHANGED <<redis, created, retry, bounds>>

GetMiss(r) ==
  /\ stage[r] = "get"
  /\ result[Key[r]] = NoOrder
  /\ Goto(r, "reserve")
  /\ UNCHANGED <<answer, body, redis, created, retry, bounds>>

GetFails(r) ==
  /\ stage[r] = "get"
  /\ RedisFault
  /\ Finish(r, 500, NoOrder)
  /\ UNCHANGED <<redis, created, retry>>

\* Faulty variant: SET without NX always answers OK.
ReserveAlways(r) ==
  /\ stage[r] = "reserve"
  /\ lock' = lock \union {Key[r]}
  /\ Goto(r, "process")
  /\ UNCHANGED <<answer, body, result, stored, expired, lapsed, created, retry, bounds>>

\* reserveIdempotencyKey: SET NX EX.
Reserve(r) ==
  /\ stage[r] = "reserve"
  /\ Key[r] \notin lock
  /\ lock' = lock \union {Key[r]}
  /\ Goto(r, "process")
  /\ UNCHANGED <<answer, body, result, stored, expired, lapsed, created, retry, bounds>>

\* Faulty variant: a status code outside the route's response schema.
ReserveBusyLocked(r) ==
  /\ stage[r] = "reserve"
  /\ Key[r] \in lock
  /\ Finish(r, 423, NoOrder)
  /\ UNCHANGED <<redis, created, retry, bounds>>

\* Faulty variant: poll the lock instead of answering 409.
ReserveBusyPolls(r) ==
  /\ stage[r] = "reserve"
  /\ Key[r] \in lock
  /\ UNCHANGED vars

ReserveBusy(r) ==
  /\ stage[r] = "reserve"
  /\ Key[r] \in lock
  /\ Finish(r, 409, NoOrder)
  /\ UNCHANGED <<redis, created, retry, bounds>>

\* Outside the try: a lock set by a call whose reply is lost stays behind.
ReserveFails(r) ==
  /\ stage[r] = "reserve"
  /\ RedisFault
  /\ lock' = lock \union {Key[r]} \/ UNCHANGED lock
  /\ Finish(r, 500, NoOrder)
  /\ UNCHANGED <<result, stored, expired, lapsed, created, retry>>

-----------------------------------------------------------------------------
(* The try block: order service, result, lock.                             *)

\* OrderClient.processOrder succeeds.
Process(r) ==
  /\ stage[r] = "process"
  /\ created' = created \union {r}
  /\ Goto(r, "store")
  /\ UNCHANGED <<answer, body, redis, retry, bounds>>

\* Faulty variant: no finally block, the lock is left to its TTL.
ProcessFailsNoFinally(r) ==
  /\ stage[r] = "process"
  /\ ServiceFault
  /\ created' = created \union {r} \/ UNCHANGED created
  /\ Finish(r, 500, NoOrder)
  /\ UNCHANGED <<redis, retry>>

\* Faulty variant: response.ok and data.success are not checked.
ProcessFailsUnchecked(r) ==
  /\ stage[r] = "process"
  /\ ServiceFault
  /\ created' = created \union {r} \/ UNCHANGED created
  /\ Goto(r, "store")
  /\ UNCHANGED <<answer, body, redis, retry>>

\* It throws: an error answer, or a reply lost after the order was created.
ProcessFails(r) ==
  /\ stage[r] = "process"
  /\ ServiceFault
  /\ created' = created \union {r} \/ UNCHANGED created
  /\ Reply(r, 500, NoOrder)
  /\ Goto(r, "release")
  /\ UNCHANGED <<redis, retry>>

\* storeIdempotencyRecord, first command.
SetResult(r) ==
  /\ result' = [result EXCEPT ![Key[r]] = r]
  /\ stored' = stored \union {Key[r]}
  /\ UNCHANGED <<lock, expired, lapsed>>

Store(r) ==
  /\ stage[r] = "store"
  /\ SetResult(r)
  /\ Goto(r, "delLock")
  /\ UNCHANGED <<answer, body, created, retry, bounds>>

\* Faulty variant: a failing cache write is ignored, the client gets its 202.
StoreFailsIgnored(r) ==
  /\ stage[r] = "store"
  /\ RedisFault
  /\ UNCHANGED redis
  /\ Reply(r, 202, r)
  /\ Goto(r, "release")
  /\ UNCHANGED <<created, retry>>

StoreFails(r) ==
  /\ stage[r] = "store"
  /\ RedisFault
  /\ SetResult(r) \/ UNCHANGED redis
  /\ Reply(r, 500, NoOrder)
  /\ Goto(r, "release")
  /\ UNCHANGED <<created, retry>>

\* storeIdempotencyRecord, second command; the 202 is sent before finally.
DelLock(r) ==
  /\ stage[r] = "delLock"
  /\ lock' = lock \ {Key[r]}
  /\ Reply(r, 202, r)
  /\ Goto(r, "release")
  /\ UNCHANGED <<result, stored, expired, lapsed, created, retry, bounds>>

DelLockFails(r) ==
  /\ stage[r] = "delLock"
  /\ RedisFault
  /\ lock' = lock \ {Key[r]} \/ UNCHANGED lock
  /\ Reply(r, 500, NoOrder)
  /\ Goto(r, "release")
  /\ UNCHANGED <<result, stored, expired, lapsed, created, retry>>

\* finally: releaseIdempotencyReservation deletes whichever lock is there.
Release(r) ==
  /\ stage[r] = "release"
  /\ lock' = lock \ {Key[r]}
  /\ Goto(r, "done")
  /\ UNCHANGED <<answer, body, result, stored, expired, lapsed, created, retry, bounds>>

\* The answer is already sent; the error is only logged.
ReleaseFails(r) ==
  /\ stage[r] = "release"
  /\ RedisFault
  /\ lock' = lock \ {Key[r]} \/ UNCHANGED lock
  /\ Goto(r, "done")
  /\ UNCHANGED <<answer, body, result, stored, expired, lapsed, created, retry>>

-----------------------------------------------------------------------------
(* Time and crashes.                                                       *)

\* fetch waits up to five minutes for the order service, the lock lives one.
ExpireLock(k) ==
  /\ LocksMayExpire
  /\ k \in lock
  /\ lock' = lock \ {k}
  /\ expired' = TRUE
  /\ UNCHANGED <<request, result, stored, lapsed, created, retry, bounds>>

\* No request of the time when the result was stored is left a day later.
ExpireResult(k) ==
  /\ ResultsMayExpire
  /\ result[k] # NoOrder
  /\ \A r \in Requests : Key[r] = k => stage[r] \in {"new", "get", "done"}
  /\ result' = [result EXCEPT ![k] = NoOrder]
  /\ lapsed' = lapsed \union {k}
  /\ UNCHANGED <<request, lock, stored, expired, created, retry, bounds>>

\* All requests of the process end without an answer; Redis keeps its keys.
Crash ==
  /\ crashes < MaxCrashes
  /\ crashes' = crashes + 1
  /\ stage' = [r \in Requests |-> IF stage[r] = "new" THEN "new" ELSE "done"]
  /\ UNCHANGED <<answer, body, redis, created, retry, redisFaults, serviceFaults>>

-----------------------------------------------------------------------------
RequestStep(r) ==
  \/ GetHit(r) \/ GetMiss(r)
  \/ Reserve(r) \/ ReserveBusy(r)
  \/ Process(r) \/ Store(r) \/ DelLock(r) \/ Release(r)

RequestFault(r) ==
  \/ GetFails(r) \/ ReserveFails(r) \/ ProcessFails(r)
  \/ StoreFails(r) \/ DelLockFails(r) \/ ReleaseFails(r)

AllDone ==
  /\ \A r \in Requests : stage[r] = "done"
  /\ UNCHANGED vars

Next ==
  \/ \E r \in Requests :
       \/ Throttle(r) \/ RejectInvalid(r) \/ RejectAnonymous(r) \/ Receive(r)
       \/ RequestStep(r) \/ RequestFault(r)
  \/ \E k \in Keys : ExpireLock(k) \/ ExpireResult(k)
  \/ Crash
  \/ AllDone

Spec == Init /\ [][Next]_vars

\* Calls return; clients, faults and expiry are never forced.
FairSpec == Spec /\ \A r \in Requests : WF_vars(RequestStep(r))

-----------------------------------------------------------------------------
(* Properties.                                                             *)

\* A client that retries after it was answered 202 creates a second order
\* only if a result of its key has expired, whatever failed or ran
\* concurrently before its retry and whichever locks expired.
RetryCreatesNothing ==
  \A r \in retry \intersect created : Key[r] \in lapsed

\* A 202, fresh or cached, names an order that exists and that a request
\* with the same key created.
AcceptedOrderExists ==
  \A r \in Requests : answer[r] = 202 =>
    body[r] \in created /\ Key[body[r]] = Key[r]

\* Until a first result is stored, and as long as no lock expires, two
\* requests with one key never execute at the same time, whichever calls
\* fail: a failed request releases only its own lock.
ExclusiveUntilStored ==
  \A r, s \in Requests :
    (r # s /\ Key[r] = Key[s] /\ Executing(r) /\ Executing(s))
      => expired \/ Key[r] \in stored

\* The orders that exist for a key.
Orders(k) == {r \in created : Key[r] = k}

\* Before a first result is stored, and without expiry, a key has at most
\* one order more than calls have failed; crashes add none, because they
\* leave the lock behind.
ExtraOrderNeedsFault ==
  \A k \in Keys : k \notin stored /\ ~expired =>
    Cardinality(Orders(k)) <= 1 + redisFaults + serviceFaults

\* Only a crash or a failed Redis call leaves a lock to its TTL: a failing
\* order service, or any race on the key, does not.
LockNotLeaked ==
  \A k \in lock : redisFaults = 0 /\ crashes = 0 =>
    \E r \in Requests : Key[r] = k /\ stage[r] \in Stages \ {"new", "done"}

\* Every request is answered and finished, whichever calls fail.
EveryRequestEnds ==
  \A r \in Requests : stage[r] = "get" ~> stage[r] = "done"

\* docs/idempotency.md: "repeated client submissions of the same order
\* request do not create duplicate orders as long as the same idempotency key
\* is reused within the TTL window".
OneOrderPerKey ==
  \A r, s \in created : Key[r] = Key[s] => r = s

-----------------------------------------------------------------------------
(* The inductive invariant behind the safety properties.                   *)

\* Between a successful reservation and the end of finally.
HoldingStages == {"process", "store", "delLock", "release"}

\* No result was stored for the key and no lock has run out.
Unsettled(k) == k \notin stored /\ ~expired

\* Only requests with a valid key get past the hooks, and a call of the order
\* service precedes the two commands that record it.
Progress ==
  \A r \in Requests :
    /\ stage[r] \notin {"new", "done"} => Key[r] \in Keys
    /\ stage[r] \in {"new", "get", "reserve", "process"} => r \notin created
    /\ stage[r] \in {"store", "delLock"} => r \in created
    /\ stage[r] = "delLock" => Key[r] \in stored

\* What Redis holds as a result is an order of that key.
ResultIsOrder ==
  \A k \in Keys :
    /\ result[k] # NoOrder =>
         k \in stored /\ result[k] \in created /\ Key[result[k]] = k
    /\ k \in stored \ lapsed => result[k] # NoOrder

\* A 202 follows a stored result, and a retry after it is served from there.
RetryIsServed ==
  /\ \A r \in Requests : answer[r] = 202 => Key[r] \in stored
  /\ \A r \in retry :
       /\ Key[r] \in stored
       /\ Key[r] \notin lapsed => stage[r] \in {"get", "done"} /\ r \notin created

\* Until a result is stored, a request in the try block or in finally owns
\* the lock of its key alone.
HolderOwnsLock ==
  \A r \in Requests : stage[r] \in HoldingStages /\ Unsettled(Key[r]) =>
    /\ Key[r] \in lock
    /\ \A s \in Requests \ {r} : Key[s] = Key[r] => stage[s] \notin HoldingStages

LockHasHolder ==
  \A k \in lock : redisFaults = 0 /\ crashes = 0 =>
    \E r \in Requests : Key[r] = k /\ stage[r] \in HoldingStages

\* Where another call of the order service is still possible, or has failed,
\* each order of the key is paid for by a failed call.
OrdersArePaid ==
  /\ IsFiniteSet(created)
  /\ \A k \in Keys :
       /\ Unsettled(k)
       /\ \/ k \notin lock
          \/ \E r \in Requests : Key[r] = k /\ stage[r] \in {"process", "release"}
       => Cardinality(Orders(k)) <= redisFaults + serviceFaults

IInv ==
  /\ TypeOK
  /\ Progress
  /\ ResultIsOrder
  /\ AcceptedOrderExists
  /\ RetryIsServed
  /\ HolderOwnsLock
  /\ LockHasHolder
  /\ OrdersArePaid
  /\ ExtraOrderNeedsFault

==============================================================================

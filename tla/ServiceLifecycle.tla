-------------------------- MODULE ServiceLifecycle --------------------------
(***************************************************************************)
(* The three services under docker-compose: how each process starts, what  *)
(* it does when PostgreSQL, Redis or RabbitMQ goes away and comes back,    *)
(* and what the readiness routes of the gateway and of the order service   *)
(* report meanwhile.                                                       *)
(*                                                                         *)
(* The clients of PostgreSQL (a pool) and Redis (one connection with a     *)
(* queue of unsent commands) reconnect by themselves and have an 'error'   *)
(* listener.  The AMQP connection does neither: a broker that crashes      *)
(* raises an 'error' nobody listens to, which ends the process; a broker   *)
(* that is stopped in order only closes the connection, and the process    *)
(* goes on with a dead channel if something else keeps it alive.           *)
(*                                                                         *)
(* Containers, databases and the client libraries are external.            *)
(***************************************************************************)
EXTENDS Integers

CONSTANT MaxCrashes   \* bound: service crashes of other causes

ASSUME CrashAssumption == MaxCrashes \in Nat

VARIABLES
  up,        \* the dependencies that are running
  proc,      \* stage of each service process
  link,      \* AMQP channel of each service that has one
  probe,     \* the call each /ready request waits for
  ready,     \* status code of the last answer of each /ready route
  stopped,   \* history: RabbitMQ was stopped in order at least once
  crashes    \* history: service crashes so far

vars == <<up, proc, link, probe, ready, stopped, crashes>>

Dependencies == {"postgres", "redis", "rabbitmq"}
Services == {"gateway", "order", "worker"}
AmqpServices == {"order", "worker"}
Probed == {"gateway", "order"}

\* connecting: to Redis or RabbitMQ.  preparing: with the channel in hand,
\* before the routes or the consumer are there.
Stages == {"exited", "connecting", "preparing", "serving"}

\* queued: the PING waits in the Redis client for a connection.
ProbeStages == {"none", "postgres", "redis", "queued"}

TypeOK ==
  /\ up \subseteq Dependencies
  /\ proc \in [Services -> Stages]
  /\ link \in [AmqpServices -> {"none", "open", "dead"}]
  /\ probe \in [Probed -> ProbeStages]
  /\ ready \in [Probed -> {0, 200, 500, 503}]
  /\ stopped \in BOOLEAN
  /\ crashes \in 0..MaxCrashes

\* depends_on starts the containers in order and waits for none to be ready.
Init ==
  /\ up \in SUBSET Dependencies
  /\ proc = [s \in Services |-> "connecting"]
  /\ link = [s \in AmqpServices |-> "none"]
  /\ probe = [s \in Probed |-> "none"]
  /\ ready = [s \in Probed |-> 0]
  /\ stopped = FALSE
  /\ crashes = 0

Become(s, stage) == proc' = [proc EXCEPT ![s] = stage]

\* The processes S end: their channels and their pending probes go with them.
End(S) ==
  /\ proc' = [s \in Services |-> IF s \in S THEN "exited" ELSE proc[s]]
  /\ link' = [s \in AmqpServices |-> IF s \in S THEN "none" ELSE link[s]]
  /\ probe' = [s \in Probed |-> IF s \in S THEN "none" ELSE probe[s]]
  /\ ready' = [s \in Probed |-> IF s \in S THEN 0 ELSE ready[s]]

-----------------------------------------------------------------------------
(* Starting.                                                               *)

\* restart: always.
Restart(s) ==
  /\ proc[s] = "exited"
  /\ Become(s, "connecting")
  /\ UNCHANGED <<up, link, probe, ready, stopped, crashes>>

\* redis.ts awaits connect() while it is loaded; the client retries until it
\* succeeds.  Then the gateway registers its plugins and listens.
GatewayStarts ==
  /\ proc["gateway"] = "connecting"
  /\ "redis" \in up
  /\ Become("gateway", "serving")
  /\ UNCHANGED <<up, link, probe, ready, stopped, crashes>>

\* connectRabbitMQ.
Connect(s) ==
  /\ proc[s] = "connecting"
  /\ "rabbitmq" \in up
  /\ link' = [link EXCEPT ![s] = "open"]
  /\ Become(s, "preparing")
  /\ UNCHANGED <<up, probe, ready, stopped, crashes>>

\* It throws, and bootstrap exits with code 1.
ConnectFails(s) ==
  /\ proc[s] = "connecting"
  /\ "rabbitmq" \notin up
  /\ End({s})
  /\ UNCHANGED <<up, stopped, crashes>>

\* Faulty variant: start() rejects when its first fetch fails.
OrderServesWithDatabase ==
  /\ proc["order"] = "preparing"
  /\ "postgres" \in up
  /\ Become("order", "serving")
  /\ UNCHANGED <<up, link, probe, ready, stopped, crashes>>

\* start() awaits a first run of the publisher, which logs its errors; then
\* the service listens, whatever has become of its channel.
OrderServes ==
  /\ proc["order"] = "preparing"
  /\ Become("order", "serving")
  /\ UNCHANGED <<up, link, probe, ready, stopped, crashes>>

\* startListening on an open channel.
WorkerServes ==
  /\ proc["worker"] = "preparing"
  /\ link["worker"] = "open"
  /\ Become("worker", "serving")
  /\ UNCHANGED <<up, link, probe, ready, stopped, crashes>>

\* assertQueue throws on a closed channel: exit code 1.
ListenFails ==
  /\ proc["worker"] = "preparing"
  /\ link["worker"] = "dead"
  /\ End({"worker"})
  /\ UNCHANGED <<up, stopped, crashes>>

\* Faulty variant: something, an HTTP server for /metrics say, keeps it alive.
StaysAlive ==
  /\ proc["worker"] = "serving"
  /\ link["worker"] = "dead"
  /\ UNCHANGED vars

\* Without a connection nothing keeps the worker's event loop alive.
RunsDry ==
  /\ proc["worker"] = "serving"
  /\ link["worker"] = "dead"
  /\ End({"worker"})
  /\ UNCHANGED <<up, stopped, crashes>>

Crash(s) ==
  /\ crashes < MaxCrashes
  /\ crashes' = crashes + 1
  /\ proc[s] # "exited"
  /\ End({s})
  /\ UNCHANGED <<up, stopped>>

-----------------------------------------------------------------------------
(* Outages.                                                                *)

Recover(d) ==
  /\ d \notin up
  /\ up' = up \union {d}
  /\ UNCHANGED <<proc, link, probe, ready, stopped, crashes>>

Lose(d) == d \in up /\ up' = up \ {d}

\* Pool queries reject.  A client that a repository holds for a transaction
\* has no 'error' listener: its loss ends the process.
PostgresStops ==
  /\ Lose("postgres")
  /\ \E S \in SUBSET {s \in AmqpServices : proc[s] = "serving"} : End(S)
  /\ UNCHANGED <<stopped, crashes>>

\* A PING on the wire is rejected, one in the client's queue stays there.
RedisStops ==
  /\ Lose("redis")
  /\ IF probe["gateway"] = "redis"
     THEN /\ probe' = [probe EXCEPT !["gateway"] = "none"]
          /\ ready' = [ready EXCEPT !["gateway"] = 503]
     ELSE UNCHANGED <<probe, ready>>
  /\ UNCHANGED <<proc, link, stopped, crashes>>

\* Faulty variant: an 'error' listener that logs and does not reconnect.
BrokerCrashLogged ==
  /\ Lose("rabbitmq")
  /\ link' = [s \in AmqpServices |-> IF link[s] = "open" THEN "dead" ELSE link[s]]
  /\ UNCHANGED <<proc, probe, ready, stopped, crashes>>

\* The connection's 'error' event has no listener.
BrokerCrashes ==
  /\ Lose("rabbitmq")
  /\ End({s \in AmqpServices : link[s] = "open"})
  /\ UNCHANGED <<stopped, crashes>>

\* CONNECTION_FORCED: the connection closes without an 'error' event.
BrokerStops ==
  /\ Lose("rabbitmq")
  /\ link' = [s \in AmqpServices |-> IF link[s] = "open" THEN "dead" ELSE link[s]]
  /\ stopped' = TRUE
  /\ UNCHANGED <<proc, probe, ready, crashes>>

-----------------------------------------------------------------------------
(* GET /ready.  One request at a time per route.                           *)

Answer(s, code) ==
  /\ probe' = [probe EXCEPT ![s] = "none"]
  /\ ready' = [ready EXCEPT ![s] = code]
  /\ UNCHANGED <<up, proc, link, stopped, crashes>>

AskReady(s) ==
  /\ proc[s] = "serving"
  /\ probe[s] = "none"
  /\ probe' = [probe EXCEPT ![s] = "postgres"]
  /\ UNCHANGED <<up, proc, link, ready, stopped, crashes>>

\* The gateway's limiter stands before its routes and counts probes with the
\* orders of the same address.  Over the quota the error handler answers 500,
\* and no dependency is asked.
Throttle ==
  /\ proc["gateway"] = "serving"
  /\ probe["gateway"] = "none"
  /\ Answer("gateway", 500)

\* SELECT 1 succeeds; the gateway goes on with a PING, which leaves at once
\* or waits for the connection.
GatewayPings ==
  /\ probe["gateway"] = "postgres"
  /\ "postgres" \in up
  /\ probe' = [probe EXCEPT !["gateway"] =
                 IF "redis" \in up THEN "redis" ELSE "queued"]
  /\ UNCHANGED <<up, proc, link, ready, stopped, crashes>>

GatewayReady ==
  /\ probe["gateway"] \in {"redis", "queued"}
  /\ "redis" \in up
  /\ Answer("gateway", 200)

\* The client may give an unsent command up; the code sets no time limit.
PingGivenUp ==
  /\ probe["gateway"] = "queued"
  /\ "redis" \notin up
  /\ Answer("gateway", 503)

\* Faulty variant: the list of dependencies outlives the request, so that one
\* failed check counts for ever.
OrderReadyHoisted ==
  /\ probe["order"] = "postgres"
  /\ "postgres" \in up
  /\ Answer("order", IF ready["order"] = 503 THEN 503 ELSE 200)

OrderReady ==
  /\ probe["order"] = "postgres"
  /\ "postgres" \in up
  /\ Answer("order", 200)

\* Faulty variant: the error is rethrown to the framework's error handler.
NotReadyRethrows(s) ==
  /\ probe[s] = "postgres"
  /\ "postgres" \notin up
  /\ Answer(s, 500)

NotReady(s) ==
  /\ probe[s] = "postgres"
  /\ "postgres" \notin up
  /\ Answer(s, 503)

-----------------------------------------------------------------------------
StartStep(s) ==
  \/ Restart(s)
  \/ s = "gateway" /\ GatewayStarts
  \/ s \in AmqpServices /\ (Connect(s) \/ ConnectFails(s))
  \/ s = "order" /\ OrderServes
  \/ s = "worker" /\ (WorkerServes \/ ListenFails \/ RunsDry)

ProbeStep(s) ==
  \/ AskReady(s)
  \/ NotReady(s)
  \/ s = "gateway" /\ (Throttle \/ GatewayPings \/ GatewayReady)
  \/ s = "order" /\ OrderReady

Outage == PostgresStops \/ RedisStops \/ BrokerCrashes \/ BrokerStops

Next ==
  \/ \E s \in Services : StartStep(s) \/ Crash(s)
  \/ \E s \in Probed : ProbeStep(s)
  \/ PingGivenUp
  \/ Outage
  \/ \E d \in Dependencies : Recover(d)

Spec == Init /\ [][Next]_vars

\* Docker restarts what exits, processes run, a monitor keeps asking.  No
\* outage, no recovery, no crash and no client timeout is forced, and no probe
\* of the gateway need ever be within the quota.
FairSpec ==
  /\ Spec
  /\ \A s \in Services : WF_vars(StartStep(s))
  /\ \A s \in Probed : WF_vars(ProbeStep(s))

-----------------------------------------------------------------------------
(* Properties.  Each speaks of what the system comes to rest in once the   *)
(* dependencies it names have stopped failing, after any sequence of       *)
(* outages before.                                                         *)

Stable(D) == <>[](D \subseteq up)

\* Once RabbitMQ and PostgreSQL stay up the worker consumes for good, also
\* when the broker was stopped in order: without a connection the worker ends
\* for want of work, and its restart connects.
WorkerReattaches ==
  Stable({"rabbitmq", "postgres"}) =>
    <>[](proc["worker"] = "serving" /\ link["worker"] = "open")

\* The order service has a usable channel for good once RabbitMQ stays up,
\* unless the broker was ever stopped in order: a crash ends the process,
\* and only a new process connects.
PublisherReattaches ==
  Stable({"rabbitmq", "postgres"}) =>
    <>[](link["order"] = "open") \/ <>stopped

\* The restarts converge: once Redis and RabbitMQ stay up and PostgreSQL has
\* settled, up or down for good, all services run for good.
ServicesStart ==
  Stable({"redis", "rabbitmq"}) /\ (Stable({"postgres"}) \/ <>[]("postgres" \notin up)) =>
    <>[](\A s \in Services : proc[s] = "serving")

\* From some time on the limiter turns no probe away.
WithinQuota == <>[][~Throttle]_vars

\* The answers come to rest at code; the gateway's, which the limiter may turn
\* into a 500, if the probes are within the quota.
SettlesAt(code) ==
  /\ <>[](ready["order"] = code /\ ready["gateway"] \in {code, 500})
  /\ WithinQuota => <>[](ready["gateway"] = code)

\* Once all dependencies stay up both readiness routes settle at 200, whatever
\* probe was pending in an outage; once PostgreSQL stays down and the others
\* stay up, both settle at 503.  RabbitMQ has no say, and throttled probes
\* neither hide a change for good nor leave anything behind.
ReadinessSettles ==
  /\ Stable(Dependencies) => SettlesAt(200)
  /\ <>[]("postgres" \notin up) /\ Stable({"redis", "rabbitmq"}) => SettlesAt(503)

-----------------------------------------------------------------------------
(* The inductive invariant.                                                *)

\* A process past its start has a channel.  It is open only while the broker
\* runs: a broker that goes away ends the process or, when it was stopped in
\* order and only then, leaves a dead channel behind.
ChannelState ==
  \A s \in AmqpServices :
    /\ link[s] = "none" <=> proc[s] \in {"exited", "connecting"}
    /\ link[s] = "open" => "rabbitmq" \in up
    /\ link[s] = "dead" => stopped

\* A probe waits, and an answer stands, only in a process that serves; only the
\* gateway has a limiter; no PING is on the wire while Redis is down.
ProbeState ==
  /\ \A s \in Probed : probe[s] # "none" \/ ready[s] # 0 => proc[s] = "serving"
  /\ probe["order"] \in {"none", "postgres"}
  /\ ready["order"] # 500
  /\ probe["gateway"] = "redis" => "redis" \in up

IInv ==
  /\ TypeOK
  /\ ChannelState
  /\ ProbeState

==============================================================================

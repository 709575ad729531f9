----------------------- MODULE ServiceLifecycleProofs -----------------------
(***************************************************************************)
(* The invariant of ServiceLifecycle, for any number of crashes.           *)
(***************************************************************************)
EXTENDS ServiceLifecycle, TLAPS

\* The services that end leave no channel, probe or answer behind.
LEMMA EndIsClean ==
  ASSUME IInv, NEW S \in SUBSET Services, End(S)
  PROVE  /\ proc' \in [Services -> Stages]
         /\ link' \in [AmqpServices -> {"none", "open", "dead"}]
         /\ probe' \in [Probed -> ProbeStages]
         /\ ready' \in [Probed -> {0, 200, 500, 503}]
         /\ \A s \in AmqpServices :
              /\ link'[s] = "none" <=> proc'[s] \in {"exited", "connecting"}
              /\ link'[s] # "none" => s \notin S /\ link'[s] = link[s]
         /\ \A s \in Probed :
              /\ probe'[s] # "none" \/ ready'[s] # 0 => proc'[s] = "serving"
              /\ probe'[s] \in {"none", probe[s]}
              /\ ready'[s] \in {0, ready[s]}
  BY DEF IInv, TypeOK, ChannelState, ProbeState, End, Services, AmqpServices,
         Probed, Stages, ProbeStages

\* No process has started in an initial state.
LEMMA InvInit == Init => IInv
<1> SUFFICES ASSUME Init PROVE IInv
  OBVIOUS
<1>1. stopped \in BOOLEAN
  BY DEF Init
<1>2. TypeOK
  BY <1>1, CrashAssumption DEF Init, TypeOK, Stages, ProbeStages
<1>3. ChannelState /\ ProbeState
  BY DEF Init, ChannelState, ProbeState, Services, AmqpServices, Probed
<1> QED
  BY <1>2, <1>3 DEF IInv

\* Starting, crashing and recovering.
LEMMA ProcessStep ==
  ASSUME IInv, NEW s \in Services, StartStep(s) \/ Crash(s)
  PROVE  IInv'
<1> USE DEF Services, AmqpServices, Probed
<1>1. ASSUME End({s}), UNCHANGED <<up, stopped>>, crashes' \in 0..MaxCrashes
      PROVE  IInv'
  BY <1>1, EndIsClean DEF IInv, TypeOK, ChannelState, ProbeState
<1>2. CASE Crash(s)
  <2>1. crashes' \in 0..MaxCrashes
    BY <1>2, CrashAssumption DEF Crash, IInv, TypeOK
  <2> QED
    BY <1>1, <1>2, <2>1 DEF Crash
<1>3. CASE /\ \/ s \in AmqpServices /\ ConnectFails(s)
              \/ s = "worker" /\ (ListenFails \/ RunsDry)
  BY <1>1, <1>3 DEF ConnectFails, ListenFails, RunsDry, IInv, TypeOK
<1>4. CASE Restart(s)
  BY <1>4 DEF Restart, Become, IInv, TypeOK, ChannelState, ProbeState, Stages
<1>5. CASE s = "gateway" /\ GatewayStarts
  BY <1>5 DEF GatewayStarts, Become, IInv, TypeOK, ChannelState, ProbeState, Stages
<1>6. CASE s \in AmqpServices /\ Connect(s)
  BY <1>6 DEF Connect, Become, IInv, TypeOK, ChannelState, ProbeState, Stages
<1>7. CASE s = "order" /\ OrderServes
  BY <1>7 DEF OrderServes, Become, IInv, TypeOK, ChannelState, ProbeState, Stages
<1>8. CASE s = "worker" /\ WorkerServes
  BY <1>8 DEF WorkerServes, Become, IInv, TypeOK, ChannelState, ProbeState, Stages
<1> QED
  BY <1>2, <1>3, <1>4, <1>5, <1>6, <1>7, <1>8 DEF StartStep

\* A dependency that goes away or comes back.
LEMMA DependencyStep ==
  ASSUME IInv, Outage \/ \E d \in Dependencies : Recover(d)
  PROVE  IInv'
<1> USE DEF Services, AmqpServices, Probed
<1>1. CASE PostgresStops
  <2>1. PICK S \in SUBSET Services : End(S)
    BY <1>1 DEF PostgresStops
  <2> QED
    BY <1>1, <2>1, EndIsClean DEF PostgresStops, Lose, IInv, TypeOK,
       ChannelState, ProbeState
<1>2. CASE RedisStops
  BY <1>2 DEF RedisStops, Lose, IInv, TypeOK, ChannelState, ProbeState, ProbeStages
<1>3. CASE BrokerCrashes
  <2> DEFINE S == {s \in AmqpServices : link[s] = "open"}
  <2>1. S \in SUBSET Services /\ End(S)
    BY <1>3 DEF BrokerCrashes
  <2>2. \A s \in AmqpServices : link'[s] # "open"
    BY <2>1, EndIsClean DEF IInv, TypeOK
  <2> HIDE DEF S
  <2> QED
    BY <1>3, <2>1, <2>2, EndIsClean DEF BrokerCrashes, Lose, IInv, TypeOK,
       ChannelState, ProbeState
<1>4. CASE BrokerStops
  BY <1>4 DEF BrokerStops, Lose, IInv, TypeOK, ChannelState, ProbeState
<1>5. CASE \E d \in Dependencies : Recover(d)
  BY <1>5 DEF Recover, IInv, TypeOK, ChannelState, ProbeState
<1> QED
  BY <1>1, <1>2, <1>3, <1>4, <1>5 DEF Outage

\* The calls of a readiness request.
LEMMA ReadyStep ==
  ASSUME IInv, PingGivenUp \/ \E s \in Probed : ProbeStep(s)
  PROVE  IInv'
<1> USE DEF Services, AmqpServices, Probed, ProbeStages
<1>1. ASSUME NEW s \in Probed, NEW code \in {200, 503}, probe[s] # "none",
             Answer(s, code)
      PROVE  IInv'
  BY <1>1 DEF Answer, IInv, TypeOK, ChannelState, ProbeState
<1>2. CASE PingGivenUp
  BY <1>1, <1>2 DEF PingGivenUp
<1>3. ASSUME NEW s \in Probed, AskReady(s) PROVE IInv'
  BY <1>3 DEF AskReady, IInv, TypeOK, ChannelState, ProbeState
<1>4. CASE GatewayPings
  BY <1>4 DEF GatewayPings, IInv, TypeOK, ChannelState, ProbeState
<1>5. CASE Throttle
  BY <1>5 DEF Throttle, Answer, IInv, TypeOK, ChannelState, ProbeState
<1>6. CASE GatewayReady \/ OrderReady \/ \E s \in Probed : NotReady(s)
  BY <1>1, <1>6 DEF GatewayReady, OrderReady, NotReady
<1> QED
  BY <1>2, <1>3, <1>4, <1>5, <1>6 DEF ProbeStep

\* Every step keeps the invariant.
LEMMA InvStep ==
  ASSUME IInv, [Next]_vars
  PROVE  IInv'
<1>1. CASE UNCHANGED vars
  BY <1>1 DEF vars, IInv, TypeOK, ChannelState, ProbeState
<1> QED
  BY <1>1, ProcessStep, DependencyStep, ReadyStep DEF Next

\* After any outages and crashes, a channel is dead only if the broker was
\* stopped in order, and open only while it runs (connectRabbitMQ registers no
\* listener); a readiness answer never outlives its process.
THEOREM Invariance == Spec => []IInv
  BY InvInit, InvStep, PTL DEF Spec

=============================================================================

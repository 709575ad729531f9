--------------------------- MODULE SnowflakeProofs ---------------------------
(***************************************************************************)
(* Theorems about Snowflake for any number of generators, any field widths *)
(* and any number of set-back clocks and restarts.                         *)
(***************************************************************************)
EXTENDS Snowflake, FiniteSetTheorems, TLAPS

\* A number below the width of its field does not carry into the next one.
LEMMA FieldOrder ==
  ASSUME NEW k \in Nat \ {0}, NEW a \in Nat, NEW b \in Nat,
         NEW x \in 0..(k - 1), NEW y \in 0..(k - 1)
  PROVE  /\ a < b => a * k + x < b * k + y
         /\ a * k + x = b * k + y => a = b /\ x = y
<1>1. ASSUME NEW i \in Nat, NEW j \in Nat, i < j,
             NEW p \in 0..(k - 1), NEW q \in 0..(k - 1)
      PROVE  i * k + p < j * k + q
  <2>1. PICK d \in Nat : j = (i + 1) + d
    <3>1. j - (i + 1) \in Nat /\ j = (i + 1) + (j - (i + 1))
      BY <1>1
    <3> QED
      BY <3>1
  <2>2. j * k = i * k + k + d * k
    BY <2>1
  <2>3. d * k \in Nat /\ i * k \in Nat /\ j * k \in Nat
    OBVIOUS
  <2> QED
    BY <2>2, <2>3
<1>2. a < b => a * k + x < b * k + y
  BY <1>1
<1>3. b < a => b * k + y < a * k + x
  BY <1>1
<1>4. a * k \in Nat /\ b * k \in Nat
  OBVIOUS
<1> QED
  BY <1>2, <1>3, <1>4

\* Ids are numbers; they are equal only when all their fields are, and those
\* of one machine are ordered as their timestamps and sequence numbers.
LEMMA IdFields ==
  ASSUME NEW t \in Nat, NEW m \in 0..MaxMachineId, NEW x \in 0..MaxSequence,
         NEW u \in Nat, NEW n \in 0..MaxMachineId, NEW y \in 0..MaxSequence
  PROVE  /\ Id(t, m, x) \in Nat
         /\ Id(t, m, x) = Id(u, n, y) => t = u /\ m = n /\ x = y
         /\ t < u => Id(t, m, x) < Id(u, n, y)
         /\ x < y => Id(t, m, x) < Id(t, m, y)
<1> DEFINE M == MaxMachineId + 1
           S == MaxSequence + 1
           high == t * M + m
           low == u * M + n
<1>1. M \in Nat \ {0} /\ S \in Nat \ {0}
  BY MachineAssumption, SequenceAssumption
<1>2. /\ m \in 0..(M - 1) /\ n \in 0..(M - 1)
      /\ x \in 0..(S - 1) /\ y \in 0..(S - 1)
  BY MachineAssumption, SequenceAssumption
<1>3. Id(t, m, x) = high * S + x /\ Id(u, n, y) = low * S + y
      /\ Id(t, m, y) = high * S + y
  BY DEF Id
<1> HIDE DEF M, S
<1>4. high \in Nat /\ low \in Nat /\ high * S \in Nat
  <2>1. t * M \in Nat /\ u * M \in Nat
    BY <1>1
  <2>2. high \in Nat /\ low \in Nat
    BY <2>1
  <2> QED
    BY <1>1, <2>2
<1>5. /\ t < u => high < low
      /\ high = low => t = u /\ m = n
  BY <1>1, <1>2, FieldOrder
<1> HIDE DEF high, low
<1>6. /\ high < low => high * S + x < low * S + y
      /\ high * S + x = low * S + y => high = low /\ x = y
  BY <1>1, <1>2, <1>4, FieldOrder
<1>7. high * S + x \in Nat
  BY <1>2, <1>4
<1>8. x < y => high * S + x < high * S + y
  BY <1>4
<1> QED
  BY <1>3, <1>5, <1>6, <1>7, <1>8

\* Fields of a process may change only so that used pairs stay used.
LEMMA UsedStep ==
  ASSUME TypeOK, TypeOK', IdsAreUsed, issued' = issued, ClockTrusted' => ClockTrusted,
         ClockTrusted' =>
           \A g \in Generators, t \in 0..MaxTime, seq \in 0..MaxSequence :
             Used(g, t, seq) => Used(g, t, seq)'
  PROVE  IdsAreUsed'
<1> SUFFICES ASSUME ClockTrusted', NEW g \in Generators, NEW id \in issued[g]
             PROVE  \E t \in 0..MaxTime, seq \in 0..MaxSequence :
                      id = Id(t, MachineId[g], seq) /\ Used(g, t, seq)'
  BY DEF IdsAreUsed, Id
<1>1. PICK t \in 0..MaxTime, seq \in 0..MaxSequence :
        id = Id(t, MachineId[g], seq) /\ Used(g, t, seq)
  BY DEF IdsAreUsed
<1> QED
  BY <1>1

\* The pair of fields a call is about to return: it is later than the last one.
Fresh(g, seq) ==
  /\ seq \in 0..MaxSequence
  /\ \/ clock[g] > lastTimestamp[g]
     \/ clock[g] = lastTimestamp[g] /\ ~waiting[g] /\ sequence[g] < seq

\* It makes an id greater than every id of the process.
LEMMA FreshIsGreater ==
  ASSUME IInv, ClockTrusted, NEW g \in Generators, NEW new, Fresh(g, new),
         NEW id \in issued[g]
  PROVE  id < Id(clock[g], MachineId[g], new)
<1>1. PICK t \in 0..MaxTime, seq \in 0..MaxSequence :
        id = Id(t, MachineId[g], seq) /\ Used(g, t, seq)
  BY DEF IInv, IdsAreUsed
<1>2. /\ clock[g] \in Nat /\ lastTimestamp[g] \in Int /\ t \in Nat
      /\ MachineId[g] \in 0..MaxMachineId /\ new \in 0..MaxSequence
  BY BoundAssumption, MachineAssumption DEF IInv, TypeOK, Fresh
<1>3. t < clock[g] \/ (t = clock[g] /\ seq < new)
  <2>1. \/ t < lastTimestamp[g]
        \/ t = lastTimestamp[g] /\ (waiting[g] \/ seq <= sequence[g])
        \/ t < clock[g]
    BY <1>1 DEF Used
  <2>2. sequence[g] \in Int
    BY SequenceAssumption DEF IInv, TypeOK
  <2> QED
    BY <1>2, <2>1, <2>2, SequenceAssumption DEF Fresh
<1> QED
  BY <1>1, <1>2, <1>3, IdFields

\* The types of an issuing step.
LEMMA IssueTypes ==
  ASSUME TypeOK, NEW g \in Generators, NEW new, Fresh(g, new),
         Issue(g, clock[g], new)
  PROVE  TypeOK'
<1>1. Id(clock[g], MachineId[g], new) \in Nat
  BY IdFields, MachineAssumption, BoundAssumption DEF TypeOK, Fresh
<1>2. issued' \in [Generators -> SUBSET Nat]
  BY <1>1 DEF TypeOK, Issue
<1>3. waiting' \in [Generators -> BOOLEAN]
  BY DEF TypeOK, Issue
<1>4. /\ lastTimestamp' \in [Generators -> -1..MaxTime]
      /\ sequence' \in [Generators -> 0..MaxSequence]
      /\ calls' \in [Generators -> Nat]
  BY BoundAssumption DEF TypeOK, Issue, Fresh
<1> QED
  BY <1>2, <1>3, <1>4 DEF TypeOK, Issue, bounds

\* A call that returns keeps the invariant: its id is new, so the count of the
\* ids keeps up with the count of the calls.
LEMMA IssueStep ==
  ASSUME IInv, NEW g \in Generators, NEW new, Fresh(g, new),
         Issue(g, clock[g], new)
  PROVE  IInv'
<1> DEFINE id == Id(clock[g], MachineId[g], new)
<1>1. TypeOK'
  BY IssueTypes DEF IInv
<1>2. /\ clock[g] \in 0..MaxTime /\ new \in 0..MaxSequence
      /\ clock' = clock /\ setBacks' = setBacks /\ restarts' = restarts
      /\ \A h \in Generators : h # g =>
           /\ lastTimestamp'[h] = lastTimestamp[h] /\ sequence'[h] = sequence[h]
           /\ waiting'[h] = waiting[h] /\ issued'[h] = issued[h]
           /\ calls'[h] = calls[h]
  BY DEF IInv, TypeOK, Fresh, Issue, bounds
<1>3. /\ lastTimestamp'[g] = clock[g] /\ sequence'[g] = new
      /\ issued'[g] = issued[g] \union {id} /\ calls'[g] = calls[g] + 1
  BY DEF IInv, TypeOK, Issue
<1>4. IdsOfMachine'
  <2> SUFFICES ASSUME NEW h \in Generators, NEW i \in issued'[h]
               PROVE  \E t \in 0..MaxTime, seq \in 0..MaxSequence :
                        i = Id(t, MachineId[h], seq)
    BY DEF IdsOfMachine, Id
  <2> QED
    BY <1>2, <1>3 DEF IInv, IdsOfMachine
<1>5. IdsAreUsed'
  <2> SUFFICES ASSUME ClockTrusted, NEW h \in Generators, NEW i \in issued'[h]
               PROVE  \E t \in 0..MaxTime, seq \in 0..MaxSequence :
                        i = Id(t, MachineId[h], seq) /\ Used(h, t, seq)'
    BY <1>2 DEF IdsAreUsed, ClockTrusted, Id
  <2>1. CASE h = g /\ i = id
    <3>1. Used(g, clock[g], new)'
      BY <1>2, <1>3 DEF Used
    <3> QED
      BY <1>2, <2>1, <3>1
  <2>2. CASE i \in issued[h]
    <3>1. PICK t \in 0..MaxTime, seq \in 0..MaxSequence :
            i = Id(t, MachineId[h], seq) /\ Used(h, t, seq)
      BY <2>2 DEF IInv, IdsAreUsed
    <3>2. CASE h # g
      BY <1>2, <3>1, <3>2 DEF Used
    <3>3. CASE h = g
      <4>1. t < clock[g] \/ (t = clock[g] /\ seq <= new)
        <5>1. \/ t < lastTimestamp[g]
              \/ t = lastTimestamp[g] /\ (waiting[g] \/ seq <= sequence[g])
              \/ t < clock[g]
          BY <3>1, <3>3 DEF Used
        <5>2. clock[g] \in Int /\ lastTimestamp[g] \in Int /\ sequence[g] \in Int
          BY SequenceAssumption, BoundAssumption DEF IInv, TypeOK
        <5> QED
          BY <1>2, <5>1, <5>2 DEF Fresh
      <4> QED
        BY <1>3, <3>1, <3>3, <4>1 DEF Used
    <3> QED
      BY <3>2, <3>3
  <2> QED
    BY <1>2, <1>3, <2>1, <2>2
<1>6. ClockAhead'
  <2>1. clock[g] <= clock[g]
    BY <1>2
  <2> QED
    BY <1>2, <1>3, <2>1 DEF IInv, ClockAhead
<1>7. IssuedIsFinite'
  <2>1. IsFiniteSet(issued[g] \union {id})
    BY FS_AddElement DEF IInv, IssuedIsFinite
  <2> QED
    BY <1>2, <1>3, <2>1 DEF IInv, IssuedIsFinite
<1>8. NoRepeat'
  <2> SUFFICES ASSUME ClockTrusted PROVE \A h \in Generators :
                                            Cardinality(issued'[h]) = calls'[h]
    BY <1>2 DEF NoRepeat, ClockTrusted
  <2>1. id \in Nat /\ id \notin issued[g]
    <3>1. id \in Nat
      BY <1>2, IdFields, MachineAssumption, BoundAssumption
    <3>2. \A old \in issued[g] : old < id
      BY FreshIsGreater
    <3> QED
      BY <3>1, <3>2
  <2>2. Cardinality(issued'[g]) = Cardinality(issued[g]) + 1
    BY <1>3, <2>1, FS_AddElement DEF IInv, IssuedIsFinite
  <2> QED
    BY <1>2, <1>3, <2>2 DEF IInv, NoRepeat
<1> QED
  BY <1>1, <1>4, <1>5, <1>6, <1>7, <1>8 DEF IInv

\* The steps of nextId that return an id return a fresh one.
LEMMA CallIsFresh ==
  ASSUME TypeOK, NEW g \in Generators, NextId(g), ~SequenceExhausted(g)
  PROVE  \E new : Fresh(g, new) /\ Issue(g, clock[g], new)
<1>1. 0 \in 0..MaxSequence
  BY SequenceAssumption
<1>2. CASE NewMillisecond(g)
  BY <1>1, <1>2 DEF NewMillisecond, Fresh
<1>3. CASE SameMillisecond(g)
  <2>1. sequence[g] + 1 \in 0..MaxSequence /\ sequence[g] < sequence[g] + 1
    BY <1>3, SequenceAssumption DEF SameMillisecond, TypeOK
  <2> QED
    BY <1>3, <2>1 DEF SameMillisecond, Fresh
<1>4. CASE WaitEnds(g)
  BY <1>1, <1>4 DEF WaitEnds, Fresh
<1> QED
  BY <1>2, <1>3, <1>4 DEF NextId

\* No generator has returned an id in an initial state.
LEMMA InvInit == Init => IInv
<1> SUFFICES ASSUME Init PROVE IInv
  OBVIOUS
<1>1. TypeOK
  <2>1. waiting \in [Generators -> BOOLEAN]
    BY DEF Init
  <2> QED
    BY <2>1, SequenceAssumption, BoundAssumption DEF Init, TypeOK
<1>2. IdsOfMachine /\ IdsAreUsed
  BY DEF Init, IdsOfMachine, IdsAreUsed
<1>3. ClockAhead
  BY DEF Init, ClockAhead
<1>4. IssuedIsFinite /\ NoRepeat
  BY FS_EmptySet DEF Init, IssuedIsFinite, NoRepeat
<1> QED
  BY <1>1, <1>2, <1>3, <1>4 DEF IInv

\* What returns no id keeps the types.
LEMMA QuietTypes ==
  ASSUME TypeOK, NEW g \in Generators,
         SequenceExhausted(g) \/ Tick(g) \/ SetBack(g) \/ Restart(g)
  PROVE  TypeOK'
<1>1. CASE SequenceExhausted(g)
  <2>1. waiting' \in [Generators -> BOOLEAN]
    BY <1>1 DEF TypeOK, SequenceExhausted
  <2> QED
    BY <1>1, <2>1, SequenceAssumption DEF TypeOK, SequenceExhausted, bounds
<1>2. CASE Tick(g)
  <2>1. clock' \in [Generators -> 0..MaxTime]
    BY <1>2, BoundAssumption DEF TypeOK, Tick
  <2> QED
    BY <1>2, <2>1 DEF TypeOK, Tick, fields, bounds
<1>3. CASE SetBack(g)
  <2>1. clock' \in [Generators -> 0..MaxTime]
    BY <1>3, BoundAssumption DEF TypeOK, SetBack
  <2>2. setBacks' \in 0..MaxSetBacks
    BY <1>3, BoundAssumption DEF TypeOK, SetBack
  <2> QED
    BY <1>3, <2>1, <2>2 DEF TypeOK, SetBack, fields
<1>4. CASE Restart(g)
  <2>1. waiting' \in [Generators -> BOOLEAN]
    BY <1>4 DEF TypeOK, Restart
  <2>2. clock' \in [Generators -> 0..MaxTime] /\ restarts' \in 0..MaxRestarts
    BY <1>4, BoundAssumption DEF TypeOK, Restart
  <2>3. /\ lastTimestamp' \in [Generators -> -1..MaxTime]
        /\ sequence' \in [Generators -> 0..MaxSequence]
    BY <1>4, BoundAssumption, SequenceAssumption DEF TypeOK, Restart
  <2> QED
    BY <1>4, <2>1, <2>2, <2>3 DEF TypeOK, Restart
<1> QED
  BY <1>1, <1>2, <1>3, <1>4

\* It keeps the rest too: a clock that is set back or a restart invalidates a
\* used pair only where it ends the trust in the clock.
LEMMA QuietStep ==
  ASSUME IInv, NEW g \in Generators,
         SequenceExhausted(g) \/ Tick(g) \/ SetBack(g) \/ Restart(g)
  PROVE  IInv'
<1>1. TypeOK'
  BY QuietTypes DEF IInv
<1>2. issued' = issued /\ calls' = calls /\ (ClockTrusted' => ClockTrusted)
  <2>1. issued' = issued /\ calls' = calls
    BY DEF SequenceExhausted, Tick, SetBack, Restart
  <2>2. setBacks \in Nat /\ restarts \in Nat
    BY BoundAssumption DEF IInv, TypeOK
  <2>3. setBacks' \in {setBacks, setBacks + 1} /\ restarts' \in {restarts, restarts + 1}
    BY DEF SequenceExhausted, Tick, SetBack, Restart, bounds
  <2> QED
    BY <2>1, <2>2, <2>3 DEF ClockTrusted
<1>3. IdsAreUsed'
  <2> SUFFICES ASSUME ClockTrusted', NEW h \in Generators, NEW t \in 0..MaxTime,
                      NEW seq \in 0..MaxSequence, Used(h, t, seq)
               PROVE  Used(h, t, seq)'
    BY <1>1, <1>2, UsedStep DEF IInv
  <2>1. /\ clock[h] \in Int /\ lastTimestamp[h] \in Int /\ t \in Nat
        /\ setBacks \in Nat /\ restarts \in Nat
    BY BoundAssumption DEF IInv, TypeOK
  <2>2. CASE SequenceExhausted(g)
    BY <2>1, <2>2 DEF SequenceExhausted, Used, IInv, TypeOK, bounds
  <2>3. CASE Tick(g)
    BY <2>1, <2>3 DEF Tick, Used, IInv, TypeOK, fields, bounds
  <2>4. CASE SetBack(g)
    <3>1. restarts = 0
      BY <2>1, <2>4 DEF SetBack, ClockTrusted
    <3> QED
      BY <2>1, <2>4, <3>1 DEF SetBack, Used, fields
  <2>5. CASE Restart(g)
    <3>1. setBacks = 0 /\ restarts' > 0
      BY <2>1, <2>5 DEF Restart, ClockTrusted
    <3>2. CASE h # g
      BY <2>1, <2>5, <3>1, <3>2 DEF Restart, Used, IInv, TypeOK
    <3>3. CASE h = g
      <4>1. lastTimestamp[g] <= clock[g]
        BY <3>1 DEF IInv, ClockAhead
      <4>2. t <= clock[g]
        BY <2>1, <3>3, <4>1 DEF Used
      <4>3. clock'[g] = clock[g] + 1 /\ lastTimestamp'[g] = -1
        BY <2>5 DEF Restart, IInv, TypeOK
      <4> QED
        BY <2>1, <3>1, <3>3, <4>2, <4>3 DEF Used
    <3> QED
      BY <3>2, <3>3
  <2> QED
    BY <2>2, <2>3, <2>4, <2>5
<1>4. ClockAhead'
  <2> SUFFICES ASSUME setBacks' = 0, NEW h \in Generators
               PROVE  lastTimestamp'[h] <= clock'[h]
    BY DEF ClockAhead
  <2>1. /\ clock[h] \in Nat /\ lastTimestamp[h] \in Int
        /\ setBacks \in Nat
    BY BoundAssumption DEF IInv, TypeOK
  <2>2. ~SetBack(g) /\ setBacks = 0
    BY <2>1 DEF SequenceExhausted, Tick, SetBack, Restart, bounds
  <2>3. lastTimestamp[h] <= clock[h]
    BY <2>2 DEF IInv, ClockAhead
  <2>4. clock'[h] \in {clock[h], clock[h] + 1} /\ lastTimestamp'[h] \in {lastTimestamp[h], -1}
    BY <2>2 DEF SequenceExhausted, Tick, Restart, fields, IInv, TypeOK
  <2> QED
    BY <2>1, <2>3, <2>4
<1>5. IdsOfMachine' /\ IssuedIsFinite' /\ NoRepeat'
  BY <1>2 DEF IInv, IdsOfMachine, IssuedIsFinite, NoRepeat, Id
<1> QED
  BY <1>1, <1>3, <1>4, <1>5 DEF IInv

\* Every step keeps the invariant.
LEMMA InvStep == IInv /\ [Next]_vars => IInv'
<1> SUFFICES ASSUME IInv, [Next]_vars PROVE IInv'
  OBVIOUS
<1>1. ASSUME NEW g \in Generators, NextId(g), ~SequenceExhausted(g)
      PROVE  IInv'
  BY <1>1, CallIsFresh, IssueStep DEF IInv
<1>2. ASSUME NEW g \in Generators,
             SequenceExhausted(g) \/ Tick(g) \/ SetBack(g) \/ Restart(g)
      PROVE  IInv'
  BY <1>2, QuietStep
<1>3. CASE UNCHANGED vars
  BY <1>3 DEF vars, fields, bounds, IInv, TypeOK, IdsOfMachine, IdsAreUsed,
              Used, ClockTrusted, ClockAhead, IssuedIsFinite, NoRepeat, Id
<1> QED
  BY <1>1, <1>2, <1>3 DEF Next, TimeIsUp

\* The inductive invariant of the generator.
THEOREM Invariance == Spec => []IInv
  BY InvInit, InvStep, PTL DEF Spec

\* No generator returns an id twice, for any width of the sequence field, any
\* number of clock jumps under a running process, and any number of restarts
\* while no clock is set back (waitNextMillis, the check of nextId).
THEOREM IdsAreUnique == Spec => []NoRepeat
<1>1. IInv => NoRepeat
  BY DEF IInv
<1> QED
  BY <1>1, Invariance, PTL

\* Generators with different machine ids never return the same id, for any
\* widths of the fields, whatever the clocks and the restarts do.
THEOREM MachinesAreApart == Spec => []NoCollision
<1>1. IInv => NoCollision
  <2> SUFFICES ASSUME IInv, NEW g \in Generators, NEW h \in Generators,
                      NEW id \in issued[g], id \in issued[h]
               PROVE  MachineId[g] = MachineId[h]
    BY DEF NoCollision
  <2>1. PICK t \in 0..MaxTime, x \in 0..MaxSequence : id = Id(t, MachineId[g], x)
    BY DEF IInv, IdsOfMachine
  <2>2. PICK u \in 0..MaxTime, y \in 0..MaxSequence : id = Id(u, MachineId[h], y)
    BY DEF IInv, IdsOfMachine
  <2>3. t \in Nat /\ u \in Nat
    BY BoundAssumption
  <2>4. PICK m \in 0..MaxMachineId, n \in 0..MaxMachineId :
          m = MachineId[g] /\ n = MachineId[h]
    BY MachineAssumption
  <2>5. Id(t, m, x) = Id(u, n, y)
    BY <2>1, <2>2, <2>4
  <2>6. m = n
    BY <2>3, <2>5, IdFields
  <2> QED
    BY <2>4, <2>6
<1> QED
  BY <1>1, Invariance, PTL

\* The ids of a process grow from call to call, for any number of clock jumps.
THEOREM IdsAreOrdered == Spec => IdsGrow
<1>1. IInv /\ [Next]_vars =>
        [\A g \in Generators :
           restarts = 0 => \A new \in issued'[g] \ issued[g] :
                             \A old \in issued[g] : old < new]_vars
  <2> SUFFICES ASSUME IInv, Next, NEW g \in Generators, restarts = 0,
                      NEW new \in issued'[g] \ issued[g], NEW old \in issued[g]
               PROVE  old < new
    OBVIOUS
  <2>1. PICK h \in Generators : NextId(h) /\ ~SequenceExhausted(h)
    BY DEF Next, TimeIsUp, vars, SequenceExhausted, Tick, SetBack, Restart
  <2>2. PICK seq : Fresh(h, seq) /\ Issue(h, clock[h], seq)
    BY <2>1, CallIsFresh DEF IInv
  <2>3. h = g /\ new = Id(clock[g], MachineId[g], seq)
    BY <2>2 DEF Issue, IInv, TypeOK
  <2> QED
    BY <2>2, <2>3, FreshIsGreater DEF ClockTrusted
<1> QED
  BY <1>1, Invariance, PTL DEF Spec, IdsGrow

================================================================================

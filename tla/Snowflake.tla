------------------------------ MODULE Snowflake ------------------------------
(***************************************************************************)
(* shared/utils/snowflake.ts: the generator of order ids.  Each process    *)
(* has one generator, a configured machine id and the clock of its host.   *)
(* nextId is synchronous, so a generator serves one call at a time; the    *)
(* busy wait of waitNextMillis is a state of its own because the clock     *)
(* moves meanwhile.  An id is the bit string timestamp|machine|sequence.   *)
(***************************************************************************)
EXTENDS Integers, FiniteSets

CONSTANTS Generators,    \* processes
          MachineId,     \* SNOWFLAKE_MACHINE_ID of each
          MaxMachineId,  \* 2^10 - 1 in the code
          MaxSequence,   \* 2^12 - 1 in the code
          MaxTime,       \* bound: milliseconds since the epoch
          MaxSetBacks,   \* bound: times a clock is set back
          MaxRestarts    \* bound: process restarts

\* The constructor refuses other machine ids.
ASSUME MachineAssumption == /\ MaxMachineId \in Nat
                            /\ MachineId \in [Generators -> 0..MaxMachineId]
ASSUME SequenceAssumption == MaxSequence \in Nat
ASSUME BoundAssumption == /\ MaxTime \in Nat
                          /\ MaxSetBacks \in Nat
                          /\ MaxRestarts \in Nat

VARIABLES
  clock,          \* Date.now() - epoch on each host
  lastTimestamp,  \* field of the generator, relative to the epoch as well
  sequence,       \* field of the generator
  waiting,        \* the generator is inside waitNextMillis
  issued,         \* ids each generator has returned
  calls,          \* number of ids each generator has returned
  setBacks, restarts

fields == <<lastTimestamp, sequence, waiting>>
bounds == <<setBacks, restarts>>
vars   == <<clock, fields, issued, calls, bounds>>

TypeOK ==
  /\ clock \in [Generators -> 0..MaxTime]
  /\ lastTimestamp \in [Generators -> -1..MaxTime]
  /\ sequence \in [Generators -> 0..MaxSequence]
  /\ waiting \in [Generators -> BOOLEAN]
  /\ issued \in [Generators -> SUBSET Nat]
  /\ calls \in [Generators -> Nat]
  /\ setBacks \in 0..MaxSetBacks
  /\ restarts \in 0..MaxRestarts

Init ==
  /\ clock = [g \in Generators |-> 0]
  /\ lastTimestamp = [g \in Generators |-> -1]
  /\ sequence = [g \in Generators |-> 0]
  /\ waiting = [g \in Generators |-> FALSE]
  /\ issued = [g \in Generators |-> {}]
  /\ calls = [g \in Generators |-> 0]
  /\ setBacks = 0
  /\ restarts = 0

\* Faulty variant: the machine id is shifted one bit too little.
OverlappingId(timestamp, machine, seq) ==
  (timestamp * (MaxMachineId + 1) + machine) * MaxSequence + seq

\* Shifting and or-ing fields that do not overlap.
Id(timestamp, machine, seq) ==
  (timestamp * (MaxMachineId + 1) + machine) * (MaxSequence + 1) + seq

\* The tail of nextId: update the fields and return the id.
Issue(g, timestamp, seq) ==
  /\ lastTimestamp' = [lastTimestamp EXCEPT ![g] = timestamp]
  /\ sequence' = [sequence EXCEPT ![g] = seq]
  /\ waiting' = [waiting EXCEPT ![g] = FALSE]
  /\ issued' = [issued EXCEPT ![g] = @ \union {Id(timestamp, MachineId[g], seq)}]
  /\ calls' = [calls EXCEPT ![g] = @ + 1]
  /\ UNCHANGED <<clock, bounds>>

\* Faulty variant: the clock is only compared for equality.
NewMillisecondUnchecked(g) ==
  /\ ~waiting[g]
  /\ clock[g] # lastTimestamp[g]
  /\ Issue(g, clock[g], 0)

\* nextId in a later millisecond.  On an earlier one it throws, and no field
\* changes.
NewMillisecond(g) ==
  /\ ~waiting[g]
  /\ clock[g] > lastTimestamp[g]
  /\ Issue(g, clock[g], 0)

\* Faulty variant: one sequence number too many.
SameMillisecondOffByOne(g) ==
  /\ ~waiting[g]
  /\ clock[g] = lastTimestamp[g]
  /\ sequence[g] <= MaxSequence
  /\ Issue(g, clock[g], sequence[g] + 1)

SameMillisecond(g) ==
  /\ ~waiting[g]
  /\ clock[g] = lastTimestamp[g]
  /\ sequence[g] < MaxSequence
  /\ Issue(g, clock[g], sequence[g] + 1)

\* Faulty variant: the wrapped sequence is used without waiting.
SequenceWraps(g) ==
  /\ ~waiting[g]
  /\ clock[g] = lastTimestamp[g]
  /\ sequence[g] = MaxSequence
  /\ Issue(g, clock[g], 0)

\* (sequence + 1) & MAX_SEQUENCE is 0: wait for the next millisecond.
SequenceExhausted(g) ==
  /\ ~waiting[g]
  /\ clock[g] = lastTimestamp[g]
  /\ sequence[g] = MaxSequence
  /\ sequence' = [sequence EXCEPT ![g] = 0]
  /\ waiting' = [waiting EXCEPT ![g] = TRUE]
  /\ UNCHANGED <<clock, lastTimestamp, issued, calls, bounds>>

\* waitNextMillis returns; the sequence stays 0.
WaitEnds(g) ==
  /\ waiting[g]
  /\ clock[g] > lastTimestamp[g]
  /\ Issue(g, clock[g], 0)

-----------------------------------------------------------------------------
(* The host.                                                               *)

Tick(g) ==
  /\ clock[g] < MaxTime
  /\ clock' = [clock EXCEPT ![g] = @ + 1]
  /\ UNCHANGED <<fields, issued, calls, bounds>>

SetBack(g) ==
  /\ setBacks < MaxSetBacks
  /\ clock[g] > 0
  /\ \E t \in 0..(clock[g] - 1) : clock' = [clock EXCEPT ![g] = t]
  /\ setBacks' = setBacks + 1
  /\ UNCHANGED <<fields, issued, calls, restarts>>

\* A new process starts with the initial fields; starting takes longer than
\* a millisecond.
Restart(g) ==
  /\ restarts < MaxRestarts
  /\ clock[g] < MaxTime
  /\ restarts' = restarts + 1
  /\ clock' = [clock EXCEPT ![g] = @ + 1]
  /\ lastTimestamp' = [lastTimestamp EXCEPT ![g] = -1]
  /\ sequence' = [sequence EXCEPT ![g] = 0]
  /\ waiting' = [waiting EXCEPT ![g] = FALSE]
  /\ UNCHANGED <<issued, calls, setBacks>>

\* A call serves an order: it returns an id, or throws and changes nothing.
NextId(g) ==
  \/ NewMillisecond(g) \/ SameMillisecond(g)
  \/ SequenceExhausted(g) \/ WaitEnds(g)

\* The bound on time: nothing more is explored.
TimeIsUp == (\A g \in Generators : clock[g] = MaxTime) /\ UNCHANGED vars

Next ==
  \/ \E g \in Generators : NextId(g) \/ Tick(g) \/ SetBack(g) \/ Restart(g)
  \/ TimeIsUp

Spec == Init /\ [][Next]_vars

-----------------------------------------------------------------------------
(* Properties.                                                             *)

\* A process forgets lastTimestamp, so the promise needs that no clock is set
\* back in a history with restarts.
ClockTrusted == setBacks = 0 \/ restarts = 0

\* No generator returns an id twice: not when the sequence wraps within a
\* millisecond, nor when the clock is set back under a running process.
NoRepeat ==
  ClockTrusted => \A g \in Generators : Cardinality(issued[g]) = calls[g]

\* Generators with different machine ids never collide, whatever their clocks
\* and restarts do: the machine field is not reached by a carry.
NoCollision ==
  \A g, h \in Generators :
    MachineId[g] # MachineId[h] => issued[g] \intersect issued[h] = {}

\* Ids of one process grow, also across a busy wait and a set-back clock.
IdsGrow ==
  [][\A g \in Generators :
       restarts = 0 => \A new \in issued'[g] \ issued[g] :
                         \A old \in issued[g] : old < new]_vars

-----------------------------------------------------------------------------
(* The inductive invariant behind these properties.                        *)

IdsOfMachine ==
  \A g \in Generators : \A id \in issued[g] :
    \E t \in 0..MaxTime, seq \in 0..MaxSequence : id = Id(t, MachineId[g], seq)

\* The generator will not pair t and seq again: it is past t, past seq within
\* t, or restarted after t.
Used(g, t, seq) ==
  \/ t < lastTimestamp[g]
  \/ t = lastTimestamp[g] /\ (waiting[g] \/ seq <= sequence[g])
  \/ t < clock[g] /\ lastTimestamp[g] = -1 /\ restarts > 0

IdsAreUsed ==
  ClockTrusted =>
    \A g \in Generators : \A id \in issued[g] :
      \E t \in 0..MaxTime, seq \in 0..MaxSequence :
        id = Id(t, MachineId[g], seq) /\ Used(g, t, seq)

\* Only a clock that is set back falls behind the generator.
ClockAhead ==
  setBacks = 0 => \A g \in Generators : lastTimestamp[g] <= clock[g]

IssuedIsFinite == \A g \in Generators : IsFiniteSet(issued[g])

IInv ==
  /\ TypeOK
  /\ IdsOfMachine
  /\ IdsAreUsed
  /\ ClockAhead
  /\ IssuedIsFinite
  /\ NoRepeat

==============================================================================

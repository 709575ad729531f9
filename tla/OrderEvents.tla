----------------------------- MODULE OrderEvents -----------------------------
(***************************************************************************)
(* What the order service promises about orders and their events, without  *)
(* handlers, publisher runs, channels or failures: an event is stored once *)
(* and after its order, it is sent only after it was stored, its row says  *)
(* PUBLISHED only after it was sent and is never PENDING again, and the    *)
(* broker gets no copy that was not sent.                                  *)
(***************************************************************************)
EXTENDS Naturals

CONSTANTS Requests       \* requests, each with its order and its event

VARIABLES placed,        \* requests whose order is in the table
          event,         \* status of each outbox row, or "absent"
          sent,          \* copies of each event the service has sent
          delivered      \* copies that reached the order queue

vars == <<placed, event, sent, delivered>>

Init ==
  /\ placed = {}
  /\ event = [r \in Requests |-> "absent"]
  /\ sent = [r \in Requests |-> 0]
  /\ delivered = [r \in Requests |-> 0]

Place(r) ==
  /\ r \notin placed
  /\ placed' = placed \union {r}
  /\ UNCHANGED <<event, sent, delivered>>

Store(r) ==
  /\ r \in placed
  /\ event[r] = "absent"
  /\ event' = [event EXCEPT ![r] = "PENDING"]
  /\ UNCHANGED <<placed, sent, delivered>>

Send(r) ==
  /\ event[r] # "absent"
  /\ sent' = [sent EXCEPT ![r] = @ + 1]
  /\ UNCHANGED <<placed, event, delivered>>

\* A row may be settled again, differently, by a second run that holds it.
Settle(r) ==
  /\ event[r] # "absent"
  /\ \/ sent[r] > 0 /\ event' = [event EXCEPT ![r] = "PUBLISHED"]
     \/ event' = [event EXCEPT ![r] = "FAILED"]
  /\ UNCHANGED <<placed, sent, delivered>>

Deliver(r) ==
  /\ delivered[r] < sent[r]
  /\ delivered' = [delivered EXCEPT ![r] = @ + 1]
  /\ UNCHANGED <<placed, event, sent>>

Next ==
  \E r \in Requests : Place(r) \/ Store(r) \/ Send(r) \/ Settle(r) \/ Deliver(r)

Spec == Init /\ [][Next]_vars

==============================================================================

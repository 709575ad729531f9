--------------------------- MODULE InventoryLedger ---------------------------
(***************************************************************************)
(* What the inventory worker promises, without queues, inbox, crashes or   *)
(* transactions: an order event is charged against the stock of its        *)
(* product at most once, in one indivisible step, and only when the stock  *)
(* covers it and no other event of the same order was charged before.      *)
(***************************************************************************)
EXTENDS Integers

CONSTANTS Messages,      \* message ids of order.created events
          Event,         \* what each message carries
          Inventory,     \* products with a row in the inventory table
          InitialStock   \* their stock before any event

VARIABLES stock,         \* physical_stock of each product
          charged        \* messages whose quantity has been deducted

vars == <<stock, charged>>

Init ==
  /\ stock = InitialStock
  /\ charged = {}

Charge(m) ==
  LET e == Event[m] IN
  /\ \A n \in charged : Event[n].orderId # e.orderId
  /\ m \notin charged
  /\ e.productId \in Inventory
  /\ e.quantity > 0
  /\ stock[e.productId] >= e.quantity
  /\ stock' = [stock EXCEPT ![e.productId] = @ - e.quantity]
  /\ charged' = charged \union {m}

Next == \E m \in Messages : Charge(m)

Spec == Init /\ [][Next]_vars

==============================================================================

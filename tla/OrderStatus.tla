----------------------------- MODULE OrderStatus -----------------------------
(***************************************************************************)
(* The order life cycle of shared/types: the statuses an order row can     *)
(* carry and the table of allowed transitions that the order service and   *)
(* the inventory worker consult before they touch the database.            *)
(***************************************************************************)

OrderStatuses == {"PENDING", "PROCESSING", "PAID", "FAILED",
                  "CANCELLED", "SHIPPED", "DELIVERED"}

ORDER_TRANSITIONS ==
  [from \in OrderStatuses |->
     CASE from = "PENDING"    -> {"PROCESSING", "CANCELLED"}
       [] from = "PROCESSING" -> {"PAID", "FAILED", "CANCELLED"}
       [] from = "PAID"       -> {"SHIPPED"}
       [] from = "SHIPPED"    -> {"DELIVERED"}
       [] OTHER               -> {}]

\* An unknown source status has no successor.
canTransitionOrderStatus(from, to) ==
  from \in OrderStatuses /\ to \in ORDER_TRANSITIONS[from]

==============================================================================

--------------------------- MODULE MCOrderPipeline ---------------------------
(***************************************************************************)
(* A small instance of OrderPipeline for TLC.                              *)
(***************************************************************************)
EXTENDS OrderPipeline, TLC

CONSTANTS r1, r2, p1, p2

\* The first order fits the stock; the second is of a product without an
\* inventory row, which the foreign key of its order row refuses.
TwoEvents ==
  r1 :> [orderId |-> r1, productId |-> p1, quantity |-> 1, wellFormed |-> TRUE]
  @@ r2 :> [orderId |-> r2, productId |-> p2, quantity |-> 1, wellFormed |-> TRUE]

Stock1 == [p \in {p1} |-> 1]

==============================================================================

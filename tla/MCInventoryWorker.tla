-------------------------- MODULE MCInventoryWorker --------------------------
(***************************************************************************)
(* Small instances of InventoryWorker for TLC.                             *)
(***************************************************************************)
EXTENDS InventoryWorker, TLC

CONSTANTS m1, m2, m3, m4, o1, o2, p1, p2

\* Two messages of one order on different products, whose transactions meet
\* at the order id only, and one of another order that competes for the stock
\* of the first: it covers one of the two.
ContendedEvent ==
  m1 :> [orderId |-> o1, productId |-> p1, quantity |-> 2, wellFormed |-> TRUE]
  @@ m2 :> [orderId |-> o1, productId |-> p2, quantity |-> 1, wellFormed |-> TRUE]
  @@ m3 :> [orderId |-> o2, productId |-> p1, quantity |-> 2, wellFormed |-> TRUE]

\* Four messages of one order: a negative quantity, a good one, a good one of
\* another product (their INSERTs wait for each other), a malformed body.
OddEvent ==
  m1 :> [orderId |-> o1, productId |-> p1, quantity |-> -1, wellFormed |-> TRUE]
  @@ m2 :> [orderId |-> o1, productId |-> p1, quantity |-> 1, wellFormed |-> TRUE]
  @@ m3 :> [orderId |-> o1, productId |-> p2, quantity |-> 1, wellFormed |-> TRUE]
  @@ m4 :> [orderId |-> o1, productId |-> p1, quantity |-> 1, wellFormed |-> FALSE]

Stock31 == p1 :> 3 @@ p2 :> 1
Stock21 == p1 :> 2 @@ p2 :> 1

WorkerSymmetry == Permutations(Workers)

==============================================================================

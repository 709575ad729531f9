------------------------ MODULE MCGatewayIdempotency ------------------------
(***************************************************************************)
(* Small instances of GatewayIdempotency for TLC.                          *)
(***************************************************************************)
EXTENDS GatewayIdempotency, TLC

CONSTANTS r1, r2, r3, r4, k1

\* All requests carry one key.
SameKey == [r \in Requests |-> k1]

\* Three requests share a key, one has none.
SharedKey == r1 :> k1 @@ r2 :> k1 @@ r3 :> k1 @@ r4 :> NoKey

==============================================================================

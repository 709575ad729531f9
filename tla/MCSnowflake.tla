----------------------------- MODULE MCSnowflake -----------------------------
(***************************************************************************)
(* Small instances of Snowflake for TLC: two sequence numbers per          *)
(* millisecond, two machine ids.                                           *)
(***************************************************************************)
EXTENDS Snowflake, TLC

CONSTANTS g1, g2

TwoMachines == g1 :> 0 @@ g2 :> 1

==============================================================================

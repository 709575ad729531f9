---------------------------- MODULE MCOrderOutbox ----------------------------
(***************************************************************************)
(* Small instances of OrderOutbox for TLC; the sets are given in the       *)
(* configurations.                                                         *)
(***************************************************************************)
EXTENDS OrderOutbox

CONSTANTS r1, r2, r3

==============================================================================

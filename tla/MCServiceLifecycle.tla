------------------------- MODULE MCServiceLifecycle -------------------------
(***************************************************************************)
(* ServiceLifecycle for TLC: the services and dependencies are those of    *)
(* docker-compose.yml; only the bound on crashes is given a value.         *)
(***************************************************************************)
EXTENDS ServiceLifecycle
==============================================================================

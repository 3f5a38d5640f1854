---------------------------- MODULE MCRetryGateway ----------------------------
(***************************************************************************)
(* One caller beside one close(): concurrent callers share nothing but the *)
(* client cache and totals that are updated between two awaits, and the    *)
(* clients of other calls are in the cache at the start.                   *)
(***************************************************************************)
EXTENDS GatewayClients

CONSTANT c1

MCCallers == {c1}
=============================================================================

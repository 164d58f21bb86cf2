----------------------- MODULE MC_IntegrationInbound -----------------------
(* An instance of IntegrationInbound for TLC. *)
EXTENDS IntegrationInbound, TLC

CONSTANTS priority, normal, high

(* zendeskPriority and its inverse on two values.                            *)
Same == priority :> ((normal :> normal) @@ (high :> high))
=============================================================================

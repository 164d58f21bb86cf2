------------------------ MODULE MC_IntegrationSync ------------------------
(* An instance of IntegrationSync for TLC. *)
EXTENDS IntegrationSync, TLC

CONSTANTS c, u, rc, ru

(* A ticket's create and an update of it, each with its rule. *)
RuleOf == (c :> rc) @@ (u :> ru)
TicketOf == u :> c
=============================================================================

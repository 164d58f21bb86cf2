---------------------------- MODULE MC_Webhooks ----------------------------
(* An instance of Webhooks for TLC. *)
EXTENDS Webhooks
=============================================================================

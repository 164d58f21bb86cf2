-------------------------- MODULE MC_Conversations --------------------------
(* An instance of Conversations for TLC. *)
EXTENDS Conversations, TLC

Interchangeable == Permutations(Messages)
=============================================================================

------------------------- MODULE MC_ActionExecution -------------------------
(* An instance of ActionExecution for TLC: a slot and an action that alice   *)
(* asked for.                                                                *)
EXTENDS ActionExecution, TLC

CONSTANTS slot, edit, alice

RequesterOf == (slot :> None) @@ (edit :> alice)
Symmetric == Permutations(Handlers) \cup Permutations(Executors)
=============================================================================

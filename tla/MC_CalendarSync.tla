------------------------ MODULE MC_CalendarSync ------------------------
(* Instances of CalendarSync for TLC. *)
EXTENDS CalendarSync, TLC

Interchangeable == Permutations(Events) \cup Permutations(Times)
=============================================================================

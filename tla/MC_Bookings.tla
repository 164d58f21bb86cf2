---------------------------- MODULE MC_Bookings ----------------------------
(* Instances of Bookings for TLC. *)
EXTENDS Bookings, TLC

CONSTANTS short, long, head, p1, p2, p3, i1, i2

Setting(duration, after, notice) ==
  [duration |-> duration, before |-> 0, after |-> after, notice |-> notice,
   future |-> 5, enabled |-> TRUE]

(* A short and a longer meeting with a gap behind it. *)
TwoSettings == {Setting(1, 0, 0), Setting(2, 1, 0)}
OneSetting == {Setting(1, 0, 0)}
WithNotice == {Setting(1, 0, 1)}

NoKeys == [k \in {} |-> k]
ShortKey == short :> short
LongKey == (long :> head) @@ (head :> head)

OneServer == (p1 :> i1) @@ (p2 :> i1)
TwoServers == OneServer @@ (p3 :> i2)

Interchangeable == Permutations(Ids) \cup Permutations(Requests)
=============================================================================

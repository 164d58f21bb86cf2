------------------------------- MODULE Agenda -------------------------------
(* What booking meetings promises, with no requests, locks or statements:    *)
(* every operation is one indivisible step that finds its time free.         *)
EXTENDS Integers

CONSTANTS Ids,    \* bookings
          Hosts,  \* members who can be booked
          Keys,   \* idempotency keys as they are stored
          None

VARIABLE agenda   \* the meeting of each booking

vars == <<agenda>>

Meetings == [status : {"none", "confirmed", "cancelled"}, host : Hosts \cup {None},
             start : Int, end : Int, key : Keys \cup {None}]

NoMeeting == [status |-> "none", host |-> None, start |-> 0, end |-> 0, key |-> None]

TypeOK == agenda \in [Ids -> Meetings]

Init == agenda = [id \in Ids |-> NoMeeting]

(* A meeting nobody hosts needs the time of everybody. *)
Free(id, host, start, end) ==
  \A other \in Ids \ {id} :
    \/ agenda[other].status # "confirmed"
    \/ host # None /\ agenda[other].host # host
    \/ agenda[other].end <= start
    \/ end <= agenda[other].start

Book(id) ==
  LET new == agenda'[id] IN
  /\ agenda[id].status = "none"
  /\ new \in Meetings
  /\ new.status = "confirmed"
  /\ new.key # None => \A other \in Ids : agenda[other].key # new.key
  /\ Free(id, new.host, new.start, new.end)
  /\ agenda' = [agenda EXCEPT ![id] = new]

Move(id) ==
  LET new == agenda'[id] IN
  /\ agenda[id].status = "confirmed"
  /\ new \in Meetings
  /\ Free(id, new.host, new.start, new.end)
  /\ agenda' = [agenda EXCEPT ![id].start = new.start, ![id].end = new.end]

Cancel(id) ==
  /\ agenda[id].status = "confirmed"
  /\ agenda' = [agenda EXCEPT ![id].status = "cancelled"]

Next == \E id \in Ids : Book(id) \/ Move(id) \/ Cancel(id)

Spec == Init /\ [][Next]_vars
=============================================================================

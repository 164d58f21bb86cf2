------------------------------ MODULE Bookings ------------------------------
(* Booking meetings (SchedulingService) under the organization's mutation    *)
(* lock (SchedulingMutationLockService).                                     *)
(*                                                                           *)
(* The lock is a PostgreSQL session lock held by a connection of its own;    *)
(* the statements it guards commit one by one on another connection, so      *)
(* nothing but the lock keeps what was read true until it is used.  Times    *)
(* are integers.  A booking has the id its insert gives it.                  *)
EXTENDS Integers, FiniteSets

CONSTANTS Requests,   \* calls of createBooking, rescheduleBooking, cancelBooking
          Instances,  \* API processes
          InstanceOf, \* request -> the process that serves it
          PoolSize,   \* connections in the lock pool of a process
          Ids,        \* bookings
          Types,      \* meeting types
          Settings,   \* what a meeting type may be set to
          Hosts,      \* members who can be booked
          Starts,     \* times asked for
          MaxNow,     \* bound on the clock
          Keys,       \* idempotency keys clients use, and those stored
          StoredKey,  \* key -> its first 120 characters
          None

ASSUME NoneAssumption ==
  None \notin Requests \cup Ids \cup Types \cup Settings \cup Hosts \cup Keys
ASSUME PoolAssumption == PoolSize \in Nat \ {0}
ASSUME InstanceAssumption == InstanceOf \in [Requests -> Instances]
ASSUME KeyAssumption ==
  StoredKey \in [Keys -> Keys] /\ \A k \in Keys : StoredKey[StoredKey[k]] = StoredKey[k]
ASSUME TimeAssumption == Starts \subseteq Int /\ MaxNow \in Nat
ASSUME SettingAssumption ==
  Settings \subseteq [duration : Nat \ {0}, before : Nat, after : Nat,
                      notice : Nat, future : Nat, enabled : BOOLEAN]

VARIABLES now,      \* the clock
          setting,  \* settings of each meeting type
          booking,  \* the bookings row of each id
          lock,     \* the request whose connection holds the advisory lock
          request   \* what each request is doing

vars == <<now, setting, booking, lock, request>>

Steps == {"idle", "asked", "queued", "locked", "found", "timed", "looked",
          "free", "stored", "answered", "refused"}
Locked == Steps \ {"idle", "asked", "queued"}
Kinds == {"create", "reschedule", "cancel"}

Rows == [status : {"none", "confirmed", "cancelled"}, type : Types \cup {None},
         host : Hosts \cup {None}, start : Int, end : Int, key : Keys \cup {None}]
NoRow == [status |-> "none", type |-> None, host |-> None, start |-> 0, end |-> 0,
          key |-> None]

(* What a client asks for: a create has no booking yet, the others have no   *)
(* type, host and key of their own.                                          *)
Calls ==
  [step : {"asked"}, setting : {None}, kind : {"create"}, id : {None},
   type : Types, host : Hosts \cup {None}, start : Starts, key : Keys \cup {None}]
    \cup
  [step : {"asked"}, setting : {None}, kind : {"reschedule"}, id : Ids,
   type : {None}, host : {None}, start : Starts, key : {None}]
    \cup
  [step : {"asked"}, setting : {None}, kind : {"cancel"}, id : Ids,
   type : {None}, host : {None}, start : {0}, key : {None}]

NoRequest == [step |-> "idle", setting |-> None, kind |-> "create", id |-> None,
              type |-> None, host |-> None, start |-> 0, key |-> None]

Tasks ==
  [step : Steps, setting : Settings \cup {None}, kind : Kinds,
   id : Ids \cup {None}, type : Types \cup {None}, host : Hosts \cup {None},
   start : Int, key : Keys \cup {None}]

TypeOK ==
  /\ now \in 0..MaxNow
  /\ setting \in [Types -> Settings]
  /\ booking \in [Ids -> Rows]
  /\ lock \in Requests \cup {None}
  /\ request \in [Requests -> Tasks]

Init ==
  /\ now = 0
  /\ setting \in [Types -> Settings]
  /\ booking = [id \in Ids |-> NoRow]
  /\ lock = None
  /\ request = [p \in Requests |-> NoRequest]

Goes(p, from, to) ==
  request[p].step = from /\ request' = [request EXCEPT ![p].step = to]

-----------------------------------------------------------------------------
(* The surroundings: the clock, and admins who edit meeting types.           *)

Tick ==
  /\ now < MaxNow
  /\ now' = now + 1
  /\ UNCHANGED <<setting, booking, lock, request>>

EditType(t) ==
  /\ \E s \in Settings : setting' = [setting EXCEPT ![t] = s]
  /\ UNCHANGED <<now, booking, lock, request>>

-----------------------------------------------------------------------------
(* The lock: SchedulingMutationLockService.run.                              *)

Ask(p) ==
  /\ request[p].step = "idle"
  /\ \E call \in Calls : request' = [request EXCEPT ![p] = call]
  /\ UNCHANGED <<now, setting, booking, lock>>

PoolFull(p) ==
  Cardinality({q \in Requests :
    /\ InstanceOf[q] = InstanceOf[p]
    /\ request[q].step \notin {"idle", "asked"}}) >= PoolSize

Connect(p) ==
  /\ ~PoolFull(p)
  /\ Goes(p, "asked", "queued")
  /\ UNCHANGED <<now, setting, booking, lock>>

ConnectTimesOut(p) ==
  /\ request[p].step = "asked"
  /\ PoolFull(p)
  /\ request' = [request EXCEPT ![p] = NoRequest]
  /\ UNCHANGED <<now, setting, booking, lock>>

LockableAnyway == TRUE  \* defect: the mutation runs without the lock
Lockable == lock = None

Acquire(p) ==
  /\ Lockable
  /\ Goes(p, "queued", "locked")
  /\ lock' = p
  /\ UNCHANGED <<now, setting, booking>>

UnlockedNever(ps) == lock  \* defect: the finally block forgets the lock
Unlocked(ps) == IF lock \in ps THEN None ELSE lock

Finish(ps) ==
  /\ request' = [p \in Requests |-> IF p \in ps THEN NoRequest ELSE request[p]]
  /\ lock' = Unlocked(ps)
  /\ UNCHANGED <<now, setting, booking>>

Release(p) == request[p].step \in {"stored", "answered", "refused"} /\ Finish({p})

(* A statement or the calendar fails; the finally block gives the lock back. *)
Fail(p) == request[p].step \in Locked /\ Finish({p})

(* The process dies, and its connections with it. *)
Crash(i) ==
  LET served == {p \in Requests : InstanceOf[p] = i} IN
  /\ \E p \in served : request[p].step # "idle"
  /\ Finish(served)

-----------------------------------------------------------------------------
(* What each operation reads.                                                *)

InRange(start, s) == start >= now + s.notice /\ start <= now + s.future

Found(p) == booking[request[p].id].status = "confirmed"

ReadBooking(p) ==
  LET row == booking[request[p].id] IN
  /\ request[p].kind # "create"
  /\ request[p].step = "locked"
  /\ Found(p)
  /\ request' = [request EXCEPT ![p].step = "found", ![p].type = row.type,
                                ![p].host = row.host]
  /\ UNCHANGED <<now, setting, booking, lock>>

Reads(p) ==
  \/ request[p].kind = "create" /\ request[p].step = "locked"
  \/ request[p].kind = "reschedule" /\ request[p].step = "found"

Bookable(p) ==
  LET s == setting[request[p].type] IN
  /\ request[p].kind = "create" => s.enabled
  /\ InRange(request[p].start, s)

ReadType(p) ==
  /\ Reads(p)
  /\ Bookable(p)
  /\ request' = [request EXCEPT ![p].step = "timed",
                                ![p].setting = setting[request[p].type]]
  /\ UNCHANGED <<now, setting, booking, lock>>

Known(key) == key # None /\ \E id \in Ids : booking[id].key = key

LookUp(p) ==
  /\ request[p].kind = "create"
  /\ Goes(p, "timed", IF Known(request[p].key) THEN "answered" ELSE "looked")
  /\ UNCHANGED <<now, setting, booking, lock>>

Checks(p) ==
  \/ request[p].kind = "create" /\ request[p].step = "looked"
  \/ request[p].kind = "reschedule" /\ request[p].step = "timed"

End(r) == r.start + r.setting.duration

ClashesExactly(r) ==  \* defect: only a meeting of the very same time conflicts
  \E id \in Ids \ {r.id} :
    /\ booking[id].status = "confirmed"
    /\ r.host # None => booking[id].host = r.host
    /\ booking[id].start = r.start
Clashes(r) ==
  \E id \in Ids \ {r.id} :
    /\ booking[id].status = "confirmed"
    /\ r.host # None => booking[id].host = r.host
    /\ booking[id].start < End(r) + r.setting.after
    /\ booking[id].end > r.start - r.setting.before

FindFree(p) ==
  /\ Checks(p)
  /\ ~Clashes(request[p])
  /\ request' = [request EXCEPT ![p].step = "free"]
  /\ UNCHANGED <<now, setting, booking, lock>>

KeyTakenNever(p) == FALSE  \* defect: no unique index
(* A long key was looked up whole, and stored as its beginning. *)
KeyTaken(p) == request[p].key # None /\ Known(StoredKey[request[p].key])

(* The calendar of the host may be busy. *)
Refuse(p) ==
  /\ \/ request[p].step = "locked" /\ request[p].kind # "create" /\ ~Found(p)
     \/ Reads(p) /\ ~Bookable(p)
     \/ Checks(p) /\ Clashes(request[p])
     \/ request[p].step = "free" /\ request[p].host # None
     \/ request[p].step = "free" /\ request[p].kind = "create" /\ KeyTaken(p)
  /\ request' = [request EXCEPT ![p].step = "refused"]
  /\ UNCHANGED <<now, setting, booking, lock>>

-----------------------------------------------------------------------------
(* What each operation writes.                                               *)

InsertedAsPending(p) ==  \* defect: another table's default status
  [status |-> "pending", type |-> request[p].type, host |-> request[p].host,
   start |-> request[p].start, end |-> End(request[p]), key |-> None]
Inserted(p) ==
  [status |-> "confirmed", type |-> request[p].type, host |-> request[p].host,
   start |-> request[p].start, end |-> End(request[p]),
   key |-> IF request[p].key = None THEN None ELSE StoredKey[request[p].key]]

Insert(p) ==
  /\ request[p].kind = "create"
  /\ ~KeyTaken(p)
  /\ Goes(p, "free", "stored")
  /\ \E id \in Ids :
       /\ booking[id].status = "none"
       /\ booking' = [booking EXCEPT ![id] = Inserted(p)]
  /\ UNCHANGED <<now, setting, lock>>

(* The row is updated by its id alone. *)
Update(p) ==
  /\ request[p].kind = "reschedule"
  /\ Goes(p, "free", "stored")
  /\ booking' = [booking EXCEPT ![request[p].id].start = request[p].start,
                                ![request[p].id].end = End(request[p])]
  /\ UNCHANGED <<now, setting, lock>>

Cancel(p) ==
  /\ request[p].kind = "cancel"
  /\ Found(p)
  /\ Goes(p, "found", "stored")
  /\ booking' = [booking EXCEPT ![request[p].id].status = "cancelled"]
  /\ UNCHANGED <<now, setting, lock>>

-----------------------------------------------------------------------------
Advance(p) ==
  \/ ReadBooking(p) \/ ReadType(p) \/ LookUp(p) \/ FindFree(p) \/ Refuse(p)
  \/ Insert(p) \/ Update(p) \/ Cancel(p) \/ Release(p) \/ Fail(p)

Next ==
  \/ Tick
  \/ \E t \in Types : EditType(t)
  \/ \E i \in Instances : Crash(i)
  \/ \E p \in Requests :
       Ask(p) \/ Connect(p) \/ ConnectTimesOut(p) \/ Acquire(p) \/ Advance(p)

Spec == Init /\ [][Next]_vars

(* Every statement and every call of a calendar ends, at the latest by its   *)
(* timeout; PostgreSQL queues the waiters of an advisory lock in order, and  *)
(* the pool its waiters.                                                     *)
Fairness ==
  \A p \in Requests :
    /\ WF_vars(Advance(p))
    /\ SF_vars(Acquire(p))
    /\ SF_vars(Connect(p))

FairSpec == Spec /\ Fairness

-----------------------------------------------------------------------------
Meeting(id) ==
  [status |-> booking[id].status, host |-> booking[id].host,
   start |-> booking[id].start, end |-> booking[id].end, key |-> booking[id].key]

Promise == INSTANCE Agenda WITH agenda <- [id \in Ids |-> Meeting(id)]

(* Requests interleave statement by statement, settings change and processes *)
(* die, but every change of a booking is an atomic step of the agenda.       *)
ImplementsAgenda == Promise!Spec

(* No member, and no unhosted meeting, has two meetings at one time. *)
NoDoubleBooking ==
  \A a, b \in Ids :
    (/\ a # b
     /\ booking[a].status = "confirmed" /\ booking[b].status = "confirmed"
     /\ booking[a].host = booking[b].host)
      => booking[a].end <= booking[b].start \/ booking[b].end <= booking[a].start

(* Every request is answered, whoever holds the lock and whatever fails. *)
RequestsEnd ==
  \A p \in Requests : request[p].step # "idle" ~> request[p].step = "idle"

(* A create whose key already has its booking is answered with that booking. *)
ReplayReturnsBooking ==
  \A p \in Requests :
    (request[p].kind = "create" /\ request[p].key # None)
      => ~(request[p].step = "refused" /\ KeyTaken(p))
=============================================================================

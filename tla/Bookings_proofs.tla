--------------------------- MODULE Bookings_proofs ---------------------------
(* Booking is safe for any number of requests, processes, bookings, hosts and *)
(* meeting types, whatever their settings.                                    *)
(*                                                                            *)
(* The argument: requests past the lock are the holder of the lock, so there  *)
(* is at most one; hence what that one read about its booking and about the   *)
(* absence of clashes still holds when it writes.                             *)
EXTENDS Bookings, TLAPS

Timed == {"timed", "looked", "free"}

HolderAlone == \A p \in Requests : request[p].step \in Locked => lock = p

CallShaped ==
  \A p \in Requests :
    /\ request[p].kind = "create" => request[p].id = None
    /\ request[p].kind # "create" =>
         request[p].id \in Ids /\ request[p].step # "looked"
    /\ request[p].kind = "cancel" => request[p].step \notin Timed
    /\ request[p].step \in Timed => request[p].setting \in Settings

TypeKnown ==
  /\ \A p \in Requests :
       (request[p].kind = "create" /\ request[p].step # "idle")
          \/ request[p].step = "found"
         => request[p].type \in Types
  /\ \A id \in Ids : booking[id].status # "none" => booking[id].type \in Types

ReadHolds ==
  \A p \in Requests :
    (request[p].kind # "create" /\ request[p].step \in {"found"} \cup Timed)
      => Found(p) /\ booking[request[p].id].host = request[p].host

FreeStaysFree ==
  \A p \in Requests : request[p].step = "free" => ~Clashes(request[p])

IInv ==
  /\ TypeOK
  /\ HolderAlone
  /\ CallShaped
  /\ TypeKnown
  /\ ReadHolds
  /\ FreeStaysFree
  /\ NoDoubleBooking

-----------------------------------------------------------------------------
LEMMA InitIInv == Init => IInv
  BY NoneAssumption, TimeAssumption
  DEF Init, IInv, TypeOK, HolderAlone, CallShaped, TypeKnown, ReadHolds,
     FreeStaysFree, NoDoubleBooking, NoRow, Rows, NoRequest, Tasks, Steps, Locked, Timed,
     Kinds

LEMMA TaskAtStep ==
  ASSUME NEW task \in Tasks, NEW s \in Steps
  PROVE  LET r == [task EXCEPT !.step = s] IN
         /\ r \in Tasks /\ r.step = s /\ r.kind = task.kind /\ r.id = task.id
         /\ r.type = task.type /\ r.host = task.host /\ r.start = task.start
         /\ r.setting = task.setting /\ r.key = task.key
  BY DEF Tasks

LEMMA CallIsTyped ==
  ASSUME NEW call \in Calls
  PROVE  /\ call \in Tasks
         /\ call.step = "asked"
         /\ call.kind = "create" => call.id = None /\ call.type \in Types
         /\ call.kind # "create" => call.id \in Ids
  <1>1. CASE call \in [step : {"asked"}, setting : {None}, kind : {"create"},
                       id : {None}, type : Types, host : Hosts \cup {None},
                       start : Starts, key : Keys \cup {None}]
    BY <1>1, TimeAssumption DEF Tasks, Steps, Kinds
  <1>2. CASE call \in [step : {"asked"}, setting : {None}, kind : {"reschedule"},
                       id : Ids, type : {None}, host : {None}, start : Starts,
                       key : {None}]
    BY <1>2, TimeAssumption DEF Tasks, Steps, Kinds
  <1>3. CASE call \in [step : {"asked"}, setting : {None}, kind : {"cancel"},
                       id : Ids, type : {None}, host : {None}, start : {0},
                       key : {None}]
    BY <1>3 DEF Tasks, Steps, Kinds
  <1> QED
    BY <1>1, <1>2, <1>3 DEF Calls

LEMMA NoRequestIsTyped ==
  /\ NoRequest \in Tasks
  /\ NoRequest.step = "idle" /\ NoRequest.kind = "create" /\ NoRequest.id = None
  BY DEF NoRequest, Tasks, Steps, Kinds

LEMMA StepNames ==
  /\ "idle" \notin Locked \cup Timed /\ "asked" \notin Locked \cup Timed
  /\ "queued" \notin Locked \cup Timed
  /\ {"locked", "found", "stored", "answered", "refused"} \subseteq Locked \ Timed
  /\ Timed \subseteq Locked /\ Locked \subseteq Steps
  /\ {"idle", "asked", "queued"} \subseteq Steps
  BY DEF Locked, Timed, Steps

(* A request that only moves on and learns does not touch the bookings. *)
LEMMA FinishKeepsIInv ==
  ASSUME IInv, NEW ps \in SUBSET Requests, Finish(ps)
  PROVE  IInv'
  <1>1. \A p \in Requests : request'[p] = IF p \in ps THEN NoRequest ELSE request[p]
    BY DEF Finish, IInv, TypeOK
  <1>2. booking' = booking /\ setting' = setting /\ now' = now
    BY DEF Finish
  <1>3. lock' = IF lock \in ps THEN None ELSE lock
    BY DEF Finish, Unlocked
  <1>4. NoRequest.step = "idle" /\ NoRequest.kind = "create" /\ NoRequest.id = None
    BY DEF NoRequest
  <1>5. TypeOK'
    BY <1>1, <1>2, <1>3, NoRequestIsTyped DEF Finish, IInv, TypeOK
  <1>6. HolderAlone'
    BY <1>1, <1>3, <1>4 DEF IInv, HolderAlone, Locked, Steps
  <1>7. CallShaped' /\ TypeKnown' /\ ReadHolds'
    BY <1>1, <1>2, <1>4
    DEF IInv, CallShaped, TypeKnown, ReadHolds, Found, Timed
  <1>8. FreeStaysFree' /\ NoDoubleBooking'
    BY <1>1, <1>2, <1>4
    DEF IInv, FreeStaysFree, NoDoubleBooking, Clashes, End
  <1> QED
    BY <1>5, <1>6, <1>7, <1>8 DEF IInv

(* One request takes a step that leaves every booking alone; only Acquire     *)
(* takes a request past the lock.                                            *)
LEMMA MoveKeepsIInv ==
  ASSUME IInv, NEW p \in Requests, NEW r \in Tasks,
         request' = [request EXCEPT ![p] = r],
         UNCHANGED <<now, setting, booking>>,
         \/ lock' = lock /\ (r.step \in Locked => request[p].step \in Locked)
         \/ lock = None /\ lock' = p,
         r.kind = "create" => r.id = None,
         r.kind # "create" => r.id \in Ids /\ r.step # "looked",
         r.kind = "cancel" => r.step \notin Timed,
         r.step \in Timed => r.setting \in Settings,
         (r.kind = "create" /\ r.step # "idle") \/ r.step = "found"
            => r.type \in Types,
         (r.kind # "create" /\ r.step \in {"found"} \cup Timed)
            => booking[r.id].status = "confirmed" /\ booking[r.id].host = r.host,
         r.step = "free" => ~Clashes(r)
  PROVE  IInv'
  <1>1. \A q \in Requests : request'[q] = IF q = p THEN r ELSE request[q]
    BY DEF IInv, TypeOK
  <1>2. TypeOK'
    BY DEF IInv, TypeOK
  <1>3. HolderAlone'
    BY <1>1, NoneAssumption DEF IInv, HolderAlone
  <1>4. CallShaped' /\ TypeKnown'
    BY <1>1 DEF IInv, CallShaped, TypeKnown
  <1>5. ReadHolds'
    BY <1>1 DEF IInv, ReadHolds, Found
  <1>6. FreeStaysFree' /\ NoDoubleBooking'
    BY <1>1 DEF IInv, FreeStaysFree, NoDoubleBooking, Clashes, End
  <1> QED
    BY <1>2, <1>3, <1>4, <1>5, <1>6 DEF IInv

(* The holder of the lock writes a booking and is done. *)
LEMMA WriteKeepsIInv ==
  ASSUME IInv, NEW p \in Requests, request[p].step \in Locked,
         request' = [request EXCEPT ![p].step = "stored"],
         booking' \in [Ids -> Rows],
         UNCHANGED <<now, setting, lock>>,
         \A id \in Ids : booking'[id].status # "none" => booking'[id].type \in Types,
         NoDoubleBooking'
  PROVE  IInv'
  <1>1. /\ request'[p] = [request[p] EXCEPT !.step = "stored"]
        /\ \A q \in Requests \ {p} : request'[q] = request[q]
        /\ "stored" \in Locked /\ "stored" \notin Timed \cup {"found"}
    BY DEF IInv, TypeOK, Locked, Steps, Timed
  <1>a. TypeOK'
    <2>1. [request[p] EXCEPT !.step = "stored"] \in Tasks
      BY StepNames, TaskAtStep DEF IInv, TypeOK
    <2> QED
      BY <1>1, <2>1 DEF IInv, TypeOK
  <1>b. request'[p].step = "stored"
    BY <1>1 DEF IInv, TypeOK, Tasks
  <1>2. TypeOK' /\ HolderAlone'
    BY <1>1, <1>a DEF IInv, HolderAlone
  <1>3. \A q \in Requests : request'[q].step \notin {"found"} \cup Timed
    BY <1>1, <1>b, StepNames DEF IInv, HolderAlone
  <1>4. CallShaped'
    BY <1>1, StepNames DEF IInv, CallShaped, TypeOK, Tasks
  <1>5. TypeKnown'
    BY <1>1, StepNames DEF IInv, TypeKnown, TypeOK, Tasks
  <1>6. ReadHolds' /\ FreeStaysFree'
    BY <1>3 DEF ReadHolds, FreeStaysFree, Timed
  <1> QED
    BY <1>2, <1>4, <1>5, <1>6 DEF IInv

-----------------------------------------------------------------------------
(* What a request that found its time free may write.                        *)

LEMMA EndIsTyped ==
  ASSUME IInv, NEW p \in Requests, request[p].step = "free"
  PROVE  /\ request[p].setting \in Settings
         /\ request[p].setting.duration \in Nat
         /\ request[p].setting.before \in Nat /\ request[p].setting.after \in Nat
         /\ request[p].start \in Int
         /\ End(request[p]) \in Int
  <1>1. request[p].setting \in Settings /\ request[p].start \in Int
    BY DEF IInv, CallShaped, Timed, TypeOK, Tasks
  <1>2. /\ request[p].setting.duration \in Nat
        /\ request[p].setting.before \in Nat /\ request[p].setting.after \in Nat
    BY <1>1, SettingAssumption
  <1> QED
    BY <1>1, <1>2 DEF End

LEMMA FreeMeansApart ==
  ASSUME IInv, NEW p \in Requests, request[p].step = "free",
         NEW other \in Ids, other # request[p].id,
         booking[other].status = "confirmed",
         request[p].host # None => booking[other].host = request[p].host
  PROVE  \/ booking[other].end <= request[p].start
         \/ End(request[p]) <= booking[other].start
  <1>1. booking[other].start \in Int /\ booking[other].end \in Int
    BY DEF IInv, TypeOK, Rows
  <1>2. ~Clashes(request[p])
    BY DEF IInv, FreeStaysFree
  <1>3. \/ ~(booking[other].start < End(request[p]) + request[p].setting.after)
        \/ ~(booking[other].end > request[p].start - request[p].setting.before)
    BY <1>2 DEF Clashes
  <1> QED
    BY <1>1, <1>3, EndIsTyped

LEMMA InsertedIsTyped ==
  ASSUME IInv, NEW p \in Requests, request[p].step = "free",
         request[p].kind = "create"
  PROVE  /\ Inserted(p) \in Rows /\ Inserted(p).type \in Types
         /\ Inserted(p).status = "confirmed" /\ Inserted(p).host = request[p].host
         /\ Inserted(p).start = request[p].start
         /\ Inserted(p).end = End(request[p])
  <1>1. request[p].type \in Types
    BY DEF IInv, TypeKnown
  <1>2. /\ request[p].host \in Hosts \cup {None}
        /\ request[p].key \in Keys \cup {None}
    BY DEF IInv, TypeOK, Tasks
  <1> QED
    BY <1>1, <1>2, EndIsTyped, KeyAssumption DEF Inserted, Rows

LEMMA InsertFindsFree ==
  ASSUME IInv, NEW p \in Requests, request[p].step = "free",
         request[p].kind = "create",
         NEW other \in Ids, booking[other].status = "confirmed",
         booking[other].host = Inserted(p).host
  PROVE  \/ booking[other].end <= Inserted(p).start
         \/ Inserted(p).end <= booking[other].start
  <1>1. request[p].id = None /\ None \notin Ids
    BY NoneAssumption DEF IInv, CallShaped
  <1> QED
    BY <1>1, FreeMeansApart, InsertedIsTyped

-----------------------------------------------------------------------------
LEMMA InvNext == IInv /\ [Next]_vars => IInv'
  <1> SUFFICES ASSUME IInv, [Next]_vars PROVE IInv'
    OBVIOUS
  <1>0. TypeOK /\ HolderAlone
    BY DEF IInv
  <1>1. CASE Tick \/ \E t \in Types : EditType(t)
    <2>1. /\ TypeOK'
          /\ UNCHANGED <<booking, lock, request>>
      BY <1>0, <1>1, TimeAssumption DEF Tick, EditType, TypeOK
    <2> QED
      BY <2>1 DEF IInv, HolderAlone, CallShaped, TypeKnown, ReadHolds, Found,
         FreeStaysFree, NoDoubleBooking, Clashes, End
  <1>2. ASSUME NEW i \in Instances, Crash(i) PROVE IInv'
    BY <1>2, FinishKeepsIInv DEF Crash
  <1>3. ASSUME NEW p \in Requests, Ask(p) PROVE IInv'
    <2>1. PICK call \in Calls : request' = [request EXCEPT ![p] = call]
      BY <1>3 DEF Ask
    <2> QED
      BY <1>3, <2>1, CallIsTyped, StepNames, MoveKeepsIInv DEF Ask
  <1>4. ASSUME NEW p \in Requests, Connect(p) PROVE IInv'
    <2>1. PICK r \in Tasks : r = [request[p] EXCEPT !.step = "queued"]
      BY <1>0, StepNames, TaskAtStep DEF TypeOK
    <2>2. request[p].step = "asked" /\ request' = [request EXCEPT ![p] = r]
      BY <1>4, <2>1 DEF Connect, Goes
    <2>3. /\ r.step = "queued" /\ r.kind = request[p].kind /\ r.id = request[p].id
          /\ r.type = request[p].type
      BY <1>0, <2>1 DEF TypeOK, Tasks
    <2> QED
      BY <1>4, <2>2, <2>3, StepNames, MoveKeepsIInv
      DEF Connect, IInv, CallShaped, TypeKnown
  <1>5. ASSUME NEW p \in Requests, ConnectTimesOut(p) PROVE IInv'
    BY <1>5, NoRequestIsTyped, StepNames, MoveKeepsIInv DEF ConnectTimesOut
  <1>6. ASSUME NEW p \in Requests, Acquire(p) PROVE IInv'
    <2>1. PICK r \in Tasks : r = [request[p] EXCEPT !.step = "locked"]
      BY <1>0, StepNames, TaskAtStep DEF TypeOK
    <2>2. request[p].step = "queued" /\ request' = [request EXCEPT ![p] = r]
      BY <1>6, <2>1 DEF Acquire, Goes
    <2>3. /\ r.step = "locked" /\ r.kind = request[p].kind /\ r.id = request[p].id
          /\ r.type = request[p].type
      BY <1>0, <2>1 DEF TypeOK, Tasks
    <2> QED
      BY <1>6, <2>2, <2>3, StepNames, MoveKeepsIInv
      DEF Acquire, Lockable, IInv, CallShaped, TypeKnown
  <1>7. ASSUME NEW p \in Requests, ReadBooking(p) PROVE IInv'
    <2>1. /\ request[p].id \in Ids /\ request[p].kind # "create"
          /\ request[p].step = "locked"
          /\ booking[request[p].id].status = "confirmed"
      BY <1>7 DEF ReadBooking, Found, IInv, CallShaped
    <2>2. PICK row \in Rows : row = booking[request[p].id]
      BY <1>0, <2>1 DEF TypeOK
    <2>3. row.type \in Types /\ row.host \in Hosts \cup {None}
      BY <2>1, <2>2 DEF IInv, TypeKnown, Rows
    <2>4. PICK r \in Tasks : r = [request[p] EXCEPT !.step = "found", !.type = row.type,
                                                   !.host = row.host]
      BY <1>0, <2>3, StepNames DEF TypeOK, Tasks
    <2>5. request' = [request EXCEPT ![p] = r]
      BY <1>0, <1>7, <2>2, <2>4 DEF ReadBooking, TypeOK
    <2>6. /\ r.step = "found" /\ r.kind = request[p].kind /\ r.id = request[p].id
          /\ r.type = row.type /\ r.host = row.host
      BY <1>0, <2>4 DEF TypeOK, Tasks
    <2>7. UNCHANGED <<now, setting, booking, lock>>
      BY <1>7 DEF ReadBooking
    <2> QED
      BY <2>1, <2>2, <2>3, <2>5, <2>6, <2>7, StepNames, MoveKeepsIInv
  <1>8. ASSUME NEW p \in Requests, ReadType(p) PROVE IInv'
    <2>1. request[p].step \in {"locked", "found"}
      BY <1>8 DEF ReadType, Reads
    <2>2. request[p].type \in Types /\ setting[request[p].type] \in Settings
      BY <1>0, <1>8 DEF ReadType, Reads, IInv, TypeKnown, TypeOK
    <2>3. PICK r \in Tasks : r = [request[p] EXCEPT !.step = "timed",
                                     !.setting = setting[request[p].type]]
      BY <1>0, <2>2, StepNames DEF TypeOK, Tasks, Timed
    <2>4. request' = [request EXCEPT ![p] = r]
      BY <1>0, <1>8, <2>3 DEF ReadType, TypeOK
    <2>5. /\ r.step = "timed" /\ r.kind = request[p].kind /\ r.id = request[p].id
          /\ r.type = request[p].type /\ r.host = request[p].host
          /\ r.setting \in Settings
      BY <1>0, <2>2, <2>3 DEF TypeOK, Tasks
    <2>6. /\ request[p].kind = "create" => request[p].id = None
          /\ request[p].kind # "create" =>
               /\ request[p].id \in Ids
               /\ booking[request[p].id].status = "confirmed"
               /\ booking[request[p].id].host = request[p].host
          /\ request[p].kind # "cancel"
      BY <1>8 DEF ReadType, Reads, IInv, CallShaped, ReadHolds, Found
    <2>7. UNCHANGED <<now, setting, booking, lock>>
      BY <1>8 DEF ReadType
    <2> QED
      BY <2>1, <2>2, <2>4, <2>5, <2>6, <2>7, StepNames, MoveKeepsIInv
  <1>9. ASSUME NEW p \in Requests, LookUp(p) PROVE IInv'
    <2>1. PICK s \in {"answered", "looked"} :
            s = IF Known(request[p].key) THEN "answered" ELSE "looked"
      OBVIOUS
    <2>2. PICK r \in Tasks : r = [request[p] EXCEPT !.step = s]
      BY <1>0, <2>1, TaskAtStep DEF TypeOK, Steps
    <2>3. /\ request' = [request EXCEPT ![p] = r]
          /\ request[p].step = "timed" /\ request[p].kind = "create"
      BY <1>9, <2>1, <2>2 DEF LookUp, Goes
    <2>4. /\ r.step = s /\ r.kind = request[p].kind /\ r.id = request[p].id
          /\ r.type = request[p].type /\ r.setting = request[p].setting
      BY <1>0, <2>2 DEF TypeOK, Tasks
    <2>5. "timed" \in Timed /\ "looked" \in Timed
      BY DEF Timed
    <2> QED
      BY <1>9, <2>1, <2>3, <2>4, <2>5, StepNames, MoveKeepsIInv
      DEF LookUp, IInv, CallShaped, TypeKnown
  <1>10. ASSUME NEW p \in Requests, FindFree(p) PROVE IInv'
    <2>1. PICK r \in Tasks : r = [request[p] EXCEPT !.step = "free"]
      BY <1>0, TaskAtStep DEF TypeOK, Steps
    <2>2. /\ request' = [request EXCEPT ![p] = r]
          /\ request[p].step \in {"looked", "timed"} /\ ~Clashes(request[p])
          /\ request[p].kind # "cancel"
      BY <1>10, <2>1 DEF FindFree, Checks
    <2>3. /\ r.step = "free" /\ r.kind = request[p].kind /\ r.id = request[p].id
          /\ r.type = request[p].type /\ r.setting = request[p].setting
          /\ r.host = request[p].host /\ r.start = request[p].start
      BY <1>0, <2>1 DEF TypeOK, Tasks
    <2>4. ~Clashes(r)
      BY <2>2, <2>3 DEF Clashes, End
    <2>5. {"timed", "looked", "free"} = Timed
      BY DEF Timed
    <2>6. /\ r.kind = "create" => r.id = None
          /\ r.kind # "create" => r.id \in Ids
          /\ r.setting \in Settings
          /\ r.kind = "create" => r.type \in Types
      BY <2>2, <2>3, <2>5 DEF IInv, CallShaped, TypeKnown
    <2>7. r.kind # "create" =>
            booking[r.id].status = "confirmed" /\ booking[r.id].host = r.host
      BY <2>2, <2>3, <2>5 DEF IInv, ReadHolds, Found
    <2> QED
      BY <1>10, <2>2, <2>3, <2>4, <2>5, <2>6, <2>7, StepNames, MoveKeepsIInv
      DEF FindFree
  <1>11. ASSUME NEW p \in Requests, Refuse(p) PROVE IInv'
    <2>1. PICK r \in Tasks : r = [request[p] EXCEPT !.step = "refused"]
      BY <1>0, StepNames, TaskAtStep DEF TypeOK
    <2>2. request' = [request EXCEPT ![p] = r] /\ request[p].step \in Locked
      BY <1>11, <2>1 DEF Refuse, Reads, Checks, Locked, Steps
    <2>3. /\ r.step = "refused" /\ r.kind = request[p].kind /\ r.id = request[p].id
          /\ r.type = request[p].type
      BY <1>0, <2>1 DEF TypeOK, Tasks
    <2>4. /\ r.kind = "create" => r.id = None /\ r.type \in Types
          /\ r.kind # "create" => r.id \in Ids
      BY <2>2, <2>3, StepNames DEF IInv, CallShaped, TypeKnown
    <2> QED
      BY <1>11, <2>2, <2>3, <2>4, StepNames, MoveKeepsIInv DEF Refuse
  <1>12. ASSUME NEW p \in Requests, Insert(p) PROVE IInv'
    <2>1. /\ request[p].step = "free" /\ request[p].kind = "create"
          /\ request' = [request EXCEPT ![p].step = "stored"]
          /\ UNCHANGED <<now, setting, lock>>
      BY <1>12 DEF Insert, Goes
    <2>2. PICK new \in Ids :
            /\ booking[new].status = "none"
            /\ booking' = [booking EXCEPT ![new] = Inserted(p)]
      BY <1>12 DEF Insert
    <2>3. Inserted(p) \in Rows /\ Inserted(p).type \in Types
      BY <2>1, InsertedIsTyped
    <2>4. booking' \in [Ids -> Rows]
      BY <1>0, <2>2, <2>3 DEF TypeOK
    <2>5. \A id \in Ids : booking'[id] = IF id = new THEN Inserted(p) ELSE booking[id]
      BY <1>0, <2>2 DEF TypeOK
    <2>6. NoDoubleBooking'
      BY <2>1, <2>2, <2>5, InsertFindsFree DEF IInv, NoDoubleBooking
    <2>7. \A id \in Ids : booking'[id].status # "none" => booking'[id].type \in Types
      BY <2>3, <2>5 DEF IInv, TypeKnown
    <2>8. "free" \in Locked
      BY DEF Locked, Steps
    <2> QED
      BY <2>1, <2>4, <2>6, <2>7, <2>8, WriteKeepsIInv
  <1>13. ASSUME NEW p \in Requests, Update(p) PROVE IInv'
    <2> DEFINE id == request[p].id
    <2>1. /\ request[p].step = "free" /\ request[p].kind = "reschedule"
          /\ request' = [request EXCEPT ![p].step = "stored"]
          /\ UNCHANGED <<now, setting, lock>>
          /\ booking' = [booking EXCEPT ![id].start = request[p].start,
                                        ![id].end = End(request[p])]
      BY <1>13 DEF Update, Goes
    <2>2. id \in Ids /\ End(request[p]) \in Int /\ request[p].start \in Int
      BY <2>1, EndIsTyped DEF IInv, CallShaped, TypeOK, Tasks
    <2>3. booking' \in [Ids -> Rows]
      BY <1>0, <2>1, <2>2 DEF TypeOK, Rows
    <2>4. \A other \in Ids :
            /\ booking'[other].status = booking[other].status
            /\ booking'[other].host = booking[other].host
            /\ booking'[other].type = booking[other].type
            /\ booking'[other].start =
                 IF other = id THEN request[p].start ELSE booking[other].start
            /\ booking'[other].end =
                 IF other = id THEN End(request[p]) ELSE booking[other].end
      BY <1>0, <2>1, <2>2 DEF TypeOK, Rows
    <2>5. booking[id].host = request[p].host
      BY <2>1 DEF IInv, ReadHolds, Timed
    <2>5a. \A other \in Ids \ {id} :
             (booking[other].status = "confirmed" /\ booking[other].host = booking[id].host)
               => \/ booking[other].end <= request[p].start
                  \/ End(request[p]) <= booking[other].start
      BY <2>1, <2>5, FreeMeansApart
    <2> HIDE DEF id
    <2>6. NoDoubleBooking'
      BY <2>2, <2>4, <2>5a DEF IInv, NoDoubleBooking
    <2> USE DEF id
    <2>7. \A other \in Ids : booking'[other].status # "none" => booking'[other].type \in Types
      BY <2>4 DEF IInv, TypeKnown
    <2>8. "free" \in Locked
      BY DEF Locked, Steps
    <2> QED
      BY <2>1, <2>3, <2>6, <2>7, <2>8, WriteKeepsIInv
  <1>14. ASSUME NEW p \in Requests, Cancel(p) PROVE IInv'
    <2> DEFINE id == request[p].id
    <2>1. /\ request[p].step = "found" /\ request[p].kind = "cancel"
          /\ request' = [request EXCEPT ![p].step = "stored"]
          /\ UNCHANGED <<now, setting, lock>>
          /\ booking' = [booking EXCEPT ![id].status = "cancelled"]
      BY <1>14 DEF Cancel, Goes
    <2>2. id \in Ids /\ booking[id].status = "confirmed"
      BY <1>14, <2>1 DEF Cancel, Found, IInv, CallShaped
    <2>3. booking' \in [Ids -> Rows]
      BY <1>0, <2>1, <2>2 DEF TypeOK, Rows
    <2>4. \A other \in Ids :
            /\ booking'[other].status =
                 IF other = id THEN "cancelled" ELSE booking[other].status
            /\ booking'[other].host = booking[other].host
            /\ booking'[other].type = booking[other].type
            /\ booking'[other].start = booking[other].start
            /\ booking'[other].end = booking[other].end
      BY <1>0, <2>1, <2>2 DEF TypeOK, Rows
    <2>5. NoDoubleBooking'
      BY <2>4 DEF IInv, NoDoubleBooking
    <2>6. \A other \in Ids : booking'[other].status # "none" => booking'[other].type \in Types
      BY <2>2, <2>4 DEF IInv, TypeKnown
    <2> QED
      BY <2>1, <2>3, <2>5, <2>6, StepNames, WriteKeepsIInv
  <1>15. ASSUME NEW p \in Requests, Release(p) \/ Fail(p) PROVE IInv'
    BY <1>15, FinishKeepsIInv DEF Release, Fail
  <1>16. CASE UNCHANGED vars
    BY <1>16 DEF vars, IInv, TypeOK, HolderAlone, CallShaped, TypeKnown, ReadHolds,
       Found, FreeStaysFree, NoDoubleBooking, Clashes, End
  <1> QED
    BY <1>1, <1>2, <1>3, <1>4, <1>5, <1>6, <1>7, <1>8, <1>9, <1>10, <1>11,
       <1>12, <1>13, <1>14, <1>15, <1>16 DEF Next, Advance

THEOREM InductiveInvariant == Spec => []IInv
  BY InitIInv, InvNext, PTL DEF Spec

(* Every reachable state is well typed. *)
THEOREM TypeCorrect == Spec => []TypeOK
  BY InductiveInvariant, PTL DEF IInv

(* No member, and no unhosted meeting, has two meetings at one time. *)
THEOREM NeverDoubleBooked == Spec => []NoDoubleBooking
  BY InductiveInvariant, PTL DEF IInv

-----------------------------------------------------------------------------
(* The refinement: a write is an atomic step of the agenda, everything else   *)
(* a stutter.                                                                 *)
Agenda == [id \in Ids |-> Meeting(id)]

LEMMA MeetingIsTyped ==
  ASSUME TypeOK, NEW id \in Ids
  PROVE  Meeting(id) \in Promise!Meetings
  BY DEF TypeOK, Rows, Meeting, Promise!Meetings

LEMMA RefinesInit == Init => Promise!Init
  BY DEF Init, Meeting, NoRow, Promise!Init, Promise!NoMeeting

LEMMA SameBookings ==
  ASSUME UNCHANGED booking
  PROVE  Agenda' = Agenda
  BY DEF Agenda, Meeting

(* One booking gets another meeting. *)
LEMMA OneMeeting ==
  ASSUME NEW id \in Ids, NEW m,
         \A other \in Ids : Meeting(other)' = IF other = id THEN m ELSE Meeting(other)
  PROVE  /\ Agenda' = [Agenda EXCEPT ![id] = m]
         /\ Agenda'[id] = m
  BY DEF Agenda

LEMMA RefinesInsert ==
  ASSUME IInv, NEW p \in Requests, Insert(p)
  PROVE  Promise!Next
  <1>1. /\ request[p].step = "free" /\ request[p].kind = "create" /\ ~KeyTaken(p)
    BY DEF Insert, Goes
  <1>2. PICK new \in Ids :
          /\ booking[new].status = "none"
          /\ booking' = [booking EXCEPT ![new] = Inserted(p)]
    BY DEF Insert
  <1> DEFINE row == Inserted(p)
             m == [status |-> row.status, host |-> row.host, start |-> row.start,
                   end |-> row.end, key |-> row.key]
  <1>3. \A other \in Ids : Meeting(other)' = IF other = new THEN m ELSE Meeting(other)
    BY <1>2 DEF IInv, TypeOK, Meeting
  <1>4. /\ row \in Rows /\ row.status = "confirmed" /\ row.host = request[p].host
        /\ row.start = request[p].start /\ row.end = End(request[p])
    BY <1>1, InsertedIsTyped
  <1>5. m \in Promise!Meetings
    BY <1>4 DEF Rows, Promise!Meetings
  <1>6. row.key # None => \A other \in Ids : booking[other].key # row.key
    BY <1>1, KeyAssumption, NoneAssumption
    DEF Inserted, KeyTaken, Known, IInv, TypeOK, Tasks
  <1>7. \A other \in Ids \ {new} :
          \/ booking[other].status # "confirmed"
          \/ row.host # None /\ booking[other].host # row.host
          \/ booking[other].end <= row.start
          \/ row.end <= booking[other].start
    <2>1. request[p].id = None /\ None \notin Ids
      BY <1>1, NoneAssumption DEF IInv, CallShaped
    <2> QED
      BY <1>1, <1>4, <2>1, FreeMeansApart
  <1> HIDE DEF row
  <1>8. /\ m.status = "confirmed" /\ m.host = row.host /\ m.start = row.start
        /\ m.end = row.end /\ m.key = row.key
    BY <1>4
  <1> HIDE DEF m
  <1>9. \A other \in Ids : Agenda[other] = Meeting(other)
    BY DEF Agenda
  <1>10. Agenda' = [Agenda EXCEPT ![new] = m] /\ Agenda'[new] = m
    BY <1>3, OneMeeting
  <1>11. Promise!Free(new, m.host, m.start, m.end)
    BY <1>7, <1>8 DEF Promise!Free, Meeting
  <1>12. Promise!Book(new)
    BY <1>2, <1>5, <1>6, <1>8, <1>10, <1>11 DEF Promise!Book, Meeting, Agenda
  <1> QED
    BY <1>12 DEF Promise!Next

LEMMA RefinesUpdate ==
  ASSUME IInv, NEW p \in Requests, Update(p)
  PROVE  Promise!Next
  <1>1. request[p].step = "free" /\ request[p].kind = "reschedule"
    BY DEF Update, Goes
  <1>2. PICK id \in Ids : id = request[p].id
    BY <1>1 DEF IInv, CallShaped
  <1>3. /\ booking[id].status = "confirmed" /\ booking[id].host = request[p].host
        /\ request[p].start \in Int /\ End(request[p]) \in Int
    BY <1>1, <1>2, EndIsTyped DEF IInv, ReadHolds, Found, Timed
  <1> DEFINE m == [Meeting(id) EXCEPT !.start = request[p].start,
                                      !.end = End(request[p])]
  <1>a. booking' = [booking EXCEPT ![id].start = request[p].start,
                                   ![id].end = End(request[p])]
    BY <1>2 DEF Update
  <1>b. \A other \in Ids :
          booking'[other] = IF other = id THEN [booking[id] EXCEPT !.start = request[p].start,
                                                                   !.end = End(request[p])]
                            ELSE booking[other]
    BY <1>a DEF IInv, TypeOK
  <1>c. booking[id] \in Rows
    BY DEF IInv, TypeOK
  <1>4. \A other \in Ids : Meeting(other)' = IF other = id THEN m ELSE Meeting(other)
    BY <1>b, <1>c DEF Rows, Meeting
  <1>5. /\ m \in Promise!Meetings /\ m.host = booking[id].host
        /\ m.start = request[p].start /\ m.end = End(request[p])
    BY <1>3, MeetingIsTyped DEF IInv, Promise!Meetings, Meeting
  <1>6. \A other \in Ids \ {id} :
          \/ booking[other].status # "confirmed"
          \/ request[p].host # None /\ booking[other].host # request[p].host
          \/ booking[other].end <= request[p].start
          \/ End(request[p]) <= booking[other].start
    BY <1>1, <1>2, FreeMeansApart
  <1>7. Agenda' = [Agenda EXCEPT ![id] = m] /\ Agenda'[id] = m
    BY <1>4, OneMeeting
  <1>8. m = [Agenda[id] EXCEPT !.start = m.start, !.end = m.end]
    BY <1>5 DEF Agenda
  <1>9. Promise!Free(id, m.host, m.start, m.end)
    BY <1>3, <1>5, <1>6 DEF Promise!Free, Meeting
  <1> HIDE DEF m
  <1>d. Agenda' = [Agenda EXCEPT ![id].start = m.start, ![id].end = m.end]
    BY <1>7, <1>8 DEF Agenda
  <1>e. Agenda[id].status = "confirmed"
    BY <1>3 DEF Agenda, Meeting
  <1>10. Promise!Move(id)
    BY <1>5, <1>7, <1>9, <1>d, <1>e DEF Promise!Move, Agenda
  <1> QED
    BY <1>10 DEF Promise!Next

LEMMA RefinesCancel ==
  ASSUME IInv, NEW p \in Requests, Cancel(p)
  PROVE  Promise!Next
  <1>1. PICK id \in Ids : id = request[p].id
    BY DEF Cancel, Goes, IInv, CallShaped
  <1> DEFINE m == [Meeting(id) EXCEPT !.status = "cancelled"]
  <1>2. \A other \in Ids : Meeting(other)' = IF other = id THEN m ELSE Meeting(other)
    BY <1>1 DEF Cancel, IInv, TypeOK, Rows, Meeting
  <1>3. Agenda' = [Agenda EXCEPT ![id] = m]
    BY <1>2, OneMeeting
  <1>4. Promise!Cancel(id)
    BY <1>1, <1>3 DEF Cancel, Found, Promise!Cancel, Agenda, Meeting
  <1> QED
    BY <1>4 DEF Promise!Next

LEMMA RefinesNext ==
  ASSUME IInv, [Next]_vars
  PROVE  Promise!Next \/ UNCHANGED Promise!vars
  <1>1. ASSUME NEW p \in Requests, Insert(p) \/ Update(p) \/ Cancel(p)
        PROVE  Promise!Next
    BY <1>1, RefinesInsert, RefinesUpdate, RefinesCancel
  <1>2. ASSUME UNCHANGED booking PROVE UNCHANGED Promise!vars
    BY <1>2, SameBookings DEF Agenda, Promise!vars
  <1>3. CASE UNCHANGED vars
    BY <1>2, <1>3 DEF vars
  <1>4. CASE \/ Tick
             \/ \E t \in Types : EditType(t)
             \/ \E i \in Instances : Crash(i)
             \/ \E p \in Requests :
                  \/ Ask(p) \/ Connect(p) \/ ConnectTimesOut(p) \/ Acquire(p)
                  \/ ReadBooking(p) \/ ReadType(p) \/ LookUp(p) \/ FindFree(p)
                  \/ Refuse(p) \/ Release(p) \/ Fail(p)
    <2>1. UNCHANGED booking
      BY <1>4 DEF Tick, EditType, Crash, Finish, Ask, Connect, ConnectTimesOut, Acquire,
         ReadBooking, ReadType, LookUp, FindFree, Refuse, Release, Fail
    <2> QED
      BY <1>2, <2>1
  <1> QED
    BY <1>1, <1>3, <1>4 DEF Next, Advance

(* Whatever interleaves, is edited or dies, bookings change as the agenda     *)
(* allows.                                                                    *)
THEOREM Refinement == Spec => ImplementsAgenda
  BY RefinesInit, RefinesNext, InductiveInvariant, PTL
  DEF Spec, ImplementsAgenda, Promise!Spec
=============================================================================

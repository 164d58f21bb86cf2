------------------------ MODULE CalendarSync_proofs ------------------------
(* For any number of processors, events, times, attempts and reschedules, a   *)
(* sync row never counts beyond its limit and a confirmed booking never loses *)
(* its event.                                                                 *)
(*                                                                            *)
(* The argument: a deletion is enqueued after its booking was cancelled, and  *)
(* cancelled bookings stay cancelled, so a run that deletes is about a        *)
(* cancelled booking; and an event a run has created but not yet recorded is  *)
(* recorded nowhere and created by no other run, so compensating it harms     *)
(* nobody.                                                                    *)
EXTENDS CalendarSync, TLAPS

DeletionIsFinal ==
  booking.status # "cancelled" =>
    /\ sync.action # "delete"
    /\ mutation.phase = "stored" => mutation.action # "delete"
    /\ \A w \in Processors : proc[w].action # "delete"

(* An event that is created and not yet recorded. *)
Unrecorded(w) == proc[w].step = "called" /\ Creates(proc[w])

CreatedIsOwn ==
  booking.status # "cancelled" =>
    \A w \in Processors : Unrecorded(w) =>
      /\ proc[w].made \in Events
      /\ event[proc[w].made].state = "live"
      /\ proc[w].made # booking.event
      /\ \A v \in Processors \ {w} : Unrecorded(v) => proc[v].made # proc[w].made

RecordedLives ==
  booking.status # "cancelled" /\ booking.event # None
    => event[booking.event].state = "live"

IInv ==
  /\ TypeOK
  /\ AttemptsBounded
  /\ DeletionIsFinal
  /\ CreatedIsOwn
  /\ RecordedLives

-----------------------------------------------------------------------------
LEMMA InitIInv == Init => IInv
  BY NoneAssumption, AttemptsAssumption
  DEF Init, IInv, TypeOK, Bookings, Syncs, Runs, Mutations, NoRun, NoMutation,
      EventStates, Actions, SyncStatuses, Steps, Phases, AttemptsBounded,
      DeletionIsFinal, CreatedIsOwn, Unrecorded, RecordedLives

LEMMA Constants ==
  /\ NoRun \in Runs /\ NoRun.step = "idle" /\ NoRun.action = "create"
  /\ NoRun.attempt <= MaxAttempts /\ NoMutation \in Mutations
  /\ NoMutation.phase = "idle" /\ NoMutation.action = "create"
  BY AttemptsAssumption DEF NoRun, Runs, NoMutation, Mutations, Steps, Actions, Phases

(* What a call does to the events. *)
LEMMA CarriesEffect ==
  ASSUME TypeOK, NEW run \in Runs,
         NEW made \in IF Creates(run) THEN Events ELSE {None}, Carries(run, made)
  PROVE  /\ event' \in [Events -> [state : EventStates, time : Times \cup {None}]]
         /\ \A e \in Events :
              (run.action # "delete" /\ event[e].state = "live")
                => event'[e].state = "live"
         /\ Creates(run) => /\ made \in Events
                            /\ event[made].state = "absent"
                            /\ event'[made].state = "live"
  <1>1. CASE run.action = "delete"
    BY <1>1 DEF Carries, Creates, TypeOK, Runs, EventStates
  <1>2. CASE run.action # "delete" /\ run.event # None
    BY <1>2 DEF Carries, Creates, TypeOK, Runs, EventStates
  <1>3. CASE run.action # "delete" /\ run.event = None
    <2>1. made \in Events
      BY <1>3 DEF Creates
    <2>2. /\ event[made].state = "absent"
          /\ event' = [event EXCEPT ![made] = [state |-> "live", time |-> run.time]]
      BY <1>3 DEF Carries
    <2> QED
      BY <1>3, <2>1, <2>2 DEF Creates, TypeOK, Runs, EventStates
  <1> QED
    BY <1>1, <1>2, <1>3

(* The mutations leave the runs of processOne alone, and never cancel a       *)
(* booking back.                                                              *)
LEMMA MutationKeepsIInv ==
  ASSUME IInv,
         UNCHANGED <<event, proc>>,
         TypeOK',
         sync'.status \in {"pending", "processing", "failed"}
            => sync'.attempts < MaxAttempts,
         booking.status = "cancelled" => booking'.status = "cancelled",
         booking'.event = booking.event \/ booking'.event = None,
         booking'.status # "cancelled" =>
            /\ sync'.action # "delete"
            /\ mutation'.phase = "stored" => mutation'.action # "delete"
  PROVE  IInv'
  <1>1. AttemptsBounded'
    BY DEF IInv, AttemptsBounded
  <1>2. DeletionIsFinal'
    BY DEF IInv, DeletionIsFinal
  <1>3. CreatedIsOwn'
    BY NoneAssumption DEF IInv, CreatedIsOwn, Unrecorded
  <1>4. RecordedLives'
    BY DEF IInv, RecordedLives
  <1> QED
    BY <1>1, <1>2, <1>3, <1>4 DEF IInv

(* A run moves on without creating, deleting or recording an event.           *)
LEMMA RunKeepsIInv ==
  ASSUME IInv, NEW w \in Processors, NEW r \in Runs,
         proc' = [proc EXCEPT ![w] = r],
         UNCHANGED <<booking, event>>,
         sync' \in Syncs, mutation' \in Mutations, edits' = edits,
         r.attempt <= MaxAttempts,
         r.step # "called",
         sync'.status \in {"pending", "processing", "failed"}
            => sync'.attempts < MaxAttempts,
         sync'.action = sync.action,
         mutation'.phase = "stored" => mutation' = mutation,
         r.action \in {"create", sync.action, proc[w].action}
  PROVE  IInv'
  <1>1. \A v \in Processors : proc'[v] = IF v = w THEN r ELSE proc[v]
    BY DEF IInv, TypeOK
  <1>2. TypeOK'
    BY DEF IInv, TypeOK
  <1>3. AttemptsBounded'
    BY <1>1 DEF IInv, AttemptsBounded
  <1>4. DeletionIsFinal'
    BY <1>1 DEF IInv, DeletionIsFinal
  <1>5. CreatedIsOwn'
    BY <1>1 DEF IInv, CreatedIsOwn, Unrecorded
  <1>6. RecordedLives'
    BY DEF IInv, RecordedLives
  <1> QED
    BY <1>2, <1>3, <1>4, <1>5, <1>6 DEF IInv

(* A claim takes the row's action, and starts one more attempt. *)
LEMMA ClaimKeepsIInv ==
  ASSUME IInv, NEW w \in Processors, Claim(w), mutation' \in Mutations,
         mutation' = mutation \/ mutation'.phase = "waiting"
  PROVE  IInv'
  <1> DEFINE r == [NoRun EXCEPT !.step = "claimed", !.action = sync.action,
                                !.attempt = sync.attempts + 1]
  <1>0. /\ sync \in Syncs /\ sync.attempts \in Nat /\ sync.action \in Actions
        /\ sync.attempts < MaxAttempts
    BY DEF IInv, TypeOK, AttemptsBounded, Claim, Claimable, Syncs
  <1>1. /\ r \in Runs /\ r.step = "claimed" /\ r.action = sync.action
        /\ r.attempt <= MaxAttempts
    <2>1. sync.attempts + 1 \in Nat /\ sync.attempts + 1 <= MaxAttempts
      BY <1>0, AttemptsAssumption
    <2> QED
      BY <1>0, <2>1, Constants DEF Runs, Steps
  <1>2. proc' = [proc EXCEPT ![w] = r] /\ UNCHANGED <<booking, event, edits>>
    BY DEF Claim
  <1>3. /\ sync' \in Syncs /\ sync'.attempts = sync.attempts /\ sync'.action = sync.action
    BY <1>0 DEF Claim, Syncs, SyncStatuses
  <1> HIDE DEF r
  <1> QED
    BY <1>0, <1>1, <1>2, <1>3, RunKeepsIInv

LEMMA RunIsOver ==
  ASSUME IInv, NEW w \in Processors,
         proc' = [proc EXCEPT ![w] = NoRun],
         UNCHANGED <<booking, event, edits>>,
         sync' \in Syncs, sync'.action = sync.action,
         sync'.status \in {"pending", "processing", "failed"}
            => sync'.attempts < MaxAttempts,
         mutation' \in {mutation, NoMutation}
  PROVE  IInv'
  <1>1. mutation' \in Mutations /\ (mutation'.phase = "stored" => mutation' = mutation)
    BY Constants DEF IInv, TypeOK
  <1> QED
    BY <1>1, Constants, RunKeepsIInv

(* Whoever writes the outcome of its run to the row is done. *)
LEMMA MarksKeepIInv ==
  ASSUME IInv, NEW w \in Processors, NEW status \in SyncStatuses, Marks(w, status),
         status \in {"pending", "processing", "failed"} => proc[w].attempt < MaxAttempts
  PROVE  IInv'
  <1>0. /\ proc[w].attempt \in Nat /\ proc[w].attempt <= MaxAttempts
        /\ sync \in Syncs /\ mutation \in Mutations
    BY DEF IInv, TypeOK, AttemptsBounded, Runs
  <1>1. /\ sync' \in Syncs /\ sync'.status = status /\ sync'.action = sync.action
        /\ sync'.attempts = proc[w].attempt
    <2>1. proc[w].attempt \in 0..MaxAttempts
      BY <1>0, AttemptsAssumption
    <2> QED
      BY <1>0, <2>1 DEF Marks, Syncs
  <1>2. proc' = [proc EXCEPT ![w] = NoRun] /\ UNCHANGED <<booking, event, mutation, edits>>
    BY DEF Marks
  <1> QED
    BY <1>0, <1>1, <1>2, Constants, RunIsOver

(* A run whose call was carried out, whether or not it was answered. *)
LEMMA CarriesKeepsIInv ==
  ASSUME IInv, NEW w \in Processors, NEW r \in Runs,
         NEW made \in IF Creates(proc[w]) THEN Events ELSE {None},
         proc[w].step = "read", Carries(proc[w], made),
         \A v \in Processors : proc'[v] = IF v = w THEN r ELSE proc[v],
         proc' \in [Processors -> Runs],
         UNCHANGED <<booking, sync, mutation, edits>>,
         r.attempt = proc[w].attempt, r.action = proc[w].action,
         r.step = "failing" \/ (r.event = proc[w].event /\ r.made = made)
  PROVE  IInv'
  <1>0. proc[w] \in Runs /\ TypeOK
    BY DEF IInv, TypeOK
  <1>1. /\ event' \in [Events -> [state : EventStates, time : Times \cup {None}]]
        /\ \A e \in Events :
             (proc[w].action # "delete" /\ event[e].state = "live")
               => event'[e].state = "live"
        /\ Creates(proc[w]) => /\ made \in Events
                               /\ event[made].state = "absent"
                               /\ event'[made].state = "live"
    BY <1>0, CarriesEffect
  <1>2. TypeOK'
    BY <1>0, <1>1 DEF TypeOK
  <1>3. AttemptsBounded' /\ DeletionIsFinal'
    BY DEF IInv, AttemptsBounded, DeletionIsFinal
  <1>4. RecordedLives'
    BY <1>0, <1>1 DEF IInv, DeletionIsFinal, RecordedLives, TypeOK, Bookings
  <1>5. CreatedIsOwn'
    <2>1. ASSUME booking.status # "cancelled", Creates(proc[w])
          PROVE  /\ made # booking.event
                 /\ \A v \in Processors : Unrecorded(v) => proc[v].made # made
      BY <1>0, <1>1, <2>1, NoneAssumption
      DEF IInv, CreatedIsOwn, Unrecorded, RecordedLives, TypeOK, Bookings
    <2> QED
      BY <1>1, <2>1 DEF IInv, DeletionIsFinal, CreatedIsOwn, Unrecorded, Creates
  <1> QED
    BY <1>2, <1>3, <1>4, <1>5 DEF IInv

-----------------------------------------------------------------------------
LEMMA MutateKeepsIInv ==
  ASSUME IInv, Mutate
  PROVE  IInv'
  <1>0. TypeOK /\ DeletionIsFinal /\ AttemptsBounded
    BY DEF IInv
  <1>1. ASSUME NEW t \in Times, Book(t) PROVE IInv'
    <2>1. TypeOK'
      BY <1>0, <1>1
      DEF Book, Proceeds, TypeOK, Bookings, Mutations, NoMutation, Phases, Actions
    <2>2. /\ booking.status = "none" /\ booking' = [status |-> "confirmed", time |-> t, event |-> None]
          /\ mutation'.action = "create"
          /\ UNCHANGED <<sync, event, proc>>
      BY <1>1 DEF Book, Proceeds, NoMutation
    <2> QED
      BY <1>0, <2>1, <2>2, MutationKeepsIInv DEF DeletionIsFinal, AttemptsBounded
  <1>2. ASSUME NEW t \in Times, Reschedule(t) PROVE IInv'
    <2>1. TypeOK'
      BY <1>0, <1>2, AttemptsAssumption
      DEF Reschedule, Proceeds, TypeOK, Bookings, Mutations, NoMutation, Phases, Actions
    <2>2. /\ booking'.status = booking.status /\ booking'.event = booking.event
          /\ mutation'.action # "delete"
          /\ UNCHANGED <<sync, event, proc>>
      BY <1>0, <1>2 DEF Reschedule, Proceeds, NoMutation, TypeOK, Bookings
    <2> QED
      BY <1>0, <2>1, <2>2, MutationKeepsIInv DEF DeletionIsFinal, AttemptsBounded
  <1>3. ASSUME NEW action \in {"update", "delete"}, ReadExisting(action) PROVE IInv'
    <2>1. TypeOK'
      BY <1>0, <1>3
      DEF ReadExisting, TypeOK, Bookings, Mutations, Phases, Actions
    <2>2. UNCHANGED <<booking, sync, event, proc>> /\ mutation'.phase = "read"
      BY <1>3 DEF ReadExisting
    <2> QED
      BY <1>0, <2>1, <2>2, MutationKeepsIInv DEF DeletionIsFinal, AttemptsBounded
  <1>4. CASE CancelBooking
    <2>1. TypeOK'
      BY <1>0, <1>4
      DEF CancelBooking, Proceeds, TypeOK, Bookings, Mutations, NoMutation, Phases, Actions
    <2>2. /\ booking'.status = "cancelled" /\ booking'.event = booking.event
          /\ UNCHANGED <<sync, event, proc>>
      BY <1>0, <1>4 DEF CancelBooking, TypeOK, Bookings
    <2> QED
      BY <1>0, <2>1, <2>2, MutationKeepsIInv DEF AttemptsBounded
  <1>5. CASE Enqueue
    <2>1. TypeOK'
      BY <1>0, <1>5, AttemptsAssumption
      DEF Enqueue, TypeOK, Syncs, SyncStatuses, Mutations, Phases
    <2>2. /\ UNCHANGED <<booking, event, proc>>
          /\ mutation.phase = "stored" /\ mutation'.phase = "enqueued"
          /\ sync'.action = mutation.action /\ sync'.attempts = 0
      BY <1>0, <1>5 DEF Enqueue, TypeOK, Mutations
    <2> QED
      BY <1>0, <2>1, <2>2, MutationKeepsIInv, AttemptsAssumption DEF DeletionIsFinal
  <1>6. CASE InlineClaims
    <2>1. /\ mutation' = [mutation EXCEPT !.phase = "waiting"]
          /\ mutation' \in Mutations /\ mutation'.phase = "waiting"
      BY <1>0, <1>6 DEF InlineClaims, TypeOK, Mutations, Phases
    <2>2. CASE Claim(Inline)
      BY <1>0, <2>1, <2>2, ClaimKeepsIInv DEF Processors
    <2>3. CASE UNCHANGED <<booking, sync, event, proc, edits>>
      <3>1. TypeOK'
        BY <1>0, <2>1, <2>3 DEF TypeOK
      <3> QED
        BY <1>0, <2>1, <2>3, <3>1, MutationKeepsIInv DEF DeletionIsFinal, AttemptsBounded
    <2> QED
      BY <1>6, <2>2, <2>3 DEF InlineClaims
  <1>7. CASE Return
    <2>1. UNCHANGED <<booking, sync, event, proc, edits>> /\ mutation' = NoMutation
      BY <1>7 DEF Return
    <2>2. TypeOK'
      BY <1>0, <2>1, Constants DEF TypeOK
    <2> QED
      BY <1>0, <2>1, <2>2, Constants, MutationKeepsIInv DEF DeletionIsFinal, AttemptsBounded
  <1> QED
    BY <1>1, <1>2, <1>3, <1>4, <1>5, <1>6, <1>7 DEF Mutate

-----------------------------------------------------------------------------
LEMMA ProcessKeepsIInv ==
  ASSUME IInv, NEW w \in Processors, Process(w)
  PROVE  IInv'
  <1> DEFINE run == proc[w]
  <1>0. /\ TypeOK /\ AttemptsBounded /\ run \in Runs
        /\ run.attempt \in Nat /\ run.attempt <= MaxAttempts
        /\ sync \in Syncs /\ mutation \in Mutations
    BY DEF IInv, TypeOK, AttemptsBounded, Runs
  <1>1. CASE ReadBooking(w)
    <2> DEFINE r == [run EXCEPT !.step = "read", !.time = booking.time,
                                !.event = booking.event]
    <2>1. r \in Runs /\ r.attempt = run.attempt /\ r.step = "read" /\ r.action = run.action
      BY <1>0 DEF Runs, Steps, TypeOK, Bookings
    <2>2. proc' = [proc EXCEPT ![w] = r] /\ UNCHANGED <<booking, sync, event, mutation, edits>>
      BY <1>0, <1>1 DEF ReadBooking, TypeOK, Runs
    <2> HIDE DEF r
    <2> QED
      BY <1>0, <2>1, <2>2, RunKeepsIInv DEF AttemptsBounded
  <1>2. CASE StepFails(w)
    <2> DEFINE r == [run EXCEPT !.step = "failing"]
    <2>1. r \in Runs /\ r.attempt = run.attempt /\ r.step = "failing" /\ r.action = run.action
      BY <1>0 DEF Runs, Steps
    <2>2. proc' = [proc EXCEPT ![w] = r] /\ UNCHANGED <<booking, sync, event, mutation, edits>>
      BY <1>0, <1>2 DEF StepFails, TypeOK
    <2> HIDE DEF r
    <2> QED
      BY <1>0, <2>1, <2>2, RunKeepsIInv DEF AttemptsBounded
  <1>3. CASE MarkSynced(w)
    <2>1. Marks(w, "synced")
      BY <1>3 DEF MarkSynced
    <2> QED
      BY <2>1, MarksKeepIInv DEF SyncStatuses
  <1>4. CASE RecordFailure(w)
    <2>1. Marks(w, IF Terminal(w) THEN "exhausted" ELSE "failed")
      BY <1>4 DEF RecordFailure
    <2>2. CASE Terminal(w)
      BY <2>1, <2>2, MarksKeepIInv DEF SyncStatuses
    <2>3. CASE ~Terminal(w)
      <3>1. run.attempt < MaxAttempts
        BY <1>0, <2>3, AttemptsAssumption DEF Terminal
      <3> QED
        BY <2>1, <2>3, <3>1, MarksKeepIInv DEF SyncStatuses
    <2> QED
      BY <2>2, <2>3
  <1>5. CASE Call(w)
    <2>1. PICK made \in IF Creates(run) THEN Events ELSE {None} :
            /\ Carries(run, made)
            /\ proc' = [proc EXCEPT ![w].step = "called", ![w].made = made]
      BY <1>5 DEF Call
    <2>2. UNCHANGED <<booking, sync, mutation, edits>> /\ run.step = "read"
      BY <1>5 DEF Call
    <2> DEFINE r == [run EXCEPT !.step = "called", !.made = made]
    <2>3. /\ r \in Runs /\ r.attempt = run.attempt /\ r.action = run.action
          /\ r.event = run.event /\ r.made = made
      BY <1>0, <2>1 DEF Runs, Steps
    <2>4. \A v \in Processors : proc'[v] = IF v = w THEN r ELSE proc[v]
      BY <1>0, <2>1 DEF TypeOK
    <2> HIDE DEF r
    <2>5. proc' \in [Processors -> Runs]
      BY <1>0, <2>1, <2>3, <2>4 DEF TypeOK
    <2> QED
      BY <1>0, <2>1, <2>2, <2>3, <2>4, <2>5, CarriesKeepsIInv
  <1>6. CASE AnswerLost(w)
    <2>1. PICK made \in IF Creates(run) THEN Events ELSE {None} : Carries(run, made)
      BY <1>6 DEF AnswerLost
    <2>2. /\ UNCHANGED <<booking, sync, mutation, edits>> /\ run.step = "read"
          /\ proc' = [proc EXCEPT ![w].step = "failing"]
      BY <1>6 DEF AnswerLost
    <2> DEFINE r == [run EXCEPT !.step = "failing"]
    <2>3. /\ r \in Runs /\ r.attempt = run.attempt /\ r.action = run.action
          /\ r.step = "failing"
      BY <1>0 DEF Runs, Steps
    <2>4. \A v \in Processors : proc'[v] = IF v = w THEN r ELSE proc[v]
      BY <1>0, <2>2 DEF TypeOK
    <2> HIDE DEF r
    <2>5. proc' \in [Processors -> Runs]
      BY <1>0, <2>2, <2>3, <2>4 DEF TypeOK
    <2> QED
      BY <1>0, <2>1, <2>2, <2>3, <2>4, <2>5, CarriesKeepsIInv
  <1>7. CASE Persist(w)
    <2> DEFINE r == [run EXCEPT !.step = "persisted"]
    <2>1. /\ r \in Runs /\ r.attempt = run.attempt /\ r.action = run.action
          /\ r.step = "persisted"
      BY <1>0 DEF Runs, Steps
    <2>2. \A v \in Processors : proc'[v] = IF v = w THEN r ELSE proc[v]
      BY <1>0, <1>7 DEF Persist, TypeOK
    <2> HIDE DEF r
    <2>3. /\ run.step = "called" /\ UNCHANGED <<sync, event, mutation, edits>>
          /\ booking'.event = Recorded(w) /\ booking'.status = booking.status
          /\ Recorded(w) \in Events \cup {None}
      BY <1>0, <1>7 DEF Persist, TypeOK, Bookings, Runs, Recorded
    <2>4. booking' \in Bookings
      BY <1>0, <1>7, <2>3 DEF Persist, TypeOK, Bookings
    <2>5. TypeOK'
      BY <1>0, <1>7, <2>1, <2>2, <2>3, <2>4 DEF Persist, TypeOK
    <2>6. AttemptsBounded' /\ DeletionIsFinal'
      BY <2>1, <2>2, <2>3 DEF IInv, AttemptsBounded, DeletionIsFinal
    <2>7. CreatedIsOwn'
      BY <2>1, <2>2, <2>3
      DEF IInv, DeletionIsFinal, CreatedIsOwn, Unrecorded, Creates, Recorded
    <2>8. RecordedLives'
      BY <2>1, <2>2, <2>3
      DEF IInv, DeletionIsFinal, CreatedIsOwn, RecordedLives, Unrecorded, Creates,
          Recorded
    <2> QED
      BY <2>5, <2>6, <2>7, <2>8 DEF IInv
  <1>8. CASE PersistFails(w)
    <2> DEFINE r == [run EXCEPT !.step = "failing"]
    <2>1. /\ r \in Runs /\ r.attempt = run.attempt /\ r.action = run.action
          /\ r.step = "failing"
      BY <1>0 DEF Runs, Steps
    <2>2. \A v \in Processors : proc'[v] = IF v = w THEN r ELSE proc[v]
      BY <1>0, <1>8 DEF PersistFails, TypeOK
    <2> HIDE DEF r
    <2>3. /\ run.step = "called" /\ UNCHANGED <<booking, sync, mutation, edits>>
          /\ proc' = [proc EXCEPT ![w].step = "failing"]
      BY <1>8 DEF PersistFails
    <2>4. /\ event' \in [Events -> [state : EventStates, time : Times \cup {None}]]
          /\ \A e \in Events : event'[e].state = event[e].state
                               \/ (Creates(run) /\ e = run.made)
      BY <1>0, <1>8 DEF PersistFails, TypeOK, EventStates
    <2>5. TypeOK'
      BY <1>0, <2>1, <2>2, <2>3, <2>4 DEF TypeOK
    <2>6. AttemptsBounded' /\ DeletionIsFinal'
      BY <2>1, <2>2, <2>3 DEF IInv, AttemptsBounded, DeletionIsFinal
    <2>7. CreatedIsOwn'
      BY <2>1, <2>2, <2>3, <2>4 DEF IInv, CreatedIsOwn, Unrecorded, Creates
    <2>8. RecordedLives'
      BY <1>0, <2>3, <2>4
      DEF IInv, CreatedIsOwn, RecordedLives, Unrecorded, TypeOK, Bookings
    <2> QED
      BY <2>5, <2>6, <2>7, <2>8 DEF IInv
  <1> QED
    BY <1>1, <1>2, <1>3, <1>4, <1>5, <1>6, <1>7, <1>8 DEF Process

-----------------------------------------------------------------------------
LEMMA InvNext == IInv /\ [Next]_vars => IInv'
  <1> SUFFICES ASSUME IInv, [Next]_vars PROVE IInv'
    OBVIOUS
  <1>0. /\ TypeOK /\ AttemptsBounded /\ DeletionIsFinal
        /\ sync \in Syncs /\ mutation \in Mutations
    BY DEF IInv, TypeOK
  <1>1. ASSUME NEW w \in Sweepers, SweeperClaims(w) PROVE IInv'
    BY <1>0, <1>1, ClaimKeepsIInv DEF SweeperClaims, Processors
  <1>2. ASSUME NEW w \in Sweepers, CrashSweeper(w) PROVE IInv'
    BY <1>0, <1>2, RunIsOver DEF CrashSweeper, Processors, AttemptsBounded
  <1>3. CASE CrashMutation
    <2>1. Inline \in Processors
      BY DEF Processors
    <2> QED
      BY <1>0, <1>3, <2>1, Constants, RunIsOver DEF CrashMutation, AttemptsBounded
  <1>4. CASE BackoffElapses \/ GrowsStale \/ Retry
    <2>1. /\ UNCHANGED <<booking, event, proc, mutation, edits>>
          /\ sync' \in Syncs /\ sync'.action = sync.action
          /\ sync'.attempts = 0 \/ (sync'.attempts = sync.attempts /\ sync'.status = sync.status)
      <3>1. CASE BackoffElapses
        BY <1>0, <3>1 DEF BackoffElapses, Syncs
      <3>2. CASE GrowsStale
        BY <1>0, <3>2 DEF GrowsStale, Syncs
      <3>3. CASE Retry
        <4>1. 0 \in 0..MaxAttempts /\ "pending" \in SyncStatuses
          BY AttemptsAssumption DEF SyncStatuses
        <4> QED
          BY <1>0, <3>3, <4>1 DEF Retry, Syncs
      <3> QED
        BY <1>4, <3>1, <3>2, <3>3
    <2>2. TypeOK'
      BY <1>0, <2>1 DEF TypeOK
    <2> QED
      BY <1>0, <2>1, <2>2, MutationKeepsIInv, AttemptsAssumption
      DEF AttemptsBounded, DeletionIsFinal
  <1>5. CASE UNCHANGED vars
    BY <1>5
    DEF vars, IInv, TypeOK, AttemptsBounded, DeletionIsFinal, CreatedIsOwn, Unrecorded,
        Creates, RecordedLives
  <1> QED
    BY <1>1, <1>2, <1>3, <1>4, <1>5, MutateKeepsIInv, ProcessKeepsIInv DEF Next

THEOREM InductiveInvariant == Spec => []IInv
  BY InitIInv, InvNext, PTL DEF Spec

(* Every reachable state is well typed. *)
THEOREM TypeCorrect == Spec => []TypeOK
  BY InductiveInvariant, PTL DEF IInv

(* However late processors write, no row counts beyond its limit, and a row   *)
(* that will be tried again is below it.                                      *)
THEOREM AttemptsStayBounded == Spec => []AttemptsBounded
  BY InductiveInvariant, PTL DEF IInv

(* A confirmed booking never points to an event that was deleted. *)
THEOREM ConfirmedKeepsEvent == Spec => []ConfirmedEventLives
  <1>1. IInv => ConfirmedEventLives
    BY DEF IInv, RecordedLives, ConfirmedEventLives
  <1> QED
    BY <1>1, InductiveInvariant, PTL
=============================================================================

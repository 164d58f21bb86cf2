---------------------------- MODULE CalendarSync ----------------------------
(* Mirroring one hosted booking into its host's calendar: the mutations of   *)
(* SchedulingService, which enqueue a sync row and process it inline, and    *)
(* the sweeps and retries of BookingCalendarSyncService.                     *)
(*                                                                           *)
(* Mutations hold the organization's lock, so one runs at a time; sweeps and *)
(* retries take no lock.  Each statement and each call of the provider is an *)
(* action.  A statement that reports an error has changed nothing; a call of *)
(* the provider that does may have been carried out.                         *)
EXTENDS Naturals

CONSTANTS Sweepers,     \* processOne of worker sweeps and of the retry route
          Inline,       \* processOne of the mutation that holds the lock
          Events,       \* events the provider may create
          Times,        \* times the booking may have
          MaxAttempts,  \* CALENDAR_SYNC_MAX_ATTEMPTS
          MaxEdits,     \* bound on reschedules
          None

ASSUME NoneAssumption == None \notin Events /\ Inline \notin Sweepers
ASSUME AttemptsAssumption == MaxAttempts \in Nat \ {0} /\ MaxEdits \in Nat

Processors == Sweepers \cup {Inline}

VARIABLES booking,   \* the bookings row
          sync,      \* its booking_calendar_sync row
          event,     \* the provider's events
          proc,      \* what each run of processOne is doing
          mutation,  \* the mutation that holds the lock
          edits      \* reschedules so far

vars == <<booking, sync, event, proc, mutation, edits>>

Actions == {"create", "update", "delete"}
SyncStatuses == {"none", "pending", "processing", "failed", "exhausted", "synced"}
EventStates == {"absent", "live", "gone"}
Steps == {"idle", "claimed", "read", "called", "persisted", "failing"}
Phases == {"idle", "read", "stored", "enqueued", "waiting"}

Bookings == [status : {"none", "confirmed", "cancelled"}, time : Times \cup {None},
             event : Events \cup {None}]
Syncs == [status : SyncStatuses, action : Actions, attempts : 0..MaxAttempts,
          due : BOOLEAN, stale : BOOLEAN]
Runs == [step : Steps, action : Actions, attempt : Nat, time : Times \cup {None},
         event : Events \cup {None}, made : Events \cup {None}]
Mutations == [phase : Phases, action : Actions, saw : Events \cup {None}]

NoRun == [step |-> "idle", action |-> "create", attempt |-> 0, time |-> None,
          event |-> None, made |-> None]
NoMutation == [phase |-> "idle", action |-> "create", saw |-> None]

TypeOK ==
  /\ booking \in Bookings
  /\ sync \in Syncs
  /\ event \in [Events -> [state : EventStates, time : Times \cup {None}]]
  /\ proc \in [Processors -> Runs]
  /\ mutation \in Mutations
  /\ edits \in 0..MaxEdits

Init ==
  /\ booking = [status |-> "none", time |-> None, event |-> None]
  /\ sync = [status |-> "none", action |-> "create", attempts |-> 0,
             due |-> FALSE, stale |-> FALSE]
  /\ event = [e \in Events |-> [state |-> "absent", time |-> None]]
  /\ proc = [w \in Processors |-> NoRun]
  /\ mutation = NoMutation
  /\ edits = 0

-----------------------------------------------------------------------------
(* The mutations, up to their sync row.                                      *)

Proceeds(syncs, action, saw) ==
  mutation' = IF syncs THEN [phase |-> "stored", action |-> action, saw |-> saw]
              ELSE NoMutation

(* Whether the host has a calendar is asked before the insert. *)
Book(t) ==
  /\ mutation.phase = "idle"
  /\ booking.status = "none"
  /\ booking' = [status |-> "confirmed", time |-> t, event |-> None]
  /\ \E connected \in BOOLEAN : Proceeds(connected, "create", None)
  /\ UNCHANGED <<sync, event, proc, edits>>

ReadExisting(action) ==
  /\ mutation.phase = "idle"
  /\ booking.status = "confirmed"
  /\ mutation' = [phase |-> "read", action |-> action, saw |-> booking.event]
  /\ UNCHANGED <<booking, sync, event, proc, edits>>

Reschedule(t) ==
  /\ mutation.phase = "read" /\ mutation.action = "update"
  /\ edits < MaxEdits
  /\ edits' = edits + 1
  /\ booking' = [booking EXCEPT !.time = t]
  /\ \E connected \in BOOLEAN :
       Proceeds(connected \/ mutation.saw # None, "update", mutation.saw)
  /\ UNCHANGED <<sync, event, proc>>

(* Defect: the event's deletion is arranged before the row is cancelled. *)
CancelBookingUnsaved ==
  /\ mutation.phase = "read" /\ mutation.action = "delete"
  /\ Proceeds(mutation.saw # None, "delete", mutation.saw)
  /\ UNCHANGED <<booking, sync, event, proc, edits>>

(* The sync row is written only if an event was known before. *)
CancelBooking ==
  /\ mutation.phase = "read" /\ mutation.action = "delete"
  /\ booking' = [booking EXCEPT !.status = "cancelled"]
  /\ Proceeds(mutation.saw # None, "delete", mutation.saw)
  /\ UNCHANGED <<sync, event, proc, edits>>

Enqueue ==
  /\ mutation.phase = "stored"
  /\ sync' = [status |-> "pending", action |-> mutation.action, attempts |-> 0,
              due |-> TRUE, stale |-> FALSE]
  /\ mutation' = [mutation EXCEPT !.phase = "enqueued"]
  /\ UNCHANGED <<booking, event, proc, edits>>

(* The mutation fails at a statement before its sync row, or returns. *)
Return ==
  /\ \/ mutation.phase \in {"read", "stored"}
     \/ mutation.phase = "waiting" /\ proc[Inline].step = "idle"
  /\ mutation' = NoMutation
  /\ UNCHANGED <<booking, sync, event, proc, edits>>

-----------------------------------------------------------------------------
(* processOne: claim, read, call, persist, mark.                             *)

(* Defect: the claim of a dead process is never taken over. *)
ClaimableUnlessTaken == sync.status \in {"pending", "failed"} /\ sync.due

Claimable ==
  \/ sync.status \in {"pending", "failed"} /\ sync.due
  \/ sync.status = "processing" /\ sync.stale

Claim(w) ==
  /\ proc[w].step = "idle"
  /\ Claimable
  /\ sync' = [sync EXCEPT !.status = "processing", !.stale = FALSE]
  /\ proc' = [proc EXCEPT ![w] = [NoRun EXCEPT !.step = "claimed",
                !.action = sync.action, !.attempt = sync.attempts + 1]]
  /\ UNCHANGED <<booking, event, edits>>

SweeperClaims(w) == Claim(w) /\ UNCHANGED mutation

InlineClaims ==
  /\ mutation.phase = "enqueued"
  /\ mutation' = [mutation EXCEPT !.phase = "waiting"]
  /\ \/ Claim(Inline)
     \/ ~Claimable /\ UNCHANGED <<booking, sync, event, proc, edits>>

ReadBooking(w) ==
  /\ proc[w].step = "claimed"
  /\ proc' = [proc EXCEPT ![w].step = "read", ![w].time = booking.time,
                          ![w].event = booking.event]
  /\ UNCHANGED <<booking, sync, event, mutation, edits>>

(* What the call does at the provider: an event that is gone can neither be  *)
(* updated nor deleted.                                                      *)
Carries(run, made) ==
  CASE run.action = "delete" ->
         IF run.event = None THEN UNCHANGED event
         ELSE event[run.event].state = "live"
              /\ event' = [event EXCEPT ![run.event].state = "gone"]
    [] run.action # "delete" /\ run.event # None ->
         event[run.event].state = "live"
           /\ event' = [event EXCEPT ![run.event].time = run.time]
    [] OTHER ->
         event[made].state = "absent"
           /\ event' = [event EXCEPT ![made] = [state |-> "live", time |-> run.time]]

Creates(run) == run.action # "delete" /\ run.event = None

Call(w) ==
  /\ proc[w].step = "read"
  /\ \E made \in IF Creates(proc[w]) THEN Events ELSE {None} :
       /\ Carries(proc[w], made)
       /\ proc' = [proc EXCEPT ![w].step = "called", ![w].made = made]
  /\ UNCHANGED <<booking, sync, mutation, edits>>

(* The call is carried out and its answer lost. *)
AnswerLost(w) ==
  /\ proc[w].step = "read"
  /\ \E made \in IF Creates(proc[w]) THEN Events ELSE {None} :
       Carries(proc[w], made)
  /\ proc' = [proc EXCEPT ![w].step = "failing"]
  /\ UNCHANGED <<booking, sync, mutation, edits>>

(* A statement fails, the calendar is not connected or refuses. *)
StepFails(w) ==
  /\ proc[w].step \in {"claimed", "read", "persisted"}
  /\ proc' = [proc EXCEPT ![w].step = "failing"]
  /\ UNCHANGED <<booking, sync, event, mutation, edits>>

(* Defect: the deleted event is recorded as nothing at all. *)
RecordedVoid(w) ==
  IF Creates(proc[w]) THEN proc[w].made
  ELSE IF proc[w].action = "delete" THEN "null" ELSE booking.event

Recorded(w) ==
  IF Creates(proc[w]) THEN proc[w].made
  ELSE IF proc[w].action = "delete" THEN None ELSE booking.event

Persist(w) ==
  /\ proc[w].step = "called"
  /\ booking' = [booking EXCEPT !.event = Recorded(w)]
  /\ proc' = [proc EXCEPT ![w].step = "persisted"]
  /\ UNCHANGED <<sync, event, mutation, edits>>

(* An event that cannot be recorded is deleted again, if it can be. *)
PersistFails(w) ==
  /\ proc[w].step = "called"
  /\ \/ UNCHANGED event
     \/ /\ Creates(proc[w])
        /\ event' = [event EXCEPT ![proc[w].made].state = "gone"]
  /\ proc' = [proc EXCEPT ![w].step = "failing"]
  /\ UNCHANGED <<booking, sync, mutation, edits>>

(* markSynced and the failure write take the row as it is by now. *)
Marks(w, status) ==
  /\ sync' = [sync EXCEPT !.status = status, !.attempts = proc[w].attempt,
                          !.due = FALSE]
  /\ proc' = [proc EXCEPT ![w] = NoRun]
  /\ UNCHANGED <<booking, event, mutation, edits>>

MarkSynced(w) == proc[w].step = "persisted" /\ Marks(w, "synced")

(* Defect: one attempt too many. *)
TerminalLate(w) == proc[w].attempt > MaxAttempts

Terminal(w) == proc[w].attempt >= MaxAttempts

RecordFailure(w) ==
  /\ proc[w].step = "failing"
  /\ Marks(w, IF Terminal(w) THEN "exhausted" ELSE "failed")

-----------------------------------------------------------------------------
(* The clock, the admin, and crashes.                                        *)

BackoffElapses ==
  /\ sync.status = "failed" /\ ~sync.due
  /\ sync' = [sync EXCEPT !.due = TRUE]
  /\ UNCHANGED <<booking, event, proc, mutation, edits>>

GrowsStale ==
  /\ sync.status = "processing" /\ ~sync.stale
  /\ sync' = [sync EXCEPT !.stale = TRUE]
  /\ UNCHANGED <<booking, event, proc, mutation, edits>>

Retry ==
  /\ sync.status \in {"failed", "exhausted"}
  /\ sync' = [sync EXCEPT !.status = "pending", !.attempts = 0, !.due = TRUE]
  /\ UNCHANGED <<booking, event, proc, mutation, edits>>

CrashSweeper(w) ==
  /\ proc[w].step # "idle"
  /\ proc' = [proc EXCEPT ![w] = NoRun]
  /\ UNCHANGED <<booking, sync, event, mutation, edits>>

CrashMutation ==
  /\ mutation.phase # "idle"
  /\ mutation' = NoMutation
  /\ proc' = [proc EXCEPT ![Inline] = NoRun]
  /\ UNCHANGED <<booking, sync, event, edits>>

-----------------------------------------------------------------------------
Process(w) ==
  \/ ReadBooking(w) \/ Call(w) \/ AnswerLost(w) \/ StepFails(w) \/ Persist(w)
  \/ PersistFails(w) \/ MarkSynced(w) \/ RecordFailure(w)

Mutate ==
  \/ \E t \in Times : Book(t) \/ Reschedule(t)
  \/ \E action \in {"update", "delete"} : ReadExisting(action)
  \/ CancelBooking \/ Enqueue \/ InlineClaims \/ Return

Next ==
  \/ Mutate
  \/ \E w \in Sweepers : SweeperClaims(w) \/ CrashSweeper(w)
  \/ \E w \in Processors : Process(w)
  \/ BackoffElapses \/ GrowsStale \/ Retry \/ CrashMutation

Spec == Init /\ [][Next]_vars

(* Workers sweep every few seconds; a run goes on unless its process dies,   *)
(* and every call ends by its timeout; the clock advances.                   *)
Fairness ==
  /\ WF_vars(BackoffElapses)
  /\ WF_vars(GrowsStale)
  /\ WF_vars(\E w \in Sweepers : SweeperClaims(w))
  /\ \A w \in Processors : WF_vars(Process(w))

FairSpec == Spec /\ Fairness

-----------------------------------------------------------------------------
(* What the reconciliation promises.                                         *)

(* A row that will be tried again has attempts left, and a row never counts  *)
(* more than MAX_ATTEMPTS, however many processors write it late.            *)
AttemptsBounded ==
  /\ sync.status \in {"pending", "processing", "failed"} => sync.attempts < MaxAttempts
  /\ \A w \in Processors : proc[w].attempt <= MaxAttempts

(* The event recorded on a confirmed booking is in the host's calendar: only *)
(* an orphan is compensated, and a deletion belongs to a cancelled booking.  *)
ConfirmedEventLives ==
  booking.status = "confirmed" /\ booking.event # None
    => event[booking.event].state = "live"

(* Every sync row is settled, unless processes die or an admin asks for      *)
(* another round for ever.                                                   *)
Unsettled == sync.status \in {"pending", "processing", "failed"}
Disturbance == Retry \/ CrashMutation \/ \E w \in Sweepers : CrashSweeper(w)
SyncSettles == <>[][~Disturbance]_vars => (Unsettled ~> ~Unsettled)

(* What the reconciliation's integration test expects of a settled row.      *)
Settled ==
  /\ sync.status = "synced"
  /\ mutation.phase = "idle"
  /\ \A w \in Processors : proc[w].step = "idle"

(* "Successful delete reconciliation must clear the provider id."            *)
DeleteClearsTheId == Settled /\ sync.action = "delete" => booking.event = None

(* "Retry must create the external event exactly once more": a booking has   *)
(* at most one event in the calendar once its row is settled.                *)
OneEventPerBooking ==
  Settled => \A e, f \in Events :
               event[e].state = "live" /\ event[f].state = "live" => e = f
=============================================================================

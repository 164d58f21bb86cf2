------------------------------ MODULE Webhooks ------------------------------
(* One webhook subscription, the deliveries of the events captured for it,  *)
(* and the worker processes that sweep them.  A sweep lists what is due,    *)
(* claims one delivery after the other, posts it, and writes what came of   *)
(* it.  Every claim gets a lease, but counted from the start of the sweep.  *)
(* Names that Conversations has too say "delivery", as Messaging_proofs      *)
(* extends both modules.                                                    *)
EXTENDS Naturals, FiniteSets

CONSTANTS Events,      \* events captured for the subscription
          Workers,     \* worker processes
          MaxAttempts, \* MAX_ATTEMPTS
          MaxDeaths,   \* bound on the processes that die
          NoEvent      \* what a worker between two claims has in hand

ASSUME AttemptsAssumption == MaxAttempts \in Nat \ {0} /\ MaxDeaths \in Nat
ASSUME WorkersAssumption == IsFiniteSet(Workers) /\ Workers # {}

VARIABLES subscription, \* is it enabled, disabled or removed?
          row,          \* the webhook_deliveries row of each event
          worker,       \* what each worker is doing
          deaths        \* processes that died so far

deliveryVars == <<subscription, row, worker, deaths>>

Status == {"none", "pending", "delivering", "failed", "delivered", "exhausted"}
Unfinished == {"pending", "failed", "delivering"}
Finished == {"delivered", "exhausted"}

(* A claim costs an attempt, whatever becomes of it: a death wastes one, and *)
(* the late failure of an older run, which reschedules by its own number,    *)
(* those of all the newer ones.                                              *)
MostAttempts == MaxAttempts + MaxDeaths + Cardinality(Workers) * (Cardinality(Workers) - 1)

NoRow == [status |-> "none", attempts |-> 0, due |-> FALSE]

(* queue: the candidates of the sweep whose nextAttemptAt is still before it *)
(* began; late: a lease has passed since; after: the others who were late    *)
(* when it began, whose claims are over at once for this sweep.              *)
NoSweep == [step |-> "idle", queue |-> {}, event |-> NoEvent, attempt |-> 0,
            late |-> FALSE, after |-> {}]

DeliveryTypeOK ==
  /\ subscription \in {"enabled", "disabled", "removed"}
  /\ row \in [Events -> [status : Status, attempts : 0..MostAttempts, due : BOOLEAN]]
  /\ worker \in [Workers ->
       [step : {"idle", "sweeping", "loading", "refusing", "posting"},
        queue : SUBSET Events, event : Events \cup {NoEvent},
        attempt : 0..MostAttempts, late : BOOLEAN, after : SUBSET Workers]]
  /\ deaths \in 0..MaxDeaths

DeliveryInit ==
  /\ subscription = "enabled"
  /\ row = [e \in Events |-> NoRow]
  /\ worker = [w \in Workers |-> NoSweep]
  /\ deaths = 0

-----------------------------------------------------------------------------
(* WebhookService.                                                           *)
Capture(e) ==
  /\ subscription = "enabled" /\ row[e].status = "none"
  /\ row' = [row EXCEPT ![e] = [status |-> "pending", attempts |-> 0, due |-> TRUE]]
  /\ UNCHANGED <<subscription, worker, deaths>>

SetEnabled(value) ==
  /\ subscription # "removed"
  /\ subscription' = value
  /\ UNCHANGED <<row, worker, deaths>>

(* The deliveries go with their subscription.                                *)
Remove ==
  /\ subscription # "removed"
  /\ subscription' = "removed"
  /\ row' = [e \in Events |-> NoRow]
  /\ UNCHANGED <<worker, deaths>>

-----------------------------------------------------------------------------
NotUnderWay(r) == r.status \in {"pending", "failed"} /\ r.due       \* defect
Candidate(r) == r.status \in Unfinished /\ r.due

Sweep(w) ==
  /\ worker[w].step = "idle"
  /\ \E e \in Events : Candidate(row[e])
  /\ worker' = [v \in Workers |->
       IF v = w THEN [NoSweep EXCEPT !.step = "sweeping",
                        !.queue = {e \in Events : Candidate(row[e])},
                        !.after = {u \in Workers \ {w} : worker[u].late}]
       ELSE [worker[v] EXCEPT !.after = @ \ {w}]]
  /\ UNCHANGED <<subscription, row, deaths>>

(* Rescheduling a delivery takes it from the sweeps that began before.       *)
Claim(w, e) ==
  /\ worker[w].step = "sweeping" /\ e \in worker[w].queue
  /\ IF row[e].status \in Unfinished
     THEN /\ row' = [row EXCEPT ![e] = [status |-> "delivering",
                                        attempts |-> @.attempts + 1,
                                        due |-> worker[w].late]]
          /\ worker' = [v \in Workers |->
               IF v = w THEN [worker[w] EXCEPT !.step = "loading", !.event = e,
                                !.attempt = row[e].attempts + 1,
                                !.queue = @ \ {e}]
               ELSE IF w \in worker[v].after THEN worker[v]
               ELSE [worker[v] EXCEPT !.queue = @ \ {e}]]
     ELSE /\ worker' = [worker EXCEPT ![w].queue = @ \ {e}]
          /\ UNCHANGED row
  /\ UNCHANGED <<subscription, deaths>>

EndSweep(w) ==
  /\ worker[w].step = "sweeping" /\ worker[w].queue = {}
  /\ worker' = [worker EXCEPT ![w] = NoSweep]
  /\ UNCHANGED <<subscription, row, deaths>>

(* deliverClaimed reads the subscription.  One that is gone or disabled ends  *)
(* the delivery, and so does one whose secret cannot be decrypted.           *)
Load(w) ==
  /\ worker[w].step = "loading"
  /\ \/ worker' = [worker EXCEPT ![w].step = "refusing"]
     \/ /\ subscription = "enabled"
        /\ worker' = [worker EXCEPT ![w].step = "posting"]
  /\ UNCHANGED <<subscription, row, deaths>>

BackToSweep(w, rescheduled) ==
  [v \in Workers |->
     IF v = w THEN [worker[w] EXCEPT !.step = "sweeping", !.event = NoEvent,
                                     !.attempt = 0]
              ELSE [worker[v] EXCEPT !.queue = @ \ rescheduled]]

(* An outcome is written only while the row is under way, by this run or by  *)
(* another that took it over.                                                *)
OutcomeMatters(w) == row[worker[w].event].status # "none"           \* defect
UnderWay(w) == row[worker[w].event].status = "delivering"

Succeed(w) ==
  /\ worker[w].step = "posting"
  /\ row' = IF UnderWay(w)
            THEN [row EXCEPT ![worker[w].event].status = "delivered"] ELSE row
  /\ worker' = BackToSweep(w, {})
  /\ UNCHANGED <<subscription, deaths>>

GivesUpLate(attempt) == attempt > MaxAttempts                       \* defect
GivesUp(attempt) == attempt >= MaxAttempts
MarkFailure(w, terminal) ==
  LET e == worker[w].event IN
  /\ IF UnderWay(w)
     THEN /\ row' = [row EXCEPT ![e].due = FALSE, ![e].status =
               IF terminal \/ GivesUp(worker[w].attempt) THEN "exhausted" ELSE "failed"]
          /\ worker' = BackToSweep(w, {e})
     ELSE UNCHANGED row /\ worker' = BackToSweep(w, {})
  /\ UNCHANGED <<subscription, deaths>>
Refuse(w) == worker[w].step = "refusing" /\ MarkFailure(w, TRUE)
FailAttempt(w) == worker[w].step = "posting" /\ MarkFailure(w, FALSE)

Die(w) ==
  /\ worker[w].step # "idle" /\ deaths < MaxDeaths
  /\ deaths' = deaths + 1
  /\ worker' = [worker EXCEPT ![w] = NoSweep]
  /\ UNCHANGED <<subscription, row>>

-----------------------------------------------------------------------------
(* Two minutes have passed since the sweep began.                            *)
LeaseElapses(w) ==
  /\ worker[w].step # "idle" /\ ~worker[w].late
  /\ worker' = [worker EXCEPT ![w].late = TRUE]
  /\ UNCHANGED <<subscription, row, deaths>>

(* The retry's time has come, or the lease of the last claim is over: nobody *)
(* works on it, or the claimer is late.                                      *)
BecomesDue(e) ==
  /\ ~row[e].due
  /\ \/ row[e].status = "failed"
     \/ /\ row[e].status = "delivering"
        /\ \A w \in Workers : worker[w].event = e
                               /\ worker[w].attempt = row[e].attempts => worker[w].late
  /\ row' = [row EXCEPT ![e].due = TRUE]
  /\ UNCHANGED <<subscription, worker, deaths>>

-----------------------------------------------------------------------------
Run(w) ==
  \/ (\E e \in Events : Claim(w, e)) \/ EndSweep(w) \/ Load(w)
  \/ Succeed(w) \/ Refuse(w) \/ FailAttempt(w)

DeliveryNext ==
  \/ \E e \in Events : Capture(e) \/ BecomesDue(e)
  \/ \E value \in {"enabled", "disabled"} : SetEnabled(value)
  \/ Remove
  \/ \E w \in Workers : Sweep(w) \/ Run(w) \/ Die(w) \/ LeaseElapses(w)

DeliverySpec == DeliveryInit /\ [][DeliveryNext]_deliveryVars

(* Every worker sweeps again and again and goes on unless it dies; requests  *)
(* end by a timeout of ten seconds; the clock runs.                          *)
FairDeliverySpec ==
  /\ DeliverySpec
  /\ \A w \in Workers : WF_deliveryVars(Sweep(w)) /\ WF_deliveryVars(Run(w))
  /\ \A e \in Events : WF_deliveryVars(BecomesDue(e))

-----------------------------------------------------------------------------
(* What is delivered or exhausted stays so, whatever a run that lost its     *)
(* lease reports late.                                                       *)
OutcomesAreFinal ==
  [][\A e \in Events : row[e].status \in Finished =>
       row'[e].status = row[e].status \/ subscription' = "removed"]_deliveryVars

(* Every captured event is delivered or given up, or goes with its           *)
(* subscription, though workers die and leases lapse.                        *)
DeliveriesSettle ==
  \A e \in Events :
    row[e].status # "none" ~> row[e].status \in Finished \cup {"none"}
=============================================================================

-------------------------- MODULE IntegrationSync --------------------------
(* Outbound synchronisation of tickets to Zendesk (IntegrationSyncService):  *)
(* the executions of the sync rules of one connection, the sweeps that claim *)
(* and dispatch them, and the operators who retry or reconcile them.         *)
(*                                                                           *)
(* No transaction spans two statements here: each statement is an action, and *)
(* the row an action writes may have changed since it was read.  A row's age  *)
(* is kept as what it is compared for: whether a claim has become stale; a    *)
(* succeeded row always carries the id of the remote ticket.                 *)
EXTENDS Naturals

CONSTANTS Workers,     \* sweeps that may run at once, one per worker process
          Rules,       \* integration_sync_rules of the connection
          Executions,  \* pairs of a rule and an event key
          Rule,        \* execution -> its rule
          Creates,     \* executions of zendesk.create_ticket
          CreateOf,    \* update or comment -> the create of its ticket
          None

ASSUME NoneAssumption == None \notin Executions
ASSUME ExecutionAssumption ==
  /\ Rule \in [Executions -> Rules]
  /\ Creates \subseteq Executions
  /\ CreateOf \in [Executions \ Creates -> Creates]

VARIABLES ruleState,  \* of each rule
          exec,       \* the integration_sync_executions row of each execution
          remote,     \* what became of the request sent for it
          calls,      \* how many requests were sent for it
          run,        \* what each sweep is doing
          operator    \* what operators who have read an execution are about to write

vars == <<ruleState, exec, remote, calls, run, operator>>

RuleStates == {"enabled", "disabled", "removed"}
Statuses == {"none", "pending", "processing", "succeeded", "failed",
             "needs_review"}
RemoteStates == {"untouched", "sent", "applied", "lost"}
Steps == {"idle", "claimed", "ruled", "ready", "calling", "answered", "failing"}
Requests == {"retry", "confirm"}

NoRow == [status |-> "none", stale |-> FALSE]
NoRun == [step |-> "idle", exec |-> None, attempted |-> FALSE]

Rows == [status : Statuses, stale : BOOLEAN]
Runs == [step : Steps, exec : Executions \cup {None}, attempted : BOOLEAN]

TypeOK ==
  /\ ruleState \in [Rules -> RuleStates]
  /\ exec \in [Executions -> Rows]
  /\ remote \in [Executions -> RemoteStates]
  /\ calls \in [Executions -> Nat]
  /\ run \in [Workers -> Runs]
  /\ \A w \in Workers : run[w].step # "idle" => run[w].exec \in Executions
  /\ operator \in [Executions -> SUBSET Requests]

Init ==
  /\ ruleState \in [Rules -> {"enabled", "disabled"}]
  /\ exec = [e \in Executions |-> NoRow]
  /\ remote = [e \in Executions |-> "untouched"]
  /\ calls = [e \in Executions |-> 0]
  /\ run = [w \in Workers |-> NoRun]
  /\ operator = [e \in Executions |-> {}]

(* Every update stamps updatedAt, so the row it leaves is not stale; an       *)
(* update of a row that is gone changes nothing.                             *)
Write(e, status) ==
  exec' = IF exec[e].status = "none" THEN exec
          ELSE [exec EXCEPT ![e].status = status, ![e].stale = FALSE]

-----------------------------------------------------------------------------
(* Events and rules.                                                         *)

Inserted(e) ==
  IF exec[e].status = "none" THEN [NoRow EXCEPT !.status = "pending"]
  ELSE exec[e]

(* The event is delivered, once or again; its key is unique per rule. *)
HandleEvent(e) ==
  /\ ruleState[Rule[e]] = "enabled"
  /\ exec' = [exec EXCEPT ![e] = Inserted(e)]
  /\ UNCHANGED <<ruleState, remote, calls, run, operator>>

SetEnabled(r, s) ==
  /\ ruleState[r] # "removed"
  /\ ruleState' = [ruleState EXCEPT ![r] = s]
  /\ UNCHANGED <<exec, remote, calls, run, operator>>

(* Removing a rule cascades to its executions. *)
RemoveRule(r) ==
  /\ ruleState[r] # "removed"
  /\ ruleState' = [ruleState EXCEPT ![r] = "removed"]
  /\ exec' = [e \in Executions |-> IF Rule[e] = r THEN NoRow ELSE exec[e]]
  /\ UNCHANGED <<remote, calls, run, operator>>

-----------------------------------------------------------------------------
(* The sweep: processPending.                                                *)

GrowsStale(e) ==
  /\ exec[e].status = "processing"
  /\ ~exec[e].stale
  /\ exec' = [exec EXCEPT ![e].stale = TRUE]
  /\ UNCHANGED <<ruleState, remote, calls, run, operator>>

InterruptedPending(e) ==  \* defect: looks for stale rows of the wrong status
  exec[e].status = "pending" /\ exec[e].stale
Interrupted(e) == exec[e].status = "processing" /\ exec[e].stale

ReviewedMisspelt == "review"   \* defect: a status nobody looks for
ReviewedByReplay == "pending"  \* defect: an interrupted execution is replayed
Reviewed == "needs_review"

SweepStale ==
  /\ \E e \in Executions : Interrupted(e)
  /\ exec' = [e \in Executions |->
       IF Interrupted(e) THEN [exec[e] EXCEPT !.status = Reviewed, !.stale = FALSE]
       ELSE exec[e]]
  /\ UNCHANGED <<ruleState, remote, calls, run, operator>>

Claimable(e) == exec[e].status = "pending"

Claim(w, e) ==
  /\ run[w].step = "idle"
  /\ Claimable(e)
  /\ Write(e, "processing")
  /\ run' = [run EXCEPT ![w] = [step |-> "claimed", exec |-> e,
                                attempted |-> FALSE]]
  /\ UNCHANGED <<ruleState, remote, calls, operator>>

Goes(w, from, to) ==
  run[w].step = from /\ run' = [run EXCEPT ![w].step = to]

(* The rule, then the local ticket or comment and its link, are read. *)
ReadRule(w) ==
  /\ Goes(w, "claimed", "ruled")
  /\ ruleState[Rule[run[w].exec]] = "enabled"
  /\ UNCHANGED <<ruleState, exec, remote, calls, operator>>

LinkedAtAnyStatus(e) ==  \* defect: an unfinished create is taken for a link
  e \notin Creates => exec[CreateOf[e]].status \in {"succeeded", "needs_review"}
Linked(e) ==
  e \notin Creates => exec[CreateOf[e]].status = "succeeded"

ReadLink(w) ==
  /\ Goes(w, "ruled", "ready")
  /\ Linked(run[w].exec)
  /\ UNCHANGED <<ruleState, exec, remote, calls, operator>>

(* The rule, the connection, the ticket or the link is missing, or a query   *)
(* fails.                                                                    *)
PrepareFails(w) ==
  /\ run[w].step \in {"claimed", "ruled"}
  /\ run' = [run EXCEPT ![w].step = "failing"]
  /\ UNCHANGED <<ruleState, exec, remote, calls, operator>>

MarkedAfterCall(w) ==  \* defect: remoteAttempted is set after the call
  run' = [run EXCEPT ![w].step = "calling"]
Marked(w) == run' = [run EXCEPT ![w].step = "calling", ![w].attempted = TRUE]

Dispatch(w) ==
  LET e == run[w].exec IN
  /\ run[w].step = "ready"
  /\ Marked(w)
  /\ calls' = [calls EXCEPT ![e] = @ + 1]
  /\ remote' = [remote EXCEPT ![e] = "sent"]
  /\ UNCHANGED <<ruleState, exec, operator>>

(* Zendesk makes the change, or never does, whether or not anybody waits.    *)
RemoteDecides(e) ==
  /\ remote[e] = "sent"
  /\ \E s \in {"applied", "lost"} : remote' = [remote EXCEPT ![e] = s]
  /\ UNCHANGED <<ruleState, exec, calls, run, operator>>

Answer(w) ==
  /\ Goes(w, "calling", "answered")
  /\ remote[run[w].exec] = "applied"
  /\ UNCHANGED <<ruleState, exec, remote, calls, operator>>

(* The call is refused, times out or answers without an id, or its success   *)
(* cannot be recorded.                                                       *)
CallFails(w) ==
  /\ run[w].step \in {"calling", "answered"}
  /\ run' = [run EXCEPT ![w].step = "failing"]
  /\ UNCHANGED <<ruleState, exec, remote, calls, operator>>

RecordSuccess(w) ==
  /\ run[w].step = "answered"
  /\ Write(run[w].exec, "succeeded")
  /\ run' = [run EXCEPT ![w] = NoRun]
  /\ UNCHANGED <<ruleState, remote, calls, operator>>

(* The catch block; it writes whatever the row says by now. *)
RecordFailure(w) ==
  /\ run[w].step = "failing"
  /\ Write(run[w].exec, IF run[w].attempted THEN "needs_review" ELSE "failed")
  /\ run' = [run EXCEPT ![w] = NoRun]
  /\ UNCHANGED <<ruleState, remote, calls, operator>>

(* The process dies, or even the catch block cannot write. *)
Crash(w) ==
  /\ run[w].step # "idle"
  /\ run' = [run EXCEPT ![w] = NoRun]
  /\ UNCHANGED <<ruleState, exec, remote, calls, operator>>

-----------------------------------------------------------------------------
(* Operators: retryExecution and confirmRemoteExecution read the execution,  *)
(* its rule and (to confirm) the remote ticket, and write conditionally.     *)
(* Any number of them may have read the same: when one has written, others   *)
(* are still about to, or none is.                                           *)

Asks(e, request) == operator' = [operator EXCEPT ![e] = @ \cup {request}]
Done(e, request) ==
  \E others \in SUBSET {request} :
    operator' = [operator EXCEPT ![e] = (@ \ {request}) \cup others]

Retryable(e) == exec[e].status = "failed"

BeginRetry(e) ==
  /\ Retryable(e)
  /\ ruleState[Rule[e]] = "enabled"
  /\ Asks(e, "retry")
  /\ UNCHANGED <<ruleState, exec, remote, calls, run>>

(* The update's own condition: another operator's retry, and what the sweeps *)
(* made of it, may have come in between.                                     *)
StillRetryableAsRead(e) == exec[e].status # "none"  \* defect: by id alone
StillRetryable(e) == exec[e].status = "failed"

CommitRetry(e) ==
  /\ "retry" \in operator[e]
  /\ IF StillRetryable(e) THEN Write(e, "pending") ELSE UNCHANGED exec
  /\ Done(e, "retry")
  /\ UNCHANGED <<ruleState, remote, calls, run>>

Confirmable(e) ==
  exec[e].status = "needs_review" /\ e \in Creates /\ remote[e] = "applied"

BeginConfirm(e) ==
  /\ Confirmable(e)
  /\ Asks(e, "confirm")
  /\ UNCHANGED <<ruleState, exec, remote, calls, run>>

CommitConfirm(e) ==
  /\ "confirm" \in operator[e]
  /\ IF exec[e].status = "needs_review" THEN Write(e, "succeeded")
     ELSE UNCHANGED exec
  /\ Done(e, "confirm")
  /\ UNCHANGED <<ruleState, remote, calls, run>>

-----------------------------------------------------------------------------
Advance(w) ==
  \/ ReadRule(w) \/ ReadLink(w) \/ PrepareFails(w) \/ Dispatch(w)
  \/ Answer(w) \/ CallFails(w) \/ RecordSuccess(w) \/ RecordFailure(w)

Next ==
  \/ \E r \in Rules :
       RemoveRule(r) \/ \E s \in {"enabled", "disabled"} : SetEnabled(r, s)
  \/ \E e \in Executions :
       \/ HandleEvent(e) \/ GrowsStale(e) \/ RemoteDecides(e)
       \/ BeginRetry(e) \/ CommitRetry(e)
       \/ BeginConfirm(e) \/ CommitConfirm(e)
  \/ SweepStale
  \/ \E w \in Workers :
       \/ \E e \in Executions : Claim(w, e)
       \/ Advance(w) \/ Crash(w)

Spec == Init /\ [][Next]_vars

(* Sweeps run every few seconds and list the oldest pending executions       *)
(* first; a sweep that claimed one goes on with it unless it dies, and every *)
(* call ends, at the latest by its timeout; the clock advances.              *)
Fairness ==
  /\ WF_vars(SweepStale)
  /\ \A e \in Executions :
       WF_vars(GrowsStale(e)) /\ SF_vars(\E w \in Workers : Claim(w, e))
  /\ \A w \in Workers : WF_vars(Advance(w))

FairSpec == Spec /\ Fairness

-----------------------------------------------------------------------------
(* No execution sends two requests to the remote system, whatever is         *)
(* retried, swept, confirmed or restarted.                                   *)
DispatchedOnce == \A e \in Executions : calls[e] <= 1

(* Whatever a sweep or an operator may start again has left no trace at the  *)
(* remote system.                                                            *)
ReplayableIsUntouched ==
  \A e \in Executions :
    exec[e].status \in {"pending", "failed"} => remote[e] = "untouched"

(* Success is recorded only for a change the remote system made, also when   *)
(* an operator records it.                                                   *)
SucceededIsApplied ==
  \A e \in Executions : exec[e].status = "succeeded" => remote[e] = "applied"

(* Updates and comments are sent only for a ticket that exists remotely.     *)
DependentsFollowCreate ==
  \A e \in Executions \ Creates :
    remote[e] # "untouched" => remote[CreateOf[e]] = "applied"

(* No execution is stuck in the sweeps: it ends, or asks for a review. *)
ExecutionsSettle ==
  \A e \in Executions :
    exec[e].status \in {"pending", "processing"}
      ~> exec[e].status \notin {"pending", "processing"}

Outcome(e) ==
  IF ruleState[Rule[e]] = "removed" THEN "gone"
  ELSE CASE exec[e].status = "none" -> "absent"
         [] exec[e].status = "pending" -> "wanted"
         [] exec[e].status = "succeeded" -> "done"
         [] exec[e].status = "failed" -> "failed"
         [] OTHER -> "open"

Promise == INSTANCE RemoteOnce
  WITH outcome <- [e \in Executions |-> Outcome(e)],
       touched <- {e \in Executions : remote[e] # "untouched"},
       applied <- {e \in Executions : remote[e] = "applied"}

(* Sweeps, restarts and operators implement the at-most-once service. *)
ImplementsRemoteOnce == Promise!Spec
=============================================================================

----------------------- MODULE IntegrationSync_proofs -----------------------
(* Proofs about IntegrationSync for any number of rules, executions and       *)
(* sweeps.  The argument: a row that may be claimed or retried is attended    *)
(* by no sweep and has left no trace remotely, and nothing but a claim or a   *)
(* retry leads out of that condition; so the sweep that holds an execution    *)
(* holds it alone, and the one request it sends is the first.                *)
EXTENDS IntegrationSync, TLAPS

Active(w) == run[w].step # "idle"

(* Runs that have sent nothing, and will report so. *)
HasNotTried(x) ==
  \/ x.step \in {"claimed", "ruled", "ready"}
  \/ x.step = "failing" /\ ~x.attempted
Untried(w) == HasNotTried(run[w])

SoleRunner ==
  \A v, w \in Workers :
    Active(v) /\ Active(w) /\ run[v].exec = run[w].exec => v = w

Startable(e) ==
  \/ exec[e].status \in {"pending", "failed"}
  \/ exec[e].status = "none" /\ ruleState[Rule[e]] # "removed"

StartableIsFresh ==
  \A e \in Executions : Startable(e) =>
    /\ remote[e] = "untouched"
    /\ \A w \in Workers : Active(w) => run[w].exec # e

CallsAreSeen ==
  \A e \in Executions : calls[e] = IF remote[e] = "untouched" THEN 0 ELSE 1

UntriedIsUntouched ==
  \A w \in Workers : Untried(w) => remote[run[w].exec] = "untouched"

TriedIsMarked ==
  \A w \in Workers :
    /\ run[w].step \in {"calling", "answered"} => run[w].attempted
    /\ run[w].step = "answered" => remote[run[w].exec] = "applied"

ReadyHasTicket ==
  \A w \in Workers :
    run[w].step = "ready" /\ run[w].exec \notin Creates
      => remote[CreateOf[run[w].exec]] = "applied"

ConfirmIsSeen ==
  \A e \in Executions : "confirm" \in operator[e] => remote[e] = "applied"

RemovedHasNoRow ==
  \A e \in Executions :
    ruleState[Rule[e]] = "removed" => exec[e].status = "none"

IInv ==
  /\ TypeOK
  /\ SoleRunner
  /\ StartableIsFresh
  /\ CallsAreSeen
  /\ UntriedIsUntouched
  /\ TriedIsMarked
  /\ ReadyHasTicket
  /\ ConfirmIsSeen
  /\ RemovedHasNoRow
  /\ SucceededIsApplied
  /\ DependentsFollowCreate

-----------------------------------------------------------------------------
LEMMA TypeInit == Init => TypeOK
  BY DEF Init, TypeOK, NoRow, NoRun, Rows, Runs, RuleStates, Statuses,
     RemoteStates, Steps, Requests

LEMMA WriteType ==
  ASSUME TypeOK, NEW e \in Executions, NEW s \in Statuses, Write(e, s)
  PROVE  exec' \in [Executions -> Rows]
  BY DEF TypeOK, Write, Rows

LEMMA RunType ==
  ASSUME TypeOK, NEW w \in Workers, NEW x \in Runs,
         x.step # "idle" => x.exec \in Executions,
         run' = [run EXCEPT ![w] = x]
  PROVE  /\ run' \in [Workers -> Runs]
         /\ \A v \in Workers : run'[v].step # "idle" => run'[v].exec \in Executions
  BY DEF TypeOK

LEMMA NoRunType == NoRun \in Runs /\ NoRun.step = "idle"
  BY DEF NoRun, Runs, Steps

LEMMA StepType ==
  ASSUME TypeOK, NEW w \in Workers, NEW s \in Steps, run[w].step # "idle",
         run' = [run EXCEPT ![w].step = s]
  PROVE  /\ run' \in [Workers -> Runs]
         /\ \A v \in Workers : run'[v].step # "idle" => run'[v].exec \in Executions
  BY DEF TypeOK, Runs

(* Every step keeps the types. *)
LEMMA TypeNext == TypeOK /\ [Next]_vars => TypeOK'
  <1> SUFFICES ASSUME TypeOK, [Next]_vars PROVE TypeOK'
    OBVIOUS
  <1>1. ASSUME NEW r \in Rules, RemoveRule(r) PROVE TypeOK'
    BY <1>1 DEF RemoveRule, TypeOK, RuleStates, NoRow, Rows, Statuses
  <1>2. ASSUME NEW r \in Rules, NEW s \in {"enabled", "disabled"}, SetEnabled(r, s)
        PROVE TypeOK'
    BY <1>2 DEF SetEnabled, TypeOK, RuleStates
  <1>3. ASSUME NEW e \in Executions, HandleEvent(e) PROVE TypeOK'
    BY <1>3 DEF HandleEvent, Inserted, TypeOK, NoRow, Rows, Statuses
  <1>4. ASSUME NEW e \in Executions, GrowsStale(e) PROVE TypeOK'
    BY <1>4 DEF GrowsStale, TypeOK, Rows
  <1>5. ASSUME NEW e \in Executions, RemoteDecides(e) PROVE TypeOK'
    BY <1>5 DEF RemoteDecides, TypeOK, RemoteStates
  <1>6. ASSUME NEW e \in Executions, BeginRetry(e) \/ BeginConfirm(e) PROVE TypeOK'
    BY <1>6 DEF BeginRetry, BeginConfirm, Asks, TypeOK, Requests
  <1>7. ASSUME NEW e \in Executions, CommitRetry(e) \/ CommitConfirm(e) PROVE TypeOK'
    <2>1. exec' \in [Executions -> Rows]
      BY <1>7, WriteType DEF CommitRetry, CommitConfirm, TypeOK, Statuses
    <2>2. operator' \in [Executions -> SUBSET Requests]
      <3>1. PICK request \in Requests : Done(e, request)
        BY <1>7 DEF CommitRetry, CommitConfirm, Requests
      <3>2. PICK others \in SUBSET {request} :
              operator' = [operator EXCEPT ![e] = (@ \ {request}) \cup others]
        BY <3>1 DEF Done
      <3>3. (operator[e] \ {request}) \cup others \in SUBSET Requests
        BY DEF TypeOK
      <3> QED
        BY <3>2, <3>3 DEF TypeOK
    <2> QED
      BY <1>7, <2>1, <2>2 DEF CommitRetry, CommitConfirm, TypeOK
  <1>8. CASE SweepStale
    BY <1>8 DEF SweepStale, Reviewed, TypeOK, Rows, Statuses
  <1>9. ASSUME NEW w \in Workers, NEW e \in Executions, Claim(w, e) PROVE TypeOK'
    <2>1. exec' \in [Executions -> Rows]
      BY <1>9, WriteType DEF Claim, Statuses
    <2> DEFINE x == [step |-> "claimed", exec |-> e, attempted |-> FALSE]
    <2>2. x \in Runs /\ x.exec \in Executions
      BY DEF Runs, Steps
    <2>3. run' = [run EXCEPT ![w] = x]
      BY <1>9 DEF Claim
    <2> HIDE DEF x
    <2> QED
      BY <1>9, <2>1, <2>2, <2>3, RunType DEF Claim, TypeOK
  <1>10. ASSUME NEW w \in Workers,
                ReadRule(w) \/ ReadLink(w) \/ PrepareFails(w) \/ Answer(w) \/ CallFails(w)
         PROVE TypeOK'
    <2>1. PICK s \in Steps : run[w].step # "idle" /\ run' = [run EXCEPT ![w].step = s]
      BY <1>10 DEF ReadRule, ReadLink, PrepareFails, Answer, CallFails, Goes, Steps
    <2> QED
      BY <1>10, <2>1, StepType
      DEF ReadRule, ReadLink, PrepareFails, Answer, CallFails, TypeOK
  <1>11. ASSUME NEW w \in Workers, Dispatch(w) PROVE TypeOK'
    <2>1. run[w].exec \in Executions
      BY <1>11 DEF Dispatch, TypeOK
    <2>2. /\ run' \in [Workers -> Runs]
          /\ \A v \in Workers : run'[v].step # "idle" => run'[v].exec \in Executions
      BY <1>11, <2>1 DEF Dispatch, Marked, TypeOK, Runs, Steps
    <2> QED
      BY <1>11, <2>1, <2>2 DEF Dispatch, TypeOK, RemoteStates
  <1>12. ASSUME NEW w \in Workers, RecordSuccess(w) \/ RecordFailure(w) PROVE TypeOK'
    <2>1. run[w].exec \in Executions
      BY <1>12 DEF RecordSuccess, RecordFailure, TypeOK
    <2>2. exec' \in [Executions -> Rows]
      BY <1>12, <2>1, WriteType DEF RecordSuccess, RecordFailure, Statuses
    <2> QED
      BY <1>12, <2>2, RunType, NoRunType DEF RecordSuccess, RecordFailure, TypeOK
  <1>13. ASSUME NEW w \in Workers, Crash(w) PROVE TypeOK'
    BY <1>13, RunType, NoRunType DEF Crash, TypeOK
  <1>14. CASE UNCHANGED vars
    BY <1>14 DEF vars, TypeOK
  <1> QED
    BY <1>1, <1>2, <1>3, <1>4, <1>5, <1>6, <1>7, <1>8, <1>9, <1>10, <1>11,
       <1>12, <1>13, <1>14 DEF Next, Advance

(* Every reachable state is well typed. *)
THEOREM TypeCorrect == Spec => []TypeOK
  BY TypeInit, TypeNext, PTL DEF Spec

-----------------------------------------------------------------------------
LEMMA InitIInv == Init => IInv
  BY TypeInit
  DEF Init, IInv, NoRow, NoRun, Active, Untried, HasNotTried, SoleRunner, Startable,
      StartableIsFresh, CallsAreSeen, UntriedIsUntouched, TriedIsMarked,
      ReadyHasTicket, ConfirmIsSeen, RemovedHasNoRow, SucceededIsApplied,
      DependentsFollowCreate

(* Steps that touch neither runs nor the remote system, and start nothing.   *)
LEMMA RowsOnly ==
  ASSUME IInv, TypeOK', UNCHANGED <<remote, calls, run>>,
         \A e \in Executions : Startable(e)' => Startable(e),
         SucceededIsApplied', ConfirmIsSeen', RemovedHasNoRow'
  PROVE  IInv'
  BY DEF IInv, Active, Untried, HasNotTried, SoleRunner, StartableIsFresh, CallsAreSeen,
     UntriedIsUntouched, TriedIsMarked, ReadyHasTicket, DependentsFollowCreate

(* Steps of one sweep on its own record that send nothing: what is required  *)
(* of the record the sweep ends in.                                          *)
LEMMA RunOnly ==
  ASSUME IInv, TypeOK', NEW w \in Workers, NEW x, Active(w),
         UNCHANGED <<ruleState, exec, remote, calls, operator>>,
         run' = [run EXCEPT ![w] = x],
         x.step # "idle" => x.exec = run[w].exec,
         HasNotTried(x) => remote[x.exec] = "untouched",
         x.step \in {"calling", "answered"} => x.attempted,
         x.step = "answered" => remote[x.exec] = "applied",
         x.step = "ready" /\ x.exec \notin Creates
           => remote[CreateOf[x.exec]] = "applied"
  PROVE  IInv'
  <1>1. \A v \in Workers : run'[v] = IF v = w THEN x ELSE run[v]
    BY DEF IInv, TypeOK
  <1>2. SoleRunner' /\ StartableIsFresh'
    BY <1>1 DEF IInv, Active, SoleRunner, Startable, StartableIsFresh
  <1>3. UntriedIsUntouched'
    BY <1>1 DEF IInv, Untried, HasNotTried, UntriedIsUntouched
  <1>4. TriedIsMarked'
    BY <1>1 DEF IInv, TriedIsMarked
  <1>5. ReadyHasTicket'
    BY <1>1 DEF IInv, ReadyHasTicket
  <1> QED
    BY <1>2, <1>3, <1>4, <1>5
    DEF IInv, CallsAreSeen, ConfirmIsSeen, RemovedHasNoRow, SucceededIsApplied,
        DependentsFollowCreate

(* A sweep that holds an execution: nobody else does, and its row, if the    *)
(* rule is still there, cannot be started by anybody.                        *)
LEMMA Held ==
  ASSUME IInv, NEW w \in Workers, Active(w)
  PROVE  /\ run[w].exec \in Executions
         /\ ~Startable(run[w].exec)
         /\ \A v \in Workers : Active(v) /\ run[v].exec = run[w].exec => v = w
         /\ Untried(w) => remote[run[w].exec] = "untouched"
  BY DEF IInv, TypeOK, Active, StartableIsFresh, SoleRunner, UntriedIsUntouched

LEMMA IdleIsHarmless ==
  /\ NoRun.step = "idle" /\ ~HasNotTried(NoRun)
  BY DEF NoRun, HasNotTried

(* The last write of a sweep: the row, if it is still there, takes a status  *)
(* the remote system vouches for, and the sweep is over.                     *)
LEMMA Finishes ==
  ASSUME IInv, TypeOK', NEW w \in Workers, Active(w),
         NEW s \in Statuses \ {"none", "pending"},
         Write(run[w].exec, s),
         s = "succeeded" => remote[run[w].exec] = "applied",
         s = "failed" => remote[run[w].exec] = "untouched",
         run' = [run EXCEPT ![w] = NoRun],
         UNCHANGED <<ruleState, remote, calls, operator>>
  PROVE  IInv'
  <1> DEFINE e == run[w].exec
  <1>0. e \in Executions /\ ~Startable(e)
        /\ \A v \in Workers : Active(v) /\ run[v].exec = e => v = w
    BY Held
  <1>1. \A v \in Workers : run'[v] = IF v = w THEN NoRun ELSE run[v]
    BY DEF IInv, TypeOK
  <1>2. \A f \in Executions :
          exec'[f].status = IF f = e /\ exec[e].status # "none" THEN s
                            ELSE exec[f].status
    BY <1>0 DEF IInv, TypeOK, Write, Rows
  <1> HIDE DEF e
  <1>3. SoleRunner'
    BY <1>1, IdleIsHarmless DEF IInv, Active, SoleRunner
  <1>4. StartableIsFresh'
    <2> SUFFICES ASSUME NEW f \in Executions, Startable(f)'
                 PROVE  /\ remote[f] = "untouched"
                        /\ \A v \in Workers : Active(v)' => run'[v].exec # f
      BY DEF StartableIsFresh
    <2>1. CASE f = e
      <3>1. s = "failed"
        BY <1>0, <1>2, <2>1 DEF Startable
      <3> QED
        BY <1>0, <1>1, <3>1, <2>1, IdleIsHarmless DEF Active, e
    <2>2. CASE f # e
      <3>1. Startable(f)
        BY <1>2, <2>2 DEF Startable
      <3> QED
        BY <1>1, <3>1, IdleIsHarmless DEF IInv, StartableIsFresh, Active
    <2> QED
      BY <2>1, <2>2
  <1>5. UntriedIsUntouched'
    BY <1>1, IdleIsHarmless DEF IInv, Untried, UntriedIsUntouched
  <1>6. TriedIsMarked' /\ ReadyHasTicket'
    BY <1>1, IdleIsHarmless DEF IInv, TriedIsMarked, ReadyHasTicket
  <1>7. RemovedHasNoRow'
    BY <1>2 DEF IInv, RemovedHasNoRow
  <1>8. SucceededIsApplied'
    BY <1>2 DEF IInv, SucceededIsApplied, e
  <1> QED
    BY <1>3, <1>4, <1>5, <1>6, <1>7, <1>8
    DEF IInv, CallsAreSeen, ConfirmIsSeen, DependentsFollowCreate

-----------------------------------------------------------------------------
(* Every step keeps the invariant. *)
LEMMA InvNext == IInv /\ [Next]_vars => IInv'
  <1> SUFFICES ASSUME IInv, [Next]_vars PROVE IInv'
    OBVIOUS
  <1>0. TypeOK /\ TypeOK'
    BY TypeNext DEF IInv
  <1>1. ASSUME NEW r \in Rules, RemoveRule(r) PROVE IInv'
    <2>1. \A e \in Executions :
            exec'[e] = IF Rule[e] = r THEN NoRow ELSE exec[e]
      BY <1>1 DEF RemoveRule
    <2>2. \A e \in Executions :
            ruleState'[Rule[e]] = IF Rule[e] = r THEN "removed" ELSE ruleState[Rule[e]]
      BY <1>0, <1>1, ExecutionAssumption DEF RemoveRule, TypeOK
    <2>3. /\ \A e \in Executions : Startable(e)' => Startable(e)
          /\ SucceededIsApplied' /\ RemovedHasNoRow' /\ ConfirmIsSeen'
      BY <1>1, <2>1, <2>2
      DEF RemoveRule, NoRow, Startable, IInv, SucceededIsApplied,
          RemovedHasNoRow, ConfirmIsSeen
    <2> QED
      BY <1>0, <1>1, <2>3, RowsOnly DEF RemoveRule
  <1>2. ASSUME NEW r \in Rules, NEW s \in {"enabled", "disabled"}, SetEnabled(r, s)
        PROVE IInv'
    <2>1. \A e \in Executions : ruleState'[Rule[e]] = "removed"
                                  <=> ruleState[Rule[e]] = "removed"
      BY <1>0, <1>2, ExecutionAssumption DEF SetEnabled, TypeOK
    <2>2. /\ \A e \in Executions : Startable(e)' => Startable(e)
          /\ SucceededIsApplied' /\ RemovedHasNoRow' /\ ConfirmIsSeen'
      BY <1>2, <2>1
      DEF SetEnabled, Startable, IInv, SucceededIsApplied, RemovedHasNoRow,
          ConfirmIsSeen
    <2> QED
      BY <1>0, <1>2, <2>2, RowsOnly DEF SetEnabled
  <1>3. ASSUME NEW e \in Executions, HandleEvent(e) PROVE IInv'
    <2>1. \A f \in Executions :
            exec'[f].status = IF f = e /\ exec[e].status = "none" THEN "pending"
                              ELSE exec[f].status
      BY <1>0, <1>3 DEF HandleEvent, Inserted, NoRow, TypeOK
    <2>2. /\ \A f \in Executions : Startable(f)' => Startable(f)
          /\ SucceededIsApplied' /\ RemovedHasNoRow' /\ ConfirmIsSeen'
      BY <1>3, <2>1
      DEF HandleEvent, Startable, IInv, SucceededIsApplied, RemovedHasNoRow,
          ConfirmIsSeen
    <2> QED
      BY <1>0, <1>3, <2>2, RowsOnly DEF HandleEvent
  <1>4. ASSUME NEW e \in Executions, GrowsStale(e) PROVE IInv'
    <2>1. \A f \in Executions : exec'[f].status = exec[f].status
      BY <1>0, <1>4 DEF GrowsStale, TypeOK, Rows
    <2>2. /\ \A f \in Executions : Startable(f)' => Startable(f)
          /\ SucceededIsApplied' /\ RemovedHasNoRow' /\ ConfirmIsSeen'
      BY <1>4, <2>1
      DEF GrowsStale, Startable, IInv, SucceededIsApplied, RemovedHasNoRow,
          ConfirmIsSeen
    <2> QED
      BY <1>0, <1>4, <2>2, RowsOnly DEF GrowsStale
  <1>5. CASE SweepStale
    <2>1. \A f \in Executions :
            \/ exec'[f].status = exec[f].status
            \/ exec[f].status = "processing" /\ exec'[f].status = "needs_review"
      BY <1>0, <1>5 DEF SweepStale, Interrupted, Reviewed, TypeOK, Rows
    <2>2. /\ \A f \in Executions : Startable(f)' => Startable(f)
          /\ SucceededIsApplied' /\ RemovedHasNoRow' /\ ConfirmIsSeen'
      BY <1>5, <2>1
      DEF SweepStale, Startable, IInv, SucceededIsApplied, RemovedHasNoRow,
          ConfirmIsSeen
    <2> QED
      BY <1>0, <1>5, <2>2, RowsOnly DEF SweepStale
  <1>6. ASSUME NEW e \in Executions, BeginRetry(e) \/ BeginConfirm(e) PROVE IInv'
    <2>1. ConfirmIsSeen'
      BY <1>0, <1>6
      DEF BeginRetry, BeginConfirm, Confirmable, Asks, IInv, ConfirmIsSeen, TypeOK
    <2> QED
      BY <1>0, <1>6, <2>1, RowsOnly
      DEF BeginRetry, BeginConfirm, Startable, IInv, SucceededIsApplied,
          RemovedHasNoRow
  <1>7. ASSUME NEW e \in Executions, CommitRetry(e) \/ CommitConfirm(e) PROVE IInv'
    <2>1. \A f \in Executions :
            \/ exec'[f].status = exec[f].status
            \/ exec[f].status = "failed" /\ exec'[f].status = "pending"
            \/ /\ f = e /\ "confirm" \in operator[e]
               /\ exec[f].status = "needs_review" /\ exec'[f].status = "succeeded"
      BY <1>0, <1>7
      DEF CommitRetry, CommitConfirm, StillRetryable, Write, TypeOK, Rows
    <2>2. ConfirmIsSeen'
      BY <1>0, <1>7
      DEF CommitRetry, CommitConfirm, Done, IInv, ConfirmIsSeen, TypeOK
    <2>3. /\ \A f \in Executions : Startable(f)' => Startable(f)
          /\ SucceededIsApplied' /\ RemovedHasNoRow'
      BY <1>7, <2>1
      DEF CommitRetry, CommitConfirm, Startable, IInv, SucceededIsApplied,
          RemovedHasNoRow, ConfirmIsSeen
    <2> QED
      BY <1>0, <1>7, <2>2, <2>3, RowsOnly DEF CommitRetry, CommitConfirm
  <1>8. ASSUME NEW e \in Executions, RemoteDecides(e) PROVE IInv'
    <2>1. /\ remote[e] = "sent"
          /\ \E s \in {"applied", "lost"} :
               \A f \in Executions : remote'[f] = IF f = e THEN s ELSE remote[f]
      BY <1>0, <1>8 DEF RemoteDecides, TypeOK
    <2>2. /\ \A f \in Executions :
               /\ remote'[f] = "untouched" <=> remote[f] = "untouched"
               /\ remote[f] = "applied" => remote'[f] = "applied"
      BY <2>1
    <2>3. UNCHANGED <<ruleState, exec, calls, run, operator>>
      BY <1>8 DEF RemoteDecides
    <2>4. \A w \in Workers : Active(w) => run[w].exec \in Executions
      BY <1>0 DEF TypeOK, Active
    <2>5. SoleRunner' /\ StartableIsFresh' /\ CallsAreSeen'
      BY <2>2, <2>3
      DEF IInv, Active, SoleRunner, Startable, StartableIsFresh, CallsAreSeen
    <2>6. UntriedIsUntouched' /\ TriedIsMarked'
      BY <2>2, <2>3, <2>4
      DEF IInv, Active, Untried, HasNotTried, UntriedIsUntouched, TriedIsMarked
    <2>7. ReadyHasTicket' /\ DependentsFollowCreate'
      BY <2>2, <2>3, <2>4, ExecutionAssumption
      DEF IInv, Active, ReadyHasTicket, DependentsFollowCreate
    <2>8. ConfirmIsSeen' /\ RemovedHasNoRow' /\ SucceededIsApplied'
      BY <2>2, <2>3 DEF IInv, ConfirmIsSeen, RemovedHasNoRow, SucceededIsApplied
    <2> QED
      BY <1>0, <2>5, <2>6, <2>7, <2>8 DEF IInv
  <1>9. ASSUME NEW w \in Workers, NEW e \in Executions, Claim(w, e) PROVE IInv'
    <2> DEFINE x == [step |-> "claimed", exec |-> e, attempted |-> FALSE]
    <2>1. \A v \in Workers : run'[v] = IF v = w THEN x ELSE run[v]
      BY <1>0, <1>9 DEF Claim, TypeOK
    <2>2. x.step = "claimed" /\ x.exec = e
      OBVIOUS
    <2> HIDE DEF x
    <2>3. \A f \in Executions :
            exec'[f].status = IF f = e THEN "processing" ELSE exec[f].status
      BY <1>0, <1>9 DEF Claim, Claimable, Write, TypeOK, Rows
    <2>4. Startable(e)
      BY <1>9 DEF Claim, Claimable, Startable
    <2>5. SoleRunner'
      BY <2>1, <2>2, <2>4 DEF IInv, Active, SoleRunner, StartableIsFresh
    <2>6. StartableIsFresh'
      BY <1>9, <2>1, <2>2, <2>3
      DEF Claim, IInv, Active, Startable, StartableIsFresh
    <2>7. UntriedIsUntouched'
      BY <1>9, <2>1, <2>2, <2>4
      DEF Claim, IInv, Untried, UntriedIsUntouched, StartableIsFresh
    <2>8. TriedIsMarked' /\ ReadyHasTicket'
      BY <1>9, <2>1, <2>2 DEF Claim, IInv, TriedIsMarked, ReadyHasTicket
    <2>9. RemovedHasNoRow' /\ SucceededIsApplied'
      BY <1>9, <2>3 DEF Claim, Claimable, IInv, RemovedHasNoRow, SucceededIsApplied
    <2> QED
      BY <1>0, <1>9, <2>5, <2>6, <2>7, <2>8, <2>9
      DEF Claim, IInv, CallsAreSeen, ConfirmIsSeen, DependentsFollowCreate
  <1>10. ASSUME NEW w \in Workers, ReadRule(w) \/ PrepareFails(w) PROVE IInv'
    <2>1. PICK s \in {"ruled", "failing"} : run' = [run EXCEPT ![w].step = s]
      BY <1>10 DEF ReadRule, PrepareFails, Goes
    <2>2. Active(w) /\ Untried(w)
      BY <1>10 DEF ReadRule, PrepareFails, Goes, Active, Untried, HasNotTried
    <2>3. remote[run[w].exec] = "untouched"
      BY <2>2 DEF IInv, UntriedIsUntouched
    <2> DEFINE x == [run[w] EXCEPT !.step = s]
    <2>4. run' = [run EXCEPT ![w] = x] /\ x.step = s /\ x.exec = run[w].exec
      BY <1>0, <2>1 DEF TypeOK, Runs
    <2> HIDE DEF x
    <2> QED
      BY <1>0, <1>10, <2>2, <2>3, <2>4, RunOnly DEF ReadRule, PrepareFails
  <1>11. ASSUME NEW w \in Workers, ReadLink(w) PROVE IInv'
    <2>1. Active(w) /\ Untried(w)
      BY <1>11 DEF ReadLink, Goes, Active, Untried, HasNotTried
    <2>2. run[w].exec \in Executions /\ remote[run[w].exec] = "untouched"
      BY <2>1, Held
    <2>3. run[w].exec \notin Creates => remote[CreateOf[run[w].exec]] = "applied"
      BY <1>11, <2>2, ExecutionAssumption
      DEF ReadLink, Linked, IInv, SucceededIsApplied
    <2> DEFINE x == [run[w] EXCEPT !.step = "ready"]
    <2>4. run' = [run EXCEPT ![w] = x] /\ x.step = "ready" /\ x.exec = run[w].exec
      BY <1>0, <1>11 DEF ReadLink, Goes, TypeOK, Runs
    <2> HIDE DEF x
    <2> QED
      BY <1>0, <1>11, <2>1, <2>2, <2>3, <2>4, RunOnly DEF ReadLink
  <1>12. ASSUME NEW w \in Workers, Answer(w) \/ CallFails(w) PROVE IInv'
    <2>1. /\ Active(w) /\ run[w].attempted
          /\ run[w].step \in {"calling", "answered"}
      BY <1>12 DEF Answer, CallFails, Goes, Active, IInv, TriedIsMarked
    <2>2. PICK s \in {"answered", "failing"} :
            /\ run' = [run EXCEPT ![w].step = s]
            /\ s = "answered" => remote[run[w].exec] = "applied"
      BY <1>12 DEF Answer, CallFails, Goes
    <2> DEFINE x == [run[w] EXCEPT !.step = s]
    <2>3. /\ run' = [run EXCEPT ![w] = x] /\ x.step = s
          /\ x.exec = run[w].exec /\ x.attempted
      BY <1>0, <2>1, <2>2 DEF TypeOK, Runs
    <2> HIDE DEF x
    <2>4. ~HasNotTried(x)
      BY <2>3 DEF HasNotTried
    <2> QED
      BY <1>0, <1>12, <2>1, <2>2, <2>3, <2>4, RunOnly DEF Answer, CallFails
  <1>13. ASSUME NEW w \in Workers, Dispatch(w) PROVE IInv'
    <2> DEFINE e == run[w].exec
    <2>1. Active(w) /\ Untried(w)
      BY <1>13 DEF Dispatch, Active, Untried, HasNotTried
    <2>2. /\ e \in Executions /\ ~Startable(e) /\ remote[e] = "untouched"
          /\ \A v \in Workers : Active(v) /\ run[v].exec = e => v = w
      BY <2>1, Held
    <2>3. e \notin Creates => remote[CreateOf[e]] = "applied"
      BY <1>13 DEF Dispatch, IInv, ReadyHasTicket
    <2>4. \A f \in Executions :
            /\ remote'[f] = IF f = e THEN "sent" ELSE remote[f]
            /\ calls'[f] = IF f = e THEN calls[e] + 1 ELSE calls[f]
      BY <1>0, <1>13, <2>2 DEF Dispatch, TypeOK
    <2>5. \A v \in Workers : v # w => run'[v] = run[v]
      BY <1>0, <1>13 DEF Dispatch, Marked, TypeOK
    <2>6. run'[w].step = "calling" /\ run'[w].exec = e /\ run'[w].attempted
      BY <1>0, <1>13 DEF Dispatch, Marked, TypeOK, Runs
    <2>7. UNCHANGED <<ruleState, exec, operator>>
      BY <1>13 DEF Dispatch
    <2>8. \A v \in Workers : v # w /\ Active(v) => run[v].exec \in Executions \ {e}
      BY <1>0, <2>2 DEF TypeOK, Active
    <2>9. \A f \in Executions : remote[f] = "applied" => remote'[f] = "applied"
      BY <2>2, <2>4
    <2> HIDE DEF e
    <2>10. SoleRunner'
      BY <2>2, <2>5, <2>6 DEF IInv, Active, SoleRunner
    <2>11. StartableIsFresh'
      BY <2>1, <2>2, <2>4, <2>5, <2>6, <2>7
      DEF IInv, Active, Startable, StartableIsFresh
    <2>12. CallsAreSeen'
      BY <2>2, <2>4 DEF IInv, CallsAreSeen
    <2>13. UntriedIsUntouched'
      BY <2>4, <2>5, <2>6, <2>8
      DEF IInv, Active, Untried, HasNotTried, UntriedIsUntouched
    <2>14. TriedIsMarked'
      BY <2>4, <2>5, <2>6, <2>8 DEF IInv, Active, TriedIsMarked
    <2>15. ReadyHasTicket'
      BY <2>5, <2>6, <2>8, <2>9, ExecutionAssumption DEF IInv, Active, ReadyHasTicket
    <2>16. DependentsFollowCreate'
      BY <2>3, <2>4, <2>9, ExecutionAssumption DEF IInv, DependentsFollowCreate
    <2>17. ConfirmIsSeen' /\ RemovedHasNoRow' /\ SucceededIsApplied'
      BY <2>7, <2>9 DEF IInv, ConfirmIsSeen, RemovedHasNoRow, SucceededIsApplied
    <2> QED
      BY <1>0, <2>10, <2>11, <2>12, <2>13, <2>14, <2>15, <2>16, <2>17 DEF IInv
  <1>14. ASSUME NEW w \in Workers, RecordSuccess(w) PROVE IInv'
    <2>1. Active(w) /\ remote[run[w].exec] = "applied"
      BY <1>14 DEF RecordSuccess, Active, IInv, TriedIsMarked
    <2> QED
      BY <1>0, <1>14, <2>1, Finishes DEF RecordSuccess, Statuses
  <1>15. ASSUME NEW w \in Workers, RecordFailure(w) PROVE IInv'
    <2> DEFINE s == IF run[w].attempted THEN "needs_review" ELSE "failed"
    <2>1. Active(w) /\ (s = "failed" => remote[run[w].exec] = "untouched")
      BY <1>15
      DEF RecordFailure, Active, IInv, Untried, HasNotTried, UntriedIsUntouched
    <2>2. s \in Statuses \ {"none", "pending"} /\ s # "succeeded"
      BY DEF Statuses
    <2>3. /\ Write(run[w].exec, s)
          /\ run' = [run EXCEPT ![w] = NoRun]
          /\ UNCHANGED <<ruleState, remote, calls, operator>>
      BY <1>15 DEF RecordFailure
    <2> HIDE DEF s
    <2> QED
      BY <1>0, <2>1, <2>2, <2>3, Finishes
  <1>16. ASSUME NEW w \in Workers, Crash(w) PROVE IInv'
    <2>1. Active(w)
      BY <1>16 DEF Crash, Active
    <2> QED
      BY <1>0, <1>16, <2>1, RunOnly, IdleIsHarmless DEF Crash
  <1>17. CASE UNCHANGED vars
    BY <1>0, <1>17, RowsOnly
    DEF vars, Startable, IInv, SucceededIsApplied, ConfirmIsSeen, RemovedHasNoRow
  <1> QED
    BY <1>1, <1>2, <1>3, <1>4, <1>5, <1>6, <1>7, <1>8, <1>9, <1>10, <1>11,
       <1>12, <1>13, <1>14, <1>15, <1>16, <1>17 DEF Next, Advance

THEOREM InductiveInvariant == Spec => []IInv
  BY InitIInv, InvNext, PTL DEF Spec

(* No execution ever sends two requests. *)
THEOREM AtMostOneDispatch == Spec => []DispatchedOnce
  <1>1. IInv => DispatchedOnce
    BY DEF IInv, CallsAreSeen, DispatchedOnce
  <1> QED
    BY <1>1, InductiveInvariant, PTL

(* Whatever may be started again has left no trace remotely. *)
THEOREM ReplaysAreSafe == Spec => []ReplayableIsUntouched
  <1>1. IInv => ReplayableIsUntouched
    BY DEF IInv, Startable, StartableIsFresh, ReplayableIsUntouched
  <1> QED
    BY <1>1, InductiveInvariant, PTL

(* Success is recorded only for a change the remote system made. *)
THEOREM SuccessIsReal == Spec => []SucceededIsApplied
  BY InductiveInvariant, PTL DEF IInv

(* Nothing is sent about a ticket the remote system does not have. *)
THEOREM DependentsWait == Spec => []DependentsFollowCreate
  BY InductiveInvariant, PTL DEF IInv

-----------------------------------------------------------------------------
(* The sweeps implement RemoteOnce: claims, requests and verdicts map to its *)
(* steps, everything else to a stutter.                                      *)

LEMMA RefinesInit == Init => Promise!Init
  BY ExecutionAssumption DEF Init, Outcome, NoRow, Promise!Init

LEMMA SameOutcomes ==
  ASSUME \A e \in Executions : Outcome(e)' = Outcome(e),
         \A e \in Executions : remote'[e] = "untouched" <=> remote[e] = "untouched",
         \A e \in Executions : remote'[e] = "applied" <=> remote[e] = "applied"
  PROVE  UNCHANGED Promise!vars
  BY DEF Promise!vars

LEMMA OneOutcome ==
  ASSUME remote' = remote, NEW e \in Executions, NEW s,
         \A f \in Executions : Outcome(f)' = IF f = e THEN s ELSE Outcome(f)
  PROVE  /\ \A from : Outcome(e) = from => Promise!Moves(e, from, s)
         /\ {f \in Executions : remote'[f] # "untouched"}
              = {f \in Executions : remote[f] # "untouched"}
         /\ {f \in Executions : remote'[f] = "applied"}
              = {f \in Executions : remote[f] = "applied"}
  BY DEF Promise!Moves

Mapped(s) == CASE s = "pending" -> "wanted"
               [] s = "succeeded" -> "done"
               [] s = "failed" -> "failed"
               [] OTHER -> "open"

LEMMA OutcomeOfRow ==
  ASSUME IInv, NEW e \in Executions, exec[e].status # "none"
  PROVE  Outcome(e) = Mapped(exec[e].status)
  BY DEF IInv, RemovedHasNoRow, Outcome, Mapped

LEMMA WriteOutcome ==
  ASSUME IInv, ruleState' = ruleState, NEW e \in Executions,
         NEW s \in Statuses \ {"none"}, Write(e, s)
  PROVE  \A f \in Executions :
           Outcome(f)' = IF f = e /\ exec[e].status # "none" THEN Mapped(s)
                         ELSE Outcome(f)
  <1>1. \A f \in Executions :
          exec'[f].status = IF f = e /\ exec[e].status # "none" THEN s
                            ELSE exec[f].status
    BY DEF IInv, TypeOK, Write, Rows
  <1>2. exec[e].status # "none" => ruleState[Rule[e]] # "removed"
    BY DEF IInv, RemovedHasNoRow
  <1> QED
    BY <1>1, <1>2 DEF Outcome, Mapped

(* The last write of a sweep finishes, doubts or fails its execution. *)
LEMMA RefinesFinish ==
  ASSUME IInv, UNCHANGED <<ruleState, remote>>, NEW w \in Workers, Active(w),
         NEW s \in {"succeeded", "needs_review", "failed"},
         Write(run[w].exec, s),
         s = "succeeded" => remote[run[w].exec] = "applied",
         s = "failed" => remote[run[w].exec] = "untouched"
  PROVE  Promise!Next \/ UNCHANGED Promise!vars
  <1> DEFINE e == run[w].exec
  <1>0. e \in Executions /\ ~Startable(e)
    BY Held
  <1>1. \A f \in Executions :
          Outcome(f)' = IF f = e /\ exec[e].status # "none" THEN Mapped(s)
                        ELSE Outcome(f)
    BY <1>0, WriteOutcome DEF Statuses
  <1>2. /\ s = "succeeded" => remote[e] = "applied"
        /\ s = "failed" => remote[e] = "untouched"
    OBVIOUS
  <1>3. exec[e].status = "succeeded" => remote[e] = "applied"
    BY <1>0 DEF IInv, SucceededIsApplied
  <1>4. exec[e].status \in Statuses
    BY <1>0 DEF IInv, TypeOK, Rows
  <1> HIDE DEF e
  <1>5. CASE exec[e].status = "none" \/ Outcome(e) = Mapped(s)
    <2>1. \A f \in Executions : Outcome(f)' = Outcome(f)
      BY <1>1, <1>5
    <2> QED
      BY <2>1, SameOutcomes
  <1>6. CASE exec[e].status # "none" /\ Outcome(e) # Mapped(s)
    <2>1. \A f \in Executions : Outcome(f)' = IF f = e THEN Mapped(s) ELSE Outcome(f)
      BY <1>1, <1>6
    <2>2. exec[e].status \in {"processing", "needs_review", "succeeded"}
      BY <1>0, <1>4, <1>6 DEF Startable, Statuses
    <2>3. Outcome(e) \in {"open", "done"} /\ (Outcome(e) = "done" => remote[e] = "applied")
      BY <1>0, <1>3, <1>6, <2>2, OutcomeOfRow DEF Mapped
    <2>4. \/ s = "succeeded" /\ Outcome(e) = "open" /\ Mapped(s) = "done"
          \/ s = "failed" /\ Outcome(e) = "open" /\ Mapped(s) = "failed"
          \/ s = "needs_review" /\ Outcome(e) = "done" /\ Mapped(s) = "open"
      BY <1>2, <1>6, <2>3 DEF Mapped
    <2>5. /\ Promise!Moves(e, Outcome(e), Mapped(s))
          /\ {f \in Executions : remote'[f] # "untouched"}
              = {f \in Executions : remote[f] # "untouched"}
          /\ {f \in Executions : remote'[f] = "applied"}
              = {f \in Executions : remote[f] = "applied"}
      BY <1>0, <2>1, OneOutcome
    <2>6. Promise!Finish(e) \/ Promise!Fail(e) \/ Promise!Doubt(e)
      BY <1>0, <1>2, <2>3, <2>4, <2>5
      DEF Promise!Finish, Promise!Fail, Promise!Doubt
    <2> QED
      BY <1>0, <2>6 DEF Promise!Next
  <1> QED
    BY <1>5, <1>6

LEMMA RefinesNext == IInv /\ [Next]_vars => [Promise!Next]_(Promise!vars)
  <1> SUFFICES ASSUME IInv, [Next]_vars
               PROVE  Promise!Next \/ UNCHANGED Promise!vars
    OBVIOUS
  <1>0. TypeOK
    BY DEF IInv
  <1>1. ASSUME NEW r \in Rules, RemoveRule(r) PROVE Promise!Next
    <2> DEFINE es == {e \in Executions : Rule[e] = r}
    <2>1. \A e \in Executions :
            ruleState'[Rule[e]] = IF Rule[e] = r THEN "removed" ELSE ruleState[Rule[e]]
      BY <1>0, <1>1, ExecutionAssumption DEF RemoveRule, TypeOK
    <2>2. \A e \in Executions : Outcome(e)' = IF e \in es THEN "gone" ELSE Outcome(e)
      BY <1>1, <2>1 DEF RemoveRule, Outcome
    <2>3. Promise!Remove(es)
      BY <1>1, <2>2 DEF RemoveRule, Promise!Remove
    <2> QED
      BY <2>3 DEF Promise!Next
  <1>2. ASSUME NEW r \in Rules, NEW s \in {"enabled", "disabled"}, SetEnabled(r, s)
        PROVE UNCHANGED Promise!vars
    <2>1. \A e \in Executions : ruleState'[Rule[e]] = "removed"
                                  <=> ruleState[Rule[e]] = "removed"
      BY <1>0, <1>2, ExecutionAssumption DEF SetEnabled, TypeOK
    <2>2. \A e \in Executions : Outcome(e)' = Outcome(e)
      BY <1>2, <2>1 DEF SetEnabled, Outcome
    <2> QED
      BY <1>2, <2>2, SameOutcomes DEF SetEnabled
  <1>3. ASSUME NEW e \in Executions, HandleEvent(e)
        PROVE Promise!Next \/ UNCHANGED Promise!vars
    <2>1. CASE exec[e].status = "none"
      <3>1. /\ Outcome(e) = "absent"
            /\ \A f \in Executions : Outcome(f)' = IF f = e THEN "wanted" ELSE Outcome(f)
        BY <1>0, <1>3, <2>1 DEF HandleEvent, Inserted, NoRow, Outcome, TypeOK
      <3>2. Promise!Want(e)
        BY <1>3, <3>1, OneOutcome DEF HandleEvent, Promise!Want
      <3> QED
        BY <3>2 DEF Promise!Next
    <2>2. CASE exec[e].status # "none"
      <3>1. exec' = exec
        BY <1>0, <1>3, <2>2 DEF HandleEvent, Inserted, TypeOK
      <3> QED
        BY <1>3, <3>1, SameOutcomes DEF HandleEvent, Outcome
    <2> QED
      BY <2>1, <2>2
  <1>4. ASSUME NEW e \in Executions, GrowsStale(e) PROVE UNCHANGED Promise!vars
    <2>1. \A f \in Executions : exec'[f].status = exec[f].status
      BY <1>0, <1>4 DEF GrowsStale, TypeOK, Rows
    <2> QED
      BY <1>4, <2>1, SameOutcomes DEF GrowsStale, Outcome
  <1>5. CASE SweepStale
    <2>1. \A f \in Executions :
            \/ exec'[f].status = exec[f].status
            \/ exec[f].status = "processing" /\ exec'[f].status = "needs_review"
      BY <1>0, <1>5 DEF SweepStale, Interrupted, Reviewed, TypeOK, Rows
    <2>2. \A f \in Executions : Outcome(f)' = Outcome(f)
      BY <1>5, <2>1 DEF SweepStale, Outcome
    <2> QED
      BY <1>5, <2>2, SameOutcomes DEF SweepStale
  <1>6. ASSUME NEW e \in Executions, BeginRetry(e) \/ BeginConfirm(e)
        PROVE UNCHANGED Promise!vars
    BY <1>6, SameOutcomes DEF BeginRetry, BeginConfirm, Outcome
  <1>7. ASSUME NEW e \in Executions, CommitRetry(e)
        PROVE Promise!Next \/ UNCHANGED Promise!vars
    <2>1. CASE StillRetryable(e)
      <3>1. /\ Outcome(e) = "failed" /\ Mapped("pending") = "wanted"
            /\ exec[e].status # "none" /\ remote[e] = "untouched"
        BY <2>1, OutcomeOfRow
        DEF StillRetryable, Mapped, IInv, StartableIsFresh, Startable
      <3>2. \A f \in Executions : Outcome(f)' = IF f = e THEN "wanted" ELSE Outcome(f)
        BY <1>7, <2>1, <3>1, WriteOutcome DEF CommitRetry, Statuses
      <3>3. Promise!Retry(e)
        BY <1>7, <3>1, <3>2, OneOutcome DEF CommitRetry, Promise!Retry
      <3> QED
        BY <3>3 DEF Promise!Next
    <2>2. CASE ~StillRetryable(e)
      BY <1>7, <2>2, SameOutcomes DEF CommitRetry, Outcome
    <2> QED
      BY <2>1, <2>2
  <1>8. ASSUME NEW e \in Executions, CommitConfirm(e)
        PROVE Promise!Next \/ UNCHANGED Promise!vars
    <2>1. CASE exec[e].status = "needs_review"
      <3>1. Outcome(e) = "open" /\ Mapped("succeeded") = "done" /\ remote[e] = "applied"
        BY <1>8, <2>1, OutcomeOfRow DEF CommitConfirm, Mapped, IInv, ConfirmIsSeen
      <3>2. \A f \in Executions : Outcome(f)' = IF f = e THEN "done" ELSE Outcome(f)
        BY <1>8, <2>1, <3>1, WriteOutcome DEF CommitConfirm, Statuses
      <3>3. Promise!Finish(e)
        BY <1>8, <3>1, <3>2, OneOutcome DEF CommitConfirm, Promise!Finish
      <3> QED
        BY <3>3 DEF Promise!Next
    <2>2. CASE exec[e].status # "needs_review"
      BY <1>8, <2>2, SameOutcomes DEF CommitConfirm, Outcome
    <2> QED
      BY <2>1, <2>2
  <1>9. ASSUME NEW e \in Executions, RemoteDecides(e)
        PROVE Promise!Next \/ UNCHANGED Promise!vars
    <2>1. PICK s \in {"applied", "lost"} :
            \A f \in Executions : remote'[f] = IF f = e THEN s ELSE remote[f]
      BY <1>0, <1>9 DEF RemoteDecides, TypeOK
    <2>2. /\ remote[e] = "sent"
          /\ \A f \in Executions : Outcome(f)' = Outcome(f)
      BY <1>9 DEF RemoteDecides, Outcome
    <2>3. CASE s = "lost"
      BY <2>1, <2>2, <2>3, SameOutcomes
    <2>4. CASE s = "applied"
      <3>1. Promise!Apply(e)
        BY <2>1, <2>2, <2>4 DEF Promise!Apply
      <3> QED
        BY <3>1 DEF Promise!Next
    <2> QED
      BY <2>3, <2>4
  <1>10. ASSUME NEW w \in Workers, NEW e \in Executions, Claim(w, e)
         PROVE Promise!Next
    <2>1. Outcome(e) = "wanted" /\ Mapped("processing") = "open" /\ exec[e].status # "none"
      BY <1>10, OutcomeOfRow DEF Claim, Claimable, Mapped
    <2>2. \A f \in Executions : Outcome(f)' = IF f = e THEN "open" ELSE Outcome(f)
      BY <1>10, <2>1, WriteOutcome DEF Claim, Statuses
    <2>3. Promise!Take(e)
      BY <1>10, <2>1, <2>2, OneOutcome DEF Claim, Promise!Take
    <2> QED
      BY <2>3 DEF Promise!Next
  <1>11. ASSUME NEW w \in Workers, Dispatch(w) PROVE Promise!Next
    <2>1. Active(w) /\ Untried(w)
      BY <1>11 DEF Dispatch, Active, Untried, HasNotTried
    <2>2. PICK e \in Executions : e = run[w].exec
      BY <2>1, Held
    <2>3. ~Startable(e) /\ remote[e] = "untouched"
      BY <2>1, <2>2, Held
    <2>4. exec[e].status # "succeeded" /\ exec[e].status \in Statuses
      BY <1>0, <2>3 DEF IInv, SucceededIsApplied, TypeOK, Rows
    <2>5. Outcome(e) \in {"open", "gone"}
      BY <2>3, <2>4 DEF Outcome, Startable, Statuses
    <2>6. /\ \A f \in Executions : remote'[f] = IF f = e THEN "sent" ELSE remote[f]
          /\ \A f \in Executions : Outcome(f)' = Outcome(f)
      BY <1>0, <1>11, <2>2 DEF Dispatch, TypeOK, Outcome
    <2>7. Promise!Touch(e)
      BY <2>3, <2>5, <2>6 DEF Promise!Touch
    <2> QED
      BY <2>7 DEF Promise!Next
  <1>12. ASSUME NEW w \in Workers, RecordSuccess(w)
         PROVE Promise!Next \/ UNCHANGED Promise!vars
    <2>1. Active(w) /\ remote[run[w].exec] = "applied"
      BY <1>12 DEF RecordSuccess, Active, IInv, TriedIsMarked
    <2> QED
      BY <1>12, <2>1, RefinesFinish DEF RecordSuccess
  <1>13. ASSUME NEW w \in Workers, RecordFailure(w)
         PROVE Promise!Next \/ UNCHANGED Promise!vars
    <2> DEFINE s == IF run[w].attempted THEN "needs_review" ELSE "failed"
    <2>1. Active(w) /\ (s = "failed" => remote[run[w].exec] = "untouched")
      BY <1>13
      DEF RecordFailure, Active, IInv, Untried, HasNotTried, UntriedIsUntouched
    <2>2. s \in {"needs_review", "failed"} /\ Write(run[w].exec, s)
      BY <1>13 DEF RecordFailure
    <2> HIDE DEF s
    <2> QED
      BY <1>13, <2>1, <2>2, RefinesFinish DEF RecordFailure
  <1>14. ASSUME NEW w \in Workers,
                \/ ReadRule(w) \/ ReadLink(w) \/ PrepareFails(w)
                \/ Answer(w) \/ CallFails(w) \/ Crash(w)
         PROVE UNCHANGED Promise!vars
    BY <1>14, SameOutcomes
    DEF ReadRule, ReadLink, PrepareFails, Answer, CallFails, Crash, Outcome
  <1>15. CASE UNCHANGED vars
    BY <1>15, SameOutcomes DEF vars, Outcome
  <1> QED
    BY <1>1, <1>2, <1>3, <1>4, <1>5, <1>6, <1>7, <1>8, <1>9, <1>10, <1>11,
       <1>12, <1>13, <1>14, <1>15 DEF Next, Advance

(* Sweeps, restarts and operators together are an at-most-once service. *)
THEOREM Refinement == Spec => ImplementsRemoteOnce
  BY RefinesInit, RefinesNext, InductiveInvariant, PTL
  DEF Spec, ImplementsRemoteOnce, Promise!Spec
=============================================================================

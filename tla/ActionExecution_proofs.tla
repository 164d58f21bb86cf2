----------------------- MODULE ActionExecution_proofs -----------------------
(* For any number of executions, members, customers' messages and dashboard  *)
(* requests: an action takes effect at most once, only after an independent  *)
(* approval, its outcome is final, and a conversation says booked only of a  *)
(* booking that was made.                                                    *)
(*                                                                           *)
(* The argument: the conditional claim makes one request the only runner of  *)
(* an execution, so an execution that nobody has claimed has had no effect,  *)
(* and what the runner writes is the only outcome.                           *)
EXTENDS ActionExecution, TLAPS

Running(x) == executor[x].step \in {"run", "finish"}

KeysKnown == \A x \in Executors : executor[x].step # "idle" => executor[x].key \in Keys

OneRunner ==
  /\ \A x \in Executors : Running(x) => exec[executor[x].key].status = "executing"
  /\ \A x, y \in Executors :
       Running(x) /\ Running(y) /\ executor[x].key = executor[y].key => x = y

EffectsAgree ==
  /\ \A k \in Keys : exec[k].status \in {"none", "pending", "approved", "rejected", "expired"}
                       => effects[k] = 0
  /\ \A k \in Keys : exec[k].status = "executed" => effects[k] = 1
  /\ \A x \in Executors : executor[x].step = "run" => effects[executor[x].key] = 0
  /\ \A x \in Executors : executor[x].step = "finish" /\ executor[x].ok
                            => effects[executor[x].key] = 1

ApprovedByOthers ==
  \A k \in Keys :
    exec[k].status \in {"approved", "executing", "executed", "failed"} /\ exec[k].approval
      => exec[k].approver \in Users \ {Requester[k]}

BookersAgree ==
  \A x \in Executors : executor[x].step = "book" =>
    executor[x].key \in Slots /\ exec[executor[x].key].status = "executed"

ExecRow == [status : Status, approval : BOOLEAN, late : BOOLEAN,
            approver : Users \cup {None}]
ExecRows == [Keys -> ExecRow]
ExecutorRow ==
  [step : {"idle", "execute", "claim", "run", "finish", "book", "cancel"},
   key : Keys \cup {None}, ok : BOOLEAN]
ExecutorRows == [Executors -> ExecutorRow]

BookingKnown == conv.state = "booked" => conv.booking \in Slots

IInv ==
  /\ TypeOK
  /\ KeysKnown
  /\ EffectOnce
  /\ OneRunner
  /\ EffectsAgree
  /\ ApprovedByOthers
  /\ BookersAgree
  /\ BookedIsReal
  /\ BookingKnown

-----------------------------------------------------------------------------
LEMMA InitIInv == Init => IInv
  BY KeyAssumption, NoneAssumption, RequesterAssumption
  DEF Init, IInv, TypeOK, NoExec, NoConv, NoHandler, NoExecutor, MaxEffects, Status,
      ConvStates, KeysKnown, EffectOnce, Running, OneRunner, EffectsAgree,
      ApprovedByOthers, BookersAgree, BookedIsReal, BookingKnown

(* Whatever happens to an execution before it runs, to a request that does   *)
(* not run it, and to a conversation that is not told of it disturbs nothing. *)
Undecided == {"none", "pending", "approved"}
RowsMove ==
  \A k \in Keys :
    \/ exec'[k] = exec[k]
    \/ /\ exec[k].status \in Undecided
       /\ exec'[k].status \in {"pending", "approved", "rejected", "expired", "failed"}
       /\ exec'[k].status \in {"approved", "failed"} /\ exec'[k].approval
            => exec'[k].approver \in Users \ {Requester[k]}
RequestsMove ==
  \A x \in Executors :
    \/ executor'[x] = executor[x]
    \/ executor'[x].step = "idle"
    \/ executor'[x].step \in {"execute", "claim", "cancel"} /\ executor'[x].key \in Keys

LEMMA BeforeTheRun ==
  ASSUME IInv, TypeOK', RowsMove, RequestsMove, effects' = effects,
         conv' = conv \/ conv'.state # "booked"
  PROVE  IInv'
  <1> USE DEF IInv
  <1>1. KeysKnown'
    BY DEF TypeOK, KeysKnown, RequestsMove
  <1>2. EffectOnce'
    BY DEF EffectOnce
  <1>3. OneRunner'
    <2>1. \A x \in Executors : Running(x)' => Running(x) /\ executor'[x] = executor[x]
      BY DEF Running, RequestsMove
    <2>2. \A x \in Executors : Running(x) =>
            /\ executor[x].key \in Keys
            /\ exec'[executor[x].key] = exec[executor[x].key]
      BY DEF Running, KeysKnown, OneRunner, RowsMove, Undecided
    <2> QED
      BY <2>1, <2>2 DEF OneRunner
  <1>4. EffectsAgree'
    <2>1. \A k \in Keys : exec'[k] # exec[k] => effects[k] = 0
      BY DEF RowsMove, Undecided, EffectsAgree
    <2>2. \A k \in Keys : exec'[k] # exec[k] => exec'[k].status # "executed"
      BY DEF RowsMove
    <2>3. \A x \in Executors : executor'[x].step \in {"run", "finish"}
                                => executor'[x] = executor[x]
      BY DEF RequestsMove
    <2> QED
      BY <2>1, <2>2, <2>3 DEF EffectsAgree
  <1>5. ApprovedByOthers'
    BY DEF RowsMove, ApprovedByOthers
  <1>6. BookersAgree'
    <2>1. \A x \in Executors : executor'[x].step = "book" => executor'[x] = executor[x]
      BY DEF RequestsMove
    <2> QED
      BY <2>1, KeyAssumption DEF BookersAgree, RowsMove, Undecided
  <1>7. BookedIsReal'
    BY KeyAssumption DEF BookedIsReal, BookingKnown, RowsMove, Undecided
  <1>8. BookingKnown'
    BY DEF BookingKnown
  <1> QED
    BY <1>1, <1>2, <1>3, <1>4, <1>5, <1>6, <1>7, <1>8

(* How a request's record and an execution's row are written.                *)
LEMMA ExecutorWrite ==
  ASSUME TypeOK, NEW x \in Executors, NEW k \in Keys,
         NEW s \in {"execute", "cancel"},
         \/ executor' = [executor EXCEPT ![x] = [NoExecutor EXCEPT !.step = s, !.key = k]]
         \/ executor' = [executor EXCEPT ![x] = NoExecutor]
         \/ executor' = executor
  PROVE  executor' \in ExecutorRows /\ RequestsMove
  <1>1. /\ NoExecutor \in ExecutorRow /\ NoExecutor.step = "idle"
        /\ [NoExecutor EXCEPT !.step = s, !.key = k] \in ExecutorRow
        /\ [NoExecutor EXCEPT !.step = s, !.key = k].step = s
        /\ [NoExecutor EXCEPT !.step = s, !.key = k].key = k
    BY DEF NoExecutor, ExecutorRow
  <1>2. executor \in ExecutorRows
    BY DEF TypeOK, ExecutorRows, ExecutorRow
  <1> QED
    BY <1>1, <1>2 DEF ExecutorRows, RequestsMove

LEMMA StatusWrite ==
  ASSUME TypeOK, NEW k \in Keys, NEW s \in Status,
         exec' = [exec EXCEPT ![k].status = s]
  PROVE  /\ exec' \in ExecRows
         /\ exec'[k].status = s /\ exec'[k].approval = exec[k].approval
         /\ exec'[k].approver = exec[k].approver
         /\ \A j \in Keys \ {k} : exec'[j] = exec[j]
  <1>1. exec \in ExecRows
    BY DEF TypeOK, ExecRows, ExecRow
  <1>2. /\ exec[k] \in ExecRow
        /\ exec' = [exec EXCEPT ![k] = [exec[k] EXCEPT !.status = s]]
    BY <1>1 DEF ExecRows
  <1>3. [exec[k] EXCEPT !.status = s] \in ExecRow
    BY <1>2 DEF ExecRow
  <1> QED
    BY <1>1, <1>2, <1>3 DEF ExecRows, ExecRow

LEMMA RequestedRow ==
  ASSUME IInv, NEW k \in Keys, NEW approval \in BOOLEAN,
         exec' = Requested(k, approval)
  PROVE  exec' \in ExecRows /\ RowsMove
  <1>1. CASE exec[k].status # "none"
    BY <1>1 DEF Requested, IInv, TypeOK, ExecRows, ExecRow, RowsMove
  <1>2. CASE exec[k].status = "none"
    <2> DEFINE s == IF approval THEN "pending" ELSE "approved"
    <2>1. exec' = [exec EXCEPT ![k].status = s, ![k].approval = approval]
      BY <1>2 DEF Requested
    <2>2. exec' \in ExecRows
      <3>1. exec \in ExecRows
        BY DEF IInv, TypeOK, ExecRows, ExecRow
      <3>2. /\ exec[k] \in ExecRow
            /\ exec' = [exec EXCEPT ![k] = [exec[k] EXCEPT !.status = s,
                                                           !.approval = approval]]
        BY <2>1, <3>1 DEF ExecRows
      <3>3. [exec[k] EXCEPT !.status = s, !.approval = approval] \in ExecRow
        BY <3>2 DEF ExecRow, Status
      <3> QED
        BY <3>1, <3>2, <3>3 DEF ExecRows
    <2>3. exec'[k].status = s /\ exec'[k].approval = approval
      BY <2>1 DEF IInv, TypeOK
    <2>4. \A j \in Keys \ {k} : exec'[j] = exec[j]
      BY <2>1 DEF IInv, TypeOK
    <2> QED
      BY <1>2, <2>2, <2>3, <2>4 DEF RowsMove, Undecided
  <1> QED
    BY <1>1, <1>2

LEMMA ExpireStep ==
  ASSUME IInv, NEW k \in Keys, Expire(k)
  PROVE  IInv'
  <1>1. exec' \in ExecRows
    <2>1. exec \in ExecRows
      BY DEF IInv, TypeOK, ExecRows, ExecRow
    <2>2. [exec[k] EXCEPT !.late = TRUE] \in ExecRow
      BY <2>1 DEF ExecRows, ExecRow
    <2> QED
      BY <2>1, <2>2 DEF Expire, ExecRows
  <1>2. RowsMove
    BY DEF Expire, IInv, TypeOK, ApprovedByOthers, RowsMove, Undecided
  <1>3. RequestsMove
    BY DEF Expire, RequestsMove
  <1> QED
    BY <1>1, <1>2, <1>3, BeforeTheRun DEF Expire, IInv, TypeOK, ExecRows, ExecRow

LEMMA AskStep ==
  ASSUME IInv, NEW x \in Executors, NEW k \in Keys, NEW approval \in BOOLEAN,
         Ask(x, k, approval)
  PROVE  IInv'
  <1>1. exec' \in ExecRows /\ RowsMove
    BY RequestedRow DEF Ask
  <1>2. executor' \in ExecutorRows /\ RequestsMove
    <2>1. \/ executor' = [executor EXCEPT ![x] = [NoExecutor EXCEPT !.step = "execute",
                                                                    !.key = k]]
          \/ executor' = executor
      BY DEF Ask
    <2> QED
      BY <2>1, ExecutorWrite DEF IInv
  <1> QED
    BY <1>1, <1>2, BeforeTheRun DEF Ask, IInv, TypeOK, ExecRows, ExecRow, ExecutorRows, ExecutorRow

LEMMA ApproveStep ==
  ASSUME IInv, NEW x \in Executors, NEW k \in Keys, NEW u \in Users, Approve(x, k, u)
  PROVE  IInv'
  <1>1. exec' \in ExecRows
    <2>1. exec \in ExecRows
      BY DEF IInv, TypeOK, ExecRows, ExecRow
    <2>2. [exec[k] EXCEPT !.status = "approved", !.approver = u] \in ExecRow
      BY <2>1 DEF ExecRows, ExecRow, Status
    <2>3. exec' = [exec EXCEPT ![k] = [exec[k] EXCEPT !.status = "approved",
                                                      !.approver = u]]
      BY <2>1 DEF Approve, ExecRows
    <2> QED
      BY <2>1, <2>2, <2>3 DEF ExecRows
  <1>2. exec'[k].status = "approved" /\ exec'[k].approver = u
    BY DEF Approve, IInv, TypeOK
  <1>3. \A j \in Keys \ {k} : exec'[j] = exec[j]
    BY DEF Approve, IInv, TypeOK
  <1>4. RowsMove
    BY <1>2, <1>3 DEF RowsMove, Undecided, Approve, Independent
  <1>5. executor' \in ExecutorRows /\ RequestsMove
    BY ExecutorWrite DEF Approve, IInv
  <1> QED
    BY <1>1, <1>4, <1>5, BeforeTheRun DEF Approve, IInv, TypeOK, ExecRows, ExecRow, ExecutorRows, ExecutorRow

LEMMA RejectStep ==
  ASSUME IInv, NEW x \in Executors, NEW k \in Keys, NEW u \in Users, Reject(x, k, u)
  PROVE  IInv'
  <1>1. exec' \in ExecRows /\ exec'[k].status = "rejected"
        /\ \A j \in Keys \ {k} : exec'[j] = exec[j]
    BY StatusWrite DEF Reject, IInv, Status
  <1>2. RowsMove
    BY <1>1 DEF RowsMove, Undecided, Reject
  <1>3. executor' \in ExecutorRows /\ RequestsMove
    BY ExecutorWrite DEF Reject, IInv
  <1> QED
    BY <1>1, <1>2, <1>3, BeforeTheRun DEF Reject, IInv, TypeOK, ExecRows, ExecRow, ExecutorRows, ExecutorRow

LEMMA AskToExecuteStep ==
  ASSUME IInv, NEW x \in Executors, NEW k \in Keys, AskToExecute(x, k)
  PROVE  IInv'
  <1>1. executor' \in ExecutorRows /\ RequestsMove
    BY ExecutorWrite DEF AskToExecute, IInv
  <1> QED
    BY <1>1, BeforeTheRun DEF AskToExecute, IInv, TypeOK, ExecutorRows, ExecutorRow, RowsMove

LEMMA ReadExecutionStep ==
  ASSUME IInv, NEW x \in Executors, ReadExecution(x)
  PROVE  IInv'
  <1> DEFINE k == executor[x].key
  <1>1. k \in Keys
    BY DEF ReadExecution, IInv, KeysKnown
  <1>2. CASE exec' = exec /\ executor' = [executor EXCEPT ![x].step = "claim"]
    <2>1. executor' \in ExecutorRows /\ RequestsMove
      BY <1>1, <1>2 DEF IInv, TypeOK, ExecutorRows, ExecutorRow, RequestsMove
    <2> QED
      BY <1>2, <2>1, BeforeTheRun DEF ReadExecution, IInv, TypeOK, ExecutorRows, ExecutorRow, RowsMove
  <1>3. CASE exec' = exec /\ executor' = [executor EXCEPT ![x] = NoExecutor]
    <2>1. executor' \in ExecutorRows /\ RequestsMove
      BY <1>1, <1>3, ExecutorWrite DEF IInv
    <2> QED
      BY <1>3, <2>1, BeforeTheRun DEF ReadExecution, IInv, TypeOK, ExecutorRows, ExecutorRow, RowsMove
  <1>4. CASE /\ exec[k].status = "approved"
             /\ exec' = [exec EXCEPT ![k].status = IF exec[k].late THEN "expired"
                                                                  ELSE "failed"]
             /\ executor' = [executor EXCEPT ![x] = NoExecutor]
    <2>1. executor' \in ExecutorRows /\ RequestsMove
      BY <1>1, <1>4, ExecutorWrite DEF IInv
    <2>2. PICK s \in {"expired", "failed"} : exec' = [exec EXCEPT ![k].status = s]
      BY <1>4
    <2>3. /\ exec' \in ExecRows
          /\ exec'[k].status = s /\ exec'[k].approval = exec[k].approval
          /\ exec'[k].approver = exec[k].approver
          /\ \A j \in Keys \ {k} : exec'[j] = exec[j]
      BY <1>1, <2>2, StatusWrite DEF IInv, Status
    <2>4. RowsMove
      BY <1>1, <1>4, <2>2, <2>3 DEF RowsMove, Undecided, IInv, ApprovedByOthers
    <2> QED
      BY <2>1, <2>3, <2>4, BeforeTheRun
      DEF ReadExecution, IInv, TypeOK, ExecRows, ExecRow, ExecutorRows, ExecutorRow
  <1> QED
    BY <1>2, <1>3, <1>4 DEF ReadExecution

LEMMA ExecutorDiesStep ==
  ASSUME IInv, NEW x \in Executors, ExecutorDies(x)
  PROVE  IInv'
  <1>1. executor' \in ExecutorRows /\ RequestsMove
    BY DEF ExecutorDies, IInv, TypeOK, ExecutorRows, ExecutorRow, RequestsMove, NoExecutor
  <1> QED
    BY <1>1, BeforeTheRun DEF ExecutorDies, IInv, TypeOK, ExecutorRows, ExecutorRow, RowsMove

LEMMA SelectStep ==
  ASSUME IInv, NEW h \in Handlers, NEW k \in Slots, Select(h, k)
  PROVE  IInv'
  <1>1. exec' \in ExecRows /\ RowsMove
    BY RequestedRow, KeyAssumption DEF Select
  <1>2. handler' \in [Handlers -> [step : {"idle", "dropping", "read", "requested"},
                                   state : ConvStates, offered : SUBSET Slots,
                                   key : Slots \cup {None}]]
    BY DEF Select, NoHandler, IInv, TypeOK, ConvStates
  <1> QED
    BY <1>1, <1>2, BeforeTheRun DEF Select, IInv, TypeOK, ExecRows, ExecRow, RequestsMove

LEMMA CancelConversationStep ==
  ASSUME IInv, NEW x \in Executors, CancelConversation(x)
  PROVE  IInv'
  <1>1. executor' \in ExecutorRows /\ RequestsMove
    BY ExecutorWrite DEF CancelConversation, IInv, KeysKnown
  <1>2. conv' \in [state : ConvStates, offered : SUBSET Slots,
                   execution : Slots \cup {None}, booking : Slots \cup {None}]
    BY DEF CancelConversation, IInv, TypeOK, ConvStates
  <1>3. conv' = conv \/ conv'.state # "booked"
    BY DEF CancelConversation, IInv, TypeOK
  <1> QED
    BY <1>1, <1>2, <1>3, BeforeTheRun
    DEF CancelConversation, IInv, TypeOK, ExecutorRows, ExecutorRow, RowsMove

LEMMA HandlerStep ==
  ASSUME IInv, NEW h \in Handlers,
         \/ Receive(h) \/ Drop(h) \/ CustomerCancels(h) \/ AwaitApproval(h) \/ Leave(h)
         \/ \E free \in SUBSET Slots : Offer(h, free)
  PROVE  IInv'
  <1> DEFINE Handled == [Handlers -> [step : {"idle", "dropping", "read", "requested"},
                                      state : ConvStates, offered : SUBSET Slots,
                                      key : Slots \cup {None}]]
             Convs == [state : ConvStates, offered : SUBSET Slots,
                       execution : Slots \cup {None}, booking : Slots \cup {None}]
  <1>1. conv \in Convs /\ handler \in Handled
    BY DEF IInv, TypeOK
  <1>2. /\ NoHandler \in [step : {"idle", "dropping", "read", "requested"}, state : ConvStates,
                          offered : SUBSET Slots, key : Slots \cup {None}]
        /\ [handler EXCEPT ![h] = NoHandler] \in Handled
    BY <1>1 DEF NoHandler, ConvStates
  <1>3. conv' \in Convs /\ handler' \in Handled /\ (conv' = conv \/ conv'.state # "booked")
    <2>1. CASE Receive(h)
      <3>1. PICK step \in {"read", "dropping"} :
              /\ handler' = [handler EXCEPT ![h] =
                              [step |-> step, state |-> conv.state,
                               offered |-> conv.offered, key |-> None]]
              /\ conv' = conv
        BY <2>1 DEF Receive
      <3>2. [step |-> step, state |-> conv.state, offered |-> conv.offered, key |-> None]
              \in [step : {"idle", "dropping", "read", "requested"}, state : ConvStates,
                   offered : SUBSET Slots, key : Slots \cup {None}]
        BY <1>1
      <3> QED
        BY <1>1, <3>1, <3>2
    <2>6. CASE Drop(h)
      <3>1. conv' \in Convs /\ conv'.state = "idle"
        BY <1>1, <2>6 DEF Drop, ConvStates
      <3>2. [handler[h] EXCEPT !.step = "read", !.state = "idle", !.offered = {}]
              \in [step : {"idle", "dropping", "read", "requested"}, state : ConvStates,
                   offered : SUBSET Slots, key : Slots \cup {None}]
        BY <1>1 DEF ConvStates
      <3>3. handler' = [handler EXCEPT ![h] =
                         [handler[h] EXCEPT !.step = "read", !.state = "idle",
                                            !.offered = {}]]
        BY <1>1, <2>6 DEF Drop
      <3>4. handler' \in Handled
        BY <1>1, <3>2, <3>3
      <3> QED
        BY <3>1, <3>4
    <2>2. CASE CustomerCancels(h)
      BY <1>1, <1>2, <2>2 DEF CustomerCancels, ConvStates
    <2>3. CASE AwaitApproval(h)
      BY <1>1, <1>2, <2>3 DEF AwaitApproval, ConvStates
    <2>4. CASE Leave(h)
      BY <1>1, <1>2, <2>4 DEF Leave
    <2>5. CASE \E free \in SUBSET Slots : Offer(h, free)
      BY <1>1, <1>2, <2>5 DEF Offer, ConvStates
    <2> QED
      BY <2>1, <2>2, <2>3, <2>4, <2>5, <2>6
  <1>4. UNCHANGED <<exec, effects, executor>>
    BY DEF Receive, Drop, CustomerCancels, AwaitApproval, Leave, Offer
  <1> QED
    BY <1>3, <1>4, BeforeTheRun DEF IInv, TypeOK, RowsMove, RequestsMove

-----------------------------------------------------------------------------
(* The claim makes the request the only runner.                              *)
LEMMA ClaimStep ==
  ASSUME IInv, NEW x \in Executors, Claim(x)
  PROVE  IInv'
  <1> DEFINE k == executor[x].key
  <1>1. k \in Keys
    BY DEF Claim, IInv, KeysKnown
  <1>2. CASE exec[k].status # "approved"
    <2>1. executor' \in ExecutorRows /\ RequestsMove
      BY <1>1, <1>2, ExecutorWrite DEF Claim, IInv
    <2> QED
      BY <1>2, <2>1, BeforeTheRun
      DEF Claim, IInv, TypeOK, ExecutorRows, ExecutorRow, RowsMove
  <1>3. CASE exec[k].status = "approved"
    <2>1. /\ exec' \in ExecRows
          /\ exec'[k].status = "executing" /\ exec'[k].approval = exec[k].approval
          /\ exec'[k].approver = exec[k].approver
          /\ \A j \in Keys \ {k} : exec'[j] = exec[j]
      BY <1>1, <1>3, StatusWrite DEF Claim, IInv, Status
    <2>2. /\ executor' \in ExecutorRows
          /\ executor'[x].step = "run" /\ executor'[x].key = k
          /\ \A y \in Executors \ {x} : executor'[y] = executor[y]
      <3>1. executor \in ExecutorRows
        BY DEF IInv, TypeOK, ExecutorRows, ExecutorRow
      <3>2. /\ executor[x] \in ExecutorRow
            /\ executor' = [executor EXCEPT ![x] = [executor[x] EXCEPT !.step = "run"]]
        BY <1>3, <3>1 DEF Claim, ExecutorRows
      <3>3. [executor[x] EXCEPT !.step = "run"] \in ExecutorRow
        BY <3>2 DEF ExecutorRow
      <3> QED
        BY <3>1, <3>2, <3>3 DEF ExecutorRows, ExecutorRow
    <2>3. effects[k] = 0 /\ effects' = effects /\ conv' = conv /\ handler' = handler
      BY <1>1, <1>3 DEF Claim, IInv, EffectsAgree
    <2>4. \A y \in Executors : Running(y) => executor[y].key \in Keys \ {k}
      BY <1>3 DEF IInv, OneRunner, KeysKnown, Running
    <2>5. TypeOK'
      BY <2>1, <2>2, <2>3 DEF IInv, TypeOK, ExecRows, ExecRow, ExecutorRows, ExecutorRow
    <2>6. KeysKnown' /\ EffectOnce'
      BY <1>1, <2>2, <2>3 DEF IInv, KeysKnown, EffectOnce
    <2>7. OneRunner'
      <3>1. \A y \in Executors \ {x} :
              executor'[y] = executor[y] /\ (Running(y)' <=> Running(y))
        BY <2>2 DEF Running
      <3> QED
        BY <2>1, <2>2, <2>4, <3>1 DEF IInv, OneRunner
    <2>8. EffectsAgree'
      BY <2>1, <2>2, <2>3 DEF IInv, EffectsAgree, OneRunner, Running, KeysKnown
    <2>9. ApprovedByOthers'
      BY <1>3, <2>1 DEF IInv, ApprovedByOthers
    <2>10. BookersAgree' /\ BookedIsReal' /\ BookingKnown'
      BY <1>3, <2>1, <2>2, <2>3, KeyAssumption
      DEF IInv, BookersAgree, BookedIsReal, BookingKnown
    <2> QED
      BY <2>5, <2>6, <2>7, <2>8, <2>9, <2>10 DEF IInv
  <1> QED
    BY <1>2, <1>3

LEMMA RunStep ==
  ASSUME IInv, NEW x \in Executors, Run(x)
  PROVE  IInv'
  <1> DEFINE k == executor[x].key
  <1>1. /\ k \in Keys /\ effects[k] = 0 /\ exec[k].status = "executing"
        /\ UNCHANGED <<exec, conv, handler>>
    BY DEF Run, IInv, KeysKnown, EffectsAgree, OneRunner, Running
  <1>2. PICK ok, effect \in BOOLEAN :
          /\ ok => effect
          /\ effects' = [effects EXCEPT ![k] = IF effect THEN @ + 1 ELSE @]
          /\ executor' = [executor EXCEPT ![x].step = "finish", ![x].ok = ok]
    BY DEF Run
  <1>3. /\ effects' \in [Keys -> 0..MaxEffects]
        /\ effects'[k] = IF effect THEN 1 ELSE 0
        /\ \A j \in Keys \ {k} : effects'[j] = effects[j]
    BY <1>1, <1>2 DEF IInv, TypeOK, MaxEffects
  <1>4. /\ executor' \in ExecutorRows
        /\ executor'[x].step = "finish" /\ executor'[x].key = k /\ executor'[x].ok = ok
        /\ \A y \in Executors \ {x} : executor'[y] = executor[y]
    <2>1. executor \in ExecutorRows
      BY DEF IInv, TypeOK, ExecutorRows, ExecutorRow
    <2>2. /\ executor[x] \in ExecutorRow
          /\ executor' = [executor EXCEPT ![x] = [executor[x] EXCEPT !.step = "finish",
                                                                    !.ok = ok]]
      BY <1>2, <2>1 DEF ExecutorRows
    <2>3. [executor[x] EXCEPT !.step = "finish", !.ok = ok] \in ExecutorRow
      BY <2>2 DEF ExecutorRow
    <2> QED
      BY <2>1, <2>2, <2>3 DEF ExecutorRows, ExecutorRow
  <1>5. TypeOK'
    BY <1>1, <1>3, <1>4 DEF IInv, TypeOK, ExecutorRows, ExecutorRow
  <1>6. KeysKnown' /\ EffectOnce'
    BY <1>1, <1>3, <1>4 DEF IInv, KeysKnown, EffectOnce
  <1>7. OneRunner'
    <2>1. Running(x) /\ Running(x)'
      BY <1>4 DEF Running, Run
    <2>2. \A y \in Executors : /\ Running(y)' <=> Running(y)
                              /\ executor'[y].key = executor[y].key
      <3>1. \A y \in Executors \ {x} : /\ Running(y)' <=> Running(y)
                                      /\ executor'[y].key = executor[y].key
        BY <1>4 DEF Running
      <3> QED
        BY <1>4, <2>1, <3>1
    <2> QED
      BY <1>1, <2>2 DEF IInv, OneRunner
  <1>8. EffectsAgree'
    <2>1. \A y \in Executors \ {x} : executor[y].step \in {"run", "finish"}
                                     => executor[y].key \in Keys \ {k}
      BY DEF IInv, OneRunner, KeysKnown, Running, Run
    <2>2. \A j \in Keys : exec[j].status \in {"none", "pending", "approved", "rejected", "expired"}
                            \/ exec[j].status = "executed"
                         => effects'[j] = effects[j]
      BY <1>1, <1>3
    <2>3. \A y \in Executors \ {x} : executor'[y].step \in {"run", "finish"}
                                     => effects'[executor'[y].key] = effects[executor[y].key]
      BY <1>3, <1>4, <2>1
    <2>4. executor'[x].ok => effects'[executor'[x].key] = 1
      BY <1>2, <1>3, <1>4
    <2> QED
      BY <1>1, <1>4, <2>2, <2>3, <2>4 DEF IInv, EffectsAgree
  <1>9. ApprovedByOthers' /\ BookersAgree' /\ BookedIsReal' /\ BookingKnown'
    BY <1>1, <1>3, <1>4, KeyAssumption
    DEF IInv, ApprovedByOthers, BookersAgree, BookedIsReal, BookingKnown
  <1> QED
    BY <1>5, <1>6, <1>7, <1>8, <1>9 DEF IInv

(* Its outcome is written to the row it still holds.                         *)
LEMMA FinishStep ==
  ASSUME IInv, NEW x \in Executors, Finish(x)
  PROVE  IInv'
  <1> DEFINE k == executor[x].key
             s == IF executor[x].ok THEN "executed" ELSE "failed"
  <1>1. /\ k \in Keys /\ exec[k].status = "executing"
        /\ UNCHANGED <<effects, conv, handler>>
    BY DEF Finish, IInv, KeysKnown, OneRunner, Running
  <1>2. /\ exec' \in ExecRows
        /\ exec'[k].status = s /\ exec'[k].approval = exec[k].approval
        /\ exec'[k].approver = exec[k].approver
        /\ \A j \in Keys \ {k} : exec'[j] = exec[j]
    <2>1. exec' = [exec EXCEPT ![k].status = s]
      BY <1>1 DEF Finish
    <2> QED
      BY <1>1, <2>1, StatusWrite DEF IInv, Status
  <1>3. s = "executed" => effects[k] = 1
    BY DEF Finish, IInv, EffectsAgree
  <1>4. /\ executor' \in ExecutorRows
        /\ \A y \in Executors \ {x} : executor'[y] = executor[y]
        /\ \/ executor'[x].step = "idle"
           \/ /\ executor'[x].step = "book" /\ executor'[x].key = k
              /\ k \in Slots /\ s = "executed"
    <2>1. executor \in ExecutorRows
      BY DEF IInv, TypeOK, ExecutorRows, ExecutorRow
    <2>2. CASE s = "executed" /\ k \in Slots
      <3>1. /\ executor[x] \in ExecutorRow
            /\ executor' = [executor EXCEPT ![x] = [executor[x] EXCEPT !.step = "book"]]
        BY <1>2, <2>1, <2>2 DEF Finish, ExecutorRows
      <3>2. [executor[x] EXCEPT !.step = "book"] \in ExecutorRow
        BY <3>1 DEF ExecutorRow
      <3> QED
        BY <2>1, <2>2, <3>1, <3>2 DEF ExecutorRows, ExecutorRow
    <2>3. CASE ~(s = "executed" /\ k \in Slots)
      <3>1. executor' = [executor EXCEPT ![x] = NoExecutor]
        BY <1>2, <2>3 DEF Finish
      <3>2. NoExecutor \in ExecutorRow /\ NoExecutor.step = "idle"
        BY DEF NoExecutor, ExecutorRow
      <3> QED
        BY <2>1, <3>1, <3>2 DEF ExecutorRows
    <2> QED
      BY <2>2, <2>3
  <1>5. \A y \in Executors \ {x} : Running(y) => executor[y].key \in Keys \ {k}
    BY DEF IInv, OneRunner, KeysKnown, Running, Finish
  <1>6. TypeOK'
    BY <1>1, <1>2, <1>4 DEF IInv, TypeOK, ExecRows, ExecRow, ExecutorRows, ExecutorRow
  <1>7. KeysKnown' /\ EffectOnce'
    BY <1>1, <1>4 DEF IInv, KeysKnown, EffectOnce
  <1>8. OneRunner'
    <2>1. \A y \in Executors : Running(y)' => y # x /\ Running(y) /\ executor'[y] = executor[y]
      BY <1>4 DEF Running
    <2> QED
      BY <1>2, <1>5, <2>1 DEF IInv, OneRunner
  <1>9. EffectsAgree'
    BY <1>1, <1>2, <1>3, <1>4 DEF IInv, EffectsAgree
  <1>10. ApprovedByOthers'
    BY <1>1, <1>2 DEF IInv, ApprovedByOthers
  <1>11. BookersAgree' /\ BookedIsReal' /\ BookingKnown'
    BY <1>1, <1>2, <1>4, KeyAssumption
    DEF IInv, BookersAgree, BookedIsReal, BookingKnown
  <1> QED
    BY <1>6, <1>7, <1>8, <1>9, <1>10, <1>11 DEF IInv

LEMMA BookConversationStep ==
  ASSUME IInv, NEW x \in Executors, BookConversation(x)
  PROVE  IInv'
  <1> DEFINE k == executor[x].key
  <1>1. /\ k \in Slots /\ exec[k].status = "executed" /\ effects[k] = 1
        /\ UNCHANGED <<exec, effects, handler>>
    BY KeyAssumption DEF BookConversation, IInv, BookersAgree, EffectsAgree
  <1>2. executor' \in ExecutorRows /\ RequestsMove
    BY <1>1, KeyAssumption, ExecutorWrite DEF BookConversation, IInv
  <1>3. CASE conv.execution # k
    BY <1>1, <1>2, <1>3, BeforeTheRun
    DEF BookConversation, IInv, TypeOK, ExecutorRows, ExecutorRow, RowsMove
  <1>4. CASE conv.execution = k
    <2>1. conv' = [conv EXCEPT !.state = "booked", !.booking = k]
      BY <1>4 DEF BookConversation
    <2>2. /\ conv' \in [state : ConvStates, offered : SUBSET Slots,
                        execution : Slots \cup {None}, booking : Slots \cup {None}]
          /\ conv'.booking = k /\ conv'.execution = k
      BY <1>1, <1>4, <2>1 DEF IInv, TypeOK, ConvStates
    <2>3. TypeOK'
      BY <1>1, <1>2, <2>2 DEF IInv, TypeOK, ExecutorRows, ExecutorRow
    <2>4. KeysKnown' /\ OneRunner' /\ EffectsAgree'
      BY <1>1, <1>2 DEF IInv, KeysKnown, OneRunner, Running, EffectsAgree, RequestsMove
    <2>5. EffectOnce' /\ ApprovedByOthers' /\ BookersAgree'
      BY <1>1, <1>2 DEF IInv, EffectOnce, ApprovedByOthers, BookersAgree, RequestsMove
    <2>6. BookedIsReal' /\ BookingKnown'
      BY <1>1, <2>2 DEF BookedIsReal, BookingKnown
    <2> QED
      BY <2>3, <2>4, <2>5, <2>6 DEF IInv
  <1> QED
    BY <1>3, <1>4

LEMMA NextIInv == IInv /\ [Next]_vars => IInv'
  <1> SUFFICES ASSUME IInv, [Next]_vars PROVE IInv'
    OBVIOUS
  <1>1. CASE \E k \in Keys : Expire(k)
    BY <1>1, ExpireStep
  <1>2. ASSUME NEW x \in Executors,
               \/ CancelConversation(x) \/ ReadExecution(x) \/ Claim(x) \/ Run(x)
               \/ Finish(x) \/ BookConversation(x) \/ ExecutorDies(x)
        PROVE  IInv'
    BY <1>2, CancelConversationStep, ReadExecutionStep, ClaimStep, RunStep, FinishStep,
       BookConversationStep, ExecutorDiesStep
  <1>3. ASSUME NEW x \in Executors, NEW k \in Keys,
               \/ AskToExecute(x, k)
               \/ \E approval \in BOOLEAN : Ask(x, k, approval)
               \/ \E u \in Users : Approve(x, k, u) \/ Reject(x, k, u)
        PROVE  IInv'
    BY <1>3, AskToExecuteStep, AskStep, ApproveStep, RejectStep
  <1>4. ASSUME NEW h \in Handlers, NEW k \in Slots, Select(h, k)
        PROVE  IInv'
    BY <1>4, SelectStep
  <1>5. ASSUME NEW h \in Handlers,
               \/ Receive(h) \/ Drop(h) \/ CustomerCancels(h) \/ AwaitApproval(h) \/ Leave(h)
               \/ \E free \in SUBSET Slots : Offer(h, free)
        PROVE  IInv'
    BY <1>5, HandlerStep
  <1>6. CASE UNCHANGED vars
    BY <1>6
    DEF vars, IInv, TypeOK, KeysKnown, EffectOnce, OneRunner, Running, EffectsAgree,
        ApprovedByOthers, BookersAgree, BookedIsReal, BookingKnown
  <1> QED
    BY <1>1, <1>2, <1>3, <1>4, <1>5, <1>6 DEF Next

-----------------------------------------------------------------------------
(* The inductive invariant holds in every reachable state.                   *)
LEMMA Inductive == Spec => []IInv
  BY InitIInv, NextIInv, PTL DEF Spec

(* Every reachable state is well typed.                                      *)
THEOREM TypeCorrect == Spec => []TypeOK
  <1>1. IInv => TypeOK
    BY DEF IInv
  <1> QED
    BY <1>1, Inductive, PTL

(* A tool takes effect at most once for each execution: execute may be asked *)
(* any number of times, but one request's claim is the only one.             *)
THEOREM AtMostOneEffect == Spec => []EffectOnce
  <1>1. IInv => EffectOnce
    BY DEF IInv
  <1> QED
    BY <1>1, Inductive, PTL

(* Nothing takes effect unless somebody other than its requester approved it *)
(* (assertIndependentDecision), or its tool needs no approval.               *)
THEOREM EffectsNeedApproval == Spec => []EffectsAreApproved
  <1>1. IInv => EffectsAreApproved
    <2> SUFFICES ASSUME IInv, NEW k \in Keys, effects[k] > 0
                 PROVE  /\ exec[k].status \in {"executing", "executed", "failed"}
                        /\ exec[k].approval => exec[k].approver \in Users \ {Requester[k]}
      BY DEF EffectsAreApproved
    <2>1. exec[k].status \in {"executing", "executed", "failed"}
      <3>1. exec[k].status \in Status
        BY DEF IInv, TypeOK
      <3>2. effects[k] # 0
        OBVIOUS
      <3> QED
        BY <3>1, <3>2 DEF IInv, EffectsAgree, Status
    <2> QED
      BY <2>1 DEF IInv, ApprovedByOthers
  <1> QED
    BY <1>1, Inductive, PTL

(* A conversation says booked only of the booking it waited for, and that    *)
(* booking was made once.                                                    *)
THEOREM BookingsAreReal == Spec => []BookedIsReal
  <1>1. IInv => BookedIsReal
    BY DEF IInv
  <1> QED
    BY <1>1, Inductive, PTL

(* Executed, failed, rejected and expired executions never change again.     *)
THEOREM FinalOutcomes == Spec => OutcomesAreFinal
  <1>1. ASSUME IInv, [Next]_vars, NEW k \in Keys, exec[k].status \in Terminal
        PROVE  exec'[k] = exec[k]
    <2>1. CASE UNCHANGED vars
      BY <2>1 DEF vars
    <2>2. ASSUME NEW j \in Keys, Expire(j)
          PROVE  exec'[k] = exec[k]
      BY <1>1, <2>2 DEF Expire, Terminal, IInv, TypeOK
    <2>3. ASSUME NEW x \in Executors,
                 \/ CancelConversation(x) \/ Run(x) \/ BookConversation(x)
                 \/ ExecutorDies(x) \/ \E j \in Keys : AskToExecute(x, j)
          PROVE  exec'[k] = exec[k]
      BY <2>3 DEF CancelConversation, Run, BookConversation, ExecutorDies, AskToExecute
    <2>4. ASSUME NEW x \in Executors, ReadExecution(x) \/ Claim(x) \/ Finish(x)
          PROVE  exec'[k] = exec[k]
      BY <1>1, <2>4 DEF ReadExecution, Claim, Finish, Terminal, IInv, TypeOK
    <2>5. ASSUME NEW x \in Executors, NEW j \in Keys, NEW u \in Users,
                 Approve(x, j, u) \/ Reject(x, j, u)
          PROVE  exec'[k] = exec[k]
      BY <1>1, <2>5 DEF Approve, Reject, Terminal, IInv, TypeOK
    <2>6. ASSUME NEW j \in Keys, NEW approval \in BOOLEAN, exec' = Requested(j, approval)
          PROVE  exec'[k] = exec[k]
      BY <1>1, <2>6 DEF Requested, Terminal, IInv, TypeOK
    <2>7. ASSUME NEW x \in Executors, NEW j \in Keys, NEW approval \in BOOLEAN,
                 Ask(x, j, approval)
          PROVE  exec'[k] = exec[k]
      BY <2>6, <2>7 DEF Ask
    <2>8. ASSUME NEW h \in Handlers, NEW j \in Slots, Select(h, j)
          PROVE  exec'[k] = exec[k]
      BY <2>6, <2>8, KeyAssumption DEF Select
    <2>9. ASSUME NEW h \in Handlers,
                 \/ Receive(h) \/ Drop(h) \/ CustomerCancels(h) \/ AwaitApproval(h) \/ Leave(h)
                 \/ \E free \in SUBSET Slots : Offer(h, free)
          PROVE  exec'[k] = exec[k]
      BY <2>9 DEF Receive, Drop, CustomerCancels, AwaitApproval, Leave, Offer
    <2> QED
      BY <1>1, <2>1, <2>2, <2>3, <2>4, <2>5, <2>7, <2>8, <2>9 DEF Next
  <1>2. IInv /\ [Next]_vars
          => [\A k \in Keys : exec[k].status \in Terminal => exec'[k] = exec[k]]_vars
    BY <1>1
  <1> QED
    BY <1>2, Inductive, PTL DEF Spec, OutcomesAreFinal
=============================================================================

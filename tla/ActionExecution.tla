-------------------------- MODULE ActionExecution --------------------------
(* The actions that wait for a human decision: the action_executions rows   *)
(* of one organization, the requests that decide and execute them, and the  *)
(* scheduling state of one conversation, whose customer selects a slot, may *)
(* change their mind, and is told when the booking was made.                *)
(*                                                                          *)
(* Each statement commits on its own.  A row is identified by its           *)
(* idempotency key; the key of a conversation's booking is its slot.        *)
EXTENDS Naturals, FiniteSets

CONSTANTS Keys,       \* idempotency keys of executions
          Slots,      \* those that are slots the conversation may offer
          Users,      \* members who may decide
          Requester,  \* who asked for each key that is not a slot
          Handlers,   \* requests that handle a message of the customer
          Executors,  \* requests of the dashboard
          None

ASSUME KeyAssumption == Slots \subseteq Keys
ASSUME NoneAssumption == None \notin Keys \cup Users
ASSUME RequesterAssumption ==
  /\ Requester \in [Keys -> Users \cup {None}]
  /\ \A k \in Slots : Requester[k] = None

VARIABLES exec,      \* the action_executions rows
          effects,   \* how often the tool of each execution took effect
          conv,      \* the conversation_scheduling_states row
          handler,   \* what each handler of a message is doing
          executor   \* what each request of the dashboard is doing

vars == <<exec, effects, conv, handler, executor>>

Status == {"none", "pending", "approved", "executing",
           "executed", "failed", "rejected", "expired"}
Terminal == {"executed", "failed", "rejected", "expired"}
ConvStates == {"none", "idle", "offered", "approval_pending", "booked", "cancelled"}

NoExec == [status |-> "none", approval |-> TRUE, late |-> FALSE, approver |-> None]
MaxEffects == 2
NoConv == [state |-> "none", offered |-> {}, execution |-> None, booking |-> None]
NoHandler == [step |-> "idle", state |-> "none", offered |-> {}, key |-> None]
NoExecutor == [step |-> "idle", key |-> None, ok |-> FALSE]

TypeOK ==
  /\ exec \in [Keys -> [status : Status, approval : BOOLEAN, late : BOOLEAN,
                        approver : Users \cup {None}]]
  /\ effects \in [Keys -> 0..MaxEffects]
  /\ conv \in [state : ConvStates, offered : SUBSET Slots,
               execution : Slots \cup {None}, booking : Slots \cup {None}]
  /\ handler \in [Handlers -> [step : {"idle", "dropping", "read", "requested"},
                               state : ConvStates, offered : SUBSET Slots,
                               key : Slots \cup {None}]]
  /\ executor \in [Executors ->
        [step : {"idle", "execute", "claim", "run", "finish", "book", "cancel"},
         key : Keys \cup {None}, ok : BOOLEAN]]

Init ==
  /\ exec = [k \in Keys |-> NoExec]
  /\ effects = [k \in Keys |-> 0]
  /\ conv = NoConv
  /\ handler = [h \in Handlers |-> NoHandler]
  /\ executor = [x \in Executors |-> NoExecutor]

-----------------------------------------------------------------------------
(* request: a key that is known is answered with the row it has, whatever    *)
(* became of it.                                                             *)
Requested(k, approval) ==
  IF exec[k].status # "none" THEN exec
  ELSE [exec EXCEPT ![k].status = IF approval THEN "pending" ELSE "approved",
                    ![k].approval = approval]

(* POST /executions: a member asks.  The new execution of a tool that needs  *)
(* no approval is approved and executed at once, and so is one that another  *)
(* request inserts between the lookup of the key and the insert.             *)
Ask(x, k, approval) ==
  /\ executor[x].step = "idle" /\ k \notin Slots
  /\ exec' = Requested(k, approval)
  /\ executor' \in {executor} \cup
       IF exec'[k].approval THEN {}
       ELSE {[executor EXCEPT ![x] = [NoExecutor EXCEPT !.step = "execute", !.key = k]]}
  /\ UNCHANGED <<effects, conv, handler>>

(* The execution runs out of its 30 minutes.                                 *)
Expire(k) ==
  /\ exec[k].status \in {"pending", "approved"} /\ ~exec[k].late
  /\ exec' = [exec EXCEPT ![k].late = TRUE]
  /\ UNCHANGED <<effects, conv, handler, executor>>

(* assertIndependentDecision                                                 *)
Anybody(k, u) == TRUE                                               \* defect
Independent(k, u) == Requester[k] # u

(* POST /executions/:id/approve approves and then executes.                  *)
Approve(x, k, u) ==
  /\ executor[x].step = "idle"
  /\ Independent(k, u)
  /\ exec[k].status = "pending" /\ ~exec[k].late
  /\ exec' = [exec EXCEPT ![k].status = "approved", ![k].approver = u]
  /\ executor' = [executor EXCEPT ![x] = [NoExecutor EXCEPT !.step = "execute",
                                                            !.key = k]]
  /\ UNCHANGED <<effects, conv, handler>>

(* reject: the execution, and in a second statement the conversation.        *)
Reject(x, k, u) ==
  /\ executor[x].step = "idle"
  /\ Independent(k, u)
  /\ exec[k].status = "pending"
  /\ exec' = [exec EXCEPT ![k].status = "rejected"]
  /\ executor' = [executor EXCEPT ![x] = [NoExecutor EXCEPT !.step = "cancel",
                                                            !.key = k]]
  /\ UNCHANGED <<effects, conv, handler>>

RejectConversation(x) ==           \* defect: it takes the execution's status
  /\ executor[x].step = "cancel"
  /\ conv' = IF conv.execution = executor[x].key
             THEN [conv EXCEPT !.state = "rejected"] ELSE conv
  /\ executor' = [executor EXCEPT ![x] = NoExecutor]
  /\ UNCHANGED <<exec, effects, handler>>
CancelConversation(x) ==
  /\ executor[x].step = "cancel"
  /\ conv' = IF conv.execution = executor[x].key
             THEN [conv EXCEPT !.state = "cancelled"] ELSE conv
  /\ executor' = [executor EXCEPT ![x] = NoExecutor]
  /\ UNCHANGED <<exec, effects, handler>>

-----------------------------------------------------------------------------
(* execute                                                                   *)
AskToExecute(x, k) ==
  /\ executor[x].step = "idle" /\ exec[k].status # "none"
  /\ executor' = [executor EXCEPT ![x] = [NoExecutor EXCEPT !.step = "execute",
                                                            !.key = k]]
  /\ UNCHANGED <<exec, effects, conv, handler>>

(* It reads the row; only an approved one that has not expired goes on.  The *)
(* tool may refuse its input.                                                *)
ReadExecution(x) ==
  LET k == executor[x].key IN
  /\ executor[x].step = "execute"
  /\ \/ /\ exec[k].status = "approved" /\ ~exec[k].late
        /\ executor' = [executor EXCEPT ![x].step = "claim"]
        /\ UNCHANGED exec
     \/ /\ exec[k].status = "approved"
        /\ exec' = [exec EXCEPT ![k].status = IF exec[k].late THEN "expired"
                                                             ELSE "failed"]
        /\ executor' = [executor EXCEPT ![x] = NoExecutor]
     \/ /\ exec[k].status # "approved"
        /\ executor' = [executor EXCEPT ![x] = NoExecutor]
        /\ UNCHANGED exec
  /\ UNCHANGED <<effects, conv, handler>>

ClaimUnchecked(x) ==               \* defect: the claim is not conditional
  /\ executor[x].step = "claim"
  /\ exec' = [exec EXCEPT ![executor[x].key].status = "executing"]
  /\ executor' = [executor EXCEPT ![x].step = "run"]
  /\ UNCHANGED <<effects, conv, handler>>
Claim(x) ==
  LET k == executor[x].key IN
  /\ executor[x].step = "claim"
  /\ IF exec[k].status = "approved"
     THEN /\ exec' = [exec EXCEPT ![k].status = "executing"]
          /\ executor' = [executor EXCEPT ![x].step = "run"]
     ELSE UNCHANGED exec /\ executor' = [executor EXCEPT ![x] = NoExecutor]
  /\ UNCHANGED <<effects, conv, handler>>

(* The tool: it may fail, and a failed one may have taken effect remotely.   *)
Run(x) ==
  LET k == executor[x].key IN
  /\ executor[x].step = "run"
  /\ effects[k] < MaxEffects
  /\ \E ok, effect \in BOOLEAN :
       /\ ok => effect
       /\ effects' = [effects EXCEPT ![k] = IF effect THEN @ + 1 ELSE @]
       /\ executor' = [executor EXCEPT ![x].step = "finish", ![x].ok = ok]
  /\ UNCHANGED <<exec, conv, handler>>

(* The outcome is written if the row is still executing; a booking that was  *)
(* made is then told to the conversation that waits for it.                  *)
Finish(x) ==
  LET k == executor[x].key IN
  /\ executor[x].step = "finish"
  /\ exec' = IF exec[k].status # "executing" THEN exec
             ELSE [exec EXCEPT ![k].status = IF executor[x].ok THEN "executed"
                                                               ELSE "failed"]
  /\ executor' = IF exec'[k].status = "executed" /\ executor[x].ok /\ k \in Slots
                 THEN [executor EXCEPT ![x].step = "book"]
                 ELSE [executor EXCEPT ![x] = NoExecutor]
  /\ UNCHANGED <<effects, conv, handler>>

BookWhateverWaits(x) ==            \* defect: the waiting execution is not asked
  /\ executor[x].step = "book"
  /\ conv' = [conv EXCEPT !.state = "booked", !.booking = executor[x].key]
  /\ executor' = [executor EXCEPT ![x] = NoExecutor]
  /\ UNCHANGED <<exec, effects, handler>>
BookConversation(x) ==
  LET k == executor[x].key IN
  /\ executor[x].step = "book"
  /\ conv' = IF conv.execution = k
             THEN [conv EXCEPT !.state = "booked", !.booking = k] ELSE conv
  /\ executor' = [executor EXCEPT ![x] = NoExecutor]
  /\ UNCHANGED <<exec, effects, handler>>

ExecutorDies(x) ==
  /\ executor[x].step # "idle"
  /\ executor' = [executor EXCEPT ![x] = NoExecutor]
  /\ UNCHANGED <<exec, effects, conv, handler>>

-----------------------------------------------------------------------------
(* ConversationSchedulingService.handle reads the state once.                *)
Receive(h) ==
  /\ handler[h].step = "idle"
  /\ \E step \in {"read"} \cup IF conv.state = "offered" THEN {"dropping"} ELSE {} :
       handler' = [handler EXCEPT ![h] = [step |-> step, state |-> conv.state,
                                          offered |-> conv.offered, key |-> None]]
  /\ UNCHANGED <<exec, effects, conv, executor>>

(* An offer that had run out when it was read is dropped, whatever the row   *)
(* says by now.                                                              *)
Drop(h) ==
  /\ handler[h].step = "dropping"
  /\ conv' = [conv EXCEPT !.state = "idle", !.offered = {}]
  /\ handler' = [handler EXCEPT ![h].step = "read", ![h].state = "idle",
                                ![h].offered = {}]
  /\ UNCHANGED <<exec, effects, executor>>

(* The customer cancels; the execution that waits is not told.               *)
CustomerCancels(h) ==
  /\ handler[h].step = "read" /\ handler[h].state \notin {"none", "booked"}
  /\ conv' = [conv EXCEPT !.state = "cancelled", !.offered = {}]
  /\ handler' = [handler EXCEPT ![h] = NoHandler]
  /\ UNCHANGED <<exec, effects, executor>>

(* The customer asks for a meeting, and free slots are found.  A first offer *)
(* is inserted, and a conversation has one row.                              *)
Offer(h, free) ==
  /\ handler[h].step = "read"
  /\ handler[h].state \notin {"approval_pending", "offered"}
  /\ handler[h].state = "none" => conv.state = "none"
  /\ free # {}
  /\ conv' = [conv EXCEPT !.state = "offered", !.offered = free]
  /\ handler' = [handler EXCEPT ![h] = NoHandler]
  /\ UNCHANGED <<exec, effects, executor>>

(* The customer selects a slot: the action is requested ...                  *)
Select(h, k) ==
  /\ handler[h].step = "read" /\ handler[h].state = "offered"
  /\ k \in handler[h].offered
  /\ exec' = Requested(k, TRUE)
  /\ handler' = [handler EXCEPT ![h] = [NoHandler EXCEPT !.step = "requested",
                                                         !.key = k]]
  /\ UNCHANGED <<effects, conv, executor>>

(* ... and then the conversation waits for it.                               *)
AwaitApproval(h) ==
  /\ handler[h].step = "requested"
  /\ conv' = [conv EXCEPT !.state = "approval_pending",
                          !.execution = handler[h].key]
  /\ handler' = [handler EXCEPT ![h] = NoHandler]
  /\ UNCHANGED <<exec, effects, executor>>

(* Any other message changes nothing, and so does a handler that dies.       *)
Leave(h) ==
  /\ handler[h].step # "idle"
  /\ handler' = [handler EXCEPT ![h] = NoHandler]
  /\ UNCHANGED <<exec, effects, conv, executor>>

-----------------------------------------------------------------------------
Next ==
  \/ \E k \in Keys : Expire(k)
  \/ \E x \in Executors :
       \/ CancelConversation(x) \/ ReadExecution(x) \/ Claim(x) \/ Run(x)
       \/ Finish(x) \/ BookConversation(x) \/ ExecutorDies(x)
       \/ \E k \in Keys :
            \/ AskToExecute(x, k)
            \/ \E approval \in BOOLEAN : Ask(x, k, approval)
            \/ \E u \in Users : Approve(x, k, u) \/ Reject(x, k, u)
  \/ \E h \in Handlers :
       \/ Receive(h) \/ Drop(h) \/ CustomerCancels(h) \/ AwaitApproval(h)
       \/ Leave(h)
       \/ \E free \in SUBSET Slots : Offer(h, free)
       \/ \E k \in Slots : Select(h, k)

Spec == Init /\ [][Next]_vars

-----------------------------------------------------------------------------
(* However many requests execute an approved action, and however they        *)
(* interleave or die, its tool takes effect at most once.                    *)
EffectOnce == \A k \in Keys : effects[k] <= 1

(* A write takes effect only after somebody other than its requester         *)
(* approved it, and never if it was rejected or has expired.                 *)
EffectsAreApproved ==
  \A k \in Keys : effects[k] > 0 =>
    /\ exec[k].status \in {"executing", "executed", "failed"}
    /\ exec[k].approval => exec[k].approver \in Users \ {Requester[k]}

(* A conversation that says booked has the booking of the action it waited   *)
(* for.                                                                      *)
BookedIsReal ==
  conv.state = "booked" =>
    /\ conv.booking = conv.execution
    /\ exec[conv.booking].status = "executed" /\ effects[conv.booking] = 1

(* A decision or an outcome is final: no late answer, repeated request or    *)
(* dead process reopens it.                                                  *)
OutcomesAreFinal ==
  [][\A k \in Keys : exec[k].status \in Terminal => exec'[k] = exec[k]]_vars

(* What the customer is told: once scheduling was cancelled nothing is       *)
(* booked, unless a slot is selected again.                                  *)
CancelledStaysCancelled ==
  [][conv.state = "cancelled" => conv'.state # "booked"]_vars
=============================================================================

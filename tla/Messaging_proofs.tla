--------------------------- MODULE Messaging_proofs ---------------------------
(* Proofs about the conversations and about the webhook outbox, for any       *)
(* number of messages, members, tickets, events, workers, attempts and deaths. *)
(*                                                                            *)
(* A conversation has one open escalation at a time, and no assignment steals *)
(* it: a ticket is opened only where the unique index sees no other open one; *)
(* and an assignment that was allowed when it read the owner is still allowed *)
(* when it writes, because it writes only if the owner is the one it read.    *)
(*                                                                            *)
(* What is delivered or given up stays so: outcomes are written only to a row *)
(* that is under way and only an unfinished row is claimed, so no lease is    *)
(* needed for it.  And no delivery is attempted without end.                  *)
EXTENDS Conversations, Webhooks, SequenceTheorems, FiniteSetTheorems, TLAPS

-----------------------------------------------------------------------------
(* Conversations.                                                            *)

(* Whoever assigns read a state, and is an administrator or read itself or    *)
(* nobody as owner.                                                           *)
MayWrite(a, r) == r.step = "assigning" =>
  r.state \in States /\ (a \in Admins \/ r.owner \in {None, a})
AssignersMay == \A a \in Agents : MayWrite(a, agent[a])

IInv ==
  /\ TypeOK
  /\ OneOpenEscalation
  /\ AssignersMay

Convs == [state : States, owner : Owners]
Requests == [step : {"idle", "taking", "assigning", "writing"},
             state : States \cup {None}, owner : Owners, to : Owners, reply : BOOLEAN]
Steps == {"idle", "reopening_closed", "reopening_resolved", "thinking", "failed",
          "inserting_failed", "inserting", "waiting"}

-----------------------------------------------------------------------------
(* At first there is no ticket and no request.                               *)
LEMMA InitIInv == Init => IInv
  BY BoundAssumption
  DEF Init, IInv, TypeOK, NoRequest, Owners, States, OneOpenEscalation, Open, AssignersMay,
      MayWrite

(* A step that leaves the tickets and the requests alone. *)
LEMMA QuietStep ==
  ASSUME IInv, conv' \in Convs, message' \in [Messages -> Steps], UNCHANGED <<tickets, agent>>
  PROVE  IInv'
  BY DEF IInv, TypeOK, Convs, Steps, OneOpenEscalation, Open, AssignersMay

(* A step of a message leads to a step.                                      *)
LEMMA MessageWrite ==
  ASSUME TypeOK, NEW m \in Messages, NEW from, NEW to \in Steps, Step(m, from, to)
  PROVE  message' \in [Messages -> Steps]
  BY DEF Step, TypeOK, Steps

(* The customer's message moves the state at most. *)
LEMMA MessageStep ==
  ASSUME IInv, NEW m \in Messages,
         Receive(m) \/ Reopen(m) \/ Answer(m) \/ Fail(m) \/ LookUpTicket(m) \/ Wait(m) \/ Abandon(m)
  PROVE  IInv'
  <1>1. PICK to \in Steps : message' = [message EXCEPT ![m] = to]
    BY DEF Receive, Reopen, Answer, Fail, LookUpTicket, Wait, Abandon, Step, Steps
  <1>2. message' \in [Messages -> Steps]
    BY <1>1 DEF IInv, TypeOK, Steps
  <1>3. conv' = conv \/ \E s \in States : conv' = [conv EXCEPT !.state = s]
    BY DEF Receive, Reopen, Answer, Fail, LookUpTicket, Wait, Abandon, States
  <1>4. conv' \in Convs
    BY <1>3 DEF IInv, TypeOK, Convs
  <1>5. UNCHANGED <<tickets, agent>>
    BY DEF Receive, Reopen, Answer, Fail, LookUpTicket, Wait, Abandon
  <1> QED
    BY <1>2, <1>4, <1>5, QuietStep

(* A ticket is inserted where no other is open.                              *)
LEMMA InsertTicketStep ==
  ASSUME IInv, NEW m \in Messages, InsertTicket(m)
  PROVE  IInv'
  <1>1. message' \in [Messages -> Steps] /\ UNCHANGED <<conv, agent>>
    BY DEF InsertTicket, Step, Steps, IInv, TypeOK
  <1>2. CASE tickets' = tickets
    BY <1>1, <1>2, QuietStep DEF IInv, TypeOK, Convs
  <1>3. CASE /\ tickets' = Append(tickets, "open")
             /\ \A i \in DOMAIN tickets : ~Open(i)
    <2> DEFINE S == {"open", "resolved"}
    <2>1. /\ tickets' \in Seq(S) /\ Len(tickets') = Len(tickets) + 1
          /\ \A i \in 1..Len(tickets) : tickets'[i] = tickets[i]
      BY <1>3, AppendProperties DEF IInv, TypeOK
    <2>2. DOMAIN tickets = 1..Len(tickets) /\ DOMAIN tickets' = 1..(Len(tickets) + 1)
      BY <2>1 DEF IInv, TypeOK
    <2>3. \A i \in DOMAIN tickets' : tickets'[i] = "open" => i = Len(tickets) + 1
      BY <1>3, <2>1, <2>2 DEF Open, IInv, TypeOK
    <2>4. OneOpenEscalation'
      BY <2>3 DEF OneOpenEscalation, Open
    <2>5. TypeOK'
      BY <1>1, <2>1 DEF InsertTicket, IInv, TypeOK, Steps
    <2>6. AssignersMay'
      BY <1>1 DEF IInv, AssignersMay
    <2> QED
      BY <2>4, <2>5, <2>6 DEF IInv
  <1> QED
    BY <1>2, <1>3 DEF InsertTicket, Inserted

(* A ticket is reopened where no other is open.                              *)
LEMMA UpdateTicketStep ==
  ASSUME IInv, NEW i \in DOMAIN tickets, NEW status \in {"open", "resolved"},
         UpdateTicket(i, status)
  PROVE  IInv'
  <1> DEFINE S == {"open", "resolved"}
  <1>1. tickets \in Seq(S) /\ DOMAIN tickets = 1..Len(tickets)
    BY DEF IInv, TypeOK
  <1>2. tickets' = [tickets EXCEPT ![i] = status]
    BY DEF UpdateTicket
  <1>3. /\ tickets' \in Seq(S) /\ Len(tickets') = Len(tickets)
        /\ \A j \in 1..Len(tickets) : tickets'[j] = IF j = i THEN status ELSE tickets[j]
    BY <1>1, <1>2, ExceptSeq
  <1>4. DOMAIN tickets' = DOMAIN tickets
    BY <1>1, <1>2
  <1>5. OneOpenEscalation'
    BY <1>1, <1>3, <1>4 DEF UpdateTicket, IInv, OneOpenEscalation, Open
  <1>6. TypeOK' /\ AssignersMay'
    BY <1>3 DEF UpdateTicket, IInv, TypeOK, AssignersMay
  <1> QED
    BY <1>5, <1>6 DEF IInv

-----------------------------------------------------------------------------
(* A member's request leaves the tickets and the messages alone. *)
LEMMA RequestStep ==
  ASSUME IInv, NEW a \in Agents, NEW r \in Requests,
         agent' = [agent EXCEPT ![a] = r], conv' \in Convs,
         MayWrite(a, r),
         UNCHANGED <<tickets, message>>
  PROVE  IInv'
  <1>1. TypeOK'
    BY DEF IInv, TypeOK, Convs, Requests
  <1>2. OneOpenEscalation'
    BY DEF IInv, OneOpenEscalation, Open
  <1>3. AssignersMay'
    BY DEF IInv, TypeOK, AssignersMay
  <1> QED
    BY <1>1, <1>2, <1>3 DEF IInv

(* The requests that are not assigning.                                      *)
LEMMA Idle ==
  /\ NoRequest \in Requests /\ NoRequest.step = "idle"
  /\ \A s \in {"taking", "writing"} :
       /\ [NoRequest EXCEPT !.step = s] \in Requests
       /\ [NoRequest EXCEPT !.step = s].step = s
  BY DEF NoRequest, Requests, Owners

(* Who reads the conversation in order to assign it may do so.               *)
LEMMA ReadToAssignStep ==
  ASSUME IInv, NEW a \in Agents, NEW to \in Owners, NEW reply \in BOOLEAN,
         a \in Admins \/ conv.owner \in {None, a}, ReadToAssign(a, to, reply),
         UNCHANGED <<conv, tickets, message>>
  PROVE  IInv'
  <1> DEFINE r == [step |-> "assigning", state |-> conv.state, owner |-> conv.owner,
                   to |-> to, reply |-> reply]
  <1>1. r \in Requests /\ conv' \in Convs
    BY DEF Requests, IInv, TypeOK, Convs
  <1>3. MayWrite(a, r)
    BY DEF MayWrite, IInv, TypeOK
  <1>2. agent' = [agent EXCEPT ![a] = r]
    BY DEF ReadToAssign
  <1> QED
    BY <1>1, <1>2, <1>3, RequestStep

(* An assignment writes a state it read.                                     *)
LEMMA AssignStep ==
  ASSUME IInv, NEW a \in Agents, Assign(a)
  PROVE  IInv'
  <1>1. PICK r \in Requests : /\ r.step # "assigning"
                              /\ agent' = [agent EXCEPT ![a] = r]
    BY Idle DEF Assign
  <1>2. conv' \in Convs
    <2>1. /\ agent[a].state \in States \cup {None} /\ agent[a].to \in Owners
          /\ conv \in Convs
      BY DEF IInv, TypeOK, Convs
    <2>2. AssignedState(agent[a].state, agent[a].to) \in States
      BY <2>1 DEF AssignedState, States, Assign, IInv, AssignersMay, MayWrite
    <2> QED
      BY <2>1, <2>2 DEF Assign, Convs
  <1> QED
    BY <1>1, <1>2, RequestStep DEF MayWrite, Assign

(* The other steps of the members' requests.                                 *)
LEMMA AgentStep ==
  ASSUME IInv, NEW a \in Agents,
         \/ Reply(a) \/ Take(a) \/ Finish(a) \/ AgentFails(a) \/ DirectHandoff(a)
         \/ \E to \in Owners : AskToAssign(a, to)
  PROVE  IInv'
  <1>1. CASE Reply(a)
    <2>1. PICK s \in {"taking", "writing"} :
            agent' = [agent EXCEPT ![a] = [NoRequest EXCEPT !.step = s]]
      BY <1>1 DEF Reply
    <2> QED
      BY <1>1, <2>1, Idle, RequestStep DEF MayWrite, Reply, IInv, TypeOK, Convs
  <1>2. CASE Take(a)
    <2>1. CASE conv.owner \in {None, a}
      BY <1>2, <2>1, ReadToAssignStep DEF Take, Owners
    <2>2. CASE conv.owner \notin {None, a}
      BY <1>2, <2>2, Idle, RequestStep DEF MayWrite, Take, IInv, TypeOK, Convs
    <2> QED
      BY <2>1, <2>2
  <1>3. CASE Finish(a)
    <2>1. conv' \in Convs
      BY <1>3 DEF Finish, Moved, IInv, TypeOK, Convs, States
    <2> QED
      BY <1>3, <2>1, Idle, RequestStep DEF MayWrite, Finish
  <1>4. CASE AgentFails(a)
    BY <1>4, Idle, RequestStep DEF MayWrite, AgentFails, IInv, TypeOK, Convs
  <1>5. CASE DirectHandoff(a)
    <2>1. conv' \in Convs
      BY <1>5 DEF DirectHandoff, Convs, States, Owners
    <2> QED
      BY <1>5, <2>1, QuietStep DEF DirectHandoff, IInv, TypeOK, Steps
  <1>6. ASSUME NEW to \in Owners, AskToAssign(a, to)
        PROVE  IInv'
    BY <1>6, ReadToAssignStep DEF AskToAssign, MayAssign
  <1> QED
    BY <1>1, <1>2, <1>3, <1>4, <1>5, <1>6

(* Every step keeps the invariant.                                           *)
LEMMA NextIInv == IInv /\ [Next]_vars => IInv'
  <1> SUFFICES ASSUME IInv, [Next]_vars PROVE IInv'
    OBVIOUS
  <1>1. CASE \E i \in DOMAIN tickets, status \in {"open", "resolved"} : UpdateTicket(i, status)
    BY <1>1, UpdateTicketStep
  <1>2. CASE AutoClose \/ \E target \in States : Move(target)
    <2>1. conv' \in Convs
      BY <1>2 DEF AutoClose, Move, Moved, IInv, TypeOK, Convs, States
    <2> QED
      BY <1>2, <2>1, QuietStep DEF AutoClose, Move, IInv, TypeOK, Steps
  <1>3. CASE UNCHANGED vars
    BY <1>3, QuietStep DEF vars, IInv, TypeOK, Convs, Steps
  <1> QED
    BY <1>1, <1>2, <1>3, MessageStep, InsertTicketStep, AssignStep, AgentStep DEF Next

-----------------------------------------------------------------------------
(* The inductive invariant holds in every reachable state.                   *)
LEMMA Inductive == Spec => []IInv
  BY InitIInv, NextIInv, PTL DEF Spec

(* Every reachable state is well typed.                                      *)
THEOREM TypeCorrect == Spec => []TypeOK
  <1>1. IInv => TypeOK
    BY DEF IInv
  <1> QED
    BY <1>1, Inductive, PTL

(* getOrCreateEscalationTicket and updateTicket leave one open escalation.   *)
THEOREM OneEscalation == Spec => []OneOpenEscalation
  <1>1. IInv => OneOpenEscalation
    BY DEF IInv
  <1> QED
    BY <1>1, Inductive, PTL

(* ConversationWorkflowService.assign never takes a conversation from        *)
(* another member without an administrator.                                  *)
THEOREM NotStolen == Spec => NeverStolen
  <1> DEFINE Allowed == \/ \E a \in Admins \cup {conv.owner} :
                            agent[a].step = "assigning" /\ Assign(a)
                       \/ \E a \in Agents : DirectHandoff(a)
             Taken == conv.owner # None /\ conv'.owner # conv.owner
  <1>1. ASSUME IInv, [Next]_vars, Taken
        PROVE  Allowed
    <2>1. ASSUME NEW a \in Agents, Assign(a)
          PROVE  Allowed
      <3>1. agent[a].step = "assigning" /\ conv.owner = agent[a].owner
        BY <1>1, <2>1 DEF Assign, StillOwned
      <3>2. a \in Admins \cup {conv.owner}
        BY <1>1, <3>1 DEF IInv, AssignersMay, MayWrite
      <3> QED
        BY <2>1, <3>1, <3>2
    <2>2. ASSUME NEW m \in Messages,
                 \/ Receive(m) \/ Reopen(m) \/ Answer(m) \/ Fail(m)
                 \/ LookUpTicket(m) \/ InsertTicket(m) \/ Wait(m) \/ Abandon(m)
          PROVE  FALSE
      BY <1>1, <2>2 DEF Receive, Reopen, Answer, Fail, LookUpTicket, InsertTicket, Wait,
                        Abandon, IInv, TypeOK
    <2>3. ASSUME NEW a \in Agents,
                 \/ Reply(a) \/ Take(a) \/ Finish(a) \/ AgentFails(a)
                 \/ \E to \in Owners : AskToAssign(a, to)
          PROVE  FALSE
      BY <1>1, <2>3 DEF Reply, Take, Finish, AgentFails, AskToAssign, Moved, IInv, TypeOK
    <2>4. ASSUME \/ AutoClose \/ UNCHANGED vars
                 \/ \E target \in States : Move(target)
                 \/ \E i \in DOMAIN tickets, status \in {"open", "resolved"} :
                      UpdateTicket(i, status)
          PROVE  FALSE
      BY <1>1, <2>4 DEF AutoClose, Move, Moved, UpdateTicket, vars, IInv, TypeOK
    <2> QED
      BY <1>1, <2>1, <2>2, <2>3, <2>4 DEF Next
  <1>2. IInv /\ [Next]_vars => [Taken => Allowed]_vars
    BY <1>1
  <1> QED
    BY <1>2, Inductive, PTL DEF Spec, NeverStolen

-----------------------------------------------------------------------------
(* Webhooks.                                                                 *)

(* All the argument needs of the type of the rows: there is one per event.   *)
RowPerEvent == row = [e \in Events |-> row[e]]

Settled(e) == row[e].status \in Finished =>
                row'[e].status = row[e].status \/ subscription' = "removed"

(* Each event has its row at first.                                          *)
LEMMA InitRows == DeliveryInit => RowPerEvent
  BY DEF DeliveryInit, RowPerEvent

(* A step that touches one unfinished row at most keeps what is settled. *)
LEMMA OneRow ==
  ASSUME RowPerEvent, NEW e, NEW r, row[e].status \notin Finished \/ e \notin Events,
         row' = [row EXCEPT ![e] = r]
  PROVE  RowPerEvent' /\ \A f \in Events : Settled(f)
  BY DEF RowPerEvent, Settled

(* So does one that touches none.                                            *)
LEMMA Untouched ==
  ASSUME RowPerEvent, row' = row
  PROVE  RowPerEvent' /\ \A f \in Events : Settled(f)
  BY DEF RowPerEvent, Settled

(* markFailure writes only to a row that is under way.                       *)
LEMMA FailKeeps ==
  ASSUME RowPerEvent, NEW w \in Workers, NEW terminal \in BOOLEAN, MarkFailure(w, terminal)
  PROVE  RowPerEvent' /\ \A f \in Events : Settled(f)
  <1> DEFINE e == worker[w].event
             r == [row[e] EXCEPT !.due = FALSE, !.status =
               IF terminal \/ GivesUp(worker[w].attempt) THEN "exhausted" ELSE "failed"]
  <1>1. CASE UnderWay(w)
    <2>1. row[e].status \notin Finished
      BY <1>1 DEF UnderWay, Finished
    <2>2. row' = [row EXCEPT ![e] = r]
      BY <1>1 DEF MarkFailure
    <2> QED
      BY <2>1, <2>2, OneRow
  <1>2. CASE ~UnderWay(w)
    BY <1>2, Untouched DEF MarkFailure
  <1> QED
    BY <1>1, <1>2

(* The steps of a worker keep what is settled,                               *)
LEMMA RunKeeps ==
  ASSUME RowPerEvent, NEW w \in Workers, Run(w)
  PROVE  RowPerEvent' /\ \A f \in Events : Settled(f)
  <1>1. CASE \E e \in Events : Claim(w, e)
    <2>1. PICK e \in Events : Claim(w, e)
      BY <1>1
    <2>2. CASE row[e].status \in Unfinished
      <3>1. row[e].status \notin Finished
        BY <2>2 DEF Unfinished, Finished
      <3> QED
        BY <2>1, <2>2, <3>1, OneRow DEF Claim
    <2>3. CASE row[e].status \notin Unfinished
      BY <2>1, <2>3, Untouched DEF Claim
    <2> QED
      BY <2>2, <2>3
  <1>2. CASE EndSweep(w) \/ Load(w)
    BY <1>2, Untouched DEF EndSweep, Load
  <1>3. CASE Succeed(w)
    <2> DEFINE e == worker[w].event
               r == [row[e] EXCEPT !.status = "delivered"]
    <2>1. CASE UnderWay(w)
      <3>1. row[e].status \notin Finished
        BY <2>1 DEF UnderWay, Finished
      <3>2. row' = [row EXCEPT ![e] = r]
        BY <1>3, <2>1 DEF Succeed
      <3> QED
        BY <3>1, <3>2, OneRow
    <2>2. CASE ~UnderWay(w)
      BY <1>3, <2>2, Untouched DEF Succeed
    <2> QED
      BY <2>1, <2>2
  <1>4. CASE Refuse(w)
    BY <1>4, FailKeeps DEF Refuse
  <1>5. CASE FailAttempt(w)
    BY <1>5, FailKeeps DEF FailAttempt
  <1> QED
    BY <1>1, <1>2, <1>3, <1>4, <1>5 DEF Run

(* ... and so does every step.                                               *)
LEMMA StepKeeps == RowPerEvent /\ [DeliveryNext]_deliveryVars => RowPerEvent' /\ \A f \in Events : Settled(f)
  <1> SUFFICES ASSUME RowPerEvent, [DeliveryNext]_deliveryVars
               PROVE  RowPerEvent' /\ \A f \in Events : Settled(f)
    OBVIOUS
  <1>1. ASSUME NEW e \in Events, Capture(e)
        PROVE  RowPerEvent' /\ \A f \in Events : Settled(f)
    <2>1. row[e].status \notin Finished
      BY <1>1 DEF Capture, Finished
    <2> QED
      BY <1>1, <2>1, OneRow DEF Capture
  <1>2. ASSUME NEW e \in Events, BecomesDue(e)
        PROVE  RowPerEvent' /\ \A f \in Events : Settled(f)
    <2>1. row[e].status \notin Finished
      BY <1>2 DEF BecomesDue, Finished
    <2>2. row' = [row EXCEPT ![e] = [row[e] EXCEPT !.due = TRUE]]
      BY <1>2 DEF BecomesDue
    <2> QED
      BY <2>1, <2>2, OneRow
  <1>3. CASE Remove
    BY <1>3 DEF Remove, RowPerEvent, Settled
  <1>4. CASE \E value \in {"enabled", "disabled"} : SetEnabled(value)
    BY <1>4, Untouched DEF SetEnabled
  <1>5. ASSUME NEW w \in Workers, Sweep(w) \/ Die(w) \/ LeaseElapses(w)
        PROVE  RowPerEvent' /\ \A f \in Events : Settled(f)
    BY <1>5, Untouched DEF Sweep, Die, LeaseElapses
  <1>6. CASE UNCHANGED deliveryVars
    BY <1>6, Untouched DEF deliveryVars
  <1> QED
    BY <1>1, <1>2, <1>3, <1>4, <1>5, <1>6, RunKeeps DEF DeliveryNext

(* Whatever the workers, the leases and the deaths: a delivery that is       *)
(* delivered or exhausted is never reopened or overwritten by a late outcome *)
(* or a second claim; only removing the subscription takes it away.          *)
THEOREM FinalOutcomes == DeliverySpec => OutcomesAreFinal
  <1>1. DeliverySpec => []RowPerEvent
    BY InitRows, StepKeeps, PTL DEF DeliverySpec
  <1>2. RowPerEvent /\ [DeliveryNext]_deliveryVars
          => [\A e \in Events : row[e].status \in Finished =>
                row'[e].status = row[e].status \/ subscription' = "removed"]_deliveryVars
    BY StepKeeps DEF Settled
  <1> QED
    BY <1>1, <1>2, PTL DEF DeliverySpec, OutcomesAreFinal

-----------------------------------------------------------------------------
(* How many attempts a delivery can cost.  Once MaxAttempts are used up, a   *)
(* claim is wasted only by a death or by the late failure of one of the      *)
(* early runs that are still out: each of those can hide the outcome of      *)
(* every other worker's run once, and no new one joins them.                 *)
Busy(w) == worker[w].step \in {"loading", "refusing", "posting"}
RunsOf(e) == {w \in Workers : Busy(w) /\ worker[w].event = e}
Early(e) == {w \in RunsOf(e) : worker[w].attempt < MaxAttempts}
Final(e) == {w \in RunsOf(e) : worker[w].attempt >= MaxAttempts}

Crew == Cardinality(Workers)
Others == Crew - 1
Affords(status, a, early, final, died) ==
  \/ a < MaxAttempts
  \/ status = "delivering" /\ a + Others * early < MaxAttempts + died + Others * Others + final
  \/ status = "failed" /\ a + Others * early < MaxAttempts + died + Others * Others
  \/ status \in Finished /\ a <= MaxAttempts + died + Others * Others + Others
Afforded(e) == Affords(row[e].status, row[e].attempts,
                       Cardinality(Early(e)), Cardinality(Final(e)), deaths)

DeliveryInv == DeliveryTypeOK /\ \A e \in Events : Afforded(e)

(* Products, for the provers of linear arithmetic.                           *)
LEMMA Times ==
  ASSUME NEW a \in Nat, NEW b \in Nat, NEW c \in Nat, a <= b
  PROVE  c * a \in Nat /\ c * b \in Nat /\ c * a <= c * b /\ c * (a + 1) = c * a + c
  <1>1. PICK d \in Nat : b = a + d
    <2>1. b - a \in Nat /\ b = a + (b - a)
      OBVIOUS
    <2> QED BY <2>1
  <1>2. c * b = c * a + c * d /\ c * d \in Nat /\ c * a \in Nat
    BY <1>1
  <1>3. c * (a + 1) = c * a + c
    OBVIOUS
  <1> QED
    BY <1>2, <1>3

(* How many workers there are, and parts of them.                            *)
LEMMA CrewSize ==
  /\ Crew \in Nat /\ Others \in Nat /\ Crew = Others + 1
  /\ \A T \in SUBSET Workers : Cardinality(T) \in Nat /\ Cardinality(T) <= Crew
  /\ \A T \in SUBSET Workers : \A S \in SUBSET T : Cardinality(S) <= Cardinality(T)
  /\ \A T \in SUBSET Workers : \A w \in Workers \ T :
       Cardinality(T \cup {w}) = Cardinality(T) + 1
  /\ \A T \in SUBSET Workers : \A w \in T :
       Cardinality(T) = Cardinality(T \ {w}) + 1
  <1>1. \A T \in SUBSET Workers : IsFiniteSet(T) /\ Cardinality(T) \in Nat
    BY WorkersAssumption, FS_Subset, FS_CardinalityType
  <1>2. \A T \in SUBSET Workers : \A S \in SUBSET T : Cardinality(S) <= Cardinality(T)
    BY <1>1, FS_Subset
  <1>3. Workers \in SUBSET Workers
    OBVIOUS
  <1>4. \A T \in SUBSET Workers : \A w \in Workers \ T :
          Cardinality(T \cup {w}) = Cardinality(T) + 1
    BY <1>1, FS_AddElement
  <1>5. ASSUME NEW T \in SUBSET Workers, NEW w \in T
        PROVE  Cardinality(T) = Cardinality(T \ {w}) + 1
    <2>1. T \ {w} \in SUBSET Workers /\ w \in Workers \ (T \ {w})
          /\ (T \ {w}) \cup {w} = T
      OBVIOUS
    <2> QED
      BY <1>4, <2>1
  <1>6. Crew \in Nat /\ Crew # 0
    BY <1>1, <1>3, WorkersAssumption, FS_EmptySet DEF Crew
  <1>7. Others \in Nat /\ Crew = Others + 1
    BY <1>6 DEF Others
  <1> QED
    BY <1>1, <1>2, <1>3, <1>4, <1>5, <1>6, <1>7 DEF Crew

LEMMA MostIsNatural == MostAttempts \in Nat
  <1>1. Crew \in Nat /\ Crew - 1 \in Nat
    BY CrewSize
  <1>2. Crew * (Crew - 1) \in Nat
    BY <1>1
  <1> QED
    BY <1>2, AttemptsAssumption DEF MostAttempts, Crew

(* Fewer runs under way, or one more death, afford the same attempts.        *)
LEMMA AffordsLess ==
  ASSUME NEW st, NEW a \in Nat, NEW early \in Nat, NEW final \in Nat, NEW died \in Nat,
         Affords(st, a, early, final, died),
         NEW early2 \in Nat, NEW final2 \in Nat, NEW died2 \in Nat,
         early2 <= early, died <= died2,
         died + final <= died2 + final2 \/ st # "delivering"
  PROVE  Affords(st, a, early2, final2, died2)
  <1>1. Others \in Nat /\ Others * Others \in Nat /\ MaxAttempts \in Nat
    BY CrewSize, AttemptsAssumption
  <1>2. /\ Others * early \in Nat /\ Others * early2 \in Nat
        /\ Others * early2 <= Others * early
    BY <1>1, Times
  <1> DEFINE sq == Others * Others
             x == Others * early
             y == Others * early2
  <1>3. /\ sq \in Nat /\ x \in Nat /\ y \in Nat /\ y <= x
        /\ \/ a < MaxAttempts
           \/ st = "delivering" /\ a + x < MaxAttempts + died + sq + final
           \/ st = "failed" /\ a + x < MaxAttempts + died + sq
           \/ st \in Finished /\ a <= MaxAttempts + died + sq + Others
    BY <1>1, <1>2 DEF Affords
  <1>4. SUFFICES \/ a < MaxAttempts
                 \/ st = "delivering" /\ a + y < MaxAttempts + died2 + sq + final2
                 \/ st = "failed" /\ a + y < MaxAttempts + died2 + sq
                 \/ st \in Finished /\ a <= MaxAttempts + died2 + sq + Others
    BY DEF Affords
  <1> HIDE DEF sq, x, y
  <1> QED
    BY <1>1, <1>3 DEF Finished

(* A claim, by a worker who is out with nothing else. *)
LEMMA AffordsClaim ==
  ASSUME NEW st, NEW a \in Nat, NEW early \in Nat, NEW final \in Nat, NEW died \in Nat,
         Affords(st, a, early, final, died), st \notin Finished, early + 1 <= Crew
  PROVE  a + 1 >= MaxAttempts => Affords("delivering", a + 1, early, final + 1, died)
  <1>1. Others \in Nat /\ Others * Others \in Nat /\ MaxAttempts \in Nat /\ early <= Others
    BY CrewSize, AttemptsAssumption
  <1>2. Others * early \in Nat /\ Others * early <= Others * Others
    BY <1>1, Times
  <1> DEFINE sq == Others * Others
             x == Others * early
  <1>3. /\ sq \in Nat /\ x \in Nat /\ x <= sq
        /\ \/ a < MaxAttempts
           \/ st = "delivering" /\ a + x < MaxAttempts + died + sq + final
           \/ st = "failed" /\ a + x < MaxAttempts + died + sq
    BY <1>1, <1>2 DEF Affords
  <1>4. SUFFICES ASSUME a + 1 >= MaxAttempts
                 PROVE  a + 1 + x < MaxAttempts + died + sq + (final + 1)
    BY DEF Affords
  <1> HIDE DEF sq, x
  <1> QED
    BY <1>1, <1>3, <1>4

(* An outcome that ends the delivery.                                        *)
LEMMA AffordsEnd ==
  ASSUME NEW a \in Nat, NEW early \in Nat, NEW final \in Nat, NEW died \in Nat,
         Affords("delivering", a, early, final, died), final <= Crew,
         NEW st \in Finished, NEW early2, NEW final2
  PROVE  Affords(st, a, early2, final2, died)
  <1>1. /\ Others \in Nat /\ Others * Others \in Nat /\ MaxAttempts \in Nat
        /\ Others * early \in Nat /\ final <= Others + 1
    BY CrewSize, Times, AttemptsAssumption
  <1> DEFINE sq == Others * Others
             x == Others * early
  <1>2. /\ sq \in Nat /\ x \in Nat
        /\ a < MaxAttempts \/ a + x < MaxAttempts + died + sq + final
    BY <1>1 DEF Affords, Finished
  <1>3. SUFFICES a < MaxAttempts \/ a <= MaxAttempts + died + sq + Others
    BY DEF Affords
  <1> HIDE DEF sq, x
  <1> QED
    BY <1>1, <1>2

(* The failure of an early run, which hides what the final ones will say. *)
LEMMA AffordsFailure ==
  ASSUME NEW a \in Nat, NEW early \in Nat, NEW final \in Nat, NEW died \in Nat,
         Affords("delivering", a, early + 1, final, died), final + 1 <= Crew, NEW final2
  PROVE  Affords("failed", a, early, final2, died)
  <1>1. /\ Others \in Nat /\ Others * Others \in Nat /\ MaxAttempts \in Nat
        /\ final <= Others
    BY CrewSize, AttemptsAssumption
  <1>2. /\ Others * early \in Nat
        /\ Others * (early + 1) = Others * early + Others
    BY <1>1, Times
  <1> DEFINE sq == Others * Others
             x == Others * (early + 1)
             y == Others * early
  <1>3. /\ sq \in Nat /\ y \in Nat /\ x = y + Others
        /\ a < MaxAttempts \/ a + x < MaxAttempts + died + sq + final
    BY <1>1, <1>2 DEF Affords, Finished
  <1>4. SUFFICES a < MaxAttempts \/ a + y < MaxAttempts + died + sq
    BY DEF Affords
  <1> HIDE DEF sq, x, y
  <1> QED
    BY <1>1, <1>3

-----------------------------------------------------------------------------
Deliveries == [status : Status, attempts : 0..MostAttempts, due : BOOLEAN]
Sweeps == [step : {"idle", "sweeping", "loading", "refusing", "posting"},
           queue : SUBSET Events, event : Events \cup {NoEvent},
           attempt : 0..MostAttempts, late : BOOLEAN, after : SUBSET Workers]

(* What the type says of the numbers.                                        *)
LEMMA Typed ==
  ASSUME DeliveryTypeOK
  PROVE  /\ MostAttempts \in Nat /\ MaxAttempts \in Nat \ {0} /\ MaxDeaths \in Nat
         /\ row \in [Events -> Deliveries] /\ worker \in [Workers -> Sweeps]
         /\ deaths \in Nat
         /\ \A e \in Events : row[e].attempts \in Nat
         /\ \A w \in Workers : worker[w].attempt \in Nat
  <1>3. row \in [Events -> Deliveries] /\ worker \in [Workers -> Sweeps] /\ deaths \in Nat
    BY AttemptsAssumption DEF DeliveryTypeOK, Deliveries, Sweeps
  <1> QED
    BY <1>3, MostIsNatural, AttemptsAssumption DEF Deliveries, Sweeps

(* The runs of a delivery are those of some workers.                         *)
LEMMA Runs ==
  ASSUME DeliveryTypeOK, NEW e
  PROVE  /\ Early(e) \in SUBSET Workers /\ Final(e) \in SUBSET Workers
         /\ Early(e) \cap Final(e) = {}
         /\ Cardinality(Early(e)) \in Nat /\ Cardinality(Final(e)) \in Nat
         /\ Cardinality(Final(e)) <= Crew
  <1>1. Early(e) \in SUBSET Workers /\ Final(e) \in SUBSET Workers
    BY DEF Early, Final, RunsOf
  <1>2. Early(e) \cap Final(e) = {}
    BY Typed DEF Early, Final, RunsOf
  <1> QED
    BY <1>1, <1>2, CrewSize

(* What a worker has in hand is its own affair. *)
SameRun(v) == /\ Busy(v)' = Busy(v)
              /\ worker'[v].event = worker[v].event
              /\ worker'[v].attempt = worker[v].attempt

(* If one worker moves, the runs of the others stay as they are;             *)
LEMMA OtherRuns ==
  ASSUME NEW w, \A v \in Workers \ {w} : SameRun(v), NEW e
  PROVE  /\ Early(e)' \ {w} = Early(e) \ {w}
         /\ Final(e)' \ {w} = Final(e) \ {w}
  BY DEF SameRun, Early, Final, RunsOf

(* ... if none moves, all do.                                                *)
LEMMA SameRuns ==
  ASSUME \A v \in Workers : SameRun(v), NEW e
  PROVE  Early(e)' = Early(e) /\ Final(e)' = Final(e)
  BY DEF SameRun, Early, Final, RunsOf

(* A delivery whose row is left alone affords what it did, as runs end.      *)
LEMMA StillAffords ==
  ASSUME DeliveryTypeOK, NEW e \in Events, Afforded(e),
         row'[e].status = row[e].status, row'[e].attempts = row[e].attempts,
         Early(e)' \subseteq Early(e), Final(e)' \in SUBSET Workers,
         deaths' \in Nat, deaths <= deaths',
         \/ deaths + Cardinality(Final(e)) <= deaths' + Cardinality(Final(e)')
         \/ row[e].status # "delivering"
  PROVE  Afforded(e)'
  <1> DEFINE early == Cardinality(Early(e))
             final == Cardinality(Final(e))
             early2 == Cardinality(Early(e)')
             final2 == Cardinality(Final(e)')
             st == row[e].status
             a == row[e].attempts
  <1>1. /\ early \in Nat /\ final \in Nat /\ early2 \in Nat /\ final2 \in Nat
        /\ early2 <= early
    BY Runs, CrewSize
  <1>2. a \in Nat /\ deaths \in Nat
    BY Typed
  <1>3. Affords(st, a, early, final, deaths)
    BY DEF Afforded
  <1>4. deaths + final <= deaths' + final2 \/ st # "delivering"
    OBVIOUS
  <1>5. SUFFICES Affords(st, a, early2, final2, deaths')
    BY DEF Afforded
  <1> HIDE DEF early, final, early2, final2, st, a
  <1> QED
    BY <1>1, <1>2, <1>3, <1>4, AffordsLess

(* It does if nothing about it changes.                                      *)
LEMMA UntouchedAffords ==
  ASSUME DeliveryTypeOK, NEW e \in Events, Afforded(e),
         row'[e].status = row[e].status, row'[e].attempts = row[e].attempts,
         Early(e)' = Early(e), Final(e)' = Final(e), deaths' = deaths
  PROVE  Afforded(e)'
  <1>1. deaths \in Nat /\ deaths <= deaths
    BY Typed
  <1>2. Cardinality(Final(e)) \in Nat /\ Final(e) \in SUBSET Workers
    BY Runs
  <1>3. deaths + Cardinality(Final(e)) <= deaths' + Cardinality(Final(e)')
    BY <1>1, <1>2
  <1> QED
    BY <1>1, <1>2, <1>3, StillAffords

(* Below MaxAttempts there is nothing to show.                               *)
LEMMA FewAttempts ==
  ASSUME NEW e \in Events, row'[e].attempts < MaxAttempts
  PROVE  Afforded(e)'
  BY DEF Afforded, Affords

(* A sweep that begins or ends has no run in hand.                           *)
LEMMA SweepAffords ==
  ASSUME DeliveryInv, NEW w \in Workers, ~ Busy(w), ~ Busy(w)', row' = row, deaths' = deaths,
         \A v \in Workers \ {w} : SameRun(v)
  PROVE  \A e \in Events : Afforded(e)'
  <1> SUFFICES ASSUME NEW e \in Events PROVE Afforded(e)'
    OBVIOUS
  <1>1. w \notin Early(e) /\ w \notin Final(e) /\ w \notin Early(e)' /\ w \notin Final(e)'
    BY DEF Early, Final, RunsOf
  <1>2. Early(e)' = Early(e) /\ Final(e)' = Final(e)
    BY <1>1, OtherRuns
  <1> QED
    BY <1>2, UntouchedAffords DEF DeliveryInv

(* A claim costs an attempt and adds a run.                                  *)
LEMMA ClaimAffords ==
  ASSUME DeliveryInv, NEW w \in Workers, NEW c \in Events, Claim(w, c)
  PROVE  \A e \in Events : Afforded(e)'
  <1>t. DeliveryTypeOK /\ row \in [Events -> Deliveries] /\ worker \in [Workers -> Sweeps]
    BY Typed DEF DeliveryInv
  <1>1. CASE row[c].status \in Unfinished
    <2>1. /\ \A v \in Workers \ {w} : SameRun(v)
          /\ ~ Busy(w) /\ Busy(w)' /\ worker'[w].event = c
          /\ worker'[w].attempt = row[c].attempts + 1
      <3>1. ASSUME NEW v \in Workers \ {w} PROVE SameRun(v)
        <4>1. worker'[v] = worker[v] \/ worker'[v] = [worker[v] EXCEPT !.queue = @ \ {c}]
          BY <1>1 DEF Claim
        <4> QED
          BY <4>1, <1>t DEF SameRun, Busy, Sweeps
      <3>2. worker[w] \in Sweeps /\ worker[w].step = "sweeping"
        BY <1>t DEF Claim
      <3>3. worker'[w] = [worker[w] EXCEPT !.step = "loading", !.event = c,
                            !.attempt = row[c].attempts + 1, !.queue = @ \ {c}]
        BY <1>1 DEF Claim
      <3>4. /\ worker'[w].step = "loading" /\ worker'[w].event = c
            /\ worker'[w].attempt = row[c].attempts + 1
        BY <3>2, <3>3 DEF Sweeps
      <3> QED
        BY <3>1, <3>2, <3>4 DEF Busy
    <2>2. /\ row'[c].status = "delivering" /\ row'[c].attempts = row[c].attempts + 1
          /\ \A e \in Events \ {c} : row'[e] = row[e]
          /\ deaths' = deaths
      BY <1>1, <1>t DEF Claim, Deliveries
    <2>3. ASSUME NEW e \in Events, e # c PROVE Afforded(e)'
      <3>1. w \notin Early(e) /\ w \notin Final(e) /\ w \notin Early(e)' /\ w \notin Final(e)'
        BY <2>1, <2>3 DEF Early, Final, RunsOf
      <3>2. Early(e)' = Early(e) /\ Final(e)' = Final(e)
        BY <2>1, <3>1, OtherRuns
      <3>3. row'[e] = row[e]
        BY <2>2, <2>3
      <3> QED
        BY <2>2, <3>2, <3>3, <1>t, UntouchedAffords DEF DeliveryInv
    <2>4. Afforded(c)'
      <3>1. CASE row[c].attempts + 1 < MaxAttempts
        BY <2>2, <3>1, FewAttempts
      <3>2. CASE row[c].attempts + 1 >= MaxAttempts
        <4> DEFINE early == Cardinality(Early(c))
                   final == Cardinality(Final(c))
                   st == row[c].status
                   a == row[c].attempts
        <4>1. w \notin Early(c) /\ w \notin Final(c)
          BY <2>1 DEF Early, Final, RunsOf
        <4>2. w \notin Early(c)' /\ w \in Final(c)'
          BY <2>1, <3>2, <1>t, Typed DEF Early, Final, RunsOf
        <4>3. Early(c)' = Early(c) /\ Final(c)' = Final(c) \cup {w}
          <5>1. Early(c)' \ {w} = Early(c) \ {w} /\ Final(c)' \ {w} = Final(c) \ {w}
            BY <2>1, OtherRuns
          <5> QED
            BY <4>1, <4>2, <5>1
        <4>4. early \in Nat /\ final \in Nat /\ a \in Nat /\ deaths \in Nat
          BY <1>t, Runs, Typed
        <4>5. early + 1 <= Crew /\ Cardinality(Final(c)') = final + 1
          <5>1. /\ Early(c) \in SUBSET Workers /\ Final(c) \in SUBSET Workers
                /\ w \in Workers \ Early(c) /\ w \in Workers \ Final(c)
                /\ Early(c) \cup {w} \in SUBSET Workers
            BY <1>t, <4>1, Runs
          <5>2. /\ Cardinality(Early(c) \cup {w}) = early + 1
                /\ Cardinality(Early(c) \cup {w}) <= Crew
                /\ Cardinality(Final(c) \cup {w}) = final + 1
            BY <5>1, CrewSize
          <5> QED
            BY <4>3, <5>2
        <4>6. Affords(st, a, early, final, deaths) /\ st \notin Finished
          BY <1>1 DEF DeliveryInv, Afforded, Unfinished, Finished
        <4>7. SUFFICES Affords("delivering", a + 1, early, final + 1, deaths)
          BY <2>2, <4>3, <4>5 DEF Afforded
        <4>8. a + 1 >= MaxAttempts
          BY <3>2
        <4> HIDE DEF early, final, st, a
        <4> QED
          BY <4>4, <4>5, <4>6, <4>8, AffordsClaim
      <3> QED
        BY <3>1, <3>2, <1>t, Typed
    <2> QED
      BY <2>3, <2>4
  <1>2. CASE row[c].status \notin Unfinished
    <2>1. \A v \in Workers : SameRun(v)
      BY <1>2, <1>t DEF Claim, SameRun, Busy, Sweeps
    <2>2. row' = row /\ deaths' = deaths
      BY <1>2 DEF Claim
    <2> QED
      BY <2>1, <2>2, <1>t, SameRuns, UntouchedAffords DEF DeliveryInv
  <1> QED
    BY <1>1, <1>2

(* A run ends: BackToSweep, or the death of its worker. *)
LEMMA RunEnds ==
  ASSUME DeliveryTypeOK, NEW w \in Workers, \A v \in Workers \ {w} : SameRun(v), ~ Busy(w)', NEW e
  PROVE  Early(e)' = Early(e) \ {w} /\ Final(e)' = Final(e) \ {w}
  <1>1. w \notin Early(e)' /\ w \notin Final(e)'
    BY DEF Early, Final, RunsOf
  <1> QED
    BY <1>1, OtherRuns

(* BackToSweep ends the run of its worker and no other.                      *)
LEMMA BackEnds ==
  ASSUME DeliveryTypeOK, NEW w \in Workers, NEW rescheduled, worker' = BackToSweep(w, rescheduled)
  PROVE  (\A v \in Workers \ {w} : SameRun(v)) /\ ~ Busy(w)'
  <1>t. worker \in [Workers -> Sweeps]
    BY Typed
  <1>1. ASSUME NEW v \in Workers \ {w} PROVE SameRun(v)
    <2>1. worker'[v] = [worker[v] EXCEPT !.queue = @ \ rescheduled]
      BY DEF BackToSweep
    <2> QED
      BY <2>1, <1>t DEF SameRun, Busy, Sweeps
  <1>2. worker'[w] = [worker[w] EXCEPT !.step = "sweeping", !.event = NoEvent, !.attempt = 0]
    BY DEF BackToSweep
  <1>3. worker'[w].step = "sweeping"
    BY <1>2, <1>t DEF Sweeps
  <1> QED
    BY <1>1, <1>3 DEF Busy

(* Another delivery than the one whose run ends, or one that does not wait   *)
(* for this run any more.                                                    *)
LEMMA EndAffords ==
  ASSUME DeliveryTypeOK, NEW w \in Workers, \A v \in Workers \ {w} : SameRun(v), ~ Busy(w)',
         NEW e \in Events, Afforded(e), row'[e] = row[e], deaths' = deaths,
         e # worker[w].event \/ row[e].status # "delivering"
  PROVE  Afforded(e)'
  <1>1. Early(e)' = Early(e) \ {w} /\ Final(e)' = Final(e) \ {w}
    BY RunEnds
  <1>2. CASE e # worker[w].event
    <2>1. w \notin Early(e) /\ w \notin Final(e)
      BY <1>2 DEF Early, Final, RunsOf
    <2>2. Early(e)' = Early(e) /\ Final(e)' = Final(e)
      BY <1>1, <2>1
    <2> QED
      BY <2>2, UntouchedAffords
  <1>3. CASE row[e].status # "delivering"
    <2>1. Early(e)' \subseteq Early(e) /\ Final(e)' \in SUBSET Workers
      BY <1>1, Runs
    <2>2. deaths \in Nat /\ deaths <= deaths
      BY Typed
    <2> QED
      BY <1>3, <2>1, <2>2, StillAffords
  <1> QED
    BY <1>2, <1>3

(* An outcome that is written. *)
LEMMA OutcomeAffords ==
  ASSUME DeliveryInv, NEW w \in Workers, Busy(w), \A v \in Workers \ {w} : SameRun(v), ~ Busy(w)',
         UnderWay(w), deaths' = deaths,
         \A e \in Events : e # worker[w].event => row'[e] = row[e],
         worker[w].event \in Events =>
           /\ row'[worker[w].event].attempts = row[worker[w].event].attempts
           /\ \/ row'[worker[w].event].status \in Finished
              \/ /\ row'[worker[w].event].status = "failed"
                 /\ worker[w].attempt < MaxAttempts
  PROVE  \A e \in Events : Afforded(e)'
  <1>t. DeliveryTypeOK
    BY DEF DeliveryInv
  <1>1. ASSUME NEW e \in Events, e # worker[w].event PROVE Afforded(e)'
    BY <1>1, <1>t, EndAffords DEF DeliveryInv
  <1>2. ASSUME NEW c \in Events, c = worker[w].event PROVE Afforded(c)'
    <2> DEFINE early == Cardinality(Early(c))
               final == Cardinality(Final(c))
               early2 == Cardinality(Early(c)')
               final2 == Cardinality(Final(c)')
               a == row[c].attempts
    <2>1. early \in Nat /\ final \in Nat /\ a \in Nat /\ deaths \in Nat /\ final <= Crew
      BY <1>t, Runs, Typed
    <2>2. Affords("delivering", a, early, final, deaths)
      BY <1>2 DEF DeliveryInv, Afforded, UnderWay
    <2>3. Early(c)' = Early(c) \ {w} /\ Final(c)' = Final(c) \ {w}
      BY <1>t, RunEnds
    <2>4. row'[c].attempts = a
      BY <1>2
    <2>5. CASE row'[c].status \in Finished
      <3> DEFINE st == row'[c].status
      <3>1. SUFFICES Affords(st, a, early2, final2, deaths)
        BY <2>4 DEF Afforded
      <3>2. st \in Finished
        BY <2>5
      <3> HIDE DEF early, final, early2, final2, a, st
      <3> QED
        BY <2>1, <2>2, <3>2, AffordsEnd
    <2>6. CASE row'[c].status = "failed" /\ worker[w].attempt < MaxAttempts
      <3>1. w \in Early(c) /\ w \notin Final(c)
        BY <1>t, <1>2, <2>6, Typed DEF Early, Final, RunsOf
      <3>2. early = early2 + 1 /\ early2 \in Nat
        <4>1. Early(c) \in SUBSET Workers /\ Early(c) \ {w} \in SUBSET Workers
          BY <1>t, Runs
        <4> QED
          BY <3>1, <4>1, <2>3, CrewSize
      <3>3. final + 1 <= Crew
        <4>1. /\ Final(c) \in SUBSET Workers /\ w \in Workers \ Final(c)
              /\ Final(c) \cup {w} \in SUBSET Workers
          BY <1>t, <3>1, Runs
        <4>2. /\ Cardinality(Final(c) \cup {w}) = final + 1
              /\ Cardinality(Final(c) \cup {w}) <= Crew
          BY <4>1, CrewSize
        <4> QED
          BY <4>2
      <3>4. SUFFICES Affords("failed", a, early2, final2, deaths)
        BY <2>4, <2>6 DEF Afforded
      <3> HIDE DEF early, final, early2, final2, a
      <3> QED
        BY <2>1, <2>2, <3>2, <3>3, AffordsFailure
    <2> QED
      BY <1>2, <2>5, <2>6
  <1> QED
    BY <1>1, <1>2

(* markFailure, whether it writes or comes too late.                         *)
LEMMA FailAffords ==
  ASSUME DeliveryInv, NEW w \in Workers, Busy(w), NEW terminal \in BOOLEAN, MarkFailure(w, terminal)
  PROVE  \A e \in Events : Afforded(e)'
  <1> DEFINE c == worker[w].event
  <1>t. DeliveryTypeOK /\ row \in [Events -> Deliveries] /\ worker[w].attempt \in Nat /\ MaxAttempts \in Nat
    BY Typed DEF DeliveryInv
  <1>d. deaths' = deaths
    BY DEF MarkFailure
  <1>1. CASE UnderWay(w)
    <2>1. (\A v \in Workers \ {w} : SameRun(v)) /\ ~ Busy(w)'
      BY <1>1, <1>t, BackEnds DEF MarkFailure
    <2>2. row' = [row EXCEPT ![c].due = FALSE, ![c].status =
                    IF terminal \/ GivesUp(worker[w].attempt) THEN "exhausted" ELSE "failed"]
      BY <1>1 DEF MarkFailure
    <2>3. \A e \in Events : e # c => row'[e] = row[e]
      BY <2>2, <1>t
    <2>4. c \in Events =>
            /\ row'[c].attempts = row[c].attempts
            /\ \/ row'[c].status \in Finished
               \/ row'[c].status = "failed" /\ worker[w].attempt < MaxAttempts
      BY <2>2, <1>t DEF Deliveries, GivesUp, Finished
    <2> QED
      BY <1>1, <1>d, <2>1, <2>3, <2>4, OutcomeAffords
  <1>2. CASE ~UnderWay(w)
    <2>1. (\A v \in Workers \ {w} : SameRun(v)) /\ ~ Busy(w)' /\ row' = row
      BY <1>2, <1>t, BackEnds DEF MarkFailure
    <2>2. \A e \in Events : e # c \/ row[e].status # "delivering"
      BY <1>2 DEF UnderWay
    <2> QED
      BY <1>d, <1>t, <2>1, <2>2, EndAffords DEF DeliveryInv
  <1> QED
    BY <1>1, <1>2

(* The steps of a worker,                                                    *)
LEMMA RunAffords ==
  ASSUME DeliveryInv, NEW w \in Workers, Run(w)
  PROVE  \A e \in Events : Afforded(e)'
  <1>t. /\ DeliveryTypeOK /\ row \in [Events -> Deliveries] /\ worker \in [Workers -> Sweeps]
        /\ \A e \in Events : Afforded(e)
    BY Typed DEF DeliveryInv
  <1>1. ASSUME NEW c \in Events, Claim(w, c) PROVE \A e \in Events : Afforded(e)'
    BY <1>1, ClaimAffords
  <1>2. CASE EndSweep(w)
    <2>1. ~ Busy(w) /\ ~ Busy(w)' /\ \A v \in Workers \ {w} : SameRun(v)
      BY <1>2, <1>t DEF EndSweep, Busy, NoSweep, SameRun
    <2>2. row' = row /\ deaths' = deaths
      BY <1>2 DEF EndSweep
    <2> QED
      BY <2>1, <2>2, SweepAffords
  <1>6. CASE Load(w)
    <2>1. \A v \in Workers : SameRun(v)
      BY <1>6, <1>t DEF Load, SameRun, Busy, Sweeps
    <2>2. row' = row /\ deaths' = deaths
      BY <1>6 DEF Load
    <2> QED
      BY <2>1, <2>2, <1>t, SameRuns, UntouchedAffords
  <1>3. CASE Succeed(w)
    <2> DEFINE c == worker[w].event
    <2>1. /\ (\A v \in Workers \ {w} : SameRun(v)) /\ ~ Busy(w)'
          /\ Busy(w) /\ deaths' = deaths
      <3>1. worker' = BackToSweep(w, {}) /\ deaths' = deaths /\ worker[w].step = "posting"
        BY <1>3 DEF Succeed
      <3> QED
        BY <3>1, <1>t, BackEnds DEF Busy
    <2>2. CASE UnderWay(w)
      <3>1. row' = [row EXCEPT ![c].status = "delivered"]
        BY <1>3, <2>2 DEF Succeed
      <3>2. \A e \in Events : e # c => row'[e] = row[e]
        BY <3>1, <1>t
      <3>3. c \in Events => row'[c].attempts = row[c].attempts /\ row'[c].status \in Finished
        BY <3>1, <1>t DEF Deliveries, Finished
      <3> QED
        BY <2>1, <2>2, <3>2, <3>3, OutcomeAffords
    <2>3. CASE ~UnderWay(w)
      <3>1. row' = row /\ \A e \in Events : e # c \/ row[e].status # "delivering"
        BY <1>3, <2>3 DEF Succeed, UnderWay
      <3> QED
        BY <2>1, <3>1, <1>t, EndAffords
    <2> QED
      BY <2>2, <2>3
  <1>4. CASE Refuse(w)
    BY <1>4, FailAffords DEF Refuse, Busy
  <1>5. CASE FailAttempt(w)
    BY <1>5, FailAffords DEF FailAttempt, Busy
  <1> QED
    BY <1>1, <1>2, <1>3, <1>4, <1>5, <1>6 DEF Run

(* ... and every step.                                                       *)
LEMMA StepAffords ==
  ASSUME DeliveryInv, [DeliveryNext]_deliveryVars
  PROVE  \A e \in Events : Afforded(e)'
  <1>t. /\ DeliveryTypeOK /\ row \in [Events -> Deliveries] /\ worker \in [Workers -> Sweeps]
        /\ \A e \in Events : Afforded(e)
        /\ MaxAttempts \in Nat \ {0} /\ deaths \in Nat
    BY Typed DEF DeliveryInv
  <1>s. ASSUME \A v \in Workers : SameRun(v), deaths' = deaths,
               \A e \in Events : \/ row'[e].status = row[e].status /\ row'[e].attempts = row[e].attempts
                                 \/ row'[e].attempts = 0
        PROVE  \A e \in Events : Afforded(e)'
    BY <1>s, <1>t, SameRuns, UntouchedAffords, FewAttempts
  <1>w. UNCHANGED worker => \A v \in Workers : SameRun(v)
    BY DEF SameRun, Busy
  <1>1. ASSUME NEW c \in Events, Capture(c) PROVE \A e \in Events : Afforded(e)'
    BY <1>1, <1>t, <1>s, <1>w DEF Capture, Deliveries
  <1>2. ASSUME NEW c \in Events, BecomesDue(c) PROVE \A e \in Events : Afforded(e)'
    BY <1>2, <1>t, <1>s, <1>w DEF BecomesDue, Deliveries
  <1>3. CASE Remove
    BY <1>3, <1>t, <1>s, <1>w DEF Remove, NoRow
  <1>4. ASSUME NEW value, SetEnabled(value) PROVE \A e \in Events : Afforded(e)'
    BY <1>4, <1>s, <1>w DEF SetEnabled
  <1>5. ASSUME NEW w \in Workers, Sweep(w) PROVE \A e \in Events : Afforded(e)'
    <2>1. ASSUME NEW v \in Workers \ {w} PROVE SameRun(v)
      <3>1. worker'[v] = [worker[v] EXCEPT !.after = @ \ {w}]
        BY <1>5 DEF Sweep
      <3> QED
        BY <3>1, <1>t DEF SameRun, Busy, Sweeps
    <2>2. ~ Busy(w) /\ ~ Busy(w)'
      BY <1>5 DEF Sweep, Busy, NoSweep
    <2>3. row' = row /\ deaths' = deaths
      BY <1>5 DEF Sweep
    <2> QED
      BY <2>1, <2>2, <2>3, SweepAffords
  <1>6. ASSUME NEW w \in Workers, Run(w) PROVE \A e \in Events : Afforded(e)'
    BY <1>6, RunAffords
  <1>7. ASSUME NEW w \in Workers, Die(w) PROVE \A e \in Events : Afforded(e)'
    <2>1. /\ \A v \in Workers \ {w} : SameRun(v)
          /\ ~ Busy(w)' /\ row' = row /\ deaths' = deaths + 1
      BY <1>7, <1>t DEF Die, SameRun, Busy, NoSweep
    <2>2. ASSUME NEW e \in Events PROVE Afforded(e)'
      <3>1. Early(e)' = Early(e) \ {w} /\ Final(e)' = Final(e) \ {w}
        BY <2>1, <1>t, RunEnds
      <3>2. /\ Final(e) \in SUBSET Workers /\ Final(e)' \in SUBSET Workers
            /\ Early(e)' \subseteq Early(e)
            /\ Cardinality(Final(e)) \in Nat /\ Cardinality(Final(e)') \in Nat
        BY <3>1, <1>t, Runs, CrewSize
      <3>3. Cardinality(Final(e)) <= Cardinality(Final(e)') + 1
        <4>1. CASE w \in Final(e)
          BY <3>1, <3>2, <4>1, CrewSize
        <4>2. CASE w \notin Final(e)
          <5>1. Final(e)' = Final(e)
            BY <3>1, <4>2
          <5> QED
            BY <3>2, <5>1
        <4> QED
          BY <4>1, <4>2
      <3>4. /\ deaths' \in Nat /\ deaths <= deaths'
            /\ deaths + Cardinality(Final(e)) <= deaths' + Cardinality(Final(e)')
        BY <2>1, <1>t, <3>2, <3>3
      <3> QED
        BY <2>1, <3>2, <3>4, <1>t, StillAffords
    <2> QED
      BY <2>2
  <1>8. ASSUME NEW w \in Workers, LeaseElapses(w) PROVE \A e \in Events : Afforded(e)'
    BY <1>8, <1>t, <1>s DEF LeaseElapses, SameRun, Busy, Sweeps
  <1>9. CASE UNCHANGED deliveryVars
    BY <1>9, <1>s, <1>w DEF deliveryVars
  <1> QED
    BY <1>1, <1>2, <1>3, <1>4, <1>5, <1>6, <1>7, <1>8, <1>9 DEF DeliveryNext

(* The numbers stay within what TypeOK says because they are afforded.       *)
LEMMA AffordsMost ==
  ASSUME NEW st, NEW a \in Nat, NEW early \in Nat, NEW final \in Nat, NEW died \in Nat,
         Affords(st, a, early, final, died), final <= Crew, died <= MaxDeaths
  PROVE  a \in 0..MostAttempts
  <1> DEFINE sq == Others * Others
             x == Others * early
  <1>1. Others \in Nat /\ sq \in Nat /\ x \in Nat /\ final <= Others + 1
    BY CrewSize, Times
  <1>2. MaxAttempts \in Nat /\ MaxDeaths \in Nat
        /\ MostAttempts = MaxAttempts + MaxDeaths + sq + Others
    <2>1. Crew * (Crew - 1) = sq + Others
      <3>1. Crew * (Crew - 1) = (Others + 1) * Others
        BY CrewSize
      <3> QED
        BY <3>1, <1>1
    <2> QED
      BY <1>1, <2>1, AttemptsAssumption DEF MostAttempts, Crew
  <1>3. \/ a < MaxAttempts
        \/ a + x < MaxAttempts + died + sq + final
        \/ a + x < MaxAttempts + died + sq
        \/ a <= MaxAttempts + died + sq + Others
    BY DEF Affords
  <1> HIDE DEF sq, x
  <1> QED
    BY <1>1, <1>2, <1>3

(* So no row exceeds MostAttempts.                                           *)
LEMMA WithinMost ==
  ASSUME DeliveryTypeOK, NEW e \in Events, Afforded(e)', row'[e].attempts \in Nat,
         deaths' \in 0..MaxDeaths
  PROVE  row'[e].attempts \in 0..MostAttempts
  <1>1. Early(e)' \in SUBSET Workers /\ Final(e)' \in SUBSET Workers
    BY DEF Early, Final, RunsOf
  <1>2. /\ Cardinality(Early(e)') \in Nat /\ Cardinality(Final(e)') \in Nat
        /\ Cardinality(Final(e)') <= Crew
    BY <1>1, CrewSize
  <1>3. deaths' \in Nat /\ deaths' <= MaxDeaths
    BY AttemptsAssumption
  <1>4. Affords(row'[e].status, row'[e].attempts,
                Cardinality(Early(e)'), Cardinality(Final(e)'), deaths')
    BY DEF Afforded
  <1> QED
    BY <1>2, <1>3, <1>4, AffordsMost

(* Every step keeps the types, the bound on the attempts among them.         *)
LEMMA StepTyped ==
  ASSUME DeliveryInv, [DeliveryNext]_deliveryVars
  PROVE  DeliveryTypeOK'
  <1>t. /\ row \in [Events -> Deliveries] /\ worker \in [Workers -> Sweeps]
        /\ MostAttempts \in Nat /\ 0 \in 0..MostAttempts /\ deaths \in 0..MaxDeaths
        /\ subscription \in {"enabled", "disabled", "removed"}
        /\ MaxDeaths \in Nat
    BY Typed DEF DeliveryInv, DeliveryTypeOK
  <1>q. ASSUME row' \in [Events -> Deliveries], worker' \in [Workers -> Sweeps],
               deaths' \in 0..MaxDeaths, subscription' \in {"enabled", "disabled", "removed"}
        PROVE  DeliveryTypeOK'
    BY <1>q DEF DeliveryTypeOK, Deliveries, Sweeps
  <1>n. NoRow \in Deliveries /\ NoSweep \in Sweeps
    BY <1>t DEF NoRow, NoSweep, Deliveries, Sweeps, Status
  <1>b. ASSUME NEW w \in Workers, NEW rescheduled, worker' = BackToSweep(w, rescheduled)
        PROVE  worker' \in [Workers -> Sweeps]
    <2>1. [worker[w] EXCEPT !.step = "sweeping", !.event = NoEvent, !.attempt = 0] \in Sweeps
      <3>1. worker[w] \in Sweeps
        BY <1>t
      <3> QED
        BY <3>1, <1>t DEF Sweeps
    <2>2. \A v \in Workers : [worker[v] EXCEPT !.queue = @ \ rescheduled] \in Sweeps
      BY <1>t DEF Sweeps
    <2> QED
      BY <1>b, <2>1, <2>2 DEF BackToSweep
  <1>1. ASSUME NEW c \in Events, Capture(c) PROVE DeliveryTypeOK'
    BY <1>1, <1>t, <1>q DEF Capture, Deliveries, Status
  <1>2. ASSUME NEW c \in Events, BecomesDue(c) PROVE DeliveryTypeOK'
    BY <1>2, <1>t, <1>q DEF BecomesDue, Deliveries
  <1>3. CASE Remove
    BY <1>3, <1>t, <1>q, <1>n DEF Remove
  <1>4. ASSUME NEW value \in {"enabled", "disabled"}, SetEnabled(value) PROVE DeliveryTypeOK'
    BY <1>4, <1>t, <1>q DEF SetEnabled
  <1>5. ASSUME NEW w \in Workers, Sweep(w) PROVE DeliveryTypeOK'
    <2>1. worker' \in [Workers -> Sweeps]
      BY <1>5, <1>t DEF Sweep, NoSweep, Sweeps
    <2> QED
      BY <1>5, <2>1, <1>t, <1>q DEF Sweep
  <1>6. ASSUME NEW w \in Workers, NEW c \in Events, Claim(w, c) PROVE DeliveryTypeOK'
    <2>1. CASE row[c].status \in Unfinished
      <3> DEFINE n == row[c].attempts + 1
      <3>1. row' = [row EXCEPT ![c] = [status |-> "delivering", attempts |-> n,
                                       due |-> worker[w].late]]
        BY <1>6, <2>1 DEF Claim
      <3>2. n \in 0..MostAttempts
        <4>1. row'[c].attempts = n /\ n \in Nat /\ deaths' = deaths
          BY <1>6, <3>1, <1>t DEF Claim, Deliveries
        <4>2. Afforded(c)'
          BY <1>6, ClaimAffords
        <4>3. row'[c].attempts \in 0..MostAttempts
          BY <4>1, <4>2, <1>t, WithinMost DEF DeliveryInv
        <4> QED
          BY <4>1, <4>3
      <3>3. row' \in [Events -> Deliveries]
        BY <3>1, <3>2, <1>t DEF Deliveries, Status, Sweeps
      <3>4. worker' = [v \in Workers |->
               IF v = w THEN [worker[w] EXCEPT !.step = "loading", !.event = c,
                                !.attempt = n, !.queue = @ \ {c}]
               ELSE IF w \in worker[v].after THEN worker[v]
               ELSE [worker[v] EXCEPT !.queue = @ \ {c}]]
        BY <1>6, <2>1 DEF Claim
      <3>5. worker' \in [Workers -> Sweeps]
        <4>1. [worker[w] EXCEPT !.step = "loading", !.event = c,
                                !.attempt = n, !.queue = @ \ {c}] \in Sweeps
          <5>1. worker[w] \in Sweeps /\ worker[w].queue \ {c} \in SUBSET Events
            BY <1>t DEF Sweeps
          <5> HIDE DEF n
          <5> QED
            BY <3>2, <5>1 DEF Sweeps
        <4>2. \A v \in Workers : [worker[v] EXCEPT !.queue = @ \ {c}] \in Sweeps
          BY <1>t DEF Sweeps
        <4> QED
          BY <3>4, <4>1, <4>2, <1>t
      <3> QED
        BY <1>6, <3>3, <3>5, <1>t, <1>q DEF Claim
    <2>2. CASE row[c].status \notin Unfinished
      BY <1>6, <2>2, <1>t, <1>q DEF Claim, Sweeps
    <2> QED
      BY <2>1, <2>2
  <1>7. ASSUME NEW w \in Workers, EndSweep(w) PROVE DeliveryTypeOK'
    BY <1>7, <1>t, <1>q, <1>n DEF EndSweep
  <1>8. ASSUME NEW w \in Workers, Load(w) PROVE DeliveryTypeOK'
    BY <1>8, <1>t, <1>q DEF Load, Sweeps
  <1>9. ASSUME NEW w \in Workers, Succeed(w) PROVE DeliveryTypeOK'
    <2>1. worker' \in [Workers -> Sweeps]
      BY <1>9, <1>b DEF Succeed
    <2>2. row' \in [Events -> Deliveries]
      BY <1>9, <1>t DEF Succeed, Deliveries, Status
    <2> QED
      BY <1>9, <2>1, <2>2, <1>t, <1>q DEF Succeed
  <1>10. ASSUME NEW w \in Workers, NEW terminal \in BOOLEAN, MarkFailure(w, terminal) PROVE DeliveryTypeOK'
    <2>1. worker' \in [Workers -> Sweeps]
      BY <1>10, <1>b DEF MarkFailure
    <2>2. row' \in [Events -> Deliveries]
      <3> DEFINE c == worker[w].event
                 r == [row[c] EXCEPT !.due = FALSE, !.status =
                   IF terminal \/ GivesUp(worker[w].attempt) THEN "exhausted" ELSE "failed"]
      <3>1. c \in Events => r \in Deliveries
        BY <1>t DEF Deliveries, Status
      <3>2. row' = row \/ row' = [row EXCEPT ![c] = r]
        BY <1>10 DEF MarkFailure
      <3> HIDE DEF c, r
      <3> QED
        BY <3>1, <3>2, <1>t
    <2> QED
      BY <1>10, <2>1, <2>2, <1>t, <1>q DEF MarkFailure
  <1>11. ASSUME NEW w \in Workers, Die(w) PROVE DeliveryTypeOK'
    BY <1>11, <1>t, <1>q, <1>n DEF Die
  <1>12. ASSUME NEW w \in Workers, LeaseElapses(w) PROVE DeliveryTypeOK'
    BY <1>12, <1>t, <1>q DEF LeaseElapses, Sweeps
  <1>13. CASE UNCHANGED deliveryVars
    BY <1>13, <1>t, <1>q DEF deliveryVars
  <1> QED
    BY <1>1, <1>2, <1>3, <1>4, <1>5, <1>6, <1>7, <1>8, <1>9, <1>10, <1>11, <1>12, <1>13
       DEF DeliveryNext, Run, Refuse, FailAttempt

(* At first nothing is attempted.                                            *)
LEMMA InitAffords == DeliveryInit => DeliveryInv
  <1> SUFFICES ASSUME DeliveryInit PROVE DeliveryInv
    OBVIOUS
  <1>2. DeliveryTypeOK
    BY MostIsNatural, AttemptsAssumption DEF DeliveryInit, DeliveryTypeOK, NoRow, NoSweep, Status
  <1>3. ASSUME NEW e \in Events PROVE Afforded(e)
    BY AttemptsAssumption DEF DeliveryInit, Afforded, Affords, NoRow
  <1> QED
    BY <1>2, <1>3 DEF DeliveryInv

(* No delivery is attempted more often than its limit, the deaths and the    *)
(* runs that overlap account for, though leases lapse and late failures      *)
(* reopen what newer runs have in hand.                                      *)
THEOREM AttemptsAreLimited == DeliverySpec => []DeliveryTypeOK
  <1>1. DeliveryInv /\ [DeliveryNext]_deliveryVars => DeliveryInv'
    BY StepAffords, StepTyped DEF DeliveryInv
  <1>2. DeliveryInv => DeliveryTypeOK
    BY DEF DeliveryInv
  <1> QED
    BY <1>1, <1>2, InitAffords, PTL DEF DeliverySpec
=============================================================================

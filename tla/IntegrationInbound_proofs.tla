---------------------- MODULE IntegrationInbound_proofs ----------------------
(* For any number of workers, webhooks, edits and values: the rows tell the  *)
(* truth about the ticket and its timeline, and nothing is sent back.        *)
EXTENDS IntegrationInbound, TLAPS

(* Only what was announced has a row; only an update changes the ticket; and *)
(* what a run is about to write is as true as what the rows say.             *)
RowsAnnounced == \A i \in Webhooks : row[i].status # "none" => i \in 1..Len(webhook)
ChangesAreUpdates ==
  \A w \in Workers : run[w].step = "changing" => Event(w).kind = "update"
RunsTell ==
  \A w \in Workers : run[w].step = "settling" => Tells(run[w].event, run[w].outcome)

IInv ==
  /\ TypeOK
  /\ RowsAnnounced
  /\ ChangesAreUpdates
  /\ RunsTell
  /\ OutcomesAreTrue
  /\ NothingSentBack

Told(i) == Tells(i, row[i].status)

(* What changed or stored something stays so, and an announced webhook stays *)
(* what it is: so what was true of it remains true.                          *)
Grows ==
  /\ \A i \in 1..Len(webhook) : i \in 1..Len(webhook') /\ webhook'[i] = webhook[i]
  /\ applied \subseteq applied'
  /\ \A c \in Comments : messages[c] # None => messages'[c] = messages[c]

LEMMA TellsStays ==
  ASSUME TypeOK, Grows, NEW i \in 1..Len(webhook), NEW status, Tells(i, status)
  PROVE  Tells(i, status)'
  <1>1. webhook[i] \in Updates \cup CommentEvents
    BY DEF TypeOK
  <1>2. webhook[i].kind = "comment" => webhook[i].comment \in Comments
    BY <1>1 DEF Updates, CommentEvents
  <1>3. i # None
    BY NoneAssumption
  <1>4. webhook'[i] = webhook[i]
    BY DEF Grows
  <1> QED
    BY <1>2, <1>3, <1>4 DEF Tells, Grows

LEMMA AppendGrows ==
  ASSUME NEW S, NEW s \in Seq(S), NEW e \in S
  PROVE  /\ Append(s, e) \in Seq(S)
         /\ Len(Append(s, e)) = Len(s) + 1
         /\ \A i \in 1..Len(s) : i \in 1..(Len(s) + 1) /\ Append(s, e)[i] = s[i]
  OBVIOUS

Run == [step : {"idle", "claimed", "linked", "changing", "settling"},
        event : 0..MaxWebhooks, changes : Changes, outcome : Outcomes]
Row == [status : Statuses, stale : BOOLEAN]

LEMMA InitInv == Init => IInv
  <1> SUFFICES ASSUME Init PROVE IInv
    OBVIOUS
  <1> USE DEF Init
  <1>1. remote \in Contents
    BY MappingAssumption DEF Contents
  <1>2. NoRow \in Row
    BY DEF NoRow, Row, Statuses
  <1>3. NoChange \in Changes
    BY DEF NoChange, Changes
  <1>4. NoRun \in Run
    BY <1>3, BoundAssumption DEF NoRun, Run, Outcomes
  <1>5. webhook \in Seq(Updates \cup CommentEvents) /\ Len(webhook) <= MaxWebhooks
    BY BoundAssumption
  <1>6. outbound \in Seq(Executions) /\ Len(outbound) <= edits
    OBVIOUS
  <1>7. TypeOK
    BY <1>1, <1>2, <1>4, <1>5, <1>6, BoundAssumption DEF TypeOK, Row, Run, NoRun, Webhooks
  <1>8. RowsAnnounced /\ ChangesAreUpdates /\ RunsTell /\ OutcomesAreTrue
    BY DEF RowsAnnounced, ChangesAreUpdates, RunsTell, OutcomesAreTrue, Tells, NoRow, NoRun
  <1> QED
    BY <1>6, <1>7, <1>8 DEF IInv, NothingSentBack

(* A step outside processPending and the route leaves rows and runs alone.   *)
LEMMA OutsideKeeps ==
  ASSUME IInv, Grows, row' = row, run' = run
  PROVE  RowsAnnounced' /\ ChangesAreUpdates' /\ RunsTell' /\ OutcomesAreTrue'
  <1> USE DEF IInv
  <1>1. \A w \in Workers : run[w].step # "idle" => run[w].event \in 1..Len(webhook)
    BY DEF TypeOK
  <1>2. RowsAnnounced'
    BY DEF RowsAnnounced, Grows
  <1>3. ChangesAreUpdates'
    BY <1>1 DEF ChangesAreUpdates, Grows, Event
  <1>4. RunsTell'
    <2> SUFFICES ASSUME NEW w \in Workers, run[w].step = "settling"
                 PROVE  Tells(run[w].event, run[w].outcome)'
      BY DEF RunsTell
    <2>1. run[w].event \in 1..Len(webhook) /\ Tells(run[w].event, run[w].outcome)
      BY <1>1 DEF RunsTell
    <2> QED
      BY <2>1, TellsStays DEF Tells
  <1>5. OutcomesAreTrue'
    <2> SUFFICES ASSUME NEW i \in Webhooks PROVE Tells(i, row[i].status)'
      BY DEF OutcomesAreTrue
    <2>1. CASE row[i].status = "none"
      BY <2>1 DEF Tells
    <2>2. CASE row[i].status # "none"
      <3>1. i \in 1..Len(webhook) /\ Tells(i, row[i].status)
        BY <2>2 DEF RowsAnnounced, OutcomesAreTrue
      <3> QED
        BY <3>1, TellsStays DEF Tells
    <2> QED
      BY <2>1, <2>2
  <1> QED
    BY <1>2, <1>3, <1>4, <1>5

(* What is left to show of such a step.                                      *)
LEMMA OutsideSuffices ==
  ASSUME IInv, Grows, UNCHANGED inbound, NothingSentBack',
         ticket' \in [Fields -> Values], messages' = messages, edits' \in 0..MaxEdits,
         outbound' \in Seq(Executions), remote' \in Contents,
         webhook' \in Seq(Updates \cup CommentEvents), Len(webhook') <= MaxWebhooks
  PROVE  IInv'
  <1>1. row' = row /\ run' = run /\ applied' = applied
    BY DEF inbound
  <1>2. TypeOK'
    BY <1>1 DEF IInv, TypeOK, Grows
  <1> QED
    BY <1>1, <1>2, OutsideKeeps DEF IInv

LEMMA SameWebhooksGrow ==
  ASSUME TypeOK, webhook' = webhook, applied' = applied, messages' = messages
  PROVE  Grows
  BY DEF Grows

LEMMA ReplaceKeeps ==
  ASSUME NEW k \in DOMAIN outbound, NEW x \in Executions, TypeOK,
         outbound' = [outbound EXCEPT ![k] = x]
  PROVE  outbound' \in Seq(Executions) /\ Len(outbound') = Len(outbound)
  BY DEF TypeOK

LEMMA LenInNat == TypeOK => Len(outbound) \in Nat /\ Len(webhook) \in Nat
  BY DEF TypeOK

LEMMA AgentEditInv ==
  ASSUME IInv, NEW f \in Fields, NEW v \in Values, AgentEdit(f, v)
  PROVE  IInv'
  <1> USE DEF AgentEdit
  <1>1. TypeOK
    BY DEF IInv
  <1>2. outbound' = Append(outbound, Pending)
    BY DEF UpdateTicket, Forwarded
  <1>3. Pending \in Executions
    BY DEF Executions
  <1>4. outbound' \in Seq(Executions) /\ Len(outbound') = Len(outbound) + 1
    BY <1>1, <1>2, <1>3, AppendGrows DEF TypeOK
  <1>5. edits' \in 0..MaxEdits /\ edits' = edits + 1
    BY <1>1, BoundAssumption DEF TypeOK
  <1>6. NothingSentBack'
    BY <1>1, <1>4, <1>5, LenInNat DEF IInv, NothingSentBack, TypeOK
  <1>7. ticket' \in [Fields -> Values]
    <2> DEFINE changes == [NoChange EXCEPT ![f] = v]
    <2>1. \A g \in Fields : changes[g] \in Values \cup {None}
      BY DEF NoChange
    <2>2. ticket' = [g \in Fields |-> IF changes[g] = None THEN ticket[g] ELSE changes[g]]
      BY DEF UpdateTicket
    <2> HIDE DEF changes
    <2> QED
      BY <1>1, <2>1, <2>2 DEF TypeOK
  <1>8. UNCHANGED <<messages, remote, webhook, inbound>>
    OBVIOUS
  <1> HIDE DEF AgentEdit
  <1>9. Grows
    BY <1>1, <1>8, SameWebhooksGrow DEF inbound
  <1> QED
    BY <1>1, <1>4, <1>5, <1>6, <1>7, <1>8, <1>9, OutsideSuffices DEF TypeOK

LEMMA RuleChangesInv ==
  ASSUME IInv, NEW f \in Fields, NEW v \in Values, RuleChanges(f, v)
  PROVE  IInv'
  <1> USE DEF RuleChanges
  <1>1. TypeOK
    BY DEF IInv
  <1>2. Pending \in Executions
    BY DEF Executions
  <1>3. /\ Append(outbound, Pending) \in Seq(Executions)
        /\ Len(Append(outbound, Pending)) = Len(outbound) + 1
    BY <1>1, <1>2, AppendGrows DEF TypeOK
  <1>4. outbound' = Append(outbound, Pending) \/ outbound' = outbound
    OBVIOUS
  <1>5. outbound' \in Seq(Executions) /\ Len(outbound') <= Len(outbound) + 1
    <2>1. outbound \in Seq(Executions) /\ Len(outbound) <= Len(outbound) + 1
      BY <1>1, LenInNat DEF TypeOK
    <2>2. Len(outbound) + 1 <= Len(outbound) + 1
      BY <1>1, LenInNat
    <2> HIDE DEF RuleChanges
    <2> QED
      BY <1>3, <1>4, <2>1, <2>2
  <1>6. Len(outbound') \in Nat
    BY <1>5
  <1>7. edits' \in 0..MaxEdits /\ edits' = edits + 1
    BY <1>1, BoundAssumption DEF TypeOK
  <1>8. NothingSentBack'
    BY <1>1, <1>5, <1>6, <1>7, LenInNat DEF IInv, NothingSentBack, TypeOK
  <1>9. ticket' \in [Fields -> Values] /\ UNCHANGED <<messages, remote, webhook, inbound>>
    BY <1>1 DEF TypeOK
  <1> HIDE DEF RuleChanges
  <1>10. Grows
    BY <1>1, <1>9, SameWebhooksGrow DEF inbound
  <1> QED
    BY <1>1, <1>5, <1>7, <1>8, <1>9, <1>10, OutsideSuffices DEF TypeOK

(* Dispatch, and a request that is lost, touch one execution.                *)
LEMMA DispatchInv ==
  ASSUME IInv, NEW k \in DOMAIN outbound, Dispatch(k) \/ RemoteLoses(k)
  PROVE  IInv'
  <1>1. TypeOK
    BY DEF IInv
  <1>2. PICK x \in Executions : outbound' = [outbound EXCEPT ![k] = x]
    <2>1. Over \in Executions
      BY DEF Executions
    <2>2. [f \in Fields |-> Exported[f][ticket[f]]] \in Contents
      BY <1>1, MappingAssumption DEF Contents, TypeOK
    <2>3. Sent([f \in Fields |-> Exported[f][ticket[f]]]) \in Executions
      BY <2>2 DEF Executions
    <2> QED
      BY <2>1, <2>3 DEF Dispatch, RemoteLoses
  <1>3. UNCHANGED <<local, remote, webhook, inbound>>
    BY DEF Dispatch, RemoteLoses
  <1>4. outbound' \in Seq(Executions) /\ Len(outbound') = Len(outbound)
    BY <1>1, <1>2, ReplaceKeeps
  <1>5. NothingSentBack'
    BY <1>3, <1>4 DEF IInv, NothingSentBack, local
  <1>6. Grows
    BY <1>1, <1>3, SameWebhooksGrow DEF inbound, local
  <1> QED
    BY <1>1, <1>3, <1>4, <1>5, <1>6, OutsideSuffices DEF TypeOK, local

(* Zendesk's steps keep or extend what was announced.                        *)
LEMMA AnnounceGrows ==
  ASSUME TypeOK, Announce, remote' \in Contents, applied' = applied,
         messages' = messages
  PROVE  /\ Grows
         /\ webhook' \in Seq(Updates \cup CommentEvents)
         /\ Len(webhook') <= MaxWebhooks
  <1>1. CASE Len(webhook) = MaxWebhooks
    <2>1. webhook' = webhook
      BY <1>1 DEF Announce
    <2> QED
      BY <2>1, SameWebhooksGrow DEF TypeOK
  <1>2. CASE Len(webhook) # MaxWebhooks
    <2>1. PICK shown \in (SUBSET Fields) \ {{}} :
            webhook' = Append(webhook, [kind |-> "update", fields |-> shown,
                                        content |-> remote'])
      BY <1>2 DEF Announce
    <2> DEFINE e == [kind |-> "update", fields |-> shown, content |-> remote']
    <2>2. e \in Updates \cup CommentEvents
      BY DEF Updates
    <2>3. webhook' = Append(webhook, e)
      BY <2>1
    <2> HIDE DEF e
    <2>4. /\ webhook' \in Seq(Updates \cup CommentEvents)
          /\ Len(webhook') = Len(webhook) + 1
          /\ \A i \in 1..Len(webhook) : i \in 1..Len(webhook') /\ webhook'[i] = webhook[i]
      BY <2>2, <2>3, AppendGrows DEF TypeOK
    <2>5. Len(webhook') <= MaxWebhooks
      BY <1>2, <2>4, LenInNat, BoundAssumption DEF TypeOK
    <2> QED
      BY <2>4, <2>5 DEF Grows
  <1> QED
    BY <1>1, <1>2

LEMMA RemoteEditInv ==
  ASSUME IInv, NEW f \in Fields, NEW v \in RemoteValues, RemoteEdit(f, v)
  PROVE  IInv'
  <1>1. TypeOK /\ UNCHANGED <<local, outbound, inbound>> /\ Announce
    BY DEF IInv, RemoteEdit
  <1>2. remote' \in Contents
    BY <1>1 DEF RemoteEdit, TypeOK, Contents
  <1>3. /\ Grows
        /\ webhook' \in Seq(Updates \cup CommentEvents)
        /\ Len(webhook') <= MaxWebhooks
    BY <1>1, <1>2, AnnounceGrows DEF local, inbound
  <1>4. NothingSentBack'
    BY <1>1 DEF IInv, NothingSentBack, local
  <1> QED
    BY <1>1, <1>2, <1>3, <1>4, OutsideSuffices DEF TypeOK, local

LEMMA RemoteAppliesInv ==
  ASSUME IInv, NEW k \in DOMAIN outbound, RemoteApplies(k)
  PROVE  IInv'
  <1>1. TypeOK /\ UNCHANGED <<local, inbound>> /\ Announce
    BY DEF IInv, RemoteApplies
  <1>2. Over \in Executions
    BY DEF Executions
  <1>3. outbound' \in Seq(Executions) /\ Len(outbound') = Len(outbound)
    BY <1>1, <1>2, ReplaceKeeps DEF RemoteApplies
  <1>4. remote' \in Contents
    <2>1. outbound[k] \in Executions /\ outbound[k].state = "sent"
      BY <1>1 DEF TypeOK, RemoteApplies
    <2>2. PICK content \in Contents : outbound[k] = Sent(content)
      BY <2>1 DEF Executions, Pending, Over
    <2> QED
      BY <2>2 DEF RemoteApplies, Sent
  <1>5. /\ Grows
        /\ webhook' \in Seq(Updates \cup CommentEvents)
        /\ Len(webhook') <= MaxWebhooks
    BY <1>1, <1>4, AnnounceGrows DEF local, inbound
  <1>6. NothingSentBack'
    BY <1>1, <1>3 DEF IInv, NothingSentBack, local
  <1> QED
    BY <1>1, <1>3, <1>4, <1>5, <1>6, OutsideSuffices DEF TypeOK, local

LEMMA RemoteCommentInv ==
  ASSUME IInv, NEW c \in Comments, RemoteComment(c)
  PROVE  IInv'
  <1> DEFINE e == [kind |-> "comment", comment |-> c]
  <1>1. TypeOK /\ UNCHANGED <<local, outbound, remote, inbound>>
    BY DEF IInv, RemoteComment
  <1>2. e \in Updates \cup CommentEvents
    BY DEF CommentEvents
  <1>3. webhook' = Append(webhook, e) /\ Len(webhook) < MaxWebhooks
    BY DEF RemoteComment
  <1> HIDE DEF e
  <1>4. /\ webhook' \in Seq(Updates \cup CommentEvents)
        /\ Len(webhook') = Len(webhook) + 1
        /\ \A i \in 1..Len(webhook) : i \in 1..Len(webhook') /\ webhook'[i] = webhook[i]
    BY <1>1, <1>2, <1>3, AppendGrows DEF TypeOK
  <1>5. Len(webhook') <= MaxWebhooks
    BY <1>1, <1>3, <1>4, LenInNat, BoundAssumption
  <1>6. Grows
    BY <1>1, <1>4 DEF Grows, local, inbound
  <1>7. NothingSentBack'
    BY <1>1 DEF IInv, NothingSentBack, local
  <1> QED
    BY <1>1, <1>4, <1>5, <1>6, <1>7, OutsideSuffices DEF TypeOK, local

(* A run goes on or ends, and leaves the rows alone.                         *)
LEMMA RunStep ==
  ASSUME IInv, NEW w \in Workers, NEW r \in Run, run' = [run EXCEPT ![w] = r],
         Grows, webhook' = webhook, row' = row, remote' = remote, edits' = edits,
         ticket' \in [Fields -> Values], outbound' \in Seq(Executions),
         messages' \in [Comments -> Webhooks \cup {None}], applied' \subseteq Webhooks,
         NothingSentBack',
         r.step = "idle" \/ (run[w].step # "idle" /\ r.event = run[w].event),
         r.step = "changing" => Event(w).kind = "update",
         r.step = "settling" => Tells(r.event, r.outcome)'
  PROVE  IInv'
  <1>1. \A v \in Workers \ {w} : run'[v] = run[v]
    BY DEF IInv, TypeOK
  <1>2. run'[w] = r
    BY DEF IInv, TypeOK
  <1>3. run' \in [Workers -> Run]
    BY DEF IInv, TypeOK, Run
  <1>4. \A v \in Workers : run'[v].step # "idle" =>
          run'[v].event \in 1..Len(webhook) /\ row[run'[v].event].status \notin {"none", "pending"}
    BY <1>1, <1>2 DEF IInv, TypeOK
  <1>5. TypeOK'
    BY <1>3, <1>4 DEF IInv, TypeOK, Run
  <1>6. RowsAnnounced'
    BY DEF IInv, RowsAnnounced
  <1>7. ChangesAreUpdates'
    BY <1>1, <1>2 DEF IInv, ChangesAreUpdates, Event
  <1>8. RunsTell'
    <2> SUFFICES ASSUME NEW v \in Workers, run'[v].step = "settling"
                 PROVE  Tells(run[v].event, run[v].outcome)'
      BY DEF RunsTell
    <2>1. CASE v = w
      BY <2>1, <1>2 DEF Tells
    <2>2. CASE v # w
      <3>1. run[v].event \in 1..Len(webhook) /\ Tells(run[v].event, run[v].outcome)
        BY <1>1, <2>2 DEF IInv, TypeOK, RunsTell
      <3>2. run'[v] = run[v]
        BY <1>1, <2>2
      <3> QED
        BY <3>1, <3>2, TellsStays DEF Tells, IInv
    <2> QED
      BY <2>1, <2>2
  <1>9. OutcomesAreTrue'
    <2> SUFFICES ASSUME NEW i \in Webhooks PROVE Tells(i, row[i].status)'
      BY DEF OutcomesAreTrue
    <2>1. CASE row[i].status = "none"
      BY <2>1 DEF Tells
    <2>2. CASE row[i].status # "none"
      <3>1. i \in 1..Len(webhook) /\ Tells(i, row[i].status)
        BY <2>2 DEF IInv, RowsAnnounced, OutcomesAreTrue
      <3> QED
        BY <3>1, TellsStays DEF Tells, IInv
    <2> QED
      BY <2>1, <2>2
  <1> QED
    BY <1>5, <1>6, <1>7, <1>8, <1>9 DEF IInv

(* A row is written, and at most the run of one worker changes with it.      *)
LEMMA RowStep ==
  ASSUME IInv, NEW i \in 1..Len(webhook), NEW r \in Row, row' = [row EXCEPT ![i] = r],
         UNCHANGED <<local, sync, applied>>, r.status # "none",
         r.status = "pending" => row[i].status \in {"none", "pending"},
         Tells(i, r.status), run' \in [Workers -> Run],
         \A w \in Workers :
           \/ run'[w] = run[w] \/ run'[w].step = "idle"
           \/ run'[w].step = "claimed" /\ run'[w].event = i /\ r.status = "processing"
  PROVE  IInv'
  <1>1. i \in Webhooks
    BY BoundAssumption, LenInNat DEF IInv, TypeOK, Webhooks
  <1>2. row'[i] = r /\ \A j \in Webhooks \ {i} : row'[j] = row[j]
    BY <1>1 DEF IInv, TypeOK
  <1>3. row' \in [Webhooks -> Row]
    BY <1>1 DEF IInv, TypeOK, Row
  <1>4. webhook' = webhook /\ outbound' = outbound /\ remote' = remote
        /\ ticket' = ticket /\ messages' = messages /\ edits' = edits
        /\ applied' = applied
    BY DEF local, sync
  <1>5. \A w \in Workers : run'[w].step # "idle" =>
          run'[w].event \in 1..Len(webhook) /\ row'[run'[w].event].status \notin {"none", "pending"}
    <2> SUFFICES ASSUME NEW w \in Workers, run'[w].step # "idle"
                 PROVE  run'[w].event \in 1..Len(webhook)
                        /\ row'[run'[w].event].status \notin {"none", "pending"}
      OBVIOUS
    <2>1. CASE run'[w] = run[w]
      <3>1. run[w].event \in 1..Len(webhook)
            /\ row[run[w].event].status \notin {"none", "pending"}
        BY <2>1 DEF IInv, TypeOK
      <3>2. run[w].event \in Webhooks
        BY <3>1, BoundAssumption, LenInNat DEF IInv, TypeOK, Webhooks
      <3> QED
        BY <2>1, <3>1, <3>2, <1>2
    <2>2. CASE run'[w].event = i /\ r.status = "processing"
      BY <2>2, <1>2
    <2> QED
      BY <2>1, <2>2
  <1>6. TypeOK'
    BY <1>3, <1>4, <1>5 DEF IInv, TypeOK, Row, Run
  <1>7. RowsAnnounced'
    BY <1>2, <1>4 DEF IInv, RowsAnnounced
  <1>8. ChangesAreUpdates'
    BY <1>4 DEF IInv, ChangesAreUpdates, Event
  <1>9. RunsTell'
    BY <1>4 DEF IInv, RunsTell, Tells
  <1>10. OutcomesAreTrue'
    BY <1>2, <1>4 DEF IInv, OutcomesAreTrue, Tells
  <1>11. NothingSentBack'
    BY <1>4 DEF IInv, NothingSentBack
  <1> QED
    BY <1>6, <1>7, <1>8, <1>9, <1>10, <1>11 DEF IInv

LEMMA EnqueueInv ==
  ASSUME IInv, NEW i \in DOMAIN webhook, Enqueue(i)
  PROVE  IInv'
  <1>1. i \in 1..Len(webhook) /\ i \in Webhooks
    BY LenInNat, BoundAssumption DEF IInv, TypeOK, Webhooks
  <1>2. Enqueued(i) \in Row /\ Enqueued(i).status # "none"
    BY <1>1 DEF IInv, TypeOK, Enqueued, Row, Statuses
  <1>3. Enqueued(i).status = "pending" => row[i].status \in {"none", "pending"}
    BY DEF Enqueued
  <1>4. Tells(i, Enqueued(i).status)
    BY <1>1 DEF IInv, OutcomesAreTrue, Enqueued, Tells
  <1> QED
    BY <1>1, <1>2, <1>3, <1>4, RowStep DEF Enqueue, IInv, TypeOK, Run

LEMMA GrowsStaleInv ==
  ASSUME IInv, NEW i \in DOMAIN webhook, GrowsStale(i)
  PROVE  IInv'
  <1> DEFINE r == [row[i] EXCEPT !.stale = TRUE]
  <1>1. i \in 1..Len(webhook) /\ i \in Webhooks
    BY LenInNat, BoundAssumption DEF IInv, TypeOK, Webhooks
  <1>2. r \in Row /\ r.status = "processing"
    BY <1>1 DEF IInv, TypeOK, Row, GrowsStale
  <1>3. row' = [row EXCEPT ![i] = r]
    BY <1>1 DEF GrowsStale, IInv, TypeOK
  <1>4. Tells(i, r.status)
    BY <1>2 DEF Tells
  <1> HIDE DEF r
  <1> QED
    BY <1>1, <1>2, <1>3, <1>4, RowStep DEF GrowsStale, IInv, TypeOK, Run

LEMMA ClaimInv ==
  ASSUME IInv, NEW w \in Workers, NEW i \in DOMAIN webhook, Claim(w, i)
  PROVE  IInv'
  <1> DEFINE r == [status |-> "processing", stale |-> FALSE]
             q == [NoRun EXCEPT !.step = "claimed", !.event = i]
  <1>1. i \in 1..Len(webhook) /\ i \in 0..MaxWebhooks
    BY LenInNat, BoundAssumption DEF IInv, TypeOK
  <1>2. r \in Row /\ Tells(i, r.status)
    BY DEF Row, Statuses, Tells
  <1>3. NoChange \in Changes
    BY DEF NoChange, Changes
  <1>4. q \in Run /\ q.step = "claimed" /\ q.event = i
    BY <1>1, <1>3 DEF NoRun, Run, Outcomes
  <1>5. run' = [run EXCEPT ![w] = q] /\ row' = [row EXCEPT ![i] = r]
    BY DEF Claim
  <1>6. run' \in [Workers -> Run]
        /\ \A v \in Workers : run'[v] = run[v] \/ run'[v] = q
    BY <1>4, <1>5 DEF IInv, TypeOK, Run
  <1>7. r.status = "processing" /\ UNCHANGED <<local, sync, applied>>
    BY DEF Claim
  <1> HIDE DEF q, r
  <1> QED
    BY <1>1, <1>2, <1>4, <1>5, <1>6, <1>7, RowStep

LEMMA NoRunIsRun == NoRun \in Run /\ NoRun.step = "idle"
  <1>1. NoChange \in Changes
    BY DEF NoChange, Changes
  <1> QED
    BY <1>1, BoundAssumption DEF NoRun, Run, Outcomes

(* The outcome of a run, or its failure, is written.                         *)
LEMMA OutcomeInv ==
  ASSUME IInv, NEW w \in Workers, Settle(w) \/ Err(w)
  PROVE  IInv'
  <1> DEFINE i == run[w].event
             s == IF Settle(w) THEN run[w].outcome ELSE "failed"
             r == [status |-> s, stale |-> FALSE]
  <1>1. i \in 1..Len(webhook)
    BY DEF IInv, TypeOK, Settle, Err
  <1>2. s \in Outcomes
    BY DEF IInv, TypeOK, Outcomes
  <1>3. r \in Row /\ r.status = s /\ s # "none" /\ s # "pending" /\ s # "processing"
    BY <1>2 DEF Row, Statuses, Outcomes
  <1>4. Tells(i, s)
    <2>1. CASE Settle(w)
      BY <2>1 DEF IInv, RunsTell, Settle
    <2>2. CASE ~Settle(w)
      BY <2>2 DEF Tells
    <2> QED
      BY <2>1, <2>2
  <1>5. row' = [row EXCEPT ![i] = r]
    <2>1. CASE Settle(w)
      BY <2>1 DEF Settle, SettledStatus
    <2>2. CASE ~Settle(w)
      BY <2>2 DEF Err
    <2> QED
      BY <2>1, <2>2
  <1>6. run' = [run EXCEPT ![w] = NoRun] /\ UNCHANGED <<local, sync, applied>>
    BY DEF Settle, Err
  <1>7. run' \in [Workers -> Run]
        /\ \A v \in Workers : run'[v] = run[v] \/ run'[v].step = "idle"
    BY <1>6, NoRunIsRun DEF IInv, TypeOK, Run
  <1> HIDE DEF i, r, s
  <1> QED
    BY <1>1, <1>3, <1>4, <1>5, <1>6, <1>7, RowStep

LEMMA LookUpLinkInv ==
  ASSUME IInv, NEW w \in Workers, LookUpLink(w) \/ Die(w)
  PROVE  IInv'
  <1>1. TypeOK /\ UNCHANGED <<local, sync, row, applied>> /\ run[w].step # "idle"
    BY DEF IInv, LookUpLink, Die
  <1>2. Grows
    BY <1>1, SameWebhooksGrow DEF local, sync
  <1>3. run[w] \in Run
    BY <1>1 DEF TypeOK, Run
  <1>4. PICK r \in Run :
          /\ run' = [run EXCEPT ![w] = r]
          /\ r.step = "idle" \/ r.event = run[w].event
          /\ r.step # "changing"
          /\ r.step = "settling" => Tells(r.event, r.outcome)
    <2>1. CASE Die(w)
      BY <2>1, NoRunIsRun DEF Die
    <2>2. CASE EndWith(w, "unlinked")
      <3> DEFINE r == [run[w] EXCEPT !.step = "settling", !.outcome = "unlinked",
                                     !.changes = NoChange]
      <3>1. r \in Run /\ r.event = run[w].event /\ Tells(r.event, r.outcome)
            /\ r.step # "changing"
        BY <1>3, NoRunIsRun DEF Run, Outcomes, Tells, NoRun
      <3>2. run' = [run EXCEPT ![w] = r]
        BY <1>1, <2>2 DEF EndWith, TypeOK
      <3> HIDE DEF r
      <3> QED
        BY <3>1, <3>2
    <2>3. CASE /\ Event(w).kind = "comment" /\ Event(w).comment \notin ByCustomer
               /\ EndWith(w, "ignored")
      <3> DEFINE r == [run[w] EXCEPT !.step = "settling", !.outcome = "ignored",
                                     !.changes = NoChange]
      <3>1. r \in Run /\ r.event = run[w].event /\ Tells(r.event, r.outcome)
            /\ r.step # "changing"
        BY <1>3, <2>3, NoRunIsRun DEF Run, Outcomes, Tells, NoRun, Event
      <3>2. run' = [run EXCEPT ![w] = r]
        BY <1>1, <2>3 DEF EndWith, TypeOK
      <3> HIDE DEF r
      <3> QED
        BY <3>1, <3>2
    <2>4. CASE run' = [run EXCEPT ![w].step = "linked"]
      <3> DEFINE r == [run[w] EXCEPT !.step = "linked"]
      <3>1. r \in Run /\ r.event = run[w].event /\ r.step = "linked"
        BY <1>3 DEF Run
      <3>2. run' = [run EXCEPT ![w] = r]
        BY <1>1, <2>4 DEF TypeOK
      <3> QED
        BY <3>1, <3>2
    <2> QED
      BY <2>1, <2>2, <2>3, <2>4 DEF LookUpLink
  <1>5. r.step = "settling" => Tells(r.event, r.outcome)'
    BY <1>1, <1>4 DEF Tells, local, sync
  <1>6. NothingSentBack'
    BY <1>1 DEF IInv, NothingSentBack, local, sync
  <1> QED
    BY <1>1, <1>2, <1>4, <1>5, <1>6, RunStep DEF TypeOK, local, sync

LEMMA StoreMessageInv ==
  ASSUME IInv, NEW w \in Workers, StoreMessage(w)
  PROVE  IInv'
  <1> DEFINE i == run[w].event
             c == webhook[i].comment
             o == OutcomeOf(messages[c])
  <1>1. /\ TypeOK /\ UNCHANGED <<ticket, edits, sync, row, applied>>
        /\ run[w].step = "linked" /\ webhook[i].kind = "comment"
    BY DEF IInv, StoreMessage, Event
  <1>2. i \in 1..Len(webhook) /\ i \in Webhooks
    BY <1>1, LenInNat, BoundAssumption DEF TypeOK, Webhooks
  <1>3. c \in Comments
    <2>1. webhook[i] \in Updates \cup CommentEvents
      BY <1>1, <1>2 DEF TypeOK
    <2> QED
      BY <1>1, <2>1 DEF Updates, CommentEvents
  <1>4. messages' = IF messages[c] = None THEN [messages EXCEPT ![c] = i] ELSE messages
    BY DEF StoreMessage, Event
  <1>5. PICK r \in Run : /\ run' = [run EXCEPT ![w] = r]
                         /\ r.step = "settling" /\ r.event = i /\ r.outcome = o
    <2> DEFINE r == [run[w] EXCEPT !.step = "settling", !.outcome = o, !.changes = NoChange]
    <2>1. run[w] \in Run /\ run' = [run EXCEPT ![w] = r]
      BY <1>1 DEF TypeOK, Run, StoreMessage, EndWith, Event
    <2>2. o \in Outcomes
      BY DEF OutcomeOf, Outcomes
    <2>3. r \in Run /\ r.step = "settling" /\ r.event = i /\ r.outcome = o
      BY <2>1, <2>2, NoRunIsRun DEF Run, NoRun
    <2> HIDE DEF r
    <2> QED
      BY <2>1, <2>3
  <1>6. messages' \in [Comments -> Webhooks \cup {None}]
    BY <1>1, <1>2, <1>4 DEF TypeOK
  <1>7. Grows
    BY <1>1, <1>4 DEF Grows, sync, TypeOK
  <1>8. Tells(r.event, r.outcome)'
    <2>1. webhook' = webhook
      BY <1>1 DEF sync
    <2>2. CASE messages[c] = None
      <3>1. r.outcome = "succeeded" /\ messages'[c] = i
        BY <1>1, <1>3, <1>4, <1>5, <2>2 DEF OutcomeOf, TypeOK
      <3> QED
        BY <1>1, <1>5, <2>1, <3>1 DEF Tells
    <2>3. CASE messages[c] # None
      <3>1. r.outcome = "ignored" /\ messages'[c] # None
        BY <1>4, <1>5, <2>3 DEF OutcomeOf
      <3> QED
        BY <1>1, <1>5, <2>1, <3>1 DEF Tells
    <2> QED
      BY <2>2, <2>3
  <1>9. NothingSentBack'
    BY <1>1 DEF IInv, NothingSentBack, sync
  <1> HIDE DEF i, o, c
  <1> QED
    BY <1>1, <1>5, <1>6, <1>7, <1>8, <1>9, RunStep DEF TypeOK, sync, i

LEMMA ReadTicketInv ==
  ASSUME IInv, NEW w \in Workers, ReadTicket(w)
  PROVE  IInv'
  <1>1. TypeOK /\ UNCHANGED <<local, sync, row, applied>> /\ run[w].step # "idle"
        /\ Event(w).kind = "update"
    BY DEF IInv, ReadTicket
  <1>2. Grows
    BY <1>1, SameWebhooksGrow DEF local, sync
  <1>3. run[w] \in Run
    BY <1>1 DEF TypeOK, Run
  <1>4. PICK r \in Run :
          /\ run' = [run EXCEPT ![w] = r]
          /\ r.event = run[w].event
          /\ r.step = "settling" => r.outcome = "ignored"
    <2>1. CASE EndWith(w, "ignored")
      <3> DEFINE r == [run[w] EXCEPT !.step = "settling", !.outcome = "ignored",
                                     !.changes = NoChange]
      <3>1. r \in Run /\ r.event = run[w].event /\ r.outcome = "ignored"
        BY <1>3, NoRunIsRun DEF Run, Outcomes, NoRun
      <3>2. run' = [run EXCEPT ![w] = r]
        BY <1>1, <2>1 DEF EndWith, TypeOK
      <3> HIDE DEF r
      <3> QED
        BY <3>1, <3>2
    <2>2. CASE run' = [run EXCEPT ![w].step = "changing", ![w].changes = Wanted(w)]
      <3> DEFINE r == [run[w] EXCEPT !.step = "changing", !.changes = Wanted(w)]
      <3>1. Wanted(w) \in Changes
        <4>1. Event(w) \in Updates
          <5>1. run[w].event \in 1..Len(webhook)
            BY <1>1 DEF TypeOK
          <5>2. Event(w) \in Updates \cup CommentEvents
            BY <1>1, <5>1 DEF TypeOK, Event
          <5> QED
            BY <1>1, <5>2 DEF CommentEvents
        <4>2. \A f \in Fields : Localized[f][Event(w).content[f]] \in Values
          BY <4>1, MappingAssumption DEF Updates, Contents
        <4> QED
          BY <4>2 DEF Wanted, Changes
      <3>2. r \in Run /\ r.event = run[w].event /\ r.step = "changing"
        BY <1>3, <3>1 DEF Run
      <3>3. run' = [run EXCEPT ![w] = r]
        BY <1>1, <2>2 DEF TypeOK
      <3> HIDE DEF r
      <3> QED
        BY <3>2, <3>3
    <2> QED
      BY <2>1, <2>2 DEF ReadTicket
  <1>5. r.step = "settling" => Tells(r.event, r.outcome)'
    BY <1>1, <1>4 DEF Tells, Event, local, sync
  <1>6. NothingSentBack'
    BY <1>1 DEF IInv, NothingSentBack, local, sync
  <1> QED
    BY <1>1, <1>2, <1>4, <1>5, <1>6, RunStep DEF TypeOK, local, sync

LEMMA ChangeTicketInv ==
  ASSUME IInv, NEW w \in Workers, ChangeTicket(w)
  PROVE  IInv'
  <1> DEFINE i == run[w].event
  <1>1. /\ TypeOK /\ UNCHANGED <<messages, edits, remote, webhook, row>>
        /\ run[w].step = "changing"
    BY DEF IInv, ChangeTicket
  <1>2. i \in 1..Len(webhook) /\ i \in Webhooks
    BY <1>1, LenInNat, BoundAssumption DEF TypeOK, Webhooks
  <1>3. webhook[i].kind = "update"
    BY <1>1 DEF IInv, ChangesAreUpdates, Event
  <1>4. applied' = applied \cup {i}
    BY DEF ChangeTicket
  <1>5. outbound' = outbound
    BY DEF ChangeTicket, UpdateTicket, Forwarded
  <1>6. ticket' \in [Fields -> Values]
    <2>1. run[w].changes \in Changes
      BY <1>1 DEF TypeOK
    <2>2. ticket' = [f \in Fields |-> IF run[w].changes[f] = None THEN ticket[f]
                                     ELSE run[w].changes[f]]
      BY DEF ChangeTicket, UpdateTicket
    <2> QED
      BY <1>1, <2>1, <2>2 DEF Changes, TypeOK
  <1>7. PICK r \in Run : /\ run' = [run EXCEPT ![w] = r]
                         /\ r.step = "settling" /\ r.event = i /\ r.outcome = "succeeded"
    <2> DEFINE r == [run[w] EXCEPT !.step = "settling", !.outcome = "succeeded",
                                   !.changes = NoChange]
    <2>1. run[w] \in Run /\ run' = [run EXCEPT ![w] = r]
      BY <1>1 DEF TypeOK, Run, ChangeTicket, EndWith
    <2>2. r \in Run /\ r.step = "settling" /\ r.event = i /\ r.outcome = "succeeded"
      BY <2>1, NoRunIsRun DEF Run, NoRun, Outcomes
    <2> HIDE DEF r
    <2> QED
      BY <2>1, <2>2
  <1>8. Grows
    BY <1>1, <1>4 DEF Grows
  <1>9. Tells(r.event, r.outcome)'
    BY <1>1, <1>3, <1>4, <1>7 DEF Tells
  <1>10. NothingSentBack'
    BY <1>1, <1>5 DEF IInv, NothingSentBack
  <1> HIDE DEF i
  <1> QED
    BY <1>1, <1>2, <1>4, <1>5, <1>6, <1>7, <1>8, <1>9, <1>10, RunStep DEF TypeOK, i

LEMMA StutterInv == ASSUME IInv, UNCHANGED vars PROVE IInv'
  BY DEF IInv, TypeOK, RowsAnnounced, ChangesAreUpdates, RunsTell, OutcomesAreTrue,
         Tells, Event, NothingSentBack, vars, local, sync, inbound

LEMMA StepInv == ASSUME IInv, [Next]_vars PROVE IInv'
  <1>1. ASSUME NEW w \in Workers, GoesOn(w) PROVE IInv'
    BY <1>1, LookUpLinkInv, StoreMessageInv, ReadTicketInv, ChangeTicketInv, OutcomeInv
       DEF GoesOn
  <1>2. ASSUME NEW k \in DOMAIN outbound,
               Dispatch(k) \/ RemoteApplies(k) \/ RemoteLoses(k)
        PROVE  IInv'
    BY <1>2, DispatchInv, RemoteAppliesInv
  <1>3. ASSUME NEW w \in Workers, Err(w) \/ Die(w) PROVE IInv'
    BY <1>3, OutcomeInv, LookUpLinkInv
  <1> QED
    BY <1>1, <1>2, <1>3, AgentEditInv, RuleChangesInv, RemoteEditInv, RemoteCommentInv, EnqueueInv,
       GrowsStaleInv, ClaimInv, StutterInv DEF Next

LEMMA Invariant == Spec => []IInv
  BY InitInv, StepInv, PTL DEF Spec

(* Rows, runs and requests have their types, a run works on what was         *)
(* announced, and no row goes back to pending under a run.                   *)
THEOREM TypeCorrect == Spec => []TypeOK
  <1>1. IInv => TypeOK
    BY DEF IInv
  <1> QED
    BY <1>1, Invariant, PTL

(* What the row of a webhook says is what became of it, however often it was *)
(* announced, taken over or reported late (IntegrationInboundService).       *)
THEOREM RowsTellTheTruth == Spec => []OutcomesAreTrue
  <1>1. IInv => OutcomesAreTrue
    BY DEF IInv
  <1> QED
    BY <1>1, Invariant, PTL

(* Changes that come from Zendesk bring about no request to it: only those   *)
(* of agents and of automation rules do, at most one each                    *)
(* (integrationSyncBridge, supportAutomationBridge).                         *)
THEOREM NoEcho == Spec => []NothingSentBack
  <1>1. IInv => NothingSentBack
    BY DEF IInv
  <1> QED
    BY <1>1, Invariant, PTL
=============================================================================

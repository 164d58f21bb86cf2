------------------------- MODULE IntegrationInbound -------------------------
(* One local ticket and its counterpart at Zendesk, kept alike in both      *)
(* directions: the changes of agents and automation rules go out as sync    *)
(* executions, and what happens at Zendesk comes back as webhooks           *)
(* (IntegrationInboundService), among them the echoes of our own updates.   *)
(* Webhooks may be repeated, reordered and lost; the runs that apply them   *)
(* may be slow, fail or die.                                                *)
EXTENDS Naturals, Sequences

CONSTANTS Workers,      \* worker processes
          Fields,       \* the fields kept alike: status and priority
          RuledFields,  \* those an automation rule may set: priority
          Values,       \* their local values
          RemoteValues, \* their values at Zendesk
          Localized,    \* field -> remote value -> local value
          Exported,     \* field -> local value -> remote value
          Comments,     \* comments at Zendesk
          ByCustomer,   \* those whose author is an end user
          MaxEdits,     \* bound on the changes by local agents and automation rules
          MaxWebhooks,  \* bound on the webhooks Zendesk sends
          None

ASSUME MappingAssumption ==
  /\ Localized \in [Fields -> [RemoteValues -> Values]]
  /\ Exported \in [Fields -> [Values -> RemoteValues]]
ASSUME CommentAssumption == ByCustomer \subseteq Comments
ASSUME RuleAssumption == RuledFields \subseteq Fields
ASSUME BoundAssumption == MaxEdits \in Nat /\ MaxWebhooks \in Nat
ASSUME NoneAssumption == None \notin Nat /\ None \notin Values

VARIABLES ticket,   \* the fields of the local ticket
          messages, \* comment -> the webhook whose run stored it
          edits,    \* changes by agents and automation rules so far
          outbound, \* the update executions, and what each one sends
          remote,   \* the fields at Zendesk
          webhook,  \* the webhooks sent so far; a webhook's number is its invocation
          row,      \* the integration_inbound_events row of each
          run,      \* what each worker is doing in processPending
          applied   \* webhooks whose changes were written to the ticket

local == <<ticket, messages, edits>>
sync == <<outbound, remote, webhook>>
inbound == <<row, run, applied>>
vars == <<local, sync, inbound>>

Contents == [Fields -> RemoteValues]
Updates == [kind : {"update"}, fields : SUBSET Fields, content : Contents]
CommentEvents == [kind : {"comment"}, comment : Comments]
Webhooks == 1..MaxWebhooks

Pending == [state |-> "pending", content |-> None]
Sent(content) == [state |-> "sent", content |-> content]
Over == [state |-> "over", content |-> None]
Executions == {Pending, Over} \cup {Sent(content) : content \in Contents}

Changes == [Fields -> Values \cup {None}]
NoChange == [f \in Fields |-> None]

(* "unlinked" is ignored with the error "No linked local ticket".            *)
Outcomes == {"succeeded", "ignored", "unlinked", "failed"}
Statuses == {"none", "pending", "processing"} \cup Outcomes
NoRow == [status |-> "none", stale |-> FALSE]
NoRun == [step |-> "idle", event |-> 0, changes |-> NoChange, outcome |-> "ignored"]

TypeOK ==
  /\ ticket \in [Fields -> Values]
  /\ messages \in [Comments -> Webhooks \cup {None}]
  /\ edits \in 0..MaxEdits
  /\ outbound \in Seq(Executions)
  /\ remote \in Contents
  /\ webhook \in Seq(Updates \cup CommentEvents) /\ Len(webhook) <= MaxWebhooks
  /\ row \in [Webhooks -> [status : Statuses, stale : BOOLEAN]]
  /\ run \in [Workers ->
       [step : {"idle", "claimed", "linked", "changing", "settling"},
        event : 0..MaxWebhooks, changes : Changes, outcome : Outcomes]]
  /\ \A w \in Workers : run[w].step # "idle" =>
       run[w].event \in 1..Len(webhook) /\ row[run[w].event].status \notin {"none", "pending"}
  /\ applied \subseteq Webhooks

Init ==
  /\ ticket \in [Fields -> Values]
  /\ messages = [c \in Comments |-> None]
  /\ edits = 0
  /\ outbound = << >>
  /\ remote = [f \in Fields |-> Exported[f][ticket[f]]]
  /\ webhook = << >>
  /\ row = [i \in Webhooks |-> NoRow]
  /\ run = [w \in Workers |-> NoRun]
  /\ applied = {}

-----------------------------------------------------------------------------
(* The sync bridge drops what came from Zendesk.  For the rest its update    *)
(* rule gets an execution, which ends at once, like one without a rule,      *)
(* unless it is dispatched.                                                  *)
ForwardedAlways(source) == TRUE                                     \* defect
Forwarded(source) == source # "zendesk"

(* TicketService.updateTicket, with what its event brings about.             *)
UpdateTicket(changes, source) ==
  /\ ticket' = [f \in Fields |-> IF changes[f] = None THEN ticket[f] ELSE changes[f]]
  /\ outbound' = IF Forwarded(source) THEN Append(outbound, Pending) ELSE outbound

AgentEdit(f, v) ==
  /\ edits < MaxEdits
  /\ edits' = edits + 1
  /\ UpdateTicket([NoChange EXCEPT ![f] = v], "agent")
  /\ UNCHANGED <<messages, remote, webhook, inbound>>

(* An automation rule answers an event on the ticket, or its standing idle,  *)
(* whoever changed it last.  Its own event shows the revision it read, whose *)
(* updated_at may be the key of an earlier execution: then there is no other.*)
RuleChanges(f, v) ==
  /\ edits < MaxEdits /\ f \in RuledFields /\ ticket[f] # v
  /\ edits' = edits + 1
  /\ ticket' = [ticket EXCEPT ![f] = v]
  /\ outbound' \in {Append(outbound, Pending)} \cup
                   (IF outbound = << >> THEN {} ELSE {outbound})
  /\ UNCHANGED <<messages, remote, webhook, inbound>>

(* The outbound sweep sends what the ticket says when it is dispatched, or   *)
(* finds no link.                                                            *)
Dispatch(k) ==
  /\ outbound[k].state = "pending"
  /\ \E linked \in BOOLEAN :
       outbound' = [outbound EXCEPT ![k] =
         IF linked THEN Sent([f \in Fields |-> Exported[f][ticket[f]]]) ELSE Over]
  /\ UNCHANGED <<local, remote, webhook, inbound>>

-----------------------------------------------------------------------------
(* Zendesk.  A change there sends a webhook with some of the fields, as long  *)
(* as the bound allows; one that is lost is never accepted.  One comment may  *)
(* be announced by several.                                                  *)
Announce ==
  IF Len(webhook) = MaxWebhooks THEN UNCHANGED webhook
  ELSE \E shown \in (SUBSET Fields) \ {{}} :
         webhook' = Append(webhook,
           [kind |-> "update", fields |-> shown, content |-> remote'])

RemoteEdit(f, v) ==
  /\ Len(webhook) < MaxWebhooks /\ remote[f] # v
  /\ remote' = [remote EXCEPT ![f] = v]
  /\ Announce
  /\ UNCHANGED <<local, outbound, inbound>>

RemoteApplies(k) ==
  /\ outbound[k].state = "sent"
  /\ outbound' = [outbound EXCEPT ![k] = Over]
  /\ remote' = outbound[k].content
  /\ Announce
  /\ UNCHANGED <<local, inbound>>

RemoteLoses(k) ==
  /\ outbound[k].state = "sent"
  /\ outbound' = [outbound EXCEPT ![k] = Over]
  /\ UNCHANGED <<local, remote, webhook, inbound>>

RemoteComment(c) ==
  /\ Len(webhook) < MaxWebhooks
  /\ webhook' = Append(webhook, [kind |-> "comment", comment |-> c])
  /\ UNCHANGED <<local, outbound, remote, inbound>>

-----------------------------------------------------------------------------
(* verifyAndEnqueue, once or again: the invocation is unique.                *)
Enqueued(i) ==
  IF row[i].status = "none" THEN [status |-> "pending", stale |-> FALSE] ELSE row[i]

Enqueue(i) ==
  /\ row' = [row EXCEPT ![i] = Enqueued(i)]
  /\ UNCHANGED <<local, sync, run, applied>>

-----------------------------------------------------------------------------
(* processPending.                                                           *)
ClaimablePending(i) == row[i].status = "pending"                    \* defect
Claimable(i) == row[i].status = "pending" \/ row[i].stale

Claim(w, i) ==
  /\ run[w].step = "idle" /\ Claimable(i)
  /\ row' = [row EXCEPT ![i] = [status |-> "processing", stale |-> FALSE]]
  /\ run' = [run EXCEPT ![w] = [NoRun EXCEPT !.step = "claimed", !.event = i]]
  /\ UNCHANGED <<local, sync, applied>>

(* The row was last updated PROCESSING_STALE_MS ago.                         *)
GrowsStale(i) ==
  /\ row[i].status = "processing" /\ ~row[i].stale
  /\ row' = [row EXCEPT ![i].stale = TRUE]
  /\ UNCHANGED <<local, sync, run, applied>>

Event(w) == webhook[run[w].event]
EndWith(w, outcome) ==
  run' = [run EXCEPT ![w].step = "settling", ![w].outcome = outcome,
                     ![w].changes = NoChange]

(* localTicketIdForZendesk: whether a succeeded create with this remote id   *)
(* exists just now, which its retries and the removal of its rule change at  *)
(* any time.  The author's role is looked at before the rest.                *)
LookUpLink(w) ==
  /\ run[w].step = "claimed"
  /\ \/ EndWith(w, "unlinked")
     \/ IF Event(w).kind = "comment" /\ Event(w).comment \notin ByCustomer
        THEN EndWith(w, "ignored") ELSE run' = [run EXCEPT ![w].step = "linked"]
  /\ UNCHANGED <<local, sync, row, applied>>

(* ingestZendeskComment: the message's id is unique.  Its author's row, which *)
(* is upserted before, is left out: nobody reads it.                         *)
OutcomeOfAny(stored) == "succeeded"                                 \* defect
OutcomeOf(stored) == IF stored = None THEN "succeeded" ELSE "ignored"

StoreMessage(w) ==
  /\ run[w].step = "linked" /\ Event(w).kind = "comment"
  /\ LET c == Event(w).comment IN
       /\ messages' = IF messages[c] = None
                      THEN [messages EXCEPT ![c] = run[w].event] ELSE messages
       /\ EndWith(w, OutcomeOf(messages[c]))
  /\ UNCHANGED <<ticket, edits, sync, row, applied>>

(* The ticket is read, and only what differs is changed.                     *)
Wanted(w) ==
  [f \in Fields |->
     IF f \in Event(w).fields /\ Localized[f][Event(w).content[f]] # ticket[f]
     THEN Localized[f][Event(w).content[f]] ELSE None]

ReadTicket(w) ==
  /\ run[w].step = "linked" /\ Event(w).kind = "update"
  /\ IF Wanted(w) = NoChange THEN EndWith(w, "ignored")
     ELSE run' = [run EXCEPT ![w].step = "changing", ![w].changes = Wanted(w)]
  /\ UNCHANGED <<local, sync, row, applied>>

ChangeTicket(w) ==
  /\ run[w].step = "changing"
  /\ UpdateTicket(run[w].changes, "zendesk")
  /\ applied' = applied \cup {run[w].event}
  /\ EndWith(w, "succeeded")
  /\ UNCHANGED <<messages, edits, remote, webhook, row>>

(* The outcome is written by id alone, also over that of another run.        *)
SettledStatusMisspelt(w) == "done"                                  \* defect
SettledStatus(w) == run[w].outcome
Settle(w) ==
  /\ run[w].step = "settling"
  /\ row' = [row EXCEPT ![run[w].event] = [status |-> SettledStatus(w), stale |-> FALSE]]
  /\ run' = [run EXCEPT ![w] = NoRun]
  /\ UNCHANGED <<local, sync, applied>>

(* A statement reports an error, has changed nothing, and the failure is     *)
(* written; if that fails as well the sweep ends, like by a death.           *)
Err(w) ==
  /\ run[w].step # "idle"
  /\ row' = [row EXCEPT ![run[w].event] = [status |-> "failed", stale |-> FALSE]]
  /\ run' = [run EXCEPT ![w] = NoRun]
  /\ UNCHANGED <<local, sync, applied>>

Die(w) ==
  /\ run[w].step # "idle"
  /\ run' = [run EXCEPT ![w] = NoRun]
  /\ UNCHANGED <<local, sync, row, applied>>

-----------------------------------------------------------------------------
GoesOn(w) ==
  \/ LookUpLink(w) \/ StoreMessage(w)
  \/ ReadTicket(w) \/ ChangeTicket(w) \/ Settle(w)

Next ==
  \/ \E f \in Fields, v \in Values : AgentEdit(f, v) \/ RuleChanges(f, v)
  \/ \E k \in DOMAIN outbound : Dispatch(k) \/ RemoteApplies(k) \/ RemoteLoses(k)
  \/ \E f \in Fields, v \in RemoteValues : RemoteEdit(f, v)
  \/ \E c \in Comments : RemoteComment(c)
  \/ \E i \in DOMAIN webhook : Enqueue(i) \/ GrowsStale(i)
  \/ \E w \in Workers :
       \/ \E i \in DOMAIN webhook : Claim(w, i)
       \/ GoesOn(w) \/ Err(w) \/ Die(w)

Spec == Init /\ [][Next]_vars

(* worker.ts sweeps every five seconds, the oldest events first, so what is  *)
(* claimable again and again is claimed; statements end; the clock runs.     *)
FairSpec ==
  /\ Spec
  /\ \A w \in Workers : WF_vars(GoesOn(w))
  /\ \A i \in Webhooks :
       /\ WF_vars(i \in DOMAIN webhook /\ GrowsStale(i))
       /\ SF_vars(i \in DOMAIN webhook /\ \E w \in Workers : Claim(w, i))

-----------------------------------------------------------------------------
(* What a row says has happened: a succeeded update changed the ticket, a    *)
(* succeeded comment is the one whose message was stored, so there is one of *)
(* them however often the comment was announced or taken over, and a         *)
(* customer's comment that was ignored is in the timeline already.           *)
Tells(i, status) ==
  /\ status = "succeeded" /\ webhook[i].kind = "update" => i \in applied
  /\ status = "succeeded" /\ webhook[i].kind = "comment" =>
       messages[webhook[i].comment] = i
  /\ status = "ignored" /\ webhook[i].kind = "comment"
       /\ webhook[i].comment \in ByCustomer =>
       messages[webhook[i].comment] # None

OutcomesAreTrue == \A i \in Webhooks : Tells(i, row[i].status)

(* What comes from Zendesk brings about no request to it: there are no more  *)
(* of them than changes by agents and by automation rules, however many      *)
(* webhooks those bring about.  A rule that answers a change from Zendesk    *)
(* makes a change of its own, which goes out once.                           *)
NothingSentBack == Len(outbound) <= edits

(* A change by an automation rule waits for a dispatch that has yet to read  *)
(* it.  Untrue: its event has the key of the revision the rule answered, and *)
(* if that key has an execution already the change is told nobody.           *)
RuleChangesGoOut ==
  [][\A f \in Fields, v \in Values :
       RuleChanges(f, v) => \E k \in DOMAIN outbound' : outbound'[k].state = "pending"]_vars

(* Every accepted webhook is applied, ignored or failed in the end, though    *)
(* workers that claimed it died, unless they die for ever.                   *)
EventsSettle ==
  <>[][\A w \in Workers : ~Die(w)]_vars =>
    \A i \in Webhooks :
      row[i].status = "pending" ~> row[i].status \in Outcomes
=============================================================================

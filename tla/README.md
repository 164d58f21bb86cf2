# Verification of Relvona (SupportAI backend)

TLA+ models of the stateful core of the backend in `src/backend/src`, checked by
TLC on small instances and, for the central ones, proved with TLAPS for every
value of the constants. Paths below are relative to `src/backend/src` unless
they start with `src/`.

## 1. Inventory

The product is a multi-tenant support desk. API processes (`index.ts`, `routes/`)
and worker processes (`worker.ts`) share one PostgreSQL database and one Redis.
There is no in-memory coordination between processes: every component below
keeps its state in rows, and every hazard comes from what happens between two
statements. Two facts of `db/index.ts` shape all the models: inside
`withTenantTransaction` all statements are one transaction; outside it **each
statement commits on its own** (a request reuses one connection, without BEGIN;
background work wraps every single statement in its own transaction).

| Component | State | Operations | Hard behaviour | What makes it correct |
|---|---|---|---|---|
| Knowledge ingestion (`services/ingestionJobService.ts`, `queueService.ts`, `worker.ts`) | job row, source row, chunks, text objects, BullMQ queue | submit, sweep, claim, prepare, store, complete, fail, delete | several workers, leases that run out under a live worker, lost or repeated queue jobs, crashes, resubmission during work | only the newest submission is published, once; every submission is settled |
| Integration outbound (`services/integrationSyncService.ts`) | execution rows, remote tickets | event handling, sweep, claim, dispatch, retry, confirm | a worker that dies around a remote call; a slow worker presumed dead | no execution reaches the remote twice; success is recorded only for what happened |
| Integration inbound (`services/integrationInboundService.ts`) | inbound events, ticket links | webhook intake, apply | duplicated, reordered and echoed events, slow and dead runs | a row tells what happened, one message per comment, nothing is sent back, every event settles |
| Scheduling (`services/schedulingService.ts`, `schedulingMutationLockService.ts`) | bookings, advisory lock | create, reschedule, cancel | concurrent requests, statements that commit one by one under a session lock | no double booking; replays are idempotent |
| Calendar reconciliation (`services/bookingCalendarSyncService.ts`) | sync row, provider event | enqueue, claim, create/update/delete, retry | inline and background processors outside the lock, stale claims, compensation | the provider mirrors the booking once settled |
| Webhook outbox (`services/webhookDeliveryService.ts`, `webhookService.ts`) | delivery rows | enqueue, claim, deliver, retry | leases taken for a batch, retries | bounded retries, final outcomes, every delivery settles |
| Action approvals (`services/actionExecutionService.ts`, `conversationSchedulingService.ts`) | execution rows, conversation scheduling state | request, approve, reject, expire, execute | approval racing expiry and cancellation, crash while executing | executed at most once, only when approved by somebody else; a conversation that says booked has its booking |
| File objects and quota (`services/fileObjectService.ts`, `storageQuotaService.ts`, `profileAvatarService.ts`) | object rows, stored bytes | reserve, upload, finalize, delete, sweep | finalize racing cleanup, crash between bytes and row | quota never exceeded, a usable row has its bytes, no bytes are forgotten, every file settles |
| Conversations (`services/conversationService.ts`, `conversationWorkflowService.ts`, `conversationAutoCloseService.ts`) | conversation row, messages, handoffs | message, AI answer, takeover, resolve, auto close | state read before the AI call and written after it | nobody takes a conversation from its owner; only a customer reopens a closed one |
| Tickets (`services/ticketService.ts`, `ticketCaseService.ts`) | tickets, comments, links | create, update, merge, escalate | concurrent numbering, one escalation per conversation | unique numbers, one open escalation |
| Routing, coverage, SLA, automation, notifications (`teamRoutingService.ts`, `supportCoverageService.ts`, `slaEscalationService.ts`, `supportAutomationService.ts`, `notificationService.ts`) | assignments, shifts, escalations, executions | assign, sweep, run rule | capacity read before it is used, duplicate events | capacity respected, each event automated once |
| Assistant versions (`assistantVersionService.ts`) | versions, active pointer | draft, publish, roll back | concurrent publishes | exactly one published version |
| AI gateway and tenant quota (`aiGateway.ts`, `tenantQuotaService.ts`, `ragService.ts`) | usage counters | reserve, answer | check and count | quota respected |
| Identity (invitations, SSO, magic links, sessions, visitor identity) | tokens, sessions | issue, consume, revoke | replay of one-time tokens | consumed once |
| Tenant context (`db/index.ts`, `db/tenantContext.ts`) | request context, pooled connection | set tenant, query, release | release racing a query | a connection never carries a foreign tenant |

Not modelled: the frontend, the HTTP layer, cryptography, mail, directory
lookups, crawler and content security, analytics queries, seeds and scripts,
deployment. They keep no protocol state of their own.

## 2. Plan

The order follows the weight of the behaviour: what is served to customers, what
reaches other systems, what occupies people's time.

| Step | Modules | State |
|---|---|---|
| 1 | `Publication` (abstract), `Ingestion`, `Ingestion_proofs` | done |
| 2 | `RemoteOnce` (abstract), `IntegrationSync`, `IntegrationSync_proofs` | done |
| 3 | `Agenda` (abstract), `Bookings`, `Bookings_proofs`; `CalendarSync`, `CalendarSync_proofs` | done |
| 4 | `FileObjects`: quota reservation, upload, finalization against cleanup and deletion; `FileObjects_proofs` | done |
| 5 | `ActionExecution` with the conversation's scheduling state, `ActionExecution_proofs`; `Webhooks` | done |
| 6 | `Conversations` with its escalation tickets; `Messaging_proofs` on it and on `Webhooks` | done |
| 7 | `IntegrationInbound`, `IntegrationInbound_proofs` | done |
| 8 | identity tokens, assistant versions, routing and SLA | open |

Every invariant and action property of the passing runs is proved; what is left for
the proofs are components still to be modelled. Every component has one run that checks
its safety and its liveness together where the state space allows it.

## 3. Modules and code

One row is one row: a record variable stands for a database row, a function for
several. A timestamp is kept as what the code compares it for (`lease`, `stale`,
`due`). An action is one transaction, or one statement where no transaction spans
several; whatever the code awaits in between separates two actions, so that every
other actor may step in. A crash of a process drops what it had in memory. Some
definitions have a neighbour marked *defect*: a plausible bug, used to see that a
property notices it, and part of no specification.

**`Ingestion`** follows one knowledge source, since sources share nothing.
`job`, `source` and `chunks` are the rows; `queue` is what BullMQ knows of each
reference (revision and attempt, as in `ingestionQueueId`); `run` is the progress
of each worker slot in `process`. `Submit` is `submit` with its publication of a
reference, `SweepPending` is `pending` and the dispatcher of `worker.ts`, `Claim`,
`Prepare`, `InsertText`, `Complete`, `CompleteUnchanged` and `RecordFailure` are
the stretches of `process` between two awaits. The worker slot stands for the
random lease token. BullMQ and Redis (`QueueLoses`, `Stall`) are external.
**`Publication`** is its promise: a submission is pending until it is published,
confirmed unchanged, given up or superseded; nothing of jobs, leases and queues.

**`IntegrationSync`** follows the executions of the sync rules of one Zendesk
connection. `exec` is the row, `remote` what became of the request (sent, applied
or lost; the remote system decides whenever it likes, also after the caller gave
up), `run` the progress of each worker process in `processPending`, `operator` the
retries and confirmations that have read and not yet written, of any number of
operators: all who read the same are one element, and when one has written,
others may still hold what they read (`Done`), so that the second look of `retry`
(`StillRetryable`) has a competitor to find. The row is written
by id alone, as in the code, so a worker presumed dead may write over anything.
**`RemoteOnce`** is its promise: one request per execution, success only for an
applied one, offered again only while untouched. `Doubt` is in it because the code
does reopen a confirmed execution when the worker it was taken from reports late.

**`Bookings`** follows the calls of `createBooking`, `rescheduleBooking` and
`cancelBooking`. Each takes a connection of its process's lock pool, then the
organization's advisory lock, then runs its statements one by one on another
connection; `request` holds what it has read so far. Meeting types are edited at
any moment. **`Agenda`** is its promise: every change of a booking is one step
that finds its time free and its key unused.

**`CalendarSync`** follows one hosted booking under the lock of `Bookings`, which
is why at most one `mutation` runs, with its own processor `Inline`; `Sweepers`
are the runs of `processPending` and of the retry route, which take no lock.
`event` is the host's calendar. The provider's calls may be carried out and their
answers lost.

**`FileObjects`** follows the tenant files of one organization. `row` is the
`file_objects` row, `bytes` what the storage holds, `upload` the signed URL,
`work` the request that creates, finalizes or stages the object,
`removal` a request or sweep that deletes, `link` the attachment or source that
refers to the file. `Reserve` is the transaction under the quota's lock;
`Claim`, `Head`, `Get`, `RecordUsable` and `RecordFailed` are the awaits of the
`finalize` functions; `MarkDeleting`, `DeleteBytes`, `RecordDeleted` and `Detach`
those of a deletion, at each of which it may die. The client is external (`Put`):
its URL fixes key and content type only, so it may PUT any size, any number of
times, whatever has become of the row, until the URL expires (`UrlExpires`).
`putAfter` is a history variable that nothing reads: whether a PUT to the file came
after `HEAD` had accepted it, or after its deletion began. The properties need it to
say what holds of clients that PUT again and what does not.

**`ActionExecution`** follows the executions of one organization. `exec` is the
row, `effects` counts what its tool has done, `executor` a request of the
dashboard that asks, approves and executes, `conv` the scheduling state of one
conversation and `handler` a customer's message on its way through
`ConversationSchedulingService.handle`, which reads the state once (`Receive`) and
writes by id, an offer that had run out first of all (`Drop`). The idempotency key
identifies the row.

**`Conversations`** follows one conversation. `message` is a customer's message
on its way through `processCustomerMessage`, where the assistant's answer takes
as long as it likes; `agent` a member's request, `tickets` the escalations.
`Assign` and `Take` are the conditional updates of the owner and write the state
their request has read before (`ReadToAssign`). `transition` reads and writes in
two statements, of which the second is conditional on what the first read, so
`Move` is one action.

**`Webhooks`** follows the deliveries of one subscription. A worker's list is
what its sweep selected (`queue`); `late` says that the lease it counts from the
start of the sweep has run out, after which others may claim what it holds. An
outcome is written only over a delivery that is under way. `attempts` grows with a
claim and is written by nothing else; a run decides by the number of its own claim
whether a failure is the last and when to try again, so a late one reschedules what newer
runs have been counted for. A death costs the attempt it had claimed. A delivery is given
up at once when its subscription is off or its secret cannot be read (`Load`). Names that `Conversations`
has too begin with `Delivery` or say what they are about (`DeliveryTypeOK`,
`MarkFailure`), because one proof module extends both.

**`IntegrationInbound`** follows one ticket and its counterpart at Zendesk. The
outbound half is what `IntegrationSync` shows it to be, one request at most per
execution; here it carries content, and comes back as an echo. A change is one of an
agent (`AgentEdit`) or of an automation rule that answers a `ticket.updated` of any source
but its own, Zendesk's included, with a change that is forwarded in turn (`RuleChanges`).
`webhook` are the
notifications Zendesk sends, `row` the inbound events, `run` the steps of a
worker in `processPending`, `applied` the events whose change was written.
Zendesk (`RemoteEdit`, `RemoteApplies`, `RemoteLoses`, `RemoteComment`,
`Announce`) is external.

## 4. Runs

| Run | Question | Bounds |
|---|---|---|
| `ingestion` | Is only the newest submission published, once, by a holder that is still current? | 2 slots, 2 submissions, 2 attempts, an address with two possible contents and one that cannot be crawled |
| `ingestion_settles` | Does every submission end? | 1 slot, 2 submissions, 2 attempts |
| `outbound` | Is a remote request ever repeated, or recorded without having happened? Does every execution end? | 2 worker processes, any number of operators, a create and its update, each with its rule |
| `bookings` | Is anybody booked twice, and is each change atomic? | 2 requests, 2 bookings, 1 host or none, 2 start times, 2 settings that an admin switches between |
| `booking_progress` | Is every request answered? | 3 requests on 2 servers with one lock connection each, a repeated key, a clock that passes the minimum notice |
| `calendar` | Do attempts stay bounded, does a confirmed booking keep its event, does every row settle? | 1 sweep beside the inline run, 2 events, 2 times, 2 attempts, 1 reschedule and a cancellation |
| `files` | Does the quota hold, has a usable file its bytes, are bytes forgotten, does every file settle? | an attachment and a document of up to 2 units each, a quota of 1, 2 PUTs, two removers, one fault |
| `actions` | Does an action take effect twice, or unapproved? Is what a conversation calls booked real? | the booking of a slot and an edit, 2 messages, 2 dashboard requests, 2 members |
| `conversations` | Is a conversation stolen, or two escalations open? | 2 messages, 2 members of whom one is an administrator, 2 tickets, 3 requests at once |
| `webhooks` | Are outcomes final and attempts bounded, does every delivery settle? | 2 deliveries, 2 workers, 2 attempts, 1 death |
| `inbound` | Does a row tell the truth, does anything come back, does every event settle? | 2 workers, 2 webhooks, 1 change by an agent or a rule, 1 comment, a priority with two values |
| `closed_reopened` | a disagreement of section 6 | the instance of `conversations` |

Why the bounds suffice: two slots, workers or requests are what an interleaving
hazard of these components needs, as each race is between one actor and the one
that overtook it. Two attempts have a first, a last and an exhausted one; two
revisions have an old and a new one. The third request of `booking_progress` is
needed to have somebody wait for the pool and somebody for the lock. The update
stands for a comment as well, whose steps are the same. Counters
(`MaxRevision`, `MaxEdits`, `MaxNow`, `MaxSize`, `MaxPuts`, `MaxFaults`, `MaxTickets`,
`MaxBusy`, `MaxWebhooks`, `MaxDeaths`, `MaxEffects`) are bounded in the guards of the actions that count them;
`MaxAttempts` is the code's own limit. The quota of 1 admits one file of
one unit, so that the other's reservation is refused or not depending on what was
released before, while 2 units can be PUT for it; 2 PUTs are the one that is checked and the
one that replaces it. `MC_FileObjects_two.cfg` has a quota of 2, two files at once, for
safety only (2.7 million states), and `MC_IntegrationInbound_two.cfg` two changes (3.6
million). Two webhooks suffice for a comment announced twice, a change
and its echo, and an older state swept after a newer one. The attempts of a
delivery are bounded by `DeliveryTypeOK`, whose bound (`MostAttempts`, 5 in the run
`webhooks`) is reached. Symmetry is used in runs without
liveness only. `CHECK_DEADLOCK FALSE` appears where the system may stop: with all
rules removed, a booking cancelled and settled, all files deleted, every action
decided, every webhook settled and the bounds reached.

What the abstract specifications and the other properties cannot do without:
`ImplementsPublication`, `ImplementsRemoteOnce` and `ImplementsAgenda` say that
every step of the detailed model is a step of the promise or invisible in it. The
remaining invariants relate what an actor read earlier to what is true when it
writes (`HolderIsCurrent`, `UnchangedVerdictFresh`, `ReplayableIsUntouched`,
`ConfirmedEventLives`, `UsableHasBytes`, `EffectsAreApproved`, `NeverStolen`,
`OutcomesAreTrue`).

## 5. Fairness and liveness

Fairness is stated per action and nowhere for failures, crashes, stalls, losses
or users.

- `Ingestion`: the clock runs (`LeaseRunsOut`, `BackoffElapses`), the dispatcher of
  `worker.ts` sweeps every ten seconds, so what it offers again and again reaches
  Redis (strong fairness on `Offer`), BullMQ delivers a waiting job and notices one
  without a worker, and a slot that took a job goes on unless it dies.
- `IntegrationSync`: sweeps are scheduled for ever and list the oldest pending
  execution first (strong fairness of its claim); every call has a timeout.
- `Bookings`: the pool and PostgreSQL queue their waiters in order (strong fairness
  of `Connect` and `Acquire`); a statement or provider call ends.
- `CalendarSync`: sweeps, backoff and staleness as above. `SyncSettles` assumes
  that crashes and manual retries stop some day: `attempts` grows when an
  outcome is written, not when a run claims, so a run that always dies is tried
  for ever. That is listed as a hazard.
- `FileObjects`: requests go on (`Work`, `Remove`), the clock runs, and the sweep
  that runs every minute by default (`worker.ts:203`) reaches every file although users delete
  others at the same time (strong fairness of `Cleanup`). `MaxFaults` says that
  storage and processes do not fail for ever.
- `Webhooks`: every worker sweeps again and goes on unless it dies, the backoff
  elapses. `MaxDeaths` bounds the deaths.
- `IntegrationInbound`: runs go on, a row grows stale, and a sweep every five
  seconds lists the oldest events first (strong fairness of the claim).
  `EventsSettle` is stated for behaviours in which workers stop dying some day:
  the row counts no attempts, so an event whose every run dies is taken over for ever.
- `ActionExecution` and `Conversations` promise nothing eventually: an approval
  waits for people, an execution whose process died stays `executing` (a hazard),
  so they have no fairness.

## 6. Where code and documents disagree

The run `closed_reopened` expects a violation; the quoted line is in
`PROJECT.json`. `assign` is conditional on the owner and writes the state it
read, so an assignment that overlaps a close opens the conversation again,
against "Closed conversations can only be reopened by a customer reply".

Further counterexamples have their property and configuration in this directory
and no run of their own, to be had with `tlc -config <cfg> <module>`:

- `MC_CalendarSync_delete.cfg` (`DeleteClearsTheId`): `markSynced` does not ask
  which action it completes; a deletion enqueued meanwhile is marked synced before
  anybody claimed it. The same write can settle an update nobody carried out.
- `MC_CalendarSync_create.cfg` (`OneEventPerBooking`): a create that is taken over
  as stale, or overtaken by an inline update, makes a second event and the first
  is forgotten.
- `MC_Ingestion_unchanged.cfg` (`UnchangedKeepsContentRevision`): after two
  unchanged recrawls `currentRevision` is no longer the revision of the served chunks.
- `MC_Ingestion_retry.cfg` (`RetryCanStoreItsText`): once an attempt has stored its
  processed text, no later attempt of the revision can, because the storage key is
  the same and unique.
- `MC_Bookings_longkey.cfg` (`ReplayReturnsBooking`): an idempotency key beyond 120
  characters is stored cut and looked up whole, so a replay is refused.
- `MC_ActionExecution_cancel.cfg` (`CancelledStaysCancelled`): a customer who cancels
  while the approval is pending is told "Appointment scheduling has been cancelled."
  (`services/schedulingLanguage.ts:19`), and the approval still books the meeting.

- `MC_FileObjects_again.cfg` (`OnlyReservedIsCounted`, `CheckedBytesStay`,
  `DeletedIsGone`; `-continue` shows all three): "the configured max size is enforced
  during finalize via HEAD + scan" (`services/objectStorage.ts:306-307`), which are two
  awaits. A PUT between them is counted with its own size, beyond what was reserved
  and beyond the quota; one after the file is usable leaves bytes that nobody
  examined; one after its deletion leaves bytes whose row is `DELETED`, which no sweep
  looks at. `QuotaRespected`, `UsableHasBytes` and `NoOrphans` say what holds
  nevertheless, and that no process of the program, but only such a PUT, breaks more.
- `MC_IntegrationInbound_rules.cfg` (`RuleChangesGoOut`): the event of a rule's change has
  the row from before the change (`services/supportAutomationService.ts:151-157`), hence the
  key of the revision the rule answered. If the update that was forwarded for that
  revision has been dispatched already, the insert conflicts and Zendesk is never
  told of the change.

Setting `MayOverrun = TRUE` in `MC_FileObjects.cfg` shows that a finalization slower than the
15 minutes of `PROCESSING_STALE_MS` makes a row usable whose bytes the sweep took
(`UsableHasBytes`). And `IntegrationInbound` has a behaviour no document speaks of:
an agent's `in_progress` is `open` at Zendesk, and its echo makes it `open` here.

Hazards without a property are listed in `PROJECT.json` with the reason.

## 7. Proofs

TLAPS checks, for all values of the constants that satisfy the named assumptions:

| Module | Theorems | Argument |
|---|---|---|
| `Ingestion_proofs` | `TypeCorrect`, `RowsAgree`, `HoldersAreCurrent`, `LeasesAreDisciplined`, `UnchangedVerdictsAreFresh`, `PublishedOnce`, `Refinement` (implements `Publication`) | Who can commit is named, with its revision, in the job row; everything that hands the job on clears or replaces the name; the payload changes only with the revision. While a revision is unsettled, what is served is older, and the hash is that of what is served. |
| `IntegrationSync_proofs` | `TypeCorrect`, `AtMostOneDispatch`, `ReplaysAreSafe`, `SuccessIsReal`, `DependentsWait`, `Refinement` (implements `RemoteOnce`) | What may be claimed or retried is attended by nobody and untouched remotely, and only a claim or a retry leads out of that. So a sweep holds its execution alone until it reports, and the one request it sends is the first; an operator's retry looks again before it writes, which is why another one's does no harm. |
| `Bookings_proofs` | `TypeCorrect`, `NeverDoubleBooked`, `Refinement` (implements `Agenda`) | Whoever is past the lock is its holder, so there is one; hence what it read of its booking, and that it found no clash, still holds when it writes, whatever admins do to the settings. |
| `CalendarSync_proofs` | `TypeCorrect`, `AttemptsStayBounded`, `ConfirmedKeepsEvent` | A deletion is enqueued after the booking was cancelled and cancellation is final; an event that was created and not yet recorded is recorded nowhere and made by no other run, so compensating it harms nobody. |
| `ActionExecution_proofs` | `TypeCorrect`, `AtMostOneEffect`, `EffectsNeedApproval`, `BookingsAreReal`, `FinalOutcomes` | Only a claim leads to `executing` and only from `approved`, so one request runs an action (`OneRunner`), its effect and its row agree until it reports (`EffectsAgree`), and whoever books a conversation has executed the action it waits for (`BookersAgree`). |
| `FileObjects_proofs` | `TypeCorrect`; `QuotaHolds`, `UsableFilesHaveTheirBytes` and `NoFileIsForgotten` if no finalization overruns (`~MayOverrun`) | Only a reservation adds to the sum, and it asks for the quota; every other step leaves or lowers what its file counts for (`SumChange`), because the request it belongs to still has the row it reserved (`WorkHolds`), and a size beyond the reservation was PUT after `HEAD`, which `putAfter` remembers. While a request is at work no sweep takes its row, so what it checked is there unless it was PUT again. A row leaves `DELETING` only after its bytes did (`FileGone`, `RemovalGone`). |
| `Messaging_proofs`, on `Conversations` | `TypeCorrect`, `OneEscalation`, `NotStolen` | The unique index admits one open escalation, whoever looked for one before; whoever assigns read an owner that permitted it (`AssignersMay`) and the update is conditional on that owner. |
| `Messaging_proofs`, on `Webhooks` | `FinalOutcomes`, `AttemptsAreLimited` | Every write is conditional on a delivery that is due or under way, and a finished one is neither. The limit is a budget, see below. |
| `IntegrationInbound_proofs` | `TypeCorrect`, `RowsTellTheTruth`, `NoEcho` | What a run is about to report is true already (`RunsTell`), and what is applied or stored stays so (`Grows`), so a late report is as true as the one it overwrites. Only a change by an agent or a rule appends an execution, and one at most, which is shown of every writer of the ticket, those that carry a change from Zendesk included. |

Each component has an inductive invariant: `IInv`, in `FileObjects_proofs` `Inv` and, for
the bytes, `ByteInv` and `GoneInv`, in the part on `Webhooks` `DeliveryInv`. The properties alone are not inductive: that
nobody is booked twice, for instance, is preserved by an insert only because the
inserting request still finds its time free (`FreeStaysFree`), which other
requests preserve only because they are not past the lock (`HolderAlone`). The
refinements need parts of `IInv` as well: a commit is a `Publish` only because
the content is one its payload may yield.

`LeaseDiscipline`, `EachRevisionPublishedOnce` and `SucceededIsApplied` are proved
and in no run: the refinements that the runs check do not hold without the last two,
and the first is part of the inductive invariant.

Two of the arguments count. The used and reserved bytes are a sum over the rows
(`SumFunction`), defined by a recursive function over subsets. Its laws (removing
an element, agreeing functions, one changed element) are proved in
`FileObjects_proofs` for sums alone: the library's theorems on folds and on finite
induction take an operator, which the provers cannot instantiate, so the induction
is on a smallest set of rows that would be a counterexample.

The attempts of a delivery may pass the limit. Only a claim counts, and only below the limit
would the run it starts reschedule; but a late run decides by the number of its own,
older claim, and reschedules although newer runs have counted up to the limit and past it.
`Afforded` is the budget that holds nevertheless. While a delivery is
under way, its attempts, and the other workers once for each run still out below the limit
(each may reschedule after that many newer claims), stay below the limit, the
deaths, the square of the other workers and the runs out at the limit. A death pays for the
claim it wasted, and a run at the limit ends the delivery. The bound that follows,
`MaxAttempts + MaxDeaths + w * (w - 1)` for `w` workers, is reached in the run `webhooks`.

Only model-checked: the liveness properties (`SubmissionsSettle`,
`ExecutionsSettle`, `RequestsEnd`, `SyncSettles`, `FilesSettle`,
`DeliveriesSettle`, `EventsSettle`), since fairness and `ENABLED` are beyond the
prover.

## 8. Assumptions and what is left out

- A database statement that reports an error has changed nothing. A call of
  Zendesk or of the calendar may have been carried out although it reported one.
- Nobody but the program edits the host's calendar, and the provider refuses to
  update or delete an event that is gone.
- The advisory lock is lost only with the process that holds it.
- Times are integers in one zone; slot search, availability rules and the busy
  times of the calendar decide only whether a request is refused, which the model
  allows whenever the code asks.
- One source, one connection, one organization and (in `CalendarSync`) one booking
  are modelled at a time, and one conversation, subscription and linked ticket;
  rows of different ones share no state.
- The intelligence row of a knowledge source, audit records, notifications and
  webhooks that accompany a change are not modelled.
- The rows of `FileObjects` (`Objects`) and the workers of `Webhooks` are finite sets,
  as a table and a cluster are; no proof bounds their number.
- The run `files` and the theorems on files assume that a finalization ends within the
  15 minutes the code allows it (`~MayOverrun`); section 6 says what happens otherwise.
  Signed URLs end some day, and a PUT begun before may end later: how much later is open. User
  avatars have no quota and a sweep of their own and are left out.
- In `ActionExecution` what a tool does is one effect; the tools are not modelled.
- `Conversations` leaves out which conversation a first message opens, texts,
  notes, tags and priorities, and ticket numbers, comments and case history.
- In `IntegrationInbound` whether a link to the ticket is found is open at every
  look, signatures and payload checks decide only which webhooks arrive, and the
  row of a comment's author, which nobody reads, is left out. Which rule answers which
  event is left open: a rule may set the fields it can (`RuledFields`) at any time, within
  `MaxEdits`. Which revision an execution belongs to is not kept, so once there is one, a
  rule's change may or may not find its key taken. An agent's reply makes a ticket
  `in_progress` without an event (`services/conversationService.ts:378`), routing and the
  GitHub link write other fields; none of it is forwarded, and all of it is left out.
- The components without a module in section 1 are listed in `PROJECT.json` as not
  modelled, with the reason.

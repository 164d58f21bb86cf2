\* A change by an agent or an automation rule, webhooks about the ticket
\* and its comments, two workers.
SPECIFICATION FairSpec
CONSTANTS
  None = None
  priority = priority
  normal = normal
  high = high
  Workers = {w1, w2}
  Fields = {priority}
  RuledFields = {priority}
  Values = {normal, high}
  RemoteValues = {normal, high}
  Localized <- Same
  Exported <- Same
  Comments = {c1}
  ByCustomer = {c1}
  MaxEdits = 1
  MaxWebhooks = 2
INVARIANTS TypeOK OutcomesAreTrue NothingSentBack
PROPERTY EventsSettle
CHECK_DEADLOCK FALSE

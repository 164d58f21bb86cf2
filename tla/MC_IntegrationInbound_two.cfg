\* Two changes, by agents or automation rules; safety only.
SPECIFICATION Spec
CONSTANTS
  None = None
  priority = priority
  normal = normal
  high = high
  Workers = {w1, w2}
  Fields = {priority}
  RuledFields = {priority}
  Values = {normal, high}
  RemoteValues = {normal, high}
  Localized <- Same
  Exported <- Same
  Comments = {c1}
  ByCustomer = {c1}
  MaxEdits = 2
  MaxWebhooks = 2
INVARIANTS TypeOK OutcomesAreTrue NothingSentBack
CHECK_DEADLOCK FALSE

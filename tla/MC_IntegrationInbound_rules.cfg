\* A rule's change whose event key is taken already.
SPECIFICATION Spec
CONSTANTS
  None = None
  priority = priority
  normal = normal
  high = high
  Workers = {w1, w2}
  Fields = {priority}
  RuledFields = {priority}
  Values = {normal, high}
  RemoteValues = {normal, high}
  Localized <- Same
  Exported <- Same
  Comments = {c1}
  ByCustomer = {c1}
  MaxEdits = 2
  MaxWebhooks = 1
PROPERTY RuleChangesGoOut
CHECK_DEADLOCK FALSE

\* A ticket's create and its update; two worker processes sweep.
SPECIFICATION FairSpec
CONSTANTS
  None = None
  c = c
  u = u
  rc = rc
  ru = ru
  Workers = {w1, w2}
  Rules = {rc, ru}
  Executions = {c, u}
  Rule <- RuleOf
  Creates = {c}
  CreateOf <- TicketOf
INVARIANTS TypeOK DispatchedOnce ReplayableIsUntouched DependentsFollowCreate
PROPERTIES ImplementsRemoteOnce ExecutionsSettle
CHECK_DEADLOCK FALSE

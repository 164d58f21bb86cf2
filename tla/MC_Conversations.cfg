\* Two messages of the customer, an agent and an administrator.
SPECIFICATION Spec
CONSTANTS
  None = None
  Messages = {m1, m2}
  Agents = {bob, carol}
  Admins = {carol}
  MaxTickets = 2
  MaxBusy = 3
SYMMETRY Interchangeable
INVARIANTS TypeOK OneOpenEscalation
PROPERTY NeverStolen

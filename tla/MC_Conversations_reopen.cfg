\* An assignment under way while the conversation is closed.
SPECIFICATION Spec
CONSTANTS
  None = None
  Messages = {m1}
  Agents = {bob}
  Admins = {}
  MaxTickets = 1
  MaxBusy = 2
PROPERTY ReopenedByReplyOnly

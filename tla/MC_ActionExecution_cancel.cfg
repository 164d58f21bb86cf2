\* One message of the customer and one dashboard request at a time.
SPECIFICATION Spec
CONSTANTS
  None = None
  slot = slot
  edit = edit
  alice = alice
  Keys = {slot, edit}
  Slots = {slot}
  Users = {alice, bob}
  Requester <- RequesterOf
  Handlers = {h1}
  Executors = {x1}
PROPERTY CancelledStaysCancelled
CHECK_DEADLOCK FALSE

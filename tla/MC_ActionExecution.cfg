\* Two messages of the customer and two dashboard requests at a time.
SPECIFICATION Spec
CONSTANTS
  None = None
  slot = slot
  edit = edit
  alice = alice
  Keys = {slot, edit}
  Slots = {slot}
  Users = {alice, bob}
  Requester <- RequesterOf
  Handlers = {h1, h2}
  Executors = {x1, x2}
SYMMETRY Symmetric
INVARIANTS TypeOK EffectOnce EffectsAreApproved BookedIsReal
PROPERTY OutcomesAreFinal
CHECK_DEADLOCK FALSE

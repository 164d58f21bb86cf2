\* Two runs of one booking create an event each.
SPECIFICATION Spec
CONSTANTS
  None = None
  Inline = inline
  Sweepers = {s1}
  Events = {e1, e2}
  Times = {t1, t2}
  MaxAttempts = 2
  MaxEdits = 1
SYMMETRY Interchangeable
INVARIANTS OneEventPerBooking
CHECK_DEADLOCK FALSE

\* A deletion is settled although another run still creates.
SPECIFICATION Spec
CONSTANTS
  None = None
  Inline = inline
  Sweepers = {s1}
  Events = {e1, e2}
  Times = {t1, t2}
  MaxAttempts = 2
  MaxEdits = 1
SYMMETRY Interchangeable
INVARIANTS DeleteClearsTheId
CHECK_DEADLOCK FALSE

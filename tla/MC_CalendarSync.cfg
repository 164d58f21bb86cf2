\* A booking, one reschedule and a cancellation beside one sweep.
SPECIFICATION FairSpec
CONSTANTS
  None = None
  Inline = inline
  Sweepers = {s1}
  Events = {e1, e2}
  Times = {t1, t2}
  MaxAttempts = 2
  MaxEdits = 1
INVARIANTS TypeOK AttemptsBounded ConfirmedEventLives
PROPERTIES SyncSettles
CHECK_DEADLOCK FALSE

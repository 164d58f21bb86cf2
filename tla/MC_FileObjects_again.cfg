\* What a client does that PUTs again with the same signed URL.
SPECIFICATION Spec
CONSTANTS
  None = None
  attachment = attachment
  document = document
  Objects = {attachment, document}
  Class <- ClassOf
  Removers = {m1, m2}
  Quota = 2
  MaxSize = 2
  MaxFaults = 1
  MaxPuts = 2
  MayOverrun = FALSE
INVARIANTS OnlyReservedIsCounted CheckedBytesStay DeletedIsGone
CHECK_DEADLOCK FALSE

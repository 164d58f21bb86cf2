\* As MC_FileObjects, for two files at once, without liveness.
SPECIFICATION Spec
CONSTANTS
  None = None
  attachment = attachment
  document = document
  Objects = {attachment, document}
  Class <- ClassOf
  Removers = {m1, m2}
  Quota = 2
  MaxSize = 2
  MaxFaults = 1
  MaxPuts = 2
  MayOverrun = FALSE
INVARIANTS TypeOK QuotaRespected UsableHasBytes NoOrphans
CHECK_DEADLOCK FALSE

\* An attachment and a document compete for a quota; a request and a sweep delete.
SPECIFICATION FairSpec
CONSTANTS
  None = None
  attachment = attachment
  document = document
  Objects = {attachment, document}
  Class <- ClassOf
  Removers = {m1, m2}
  Quota = 1
  MaxSize = 2
  MaxFaults = 1
  MaxPuts = 2
  MayOverrun = FALSE
INVARIANTS TypeOK QuotaRespected UsableHasBytes NoOrphans
PROPERTY FilesSettle
CHECK_DEADLOCK FALSE

\* Liveness needs no symmetry and small bounds.
SPECIFICATION FairSpec
CONSTANTS
  None = None
  c1 = c1
  c2 = c2
  Workers = {w1}
  Payloads = {c1}
  Contents = {c1}
  Yields <- OneContent
  Kind = "website"
  MaxAttempts = 2
  MaxRevision = 2
PROPERTIES SubmissionsSettle

\* Two unchanged crawls in a row.
SPECIFICATION Spec
CONSTANTS
  None = None
  c1 = c1
  c2 = c2
  Workers = {w1}
  Payloads = {c1}
  Contents = {c1, c2}
  Yields <- OneWebsite
  Kind = "website"
  MaxAttempts = 2
  MaxRevision = 3
INVARIANT UnchangedKeepsContentRevision

\* A retry after the processed text was stored once.
SPECIFICATION Spec
CONSTANTS
  None = None
  c1 = c1
  c2 = c2
  Workers = {w1}
  Payloads = {c1, c2}
  Contents = {c1, c2}
  Yields <- DocumentYields
  Kind = "document"
  MaxAttempts = 3
  MaxRevision = 1
INVARIANT RetryCanStoreItsText

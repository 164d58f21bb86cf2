\* A website whose address changes under way, two slots.
SPECIFICATION Spec
CONSTANTS
  None = None
  c1 = c1
  c2 = c2
  Workers = {w1, w2}
  Payloads = {c1, c2}
  Contents = {c1, c2}
  Yields <- WebsiteYields
  Kind = "website"
  MaxAttempts = 2
  MaxRevision = 2
SYMMETRY Slots
INVARIANTS TypeOK JobAndSourceAgree HolderIsCurrent UnchangedVerdictFresh
PROPERTY ImplementsPublication

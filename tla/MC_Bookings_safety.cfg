\* Hosted and unhosted meetings of a type whose settings change under way.
SPECIFICATION Spec
CONSTANTS
  None = None
  short = short
  long = long
  head = head
  p1 = p1
  p2 = p2
  p3 = p3
  i1 = i1
  i2 = i2
  Requests = {p1, p2}
  Instances = {i1}
  InstanceOf <- OneServer
  PoolSize = 2
  Ids = {b1, b2}
  Types = {t}
  Settings <- TwoSettings
  Hosts = {h}
  Starts = {1, 2}
  MaxNow = 0
  Keys = {}
  StoredKey <- NoKeys
SYMMETRY Interchangeable
INVARIANTS TypeOK NoDoubleBooking
PROPERTIES ImplementsAgenda

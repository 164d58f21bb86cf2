\* A long key, repeated; the clock stands still.
SPECIFICATION Spec
CONSTANTS
  None = None
  short = short
  long = long
  head = head
  p1 = p1
  p2 = p2
  p3 = p3
  i1 = i1
  i2 = i2
  Requests = {p1, p2}
  Instances = {i1}
  InstanceOf <- OneServer
  PoolSize = 2
  Ids = {b1, b2}
  Types = {t}
  Settings <- OneSetting
  Hosts = {}
  Starts = {1}
  MaxNow = 0
  Keys = {long, head}
  StoredKey <- LongKey
INVARIANTS ReplayReturnsBooking

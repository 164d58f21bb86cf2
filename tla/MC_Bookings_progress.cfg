\* Creates with a key; two servers with a lock pool of one connection each.
SPECIFICATION FairSpec
CONSTANTS
  None = None
  short = short
  long = long
  head = head
  p1 = p1
  p2 = p2
  p3 = p3
  i1 = i1
  i2 = i2
  Requests = {p1, p2, p3}
  Instances = {i1, i2}
  InstanceOf <- TwoServers
  PoolSize = 1
  Ids = {b1}
  Types = {t}
  Settings <- WithNotice
  Hosts = {}
  Starts = {1}
  MaxNow = 1
  Keys = {short}
  StoredKey <- ShortKey
PROPERTIES RequestsEnd

SPECIFICATION ServerSpec
CONSTANTS
  a = a
  b = b
  c = c
  d = d
  Proxies = {a, b, c, d}
  NilProxy = NilProxy
  CounterRange = 2
  Requests = {r1, r2}
  Kinds = {"retryable", "connect"}
  Clients = {inside, outside}
  AllowedIPs = {inside}
  Lists <- MCOneList
CHECK_DEADLOCK FALSE
PROPERTIES
  RetryReachesNextUpstream

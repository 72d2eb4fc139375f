SPECIFICATION FairServerSpec
CONSTANTS
  a = a
  b = b
  c = c
  d = d
  Proxies = {a, b, c, d}
  NilProxy = NilProxy
  CounterRange = 4
  Requests = {r1, r2}
  Kinds = {"retryable", "single", "connect"}
  Clients = {inside, outside}
  AllowedIPs = {inside}
  Lists <- MCLists
CHECK_DEADLOCK FALSE
INVARIANTS
  ServerTypeOK
  LoopFindsUpstream
  NeverReplayed
PROPERTIES
  GivesUpAfterDistinctUpstreams
  RequestsAreAnswered
  SignalEndsProcess

SPECIFICATION PromptSpec
CONSTANTS
  Configured <- MCConfigured
  MinimumInterval = 1
  MinimumBackoff = 2
  DefaultMaximum = 3
  MaxDuration = 8
  MaxAge = 3
  a = a
  b = b
  Proxies = {a, b}
  NilProxy = NilProxy
  CounterRange = 2
  Lists <- MCLists
  NoChannel = NoChannel
  Requests = {r1, r2}
  Channels = {c1, c2}
PROPERTIES
  EnsureReturns

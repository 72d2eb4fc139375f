SPECIFICATION SupplySpec
CONSTANTS
  Configured <- MCConfigured
  MinimumInterval = 20
  MinimumBackoff = 40
  DefaultMaximum = 120
  MaxDuration = 1000000
  MaxPort = 2
  MaxAPIResponseSize = 1
  Proxies <- MCProxies
  NilProxy = NilProxy
  CounterRange = 12
  Answers <- MCAnswers
INVARIANTS
  DelayWithinBounds
  PoolIsOneAnswer
PROPERTIES
  RecoveryTakesThreeSuccesses
  PassesAreExact
  ImplementsRoundRobin
  ScheduleFollowsPool

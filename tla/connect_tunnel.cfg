SPECIFICATION FairSpec
CONSTANTS
  Attempts = 2
  MaxBytes = 2
CHECK_DEADLOCK FALSE
INVARIANTS
  NothingLeaks
  DeadlineGuardsHandshake
  FirstEndIsComplete
PROPERTIES
  OneEndEndsBoth
  HandshakeEnds

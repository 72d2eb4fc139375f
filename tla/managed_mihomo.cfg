SPECIFICATION FairSpec
CONSTANTS
  Subscriptions = {s1, s2}
  Passwords = {p1, p2}
  Nothing = Nothing
INVARIANTS
  OneMihomo
  ServedIsPublished
  FailedStartLeavesNone
PROPERTIES
  PasswordsSurvive
  UpdateIsHonoured
  StopEnds

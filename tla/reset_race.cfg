SPECIFICATION Spec
CONSTANTS
  Subscriptions = {s1, s2}
  Passwords = {p1, p2}
  Nothing = Nothing
PROPERTIES
  ResetChangesPasswords

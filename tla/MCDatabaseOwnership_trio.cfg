SPECIFICATION Spec
CONSTANTS
  Nobody = Nobody
  Processes = {p1, p2, p3}
  Departed = {}
  Mortal = {p1}
  MayDoubt = FALSE
  MaxAttempts = 2
INVARIANT SoleOwner
\* every operation ends
CHECK_DEADLOCK FALSE

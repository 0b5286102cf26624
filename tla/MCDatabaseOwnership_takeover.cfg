SPECIFICATION FairSpec
CONSTANTS
  Nobody = Nobody
  Processes = {p1, p2}
  Departed = {}
  Mortal = {p1, p2}
  MayDoubt = FALSE
  MaxAttempts = 2
PROPERTY DeadOwnerIsReplaced
\* every operation ends, and both processes may die
CHECK_DEADLOCK FALSE

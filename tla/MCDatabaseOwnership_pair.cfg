SPECIFICATION Spec
CONSTANTS
  Nobody = Nobody
  Processes = {x, p1, p2}
  Departed = {x}
  Mortal = {p1, p2}
  MayDoubt = TRUE
  MaxAttempts = 1
SYMMETRY Contenders
INVARIANTS SoleOwner FilesAreOwned
PROPERTY LiveRecordStays
\* every operation ends, and both processes may die
CHECK_DEADLOCK FALSE

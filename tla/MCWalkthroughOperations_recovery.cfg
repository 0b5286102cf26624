CONSTANTS
  Cancellers = {c1}
  NoEvidence = NoEvidence
  NoArtifact = NoArtifact
  HeadOnly = HeadOnly
  OlderArtifact = OlderArtifact
  Snapshots = {s1}
  Identities = {i1, i2}
  Keys = {k1, k2}
  MaxOps = 2
  MaxClock = 1
  MaxCrashes = 1
  MaxFaults = 1
  ClockMayStepBack = FALSE
  HeadOnlyIdentities = {i2}
SPECIFICATION FairSpec
INVARIANTS NoDeadEpochWork
PROPERTIES ImplementsLedger RequestsReturn WorkSettles
CHECK_DEADLOCK FALSE

CONSTANTS
  Cancellers = {c1}
  NoEvidence = NoEvidence
  NoArtifact = NoArtifact
  HeadOnly = HeadOnly
  OlderArtifact = OlderArtifact
  Snapshots = {s1}
  Identities = {i1}
  Keys = {k1, k2}
  MaxOps = 2
  MaxClock = 1
  MaxCrashes = 1
  MaxFaults = 0
  ClockMayStepBack = FALSE
  HeadOnlyIdentities = {}
SPECIFICATION Spec
INVARIANTS CompletedRegenerationIsFresh

CHECK_DEADLOCK FALSE

CONSTANTS
  Cancellers = {c1}
  NoEvidence = NoEvidence
  NoArtifact = NoArtifact
  HeadOnly = HeadOnly
  OlderArtifact = OlderArtifact
  Snapshots = {s1}
  Identities = {i1}
  Keys = {k1, k2, k3}
  MaxOps = 3
  MaxClock = 2
  MaxCrashes = 0
  MaxFaults = 0
  ClockMayStepBack = FALSE
  HeadOnlyIdentities = {}
SPECIFICATION Spec
INVARIANTS TypeOK OneActivePerGeneration GenerationIsDriven OperationsAreChained CompletedRegenerationIsFresh
CHECK_DEADLOCK FALSE

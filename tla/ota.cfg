CONSTANTS
  Releases <- MCReleases
  otaCheckPeriodMs = 3
  otaHealthyPeriodMs = 2
  Wrap = 5
  MaxCycle = 2
  Chunks = 2
  MaxResets = 2
SPECIFICATION Spec
INVARIANTS TypeOK OnlyWholeImagesBoot ProbationIsKnown
PROPERTIES ConfirmedWhenHealthy UpdateArrives

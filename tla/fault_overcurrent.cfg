CONSTANTS
  voltageCutoff = 50
  voltageWarningLow = 200
  voltageWarningHigh = 250
  overcurrentWarningA = 8
  overcurrentFaultA = 12
  faultDebounceMs = 2
  faultRecoveryTimeMs = 5
  Wrap = 8
  MaxGap = 3
  Horizon = 5
  Readings <- MCReadings
SPECIFICATION Spec
PROPERTY OvercurrentFaultNeedsThreshold

CONSTANTS
  voltageCutoff = 50
  voltageWarningLow = 200
  voltageWarningHigh = 250
  overcurrentWarningA = 8
  overcurrentFaultA = 12
  faultDebounceMs = 1
  faultRecoveryTimeMs = 1
  Wrap = 2
  Readings <- MCReadings
  NaN = NaN
  currentCutoff = 0
  powerCutoff = 5
  MaxSeq = 2
SPECIFICATION Spec
INVARIANTS TypeOK NewestIsWaiting
PROPERTIES TelemetryGoesForward FaultIsNotRepeated SettledFaultIsSeen LastingConditionIsSeen

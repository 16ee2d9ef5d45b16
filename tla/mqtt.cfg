CONSTANTS
  Record <- MCRecord
  NoRecord = 0
  telemetryBufferCapacity = 2
  mqttReconnectIntervalMs = 2
  mqttDrainPerLoop = 1
  Wrap = 3
  wifiRetryIntervalMs = 2
  MaxCycle = 1
SPECIFICATION Spec
INVARIANTS TypeOK IndicesAgree RecordsAccountedFor NewestAreKept
PROPERTIES ImplementsQueue BacklogIsReplayed WifiIsRejoined OutageIsShown

CONSTANTS
  Tariffs <- MCTariffs
  MaxEnergy = 3
  MaxResets = 2
SPECIFICATION Spec
INVARIANTS TypeOK TotalIsCarriedOver SavedPairAgrees
PROPERTIES CheckpointsNeverGoBack EnergyIsSaved
CHECK_DEADLOCK FALSE

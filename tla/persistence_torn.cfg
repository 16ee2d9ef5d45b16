CONSTANTS
  Tariffs <- MCTariffs
  MaxEnergy = 3
  MaxResets = 0
SPECIFICATION Spec
INVARIANT StartCopyIsOneSample
CHECK_DEADLOCK FALSE

SPECIFICATION Spec
CONSTANTS
  SearchStateLimit = 12
  MaxForwards = 2
  MaxFaults = 2
  Tensors <- MCTensors
  Labels <- MCLabels
  StorageSizes <- MCSizes
  Capacities <- MCCapacities
  Setups <- MCSetups
CHECK_DEADLOCK FALSE
INVARIANTS TypeOK ReadsOwnWeights KernelsKeepTheirCopies NoCopyOutlivesTrap WeightsComeBack LoadsFromPinnedHost PinsBalance MigrationsFit RefusedOnlyIfImpossible

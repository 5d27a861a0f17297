SPECIFICATION Spec
CONSTANTS
  NLayers = 4
  Blocks = {b1, b2}
  BlockPlans <- ReusePlans
  Variants <- BothVariants
  PolicyMode = "warn"
  PieceJoins = FALSE
  MaxPasses = 2
  MaxBreaks = 1
SYMMETRY BlockSymmetry
INVARIANTS
  TypeOK
  NoOverwriteWhileRead
  ReadsOwnWeights
  StreamsNeverDeadlock
  StrictModeNeverFalseRaises
CHECK_DEADLOCK FALSE

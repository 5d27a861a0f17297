SPECIFICATION Spec
CONSTANTS
  NLayers = 3
  Blocks = {b1, b2}
  BlockPlans <- MixedPlans
  Variants <- BothVariants
  PolicyMode = "error"
  PieceJoins = FALSE
  MaxPasses = 2
  MaxBreaks = 0
SYMMETRY BlockSymmetry
INVARIANTS
  StrictModeNeverFalseRaises
CHECK_DEADLOCK FALSE

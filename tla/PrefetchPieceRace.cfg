SPECIFICATION Spec
CONSTANTS
  NLayers = 4
  Blocks = {b1, b2}
  BlockPlans <- ReusePlans
  Variants <- BothVariants
  PolicyMode = "error"
  PieceJoins = TRUE
  MaxPasses = 2
  MaxBreaks = 1
SYMMETRY BlockSymmetry
INVARIANTS
  NoOverwriteWhileRead
CHECK_DEADLOCK FALSE

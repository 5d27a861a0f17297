SPECIFICATION Spec
CONSTANTS
  NLayers = 4
  Blocks = {b1, b2}
  BlockPlans <- CyclicReusePlans
  Variants <- BothVariants
  PolicyMode = "warn"
  PieceJoins = FALSE
  MaxPasses = 2
  MaxBreaks = 0
SYMMETRY BlockSymmetry
INVARIANTS
  NoOverwriteWhileRead
CHECK_DEADLOCK FALSE

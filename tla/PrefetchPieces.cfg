SPECIFICATION Spec
CONSTANTS
  NLayers = 3
  Blocks = {b1, b2}
  BlockPlans <- MixedPlans
  Variants <- BothVariants
  PolicyMode = "error"
  PieceJoins = TRUE
  MaxPasses = 2
  MaxBreaks = 2
SYMMETRY BlockSymmetry
INVARIANTS
  UnjoinedWorkIsPending
  HandlesOfThisSession
  PolicySeesUnawaitedPrefetch
CHECK_DEADLOCK FALSE

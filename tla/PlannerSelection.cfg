SPECIFICATION Spec
CONSTANTS
  Threshold = 1
  ScaleUnit = 10
  ExhaustiveCopies = 3
  ExhaustiveBlocks = 3
  ExactTensors = 1
  MinBudget = 2
  Setups <- MCSelectionSetups
  Available <- MCAvailable
  Retimed <- MCRetimed
CHECK_DEADLOCK FALSE
INVARIANT NoCopyOverwrites

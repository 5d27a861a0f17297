SPECIFICATION Spec
CONSTANTS
  Threshold = 1
  ScaleUnit = 10
  ExhaustiveCopies = 3
  ExhaustiveBlocks = 3
  ExactTensors = 1
  MinBudget = 2
  Setups <- MCSetups
  Available <- MCAvailable
  Retimed <- MCRetimed
CHECK_DEADLOCK FALSE
INVARIANTS TypeOK CopiesDoNotOverwrite MapsAgree BudgetHonoured ClaimedPeakIsReal RearrangingHelps

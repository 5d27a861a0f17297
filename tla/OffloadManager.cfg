SPECIFICATION Spec
CONSTANTS
  Configs <- MCConfigs
  Faults <- MCFaults
  MaxSessions = 2
  MaxFaults = 1
  MaxSuspends = 1
  MaxPasses = 4
CHECK_DEADLOCK FALSE
INVARIANTS
  TypeOK
  InferenceAfterBudget
  NeverServesForeignBlocks
  CompiledSessionAgrees
  HookFollowsModel
  MeasureBackedByReplays
  LoadersAccountedFor

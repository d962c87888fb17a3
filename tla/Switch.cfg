SPECIFICATION FairSpec
CONSTANTS
  HartId = 1
  Slots = {k1, k2}
  Envs <- MCEnvs
INVARIANTS
  ProcessContextKept ReturnsToCaller
  SscratchMakesSenseUndisturbed SscratchValid
PROPERTY KernelRegainsHart
CHECK_DEADLOCK FALSE

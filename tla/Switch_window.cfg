SPECIFICATION Spec
CONSTANTS
  HartId = 1
  Slots = {k1, k2}
  Envs <- MCEnvs
INVARIANT SscratchMakesSense

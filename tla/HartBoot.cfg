SPECIFICATION Spec
CONSTANTS
  MaxHart = 3
  Machines <- MCMachines
INVARIANTS
  AddressesMapped
  StacksApart
  OneBootHart
  StartedHartsReady
PROPERTY EveryHartRuns
CHECK_DEADLOCK FALSE

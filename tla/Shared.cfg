SPECIFICATION FairSpec
CONSTANTS
  N = 2
  Mutexes = {1}
  RwLocks = {2}
  SimpleMutexes = {3}
  InterruptMutexes = {4}
  InterruptRwLocks = {5}
  Uses <- MCUses
  Usize = 4
  MaxWord = 8
INVARIANTS
  CountMatchesGuards PreemptedHoldsNothing
  MaskedWhileHolding UnmaskedWhenFree GuardsExclusive
PROPERTY GuardsReturned
CHECK_DEADLOCK FALSE

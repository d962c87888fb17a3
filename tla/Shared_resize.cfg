SPECIFICATION Spec
CONSTANTS
  N = 2
  Mutexes = {1}
  RwLocks = {2}
  SimpleMutexes = {3}
  InterruptMutexes = {4}
  InterruptRwLocks = {5}
  Uses <- MCBoot
  Usize = 4
  MaxWord = 8
PROPERTY EntriesStay

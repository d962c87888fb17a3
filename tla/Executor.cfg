SPECIFICATION FairSpec
CONSTANTS
  Tasks = {a, b}
  d1 = d1
  d2 = d2
  Drivers = {d1, d2}
  Uses <- MCUses
INVARIANTS TasksKept WokenIsQueued WakersBounded QueueIsServed
PROPERTIES WokenIsPolled HandleReturns SpawnedIsPushed
CHECK_DEADLOCK FALSE

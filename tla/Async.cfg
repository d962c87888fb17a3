SPECIFICATION FairSpec
CONSTANTS
  a = a
  b = b
  c = c
  Tasks = {a, b, c, d}
  Uses <- MCUses
  MaxWakers = 4
INVARIANTS WaiterWillBeWoken
PROPERTIES FreeLockIsTaken CallIsReceived
CHECK_DEADLOCK FALSE

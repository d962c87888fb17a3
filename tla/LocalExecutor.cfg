SPECIFICATION Spec
CONSTANTS
  Senders = {"sender"}
  Receivers = {"receiver", "receiver2"}
  Spawners = {"spawner", "spawner2"}
  Child <- MCChild
  Uses <- MCUses
  MaxQueue = 3
  MaxWakers = 2
  MaxSends = 3
INVARIANTS
  NoPanic
  NoWakeLost
  SpawnedIsStarted
PROPERTY NotificationReceived
CHECK_DEADLOCK FALSE

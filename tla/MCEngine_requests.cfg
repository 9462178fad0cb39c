CONSTANTS
  Pools = {p1}
  RunIds = {1, 2}
  NoPool = NoPool
  NoId = 0
  MaxRunners = 2
  MaxGen = 1
  MaxBoots = 1
  Commands = {"start", "stop", "force", "remove", "refused", "status", "auth"}
  Events = {"crash", "late"}
SPECIFICATION Spec
INVARIANTS
  TypeOK
  Accord
  World
  RunnersRecorded
  StoppedPoolDrains
  CrashLosesNothing
PROPERTIES
  BackoffHolds
  DrainIsFinal
  OnlyForceKills
  LogsBeforeRemoval

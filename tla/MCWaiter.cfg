CONSTANTS
  Pools = {p1}
  RunIds = {1}
  NoPool = NoPool
  NoId = 0
  MaxRunners = 1
  MaxGen = 1
  MaxBoots = 2
  Commands = {"start", "stop", "force", "remove"}
  Events = {"crash", "late", "register"}
SPECIFICATION WaiterSpec
INVARIANTS
  NoLeakedRegistration
  CleanupIsComplete
PROPERTIES
  CompletedIsExpected
  LivesAsPromised

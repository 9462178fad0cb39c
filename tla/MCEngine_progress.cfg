CONSTANTS
  Pools = {p1}
  RunIds = {1}
  NoPool = NoPool
  NoId = 0
  MaxRunners = 1
  MaxGen = 2
  MaxBoots = 2
  Commands = {"start", "stop", "remove", "force", "upgrade"}
  Events = {"crash", "register"}
SPECIFICATION FairSpec
PROPERTIES
  ProvisionIsWanted
  ForceStopsRunners
  RemovalCompletes
  PoolServes

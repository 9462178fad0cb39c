CONSTANTS
  Pools = {p1, p2}
  RunIds = {1, 2}
  NoPool = NoPool
  NoId = 0
  MaxRunners = 1
  MaxGen = 1
  MaxBoots = 1
  Commands = {"start", "stop", "remove", "add", "scale", "apply"}
  Events = {}
SPECIFICATION Spec
SYMMETRY PoolSymmetry
INVARIANTS
  CapacityRespected
PROPERTIES
  StartIsWanted
  PoolsLiveAsPromised

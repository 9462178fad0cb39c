CONSTANTS
  Pools = {p1}
  RunIds = {1}
  NoPool = NoPool
  NoId = 0
  MaxRunners = 1
  MaxGen = 1
  MaxBoots = 2
  Commands = {"start"}
  Events = {"register"}
SPECIFICATION Spec
INVARIANTS
  RebootIsExpected

CONSTANTS
  Pools = {p1}
  RunIds = {1, 2}
  NoPool = NoPool
  NoId = 0
  MaxRunners = 2
  MaxGen = 1
  MaxBoots = 1
  Commands = {"start", "refused"}
  Events = {}
SPECIFICATION Spec
PROPERTIES
  ExitsPauseProvisioning

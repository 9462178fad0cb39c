CONSTANTS
  Doctors = {doc}
  PassCaller = pass
  Keys = {pat}
  AppKeys = {}
  Scopes = {org}
  Runners = {1}
  NoRunner = 0
  PageSize = 2
  PollInterval = 1
  PermissionWait = 1
  RateWaits = {3}
  TokenLife = 2
  TokenMargin = 1
  MaxTime = 2
  MaxClears = 0
  MaxSecrets = 1
SPECIFICATION Spec
INVARIANTS
  BlockHolds

CONSTANTS
  Doctors = {}
  PassCaller = pass
  Keys = {pat}
  AppKeys = {}
  Scopes = {org}
  Runners = {1, 2, 3}
  NoRunner = 0
  PageSize = 2
  PollInterval = 1
  PermissionWait = 1
  RateWaits = {2}
  TokenLife = 2
  TokenMargin = 1
  MaxTime = 0
  MaxClears = 0
  MaxSecrets = 1
SPECIFICATION Spec
INVARIANTS
  FreshSees

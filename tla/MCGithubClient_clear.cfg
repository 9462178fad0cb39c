CONSTANTS
  Doctors = {doc}
  PassCaller = pass
  Keys = {app}
  AppKeys = {app}
  Scopes = {org}
  Runners = {1}
  NoRunner = 0
  PageSize = 1
  PollInterval = 1
  PermissionWait = 1
  RateWaits = {1}
  TokenLife = 2
  TokenMargin = 1
  MaxTime = 1
  MaxClears = 1
  MaxSecrets = 2
SPECIFICATION Spec
INVARIANTS
  TypeOK
  ClearForgets
  MissesOnlyShifted

CONSTANTS
  p = p
  a = a
  b = b
  i = i
  j = j
  Pools <- MCPools
  Profiles <- MCProfiles
  Images <- MCImages
  Drafts <- MCDrafts
  MaxReplicas = 1
  MaxRunners = 1
  MaxRevision = 3
SPECIFICATION Spec
INVARIANTS
  TypeOK
  PoolsMatch
  EditsSurvive
  StoreCanBeApplied
  ScopesHold
  GenerationsTell
PROPERTIES
  PoolsLiveAsPromised
  ApplyReplacesWhatWasShown

CONSTANTS
  None = None
  IllTyped = IllTyped
  NotJson = NotJson
  MixedKeys = MixedKeys
  Infinite = Infinite
  TextBefore <- MCTextBefore
  Folded <- MCFolded
  RequiredAdapterNonGoals <- MCNonGoals
  CoreKinds <- MCCoreKinds
  CoreRelations <- MCCoreRelations
  KnownBlocks <- MCKnownBlocks
  Profiles <- MCProfiles
  DependencyRelations = {"depends_on"}
  Sources <- MCSources
  FirstRequests <- MCBothRequests
  LaterRequests <- MCBothRequests
  Repository <- MCRepository
  MaxRuns = 1
SPECIFICATION Spec
CHECK_DEADLOCK FALSE
INVARIANT UndeclaredUseIsBlocked

CONSTANTS
  None = None
  IllTyped = IllTyped
  NotJson = NotJson
  MixedKeys = MixedKeys
  Infinite = Infinite
  TextBefore <- MCTextBefore
  Folded <- MCFolded
  RequiredAdapterNonGoals <- MCNonGoals
  CoreKinds <- MCCoreKinds
  CoreRelations <- MCCoreRelations
  KnownBlocks <- MCKnownBlocks
  Profiles <- MCProfiles
  DependencyRelations = {"depends_on"}
  Sources <- MCSources
  FirstRequests <- MCFirstRequests
  LaterRequests <- MCLaterRequests
  Repository <- MCRepository
  MaxRuns = 3
SPECIFICATION Spec
CHECK_DEADLOCK FALSE
INVARIANTS
  CyclesExact
  CheckedDocumentsRun
  ManifestVouches
  ReadyIsGuarded
  PassedIsEarned

CONSTANTS
  None = None
  IllTyped = IllTyped
  Absent = Absent
  BadTime = BadTime
  Torn = Torn
  Procs = {p1, p2}
  CaseFold <- MCCaseFold
  Unprefixed <- MCUnprefixed
  LastSegment <- MCLastSegment
  CoreDenied <- MCCoreDenied
  NonHuman <- MCNonHuman
  Surface <- MCSurface
  MaxSources = 3
  HighImpact <- MCHighImpact
  CoreControls <- MCCoreControls
  Immutable <- MCImmutable
  Mutable <- MCMutable
  Scenarios <- MCScenarios
SYMMETRY Symmetric
SPECIFICATION Spec
CHECK_DEADLOCK FALSE
INVARIANTS
  SubstitutionIsDetected

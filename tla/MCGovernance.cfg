CONSTANTS
  None = None
  IllTyped = IllTyped
  Absent = Absent
  Procs = {p1, p2}
  CoreDenied <- MCCoreDenied
  NonHuman <- MCNonHuman
  Surface = "execution_surface"
  MaxSources = 3
  MaxSteps = 40
  MaxWidth = 2
  MaxDepth = 5
  DocumentNodes <- MCDocumentNodes
  PackNames <- MCPackNames
  ReservedIds <- MCReservedIds
  BlockSchemas <- MCBlockSchemas
  Builtins <- MCBuiltins
  MaxRulesPerPack = 2
  MaxComposedRules = 2
  MaxComposedSchemas = 2
  MaxComposedChecks = 2
  StructuralFindings <- MCStructuralFindings
  Directories <- MCDirectories
  Scenarios <- MCScenarios
SYMMETRY Symmetric
SPECIFICATION Spec
CHECK_DEADLOCK FALSE
INVARIANTS
  CheckedUnderLock
  ComposedIsStrictest
  RulesPerElement
  RulesNeverSilenced
  TrustedMeansCurrent
PROPERTIES
  LockReplacedWhole

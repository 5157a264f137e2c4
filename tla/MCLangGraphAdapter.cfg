CONSTANTS
  a = a
  b = b
  Occurrences <- MCTasks
  Surface = surface
  Operations = {surface}
  Subject = subject
  Subjects = {subject}
  MaxAttempt = 3
  MaxNodeAttempt = 3
  Environments <- MCEnvironments
SYMMETRY MCSymmetry
SPECIFICATION Spec
CHECK_DEADLOCK FALSE
INVARIANTS
  StreamValid
  AttemptIsNext
  RunsUnderOwnAllowance
  FaultsStayContained
PROPERTIES
  ImplementsLifecycle

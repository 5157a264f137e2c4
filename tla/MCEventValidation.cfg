CONSTANTS
  o1 = o1
  o2 = o2
  p1 = p1
  p2 = p2
  x = x
  y = y
  NoOperation = NoOperation
  Operations = {p1, p2}
  Occurrences = {o1, o2}
  Subjects = {x, y}
  MaxAttempt = 2
  MaxLength = 4
  Inputs <- MCInputs
SPECIFICATION Spec
CHECK_DEADLOCK FALSE
INVARIANTS
  ScanIsExact
PROPERTIES
  PrefixesStayValid

CONSTANTS
  a = a
  b = b
  Occurrences <- MCTasks
  Surface = surface
  Operations = {surface}
  Subject = subject
  Subjects = {subject}
  MaxAttempt = 3
  MaxNodeAttempt = 3
  Environments <- MCLate
SYMMETRY MCSymmetry
SPECIFICATION Spec
CHECK_DEADLOCK FALSE
INVARIANTS
  SuccessClosesOccurrence

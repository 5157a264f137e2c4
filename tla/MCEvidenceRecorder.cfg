CONSTANTS
  t1 = t1
  t2 = t2
  m1 = m1
  m2 = m2
  o1 = o1
  NoOccurrence = NoOccurrence
  Constructor = Constructor
  Nobody = Nobody
  Threads <- MCThreads
  Writers <- MCWriters
  Missions = {m1, m2}
  Occurrences = {o1}
  MaxSequence = 4
  DecisionAt = 2
  Priors <- MCPriors
  MaxBatch = 2
  MaxCalls = 2
SPECIFICATION FairSpec
INVARIANTS
  TypeOK
  SequencesContiguous
  CountersMatchEvents
  DecisionsAtomic
  ModeNeverMixed
  TimeNeverDecreases
  PublishedWellFormed
  FactoryKeepsPromise
PROPERTIES
  OnlyAppends
  ImplementsLog
  LockReleased
  EveryCallReturns

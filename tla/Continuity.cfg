SPECIFICATION Spec
CONSTANTS
  k1 = k1
  k2 = k2
  k3 = k3
  w1 = w1
  w2 = w2
  t1 = t1
  t2 = t2
  Keys <- MCKeys
  Workers <- MCWorkers
  Threads <- MCThreads
  MaxSessions = 1
  TombstoneCap = 1
  MaxEvaluations = 3
  MaxFaults = 2
  Former = Former
  NoRow = NoRow
SYMMETRY Symmetric
INVARIANTS
  ContinuityTypeOK
  CleanOnlyThroughGaps
  WorkersSeeEachOther
  ForgottenMeansDegraded
CHECK_DEADLOCK FALSE

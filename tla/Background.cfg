CONSTANTS
  w1 = w1
  w2 = w2
  Workers = {w1, w2}
  MaxJobs = 2
  MaxAttempts = 2
  MaxEvents = 4
  Window = 2
  MaxStarts = 2
SPECIFICATION FocusedSpec
INVARIANTS
  QueueTypeOK
  AttemptsBounded
  OutcomeEarned
  AlertTypeOK
  AlertedOncePerRun
  NoneOverlooked
PROPERTIES
  EveryJobSettles
  EveryAlertArrives
CHECK_DEADLOCK FALSE

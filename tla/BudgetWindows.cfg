CONSTANTS
  g1 = g1
  g2 = g2
  p1 = p1
  p2 = p2
  Principals = {p1}
  Guards = {g1, g2}
  PrincipalOf <- SameCaller
  Rules <- DailyRule
  Policies <- DailyList
  DayLength = 5
  MonthLength = 100
  Readings = {1, 4, 6}
  ReservationTTL = 3
  RetentionTime = 3
  Shared = Shared
  NoRow = NoRow
  NoUsage = NoUsage
  NoGuard = NoGuard
  UnitsUsed = {1, 2}
  CommitsMayFail = FALSE
  Decisions = {"allow"}
SPECIFICATION Spec
SYMMETRY Interchangeable
INVARIANTS
  TypeOK
  ChargesConserved
  HoldsCounted
  CapRespected
  HoldsBoundToOwnEvent
PROPERTIES
  SettledIsFinal
  KeepsPromise
CHECK_DEADLOCK FALSE

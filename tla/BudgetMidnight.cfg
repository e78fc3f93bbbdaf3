CONSTANTS
  g1 = g1
  g2 = g2
  p1 = p1
  p2 = p2
  Principals = {p1}
  Guards = {g1, g2}
  PrincipalOf <- SameCaller
  Rules <- DailyRule
  Policies <- DailyList
  DayLength = 4
  MonthLength = 100
  Readings = {4, 5, 9}
  ReservationTTL = 3
  RetentionTime = 3
  Shared = Shared
  NoRow = NoRow
  NoUsage = NoUsage
  NoGuard = NoGuard
  UnitsUsed = {1, 2}
  CommitsMayFail = FALSE
  Decisions = {"allow"}
SPECIFICATION Spec
INVARIANTS
  HoldsCounted
CHECK_DEADLOCK FALSE

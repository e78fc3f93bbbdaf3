CONSTANTS
  g1 = g1
  g2 = g2
  p1 = p1
  p2 = p2
  Principals = {p1, p2}
  Guards = {g1, g2}
  PrincipalOf <- TwoCallers
  Rules <- BothHard
  Policies <- BothHardList
  DayLength = 4
  MonthLength = 100
  Readings = {1, 5}
  ReservationTTL = 3
  RetentionTime = 3
  Shared = Shared
  NoRow = NoRow
  NoUsage = NoUsage
  NoGuard = NoGuard
  UnitsUsed = {2}
  CommitsMayFail = FALSE
  Decisions = {"allow", "approved"}
SPECIFICATION Spec
SYMMETRY Interchangeable
INVARIANTS
  ChargeMatchesStatus
  AllowedCallIsHeld
  ReleasedOnlyIfRefused
  FindingMeansPurged
CHECK_DEADLOCK FALSE

CONSTANTS
  c1 = c1
  c2 = c2
  c3 = c3
  o1 = o1
  o2 = o2
  Calls = {c1, c2}
  Operators = {o1, o2}
  Actions <- OneAction
  Outcomes = {"require_approval"}
  Requests <- OneRequest
  ApprovalTTL = 1
  MaxTime = 2
  LegacyRows = 1
  Backlog <- Earlier
  Unchained = Unchained
  NoTrace = NoTrace
  NoToken = NoToken
  Nobody = Nobody
SPECIFICATION Spec
SYMMETRY Interchangeable
PROPERTIES
  ResolutionIsFinal
CHECK_DEADLOCK FALSE

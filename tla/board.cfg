\* Two threads review one case, resume its thread and cancel it, and the server may die once; one specialist, whose escalation is half a vote.
CONSTANTS
  c1 = c1  w1 = w1  w2 = w2  t1 = t1  t2 = t2  o1 = o1
  None = None
  Cases = {c1}
  Labels = {t1}
  OrderIds = {o1}
  Books = {}
  Keys = {}
  Requests <- Escalation
  Workers = {w1, w2}
  MaxNow = 0
  LabelExpiry = 1
  MaxTracking = 0
  Reviewers = {w1, w2}
  BoardSize = 1
  Threshold = 60
  Desk = {"cancel"}
  MaxCrashes = 1
  MaxAdvice = 2
SYMMETRY Symmetry
SPECIFICATION HistorySpec
INVARIANTS AutoApprovalsUnopposed FinishedIsDecided AdviceOnce
PROPERTIES FollowsLedger AuditTrailGrows
CHECK_DEADLOCK FALSE

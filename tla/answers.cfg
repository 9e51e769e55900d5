\* One thread serves the board, another an agent and a customer; humans answer after a crash and after failures.
CONSTANTS
  c1 = c1  w1 = w1  w2 = w2  t1 = t1  t2 = t2  o1 = o1
  None = None
  Cases = {c1}
  Labels = {t1}
  OrderIds = {o1}
  Books = {}
  Keys = {}
  Requests <- Escalation
  Workers = {w1, w2}
  MaxNow = 0
  LabelExpiry = 1
  MaxTracking = 0
  Reviewers = {w1}
  BoardSize = 2
  Threshold = 60
  Desk = {"review", "finalize", "cancel"}
  MaxCrashes = 1
  MaxAdvice = 3
SPECIFICATION AnsweringSpec
INVARIANTS BoardActsOnItsAdvice
PROPERTIES ReviewsEnd
CHECK_DEADLOCK FALSE

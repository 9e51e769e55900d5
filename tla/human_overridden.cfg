\* One thread, no crash: the carrier refuses the label of an approval the board applied, and a human rejects.
CONSTANTS
  c1 = c1  w1 = w1  w2 = w2  t1 = t1  t2 = t2  o1 = o1
  None = None
  Cases = {c1}
  Labels = {t1, t2}
  OrderIds = {o1}
  Books = {}
  Keys = {}
  Requests <- Escalation
  Workers = {w1}
  MaxNow = 0
  LabelExpiry = 1
  MaxTracking = 0
  Reviewers = {w1}
  BoardSize = 3
  Threshold = 75
  Desk = {}
  MaxCrashes = 0
  MaxAdvice = 2
SPECIFICATION Spec
INVARIANTS HumanIsHeard
CHECK_DEADLOCK FALSE

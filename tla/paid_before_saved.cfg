\* A flush of another thread finds the entry of a case that is not saved yet.
CONSTANTS
  c1 = c1  c2 = c2  c3 = c3  w1 = w1  w2 = w2  t1 = t1  t2 = t2  o1 = o1  k1 = k1  k2 = k2  sku = sku
  None = None
  Cases = {c1}
  Labels = {t1, t2}
  OrderIds = {o1}
  Books <- BookOne
  Keys = {k1}
  Requests <- RefundOnly
  HeaderValues <- NoHeader
  Workers = {w1, w2}
  MaxNow = 0
  LabelExpiry = 1
  MaxTracking = 0
  MaxEntries = 2
  MaxReplacements = 2
  Offered = {"register", "create", "carrier", "inspect", "flush"}
  MaxCrashes = 0
  Payable = {}
SPECIFICATION Spec
INVARIANTS PaidIsSettled
CHECK_DEADLOCK FALSE

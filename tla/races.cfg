\* Two threads on one case of any resolution: every handler but the sweep, racing every other, and one crash.
CONSTANTS
  c1 = c1  c2 = c2  c3 = c3  w1 = w1  w2 = w2  t1 = t1  t2 = t2  o1 = o1  k1 = k1  k2 = k2  sku = sku
  None = None
  Cases = {c1}
  Labels = {t1, t2}
  OrderIds = {o1}
  Books <- BookOne
  Keys = {k1}
  Requests <- EveryResolution
  HeaderValues <- NoHeader
  Workers = {w1, w2}
  MaxNow = 0
  LabelExpiry = 1
  MaxTracking = 0
  MaxEntries = 3
  MaxReplacements = 2
  Offered = {"register", "create", "review", "cancel", "carrier", "inspect", "flush", "crash"}
  MaxCrashes = 1
  Payable = {}
SYMMETRY Symmetry
SPECIFICATION HistorySpec
INVARIANTS TypeOK NoticesAreTrue NoticeInv SettledIsBacked ExecutedWasPaid OneIntentPerCase OneReplacementPerCase
PROPERTIES FollowsLedger AuditTrailGrows LabelsStay

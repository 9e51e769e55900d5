\* Two threads file under one key, and sweep two labels against carrier events; the clock runs, and the server may die once.
CONSTANTS
  c1 = c1  c2 = c2  c3 = c3  w1 = w1  w2 = w2  t1 = t1  t2 = t2  o1 = o1  k1 = k1  k2 = k2  sku = sku
  None = None
  Cases = {c1, c2}
  Labels = {t1, t2}
  OrderIds = {o1}
  Books <- BookOne
  Keys = {k1}
  Requests <- RefundOnly
  HeaderValues = {k1}
  Workers = {w1, w2}
  MaxNow = 1
  LabelExpiry = 1
  MaxTracking = 1
  MaxEntries = 2
  MaxReplacements = 2
  Offered = {"register", "create", "carrier", "sweep", "crash"}
  MaxCrashes = 1
  Payable = {}
SYMMETRY Symmetry
SPECIFICATION HistorySpec
INVARIANTS IInv OneFilingPerKey StrainedOrMet
PROPERTIES ExpiresOnlyUnused KeysArePermanent

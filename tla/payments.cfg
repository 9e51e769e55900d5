\* Requests end, also after the server died; the second entry is paid in the end although the first may never be.
CONSTANTS
  c1 = c1  c2 = c2  c3 = c3  w1 = w1  w2 = w2  t1 = t1  t2 = t2  o1 = o1  k1 = k1  k2 = k2  sku = sku
  None = None
  Cases = {c1, c2}
  Labels = {t1, t2}
  OrderIds = {o1}
  Books <- BookTwo
  Keys = {k1}
  Requests <- RefundOnly
  HeaderValues <- NoHeader
  Workers = {w1}
  MaxNow = 0
  LabelExpiry = 1
  MaxTracking = 0
  MaxEntries = 3
  MaxReplacements = 2
  Offered = {"register", "create", "cancel", "carrier", "inspect", "flush", "crash"}
  MaxCrashes = 1
  Payable = {2}
SPECIFICATION RetrySpec
PROPERTIES RequestsEnd PaymentsComplete

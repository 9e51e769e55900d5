\* Every kind of case of up to two lines, through its window and its grace.
CONSTANTS
  Kinds <- ThreeKinds
  Values <- ThreeValues
  Catalog <- OneEntry
  Policies <- SomePolicies
  Customers <- SomeCustomers
  Reasons = {"defective", "other"}
  Conditions = {"new", "worn"}
  MaxAge = 4
  MaxLines = 2
  Cent = 2
  Unity = 1000
SPECIFICATION PolicySpec
INVARIANTS FactsAgree RefundWithinValue BoardKeepsToFacts
PROPERTIES DelayNeverHelps StrictestLineGoverns SnapshotDecides

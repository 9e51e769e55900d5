\* Up to two rows, a board of two and its lead, two attempts for each call, thresholds of the sweep and one that is not.
CONSTANTS
  fraud = fraud  policy = policy  lead = lead
  Nothing = Nothing
  Members = {fraud, policy, lead}
  Lead = lead
  MaxRetries = 2
  Thresholds = {50, 65, 100}
  Allowed = 0
  MaxSample = 2
CHECK_DEADLOCK FALSE
SPECIFICATION EvalSpec
INVARIANTS EvalTypeOK GateHolds UsageAddsUp
PROPERTIES OutagesNeverApprove EvalEnds

--------------------------- MODULE PolicyProperties ---------------------------
(***************************************************************************)
(* What the decision engine promises, over every case, policy and age of   *)
(* an instance.  A state is one question put to the engine; a step changes *)
(* one of its inputs, so that an action property compares two answers.     *)
(***************************************************************************)
EXTENDS SimulatedBoard, Sequences

CONSTANTS
  Kinds,       \* brand and category pairs
  Values,      \* what a line may be worth; negative when the discount exceeds the price
  Catalog,     \* the catalog
  Policies,    \* policies the merchant may run under
  Customers,   \* <<lifetime_orders, lifetime_returns>> a customer may have
  Reasons,     \* reasons given, of ReturnReason
  Conditions,  \* conditions stated, of ItemCondition
  MaxAge,      \* bound: days since the order
  MaxLines     \* bound: lines of a request

\* Days and sums of money are numbers; the code asks nothing more of the terms.
ASSUME TermsAssumption ==
  /\ \A k \in DOMAIN Catalog : Catalog[k].window \in Int
  /\ \A p \in Policies : p.window \in Int /\ p.grace \in Int /\ p.valueThreshold \in Int

ASSUME ValuesAssumption == Values \subseteq Int

VARIABLES case, policy, age

policyVars == <<case, policy, age>>

Line == [kind : Kinds, value : Values]

PolicyInit ==
  /\ \E l \in Line, r \in Reasons, k \in Conditions, h \in BOOLEAN, u \in Customers :
       case = [lines |-> <<l>>, reason |-> r, condition |-> k, hasReceipt |-> h,
               orders |-> u[1], returns |-> u[2]]
  /\ policy \in Policies
  /\ age = 0

\* The same case a day later.
DayLater == age < MaxAge /\ age' = age + 1 /\ UNCHANGED <<case, policy>>

\* The same case with one more line.
OneMoreLine ==
  /\ Len(case.lines) < MaxLines
  /\ \E l \in Line : case' = [case EXCEPT !.lines = Append(@, l)]
  /\ UNCHANGED <<policy, age>>

\* The same case under another policy.
OtherPolicy == policy' \in Policies \ {policy} /\ UNCHANGED <<case, age>>

PolicyNext == DayLater \/ OneMoreLine \/ OtherPolicy

PolicySpec == PolicyInit /\ [][PolicyNext]_policyVars

-----------------------------------------------------------------------------
Verdict == Evaluate(case, policy, Catalog, age)

Severity(v) == CASE v = "approved" -> 0 [] v = "manual_review" -> 1 [] v = "rejected" -> 2

\* The engine and the facts handed to the compliance agent agree: nothing with
\* a disqualifier is approved, nothing without one is rejected.
FactsAgree ==
  LET facts == HardDisqualifiers(case, policy, Catalog, age) IN
    /\ Verdict = "approved" => facts = {}
    /\ Verdict = "rejected" => facts # {}

\* A case only fares worse by being filed later.
DelayNeverHelps ==
  [][DayLater => Severity(Verdict') >= Severity(Verdict)]_policyVars

\* A case only fares worse by a line more, unless that line takes off the
\* total: the strictest of the lines' terms govern, in whatever order they come.
StrictestLineGoverns ==
  [][OneMoreLine /\ TotalValue(case') >= TotalValue(case)
       => Severity(Verdict') >= Severity(Verdict)]_policyVars

\* The snapshot kept with a case is what it was decided under (models.py:163), but
\* for the orders a customer must have before the return rate counts: policies
\* that share both, whatever else they say, come to the same decision.
SnapshotDecides ==
  [][/\ OtherPolicy
     /\ Snapshot(case, policy', Catalog) = Snapshot(case, policy, Catalog)
     /\ policy'.minOrders = policy.minOrders
     => Verdict' = Verdict]_policyVars

\* The fee leaves something between nothing and the value of a case for the
\* refund, whatever lines and rates are mixed; a value that is no whole number of
\* cents is rounded twice, which gives up to half a cent more than it, and, when
\* the fee is all of it, up to a cent less than nothing.
RefundWithinValue ==
  LET total == TotalValue(case) IN
    total >= 0 =>
      \A m \in Amounts(total, Snapshot(case, policy, Catalog)) :
        IF total % Cent = 0 THEN m \in 0..total
        ELSE -Cent <= m /\ 2 * m <= 2 * total + Cent

\* Of the cases the engine escalated when they were filed, the simulated board
\* approves by itself those without a disqualifier on the day of the review,
\* and no others: it waives the risk thresholds, and never what is written.
BoardKeepsToFacts ==
  \A filed \in 0..age :
    Evaluate(case, policy, Catalog, filed) = "manual_review" =>
      (SimulationApplies(case, policy, Catalog, filed, age)
         <=> HardDisqualifiers(case, policy, Catalog, age) = {})
=============================================================================

----------------------------- MODULE PolicyEngine -----------------------------
(***************************************************************************)
(* app/policy.py: the terms of each line of a case, the decision the       *)
(* ordered rules come to, the facts the compliance agent is given, and the *)
(* snapshot kept with the case.  Everything here is a function of          *)
(*   c    the case: [lines, reason, condition, hasReceipt, orders, returns], *)
(*        a line being [kind, value] and a kind [brand, category];         *)
(*   p    the merchant's ReturnPolicy;                                     *)
(*   cat  the PolicyCatalog, a function from some kinds to terms;          *)
(*   age  days since the order was placed.                                 *)
(* Rates of return are compared as fractions <<num, den>>; money is        *)
(* counted in parts of a cent, and the rate of a fee in parts of one.      *)
(***************************************************************************)
EXTENDS Integers, FiniteSetsExt

CONSTANTS
  Cent,        \* parts of a cent: how finely prices may be divided
  Unity        \* parts of one: how finely rates of fees may be

ASSUME UnitsAssumption == Cent \in Nat \ {0} /\ Unity \in Nat \ {0}

ReturnReason ==
  {"defective", "wrong_item", "not_as_described", "no_longer_needed",
   "better_price_found", "size_fit", "other"}

ItemCondition == {"new", "tried_on", "worn", "damaged"}

MerchantFaultReasons == {"defective", "wrong_item", "not_as_described"}

\* PolicyCatalog.resolve: the catalog's own terms, or the merchant's defaults.
Resolve(kind, p, cat) ==
  IF kind \in DOMAIN cat THEN cat[kind]
  ELSE [window          |-> p.window,
        finalSale       |-> kind.category \in p.excluded,
        requiresReceipt |-> p.requiresReceipt,
        fee             |-> p.fee]

\* The terms of the lines of a case.
Terms(c, p, cat) == {Resolve(c.lines[i].kind, p, cat) : i \in DOMAIN c.lines}

\* Mutant of Window: the most generous line governs.
LongestWindow(c, p, cat) == Max({t.window : t \in Terms(c, p, cat)})

\* "The strictest terms across the case's lines govern the whole case."
Window(c, p, cat) == Min({t.window : t \in Terms(c, p, cat)})
RequiresReceipt(c, p, cat) == \E t \in Terms(c, p, cat) : t.requiresReceipt

\* Mutant of RestockFee: every line's fee is taken of the whole.
AddedFees(c, p, cat) == SumSet({t.fee : t \in Terms(c, p, cat)})

RestockFee(c, p, cat) == Max({t.fee : t \in Terms(c, p, cat)})

-----------------------------------------------------------------------------
(* What the rules ask of a case.                                           *)

FinalSale(c, p, cat) == \E t \in Terms(c, p, cat) : t.finalSale
Unsellable(c) == c.condition \in {"worn", "damaged"}
MerchantFault(c) == c.reason \in MerchantFaultReasons
PastGrace(c, p, cat, age) == age > Window(c, p, cat) + p.grace
PastWindow(c, p, cat, age) == age > Window(c, p, cat)
ReceiptMissing(c, p, cat) == RequiresReceipt(c, p, cat) /\ ~c.hasReceipt

TotalValue(c) == MapThenSumSet(LAMBDA i : c.lines[i].value, DOMAIN c.lines)

\* return_rate > the threshold, for a customer with enough orders; a customer
\* with none has a rate of zero.
ReturnsTooOften(c, p) ==
  /\ c.orders >= p.minOrders
  /\ c.orders # 0
  /\ c.returns * p.rate[2] > p.rate[1] * c.orders

\* Mutant of Evaluate: the receipt rule is missing.
EvaluateWithoutReceipt(c, p, cat, age) ==
  IF FinalSale(c, p, cat) THEN "rejected"
  ELSE IF Unsellable(c) \/ PastGrace(c, p, cat, age)
  THEN IF MerchantFault(c) THEN "manual_review" ELSE "rejected"
  ELSE IF \/ PastWindow(c, p, cat, age)
          \/ TotalValue(c) > p.valueThreshold
          \/ ReturnsTooOften(c, p)
  THEN "manual_review"
  ELSE "approved"

\* Mutant of Evaluate: merchant-fault reasons bypass the window altogether.
EvaluateFaultFirst(c, p, cat, age) ==
  IF FinalSale(c, p, cat) THEN "rejected"
  ELSE IF PastGrace(c, p, cat, age) /\ MerchantFault(c) THEN "approved"
  ELSE IF Unsellable(c) \/ PastGrace(c, p, cat, age)
  THEN IF MerchantFault(c) THEN "manual_review" ELSE "rejected"
  ELSE IF \/ PastWindow(c, p, cat, age)
          \/ ReceiptMissing(c, p, cat)
          \/ TotalValue(c) > p.valueThreshold
          \/ ReturnsTooOften(c, p)
  THEN "manual_review"
  ELSE "approved"

\* evaluate: the first rule that applies decides.
Evaluate(c, p, cat, age) ==
  IF FinalSale(c, p, cat) THEN "rejected"
  ELSE IF Unsellable(c) \/ PastGrace(c, p, cat, age)
  THEN IF MerchantFault(c) THEN "manual_review" ELSE "rejected"
  ELSE IF \/ PastWindow(c, p, cat, age)
          \/ ReceiptMissing(c, p, cat)
          \/ TotalValue(c) > p.valueThreshold
          \/ ReturnsTooOften(c, p)
  THEN "manual_review"
  ELSE "approved"

\* Mutant of Snapshot: the grace period is left out.
SnapshotWithoutGrace(c, p, cat) ==
  [window          |-> Window(c, p, cat),
   requiresReceipt |-> RequiresReceipt(c, p, cat),
   fee             |-> RestockFee(c, p, cat),
   valueThreshold  |-> p.valueThreshold,
   rate            |-> p.rate,
   terms           |-> {[kind      |-> c.lines[i].kind,
                         window    |-> Resolve(c.lines[i].kind, p, cat).window,
                         finalSale |-> Resolve(c.lines[i].kind, p, cat).finalSale] :
                        i \in DOMAIN c.lines}]

\* policy_facts: the disqualifiers the compliance agent is told of.
HardDisqualifiers(c, p, cat, age) ==
  {d \in {"final_sale", "condition", "beyond_grace", "within_grace", "receipt"} :
     \/ d = "final_sale" /\ FinalSale(c, p, cat)
     \/ d = "condition" /\ Unsellable(c)
     \/ d = "beyond_grace" /\ PastGrace(c, p, cat, age)
     \/ d = "within_grace" /\ PastWindow(c, p, cat, age) /\ ~PastGrace(c, p, cat, age)
     \/ d = "receipt" /\ ReceiptMissing(c, p, cat)}

\* The policy_snapshot kept with the case.
Snapshot(c, p, cat) ==
  [window          |-> Window(c, p, cat),
   grace           |-> p.grace,
   requiresReceipt |-> RequiresReceipt(c, p, cat),
   fee             |-> RestockFee(c, p, cat),
   valueThreshold  |-> p.valueThreshold,
   rate            |-> p.rate,
   terms           |-> {[kind      |-> c.lines[i].kind,
                         window    |-> Resolve(c.lines[i].kind, p, cat).window,
                         finalSale |-> Resolve(c.lines[i].kind, p, cat).finalSale] :
                        i \in DOMAIN c.lines}]

-----------------------------------------------------------------------------
\* round(x / d, 2): the nearest number of whole cents, a half to either side as
\* the floats have it.
Rounded(x, d) ==
  LET down == Cent * (x \div (d * Cent)) IN
    {m \in {down, down + Cent} :
       2 * (d * m - x) <= d * Cent /\ 2 * (x - d * m) <= d * Cent}

\* _settle's fee on a total value.
Fees(total, rate) == Rounded(total * rate, Unity)

\* What _settle pays, with the rate of the snapshot: rounded again.
Amounts(total, snapshot) == UNION {Rounded(total - f, 1) : f \in Fees(total, snapshot.fee)}
=============================================================================

----------------------------- MODULE PolicyProofs -----------------------------
(***************************************************************************)
(* Proofs about the decision engine, for every case, policy and catalog.   *)
(***************************************************************************)
EXTENDS PolicyProperties, BasicProofs

\* What the engine approves has none of the disqualifiers policy_facts looks
\* for, and what it rejects has one.
LEMMA VerdictMatchesFacts ==
  ASSUME NEW c, NEW p, NEW cat, NEW a
  PROVE  /\ Evaluate(c, p, cat, a) = "approved" => HardDisqualifiers(c, p, cat, a) = {}
         /\ Evaluate(c, p, cat, a) = "rejected" => HardDisqualifiers(c, p, cat, a) # {}
<1>1. ASSUME Evaluate(c, p, cat, a) = "approved"
      PROVE  HardDisqualifiers(c, p, cat, a) = {}
  <2>1. /\ ~FinalSale(c, p, cat) /\ ~Unsellable(c) /\ ~PastGrace(c, p, cat, a)
        /\ ~PastWindow(c, p, cat, a) /\ ~ReceiptMissing(c, p, cat)
    BY <1>1 DEF Evaluate
  <2> QED
    BY <2>1 DEF HardDisqualifiers
<1>2. ASSUME Evaluate(c, p, cat, a) = "rejected"
      PROVE  HardDisqualifiers(c, p, cat, a) # {}
  <2>1. FinalSale(c, p, cat) \/ Unsellable(c) \/ PastGrace(c, p, cat, a)
    BY <1>2 DEF Evaluate
  <2>2. \/ "final_sale" \in HardDisqualifiers(c, p, cat, a)
        \/ "condition" \in HardDisqualifiers(c, p, cat, a)
        \/ "beyond_grace" \in HardDisqualifiers(c, p, cat, a)
    BY <2>1 DEF HardDisqualifiers
  <2> QED
    BY <2>2
<1> QED
  BY <1>1, <1>2

\* The decision and the facts the compliance agent is given never contradict
\* each other.
THEOREM EngineMatchesFacts == PolicySpec => []FactsAgree
<1>1. FactsAgree
  BY VerdictMatchesFacts DEF FactsAgree, Verdict
<1> QED
  BY <1>1, PTL

\* Three assessments, of which the last approves, counted.
LEMMA ThreeCounted ==
  ASSUME NEW f \in {"approve", "escalate"}, NEW votes, votes = <<"approve", f, "approve">>
  PROVE  /\ Cardinality({i \in DOMAIN votes : votes[i] = "approve"})
              = (IF f = "approve" THEN 3 ELSE 2)
         /\ Cardinality({i \in DOMAIN votes : votes[i] = "reject"}) = 0
         /\ Cardinality({i \in DOMAIN votes : votes[i] = "escalate"})
              = (IF f = "approve" THEN 0 ELSE 1)
<1>1. /\ Cardinality({}) = 0
      /\ Cardinality({2}) = 1
      /\ IsFiniteSet({1}) /\ Cardinality({1}) = 1
  BY FS_EmptySet, FS_Singleton
<1>2. IsFiniteSet({1, 3}) /\ Cardinality({1, 3}) = 2
  <2>1. {1} \cup {3} = {1, 3} /\ 3 \notin {1}
    OBVIOUS
  <2>2. /\ IsFiniteSet({1} \cup {3})
        /\ Cardinality({1} \cup {3}) = IF 3 \in {1} THEN Cardinality({1}) ELSE Cardinality({1}) + 1
    BY <1>1, FS_AddElement
  <2> QED
    BY <2>1, <2>2, <1>1
<1>3. Cardinality({1, 2, 3}) = 3
  <2>1. {1, 3} \cup {2} = {1, 2, 3} /\ 2 \notin {1, 3}
    OBVIOUS
  <2>2. Cardinality({1, 3} \cup {2})
          = IF 2 \in {1, 3} THEN Cardinality({1, 3}) ELSE Cardinality({1, 3}) + 1
    BY <1>2, FS_AddElement
  <2> QED
    BY <2>1, <2>2, <1>2
<1>4. DOMAIN votes = {1, 2, 3} /\ votes[1] = "approve" /\ votes[2] = f /\ votes[3] = "approve"
  OBVIOUS
<1>5. {i \in DOMAIN votes : votes[i] = "reject"} = {}
  BY <1>4
<1>6. CASE f = "approve"
  <2>1. /\ {i \in DOMAIN votes : votes[i] = "approve"} = {1, 2, 3}
        /\ {i \in DOMAIN votes : votes[i] = "escalate"} = {}
    BY <1>4, <1>6
  <2> QED
    BY <2>1, <1>1, <1>3, <1>5, <1>6
<1>7. CASE f = "escalate"
  <2>1. {i \in DOMAIN votes : votes[i] = "approve"} = {1, 3}
    BY <1>4, <1>7
  <2>2. {i \in DOMAIN votes : votes[i] = "escalate"} = {2}
    BY <1>4, <1>7
  <2> QED
    BY <2>1, <2>2, <1>1, <1>2, <1>5, <1>7
<1> QED
  BY <1>6, <1>7

\* What the simulated board does is read off the facts of the day.
LEMMA SimulationFollowsFacts ==
  ASSUME NEW c, NEW p, NEW cat, NEW filed, NEW a
  PROVE  SimulationApplies(c, p, cat, filed, a) <=> HardDisqualifiers(c, p, cat, a) = {}
<1> DEFINE panel == SimulatedPanel(c, p, cat, filed, a)
           lead  == LeadVerdict(c, p, cat, filed, a)
           votes == <<PolicyVote(c, p, cat, filed, a), FraudVote(c, p, cat, filed), CustomerVote>>
<1>1. CASE HardDisqualifiers(c, p, cat, a) # {}
  <2>1. lead = "reject"
    BY <1>1 DEF LeadVerdict, PolicyVote
  <2> QED
    BY <1>1, <2>1 DEF SimulationApplies, MayApply
<1>2. CASE HardDisqualifiers(c, p, cat, a) = {}
  <2>1. PolicyVote(c, p, cat, filed, a) = "approve"
    BY <1>2 DEF PolicyVote
  <2>2. FraudVote(c, p, cat, filed) \in {"approve", "escalate"}
    BY DEF FraudVote
  <2>3. votes = <<"approve", FraudVote(c, p, cat, filed), "approve">>
    BY <2>1 DEF CustomerVote
  <2>4. \A r \in Recommendation :
          panel[r] = Cardinality({i \in DOMAIN votes : votes[i] = r})
    BY DEF SimulatedPanel
  <2>5. "approve" \in Recommendation /\ "reject" \in Recommendation /\ "escalate" \in Recommendation
    BY DEF Recommendation
  <2> HIDE DEF votes
  <2> DEFINE f == FraudVote(c, p, cat, filed)
  <2>10. /\ Cardinality({i \in DOMAIN votes : votes[i] = "approve"})
              = (IF f = "approve" THEN 3 ELSE 2)
        /\ Cardinality({i \in DOMAIN votes : votes[i] = "reject"}) = 0
        /\ Cardinality({i \in DOMAIN votes : votes[i] = "escalate"})
              = (IF f = "approve" THEN 0 ELSE 1)
    BY <2>2, <2>3, ThreeCounted
  <2>11. /\ panel["approve"] = Cardinality({i \in DOMAIN votes : votes[i] = "approve"})
        /\ panel["reject"] = Cardinality({i \in DOMAIN votes : votes[i] = "reject"})
        /\ panel["escalate"] = Cardinality({i \in DOMAIN votes : votes[i] = "escalate"})
    BY <2>4, <2>5
  <2> HIDE DEF panel, f
  <2>6. /\ panel["reject"] = 0
        /\ \/ panel["approve"] = 3 /\ panel["escalate"] = 0
           \/ panel["approve"] = 2 /\ panel["escalate"] = 1
    BY <2>10, <2>11
  <2>7. lead = "approve"
    BY <2>1, <2>6 DEF LeadVerdict, panel
  <2> HIDE DEF panel, lead
  <2>8. Clears(lead, panel, 75)
    BY <2>6, <2>7 DEF Clears, Count, HalfCredits
  <2>9. MayApply(lead, panel, ConsoleThreshold)
    BY <2>6, <2>7, <2>8 DEF MayApply, Split, ConsoleThreshold
  <2> QED
    BY <1>2, <2>9 DEF SimulationApplies, panel, lead
<1> QED
  BY <1>1, <1>2

\* The console's board approves by itself exactly the escalated cases without a
\* disqualifier on the day of the review (streamlit_app.py, SimulatedLLM).
THEOREM BoardFollowsFacts == PolicySpec => []BoardKeepsToFacts
<1>1. BoardKeepsToFacts
  BY SimulationFollowsFacts DEF BoardKeepsToFacts
<1> QED
  BY <1>1, PTL

\* Policies with one snapshot and one minimum of orders come to one decision.
LEMMA SameSnapshotSameVerdict ==
  ASSUME NEW c, NEW p, NEW q, NEW cat, NEW a,
         Snapshot(c, p, cat) = Snapshot(c, q, cat), p.minOrders = q.minOrders
  PROVE  Evaluate(c, p, cat, a) = Evaluate(c, q, cat, a)
<1>1. /\ Window(c, p, cat) = Window(c, q, cat)
      /\ p.grace = q.grace
      /\ RequiresReceipt(c, p, cat) = RequiresReceipt(c, q, cat)
      /\ p.valueThreshold = q.valueThreshold
      /\ p.rate = q.rate
  BY DEF Snapshot
<1> DEFINE Told(pp) == {[kind      |-> c.lines[i].kind,
                         window    |-> Resolve(c.lines[i].kind, pp, cat).window,
                         finalSale |-> Resolve(c.lines[i].kind, pp, cat).finalSale] :
                        i \in DOMAIN c.lines}
<1>2. Told(p) = Told(q)
  BY DEF Snapshot
<1>3. \A pp : FinalSale(c, pp, cat) <=> \E t \in Told(pp) : t.finalSale
  <2> TAKE pp
  <2>1. FinalSale(c, pp, cat)
          <=> \E i \in DOMAIN c.lines : Resolve(c.lines[i].kind, pp, cat).finalSale
    BY DEF FinalSale, Terms
  <2> DEFINE Tell(i) == [kind      |-> c.lines[i].kind,
                         window    |-> Resolve(c.lines[i].kind, pp, cat).window,
                         finalSale |-> Resolve(c.lines[i].kind, pp, cat).finalSale]
  <2>2. \A i : Tell(i).finalSale = Resolve(c.lines[i].kind, pp, cat).finalSale
    OBVIOUS
  <2>3. Told(pp) = {Tell(i) : i \in DOMAIN c.lines}
    OBVIOUS
  <2> HIDE DEF Told, Tell
  <2>4. (\E t \in Told(pp) : t.finalSale) <=> \E i \in DOMAIN c.lines : Tell(i).finalSale
    BY <2>3
  <2> QED
    BY <2>1, <2>2, <2>4
<1> HIDE DEF Told
<1>4. FinalSale(c, p, cat) <=> FinalSale(c, q, cat)
  BY <1>2, <1>3
<1>5. /\ PastGrace(c, p, cat, a) <=> PastGrace(c, q, cat, a)
      /\ PastWindow(c, p, cat, a) <=> PastWindow(c, q, cat, a)
      /\ ReceiptMissing(c, p, cat) <=> ReceiptMissing(c, q, cat)
      /\ ReturnsTooOften(c, p) <=> ReturnsTooOften(c, q)
  BY <1>1 DEF PastGrace, PastWindow, ReceiptMissing, ReturnsTooOften
<1> QED
  BY <1>1, <1>4, <1>5 DEF Evaluate

\* A case decided under its snapshot is decided the same under every policy that
\* has that snapshot and the same minimum of orders (models.py, policy_snapshot).
THEOREM SnapshotSuffices == PolicySpec => SnapshotDecides
<1>1. [/\ OtherPolicy
       /\ Snapshot(case, policy', Catalog) = Snapshot(case, policy, Catalog)
       /\ policy'.minOrders = policy.minOrders
       => Verdict' = Verdict]_policyVars
  <2> SUFFICES ASSUME OtherPolicy,
                      Snapshot(case, policy', Catalog) = Snapshot(case, policy, Catalog),
                      policy'.minOrders = policy.minOrders
               PROVE  Verdict' = Verdict
    OBVIOUS
  <2>1. case' = case /\ age' = age
    BY DEF OtherPolicy
  <2>2. Evaluate(case, policy', Catalog, age) = Evaluate(case, policy, Catalog, age)
    BY SameSnapshotSameVerdict
  <2> QED
    BY <2>1, <2>2 DEF Verdict
<1> QED
  BY <1>1, PTL DEF SnapshotDecides

-----------------------------------------------------------------------------
(* The numbers the rules compare.                                          *)

\* A case has a line at least, and each is of Line.
LinesOK(c) == c.lines \in Seq(Line) /\ Len(c.lines) >= 1

PolicyInv == LinesOK(case) /\ policy \in Policies /\ age \in Nat

\* Every state the steps reach is a case of at least one line, a policy of the
\* merchant's and an age.
LEMMA PolicyStates == PolicySpec => []PolicyInv
<1>1. PolicyInit => PolicyInv
  <2> SUFFICES ASSUME PolicyInit PROVE PolicyInv
    OBVIOUS
  <2>1. PICK l \in Line : case.lines = <<l>>
    BY DEF PolicyInit
  <2> QED
    BY <2>1 DEF PolicyInit, PolicyInv, LinesOK
<1>2. PolicyInv /\ [PolicyNext]_policyVars => PolicyInv'
  <2> SUFFICES ASSUME PolicyInv, [PolicyNext]_policyVars PROVE PolicyInv'
    OBVIOUS
  <2>1. CASE DayLater
    BY <2>1 DEF DayLater, PolicyInv, LinesOK
  <2>2. CASE OneMoreLine
    <3>1. PICK l \in Line : case' = [case EXCEPT !.lines = Append(@, l)]
      BY <2>2 DEF OneMoreLine
    <3>2. case'.lines = Append(case.lines, l) \/ case'.lines = case.lines
      BY <3>1
    <3>3. LinesOK(case')
      BY <3>2 DEF PolicyInv, LinesOK
    <3> QED
      BY <2>2, <3>3 DEF OneMoreLine, PolicyInv
  <2>3. CASE OtherPolicy
    BY <2>3 DEF OtherPolicy, PolicyInv, LinesOK
  <2>4. CASE UNCHANGED policyVars
    BY <2>4 DEF policyVars, PolicyInv, LinesOK
  <2> QED
    BY <2>1, <2>2, <2>3, <2>4 DEF PolicyNext
<1> QED
  BY <1>1, <1>2, PTL DEF PolicySpec

\* The window that governs is one of the lines' and no line's is shorter.
LEMMA WindowIsLeast ==
  ASSUME NEW c, LinesOK(c), NEW p \in Policies
  PROVE  /\ Window(c, p, Catalog) \in Int
         /\ \E i \in DOMAIN c.lines :
              Window(c, p, Catalog) = Resolve(c.lines[i].kind, p, Catalog).window
         /\ \A i \in DOMAIN c.lines :
              Window(c, p, Catalog) <= Resolve(c.lines[i].kind, p, Catalog).window
<1> DEFINE D == DOMAIN c.lines
           w == [i \in D |-> Resolve(c.lines[i].kind, p, Catalog).window]
           W == {w[i] : i \in D}
<1>1. D = 1..Len(c.lines) /\ Len(c.lines) \in Nat /\ 1 \in D
  BY DEF LinesOK
<1>2. IsFiniteSet(D)
  BY <1>1, FS_Interval
<1>3. \A i \in D : w[i] \in Int
  BY TermsAssumption DEF Resolve
<1>4. W \in SUBSET Int /\ W # {}
  BY <1>1, <1>3
<1>5. IsFiniteSet(W)
  <2>1. w = [i \in D |-> w[i]]
    OBVIOUS
  <2> HIDE DEF w
  <2> QED
    BY <1>2, <2>1, FiniteRange
<1>6. {t.window : t \in Terms(c, p, Catalog)} = W
  BY DEF Terms
<1>7. Window(c, p, Catalog) = Min(W)
  BY <1>6 DEF Window
<1>8. Min(W) \in W /\ \A y \in W : Min(W) <= y
  <2> HIDE DEF W
  <2> QED
    BY <1>4, <1>5, FiniteLeast
<1> QED
  BY <1>4, <1>7, <1>8

\* The total is the sum of the lines' values.
LEMMA TotalIsSum ==
  ASSUME NEW c, IsFiniteSet(DOMAIN c.lines), \A i \in DOMAIN c.lines : c.lines[i].value \in Int
  PROVE  \E it : /\ IsSum(it, DOMAIN c.lines, [i \in DOMAIN c.lines |-> c.lines[i].value])
                 /\ TotalValue(c) = it[DOMAIN c.lines]
<1> DEFINE D == DOMAIN c.lines
           v == [i \in D |-> c.lines[i].value]
           Folds(it) == it = [s \in SUBSET D |->
                                IF s = {} THEN 0
                                ELSE c.lines[CHOOSE x \in s : TRUE].value
                                       + it[s \ {CHOOSE x \in s : TRUE}]]
           total == CHOOSE it : Folds(it)
<1>1. \A it : Folds(it) <=> IsSum(it, D, v)
  <2> TAKE it
  <2>1. \A s \in SUBSET D : s # {} => v[Chosen(s)] = c.lines[Chosen(s)].value
    BY DEF Chosen
  <2>2. [s \in SUBSET D |-> IF s = {} THEN 0
                            ELSE c.lines[CHOOSE x \in s : TRUE].value
                                   + it[s \ {CHOOSE x \in s : TRUE}]]
          = [s \in SUBSET D |-> IF s = {} THEN 0 ELSE v[Chosen(s)] + it[s \ {Chosen(s)}]]
    <3> HIDE DEF v
    <3> QED
      BY <2>1 DEF Chosen
  <2> QED
    BY <2>2 DEF IsSum
<1>2. \E it : Folds(it)
  <2>1. v \in [D -> Int]
    OBVIOUS
  <2> HIDE DEF v, Folds
  <2>2. \E it : IsSum(it, D, v)
    BY <2>1, SumExists
  <2> QED
    BY <1>1, <2>2
<1>3. Folds(total)
  <2> HIDE DEF Folds
  <2> QED
    BY <1>2
<1>4. TotalValue(c) = total[D]
  BY DEF TotalValue, MapThenSumSet, MapThenFoldSet
<1> QED
  <2> HIDE DEF Folds, total
  <2> QED
    BY <1>1, <1>3, <1>4

\* It is a number.
LEMMA TotalIsInt ==
  ASSUME NEW c, LinesOK(c)
  PROVE  TotalValue(c) \in Int
<1> DEFINE D == DOMAIN c.lines
           v == [i \in D |-> c.lines[i].value]
<1>1. D = 1..Len(c.lines) /\ Len(c.lines) \in Nat
  BY DEF LinesOK
<1>2. IsFiniteSet(D)
  BY <1>1, FS_Interval
<1>3. \A i \in D : c.lines[i].value \in Int
  <2>1. \A i \in D : c.lines[i] \in Line
    BY <1>1 DEF LinesOK
  <2>2. \A l \in Line : l.value \in Int
    BY ValuesAssumption DEF Line
  <2> QED
    BY <2>1, <2>2
<1>4. PICK it : IsSum(it, D, v) /\ TotalValue(c) = it[D]
  BY <1>2, <1>3, TotalIsSum
<1>5. \A i \in D : v[i] \in Int
  BY <1>3
<1> HIDE DEF v
<1>6. it[D] \in Int
  <2>1. 0 \in Int /\ \A a, b \in Int : a + b \in Int
    OBVIOUS
  <2> QED
    BY <1>2, <1>4, <1>5, <2>1, SumIsIn
<1> QED
  BY <1>4, <1>6

-----------------------------------------------------------------------------
(* Two answers of the engine, compared.                                    *)

\* A case to which every rule that applied still applies fares no better.
LEMMA MoreRulesNoBetter ==
  ASSUME NEW c, NEW d, NEW p, NEW cat, NEW a, NEW b,
         FinalSale(c, p, cat) => FinalSale(d, p, cat),
         Unsellable(c) <=> Unsellable(d),
         MerchantFault(c) <=> MerchantFault(d),
         PastGrace(c, p, cat, a) => PastGrace(d, p, cat, b),
         PastWindow(c, p, cat, a) => PastWindow(d, p, cat, b),
         ReceiptMissing(c, p, cat) => ReceiptMissing(d, p, cat),
         TotalValue(c) > p.valueThreshold => TotalValue(d) > p.valueThreshold,
         ReturnsTooOften(c, p) <=> ReturnsTooOften(d, p)
  PROVE  Severity(Evaluate(d, p, cat, b)) >= Severity(Evaluate(c, p, cat, a))
<1>1. CASE Evaluate(d, p, cat, b) = "rejected"
  BY <1>1 DEF Severity, Evaluate
<1>2. CASE Evaluate(d, p, cat, b) = "manual_review"
  <2>1. Evaluate(c, p, cat, a) # "rejected"
    BY <1>2 DEF Evaluate
  <2> QED
    BY <1>2, <2>1 DEF Severity, Evaluate
<1>3. CASE Evaluate(d, p, cat, b) = "approved"
  <2>1. Evaluate(c, p, cat, a) = "approved"
    BY <1>3 DEF Evaluate
  <2> QED
    BY <1>3, <2>1 DEF Severity
<1> QED
  BY <1>1, <1>2, <1>3 DEF Evaluate

\* Whatever the windows and graces, a case only fares worse by being filed later
\* (rule 3 of policy.py, lines 210 to 230).
THEOREM LaterIsNoBetter == PolicySpec => DelayNeverHelps
<1>1. PolicyInv => [DayLater => Severity(Verdict') >= Severity(Verdict)]_policyVars
  <2> SUFFICES ASSUME PolicyInv, DayLater
               PROVE  Severity(Verdict') >= Severity(Verdict)
    OBVIOUS
  <2>1. case' = case /\ policy' = policy /\ age' = age + 1 /\ age \in Nat
    BY DEF DayLater, PolicyInv
  <2>2. Window(case, policy, Catalog) \in Int /\ policy.grace \in Int
    BY WindowIsLeast, TermsAssumption DEF PolicyInv
  <2>3. /\ PastGrace(case, policy, Catalog, age) => PastGrace(case, policy, Catalog, age + 1)
        /\ PastWindow(case, policy, Catalog, age) => PastWindow(case, policy, Catalog, age + 1)
    BY <2>1, <2>2 DEF PastGrace, PastWindow
  <2>4. Severity(Evaluate(case, policy, Catalog, age + 1))
          >= Severity(Evaluate(case, policy, Catalog, age))
    BY <2>3, MoreRulesNoBetter
  <2> QED
    BY <2>1, <2>4 DEF Verdict
<1> QED
  BY <1>1, PolicyStates, PTL DEF DelayNeverHelps

\* A line more, unless it lowers the total, leaves a case no better off: whatever
\* the catalog, the strictest terms govern ("the strictest terms across the
\* case's lines govern the whole case", policy.py).
THEOREM MoreLinesNoBetter == PolicySpec => StrictestLineGoverns
<1>1. PolicyInv /\ PolicyInv'
        => [OneMoreLine /\ TotalValue(case') >= TotalValue(case)
              => Severity(Verdict') >= Severity(Verdict)]_policyVars
  <2> SUFFICES ASSUME PolicyInv, PolicyInv', OneMoreLine,
                      TotalValue(case') >= TotalValue(case)
               PROVE  Severity(Verdict') >= Severity(Verdict)
    OBVIOUS
  <2> DEFINE c == case
             d == case'
             p == policy
  <2>1. PICK l \in Line : d = [c EXCEPT !.lines = Append(@, l)]
    BY DEF OneMoreLine
  <2>2. p' = p /\ age' = age /\ p \in Policies /\ LinesOK(c) /\ LinesOK(d)
    BY DEF OneMoreLine, PolicyInv, LinesOK
  <2>3. \/ d.lines = c.lines
        \/ d.lines = Append(c.lines, l)
    BY <2>1
  <2>4. \A i \in DOMAIN c.lines : i \in DOMAIN d.lines /\ d.lines[i] = c.lines[i]
    BY <2>2, <2>3 DEF LinesOK
  <2>5. /\ d.condition = c.condition /\ d.reason = c.reason /\ d.hasReceipt = c.hasReceipt
        /\ d.orders = c.orders /\ d.returns = c.returns
    BY <2>1
  <2> HIDE DEF c, d, p
  <2>6. Terms(c, p, Catalog) \subseteq Terms(d, p, Catalog)
    BY <2>4 DEF Terms
  <2>7. /\ FinalSale(c, p, Catalog) => FinalSale(d, p, Catalog)
        /\ ReceiptMissing(c, p, Catalog) => ReceiptMissing(d, p, Catalog)
    BY <2>5, <2>6 DEF FinalSale, ReceiptMissing, RequiresReceipt
  <2>8. /\ Unsellable(c) <=> Unsellable(d)
        /\ MerchantFault(c) <=> MerchantFault(d)
        /\ ReturnsTooOften(c, p) <=> ReturnsTooOften(d, p)
    BY <2>5 DEF Unsellable, MerchantFault, ReturnsTooOften
  <2>9. /\ Window(c, p, Catalog) \in Int /\ Window(d, p, Catalog) \in Int
        /\ Window(d, p, Catalog) <= Window(c, p, Catalog)
    <3>1. PICK i \in DOMAIN c.lines :
            Window(c, p, Catalog) = Resolve(c.lines[i].kind, p, Catalog).window
      BY <2>2, WindowIsLeast
    <3>2. i \in DOMAIN d.lines /\ d.lines[i] = c.lines[i]
      BY <2>4
    <3>3. Window(d, p, Catalog) <= Resolve(d.lines[i].kind, p, Catalog).window
      BY <2>2, <3>2, WindowIsLeast
    <3> QED
      BY <2>2, <3>1, <3>2, <3>3, WindowIsLeast
  <2>10. age \in Int /\ p.grace \in Int /\ p.valueThreshold \in Int
    BY <2>2, TermsAssumption DEF PolicyInv
  <2>11. /\ PastGrace(c, p, Catalog, age) => PastGrace(d, p, Catalog, age)
         /\ PastWindow(c, p, Catalog, age) => PastWindow(d, p, Catalog, age)
    BY <2>9, <2>10 DEF PastGrace, PastWindow
  <2>12. TotalValue(c) > p.valueThreshold => TotalValue(d) > p.valueThreshold
    <3>1. TotalValue(c) \in Int /\ TotalValue(d) \in Int
      BY <2>2, TotalIsInt
    <3>2. TotalValue(d) >= TotalValue(c)
      BY DEF c, d
    <3> QED
      BY <2>10, <3>1, <3>2
  <2>13. Severity(Evaluate(d, p, Catalog, age)) >= Severity(Evaluate(c, p, Catalog, age))
    BY <2>7, <2>8, <2>11, <2>12, MoreRulesNoBetter
  <2> QED
    BY <2>2, <2>13 DEF Verdict, c, d, p
<1> QED
  BY <1>1, PolicyStates, PTL DEF StrictestLineGoverns

-----------------------------------------------------------------------------
(* The fee.                                                                *)

\* Rounding gives whole cents, no further off than half of one.
LEMMA RoundedFacts ==
  ASSUME NEW x \in Int, NEW d \in Nat \ {0}, NEW m \in Rounded(x, d)
  PROVE  \E n \in Int : m = Cent * n /\ 2 * (d * m - x) <= d * Cent /\ 2 * (x - d * m) <= d * Cent
<1> DEFINE q == x \div (d * Cent)
<1>1. Cent \in Nat \ {0} /\ d * Cent \in Nat \ {0}
  BY UnitsAssumption
<1>2. q \in Int
  BY <1>1
<1>3. m \in {Cent * q, Cent * q + Cent} /\ 2 * (d * m - x) <= d * Cent
                                      /\ 2 * (x - d * m) <= d * Cent
  BY DEF Rounded
<1> HIDE DEF q
<1>4. Cent * q + Cent = Cent * (q + 1) /\ q + 1 \in Int
  BY <1>1, <1>2
<1> QED
  BY <1>2, <1>3, <1>4

\* What is left of a number that is no multiple of a cent lies between two.
LEMMA NextCent ==
  ASSUME NEW n \in Int, NEW k \in Int, Cent * n < Cent * (k + 1)
  PROVE  n <= k /\ Cent * n <= Cent * k
<1>1. Cent \in Nat \ {0}
  BY UnitsAssumption
<1>2. CASE n <= k
  <2>1. Cent * (k - n) \in Nat
    BY <1>1, <1>2
  <2>2. Cent * (k - n) = Cent * k - Cent * n
    BY <1>1
  <2>3. Cent * k \in Int /\ Cent * n \in Int
    BY <1>1
  <2> QED
    BY <1>2, <2>1, <2>2, <2>3
<1>3. CASE n >= k + 1
  <2>1. Cent * (n - (k + 1)) \in Nat
    BY <1>1, <1>3
  <2>2. Cent * (n - (k + 1)) = Cent * n - Cent * (k + 1)
    BY <1>1
  <2>3. Cent * (k + 1) \in Int /\ Cent * n \in Int
    BY <1>1
  <2> QED
    BY <2>1, <2>2, <2>3
<1> QED
  BY <1>2, <1>3

\* A fee of at most the whole, rounded, is never less than nothing, and at most
\* half a cent more than the whole.
LEMMA FeeWithinTotal ==
  ASSUME NEW total \in Nat, NEW rate \in 0..Unity, NEW f \in Fees(total, rate)
  PROVE  /\ \E n \in Int : f = Cent * n
         /\ f \in Nat /\ 2 * f <= 2 * total + Cent
<1> DEFINE part == total * rate
<1>1. Unity \in Nat \ {0} /\ Cent \in Nat \ {0} /\ rate \in Nat /\ Unity - rate \in Nat
  BY UnitsAssumption
<1>2. part \in Nat /\ part <= Unity * total
  <2>1. total * (Unity - rate) \in Nat /\ total * rate \in Nat /\ Unity * total \in Nat
    BY <1>1
  <2>2. total * (Unity - rate) = Unity * total - total * rate
    BY <1>1
  <2> QED
    BY <2>1, <2>2
<1>3. f \in Rounded(part, Unity)
  BY DEF Fees
<1> HIDE DEF part
<1>4. PICK n \in Int : /\ f = Cent * n
                      /\ 2 * (Unity * f - part) <= Unity * Cent
                      /\ 2 * (part - Unity * f) <= Unity * Cent
  <2>1. part \in Int
    BY <1>2
  <2> QED
    BY <1>1, <1>3, <2>1, RoundedFacts, Zenon
<1>5. f \in Int
  BY <1>1, <1>4
<1>6. n >= 0
  <2>1. SUFFICES ASSUME n <= -1
                 PROVE  FALSE
    BY <1>4
  <2>2. Cent * (-1 - n) \in Nat /\ Cent * (-1 - n) = -Cent - Cent * n
    BY <1>1, <2>1
  <2>3. f <= -Cent
    BY <1>1, <1>4, <1>5, <2>2
  <2>4. Unity * (-Cent - f) \in Nat /\ Unity * (-Cent - f) = -(Unity * Cent) - Unity * f
    BY <1>1, <1>5, <2>3
  <2>5. Unity * Cent \in Nat /\ Unity * Cent > 0 /\ Unity * f \in Int
    BY <1>1, <1>5
  <2>6. 2 * part - 2 * (Unity * f) <= Unity * Cent
    BY <1>2, <1>4, <2>5
  <2> QED
    BY <1>2, <2>4, <2>5, <2>6
<1>7. f \in Nat
  BY <1>1, <1>4, <1>6
<1>8. 2 * f <= 2 * total + Cent
  <2>1. SUFFICES ASSUME 2 * f - (2 * total + Cent) >= 1
                 PROVE  FALSE
    BY <1>1, <1>7
  <2>2. Unity * (2 * f - (2 * total + Cent)) = 2 * (Unity * f) - 2 * (Unity * total) - Unity * Cent
    BY <1>1, <1>7
  <2>3. Unity * (2 * f - (2 * total + Cent)) > 0
    BY <1>1, <1>7, <2>1
  <2>4. Unity * f \in Nat /\ Unity * total \in Nat /\ Unity * Cent \in Nat
    BY <1>1, <1>7
  <2> QED
    BY <1>2, <1>4, <2>2, <2>3, <2>4
<1> QED
  BY <1>4, <1>7, <1>8

\* What the fee leaves, rounded again.
LEMMA AmountWithinTotal ==
  ASSUME NEW total \in Nat, NEW rate \in 0..Unity, NEW f \in Fees(total, rate),
         NEW m \in Rounded(total - f, 1)
  PROVE  IF total % Cent = 0 THEN m \in 0..total
         ELSE -Cent <= m /\ 2 * m <= 2 * total + Cent
<1>1. Cent \in Nat \ {0}
  BY UnitsAssumption
<1>2. PICK n \in Int : f = Cent * n
  BY FeeWithinTotal
<1>3. f \in Nat /\ 2 * f <= 2 * total + Cent
  BY FeeWithinTotal
<1>4. PICK k \in Int : /\ m = Cent * k
                      /\ 2 * (1 * m - (total - f)) <= 1 * Cent
                      /\ 2 * ((total - f) - 1 * m) <= 1 * Cent
  <2>1. total - f \in Int /\ 1 \in Nat \ {0}
    BY <1>3
  <2> QED
    BY <2>1, RoundedFacts
<1>5. m \in Int /\ 2 * (m - (total - f)) <= Cent /\ 2 * ((total - f) - m) <= Cent
  BY <1>1, <1>3, <1>4
<1>6. -Cent <= m /\ 2 * m <= 2 * total + Cent
  BY <1>1, <1>3, <1>5
<1>7. CASE total % Cent = 0
  <2> DEFINE t == total \div Cent
  <2>1. t \in Nat /\ total = Cent * t
    BY <1>1, <1>7
  <2> HIDE DEF t
  <2>2. n <= t
    <3>1. Cent * n < Cent * (t + 1)
      <4>1. Cent * (t + 1) = Cent * t + Cent
        BY <1>1, <2>1
      <4> QED
        BY <1>1, <1>2, <1>3, <2>1, <4>1
    <3> QED
      BY <2>1, <3>1, NextCent
  <2>3. total - f = Cent * (t - n) /\ t - n \in Nat
    <3>1. Cent * (t - n) = Cent * t - Cent * n
      BY <1>1, <2>1
    <3> QED
      BY <1>2, <2>1, <2>2, <3>1
  <2>4. k <= t - n /\ Cent * k <= Cent * (t - n)
    <3>1. Cent * ((t - n) + 1) = Cent * (t - n) + Cent
      BY <1>1, <2>3
    <3>2. Cent * k < Cent * ((t - n) + 1)
      BY <1>1, <1>3, <1>4, <1>5, <2>3, <3>1
    <3> QED
      BY <2>3, <3>2, NextCent
  <2>5. t - n <= k /\ Cent * (t - n) <= Cent * k
    <3>1. Cent * (k + 1) = Cent * k + Cent
      BY <1>1
    <3>2. Cent * (t - n) < Cent * (k + 1)
      BY <1>1, <1>3, <1>4, <1>5, <2>3, <3>1
    <3> QED
      BY <2>3, <3>2, NextCent
  <2>6. m = total - f /\ m >= 0
    <3>1. k = t - n
      BY <2>3, <2>4, <2>5
    <3>2. Cent * (t - n) \in Nat
      BY <1>1, <2>3
    <3> QED
      BY <1>4, <2>3, <3>1, <3>2
  <2> QED
    BY <1>3, <1>7, <2>6
<1> QED
  BY <1>6, <1>7

\* Rates the catalog and the policies may have.
Rates == {Catalog[k].fee : k \in DOMAIN Catalog} \cup {p.fee : p \in Policies}

\* The rate charged on the whole is that of one of the lines.
LEMMA FeeIsARate ==
  ASSUME NEW c, LinesOK(c), NEW p \in Policies, Rates \subseteq Int
  PROVE  RestockFee(c, p, Catalog) \in Rates
<1> DEFINE D == DOMAIN c.lines
           r == [i \in D |-> Resolve(c.lines[i].kind, p, Catalog).fee]
           R == {r[i] : i \in D}
<1>1. D = 1..Len(c.lines) /\ Len(c.lines) \in Nat /\ 1 \in D
  BY DEF LinesOK
<1>2. IsFiniteSet(D)
  BY <1>1, FS_Interval
<1>3. \A i \in D : r[i] \in Rates
  BY DEF Resolve, Rates
<1>4. R \subseteq Rates /\ R # {}
  BY <1>1, <1>3
<1>5. IsFiniteSet(R)
  <2>1. r = [i \in D |-> r[i]]
    OBVIOUS
  <2> HIDE DEF r
  <2> QED
    BY <1>2, <2>1, FiniteRange
<1>6. {t.fee : t \in Terms(c, p, Catalog)} = R
  BY DEF Terms
<1>7. RestockFee(c, p, Catalog) = Max(R)
  BY <1>6 DEF RestockFee
<1>8. Max(R) \in R
  <2> HIDE DEF R
  <2>1. R \in SUBSET Int
    BY <1>4
  <2> QED
    BY <1>4, <1>5, <2>1, FiniteGreatest
<1> QED
  BY <1>4, <1>7, <1>8

\* With rates between nothing and the whole, which the code does not check, the
\* refund _settle computes is never negative and never more than the case is worth,
\* if that is in whole cents; if not, it is at most half a cent more.
THEOREM RefundsStayWithin ==
  ASSUME Rates \subseteq 0..Unity
  PROVE  PolicySpec => []RefundWithinValue
<1>1. PolicyInv => RefundWithinValue
  <2> DEFINE total == TotalValue(case)
  <2> SUFFICES ASSUME PolicyInv, total >= 0,
                      NEW m \in Amounts(total, Snapshot(case, policy, Catalog))
               PROVE  IF total % Cent = 0 THEN m \in 0..total
                      ELSE -Cent <= m /\ 2 * m <= 2 * total + Cent
    BY DEF RefundWithinValue
  <2>1. total \in Nat
    BY TotalIsInt DEF PolicyInv
  <2>2. Rates \subseteq Int
    BY UnitsAssumption
  <2>3. RestockFee(case, policy, Catalog) \in 0..Unity
    BY <2>2, FeeIsARate DEF PolicyInv
  <2>4. Snapshot(case, policy, Catalog).fee = RestockFee(case, policy, Catalog)
    BY DEF Snapshot
  <2> HIDE DEF total
  <2>5. PICK f \in Fees(total, RestockFee(case, policy, Catalog)) : m \in Rounded(total - f, 1)
    BY <2>4 DEF Amounts
  <2> QED
    BY <2>1, <2>3, <2>5, AmountWithinTotal
<1> QED
  BY <1>1, PolicyStates, PTL
=============================================================================

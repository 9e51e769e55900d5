---------------------------- MODULE SimulatedBoard ----------------------------
(***************************************************************************)
(* The console's SimulatedLLM (streamlit_app.py) as the board's members,   *)
(* and what the board then makes of an escalated case.  A case is filed at *)
(* one age of its order and reviewed at a later one: the notes are of the  *)
(* first, the facts the compliance member is given of the second.  What a  *)
(* customer wrote and the brand excerpts are left out.                     *)
(***************************************************************************)
EXTENDS PolicyEngine, BoardRules, FiniteSets

\* The default of ReviewBoard, which the console keeps.
ConsoleThreshold == 75

\* Mutant of PolicyVote: the facts of the day the case was filed.
PolicyVoteAsFiled(c, p, cat, filed, age) ==
  IF HardDisqualifiers(c, p, cat, filed) # {} THEN "reject" ELSE "approve"

\* Policy compliance rejects on any hard disqualifier of the determination.
PolicyVote(c, p, cat, filed, age) ==
  IF HardDisqualifiers(c, p, cat, age) # {} THEN "reject" ELSE "approve"

\* The engine's note says that a risk threshold is exceeded.
RiskNoted(c, p, cat, filed) ==
  /\ Evaluate(c, p, cat, filed) = "manual_review"
  /\ ~Unsellable(c) /\ ~PastWindow(c, p, cat, filed) /\ ~ReceiptMissing(c, p, cat)

\* The fraud analyst escalates what the note says exceeds a threshold, be it of
\* the return rate, which every description of a case names, or of the value.
FraudVote(c, p, cat, filed) == IF RiskNoted(c, p, cat, filed) THEN "escalate" ELSE "approve"

\* Customer experience always approves.
CustomerVote == "approve"

\* The three assessments, counted.
SimulatedPanel(c, p, cat, filed, age) ==
  LET votes == <<PolicyVote(c, p, cat, filed, age), FraudVote(c, p, cat, filed), CustomerVote>> IN
    [r \in Recommendation |-> Cardinality({i \in DOMAIN votes : votes[i] = r})]

\* The lead reviewer: compliance carries the most weight.
LeadVerdict(c, p, cat, filed, age) ==
  IF PolicyVote(c, p, cat, filed, age) = "reject" THEN "reject"
  ELSE IF SimulatedPanel(c, p, cat, filed, age)["approve"] >= 2 THEN "approve"
  ELSE "escalate"

\* The board approves the case without a human, who runs it with auto_apply.
SimulationApplies(c, p, cat, filed, age) ==
  MayApply(LeadVerdict(c, p, cat, filed, age), SimulatedPanel(c, p, cat, filed, age),
           ConsoleThreshold)
=============================================================================

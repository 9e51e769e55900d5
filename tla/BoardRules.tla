------------------------------ MODULE BoardRules ------------------------------
(***************************************************************************)
(* What the review board makes of its members' recommendations:            *)
(* derive_confidence and _may_apply of agents/coordinator.py.  A list of   *)
(* assessments is a function from recommendations to how many gave each,   *)
(* for the rules only count them.  Nothing here has state.                 *)
(***************************************************************************)
EXTENDS Naturals

\* Recommendation, of a specialist and of the lead reviewer.
Recommendation == {"approve", "reject", "escalate"}

Votes == [Recommendation -> Nat]

NoVotes == [r \in Recommendation |-> 0]

Count(v) == v["approve"] + v["reject"] + v["escalate"]

\* What n specialists may recommend.  One that fails counts as "escalate".
Panels(n) == {v \in [Recommendation -> 0..n] : Count(v) = n}

\* assessments + panel, the reducer of the graph's state.
Gathered(v, panel) == [r \in Recommendation |-> v[r] + panel[r]]

\* Twice the numerator of derive_confidence: full credit for agreement, half
\* credit for an escalation unless that is the verdict.
HalfCredits(decision, v) ==
  2 * v[decision] + (IF decision = "escalate" THEN 0 ELSE v["escalate"])

\* derive_confidence >= threshold, in percent; without assessments it is zero.
Clears(decision, v, threshold) ==
  IF Count(v) = 0 THEN threshold = 0
  ELSE 100 * HalfCredits(decision, v) >= threshold * 2 * Count(v)

\* Specialists hard-disagree.
Split(v) == v["approve"] > 0 /\ v["reject"] > 0

\* Mutant of MayApply: whatever the lead's verdict is.
AppliesAnyVerdict(decision, v, threshold) == Clears(decision, v, threshold) /\ ~Split(v)

\* _may_apply: only an agreed approval is applied without a human.
MayApply(decision, v, threshold) ==
  /\ decision = "approve"
  /\ Clears(decision, v, threshold)
  /\ ~Split(v)
=============================================================================

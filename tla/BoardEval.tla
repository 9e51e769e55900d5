------------------------------- MODULE BoardEval -------------------------------
(***************************************************************************)
(* scripts/eval_triage.py --board: the review board over a sample of       *)
(* labelled cases the engine escalated, the calibration sweep, and the     *)
(* gate on false auto-approvals.  A review is run with auto_apply=False    *)
(* and only its verdict, its votes and its usage are kept.                 *)
(* The gates on the rule engine's own metrics are left out.                *)
(***************************************************************************)
EXTENDS LLMClient, Sequences, Integers

CONSTANTS
  Lead,         \* the lead reviewer
  Thresholds,   \* values of --threshold, in whole percent
  Allowed,      \* --max-board-false-approvals
  MaxSample     \* bound: rows sampled

ASSUME LeadAssumption == Lead \in Members
ASSUME ThresholdsAssumption == Thresholds \subseteq Nat
ASSUME AllowedAssumption == Allowed \in Int

VARIABLES
  threshold,    \* --threshold
  sample,       \* rows sampled, of at least one asked for; none if none was escalated
  label,        \* label of the row under review, Nothing between reviews
  before,       \* usage when that review began
  reported,     \* the usage of all reviews so far, each as its outcome says
  results,      \* results_board
  outcome       \* how the script ended

evalVars == <<llmVars, threshold, sample, label, before, reported, results, outcome>>

DatasetLabel == {"eligible", "needs_review", "ineligible"}

Row == [label : DatasetLabel, decision : Recommendation, votes : Votes]

EvalTypeOK ==
  /\ LLMTypeOK
  /\ threshold \in Thresholds
  /\ sample \in 0..MaxSample
  /\ label \in DatasetLabel \cup {Nothing}
  /\ before \in Nat /\ reported \in Nat
  /\ results \in Seq(Row)
  /\ outcome \in {"running", "passed", "failed", "crashed"}

EvalInit ==
  /\ LLMInit
  /\ threshold \in Thresholds
  /\ sample \in 0..MaxSample
  /\ label = Nothing
  /\ before = 0 /\ reported = 0
  /\ results = <<>>
  /\ outcome = "running"

Specialists == Members \ {Lead}

\* The specialists' recommendations, counted.
Panel == [r \in Recommendation |-> Cardinality({m \in Specialists : call[m].said = r})]

-----------------------------------------------------------------------------
\* Mutant of BeginReview: the usage is not read before the review.
BeginReviewUnmeasured ==
  /\ outcome = "running" /\ label = Nothing /\ Len(results) < sample
  /\ label' \in DatasetLabel
  /\ call' = [m \in Members |-> NewCall]
  /\ UNCHANGED <<keyed, usage, threshold, sample, before, reported, results, outcome>>

\* The board takes up the next row.
BeginReview ==
  /\ outcome = "running" /\ label = Nothing /\ Len(results) < sample
  /\ label' \in DatasetLabel
  /\ call' = [m \in Members |-> NewCall]
  /\ before' = usage
  /\ UNCHANGED <<keyed, usage, threshold, sample, reported, results, outcome>>

\* Mutant of Consult: the lead waits for every member, itself included.
ConsultAll(m) ==
  /\ label # Nothing
  /\ m = Lead => \A s \in Members : Answered(s)
  /\ Attempt(m)
  /\ UNCHANGED <<threshold, sample, label, before, reported, results, outcome>>

\* A member's call goes on; the lead is asked when all specialists answered.
Consult(m) ==
  /\ label # Nothing
  /\ m = Lead => \A s \in Specialists : Answered(s)
  /\ Attempt(m)
  /\ UNCHANGED <<threshold, sample, label, before, reported, results, outcome>>

\* _usage_delta: what the shared counter went up by since the review began.
UsageDelta == usage - before

\* The outcome of the review.
EndReview ==
  /\ label # Nothing /\ Answered(Lead)
  /\ results' = Append(results,
       [label |-> label, decision |-> call[Lead].said, votes |-> Panel])
  /\ reported' = reported + UsageDelta
  /\ label' = Nothing
  /\ UNCHANGED <<llmVars, threshold, sample, before, outcome>>

-----------------------------------------------------------------------------
\* The thresholds of the sweep.
Swept == {50, 60, 70, 75, 80, 90, 100}

\* Mutant of ClearedAt: only what is above the threshold clears it.
ClearedAbove(t) ==
  {i \in DOMAIN results :
     /\ results[i].decision = "approve"
     /\ 100 * HalfCredits("approve", results[i].votes) > t * 2 * Count(results[i].votes)}

\* Rows whose approval clears a threshold of the sweep.
ClearedAt(t) ==
  {i \in DOMAIN results :
     results[i].decision = "approve" /\ Clears("approve", results[i].votes, t)}

\* Counted when the sweep comes by the threshold of the run; zero if it never does.
FalseAtThreshold ==
  IF threshold \in Swept
  THEN Cardinality({i \in ClearedAt(threshold) : results[i].label = "ineligible"})
  ELSE 0

\* Without a row to sample there are no metrics, and the gate's look-up raises.
Gate ==
  /\ outcome = "running" /\ label = Nothing /\ Len(results) = sample
  /\ outcome' = IF sample = 0 THEN "crashed"
                ELSE IF FalseAtThreshold > Allowed THEN "failed" ELSE "passed"
  /\ UNCHANGED <<llmVars, threshold, sample, label, before, reported, results>>

EvalNext ==
  \/ BeginReview
  \/ \E m \in Members : Consult(m)
  \/ EndReview
  \/ Gate

EvalSpec == EvalInit /\ [][EvalNext]_evalVars /\ WF_evalVars(EvalNext)

-----------------------------------------------------------------------------
\* What the board would apply by itself of the rows reviewed.
Applied == {i \in DOMAIN results :
              MayApply(results[i].decision, results[i].votes, threshold)}

\* The gate lets through no more false approvals than allowed of those the board
\* would apply, for a threshold of the sweep (help text, eval_triage.py:252-254).
GateHolds ==
  outcome = "passed" /\ threshold \in Swept
    => Cardinality({i \in Applied : results[i].label = "ineligible"}) <= Allowed

\* The usage reported for the reviews adds up to what the client counted, for
\* reviews one after the other (README.md:111-112).
UsageAddsUp == label = Nothing => reported = usage

\* Nothing is applied above half agreement unless the lead and a specialist did
\* answer: members that cannot be reached never make an approval.
OutagesNeverApprove ==
  [][EndReview /\ threshold > 50 /\ MayApply(call[Lead].said, Panel, threshold)
       => UsageDelta >= 2]_evalVars

\* The evaluation ends, whatever is refused or unreachable.
EvalEnds == <>(outcome # "running")
=============================================================================

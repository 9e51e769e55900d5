------------------------------- MODULE EvalProofs -------------------------------
(***************************************************************************)
(* Proofs about the board's evaluation, for any finite board, any sample   *)
(* and any answers, refusals and outages of the models: its gate, the      *)
(* usage it reports, and what it takes for an approval.                    *)
(***************************************************************************)
EXTENDS BoardEval, BasicProofs, FiniteSetTheorems, TLAPS

-----------------------------------------------------------------------------
(* The invariant.                                                          *)

\* Members that came out for or against: each had an answer of the model's.
Voices == {m \in Members : call[m].said \in {"approve", "reject"}}

\* Rows of results that would be applied wrongly, as the gate counts them.
FalselyCleared(t) == {i \in ClearedAt(t) : results[i].label = "ineligible"}

\* Between reviews all usage has been reported; in a review what was before it,
\* and each voice has been counted since.
UsageInv ==
  /\ before <= usage
  /\ label = Nothing => reported = usage
  /\ label # Nothing => reported = before /\ before + Cardinality(Voices) <= usage

\* When the gate has passed, nothing that it looked at changes.
GateInv ==
  /\ outcome # "running" => label = Nothing
  /\ outcome = "passed" /\ threshold \in Swept
       => Cardinality(FalselyCleared(threshold)) <= Allowed

EvalInv == EvalTypeOK /\ UsageInv /\ GateInv

-----------------------------------------------------------------------------
\* A panel is votes.
LEMMA PanelVotes ==
  ASSUME IsFiniteSet(Members), EvalTypeOK
  PROVE  Panel \in Votes
<1>1. ASSUME NEW r \in Recommendation
      PROVE  Cardinality({m \in Specialists : call[m].said = r}) \in Nat
  <2>1. {m \in Specialists : call[m].said = r} \in SUBSET Members
    BY DEF Specialists
  <2>2. IsFiniteSet({m \in Specialists : call[m].said = r})
    BY <2>1, FS_Subset
  <2> QED
    BY <2>2, FS_CardinalityType
<1> QED
  BY <1>1 DEF Panel, Votes

\* Voices are finitely many.
LEMMA VoicesFinite ==
  ASSUME IsFiniteSet(Members)
  PROVE  IsFiniteSet(Voices) /\ Cardinality(Voices) \in Nat
<1>1. Voices \in SUBSET Members
  BY DEF Voices
<1> QED
  BY <1>1, FS_Subset, FS_CardinalityType

\* An attempt keeps to its type, is counted once at most, and only a counted one
\* can give a member a voice.
LEMMA AttemptFacts ==
  ASSUME LLMTypeOK, NEW m \in Members, Attempt(m)
  PROVE  /\ LLMTypeOK'
         /\ \/ usage' = usage /\ Voices' = Voices
            \/ usage' = usage + 1 /\ Voices' \subseteq Voices \cup {m}
<1>1. call[m] \in Call /\ call[m].said = Nothing /\ MaxRetries \in Nat \ {0}
  BY MaxRetriesAssumption DEF LLMTypeOK, Attempt, NoClient, Reply, Refusal, Unreachable, Answered
<1>2. ASSUME NEW r \in Recommendation, Says(m, r)
      PROVE  /\ call' \in [Members -> Call] /\ Voices' \subseteq Voices \cup {m}
             /\ r = "escalate" => Voices' = Voices
  <2>1. [failed |-> 0, said |-> r] \in Call
    BY <1>1 DEF Call
  <2>2. /\ call' \in [Members -> Call] /\ call'[m].said = r
        /\ \A x \in Members \ {m} : call'[x] = call[x]
    BY <1>2, <2>1 DEF Says, LLMTypeOK
  <2>3. m \notin Voices
    BY <1>1, NothingAssumption DEF Voices, Recommendation
  <2> QED
    BY <2>2, <2>3 DEF Voices
<1>3. ASSUME AttemptFails(m)
      PROVE  call' \in [Members -> Call] /\ Voices' = Voices
  <2>1. CASE call[m].failed + 1 = MaxRetries
    BY <1>2, <1>3, <2>1 DEF AttemptFails, GivesUp, Recommendation
  <2>2. CASE call[m].failed + 1 # MaxRetries
    <3> DEFINE n == [call[m] EXCEPT !.failed = @ + 1]
    <3>1. n \in Call /\ n.said = call[m].said
      BY <1>1, <2>2 DEF Call
    <3>2. call' = [call EXCEPT ![m] = n]
      BY <1>3, <2>2 DEF AttemptFails, LLMTypeOK
    <3> HIDE DEF n
    <3>3. call' \in [Members -> Call] /\ \A x \in Members : call'[x].said = call[x].said
      BY <3>1, <3>2 DEF LLMTypeOK
    <3> QED
      BY <3>3 DEF Voices
  <2> QED
    BY <2>1, <2>2
<1>4. CASE NoClient(m)
  BY <1>2, <1>4 DEF NoClient, GivesUp, Recommendation, LLMTypeOK
<1>5. CASE \E r \in Recommendation : Reply(m, r)
  BY <1>2, <1>5 DEF Reply, LLMTypeOK
<1>6. CASE Refusal(m)
  BY <1>3, <1>6 DEF Refusal, LLMTypeOK
<1>7. CASE Unreachable(m)
  BY <1>3, <1>7 DEF Unreachable, LLMTypeOK
<1> QED
  BY <1>4, <1>5, <1>6, <1>7 DEF Attempt

\* Nothing is answered, counted or approved at first.
LEMMA EvalStarts == EvalInit => EvalInv
<1> SUFFICES ASSUME EvalInit PROVE EvalInv
  OBVIOUS
<1>1. NewCall \in Call
  BY MaxRetriesAssumption DEF NewCall, Call
<1>2. EvalTypeOK
  BY <1>1 DEF EvalInit, EvalTypeOK, LLMInit, LLMTypeOK
<1> QED
  BY <1>2 DEF EvalInv, EvalInit, LLMInit, UsageInv, GateInv

\* Every step of the evaluation leaves its counts in order.
LEMMA EvalKeeps ==
  ASSUME IsFiniteSet(Members), EvalInv, [EvalNext]_evalVars
  PROVE  EvalInv'
<1>1. /\ EvalTypeOK /\ UsageInv /\ GateInv /\ LLMTypeOK
      /\ usage \in Nat /\ before \in Nat /\ reported \in Nat /\ results \in Seq(Row)
  BY DEF EvalInv, EvalTypeOK, LLMTypeOK
<1>2. CASE BeginReview
  <2>1. call' \in [Members -> Call] /\ Voices' = {}
    <3>1. NewCall \in Call /\ NewCall.said \notin {"approve", "reject"}
      BY MaxRetriesAssumption, NothingAssumption DEF NewCall, Call, Recommendation
    <3> QED
      BY <1>2, <3>1 DEF BeginReview, Voices
  <2>2. EvalTypeOK'
    BY <1>1, <1>2, <2>1 DEF BeginReview, EvalTypeOK, LLMTypeOK
  <2>3. UsageInv'
    BY <1>1, <1>2, <2>1, FS_EmptySet DEF BeginReview, UsageInv
  <2>4. GateInv'
    BY <1>1, <1>2 DEF BeginReview, GateInv
  <2> QED
    BY <2>2, <2>3, <2>4 DEF EvalInv
<1>3. ASSUME NEW m \in Members, Consult(m)
      PROVE  EvalInv'
  <2>1. /\ LLMTypeOK'
        /\ \/ usage' = usage /\ Voices' = Voices
           \/ usage' = usage + 1 /\ Voices' \subseteq Voices \cup {m}
    BY <1>1, <1>3, AttemptFacts DEF Consult
  <2>2. EvalTypeOK' /\ label # Nothing /\ label' = label
    BY <1>1, <1>3, <2>1 DEF Consult, EvalTypeOK
  <2>3. UsageInv'
    <3>1. IsFiniteSet(Voices) /\ Cardinality(Voices) \in Nat
      BY VoicesFinite
    <3>2. CASE usage' = usage /\ Voices' = Voices
      BY <1>1, <1>3, <2>2, <3>2 DEF Consult, UsageInv
    <3>3. CASE usage' = usage + 1 /\ Voices' \subseteq Voices \cup {m}
      <4>1. /\ IsFiniteSet(Voices \cup {m})
            /\ Cardinality(Voices \cup {m}) <= Cardinality(Voices) + 1
            /\ Cardinality(Voices \cup {m}) \in Nat
        <5>1. /\ IsFiniteSet(Voices \cup {m})
              /\ Cardinality(Voices \cup {m}) =
                   IF m \in Voices THEN Cardinality(Voices) ELSE Cardinality(Voices) + 1
          BY <3>1, FS_AddElement
        <5> HIDE DEF Voices
        <5> QED
          BY <3>1, <5>1
      <4>2. Cardinality(Voices') <= Cardinality(Voices \cup {m}) /\ Cardinality(Voices') \in Nat
        BY <3>3, <4>1, FS_Subset, FS_CardinalityType
      <4> QED
        BY <1>1, <1>3, <2>2, <3>1, <3>3, <4>1, <4>2 DEF Consult, UsageInv
    <3> QED
      BY <2>1, <3>2, <3>3
  <2>4. GateInv'
    BY <1>1, <1>3, <2>2 DEF Consult, GateInv
  <2> QED
    BY <2>2, <2>3, <2>4 DEF EvalInv
<1>4. CASE EndReview
  <2> DEFINE row == [label |-> label, decision |-> call[Lead].said, votes |-> Panel]
  <2>1. row \in Row
    BY <1>1, <1>4, PanelVotes, LeadAssumption
       DEF EndReview, EvalTypeOK, LLMTypeOK, Call, Answered, Row
  <2>2. results' = Append(results, row)
    BY <1>4 DEF EndReview
  <2> HIDE DEF row
  <2>3. results' \in Seq(Row)
    BY <1>1, <2>1, <2>2
  <2>4. before <= usage /\ reported = before /\ reported' = reported + (usage - before)
    BY <1>1, <1>4 DEF EndReview, UsageInv, UsageDelta
  <2>5. EvalTypeOK'
    BY <1>1, <1>4, <2>3, <2>4 DEF EndReview, EvalTypeOK, LLMTypeOK, llmVars
  <2>6. UsageInv'
    BY <1>1, <1>4, <2>4 DEF EndReview, UsageInv, llmVars
  <2>7. GateInv'
    BY <1>1, <1>4 DEF EndReview, GateInv
  <2> QED
    BY <2>5, <2>6, <2>7 DEF EvalInv
<1>5. CASE Gate
  <2>1. EvalTypeOK'
    BY <1>1, <1>5 DEF Gate, EvalTypeOK, LLMTypeOK, llmVars
  <2>2. UsageInv'
    BY <1>1, <1>5 DEF Gate, UsageInv, Voices, llmVars
  <2>3. GateInv'
    <3>1. ASSUME outcome' = "passed", threshold \in Swept
          PROVE  Cardinality(FalselyCleared(threshold)) <= Allowed
      <4>1. FalseAtThreshold = Cardinality(FalselyCleared(threshold))
        BY <3>1 DEF FalseAtThreshold, FalselyCleared
      <4>2. ~(FalseAtThreshold > Allowed)
        BY <1>5, <3>1 DEF Gate
      <4>3. Cardinality(FalselyCleared(threshold)) \in Nat
        <5>1. FalselyCleared(threshold) \in SUBSET (1..Len(results)) /\ Len(results) \in Nat
          BY <1>1 DEF FalselyCleared, ClearedAt
        <5>2. IsFiniteSet(1..Len(results))
          BY <5>1, FS_Interval
        <5> QED
          BY <5>1, <5>2, FS_Subset, FS_CardinalityType
      <4> QED
        BY <4>1, <4>2, <4>3, AllowedAssumption
    <3>2. threshold' = threshold /\ results' = results /\ label' = label /\ label = Nothing
      BY <1>5 DEF Gate
    <3>3. FalselyCleared(threshold)' = FalselyCleared(threshold)
      BY <3>2 DEF FalselyCleared, ClearedAt
    <3> QED
      BY <3>1, <3>2, <3>3 DEF GateInv
  <2> QED
    BY <2>1, <2>2, <2>3 DEF EvalInv
<1>6. CASE UNCHANGED evalVars
  BY <1>1, <1>6 DEF evalVars, llmVars, EvalInv, EvalTypeOK, LLMTypeOK, UsageInv, Voices, GateInv,
     FalselyCleared, ClearedAt
<1> QED
  BY <1>2, <1>3, <1>4, <1>5, <1>6 DEF EvalNext

\* So they always are.
LEMMA EvalHolds ==
  ASSUME IsFiniteSet(Members)
  PROVE  EvalSpec => []EvalInv
<1>1. EvalInv /\ [EvalNext]_evalVars => EvalInv'
  BY EvalKeeps
<1> QED
  BY <1>1, EvalStarts, PTL DEF EvalSpec

-----------------------------------------------------------------------------
\* Every variable of the evaluation keeps to its type.
THEOREM EvalTypes ==
  ASSUME IsFiniteSet(Members)
  PROVE  EvalSpec => []EvalTypeOK
<1>1. EvalInv => EvalTypeOK
  BY DEF EvalInv
<1> QED
  BY <1>1, EvalHolds, PTL

\* The usage reported for the reviews adds up to what the client counted,
\* whatever was refused, retried or unreachable.
THEOREM UsageIsReported ==
  ASSUME IsFiniteSet(Members)
  PROVE  EvalSpec => []UsageAddsUp
<1>1. EvalInv => UsageAddsUp
  BY DEF EvalInv, UsageInv, UsageAddsUp
<1> QED
  BY <1>1, EvalHolds, PTL

\* The sweep that the gate reads counts what the board would apply: a threshold
\* of the sweep that passes the gate applies no more false approvals.
THEOREM GateBoundsApprovals ==
  ASSUME IsFiniteSet(Members)
  PROVE  EvalSpec => []GateHolds
<1>1. ASSUME EvalInv
      PROVE  GateHolds
  <2> SUFFICES ASSUME outcome = "passed", threshold \in Swept
               PROVE  Cardinality({i \in Applied : results[i].label = "ineligible"}) <= Allowed
    BY DEF GateHolds
  <2>1. results \in Seq(Row) /\ Cardinality(FalselyCleared(threshold)) <= Allowed
    BY <1>1 DEF EvalInv, EvalTypeOK, GateInv
  <2>2. {i \in Applied : results[i].label = "ineligible"} \in SUBSET FalselyCleared(threshold)
    BY DEF Applied, MayApply, FalselyCleared, ClearedAt
  <2>3. FalselyCleared(threshold) \in SUBSET (1..Len(results)) /\ Len(results) \in Nat
    BY <2>1 DEF FalselyCleared, ClearedAt
  <2>4. IsFiniteSet(FalselyCleared(threshold))
    <3>1. IsFiniteSet(1..Len(results))
      BY <2>3, FS_Interval
    <3> QED
      BY <2>3, <3>1, FS_Subset
  <2>5. /\ Cardinality({i \in Applied : results[i].label = "ineligible"})
             <= Cardinality(FalselyCleared(threshold))
        /\ Cardinality({i \in Applied : results[i].label = "ineligible"}) \in Nat
        /\ Cardinality(FalselyCleared(threshold)) \in Nat
    BY <2>2, <2>4, FS_Subset, FS_CardinalityType
  <2> QED
    BY <2>1, <2>5, AllowedAssumption
<1> QED
  BY <1>1, EvalHolds, PTL

\* Above a threshold of one half an approval has taken two answers: members
\* that cannot be reached never make one.
THEOREM ApprovalsWereAnswered ==
  ASSUME IsFiniteSet(Members)
  PROVE  EvalSpec => OutagesNeverApprove
<1>1. ASSUME EvalInv, EndReview, threshold > 50, MayApply(call[Lead].said, Panel, threshold)
      PROVE  UsageDelta >= 2
  <2>1. /\ EvalTypeOK /\ LLMTypeOK /\ usage \in Nat /\ before \in Nat
        /\ before + Cardinality(Voices) <= usage /\ threshold \in Nat
    BY <1>1, ThresholdsAssumption DEF EvalInv, EvalTypeOK, LLMTypeOK, UsageInv, EndReview
  <2>2. Lead \in Voices
    BY <1>1, LeadAssumption DEF MayApply, Voices
  <2>3. Panel["approve"] > 0
    BY <1>1, <2>1, PanelVotes, OnlyUnopposed
  <2>4. {m \in Specialists : call[m].said = "approve"} # {}
    BY <2>3, FS_EmptySet DEF Panel, Recommendation
  <2>5. PICK s \in Voices : s # Lead
    BY <2>4 DEF Voices, Specialists
  <2>6. Cardinality({Lead} \cup {s}) = 2 /\ {Lead} \cup {s} \in SUBSET Voices
    <3>1. IsFiniteSet({Lead}) /\ Cardinality({Lead}) = 1
      BY FS_Singleton
    <3>2. Cardinality({Lead} \cup {s}) = 1 + 1
      BY <2>5, <3>1, FS_AddElement
    <3> QED
      BY <2>2, <3>2
  <2>7. Cardinality(Voices) >= 2 /\ Cardinality(Voices) \in Nat
    BY <2>6, VoicesFinite, FS_Subset
  <2> QED
    BY <2>1, <2>7 DEF UsageDelta
<1>2. EvalInv /\ [EvalNext]_evalVars =>
        [EndReview /\ threshold > 50 /\ MayApply(call[Lead].said, Panel, threshold)
           => UsageDelta >= 2]_evalVars
  BY <1>1
<1> QED
  BY <1>2, EvalHolds, PTL DEF EvalSpec, OutagesNeverApprove
=============================================================================

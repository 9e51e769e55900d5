------------------------------- MODULE LLMClient -------------------------------
(***************************************************************************)
(* agents/llm.py and the calls agents/specialists.py and the lead reviewer *)
(* make of it: OpenAIClient.complete with its retries, the usage counter   *)
(* all calls share, and what a member of the board makes of a call that    *)
(* fails.  A call is made for each member, the specialists' in threads of  *)
(* one superstep.                                                          *)
(***************************************************************************)
EXTENDS BoardRules, FiniteSets

CONSTANTS
  Members,      \* the specialists and the lead reviewer
  Nothing,      \* no answer yet
  MaxRetries    \* max_retries: attempts of one call

ASSUME NothingAssumption == Nothing \notin Recommendation
ASSUME MaxRetriesAssumption == MaxRetries \in Nat \ {0}

VARIABLES
  keyed,        \* OPENAI_API_KEY is set
  call,         \* each member's call: attempts that failed, and its outcome
  usage         \* usage.calls, of the tracker that all calls share

llmVars == <<keyed, call, usage>>

Call == [failed : 0..(MaxRetries - 1), said : Recommendation \cup {Nothing}]

NewCall == [failed |-> 0, said |-> Nothing]

LLMTypeOK ==
  /\ keyed \in BOOLEAN
  /\ call \in [Members -> Call]
  /\ usage \in Nat

LLMInit ==
  /\ keyed \in BOOLEAN
  /\ call = [m \in Members |-> NewCall]
  /\ usage = 0

Answered(m) == call[m].said # Nothing

Says(m, r) == call' = [call EXCEPT ![m] = [failed |-> 0, said |-> r]]

\* Mutant of GivesUp: a member that cannot be reached is counted as agreeing.
GivesUpAgreeing(m) == Says(m, "approve")

\* The exception complete lets out: the member's recommendation is to escalate.
GivesUp(m) == Says(m, "escalate")

\* Mutant of AttemptFails: one attempt too many.
AttemptFailsLate(m) ==
  IF call[m].failed = MaxRetries THEN GivesUp(m)
  ELSE call' = [call EXCEPT ![m].failed = @ + 1]

\* An attempt failed: after the last one its error is raised.
AttemptFails(m) ==
  IF call[m].failed + 1 = MaxRetries THEN GivesUp(m)
  ELSE call' = [call EXCEPT ![m].failed = @ + 1]

\* Without a key the client is never made, and nothing is tried again.
NoClient(m) ==
  /\ ~keyed /\ ~Answered(m)
  /\ GivesUp(m)
  /\ UNCHANGED <<keyed, usage>>

\* A reply that parses; it names the tokens it took, so it is counted.
Reply(m, r) ==
  /\ keyed /\ ~Answered(m)
  /\ Says(m, r)
  /\ usage' = usage + 1
  /\ UNCHANGED keyed

\* A reply without the structured output is counted too, and tried again.
Refusal(m) ==
  /\ keyed /\ ~Answered(m)
  /\ AttemptFails(m)
  /\ usage' = usage + 1
  /\ UNCHANGED keyed

\* The call raises.
Unreachable(m) ==
  /\ keyed /\ ~Answered(m)
  /\ AttemptFails(m)
  /\ UNCHANGED <<keyed, usage>>

Attempt(m) ==
  \/ NoClient(m)
  \/ \E r \in Recommendation : Reply(m, r)
  \/ Refusal(m)
  \/ Unreachable(m)
=============================================================================

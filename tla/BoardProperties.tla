---------------------------- MODULE BoardProperties ----------------------------
(***************************************************************************)
(* What the review board should guarantee, in terms of the case, its       *)
(* thread and the runs of BoardService.                                    *)
(***************************************************************************)
EXTENDS BoardService, SequencesExt

\* Every variable keeps to its type.
TypeOK ==
  /\ StoreTypeOK
  /\ StepTypeOK
  /\ BoardTypeOK
  /\ crashes \in 0..MaxCrashes

Recorded == [c \in Cases |-> cases[c].status]

Ledger == INSTANCE CaseLedger WITH status <- Recorded

\* Next to the board, however its runs, restarts, agents and customers
\* interleave, the recorded status of a case makes legal moves only
\* (coordinator.py:1-27: decisions go through the normal state machine).
FollowsLedger == Ledger!LedgerSpec

\* The save synthesize makes after waiting for the models (coordinator.py:200)
\* drops no event another handler recorded meanwhile, nor is its own dropped.
AuditTrailGrows ==
  [][\A c \in Cases : IsPrefix(cases[c].events, cases'[c].events)]_vars

\* While the board applies an approval by itself, nobody on it rejected the
\* case and somebody approved it, also when two reviews ran on one thread.
AutoApprovalsUnopposed ==
  \A w \in Workers : run[w].at = "by_board" =>
    /\ run[w].state.votes["reject"] = 0
    /\ run[w].state.votes["approve"] > 0

\* A thread is finished only when its case has been decided, and so can be
\* cleared (coordinator.py:258-261) without losing a decision still to come.
FinishedIsDecided ==
  \A c \in Cases : thread[c].next = "end" => cases[c].status \notin {"absent", "manual_review"}

\* With one request to the board at a time, an approval the board applies by
\* itself is the advice the trail records last, also after a crash made the
\* lead reviewer give a second verdict.
BoardActsOnItsAdvice ==
  \A w \in Reviewers :
    run[w].at = "by_board" /\ Cardinality(Reviewers) = 1 =>
      LET d == doc[w] IN
        pc[w] # "idle" => d.events[Max(Advice(d))].event = VerdictEvent["approve"]

\* What a resumed run applies is what the human said (README.md:77-80).
HumanIsHeard ==
  \A w \in Workers :
    run[w].human = "rejected" /\ pc[w] # "idle" => doc[w].status = "rejected"

\* A review that has begun ends in a decision, after crashes, refused labels and
\* runs that failed on the way, if humans keep answering it (README.md:73-80).
ReviewsEnd ==
  \A c \in Cases : thread[c].next \in Pending ~> cases[c].status # "manual_review"
=============================================================================

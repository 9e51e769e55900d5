---------------------------- MODULE BoardInvariant ----------------------------
(***************************************************************************)
(* The inductive invariants behind the safety properties of the board.     *)
(***************************************************************************)
EXTENDS BoardProperties, CaseCopies

\* A run the rules let apply its verdict.
MayDecide(r) == r.state.auto /\ MayApply(r.state.verdict, r.state.votes, Threshold)

\* What a run carries: a case, and by the time the board applies its verdict,
\* votes and a verdict the rules let it apply.  Votes may not change in between.
RunOK(r) ==
  /\ r \in Run
  /\ r.at # "off" => r.case \in Cases
  /\ r.at = "by_board" => MayDecide(r)

BoardInv ==
  /\ thread \in [Cases -> Checkpoint]
  /\ run \in [Workers -> Run]
  /\ \A w \in Workers : RunOK(run[w])

-----------------------------------------------------------------------------
(* Rows, copies and threads.                                               *)

\* Which calls the handlers at the board's desk make.
DeskCalls ==
  UNION {{"none"} \X {"idle"},
         {"review"} \X {"label", "save", "notify", "note"},
         {"cancel"} \X {"save", "notify", "note"}}

Applying == {"by_board", "by_human"}

\* The case has been decided.
Decided(c) == cases[c].status \notin {"absent", "manual_review"}

\* A worker in a run serves the board, on a case there is; the calls it makes
\* are those of review, on that case, and of no handler before it decides.
StageOK(w) ==
  /\ <<op[w], pc[w]>> \in DeskCalls
  /\ run[w].at # "off" => w \in Reviewers /\ Of(w) \in Cases /\ Exists(Of(w))
  /\ run[w].at \in Applying => op[w] = "review" /\ doc[w].id = Of(w)
  /\ run[w].at \notin Applying \cup {"off"} => pc[w] = "idle"
  /\ run[w].at = "finish" => Decided(Of(w))

\* A copy a handler has moved is never newer than the row, and while the two
\* have the same version it continues the row and adds no advice.
CopyOK(w) ==
  pc[w] # "idle" =>
    LET row == cases[doc[w].id] IN
      /\ doc[w].id \in Cases
      /\ doc[w].req \in Requests
      /\ doc[w].status \in StatusAt(pc[w]) \ {"manual_review"}
      /\ Unlabelled(doc[w])
      /\ doc[w].version \in 1..row.version
      /\ doc[w].version = row.version =>
           Continues(pc[w], row, doc[w]) /\ Advice(doc[w]) = Advice(row)
      /\ pc[w] \in {"notify", "note"} => Decided(doc[w].id)

\* The copy synthesize holds while the lead reviewer answers is the row it read.
ReadOK(w) ==
  run[w].at = "save" =>
    LET row == cases[Of(w)] IN
      /\ doc[w].id = Of(w)
      /\ doc[w].version \in 1..row.version
      /\ doc[w].version = row.version => doc[w] = row

\* A thread is of a case there is, and a finished one of a decided case.
ThreadOK(c) ==
  /\ thread[c].next # "absent" => Exists(c)
  /\ thread[c].next = "end" => Decided(c)

DeskInv ==
  /\ TypeOK
  /\ BoardInv
  /\ \A c \in Cases : RowOK(c)
  /\ \A c \in Cases : ThreadOK(c)
  /\ \A w \in Workers : StageOK(w)
  /\ \A w \in Workers : CopyOK(w)
  /\ \A w \in Workers : ReadOK(w)

-----------------------------------------------------------------------------
(* One request to the board at a time.                                     *)

\* The advice the trail of d records last is verdict v.
Advises(d, v) ==
  \E i \in Advice(d) :
    /\ \A j \in Advice(d) : j <= i
    /\ d.events[i].event = VerdictEvent[v]

\* With nobody else to move its thread, a run is where the thread stands, and
\* never begins a review anew.
RunFollows(w) ==
  LET t == thread[Of(w)] IN
    /\ run[w].at = "peek" => t.next # "end"
    /\ run[w].at # "clear"
    /\ run[w].at = "invoke" => t.next = "absent"
    /\ run[w].at = "specialists" => t.next = "specialists"
    /\ run[w].at \in {"read", "save", "checkpoint"} => t.next = "synthesize"
    /\ run[w].at \in Applying \cup {"decide", "finish"} =>
         t.next = "decide" /\ t.state = run[w].state

\* What a run is about to decide on is what the trail says last.
Advised(w) ==
  /\ run[w].at = "checkpoint" => Advises(cases[Of(w)], run[w].state.verdict)
  /\ run[w].at = "by_board" => Advises(doc[w], "approve")

\* So is what a paused thread holds.
ThreadAdvised(c) ==
  thread[c].next = "decide" => Advises(cases[c], thread[c].state.verdict)

AdvisedInv ==
  /\ DeskInv
  /\ \A w \in Workers : RunFollows(w)
  /\ \A w \in Workers : Advised(w)
  /\ \A c \in Cases : ThreadAdvised(c)
=============================================================================

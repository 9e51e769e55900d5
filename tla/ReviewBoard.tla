------------------------------ MODULE ReviewBoard ------------------------------
(***************************************************************************)
(* agents/coordinator.py: the review board, a LangGraph graph with one     *)
(* checkpointed thread for each case.                                      *)
(*                                                                         *)
(*    specialists -> synthesize -> decide -> END                           *)
(*                                                                         *)
(* A worker that runs the graph keeps the graph's state in memory and      *)
(* writes the thread's checkpoint after each node.  The thread and the     *)
(* case are in two databases, so a node's save and its checkpoint are two  *)
(* steps.  decide calls ReturnsOrchestrator.review, whose steps are those  *)
(* of CaseActions and HandlerSteps.  The models' answers are left open.    *)
(*                                                                         *)
(* Of LangGraph, which is not part of the repository, this takes what the  *)
(* code and its comments rely on: the latest checkpoint written is the     *)
(* thread's; an input given to a thread is merged into its state; a node   *)
(* that did not finish runs again from its top; a resume value reaches the *)
(* interrupt only of the node the thread stands at.                        *)
(***************************************************************************)
EXTENDS CaseActions, BoardRules, Functions

CONSTANTS
  Reviewers,   \* threads that serve the board's two endpoints
  BoardSize,   \* how many specialists the board has
  Threshold,   \* confidence_threshold, in percent
  MaxAdvice    \* bound: times the board's advice is recorded on one case

ASSUME ReviewersAssumption == Reviewers \subseteq Workers
ASSUME BoardSizeAssumption == BoardSize \in Nat \ {0}
ASSUME ThresholdAssumption == Threshold \in 0..100

VARIABLES
  thread,      \* the checkpoint of each case's thread
  run          \* the run of the graph a worker is in

boardVars == <<thread, run>>

-----------------------------------------------------------------------------
\* Nodes a thread may have ahead of it, in their order.
Pending == {"specialists", "synthesize", "decide"}

\* BoardState, with verdict None until there is one.
State ==
  [auto : BOOLEAN, votes : Votes, verdict : Recommendation \cup {None}]

NoState == [auto |-> FALSE, votes |-> NoVotes, verdict |-> None]

\* get_state: the node that comes next, "end" for a finished thread and
\* "absent" for one that does not exist, and the values.
Checkpoint == [next : Pending \cup {"absent", "end"}, state : State]

NoThread == [next |-> "absent", state |-> NoState]

\* The next call of a worker in a run: of the checkpointer ("peek", "clear",
\* "invoke", "load", "checkpoint", "finish"), of the models ("specialists"), of
\* the store ("read", "save"); "decide", and in the handler that review runs.
Stage ==
  {"off", "peek", "clear", "invoke", "load", "specialists", "read", "save",
   "checkpoint", "decide", "by_board", "by_human", "finish"}

\* What a human may decide.
Answers == {"approved", "rejected"}

Run ==
  [at : Stage, case : Cases \cup {None}, state : State,
   human : Answers \cup {None}]      \* the decision a resume carries

NoRun == [at |-> "off", case |-> None, state |-> NoState, human |-> None]

BoardTypeOK ==
  /\ thread \in [Cases -> Checkpoint]
  /\ run \in [Workers -> Run]

BoardInit ==
  /\ thread = [c \in Cases |-> NoThread]
  /\ run = [w \in Workers |-> NoRun]

\* The board's advice in the trail of a case.
Advice(d) == {i \in DOMAIN d.events : d.events[i].event \in Range(VerdictEvent)}

-----------------------------------------------------------------------------
(* Steps of a run.                                                         *)

Of(w) == run[w].case

Enter(w, r) == run' = [run EXCEPT ![w] = r]

Proceed(w, stage) == run' = [run EXCEPT ![w].at = stage]

\* The request ends, with an answer or an exception.
Leave(w) == run' = [run EXCEPT ![w] = NoRun]

\* A checkpoint of the worker's state, with node next ahead.
Write(c, next, state) == thread' = [thread EXCEPT ![c] = [next |-> next, state |-> state]]

Idle(w) == pc[w] = "idle" /\ run[w].at = "off"

\* POST agent-review: only a case in manual_review.
ReviewCase(w, c, auto) ==
  /\ w \in Reviewers /\ Idle(w)
  /\ Exists(c) /\ cases[c].status = "manual_review"
  /\ Enter(w, [NoRun EXCEPT !.at = "peek", !.case = c, !.state.auto = auto])
  /\ UNCHANGED <<storeVars, now, notices, workerVars, thread>>

\* Mutant of Peek: a pending review is no obstacle.
PeekNothing(w) ==
  /\ run[w].at = "peek"
  /\ Proceed(w, "clear")
  /\ UNCHANGED <<storeVars, now, notices, workerVars, thread>>

\* review_case refuses a thread with nodes ahead, and clears a finished one.
Peek(w) ==
  /\ run[w].at = "peek"
  /\ CASE thread[Of(w)].next \in Pending -> Leave(w)
       [] thread[Of(w)].next = "end" -> Proceed(w, "clear")
       [] thread[Of(w)].next = "absent" -> Proceed(w, "invoke")
  /\ UNCHANGED <<storeVars, now, notices, workerVars, thread>>

\* delete_thread.
Clear(w) ==
  /\ run[w].at = "clear"
  /\ thread' = [thread EXCEPT ![Of(w)] = NoThread]
  /\ Proceed(w, "invoke")
  /\ UNCHANGED <<storeVars, now, notices, workerVars>>

\* graph.invoke with an input, merged into what the thread holds by now.
Invoke(w) ==
  /\ run[w].at = "invoke"
  /\ LET state == [thread[Of(w)].state EXCEPT !.auto = run[w].state.auto] IN
       /\ Write(Of(w), "specialists", state)
       /\ Enter(w, [run[w] EXCEPT !.at = "specialists", !.state = state])
  /\ UNCHANGED <<storeVars, now, notices, workerVars>>

\* The superstep of the specialists, none of which can sink the board.
Consult(w) ==
  /\ run[w].at = "specialists"
  /\ \E panel \in Panels(BoardSize) :
       LET state == [run[w].state EXCEPT !.votes = Gathered(@, panel)] IN
         /\ Write(Of(w), "synthesize", state)
         /\ Enter(w, [run[w] EXCEPT !.at = "read", !.state = state])
  /\ UNCHANGED <<storeVars, now, notices, workerVars>>

\* synthesize reads the case, whatever its status, and asks the lead reviewer.
ReadCase(w) ==
  /\ run[w].at = "read"
  /\ Cardinality(Advice(cases[Of(w)])) < MaxAdvice
  /\ doc' = [doc EXCEPT ![w] = cases[Of(w)]]
  /\ Proceed(w, "save")
  /\ UNCHANGED <<storeVars, now, notices, op, pc, ask, rest, thread>>

\* _synthesize: the lead reviewer's verdict, or an escalation if it fails.
LeadDecisions == Recommendation \cup {"escalate"}

\* Mutant of RecordAdvice: the save without its version check.
RecordAdviceRegardless(w) ==
  /\ run[w].at = "save"
  /\ \E v \in Recommendation :
       /\ Put(AddEvent(doc[w], VerdictEvent[v], now))
       /\ Enter(w, [run[w] EXCEPT !.at = "checkpoint", !.state.verdict = v])
  /\ doc' = [doc EXCEPT ![w] = NoDocument]
  /\ UNCHANGED <<orders, keys, outbox, now, notices, op, pc, ask, rest, thread>>

\* It saves the board's advice on the copy it read; a ConcurrencyError ends the
\* run at this node.
RecordAdvice(w) ==
  /\ run[w].at = "save"
  /\ \/ /\ CanSave(doc[w])
        /\ \E v \in LeadDecisions :
             /\ Put(AddEvent(doc[w], VerdictEvent[v], now))
             /\ Enter(w, [run[w] EXCEPT !.at = "checkpoint", !.state.verdict = v])
     \/ ~CanSave(doc[w]) /\ Leave(w) /\ UNCHANGED cases
  /\ doc' = [doc EXCEPT ![w] = NoDocument]
  /\ UNCHANGED <<orders, keys, outbox, now, notices, op, pc, ask, rest, thread>>

\* The verdict's checkpoint.
CheckpointVerdict(w) ==
  /\ run[w].at = "checkpoint"
  /\ Write(Of(w), "decide", run[w].state)
  /\ Proceed(w, "decide")
  /\ UNCHANGED <<storeVars, now, notices, workerVars>>

-----------------------------------------------------------------------------
(* decide.                                                                 *)

\* The board may apply its verdict by itself.
AppliesItself(w) ==
  /\ run[w].state.auto
  /\ MayApply(run[w].state.verdict, run[w].state.votes, Threshold)

\* orchestrator.review is called, or refuses: the case was decided meanwhile.
Apply(w, target, stage) ==
  \/ StartReview(w, Of(w), target) /\ Proceed(w, stage)
  \/ /\ ~CanMove(cases[Of(w)].status, target)
     /\ Leave(w)
     /\ UNCHANGED <<storeVars, now, notices, workerVars>>

\* The node decides, or takes the human's decision, or pauses for one.  It asks
\* first whether the board applies its verdict, also when it runs again.
Decide(w) ==
  /\ run[w].at = "decide"
  /\ \/ AppliesItself(w) /\ Apply(w, "approved", "by_board")
     \/ /\ ~AppliesItself(w) /\ run[w].human # None
        /\ Apply(w, run[w].human, "by_human")
     \/ /\ ~AppliesItself(w) /\ run[w].human = None
        /\ Leave(w)
        /\ UNCHANGED <<storeVars, now, notices, workerVars>>
  /\ UNCHANGED thread

\* Mutant of Returns: the graph takes an exception of review for its return.
ReturnsAlways(w) == TRUE

\* The step of review at hand is not one that raises.
Returns(w) == pc[w] \in {"notify", "note"} \/ (pc[w] = "save" /\ CanSave(doc[w]))

\* A step of review, called by decide.
InReview(w) ==
  /\ run[w].at \in {"by_board", "by_human"}
  /\ \/ IssueLabel(w)
     \/ SaveCase(w)
     \/ Notify(w)
     \/ NoteNotice(w)
  /\ IF pc'[w] # "idle" THEN UNCHANGED run
     ELSE IF Returns(w) THEN Proceed(w, "finish")
     ELSE Leave(w)
  /\ UNCHANGED thread

\* The last checkpoint.
FinishThread(w) ==
  /\ run[w].at = "finish"
  /\ Write(Of(w), "end", run[w].state)
  /\ Leave(w)
  /\ UNCHANGED <<storeVars, now, notices, workerVars>>

-----------------------------------------------------------------------------
(* resume_review.                                                          *)

\* POST agent-review/resume, with a human's decision.
ResumeReview(w, c, answer) ==
  /\ w \in Reviewers /\ Idle(w)
  /\ thread[c].next \in Pending
  /\ Enter(w, [NoRun EXCEPT !.at = "load", !.case = c, !.human = answer])
  /\ UNCHANGED <<storeVars, now, notices, workerVars, thread>>

\* The console's approve and reject buttons resume a review that is paused, and
\* are an agent's own decision otherwise.
Finalize(w, c, answer) ==
  \/ ResumeReview(w, c, answer)
  \/ /\ run[w].at = "off" /\ thread[c].next \notin Pending
     /\ StartReview(w, c, answer)
     /\ UNCHANGED boardVars

\* Where a worker goes on with a node that is ahead.
StageOf == [specialists |-> "specialists", synthesize |-> "read", decide |-> "decide"]

\* Mutant of Load: only a thread that waits for a human's decision is gone on with.
LoadPaused(w) ==
  /\ run[w].at = "load"
  /\ IF thread[Of(w)].next = "decide"
     THEN Enter(w, [run[w] EXCEPT !.at = "decide", !.state = thread[Of(w)].state])
     ELSE Leave(w)
  /\ UNCHANGED <<storeVars, now, notices, workerVars, thread>>

\* graph.invoke with a resume value goes on at the node ahead; the value is for
\* that node alone, so only decide gets to see it.
Load(w) ==
  /\ run[w].at = "load"
  /\ LET t == thread[Of(w)] IN
       IF t.next \in Pending
       THEN Enter(w, [at |-> StageOf[t.next], case |-> Of(w), state |-> t.state,
                      human |-> IF t.next = "decide" THEN run[w].human ELSE None])
       ELSE Leave(w)
  /\ UNCHANGED <<storeVars, now, notices, workerVars, thread>>
=============================================================================

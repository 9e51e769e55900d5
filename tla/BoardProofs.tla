------------------------------ MODULE BoardProofs ------------------------------
(***************************************************************************)
(* Proofs about the review board, for any number of cases, threads,        *)
(* specialists and crashes, and any carrier, agent and customer next to    *)
(* it: what the board approves by itself was not opposed, and it does to   *)
(* a case what the lifecycle allows; with one request to it at a time, it  *)
(* acts on the advice it recorded; and, with any, what lets it advise on a *)
(* case again.                                                             *)
(***************************************************************************)
EXTENDS BoardHistory, BasicProofs, DocumentProofs, FiniteSetTheorems, TLAPS

-----------------------------------------------------------------------------
(* The rules.                                                              *)

\* The reducer keeps votes counts.
LEMMA GatheredVotes ==
  ASSUME NEW v \in Votes, NEW panel \in Panels(BoardSize)
  PROVE  Gathered(v, panel) \in Votes
  BY BoardSizeAssumption DEF Gathered, Votes, Panels

-----------------------------------------------------------------------------
(* Steps.                                                                  *)

\* A worker's run becomes another one that is in order.
LEMMA MoveKeeps ==
  ASSUME BoardInv, NEW w \in Workers, NEW r, RunOK(r),
         run' = [run EXCEPT ![w] = r],
         thread' \in [Cases -> Checkpoint]
  PROVE  BoardInv'
<1>1. run' \in [Workers -> Run]
  BY DEF BoardInv, RunOK
<1>2. ASSUME NEW x \in Workers
      PROVE  RunOK(run'[x])
  BY DEF BoardInv
<1>3. \A x \in Workers : RunOK(run'[x])
  BY <1>2
<1> QED
  BY <1>1, <1>3 DEF BoardInv, RunOK, MayDecide

\* A run that ends leaves the runs of the others in order.
LEMMA LeaveKeeps ==
  ASSUME BoardInv, NEW w \in Workers, Leave(w), UNCHANGED thread
  PROVE  BoardInv'
<1>1. RunOK(NoRun)
  BY DEF RunOK, NoRun, Run, Stage, State, NoState, Votes, NoVotes
<1> QED
  BY <1>1, MoveKeeps DEF Leave, BoardInv

\* A worker goes on in its run to a stage where nothing is applied.
LEMMA ProceedKeeps ==
  ASSUME BoardInv, NEW w \in Workers, run[w].at # "off",
         NEW stage \in Stage, stage = "by_board" => MayDecide(run[w]),
         Proceed(w, stage),
         thread' \in [Cases -> Checkpoint]
  PROVE  BoardInv'
<1> DEFINE r == [run[w] EXCEPT !.at = stage]
<1>1. run' = [run EXCEPT ![w] = r]
  BY DEF Proceed, BoardInv
<1>2. /\ run[w] \in Run /\ run[w].case \in Cases
  BY DEF BoardInv, RunOK
<1>3. r \in Run /\ r.case = run[w].case /\ r.state = run[w].state /\ r.at = stage
  BY <1>2 DEF Run
<1>4. RunOK(r)
  BY <1>2, <1>3 DEF RunOK, MayDecide
<1> QED
  BY <1>1, <1>4, MoveKeeps

\* A checkpoint keeps to its type.
LEMMA WriteKeeps ==
  ASSUME BoardInv, NEW c, NEW next \in Pending \cup {"absent", "end"},
         NEW state \in State, Write(c, next, state)
  PROVE  thread' \in [Cases -> Checkpoint]
  BY DEF BoardInv, Write, Checkpoint

\* A run that begins or resumes has nothing to apply yet.
LEMMA ArrivalKeeps ==
  ASSUME BoardInv, NEW w \in Workers, Arrival(w)
  PROVE  BoardInv'
<1>1. ASSUME NEW c \in Cases, NEW auto \in BOOLEAN, ReviewCase(w, c, auto)
      PROVE  BoardInv'
  <2> DEFINE r == [NoRun EXCEPT !.at = "peek", !.case = c, !.state.auto = auto]
  <2>1. RunOK(r)
    BY DEF RunOK, NoRun, Run, Stage, State, NoState, Votes, NoVotes
  <2> QED
    BY <1>1, <2>1, MoveKeeps DEF ReviewCase, Enter, BoardInv
<1>2. ASSUME NEW c \in Cases, NEW answer \in Answers, ResumeReview(w, c, answer)
      PROVE  BoardInv'
  <2> DEFINE r == [NoRun EXCEPT !.at = "load", !.case = c, !.human = answer]
  <2>1. RunOK(r)
    BY DEF RunOK, NoRun, Run, Stage, State, NoState, Votes, NoVotes
  <2> QED
    BY <1>2, <2>1, MoveKeeps DEF ResumeReview, Enter, BoardInv
<1>3. ASSUME UNCHANGED boardVars
      PROVE  BoardInv'
  BY <1>3 DEF boardVars, BoardInv, RunOK, MayDecide
<1> QED
  BY <1>1, <1>2, <1>3 DEF Arrival, Finalize

\* The board and the human decide: where the board applies its verdict, the
\* rules have just let it.
LEMMA DecideKeeps ==
  ASSUME BoardInv, NEW w \in Workers, Decide(w)
  PROVE  BoardInv'
<1>1. run[w].at # "off" /\ thread' = thread /\ thread' \in [Cases -> Checkpoint]
  BY DEF Decide, BoardInv
<1>2. CASE Leave(w)
  BY <1>1, <1>2, LeaveKeeps
<1>3. CASE AppliesItself(w) /\ Proceed(w, "by_board")
  BY <1>1, <1>3, ProceedKeeps DEF AppliesItself, MayDecide, Stage
<1>4. CASE Proceed(w, "by_human")
  BY <1>1, <1>4, ProceedKeeps DEF Stage
<1> QED
  BY <1>2, <1>3, <1>4 DEF Decide, Apply

\* So does one that goes on: no vote changes between the rules and the decision.
LEMMA ProgressKeeps ==
  ASSUME BoardInv, NEW w \in Workers, Progress(w)
  PROVE  BoardInv'
<1> DEFINE s == run[w].state
<1>0. /\ run[w] \in Run /\ s \in State /\ s.votes \in Votes
      /\ run[w].at # "off" => Of(w) \in Cases
  BY DEF BoardInv, RunOK, Run, State, Of
<1>1. CASE Peek(w)
  <2>1. thread' \in [Cases -> Checkpoint] /\ UNCHANGED thread /\ run[w].at # "off"
    BY <1>1 DEF Peek, BoardInv
  <2>2. thread[Of(w)].next \in Pending \cup {"absent", "end"}
    BY <1>0, <2>1 DEF BoardInv, Checkpoint
  <2>3. Leave(w) \/ Proceed(w, "clear") \/ Proceed(w, "invoke")
    BY <1>1, <2>2 DEF Peek
  <2> QED
    BY <2>1, <2>3, LeaveKeeps, ProceedKeeps DEF Stage
<1>2. CASE Clear(w)
  <2>1. thread' \in [Cases -> Checkpoint]
    BY <1>2 DEF Clear, BoardInv, Checkpoint, NoThread, NoState, State, Votes, NoVotes
  <2> QED
    BY <1>2, <2>1, ProceedKeeps DEF Clear, Stage
<1>3. CASE Invoke(w)
  <2> DEFINE state == [thread[Of(w)].state EXCEPT !.auto = run[w].state.auto]
             r == [run[w] EXCEPT !.at = "specialists", !.state = state]
  <2>1. thread[Of(w)].state \in State
    BY <1>0, <1>3 DEF Invoke, BoardInv, Checkpoint
  <2>2. state \in State
    BY <1>0, <2>1 DEF State
  <2>3. thread' \in [Cases -> Checkpoint]
    BY <1>3, <2>2, WriteKeeps DEF Invoke, Pending
  <2>4. r.at = "specialists" /\ r.case = Of(w) /\ r \in Run
    BY <1>0, <2>2 DEF Run, Stage, Of
  <2>5. RunOK(r)
    BY <1>0, <1>3, <2>4 DEF RunOK, Invoke
  <2>6. run' = [run EXCEPT ![w] = r]
    BY <1>3 DEF Invoke, Enter
  <2> QED
    BY <2>3, <2>5, <2>6, MoveKeeps
<1>4. CASE Consult(w)
  <2>1. PICK panel \in Panels(BoardSize) :
          LET state == [run[w].state EXCEPT !.votes = Gathered(@, panel)] IN
            /\ Write(Of(w), "synthesize", state)
            /\ Enter(w, [run[w] EXCEPT !.at = "read", !.state = state])
    BY <1>4 DEF Consult
  <2> DEFINE state == [run[w].state EXCEPT !.votes = Gathered(@, panel)]
             r == [run[w] EXCEPT !.at = "read", !.state = state]
  <2>2. state \in State
    BY <1>0, GatheredVotes DEF State
  <2>3. thread' \in [Cases -> Checkpoint]
    BY <2>1, <2>2, WriteKeeps DEF Pending
  <2>4. r.at = "read" /\ r.case = Of(w) /\ r \in Run
    BY <1>0, <2>2 DEF Run, Stage, Of
  <2>5. RunOK(r)
    BY <1>0, <1>4, <2>4 DEF RunOK, Consult
  <2>6. run' = [run EXCEPT ![w] = r]
    BY <2>1 DEF Enter
  <2> QED
    BY <2>3, <2>5, <2>6, MoveKeeps
<1>5. CASE ReadCase(w)
  BY <1>5, ProceedKeeps DEF ReadCase, Stage, BoardInv
<1>6. CASE RecordAdvice(w)
  <2>1. UNCHANGED thread /\ run[w].at = "save"
    BY <1>6 DEF RecordAdvice
  <2>2. ASSUME NEW v \in Recommendation,
               Enter(w, [run[w] EXCEPT !.at = "checkpoint", !.state.verdict = v])
        PROVE  BoardInv'
    <3> DEFINE r == [run[w] EXCEPT !.at = "checkpoint", !.state.verdict = v]
    <3>1. r.at = "checkpoint" /\ r.case = Of(w) /\ r \in Run
      BY <1>0 DEF Run, Stage, State, Of
    <3>2. RunOK(r)
      BY <1>0, <2>1, <3>1 DEF RunOK
    <3> QED
      BY <2>1, <2>2, <3>2, MoveKeeps DEF Enter, BoardInv
  <2> QED
    BY <1>6, <2>1, <2>2, LeaveKeeps DEF RecordAdvice, LeadDecisions, Recommendation
<1>7. CASE CheckpointVerdict(w)
  <2>1. thread' \in [Cases -> Checkpoint]
    BY <1>0, <1>7, WriteKeeps DEF CheckpointVerdict, Pending
  <2> QED
    BY <1>7, <2>1, ProceedKeeps DEF CheckpointVerdict, Stage
<1>8. CASE Decide(w)
  BY <1>8, DecideKeeps
<1>9. CASE InReview(w)
  <2>1. /\ UNCHANGED thread /\ run[w].at # "off"
        /\ UNCHANGED run \/ Proceed(w, "finish") \/ Leave(w)
    BY <1>9 DEF InReview
  <2>2. thread' \in [Cases -> Checkpoint]
    BY <2>1 DEF BoardInv
  <2>3. CASE UNCHANGED run
    BY <2>1, <2>3 DEF BoardInv, RunOK, MayDecide
  <2> QED
    BY <2>1, <2>2, <2>3, LeaveKeeps, ProceedKeeps DEF Stage
<1>10. CASE FinishThread(w)
  <2>1. thread' \in [Cases -> Checkpoint]
    BY <1>0, <1>10, WriteKeeps DEF FinishThread
  <2>2. RunOK(NoRun)
    BY DEF RunOK, NoRun, Run, Stage, State, NoState, Votes, NoVotes
  <2> QED
    BY <1>10, <2>1, <2>2, MoveKeeps DEF FinishThread, Leave
<1>11. CASE Load(w)
  <2>1. UNCHANGED thread /\ run[w].at = "load"
    BY <1>11 DEF Load
  <2>2. CASE thread[Of(w)].next \in Pending
    <3> DEFINE t == thread[Of(w)]
               r == [at |-> StageOf[t.next], case |-> Of(w), state |-> t.state,
                     human |-> IF t.next = "decide" THEN run[w].human ELSE None]
    <3>1. t.state \in State
      BY <1>0, <2>1 DEF BoardInv, Checkpoint
    <3>2. StageOf[t.next] \in {"specialists", "read", "decide"}
      BY <2>2 DEF Pending, StageOf
    <3>3. run[w].human \in Answers \cup {None}
      BY <1>0 DEF Run
    <3>4. r \in Run /\ r.case \in Cases /\ r.at # "by_board"
      BY <1>0, <2>1, <3>1, <3>2, <3>3 DEF Run, Stage
    <3>5. RunOK(r)
      BY <3>4 DEF RunOK
    <3>6. run' = [run EXCEPT ![w] = r]
      BY <1>11, <2>2 DEF Load, Enter
    <3> QED
      BY <2>1, <3>5, <3>6, MoveKeeps DEF BoardInv
  <2>3. CASE thread[Of(w)].next \notin Pending
    BY <1>11, <2>1, <2>3, LeaveKeeps DEF Load
  <2> QED
    BY <2>2, <2>3
<1>12. CASE UNCHANGED boardVars
  BY <1>12 DEF boardVars, BoardInv, RunOK, MayDecide
<1> QED
  BY <1>1, <1>2, <1>3, <1>4, <1>5, <1>6, <1>7, <1>8, <1>9, <1>10, <1>11, <1>12
     DEF Progress

-----------------------------------------------------------------------------
\* No run is in hand at first.
LEMMA InitOK == Init => BoardInv
<1> SUFFICES ASSUME Init PROVE BoardInv
  OBVIOUS
<1>1. thread \in [Cases -> Checkpoint]
  BY DEF Init, BoardInit, Checkpoint, NoThread, State, NoState, Votes, NoVotes
<1>2. RunOK(NoRun)
  BY DEF RunOK, NoRun, Run, Stage, State, NoState, Votes, NoVotes
<1> QED
  BY <1>1, <1>2 DEF Init, BoardInit, BoardInv, RunOK

\* Every step leaves what runs carry in order.
LEMMA NextOK == BoardInv /\ [Next]_vars => BoardInv'
<1> SUFFICES ASSUME BoardInv, [Next]_vars PROVE BoardInv'
  OBVIOUS
<1>1. ASSUME NEW w \in Workers, Arrival(w) \/ Progress(w)
      PROVE  BoardInv'
  BY <1>1, ArrivalKeeps, ProgressKeeps
<1>2. CASE UNCHANGED boardVars
  BY <1>2 DEF boardVars, BoardInv, RunOK, MayDecide
<1>3. ASSUME NEW c \in Cases, FileCase(c)
      PROVE  BoardInv'
  BY <1>2, <1>3 DEF FileCase
<1>4. CASE Crash
  <2>1. RunOK(NoRun)
    BY DEF RunOK, NoRun, Run, Stage, State, NoState, Votes, NoVotes
  <2> QED
    BY <1>4, <2>1 DEF Crash, BoardInv, RunOK
<1>5. CASE UNCHANGED vars
  BY <1>2, <1>5 DEF vars, boardVars
<1> QED
  BY <1>1, <1>3, <1>4, <1>5 DEF Next

\* Every run of the graph is in order.
THEOREM RunsInOrder == Spec => []BoardInv
  BY InitOK, NextOK, PTL DEF Spec

\* With a threshold above one half, as the default of 0.75 is, no case is
\* approved without a human against a specialist's rejection, or on
\* abstentions alone, whatever ran on its thread, crashed, or was resumed.
THEOREM UnopposedApprovals ==
  ASSUME Threshold > 50
  PROVE  Spec => []AutoApprovalsUnopposed
<1>1. BoardInv => AutoApprovalsUnopposed
  <2> SUFFICES ASSUME BoardInv, NEW w \in Workers, run[w].at = "by_board"
               PROVE  /\ run[w].state.votes["reject"] = 0
                      /\ run[w].state.votes["approve"] > 0
    BY DEF AutoApprovalsUnopposed
  <2>1. RunOK(run[w])
    BY DEF BoardInv
  <2>2. run[w].state.votes \in Votes /\ MayDecide(run[w])
    BY <2>1 DEF RunOK, Run, State
  <2>3. Threshold \in Nat
    BY ThresholdAssumption
  <2> QED
    BY <2>2, <2>3, OnlyUnopposed DEF MayDecide
<1> QED
  BY <1>1, RunsInOrder, PTL

-----------------------------------------------------------------------------
(* Advice in a trail.                                                      *)

\* The events that are advice, which no handler but synthesize adds.
LEMMA AdviceEvents ==
  /\ Range(VerdictEvent) = {"verdict_approve", "verdict_reject", "verdict_escalate"}
  /\ Range(VerdictEvent) \subseteq EventName
  /\ \A s \in ReturnStatus \cup {"customer_notified"} : s \notin Range(VerdictEvent)
<1>1. Range(VerdictEvent) = {"verdict_approve", "verdict_reject", "verdict_escalate"}
  BY DEF Range, VerdictEvent
<1>2. Range(VerdictEvent) \subseteq EventName
  BY DEF Range, VerdictEvent, EventName
<1> QED
  BY <1>1, <1>2 DEF ReturnStatus

\* add_event adds the place after the last, if what it adds is advice.
LEMMA AdviceAdded ==
  ASSUME NEW d \in Document, NEW e \in EventName, NEW t \in Nat
  PROVE  /\ e \in Range(VerdictEvent) =>
              Advice(AddEvent(d, e, t)) = Advice(d) \cup {Len(d.events) + 1}
         /\ e \notin Range(VerdictEvent) => Advice(AddEvent(d, e, t)) = Advice(d)
         /\ AddEvent(d, e, t).events[Len(d.events) + 1].event = e
<1> DEFINE ev == [event |-> e, at |-> t]
           a == AddEvent(d, e, t)
<1>1. d.events \in Seq(Event) /\ Len(d.events) \in Nat /\ DOMAIN d.events = 1..Len(d.events)
  BY DEF Document
<1>2. a.events = Append(d.events, ev)
  BY DEF AddEvent, Document
<1>3. /\ DOMAIN a.events = DOMAIN d.events \cup {Len(d.events) + 1}
      /\ \A i \in DOMAIN d.events : a.events[i] = d.events[i]
      /\ a.events[Len(d.events) + 1] = ev
  <2>1. ev \in Event
    BY DEF Event
  <2> HIDE DEF ev, a
  <2> QED
    BY <1>1, <1>2, <2>1
<1>4. ev.event = e
  OBVIOUS
<1> HIDE DEF ev, a
<1> QED
  BY <1>1, <1>3, <1>4 DEF Advice, a

\* A move of the case is no advice.
LEMMA MovesAreNoAdvice ==
  ASSUME NEW d \in Document, NEW s \in ReturnStatus, now \in Nat
  PROVE  Advice(Transitioned(d, s)) = Advice(d)
<1>1. s \in EventName /\ s \notin Range(VerdictEvent)
  BY AdviceEvents DEF EventName
<1>2. Transitioned(d, s).events = AddEvent(d, s, now).events
  <2>1. AddEvent(d, s, now) \in Document
    BY <1>1, AddEventFacts
  <2> QED
    BY <2>1 DEF Transitioned, Document
<1> QED
  BY <1>1, <1>2, AdviceAdded DEF Advice

\* The places of advice are places of the trail.
LEMMA AdviceInTrail ==
  ASSUME NEW d \in Document
  PROVE  /\ Len(d.events) \in Nat /\ Advice(d) \subseteq 1..Len(d.events)
         /\ IsFiniteSet(Advice(d))
<1>1. Len(d.events) \in Nat /\ Advice(d) \subseteq 1..Len(d.events)
  BY DEF Advice, Document
<1>2. IsFiniteSet(1..Len(d.events))
  BY <1>1, FS_Interval
<1> QED
  BY <1>1, <1>2, FS_Subset

-----------------------------------------------------------------------------
(* What saves do to rows.                                                  *)

\* The document a save writes, over the row of the version it was read at.
Overwrites(d) ==
  /\ d.id \in Cases /\ d.req \in Requests
  /\ d.status \in Durable /\ Unlabelled(d)
  /\ Exists(d.id) /\ d.version = cases[d.id].version
  /\ Continues("save", cases[d.id], d)
  /\ Put(d)

\* A step leaves the rows alone, or saves one case, or files one.
RowStep ==
  \/ cases' = cases
  \/ \E c \in Cases : FileCase(c)
  \/ \E d \in Document : Overwrites(d)

\* What the row of c may become.
RowMoves(c) ==
  /\ RowOK(c)'
  /\ cases[c].version \in Nat /\ cases'[c].version \in Nat
  /\ cases'[c].version >= cases[c].version
  /\ cases'[c].version = cases[c].version => cases'[c] = cases[c]
  /\ IsPrefix(cases[c].events, cases'[c].events)
  /\ \/ cases'[c].status = cases[c].status
     \/ cases[c].status = "absent" /\ cases'[c].status = "manual_review"
     \/ <<cases[c].status, cases'[c].status>> \in DurableMoves

\* The case create_return files.
LEMMA EscalatedFacts ==
  ASSUME NEW c \in Cases, NEW r \in Requests, now \in Nat
  PROVE  LET d == Escalated(c, r) IN
           /\ d \in Document /\ d.id = c /\ d.req = r /\ d.version = 0
           /\ d.status = "manual_review" /\ d.label = None
<1> DEFINE a == [NoDocument EXCEPT !.id = c, !.req = r, !.status = "requested"]
           b == AddEvent(a, "return_requested", now)
<1>1. /\ a \in Document /\ a.id = c /\ a.req = r /\ a.version = 0 /\ a.label = None
  BY NoDocumentFacts DEF NoDocument, Document, ReturnStatus
<1>2. b \in Document /\ Amends(b, a)
  <2>1. "return_requested" \in EventName
    BY DEF EventName
  <2> HIDE DEF a
  <2> QED
    BY <1>1, <2>1, AddEventFacts
<1> HIDE DEF a, b
<1>3. /\ Transitioned(b, "manual_review") \in Document
      /\ Transitioned(b, "manual_review").status = "manual_review"
      /\ Amends(Transitioned(b, "manual_review"), b)
  BY <1>2, TransitionedFacts DEF ReturnStatus
<1> QED
  BY <1>1, <1>2, <1>3 DEF Escalated, Amends, a, b

\* A step of the rows leaves each as it was, or takes it where the lifecycle allows.
LEMMA RowsMove ==
  ASSUME DeskInv, RowStep
  PROVE  cases' \in [Cases -> Document] /\ \A c \in Cases : RowMoves(c)
<1>1. /\ cases \in [Cases -> Document] /\ now \in Nat
      /\ \A c \in Cases : RowOK(c)
      /\ \A c \in Cases : cases[c].version \in Nat /\ cases[c].events \in Seq(Event)
  BY MaxNowAssumption DEF DeskInv, TypeOK, StoreTypeOK, StepTypeOK, Document
<1>2. ASSUME NEW c \in Cases, cases'[c] = cases[c]
      PROVE  RowMoves(c)
  <2>1. RowOK(c)'
    BY <1>1, <1>2 DEF RowOK, Exists
  <2>2. IsPrefix(cases[c].events, cases[c].events)
    BY <1>1, PrefixReflexive
  <2> QED
    BY <1>1, <1>2, <2>1, <2>2 DEF RowMoves
<1>3. ASSUME NEW c \in Cases, FileCase(c)
      PROVE  cases' \in [Cases -> Document] /\ \A x \in Cases : RowMoves(x)
  <2>1. PICK r \in Requests : Put(Escalated(c, r))
    BY <1>3 DEF FileCase
  <2> DEFINE d == Escalated(c, r)
  <2>2. /\ d \in Document /\ d.id = c /\ d.req = r /\ d.version = 0
        /\ d.status = "manual_review" /\ d.label = None
    BY <1>1, EscalatedFacts
  <2> HIDE DEF d
  <2> DEFINE n == Bumped(d)
  <2>3. /\ n \in Document /\ n.version = 1 /\ n.id = c /\ n.req = r
        /\ n.status = "manual_review" /\ n.label = None
    BY <2>2, BumpedFacts
  <2> HIDE DEF n
  <2>4. cases' = [cases EXCEPT ![c] = n]
    BY <2>1, <2>2 DEF Put, d, n
  <2>5. cases[c] = NoDocument
    BY <1>1, <1>3 DEF FileCase, RowOK
  <2>6. RowMoves(c)
    <3>1. cases'[c] = n
      BY <1>1, <2>4
    <3>2. RowOK(c)'
      BY <2>3, <3>1 DEF RowOK, Exists, Unlabelled, Durable, ReturnStatus, InMemoryOnly
    <3>3. n.events \in Seq(Event)
      BY <2>3 DEF Document
    <3>4. IsPrefix(cases[c].events, n.events)
      BY <2>5, <3>3, PrefixEmpty DEF NoDocument
    <3>5. cases[c].version = 0 /\ cases[c].status = "absent"
      BY <2>5 DEF NoDocument
    <3> QED
      BY <2>3, <3>1, <3>2, <3>4, <3>5 DEF RowMoves
  <2>7. \A x \in Cases \ {c} : cases'[x] = cases[x]
    BY <1>1, <2>4
  <2> QED
    BY <1>1, <1>2, <2>3, <2>4, <2>6, <2>7
<1>4. ASSUME NEW d \in Document, Overwrites(d)
      PROVE  cases' \in [Cases -> Document] /\ \A x \in Cases : RowMoves(x)
  <2> DEFINE n == Bumped(d)
             c == d.id
  <2>1. c \in Cases /\ d.version = cases[c].version /\ d.events \in Seq(Event)
    BY <1>4 DEF Overwrites, Document
  <2>2. /\ n \in Document /\ n.version = d.version + 1 /\ n.id = c /\ n.req = d.req
        /\ n.status = d.status /\ n.label = d.label /\ n.events = d.events
    BY BumpedFacts
  <2>3. cases' = [cases EXCEPT ![c] = n]
    BY <1>4 DEF Overwrites, Put
  <2> HIDE DEF n
  <2>4. RowMoves(c)
    <3>1. cases'[c] = n
      BY <1>1, <2>1, <2>3
    <3>2. n.version > cases[c].version
      BY <1>1, <2>1, <2>2
    <3>3. RowOK(c)'
      BY <1>1, <1>4, <2>1, <2>2, <3>1, <3>2 DEF RowOK, Exists, Overwrites, Unlabelled
    <3>4. IsPrefix(cases[c].events, n.events)
      BY <1>4, <2>2 DEF Overwrites, Continues
    <3>5. n.status = cases[c].status \/ <<cases[c].status, n.status>> \in DurableMoves
      BY <1>4, <2>2 DEF Overwrites, Continues, MayBecome
    <3>6. n.version \in Nat
      BY <2>2 DEF Document
    <3> QED
      BY <1>1, <2>1, <3>1, <3>2, <3>3, <3>4, <3>5, <3>6 DEF RowMoves
  <2>5. \A x \in Cases \ {c} : cases'[x] = cases[x]
    BY <1>1, <2>1, <2>3
  <2> QED
    BY <1>1, <1>2, <2>1, <2>2, <2>3, <2>4, <2>5
<1>5. CASE cases' = cases
  BY <1>1, <1>2, <1>5
<1> QED
  BY <1>3, <1>4, <1>5 DEF RowStep

\* Cases stay, and decided ones stay decided.
LEMMA CasesStay ==
  ASSUME DeskInv, NEW c \in Cases, RowMoves(c)
  PROVE  /\ Exists(c) => Exists(c)'
         /\ Decided(c) => Decided(c)'
<1>1. Exists(c) => Exists(c)'
  BY DEF RowMoves, Exists
<1>2. ASSUME <<cases[c].status, cases'[c].status>> \in DurableMoves
      PROVE  cases'[c].status \in Durable /\ cases'[c].status # "manual_review"
  BY <1>2, LedgerMoves
<1>3. "absent" \notin Durable
  BY DEF Durable, ReturnStatus
<1> QED
  BY <1>1, <1>2, <1>3 DEF RowMoves, Decided

-----------------------------------------------------------------------------
(* What a step of one worker leaves to the others.                         *)

\* A worker the step is not of keeps its part of the invariant: a save makes
\* its copy older than the row.
LEMMA OthersAsBefore ==
  ASSUME DeskInv, RowStep, NEW v \in Workers,
         op'[v] = op[v], pc'[v] = pc[v], doc'[v] = doc[v], run'[v] = run[v]
  PROVE  StageOK(v)' /\ CopyOK(v)' /\ ReadOK(v)'
<1>1. \A c \in Cases : RowMoves(c)
  BY RowsMove
<1>2. \A c \in Cases : (Exists(c) => Exists(c)') /\ (Decided(c) => Decided(c)')
  BY <1>1, CasesStay
<1>3. StageOK(v) /\ CopyOK(v) /\ ReadOK(v)
  BY DEF DeskInv
<1>4. StageOK(v)'
  <2>1. Of(v)' = Of(v)
    BY DEF Of
  <2>2. run[v].at = "finish" => run[v].at # "off"
    OBVIOUS
  <2> QED
    BY <1>2, <1>3, <2>1, <2>2 DEF StageOK
<1>5. ASSUME NEW c \in Cases, NEW n \in 1..cases[c].version
      PROVE  /\ n \in 1..cases'[c].version
             /\ n = cases'[c].version => n = cases[c].version /\ cases'[c] = cases[c]
  <2>1. /\ cases[c].version \in Nat /\ cases'[c].version \in Nat
        /\ cases'[c].version >= cases[c].version
        /\ cases'[c].version = cases[c].version => cases'[c] = cases[c]
    BY <1>1 DEF RowMoves
  <2> QED
    BY <2>1, VersionGap
<1>6. CopyOK(v)'
  <2> SUFFICES ASSUME pc[v] # "idle"
               PROVE  CopyOK(v)'
    BY DEF CopyOK
  <2>1. /\ doc[v].id \in Cases /\ doc[v].version \in 1..cases[doc[v].id].version
        /\ doc[v].version = cases[doc[v].id].version =>
             Continues(pc[v], cases[doc[v].id], doc[v]) /\ Advice(doc[v]) = Advice(cases[doc[v].id])
    BY <1>3 DEF CopyOK
  <2>2. /\ doc[v].version \in 1..cases'[doc[v].id].version
        /\ doc[v].version = cases'[doc[v].id].version =>
             doc[v].version = cases[doc[v].id].version /\ cases'[doc[v].id] = cases[doc[v].id]
    BY <1>5, <2>1
  <2>3. pc[v] \in {"notify", "note"} => Decided(doc[v].id)'
    BY <1>2, <1>3, <2>1 DEF CopyOK
  <2>4. /\ doc[v].req \in Requests /\ Unlabelled(doc[v])
        /\ doc[v].status \in StatusAt(pc[v]) \ {"manual_review"}
    BY <1>3 DEF CopyOK
  <2> QED
    BY <2>1, <2>2, <2>3, <2>4 DEF CopyOK, Decided
<1>7. ReadOK(v)'
  <2> SUFFICES ASSUME run[v].at = "save"
               PROVE  ReadOK(v)'
    BY DEF ReadOK
  <2>1. Of(v) \in Cases
    BY <1>3 DEF StageOK
  <2>2. /\ doc[v].id = Of(v) /\ doc[v].version \in 1..cases[Of(v)].version
        /\ doc[v].version = cases[Of(v)].version => doc[v] = cases[Of(v)]
    BY <1>3 DEF ReadOK
  <2>3. /\ doc[v].version \in 1..cases'[Of(v)].version
        /\ doc[v].version = cases'[Of(v)].version =>
             doc[v].version = cases[Of(v)].version /\ cases'[Of(v)] = cases[Of(v)]
    BY <1>5, <2>1, <2>2
  <2>4. Of(v)' = Of(v)
    BY DEF Of
  <2> QED
    BY <2>2, <2>3, <2>4 DEF ReadOK
<1> QED
  BY <1>4, <1>6, <1>7

\* A thread that stands where it stood is still in order.
LEMMA ThreadsAsBefore ==
  ASSUME DeskInv, RowStep, NEW c \in Cases, thread'[c].next = thread[c].next
  PROVE  ThreadOK(c)'
<1>1. (Exists(c) => Exists(c)') /\ (Decided(c) => Decided(c)')
  BY RowsMove, CasesStay
<1> QED
  BY <1>1 DEF DeskInv, ThreadOK

\* The step changes the run of no worker but w.
OnlyRunOf(w) == \A v \in Workers \ {w} : run'[v] = run[v]

\* So a step of w keeps the invariant if it keeps w's part and the threads.
LEMMA OwnDeskPart ==
  ASSUME DeskInv, BoardInv', NEW w \in Workers, RowStep, OnlyLocalsOf(w), OnlyRunOf(w),
         LocalTypeOK', UNCHANGED <<orders, keys, outbox, now, crashes>>,
         notices' \subseteq (Cases \X ReturnStatus),
         \A c \in Cases : ThreadOK(c)',
         StageOK(w)', CopyOK(w)', ReadOK(w)'
  PROVE  DeskInv'
<1>1. cases' \in [Cases -> Document] /\ \A c \in Cases : RowOK(c)'
  BY RowsMove DEF RowMoves
<1>2. TypeOK'
  BY <1>1 DEF DeskInv, TypeOK, StoreTypeOK, StepTypeOK, BoardTypeOK, BoardInv
<1>3. ASSUME NEW v \in Workers
      PROVE  StageOK(v)' /\ CopyOK(v)' /\ ReadOK(v)'
  <2>1. CASE v # w
    <3>1. op'[v] = op[v] /\ pc'[v] = pc[v] /\ doc'[v] = doc[v] /\ run'[v] = run[v]
      BY <2>1 DEF OnlyLocalsOf, OnlyRunOf
    <3> QED
      BY <3>1, OthersAsBefore
  <2> QED
    BY <2>1
<1> QED
  BY <1>1, <1>2, <1>3 DEF DeskInv

-----------------------------------------------------------------------------
(* Steps that only move a run.                                             *)

\* A worker moves its run, and perhaps the thread, and touches nothing else.
LEMMA RunMoves ==
  ASSUME DeskInv, BoardInv', NEW w \in Workers, pc[w] = "idle", NEW r \in Run,
         run' = [run EXCEPT ![w] = r], r.at \notin Applying \cup {"save"},
         r.at # "off" => w \in Reviewers /\ r.case \in Cases /\ Exists(r.case),
         r.at = "finish" => Decided(r.case),
         \A c \in Cases : ThreadOK(c)',
         UNCHANGED <<storeVars, now, notices, workerVars, crashes>>
  PROVE  DeskInv'
<1>1. run'[w] = r /\ Of(w)' = r.case /\ OnlyRunOf(w)
  BY DEF DeskInv, BoardInv, Of, OnlyRunOf
<1>2. RowStep /\ OnlyLocalsOf(w)
  BY DEF RowStep, OnlyLocalsOf, storeVars, workerVars
<1>3. LocalTypeOK' /\ notices' \subseteq (Cases \X ReturnStatus)
  BY DEF DeskInv, TypeOK, StepTypeOK, LocalTypeOK, workerVars
<1>4. <<op[w], pc[w]>> \in DeskCalls
  BY DEF DeskInv, StageOK
<1>5. StageOK(w)'
  BY <1>1, <1>4 DEF StageOK, workerVars, storeVars, Decided, Exists, Applying
<1>6. CopyOK(w)' /\ ReadOK(w)'
  BY <1>1 DEF CopyOK, ReadOK, workerVars
<1> QED
  BY <1>1, <1>2, <1>3, <1>5, <1>6, OwnDeskPart DEF storeVars

\* The request ends.
LEMMA RunEnds ==
  ASSUME DeskInv, BoardInv', NEW w \in Workers, pc[w] = "idle", Leave(w),
         \A c \in Cases : ThreadOK(c)',
         UNCHANGED <<storeVars, now, notices, workerVars, crashes>>
  PROVE  DeskInv'
<1>1. NoRun \in Run /\ NoRun.at = "off"
  BY DEF NoRun, Run, Stage, State, NoState, Votes, NoVotes
<1> QED
  BY <1>1, RunMoves DEF Leave, Applying

\* The run goes on, on the same case.
LEMMA RunGoesOn ==
  ASSUME DeskInv, BoardInv', NEW w \in Workers, run[w].at \notin Applying \cup {"off"},
         NEW r \in Run, run' = [run EXCEPT ![w] = r], r.case = run[w].case,
         r.at \notin Applying \cup {"save", "off", "finish"},
         \A c \in Cases : ThreadOK(c)',
         UNCHANGED <<storeVars, now, notices, workerVars, crashes>>
  PROVE  DeskInv'
<1>1. pc[w] = "idle" /\ w \in Reviewers /\ Of(w) \in Cases /\ Exists(Of(w))
  BY DEF DeskInv, StageOK
<1> QED
  BY <1>1, RunMoves DEF Of

\* The calls of the checkpointer and of the specialists, and the arrival of a
\* request to the board.
LEMMA CheckpointerKeeps ==
  ASSUME DeskInv, BoardInv', NEW w \in Workers, UNCHANGED crashes,
         \/ Peek(w) \/ Clear(w) \/ Invoke(w) \/ Consult(w) \/ CheckpointVerdict(w)
         \/ FinishThread(w) \/ Load(w)
  PROVE  DeskInv'
<1>1. /\ StageOK(w) /\ run[w] \in Run /\ run'[w] \in Run
      /\ thread \in [Cases -> Checkpoint] /\ run \in [Workers -> Run]
      /\ run[w].at \notin Applying \cup {"off"}
      /\ UNCHANGED <<storeVars, now, notices, workerVars, crashes>>
  BY DEF DeskInv, BoardInv, Peek, Clear, Invoke, Consult, CheckpointVerdict, FinishThread,
     Load, Applying
<1>2. pc[w] = "idle" /\ w \in Reviewers /\ Of(w) \in Cases /\ Exists(Of(w))
  BY <1>1 DEF StageOK
<1>3. RowStep
  BY <1>1 DEF RowStep, storeVars
<1>4. thread' = thread => \A c \in Cases : ThreadOK(c)'
  BY <1>3, ThreadsAsBefore
<1>5. ASSUME NEW next \in Pending \cup {"absent", "end"}, NEW s,
             Write(Of(w), next, s),
             next = "end" => Decided(Of(w))
      PROVE  \A c \in Cases : ThreadOK(c)'
  <2> TAKE c \in Cases
  <2>1. CASE c = Of(w)
    <3>1. thread'[c].next = next
      BY <1>1, <1>5, <2>1 DEF Write
    <3> QED
      BY <1>1, <1>2, <1>5, <2>1, <3>1 DEF ThreadOK, Exists, Decided, storeVars
  <2>2. CASE c # Of(w)
    <3>1. thread'[c] = thread[c]
      BY <1>1, <1>5, <2>2 DEF Write
    <3> QED
      BY <1>3, <3>1, ThreadsAsBefore
  <2> QED
    BY <2>1, <2>2
<1>6. ASSUME NEW r, run' = [run EXCEPT ![w] = r]
      PROVE  r \in Run
  BY <1>1, <1>6
<1>7. ASSUME NEW stage, Proceed(w, stage), stage \notin Applying \cup {"save", "off", "finish"},
             \A c \in Cases : ThreadOK(c)'
      PROVE  DeskInv'
  <2> DEFINE r == [run[w] EXCEPT !.at = stage]
  <2>1. run' = [run EXCEPT ![w] = r]
    BY <1>1, <1>7 DEF Proceed
  <2>2. r.at = stage /\ r.case = run[w].case
    BY <1>1 DEF Run
  <2> HIDE DEF r
  <2> QED
    BY <1>1, <1>6, <1>7, <2>1, <2>2, RunGoesOn
<1>8. CASE Peek(w)
  <2>1. thread' = thread
    BY <1>8 DEF Peek
  <2>2. thread[Of(w)].next \in Pending \cup {"absent", "end"}
    BY <1>1, <1>2 DEF Checkpoint
  <2>3. Leave(w) \/ Proceed(w, "clear") \/ Proceed(w, "invoke")
    BY <1>8, <2>2 DEF Peek
  <2> QED
    BY <1>1, <1>2, <1>4, <1>7, <2>1, <2>3, RunEnds DEF Applying
<1>9. CASE Clear(w)
  <2>0. Write(Of(w), "absent", NoState)
    BY <1>9 DEF Clear, NoThread, Write
  <2>1. \A c \in Cases : ThreadOK(c)'
    BY <1>5, <2>0
  <2> QED
    BY <1>7, <1>9, <2>1 DEF Clear, Applying
<1>10. CASE Invoke(w)
  <2> DEFINE state == [thread[Of(w)].state EXCEPT !.auto = run[w].state.auto]
             r == [run[w] EXCEPT !.at = "specialists", !.state = state]
  <2>1. \A c \in Cases : ThreadOK(c)'
    BY <1>5, <1>10 DEF Invoke, Pending
  <2>2. run' = [run EXCEPT ![w] = r]
    BY <1>10 DEF Invoke, Enter
  <2>3. r.at = "specialists" /\ r.case = run[w].case
    BY <1>1 DEF Run
  <2> HIDE DEF r
  <2> QED
    BY <1>1, <1>6, <2>1, <2>2, <2>3, RunGoesOn DEF Applying
<1>11. CASE Consult(w)
  <2>1. PICK panel \in Panels(BoardSize) :
          LET state == [run[w].state EXCEPT !.votes = Gathered(@, panel)] IN
            /\ Write(Of(w), "synthesize", state)
            /\ Enter(w, [run[w] EXCEPT !.at = "read", !.state = state])
    BY <1>11 DEF Consult
  <2> DEFINE state == [run[w].state EXCEPT !.votes = Gathered(@, panel)]
             r == [run[w] EXCEPT !.at = "read", !.state = state]
  <2>2. \A c \in Cases : ThreadOK(c)'
    BY <1>5, <2>1 DEF Pending
  <2>3. run' = [run EXCEPT ![w] = r]
    BY <2>1 DEF Enter
  <2>4. r.at = "read" /\ r.case = run[w].case
    BY <1>1 DEF Run
  <2> HIDE DEF r
  <2> QED
    BY <1>1, <1>6, <2>2, <2>3, <2>4, RunGoesOn DEF Applying
<1>12. CASE CheckpointVerdict(w)
  <2>1. \A c \in Cases : ThreadOK(c)'
    BY <1>5, <1>12 DEF CheckpointVerdict, Pending
  <2> QED
    BY <1>7, <1>12, <2>1 DEF CheckpointVerdict, Applying
<1>13. CASE FinishThread(w)
  <2>1. Decided(Of(w))
    BY <1>1, <1>13 DEF FinishThread, StageOK
  <2>2. \A c \in Cases : ThreadOK(c)'
    BY <1>5, <1>13, <2>1 DEF FinishThread
  <2> QED
    BY <1>1, <1>2, <1>13, <2>2, RunEnds DEF FinishThread
<1>14. CASE Load(w)
  <2>1. thread' = thread
    BY <1>14 DEF Load
  <2>2. CASE thread[Of(w)].next \in Pending
    <3> DEFINE t == thread[Of(w)]
               r == [at |-> StageOf[t.next], case |-> Of(w), state |-> t.state,
                     human |-> IF t.next = "decide" THEN run[w].human ELSE None]
    <3>1. run' = [run EXCEPT ![w] = r]
      BY <1>14, <2>2 DEF Load, Enter
    <3>2. r.at \in {"specialists", "read", "decide"} /\ r.case = run[w].case
      BY <2>2 DEF Pending, StageOf, Of
    <3> HIDE DEF r
    <3> QED
      BY <1>1, <1>4, <1>6, <2>1, <3>1, <3>2, RunGoesOn DEF Applying
  <2>3. CASE thread[Of(w)].next \notin Pending
    BY <1>1, <1>2, <1>4, <1>14, <2>1, <2>3, RunEnds DEF Load
  <2> QED
    BY <2>2, <2>3
<1> QED
  BY <1>8, <1>9, <1>10, <1>11, <1>12, <1>13, <1>14

-----------------------------------------------------------------------------
(* Advice, and the handlers of a decision.                                 *)

\* synthesize reads its case.
LEMMA ReadCaseKeeps ==
  ASSUME DeskInv, BoardInv', NEW w \in Workers, ReadCase(w), UNCHANGED crashes
  PROVE  DeskInv'
<1>1. /\ StageOK(w) /\ run[w] \in Run /\ run \in [Workers -> Run] /\ LocalTypeOK
      /\ cases \in [Cases -> Document] /\ notices \subseteq (Cases \X ReturnStatus)
      /\ run[w].at = "read" /\ \A c \in Cases : RowOK(c)
  BY DEF DeskInv, BoardInv, ReadCase, TypeOK, StoreTypeOK, StepTypeOK
<1>2. pc[w] = "idle" /\ w \in Reviewers /\ Of(w) \in Cases /\ Exists(Of(w))
  BY <1>1 DEF StageOK, Applying
<1>3. doc' = [doc EXCEPT ![w] = cases[Of(w)]] /\ run' = [run EXCEPT ![w].at = "save"]
      /\ UNCHANGED <<cases, orders, keys, outbox, now, notices, op, pc, ask, rest, thread>>
  BY DEF ReadCase, Proceed, storeVars
<1>4. /\ doc'[w] = cases[Of(w)] /\ run'[w].at = "save" /\ Of(w)' = Of(w)
      /\ OnlyLocalsOf(w) /\ OnlyRunOf(w)
  BY <1>1, <1>3 DEF OnlyLocalsOf, OnlyRunOf, Of, LocalTypeOK, Run
<1>5. LocalTypeOK'
  BY <1>1, <1>2, <1>3 DEF LocalTypeOK
<1>6. RowStep /\ \A c \in Cases : ThreadOK(c)'
  BY <1>3, ThreadsAsBefore DEF RowStep
<1>7. StageOK(w)'
  BY <1>1, <1>2, <1>3, <1>4 DEF StageOK, Applying, Exists
<1>8. CopyOK(w)'
  BY <1>2, <1>3 DEF CopyOK
<1>9. ReadOK(w)'
  <2>1. cases[Of(w)].id = Of(w) /\ cases[Of(w)].version \in Nat /\ cases[Of(w)].version > 0
    BY <1>1, <1>2 DEF RowOK, Exists, Document
  <2> QED
    BY <1>3, <1>4, <2>1 DEF ReadOK
<1> QED
  BY <1>1, <1>3, <1>4, <1>5, <1>6, <1>7, <1>8, <1>9, OwnDeskPart

\* The advice is saved over the row that was read.
LEMMA AdviceOverwrites ==
  ASSUME DeskInv, NEW w \in Workers, run[w].at = "save", CanSave(doc[w]),
         NEW v \in DOMAIN VerdictEvent
  PROVE  LET d == AddEvent(doc[w], VerdictEvent[v], now) IN
           /\ doc[w] = cases[Of(w)] /\ Of(w) \in Cases /\ Exists(Of(w)) /\ pc[w] = "idle"
           /\ VerdictEvent[v] \in EventName /\ VerdictEvent[v] \in Range(VerdictEvent)
           /\ now \in Nat
           /\ d \in Document /\ (Put(d) => Overwrites(d))
<1> DEFINE d == AddEvent(doc[w], VerdictEvent[v], now)
<1>1. /\ StageOK(w) /\ ReadOK(w) /\ now \in Nat /\ doc[w] \in Document
      /\ cases \in [Cases -> Document]
  BY MaxNowAssumption DEF DeskInv, TypeOK, StoreTypeOK, StepTypeOK, LocalTypeOK
<1>2. Of(w) \in Cases /\ Exists(Of(w)) /\ pc[w] = "idle"
  BY <1>1 DEF StageOK, Applying
<1>3. /\ doc[w].id = Of(w) /\ doc[w].version \in 1..cases[Of(w)].version
      /\ doc[w].version = cases[Of(w)].version => doc[w] = cases[Of(w)]
  BY <1>1 DEF ReadOK
<1>4. doc[w].version = cases[Of(w)].version
  BY <1>2, <1>3 DEF CanSave, Exists
<1>5. VerdictEvent[v] \in Range(VerdictEvent) /\ VerdictEvent[v] \in EventName
  BY AdviceEvents DEF Range
<1>6. d \in Document /\ d.status = doc[w].status /\ Amends(d, doc[w])
  BY <1>1, <1>5, AddEventFacts
<1>7. RowOK(Of(w))
  BY <1>2 DEF DeskInv
<1>8. ASSUME Put(d) PROVE Overwrites(d)
  <2> HIDE DEF d
  <2>1. /\ d.id = Of(w) /\ d.version = cases[Of(w)].version /\ d.req \in Requests
        /\ d.status = cases[Of(w)].status /\ d.label = cases[Of(w)].label
        /\ IsPrefix(cases[Of(w)].events, d.events)
    BY <1>2, <1>3, <1>4, <1>6, <1>7 DEF RowOK, Amends
  <2>2. d.status \in Durable /\ Unlabelled(d)
    BY <1>2, <1>7, <2>1 DEF RowOK, Unlabelled
  <2>3. Continues("save", cases[Of(w)], d)
    BY <2>1 DEF Continues, MayBecome
  <2> QED
    BY <1>2, <1>8, <2>1, <2>2, <2>3 DEF Overwrites
<1> QED
  BY <1>1, <1>2, <1>3, <1>4, <1>5, <1>6, <1>8

\* Nothing else is saved at this node.
LEMMA AdviceIsSaved ==
  ASSUME DeskInv, NEW w \in Workers, RecordAdvice(w)
  PROVE  RowStep
<1>1. ASSUME CanSave(doc[w]), NEW v \in LeadDecisions,
             Put(AddEvent(doc[w], VerdictEvent[v], now))
      PROVE  RowStep
  <2>1. v \in DOMAIN VerdictEvent
    BY <1>1 DEF LeadDecisions, Recommendation, VerdictEvent
  <2>2. run[w].at = "save"
    BY DEF RecordAdvice
  <2> QED
    BY <1>1, <2>1, <2>2, AdviceOverwrites DEF RowStep
<1> QED
  BY <1>1 DEF RecordAdvice, RowStep

\* synthesize saves the advice, or fails to.
LEMMA RecordAdviceKeeps ==
  ASSUME DeskInv, BoardInv', NEW w \in Workers, RecordAdvice(w), UNCHANGED crashes
  PROVE  DeskInv'
<1>1. /\ StageOK(w) /\ run[w] \in Run /\ run \in [Workers -> Run] /\ LocalTypeOK
      /\ notices \subseteq (Cases \X ReturnStatus) /\ run[w].at = "save"
  BY DEF DeskInv, BoardInv, RecordAdvice, TypeOK, StoreTypeOK, StepTypeOK
<1>2. pc[w] = "idle" /\ w \in Reviewers /\ Of(w) \in Cases /\ Exists(Of(w))
  BY <1>1 DEF StageOK, Applying
<1>3. /\ UNCHANGED <<orders, keys, outbox, now, notices, op, pc, ask, rest, thread>>
      /\ doc' = [doc EXCEPT ![w] = NoDocument]
  BY DEF RecordAdvice
<1>4. LocalTypeOK' /\ OnlyLocalsOf(w)
  BY <1>1, <1>3, NoDocumentFacts DEF LocalTypeOK, OnlyLocalsOf
<1>5. RowStep
  BY AdviceIsSaved
<1>6. /\ OnlyRunOf(w) /\ run'[w].at \in {"checkpoint", "off"}
      /\ run'[w].at = "checkpoint" => run'[w].case = Of(w)
  <2>1. CASE Leave(w)
    BY <1>1, <2>1 DEF Leave, NoRun, OnlyRunOf
  <2>2. ASSUME NEW v, Enter(w, [run[w] EXCEPT !.at = "checkpoint", !.state.verdict = v])
        PROVE  OnlyRunOf(w) /\ run'[w].at = "checkpoint" /\ run'[w].case = Of(w)
    BY <1>1, <2>2 DEF Enter, OnlyRunOf, Run, State, Of
  <2> QED
    BY <2>1, <2>2 DEF RecordAdvice
<1>7. \A c \in Cases : ThreadOK(c)'
  BY <1>3, <1>5, ThreadsAsBefore
<1>8. cases'[Of(w)].version > 0
  <2>1. \A c \in Cases : Exists(c) => Exists(c)'
    BY <1>5, RowsMove, CasesStay
  <2> QED
    BY <1>2, <2>1 DEF Exists
<1>9. StageOK(w)'
  <2>1. run'[w].at = "checkpoint" => Of(w)' = Of(w)
    BY <1>6 DEF Of
  <2> QED
    BY <1>1, <1>2, <1>3, <1>6, <2>1, <1>8 DEF StageOK, Applying, Exists
<1>10. CopyOK(w)' /\ ReadOK(w)'
  BY <1>2, <1>3, <1>6 DEF CopyOK, ReadOK
<1> QED
  BY <1>1, <1>3, <1>4, <1>5, <1>6, <1>7, <1>9, <1>10, OwnDeskPart

-----------------------------------------------------------------------------
(* The steps of review and cancel.                                         *)

\* What a step of a handler does with the case in its hands.
HandlerGoesOn(w) ==
  /\ RowStep /\ LocalTypeOK' /\ OnlyLocalsOf(w)
  /\ UNCHANGED <<orders, keys, outbox, now>>
  /\ notices' \subseteq (Cases \X ReturnStatus)
  /\ <<op'[w], pc'[w]>> \in DeskCalls
  /\ pc'[w] # "idle" => op'[w] = op[w] /\ doc'[w].id = doc[w].id
  /\ CopyOK(w)'

\* What is known of the case in a handler's hands.
LEMMA InHand ==
  ASSUME DeskInv, NEW w \in Workers, pc[w] # "idle"
  PROVE  /\ doc[w] \in Document /\ doc[w].id \in Cases /\ doc[w].req \in Requests
         /\ doc[w].status \in StatusAt(pc[w]) \ {"manual_review"} /\ Unlabelled(doc[w])
         /\ cases[doc[w].id] \in Document /\ Exists(doc[w].id) /\ RowOK(doc[w].id)
         /\ doc[w].version \in 1..cases[doc[w].id].version
         /\ now \in Nat /\ LocalTypeOK /\ notices \subseteq (Cases \X ReturnStatus)
         /\ op[w] \in {"review", "cancel"} /\ op[w] \in Ops
         /\ pc[w] = "label" => op[w] = "review"
         /\ doc[w].version = cases[doc[w].id].version =>
              /\ Continues(pc[w], cases[doc[w].id], doc[w])
              /\ Advice(doc[w]) = Advice(cases[doc[w].id])
<1>1. /\ CopyOK(w) /\ LocalTypeOK /\ now \in Nat /\ cases \in [Cases -> Document]
      /\ notices \subseteq (Cases \X ReturnStatus) /\ <<op[w], pc[w]>> \in DeskCalls
  BY MaxNowAssumption DEF DeskInv, StageOK, TypeOK, StoreTypeOK, StepTypeOK
<1>2. /\ doc[w].id \in Cases /\ doc[w].version \in 1..cases[doc[w].id].version
      /\ doc[w].req \in Requests /\ Unlabelled(doc[w])
      /\ doc[w].status \in StatusAt(pc[w]) \ {"manual_review"}
      /\ doc[w].version = cases[doc[w].id].version =>
           /\ Continues(pc[w], cases[doc[w].id], doc[w])
           /\ Advice(doc[w]) = Advice(cases[doc[w].id])
  BY <1>1 DEF CopyOK
<1>3. doc[w] \in Document /\ cases[doc[w].id] \in Document /\ RowOK(doc[w].id) /\ op[w] \in Ops
  BY <1>1, <1>2 DEF LocalTypeOK, DeskInv
<1>4. Exists(doc[w].id)
  <2>1. cases[doc[w].id].version \in Nat
    BY <1>3 DEF Document
  <2> QED
    BY <1>2, <2>1 DEF Exists
<1>5. op[w] \in {"review", "cancel"} /\ (pc[w] = "label" => op[w] = "review")
  BY <1>1 DEF DeskCalls
<1> QED
  BY <1>1, <1>2, <1>3, <1>4, <1>5

\* A copy of the row's version can be saved over it.
LEMMA CopyOverwrites ==
  ASSUME DeskInv, NEW w \in Workers, pc[w] \in {"save", "note"}, CanSave(doc[w]), Put(doc[w])
  PROVE  Overwrites(doc[w]) /\ RowStep
<1>1. /\ doc[w] \in Document /\ doc[w].id \in Cases /\ doc[w].req \in Requests
      /\ doc[w].status \in Durable /\ Unlabelled(doc[w]) /\ Exists(doc[w].id)
  BY InHand DEF StatusAt
<1>2. doc[w].version = cases[doc[w].id].version
  BY <1>1 DEF CanSave, Exists
<1>3. Continues(pc[w], cases[doc[w].id], doc[w])
  BY <1>2, InHand
<1>4. Continues("save", cases[doc[w].id], doc[w])
  BY <1>3 DEF Continues, MayBecome
<1> QED
  BY <1>1, <1>2, <1>4 DEF Overwrites, RowStep

\* A handler that goes on with its copy amended, and saves nothing.
LEMMA CopyGoesOn ==
  ASSUME DeskInv, NEW w \in Workers, pc[w] # "idle", NEW call \in Calls,
         NEW d \in Document, Goto(w, call, d), <<op[w], call>> \in DeskCalls,
         UNCHANGED <<storeVars, now>>, notices' \subseteq (Cases \X ReturnStatus),
         d.id = doc[w].id, d.req = doc[w].req, d.version = doc[w].version,
         d.status \in StatusAt(call) \ {"manual_review"}, Unlabelled(d),
         doc[w].version = cases[doc[w].id].version =>
           Continues(call, cases[doc[w].id], d) /\ Advice(d) = Advice(doc[w]),
         call \in {"notify", "note"} => Decided(doc[w].id)
  PROVE  HandlerGoesOn(w)
<1>1. LocalTypeOK
  BY InHand
<1>2. /\ LocalTypeOK' /\ OnlyLocalsOf(w)
      /\ op'[w] = op[w] /\ pc'[w] = call /\ doc'[w] = d
  BY <1>1, GotoFacts
<1>3. cases' = cases
  BY DEF storeVars
<1>4. CopyOK(w)'
  BY <1>2, <1>3, InHand DEF CopyOK, Decided
<1> QED
  BY <1>2, <1>3, <1>4 DEF HandlerGoesOn, RowStep, storeVars

\* A handler ends.
LEMMA HandlerEnds ==
  ASSUME DeskInv, NEW w \in Workers, Finish(w), RowStep,
         UNCHANGED <<orders, keys, outbox, now>>, notices' \subseteq (Cases \X ReturnStatus)
  PROVE  HandlerGoesOn(w)
<1>1. LocalTypeOK
  BY DEF DeskInv, TypeOK, StepTypeOK
<1>2. LocalTypeOK' /\ OnlyLocalsOf(w) /\ op'[w] = "none" /\ pc'[w] = "idle"
  BY <1>1, FinishFacts
<1>3. <<"none", "idle">> \in DeskCalls
  BY DEF DeskCalls
<1> QED
  BY <1>2, <1>3 DEF HandlerGoesOn, CopyOK

\* The carrier is asked for a label.
LEMMA LabelGoesOn ==
  ASSUME DeskInv, NEW w \in Workers, IssueLabel(w)
  PROVE  HandlerGoesOn(w)
<1>1. pc[w] = "label" /\ UNCHANGED <<storeVars, now, notices>>
  BY DEF IssueLabel
<1>2. /\ doc[w] \in Document /\ doc[w].id \in Cases /\ doc[w].status = "approved"
      /\ cases[doc[w].id] \in Document /\ Exists(doc[w].id) /\ RowOK(doc[w].id)
      /\ now \in Nat /\ LocalTypeOK /\ notices \subseteq (Cases \X ReturnStatus)
      /\ op[w] = "review"
  BY <1>1, InHand DEF StatusAt
<1>3. CASE Finish(w)
  BY <1>1, <1>2, <1>3, HandlerEnds DEF RowStep, storeVars
<1>4. ASSUME NEW t \in Labels, Goto(w, "save", Labelled(doc[w], t))
      PROVE  HandlerGoesOn(w)
  <2> DEFINE b == [doc[w] EXCEPT !.label = t]
             d == Labelled(doc[w], t)
             row == cases[doc[w].id]
  <2>1. /\ b \in Document /\ b.id = doc[w].id /\ b.req = doc[w].req
        /\ b.version = doc[w].version /\ b.events = doc[w].events
    BY <1>2 DEF Document
  <2>2. "label_issued" \in ReturnStatus /\ "label_issued" \in Durable
    BY DEF ReturnStatus, Durable, InMemoryOnly
  <2>3. d = Transitioned(b, "label_issued")
    BY DEF Labelled
  <2> HIDE DEF b
  <2>4. d \in Document /\ d.status = "label_issued" /\ Amends(d, b)
    BY <1>2, <2>1, <2>2, <2>3, TransitionedFacts
  <2>5. Advice(d) = Advice(b) /\ Advice(b) = Advice(doc[w])
    BY <1>2, <2>1, <2>2, <2>3, MovesAreNoAdvice DEF Advice
  <2> HIDE DEF d
  <2>6. d.id = doc[w].id /\ d.req = doc[w].req /\ d.version = doc[w].version
    BY <2>1, <2>4 DEF Amends
  <2>7. Unlabelled(d)
    BY <2>4 DEF Unlabelled
  <2>8. ASSUME doc[w].version = row.version
        PROVE  Continues("save", row, d)
    <3>1. Continues("label", row, doc[w])
      BY <1>1, <2>8, InHand
    <3>2. CanMove(row.status, "approved") /\ IsPrefix(row.events, doc[w].events)
      BY <3>1 DEF Continues, MayBecome
    <3>3. row.status \in Durable /\ Unlabelled(row)
      BY <1>2 DEF RowOK
    <3>4. row.status = "manual_review" /\ <<row.status, "label_issued">> \in DurableMoves
      BY <3>2, <3>3, ApprovalMoves
    <3>5. row.label = None
      BY <3>3, <3>4 DEF Unlabelled
    <3>6. IsPrefix(row.events, d.events)
      <4>1. /\ row.events \in Seq(Event) /\ doc[w].events \in Seq(Event)
            /\ d.events \in Seq(Event) /\ IsPrefix(doc[w].events, d.events)
        BY <1>2, <2>1, <2>4 DEF Amends, Document
      <4> QED
        BY <3>2, <4>1, PrefixTransitive
    <3> HIDE DEF row
    <3> QED
      BY <2>4, <3>4, <3>5, <3>6 DEF Continues, MayBecome
  <2>9. <<op[w], "save">> \in DeskCalls /\ "save" \in Calls
    BY <1>2 DEF DeskCalls, Calls
  <2>10. d.status \in StatusAt("save") \ {"manual_review"}
    BY <2>2, <2>4 DEF StatusAt
  <2>11. Goto(w, "save", d)
    BY <1>4 DEF d
  <2> QED
    BY <1>1, <1>2, <2>4, <2>5, <2>6, <2>7, <2>8, <2>9, <2>10, <2>11, CopyGoesOn
<1> QED
  BY <1>3, <1>4 DEF IssueLabel

\* The case is saved.
LEMMA SaveGoesOn ==
  ASSUME DeskInv, NEW w \in Workers, SaveCase(w)
  PROVE  /\ HandlerGoesOn(w)
         /\ CanSave(doc[w]) => /\ Overwrites(doc[w])
                               /\ cases'[doc[w].id].status \notin {"absent", "manual_review"}
<1>1. pc[w] = "save" /\ UNCHANGED <<orders, keys, outbox, now, notices>>
  BY DEF SaveCase
<1>2. /\ doc[w] \in Document /\ doc[w].id \in Cases /\ doc[w].req \in Requests
      /\ doc[w].status \in Durable \ {"manual_review"} /\ Unlabelled(doc[w])
      /\ LocalTypeOK /\ notices \subseteq (Cases \X ReturnStatus)
      /\ op[w] \in {"review", "cancel"} /\ cases[doc[w].id] \in Document
  BY <1>1, InHand DEF StatusAt
<1>3. CASE ~CanSave(doc[w])
  <2>1. Finish(w) /\ RowStep
    BY <1>3 DEF SaveCase, RowStep
  <2> QED
    BY <1>1, <1>2, <1>3, <2>1, HandlerEnds
<1>4. CASE CanSave(doc[w])
  <2> DEFINE n == Bumped(doc[w])
             c == doc[w].id
  <2>1. Put(doc[w]) /\ IF AfterSave(w) = "idle" THEN Finish(w) ELSE Goto(w, AfterSave(w), n)
    BY <1>4 DEF SaveCase
  <2>2. Overwrites(doc[w]) /\ RowStep
    BY <1>1, <1>4, <2>1, CopyOverwrites
  <2>3. /\ n \in Document /\ n.version = doc[w].version + 1 /\ n.id = c
        /\ n.req = doc[w].req /\ n.status = doc[w].status /\ n.label = doc[w].label
        /\ n.events = doc[w].events
    BY <1>2, BumpedFacts
  <2>4. cases'[c] = n
    BY <1>2, <2>1 DEF Put, DeskInv, TypeOK, StoreTypeOK
  <2> HIDE DEF n
  <2>5. cases'[c].status \notin {"absent", "manual_review"}
    BY <1>2, <2>3, <2>4 DEF Durable, ReturnStatus
  <2>6. AfterSave(w) \in {"notify", "idle"}
    BY <1>2 DEF AfterSave
  <2>7. CASE AfterSave(w) = "idle"
    <3>1. Finish(w) /\ notices' = notices
      BY <1>1, <2>1, <2>7
    <3>2. HandlerGoesOn(w)
      BY <1>1, <1>2, <2>2, <3>1, HandlerEnds
    <3> QED
      BY <2>2, <2>5, <3>2
  <2>8. CASE AfterSave(w) = "notify"
    <3>1. Goto(w, "notify", n)
      BY <2>1, <2>8
    <3>2. "notify" \in Calls /\ <<op[w], "notify">> \in DeskCalls
      BY <1>2 DEF Calls, DeskCalls
    <3>3. /\ LocalTypeOK' /\ OnlyLocalsOf(w)
          /\ op'[w] = op[w] /\ pc'[w] = "notify" /\ doc'[w] = n
      BY <1>2, <2>3, <3>1, <3>2, GotoFacts
    <3>4. n.version \in 1..n.version /\ n.events \in Seq(Event)
      <4>1. doc[w].version \in Nat /\ n.events \in Seq(Event)
        BY <1>2, <2>3 DEF Document
      <4> QED
        BY <2>3, <4>1
    <3>5. Continues("notify", n, n)
      BY <3>4, PrefixReflexive DEF Continues, MayBecome
    <3>6. n.status \in StatusAt("notify") \ {"manual_review"} /\ Unlabelled(n)
      BY <1>2, <2>3 DEF StatusAt, Unlabelled
    <3>7. n.status \notin {"absent", "manual_review"}
      BY <1>2, <2>3 DEF Durable, ReturnStatus
    <3>8. cases'[doc'[w].id] = n
      BY <2>3, <2>4, <3>3
    <3>9. CopyOK(w)'
      BY <1>2, <2>3, <3>3, <3>4, <3>5, <3>6, <3>7, <3>8 DEF CopyOK, Decided
    <3>10. HandlerGoesOn(w)
      BY <1>1, <1>2, <2>2, <2>3, <3>2, <3>3, <3>9 DEF HandlerGoesOn
    <3> QED
      BY <2>2, <2>5, <3>10
  <2> QED
    BY <1>4, <2>2, <2>5, <2>6, <2>7, <2>8
<1> QED
  BY <1>3, <1>4

\* The customer is told.
LEMMA NoticeGoesOn ==
  ASSUME DeskInv, NEW w \in Workers, Notify(w)
  PROVE  HandlerGoesOn(w) /\ cases' = cases
<1>1. pc[w] = "notify" /\ UNCHANGED <<storeVars, now>> /\ cases' = cases
  BY DEF Notify, storeVars
<1>2. /\ doc[w] \in Document /\ doc[w].id \in Cases /\ cases[doc[w].id] \in Document
      /\ doc[w].status \in Durable \ {"manual_review"} /\ Unlabelled(doc[w])
      /\ now \in Nat /\ notices \subseteq (Cases \X ReturnStatus)
      /\ op[w] \in {"review", "cancel"}
  BY <1>1, InHand DEF StatusAt
<1>3. CASE AfterNotice(w) /\ UNCHANGED notices
  <2>1. Finish(w)
    BY <1>2, <1>3 DEF AfterNotice
  <2> QED
    BY <1>1, <1>2, <1>3, <2>1, HandlerEnds DEF RowStep, storeVars
<1>4. CASE /\ notices' = notices \cup {<<doc[w].id, doc[w].status>>}
           /\ Goto(w, "note", AddEvent(doc[w], "customer_notified", now))
  <2> DEFINE d == AddEvent(doc[w], "customer_notified", now)
  <2>1. "customer_notified" \in EventName /\ "customer_notified" \notin Range(VerdictEvent)
    BY AdviceEvents DEF EventName
  <2>2. /\ d \in Document /\ d.status = doc[w].status /\ Amends(d, doc[w])
        /\ Advice(d) = Advice(doc[w])
    BY <1>2, <2>1, AddEventFacts, AdviceAdded
  <2>3. Goto(w, "note", d)
    BY <1>4
  <2> HIDE DEF d
  <2>4. notices' \subseteq (Cases \X ReturnStatus)
    BY <1>2, <1>4 DEF Durable
  <2>5. "note" \in Calls /\ <<op[w], "note">> \in DeskCalls
    BY <1>2 DEF Calls, DeskCalls
  <2>6. /\ d.id = doc[w].id /\ d.req = doc[w].req /\ d.version = doc[w].version
        /\ d.status \in StatusAt("note") \ {"manual_review"} /\ Unlabelled(d)
    BY <1>2, <2>2 DEF Amends, StatusAt, Unlabelled
  <2>7. ASSUME doc[w].version = cases[doc[w].id].version
        PROVE  Continues("note", cases[doc[w].id], d)
    <3> DEFINE row == cases[doc[w].id]
    <3>1. Continues("notify", row, doc[w])
      BY <1>1, <2>7, InHand
    <3>2. /\ row.events \in Seq(Event) /\ doc[w].events \in Seq(Event)
          /\ d.events \in Seq(Event)
      BY <1>2, <2>2 DEF Document
    <3>3. IsPrefix(row.events, doc[w].events) /\ IsPrefix(doc[w].events, d.events)
      BY <2>2, <3>1 DEF Continues, Amends
    <3>4. IsPrefix(row.events, d.events)
      BY <3>2, <3>3, PrefixTransitive
    <3> HIDE DEF row
    <3> QED
      BY <2>2, <3>1, <3>4 DEF Continues, MayBecome, Amends, row
  <2>8. Decided(doc[w].id)
    BY <1>1 DEF DeskInv, CopyOK
  <2>9. HandlerGoesOn(w)
    BY <1>1, <2>2, <2>3, <2>4, <2>5, <2>6, <2>7, <2>8, CopyGoesOn
  <2> QED
    BY <1>1, <2>9
<1> QED
  BY <1>3, <1>4 DEF Notify

\* That the customer was told is noted.
LEMMA NoteGoesOn ==
  ASSUME DeskInv, NEW w \in Workers, NoteNotice(w)
  PROVE  HandlerGoesOn(w)
<1>1. pc[w] = "note" /\ UNCHANGED <<orders, keys, outbox, now, notices>>
  BY DEF NoteNotice
<1>2. op[w] \in {"review", "cancel"} /\ notices \subseteq (Cases \X ReturnStatus)
  BY <1>1, InHand
<1>3. Finish(w) /\ notices' = notices
  BY <1>1, <1>2 DEF NoteNotice, AfterNotice
<1>4. RowStep
  BY <1>1, CopyOverwrites DEF NoteNotice, RowStep
<1> QED
  BY <1>1, <1>2, <1>3, <1>4, HandlerEnds

\* A handler's step keeps the invariant, whether decide called it or a request.
LEMMA HandlerKeeps ==
  ASSUME DeskInv, BoardInv', NEW w \in Workers, pc[w] # "idle", HandlerGoesOn(w),
         UNCHANGED <<thread, crashes>>, OnlyRunOf(w),
         \/ run'[w] = run[w] /\ (run[w].at = "off" \/ pc'[w] # "idle")
         \/ run'[w] = NoRun /\ pc'[w] = "idle"
         \/ /\ pc'[w] = "idle" /\ run[w].at \in Applying
            /\ run'[w].at = "finish" /\ run'[w].case = run[w].case
            /\ cases'[doc[w].id].status \notin {"absent", "manual_review"}
  PROVE  DeskInv'
<1>1. StageOK(w) /\ RowStep
  BY DEF DeskInv, HandlerGoesOn
<1>2. \A c \in Cases : ThreadOK(c)'
  BY <1>1, ThreadsAsBefore
<1>3. run[w].at \in Applying \cup {"off"}
  BY <1>1 DEF StageOK
<1>4. \A c \in Cases : Exists(c) => cases'[c].version > 0
  <2>1. \A c \in Cases : Exists(c) => Exists(c)'
    BY <1>1, RowsMove, CasesStay
  <2> QED
    BY <2>1 DEF Exists
<1>5. StageOK(w)'
  <2>1. CASE run'[w] = run[w] /\ (run[w].at = "off" \/ pc'[w] # "idle")
    BY <1>1, <1>3, <1>4, <2>1 DEF StageOK, HandlerGoesOn, Of, Exists, Applying
  <2>2. CASE run'[w] = NoRun /\ pc'[w] = "idle"
    BY <2>2 DEF StageOK, HandlerGoesOn, NoRun, Applying
  <2>3. CASE /\ pc'[w] = "idle" /\ run[w].at \in Applying
             /\ run'[w].at = "finish" /\ run'[w].case = run[w].case
             /\ cases'[doc[w].id].status \notin {"absent", "manual_review"}
    <3>1. /\ w \in Reviewers /\ Of(w) \in Cases /\ Exists(Of(w)) /\ doc[w].id = Of(w)
          /\ Of(w)' = Of(w)
      BY <1>1, <2>3 DEF StageOK, Applying, Of
    <3> QED
      BY <1>4, <2>3, <3>1 DEF StageOK, HandlerGoesOn, Exists, Applying, Decided
  <2> QED
    BY <2>1, <2>2, <2>3
<1>6. ReadOK(w)'
  BY <1>3 DEF ReadOK, NoRun, Applying
<1> QED
  BY <1>1, <1>2, <1>5, <1>6, OwnDeskPart DEF HandlerGoesOn

\* decide's calls, and those of a request.
LEMMA CallsKeep ==
  ASSUME DeskInv, BoardInv', NEW w \in Workers, UNCHANGED crashes,
         \/ InReview(w)
         \/ /\ run[w].at = "off"
            /\ IssueLabel(w) \/ SaveCase(w) \/ Notify(w) \/ NoteNotice(w)
            /\ UNCHANGED boardVars
  PROVE  DeskInv'
<1>1. /\ IssueLabel(w) \/ SaveCase(w) \/ Notify(w) \/ NoteNotice(w)
      /\ pc[w] # "idle" /\ thread' = thread
  BY DEF InReview, boardVars, IssueLabel, SaveCase, Notify, NoteNotice
<1>2. HandlerGoesOn(w)
  BY <1>1, LabelGoesOn, SaveGoesOn, NoticeGoesOn, NoteGoesOn
<1>3. StageOK(w) /\ run \in [Workers -> Run] /\ run[w] \in Run
  BY DEF DeskInv, BoardInv
<1>4. CASE run[w].at = "off" /\ UNCHANGED boardVars
  BY <1>1, <1>2, <1>4, HandlerKeeps DEF boardVars, OnlyRunOf
<1>5. CASE InReview(w)
  <2>1. run[w].at \in Applying
    BY <1>5 DEF InReview, Applying
  <2>2. CASE pc'[w] # "idle"
    BY <1>1, <1>2, <1>5, <2>2, HandlerKeeps DEF InReview, OnlyRunOf
  <2>3. CASE pc'[w] = "idle" /\ ~Returns(w)
    <3>1. run'[w] = NoRun /\ OnlyRunOf(w)
      BY <1>3, <1>5, <2>3 DEF InReview, Leave, OnlyRunOf
    <3> QED
      BY <1>1, <1>2, <2>3, <3>1, HandlerKeeps
  <2>4. CASE pc'[w] = "idle" /\ Returns(w)
    <3>1. run' = [run EXCEPT ![w].at = "finish"]
      BY <1>5, <2>4 DEF InReview, Proceed
    <3>2. run'[w].at = "finish" /\ run'[w].case = run[w].case /\ OnlyRunOf(w)
      BY <1>3, <3>1 DEF OnlyRunOf, Run
    <3>3. cases'[doc[w].id].status \notin {"absent", "manual_review"}
      <4>1. CASE pc[w] = "save"
        <5>1. SaveCase(w) /\ CanSave(doc[w])
          BY <1>1, <2>4, <4>1 DEF Returns, IssueLabel, Notify, NoteNotice
        <5> QED
          BY <5>1, SaveGoesOn
      <4>2. CASE pc[w] \in {"notify", "note"}
        <5>1. doc[w].id \in Cases /\ Decided(doc[w].id)
          BY <4>2 DEF DeskInv, CopyOK
        <5>2. \A c \in Cases : Decided(c) => Decided(c)'
          BY <1>2, RowsMove, CasesStay DEF HandlerGoesOn
        <5> QED
          BY <5>1, <5>2 DEF Decided
      <4> QED
        BY <2>4, <4>1, <4>2 DEF Returns
    <3> QED
      BY <1>1, <1>2, <2>1, <2>4, <3>2, <3>3, HandlerKeeps
  <2> QED
    BY <2>2, <2>3, <2>4
<1> QED
  BY <1>4, <1>5

-----------------------------------------------------------------------------
(* Requests arrive.                                                        *)

\* A decision or a cancellation is begun, on a copy of the row as it is.
LEMMA CopyBegins ==
  ASSUME DeskInv, NEW w \in Workers, NEW c \in Cases, Exists(c),
         NEW o, NEW call, NEW target,
         \/ o = "review" /\ call = "label" /\ target = "approved"
         \/ o = "review" /\ call = "save" /\ target = "rejected"
         \/ o = "cancel" /\ call = "save" /\ target = "cancelled",
         CanMove(cases[c].status, target),
         Begin(w, o, call, Transitioned(cases[c], target)),
         UNCHANGED <<storeVars, now, notices>>
  PROVE  /\ LocalTypeOK' /\ OnlyLocalsOf(w) /\ pc[w] = "idle"
         /\ op'[w] = o /\ pc'[w] = call /\ doc'[w].id = c
         /\ <<o, call>> \in DeskCalls /\ call # "idle"
         /\ CopyOK(w)'
<1> DEFINE row == cases[c]
           d == Transitioned(cases[c], target)
<1>1. /\ LocalTypeOK /\ now \in Nat /\ row \in Document /\ RowOK(c) /\ row.version \in Nat
  BY MaxNowAssumption DEF DeskInv, TypeOK, StoreTypeOK, StepTypeOK, Document
<1>2. /\ o \in {"review", "cancel"} /\ call \in {"label", "save"} /\ <<o, call>> \in DeskCalls
      /\ target \in {"approved", "rejected", "cancelled"} /\ target \in ReturnStatus
      /\ call = "label" <=> target = "approved"
  BY DEF DeskCalls, ReturnStatus
<1>3. d \in Document /\ d.status = target /\ Amends(d, row) /\ Advice(d) = Advice(row)
  BY <1>1, <1>2, TransitionedFacts, MovesAreNoAdvice
<1>4. row.id = c /\ row.req \in Requests /\ row.status \in Durable /\ Unlabelled(row)
  BY <1>1 DEF RowOK
<1> HIDE DEF d
<1>5. /\ LocalTypeOK' /\ OnlyLocalsOf(w) /\ pc[w] = "idle"
      /\ op'[w] = o /\ pc'[w] = call /\ doc'[w] = d
  BY <1>1, <1>2, <1>3, BeginFacts DEF Ops, Calls, d
<1>6. d.status \in StatusAt(call) \ {"manual_review"}
  BY <1>2, <1>3 DEF StatusAt, Durable, ReturnStatus, InMemoryOnly
<1>7. Unlabelled(d)
  <2>1. CASE target = "approved"
    <3>1. row.status = "manual_review"
      BY <1>4, <2>1, ApprovalMoves
    <3> QED
      BY <1>3, <1>4, <3>1 DEF Unlabelled, Amends
  <2>2. CASE target # "approved"
    BY <1>2, <1>3, <2>2 DEF Unlabelled
  <2> QED
    BY <2>1, <2>2
<1>8. MayBecome(call, row.status, d.status)
  <2>1. CASE call = "label"
    BY <1>2, <2>1 DEF MayBecome
  <2>2. CASE call = "save"
    <3>1. target \in Durable
      BY <1>2, <2>2 DEF Durable, ReturnStatus, InMemoryOnly
    <3>2. <<row.status, target>> \in DurableMoves
      BY <1>4, <3>1, DirectMoves
    <3> QED
      BY <1>3, <2>2, <3>2 DEF MayBecome
  <2> QED
    BY <1>2, <2>1, <2>2
<1>9. Continues(call, row, d)
  BY <1>3, <1>8 DEF Continues, Amends
<1>10. cases' = cases /\ d.id = c /\ d.req \in Requests /\ d.version = row.version
  BY <1>3, <1>4 DEF storeVars, Amends
<1>11. d.version \in 1..row.version
  BY <1>1, <1>10 DEF Exists
<1>12. CopyOK(w)'
  BY <1>2, <1>3, <1>5, <1>6, <1>7, <1>9, <1>10, <1>11 DEF CopyOK
<1> QED
  BY <1>2, <1>5, <1>10, <1>12

\* So a worker that takes up review or cancel, in no run or in decide.
LEMMA DeskRequests ==
  ASSUME DeskInv, NEW w \in Workers, NEW c \in Cases,
         NEW o, \/ o = "review" /\ \E s \in {"approved", "rejected"} : StartReview(w, c, s)
                \/ o = "cancel" /\ StartCancel(w, c)
  PROVE  /\ LocalTypeOK' /\ OnlyLocalsOf(w) /\ pc[w] = "idle" /\ Exists(c)
         /\ op'[w] = o /\ doc'[w].id = c /\ <<op'[w], pc'[w]>> \in DeskCalls /\ pc'[w] # "idle"
         /\ CopyOK(w)' /\ UNCHANGED <<storeVars, now, notices>>
<1>1. ASSUME NEW s \in {"approved", "rejected"}, StartReview(w, c, s)
      PROVE  /\ LocalTypeOK' /\ OnlyLocalsOf(w) /\ pc[w] = "idle" /\ Exists(c)
             /\ op'[w] = "review" /\ doc'[w].id = c /\ <<op'[w], pc'[w]>> \in DeskCalls
             /\ pc'[w] # "idle" /\ CopyOK(w)' /\ UNCHANGED <<storeVars, now, notices>>
  <2>1. /\ Exists(c) /\ CanMove(cases[c].status, s) /\ UNCHANGED <<storeVars, now, notices>>
        /\ Begin(w, "review", IF s = "approved" THEN "label" ELSE "save", Transitioned(cases[c], s))
    BY <1>1 DEF StartReview
  <2>2. CASE s = "approved"
    <3>1. Begin(w, "review", "label", Transitioned(cases[c], "approved"))
      BY <2>1, <2>2
    <3> QED
      BY <2>1, <2>2, <3>1, CopyBegins
  <2>3. CASE s = "rejected"
    <3>1. Begin(w, "review", "save", Transitioned(cases[c], "rejected"))
      BY <2>1, <2>3
    <3> QED
      BY <2>1, <2>3, <3>1, CopyBegins
  <2> QED
    BY <2>2, <2>3
<1>2. ASSUME StartCancel(w, c)
      PROVE  /\ LocalTypeOK' /\ OnlyLocalsOf(w) /\ pc[w] = "idle" /\ Exists(c)
             /\ op'[w] = "cancel" /\ doc'[w].id = c /\ <<op'[w], pc'[w]>> \in DeskCalls
             /\ pc'[w] # "idle" /\ CopyOK(w)' /\ UNCHANGED <<storeVars, now, notices>>
  <2>1. /\ Exists(c) /\ CanMove(cases[c].status, "cancelled")
        /\ UNCHANGED <<storeVars, now, notices>>
        /\ Begin(w, "cancel", "save", Transitioned(cases[c], "cancelled"))
    BY <1>2 DEF StartCancel
  <2> QED
    BY <2>1, CopyBegins
<1> QED
  BY <1>1, <1>2

\* A worker takes up a decision or a cancellation, perhaps out of a run.
LEMMA DeskRequestKeeps ==
  ASSUME DeskInv, BoardInv', NEW w \in Workers, NEW c \in Cases,
         NEW o, \/ o = "review" /\ \E s \in {"approved", "rejected"} : StartReview(w, c, s)
                \/ o = "cancel" /\ StartCancel(w, c),
         OnlyRunOf(w), UNCHANGED <<thread, crashes>>,
         \/ run'[w] = run[w] /\ run[w].at = "off"
         \/ /\ o = "review" /\ run'[w].at \in Applying /\ run'[w].case = run[w].case
            /\ Of(w) = c /\ run[w].at # "off"
  PROVE  DeskInv'
<1>1. /\ LocalTypeOK' /\ OnlyLocalsOf(w) /\ pc[w] = "idle" /\ Exists(c)
      /\ op'[w] = o /\ doc'[w].id = c /\ <<op'[w], pc'[w]>> \in DeskCalls /\ pc'[w] # "idle"
      /\ CopyOK(w)' /\ UNCHANGED <<storeVars, now, notices>>
  BY DeskRequests
<1>2. StageOK(w) /\ RowStep /\ notices' \subseteq (Cases \X ReturnStatus)
  BY <1>1 DEF DeskInv, RowStep, storeVars, TypeOK, StepTypeOK
<1>3. \A x \in Cases : ThreadOK(x)'
  BY <1>2, ThreadsAsBefore
<1>4. StageOK(w)'
  <2>1. CASE run'[w] = run[w] /\ run[w].at = "off"
    BY <1>1, <2>1 DEF StageOK, Applying
  <2>2. CASE /\ o = "review" /\ run'[w].at \in Applying /\ run'[w].case = run[w].case
             /\ Of(w) = c /\ run[w].at # "off"
    BY <1>1, <1>2, <2>2 DEF StageOK, Applying, Of, Exists, storeVars
  <2> QED
    BY <2>1, <2>2
<1>5. ReadOK(w)'
  BY DEF ReadOK, Applying
<1> QED
  BY <1>1, <1>2, <1>3, <1>4, <1>5, OwnDeskPart DEF storeVars

\* What arrives keeps the invariant.
LEMMA ArrivalKeepsDesk ==
  ASSUME DeskInv, BoardInv', NEW w \in Workers, Arrival(w), UNCHANGED crashes
  PROVE  DeskInv'
<1>0. /\ run \in [Workers -> Run] /\ \A c \in Cases : ThreadOK(c)
      /\ NoRun \in Run
  BY DEF DeskInv, BoardInv, NoRun, Run, Stage, State, NoState, Votes, NoVotes
<1>1. ASSUME NEW c \in Cases, Idle(w), w \in Reviewers, Exists(c),
             UNCHANGED <<storeVars, now, notices, workerVars, thread>>,
             NEW r \in Run, Enter(w, r), r.at \in {"peek", "load"}, r.case = c
      PROVE  DeskInv'
  <2>1. \A x \in Cases : ThreadOK(x)'
    BY <1>1, ThreadsAsBefore DEF RowStep, storeVars
  <2>2. r.at \notin Applying \cup {"save"} /\ r.at # "finish"
    BY <1>1 DEF Applying
  <2> QED
    BY <1>1, <2>1, <2>2, RunMoves DEF Enter, Idle
<1>2. ASSUME NEW c \in Cases, NEW auto \in BOOLEAN, ReviewCase(w, c, auto)
      PROVE  DeskInv'
  <2> DEFINE r == [NoRun EXCEPT !.at = "peek", !.case = c, !.state.auto = auto]
  <2>1. r \in Run /\ r.at = "peek" /\ r.case = c
    BY DEF NoRun, Run, Stage, State, NoState, Votes, NoVotes
  <2>2. Enter(w, r)
    BY <1>2 DEF ReviewCase
  <2> HIDE DEF r
  <2> QED
    BY <1>1, <1>2, <2>1, <2>2 DEF ReviewCase
<1>3. ASSUME NEW c \in Cases, NEW answer \in Answers, ResumeReview(w, c, answer)
      PROVE  DeskInv'
  <2> DEFINE r == [NoRun EXCEPT !.at = "load", !.case = c, !.human = answer]
  <2>1. r \in Run /\ r.at = "load" /\ r.case = c
    BY DEF NoRun, Run, Stage, State, NoState, Votes, NoVotes
  <2>2. Enter(w, r)
    BY <1>3 DEF ResumeReview
  <2>3. Exists(c)
    BY <1>0, <1>3 DEF ResumeReview, ThreadOK, Pending
  <2> HIDE DEF r
  <2> QED
    BY <1>1, <1>3, <2>1, <2>2, <2>3 DEF ResumeReview
<1>4. ASSUME NEW c \in Cases, NEW s \in Answers, StartReview(w, c, s),
             run[w].at = "off", UNCHANGED boardVars
      PROVE  DeskInv'
  BY <1>4, DeskRequestKeeps DEF OnlyRunOf, boardVars, Answers
<1>5. ASSUME NEW c \in Cases, StartCancel(w, c), run[w].at = "off", UNCHANGED boardVars
      PROVE  DeskInv'
  BY <1>5, DeskRequestKeeps DEF OnlyRunOf, boardVars
<1> QED
  BY <1>2, <1>3, <1>4, <1>5 DEF Arrival, Finalize

\* decide refuses, pauses, or calls review.
LEMMA DecideKeepsDesk ==
  ASSUME DeskInv, BoardInv', NEW w \in Workers, Decide(w), UNCHANGED crashes
  PROVE  DeskInv'
<1>1. /\ run \in [Workers -> Run] /\ run[w] \in Run /\ StageOK(w)
      /\ run[w].at = "decide" /\ thread' = thread
  BY DEF DeskInv, BoardInv, Decide
<1>2. pc[w] = "idle" /\ Of(w) \in Cases /\ run[w].human \in Answers \cup {None}
  BY <1>1 DEF StageOK, Applying, Run
<1>3. ASSUME Leave(w), UNCHANGED <<storeVars, now, notices, workerVars>>
      PROVE  DeskInv'
  <2>1. \A x \in Cases : ThreadOK(x)'
    BY <1>1, <1>3, ThreadsAsBefore DEF RowStep, storeVars
  <2> QED
    BY <1>1, <1>2, <1>3, <2>1, RunEnds
<1>4. ASSUME NEW s \in {"approved", "rejected"}, NEW stage \in Applying, Apply(w, s, stage)
      PROVE  DeskInv'
  <2>1. CASE StartReview(w, Of(w), s) /\ Proceed(w, stage)
    <3>1. run'[w].at = stage /\ run'[w].case = run[w].case /\ OnlyRunOf(w)
      BY <1>1, <2>1 DEF Proceed, OnlyRunOf, Run
    <3> QED
      BY <1>1, <1>2, <1>4, <2>1, <3>1, DeskRequestKeeps
  <2> QED
    BY <1>3, <1>4, <2>1 DEF Apply
<1>5. run[w].human # None => run[w].human \in {"approved", "rejected"}
  BY <1>2 DEF Answers
<1>6. "by_board" \in Applying /\ "by_human" \in Applying
  BY DEF Applying
<1> QED
  BY <1>3, <1>4, <1>5, <1>6 DEF Decide

-----------------------------------------------------------------------------
(* All steps.                                                              *)

\* Whatever happens, at most one row changes, by a save or by a new case.
LEMMA StepsOnRows ==
  ASSUME DeskInv, [Next]_vars
  PROVE  RowStep
<1>1. ASSUME NEW w \in Workers, Arrival(w)
      PROVE  RowStep
  BY <1>1 DEF Arrival, ReviewCase, ResumeReview, Finalize, StartReview, StartCancel, RowStep,
     storeVars
<1>2. ASSUME NEW w \in Workers, Progress(w)
      PROVE  RowStep
  <2>1. CASE Peek(w) \/ Clear(w) \/ Invoke(w) \/ Consult(w) \/ ReadCase(w)
             \/ CheckpointVerdict(w) \/ FinishThread(w) \/ Load(w)
    BY <2>1 DEF Peek, Clear, Invoke, Consult, ReadCase, CheckpointVerdict, FinishThread, Load,
       RowStep, storeVars
  <2>2. CASE RecordAdvice(w)
    BY <2>2, AdviceIsSaved
  <2>3. CASE Decide(w)
    BY <2>3 DEF Decide, Apply, StartReview, RowStep, storeVars
  <2>4. CASE IssueLabel(w) \/ SaveCase(w) \/ Notify(w) \/ NoteNotice(w)
    BY <2>4, LabelGoesOn, SaveGoesOn, NoticeGoesOn, NoteGoesOn DEF HandlerGoesOn
  <2> QED
    BY <1>2, <2>1, <2>2, <2>3, <2>4 DEF Progress, InReview
<1>3. CASE Crash \/ UNCHANGED vars
  BY <1>3 DEF Crash, vars, storeVars, RowStep
<1>4. ASSUME NEW c \in Cases, FileCase(c)
      PROVE  RowStep
  BY <1>4 DEF RowStep
<1> QED
  BY <1>1, <1>2, <1>3, <1>4 DEF Next

\* No case is recorded at first, and nobody is at work.
LEMMA DeskStarts == Init => DeskInv
<1> SUFFICES ASSUME Init PROVE DeskInv
  OBVIOUS
<1>1. BoardInv
  BY InitOK
<1>2. StoreTypeOK
  BY NoDocumentFacts DEF Init, StoreInit, StoreTypeOK
<1>3. StepTypeOK
  <2>1. NoAsk \in Ask /\ {} \in SUBSET Document /\ "none" \in Ops /\ "idle" \in Calls
    BY DEF NoAsk, Ask, Ops, Calls
  <2> QED
    BY <2>1, NoDocumentFacts, MaxNowAssumption
    DEF Init, StepInit, NobodyAtWork, StepTypeOK, LocalTypeOK
<1>4. TypeOK
  BY <1>1, <1>2, <1>3, MaxCrashesAssumption DEF Init, TypeOK, BoardTypeOK, BoardInv
<1>5. \A c \in Cases : RowOK(c)
  BY DEF Init, StoreInit, RowOK, Exists, NoDocument
<1>6. \A c \in Cases : ThreadOK(c)
  BY DEF Init, BoardInit, ThreadOK, NoThread
<1>7. \A w \in Workers : StageOK(w) /\ CopyOK(w) /\ ReadOK(w)
  BY DEF Init, StepInit, NobodyAtWork, BoardInit, NoRun, StageOK, CopyOK, ReadOK,
     DeskCalls, Applying
<1> QED
  BY <1>1, <1>4, <1>5, <1>6, <1>7 DEF DeskInv

\* A new case disturbs nobody.
LEMMA FilingKeepsDesk ==
  ASSUME DeskInv, BoardInv', NEW c \in Cases, FileCase(c), UNCHANGED crashes
  PROVE  DeskInv'
<1>1. RowStep /\ UNCHANGED <<orders, keys, outbox, now, notices, workerVars, boardVars>>
  BY DEF FileCase, RowStep
<1>2. cases' \in [Cases -> Document] /\ \A x \in Cases : RowOK(x)'
  BY <1>1, RowsMove DEF RowMoves
<1>3. TypeOK'
  BY <1>1, <1>2 DEF DeskInv, TypeOK, StoreTypeOK, StepTypeOK, LocalTypeOK, BoardTypeOK,
     workerVars, boardVars
<1>4. \A x \in Cases : ThreadOK(x)'
  BY <1>1, ThreadsAsBefore DEF boardVars
<1>5. \A w \in Workers : StageOK(w)' /\ CopyOK(w)' /\ ReadOK(w)'
  BY <1>1, OthersAsBefore DEF workerVars, boardVars
<1> QED
  BY <1>2, <1>3, <1>4, <1>5 DEF DeskInv

\* A crash leaves the rows and the threads, and no worker at work.
LEMMA CrashKeepsDesk ==
  ASSUME DeskInv, BoardInv', Crash
  PROVE  DeskInv'
<1>1. RowStep /\ UNCHANGED <<cases, orders, keys, outbox, now, notices, thread>>
  BY DEF Crash, RowStep, storeVars
<1>2. cases' \in [Cases -> Document] /\ \A x \in Cases : RowOK(x)'
  BY <1>1, RowsMove DEF RowMoves
<1>3. LocalTypeOK'
  <2>1. NoAsk \in Ask /\ {} \in SUBSET Document /\ "none" \in Ops /\ "idle" \in Calls
    BY DEF NoAsk, Ask, Ops, Calls
  <2> QED
    BY <2>1, NoDocumentFacts DEF Crash, LocalTypeOK
<1>4. crashes' \in 0..MaxCrashes
  BY MaxCrashesAssumption DEF Crash, DeskInv, TypeOK
<1>5. TypeOK'
  BY <1>1, <1>2, <1>3, <1>4 DEF DeskInv, TypeOK, StoreTypeOK, StepTypeOK, BoardTypeOK, BoardInv
<1>6. \A x \in Cases : ThreadOK(x)'
  BY <1>1, ThreadsAsBefore
<1>7. \A w \in Workers : StageOK(w)' /\ CopyOK(w)' /\ ReadOK(w)'
  BY DEF Crash, NoRun, StageOK, CopyOK, ReadOK, DeskCalls, Applying
<1> QED
  BY <1>2, <1>5, <1>6, <1>7 DEF DeskInv

\* Every step, of a run, a handler at the desk or the world, leaves rows, copies and
\* threads in order.
LEMMA DeskKeeps == DeskInv /\ [Next]_vars => DeskInv'
<1> SUFFICES ASSUME DeskInv, [Next]_vars PROVE DeskInv'
  OBVIOUS
<1>1. BoardInv'
  BY NextOK DEF DeskInv
<1>2. ASSUME NEW w \in Workers, Arrival(w), UNCHANGED crashes
      PROVE  DeskInv'
  BY <1>1, <1>2, ArrivalKeepsDesk
<1>3. ASSUME NEW w \in Workers, Progress(w), UNCHANGED crashes
      PROVE  DeskInv'
  <2>1. CASE Peek(w) \/ Clear(w) \/ Invoke(w) \/ Consult(w) \/ CheckpointVerdict(w)
             \/ FinishThread(w) \/ Load(w)
    BY <1>1, <1>3, <2>1, CheckpointerKeeps
  <2>2. CASE ReadCase(w)
    BY <1>1, <1>3, <2>2, ReadCaseKeeps
  <2>3. CASE RecordAdvice(w)
    BY <1>1, <1>3, <2>3, RecordAdviceKeeps
  <2>4. CASE Decide(w)
    BY <1>1, <1>3, <2>4, DecideKeepsDesk
  <2>5. CASE \/ InReview(w)
             \/ /\ run[w].at = "off"
                /\ IssueLabel(w) \/ SaveCase(w) \/ Notify(w) \/ NoteNotice(w)
                /\ UNCHANGED boardVars
    BY <1>1, <1>3, <2>5, CallsKeep
  <2> QED
    BY <1>3, <2>1, <2>2, <2>3, <2>4, <2>5 DEF Progress
<1>4. ASSUME NEW c \in Cases, FileCase(c), UNCHANGED crashes
      PROVE  DeskInv'
  BY <1>1, <1>4, FilingKeepsDesk
<1>5. CASE Crash
  BY <1>1, <1>5, CrashKeepsDesk
<1>6. CASE UNCHANGED vars
  <2>1. UNCHANGED <<cases, orders, keys, outbox, now, notices, op, pc, doc, ask, rest, thread,
                    run, crashes>>
    BY <1>6 DEF vars, storeVars, workerVars, boardVars
  <2>2. RowStep
    BY <2>1 DEF RowStep
  <2>3. \A x \in Cases : ThreadOK(x)' /\ RowOK(x)'
    BY <2>1, <2>2, ThreadsAsBefore, RowsMove DEF RowMoves
  <2>4. \A w \in Workers : StageOK(w)' /\ CopyOK(w)' /\ ReadOK(w)'
    BY <2>1, <2>2, OthersAsBefore
  <2>5. TypeOK'
    BY <2>1 DEF DeskInv, TypeOK, StoreTypeOK, StepTypeOK, LocalTypeOK, BoardTypeOK
  <2> QED
    BY <1>1, <2>3, <2>4, <2>5 DEF DeskInv
<1> QED
  BY <1>2, <1>3, <1>4, <1>5, <1>6 DEF Next

\* So they always are.
LEMMA DeskHolds == Spec => []DeskInv
  BY DeskStarts, DeskKeeps, PTL DEF Spec

\* Every variable of the board and of the service keeps to its type.
THEOREM BoardTypes == Spec => []TypeOK
<1>1. DeskInv => TypeOK
  BY DEF DeskInv
<1> QED
  BY <1>1, DeskHolds, PTL

\* A finished thread is of a decided case, so that review_case may clear it.
THEOREM FinishedThreads == Spec => []FinishedIsDecided
<1>1. DeskInv => FinishedIsDecided
  BY DEF DeskInv, ThreadOK, Decided, FinishedIsDecided
<1> QED
  BY <1>1, DeskHolds, PTL

\* No save next to the board drops an event of a case's trail.
THEOREM TrailsGrowAtTheBoard == Spec => AuditTrailGrows
<1>1. DeskInv /\ [Next]_vars => [\A c \in Cases : IsPrefix(cases[c].events, cases'[c].events)]_vars
  BY StepsOnRows, RowsMove DEF RowMoves
<1> QED
  BY <1>1, DeskHolds, PTL DEF Spec, AuditTrailGrows

-----------------------------------------------------------------------------
(* The board implements the ledger.                                        *)

\* The ledger's moves are those of the lifecycle.
LEMMA LedgerIsLifecycle ==
  /\ Ledger!Durable = Durable
  /\ Ledger!DurableMoves = DurableMoves
  /\ Ledger!FirstStatuses = FirstStatuses
  /\ "manual_review" \in FirstStatuses
BY DEF Ledger!Durable, Durable, Ledger!ReturnStatus, ReturnStatus, Ledger!InMemoryOnly,
   InMemoryOnly, Ledger!DurableMoves, DurableMoves, Ledger!CanMove, CanMove,
   Ledger!Transitions, Transitions, Ledger!FirstStatuses, FirstStatuses

\* A step changes one row at most.
LEMMA OneRowMoves ==
  ASSUME DeskInv, RowStep
  PROVE  \/ cases' = cases
         \/ \E i \in Cases : \A c \in Cases \ {i} : cases'[c] = cases[c]
<1>1. cases \in [Cases -> Document] /\ now \in Nat
  BY MaxNowAssumption DEF DeskInv, TypeOK, StoreTypeOK, StepTypeOK
<1>2. ASSUME NEW d \in Document, d.id \in Cases, Put(d)
      PROVE  \A c \in Cases \ {d.id} : cases'[c] = cases[c]
  BY <1>1, <1>2 DEF Put
<1>3. ASSUME NEW i \in Cases, FileCase(i)
      PROVE  \A c \in Cases \ {i} : cases'[c] = cases[c]
  BY <1>1, <1>2, <1>3, EscalatedFacts DEF FileCase
<1> QED
  BY <1>2, <1>3 DEF RowStep, Overwrites

\* Every step is a step of the ledger, or leaves every recorded status alone.
LEMMA StepsOfTheLedger ==
  ASSUME DeskInv, [Next]_vars
  PROVE  [Ledger!LedgerNext]_Recorded
<1>1. CASE cases' = cases
  BY <1>1 DEF Recorded
<1>2. ASSUME NEW i \in Cases, \A c \in Cases \ {i} : cases'[c] = cases[c]
      PROVE  [Ledger!LedgerNext]_Recorded
  <2> DEFINE s == cases'[i].status
  <2>1. Recorded' = [Recorded EXCEPT ![i] = s] /\ Recorded[i] = cases[i].status
    BY <1>2 DEF Recorded
  <2>2. \/ Recorded[i] = s
        \/ Recorded[i] = "absent" /\ s = "manual_review"
        \/ <<Recorded[i], s>> \in DurableMoves
    BY <2>1, StepsOnRows, RowsMove DEF RowMoves
  <2> HIDE DEF s
  <2>3. CASE Recorded[i] = s
    <3>1. Recorded \in [Cases -> {cases[c].status : c \in Cases}]
      BY DEF Recorded
    <3> QED
      BY <2>1, <2>3, <3>1
  <2>4. CASE Recorded[i] = "absent" /\ s = "manual_review"
    BY <2>1, <2>4, LedgerIsLifecycle DEF Ledger!LedgerNext, Ledger!Open
  <2>5. CASE <<Recorded[i], s>> \in DurableMoves
    <3>1. s \in Durable
      BY <2>5, LedgerMoves
    <3> QED
      BY <2>1, <2>5, <3>1, LedgerIsLifecycle DEF Ledger!LedgerNext, Ledger!Advance
  <2> QED
    BY <2>2, <2>3, <2>4, <2>5
<1> QED
  BY <1>1, <1>2, StepsOnRows, OneRowMoves

\* The board, its humans and its restarts implement the ledger of legal moves.
THEOREM BoardImplementsLedger == Spec => FollowsLedger
<1>1. Init => Ledger!LedgerInit
  BY DEF Init, StoreInit, Recorded, NoDocument, Ledger!LedgerInit
<1>2. DeskInv /\ [Next]_vars => [Ledger!LedgerNext]_Recorded
  BY StepsOfTheLedger
<1> QED
  BY <1>1, <1>2, DeskHolds, PTL DEF Spec, FollowsLedger, Ledger!LedgerSpec

-----------------------------------------------------------------------------
(* One request to the board at a time.                                     *)

\* The advice of every trail is what it was.
Quiet == \A c \in Cases : Advice(cases'[c]) = Advice(cases[c])

\* A trail that goes on without new advice advises what it advised.
LEMMA AdviceStands ==
  ASSUME NEW d \in Document, NEW e \in Document, NEW v,
         Advice(e) = Advice(d), IsPrefix(d.events, e.events), Advises(d, v)
  PROVE  Advises(e, v)
<1>1. PICK i \in Advice(d) : (\A j \in Advice(d) : j <= i) /\ d.events[i].event = VerdictEvent[v]
  BY DEF Advises
<1>2. d.events \in Seq(Event) /\ e.events \in Seq(Event) /\ i \in 1..Len(d.events)
  BY DEF Advice, Document
<1>3. e.events[i] = d.events[i]
  BY <1>2 DEF IsPrefix
<1> QED
  BY <1>1, <1>3 DEF Advises

\* The latest advice is the one at the greatest place.
LEMMA LatestAdvice ==
  ASSUME NEW d \in Document, NEW v, Advises(d, v)
  PROVE  d.events[Max(Advice(d))].event = VerdictEvent[v]
<1>1. PICK i \in Advice(d) : (\A j \in Advice(d) : j <= i) /\ d.events[i].event = VerdictEvent[v]
  BY DEF Advises
<1>2. Advice(d) \subseteq Nat
  BY AdviceInTrail
<1>3. Max(Advice(d)) \in Advice(d) /\ \A j \in Advice(d) : Max(Advice(d)) >= j
  BY <1>1, <1>2 DEF Max
<1>4. Max(Advice(d)) = i
  BY <1>1, <1>2, <1>3
<1> QED
  BY <1>1, <1>4

\* The handlers of a decision record no advice, and keep what the case in their
\* hands advises.
LEMMA HandlersAreQuiet ==
  ASSUME DeskInv, NEW w \in Workers,
         IssueLabel(w) \/ SaveCase(w) \/ Notify(w) \/ NoteNotice(w)
  PROVE  Quiet
<1>1. pc[w] # "idle" /\ cases \in [Cases -> Document]
  BY DEF IssueLabel, SaveCase, Notify, NoteNotice, DeskInv, TypeOK, StoreTypeOK
<1>2. CASE cases' = cases
  BY <1>2 DEF Quiet
<1>3. CASE CanSave(doc[w]) /\ Put(doc[w])
  <2>1. /\ doc[w] \in Document /\ doc[w].id \in Cases /\ Exists(doc[w].id)
        /\ doc[w].version = cases[doc[w].id].version =>
             Advice(doc[w]) = Advice(cases[doc[w].id])
    BY <1>1, InHand
  <2>2. doc[w].version = cases[doc[w].id].version
    BY <1>3, <2>1 DEF CanSave, Exists
  <2>3. Advice(Bumped(doc[w])) = Advice(doc[w])
    BY <2>1, BumpedFacts DEF Advice
  <2>4. cases' = [cases EXCEPT ![doc[w].id] = Bumped(doc[w])]
    BY <1>3 DEF Put
  <2> HIDE DEF Quiet
  <2>5. ASSUME NEW c \in Cases
        PROVE  Advice(cases'[c]) = Advice(cases[c])
    <3>1. CASE c = doc[w].id
      BY <1>1, <2>1, <2>2, <2>3, <2>4, <3>1
    <3>2. CASE c # doc[w].id
      BY <1>1, <2>4, <3>2
    <3> QED
      BY <3>1, <3>2
  <2> QED
    BY <2>5 DEF Quiet
<1> QED
  BY <1>2, <1>3 DEF IssueLabel, SaveCase, Notify, NoteNotice, storeVars

\* The calls of review and cancel leave the advice of a copy alone.
LEMMA CopiesAreQuiet ==
  ASSUME DeskInv, NEW w \in Workers,
         IssueLabel(w) \/ SaveCase(w) \/ Notify(w) \/ NoteNotice(w),
         pc'[w] # "idle"
  PROVE  /\ doc[w] \in Document /\ doc'[w] \in Document
         /\ Advice(doc'[w]) = Advice(doc[w]) /\ IsPrefix(doc[w].events, doc'[w].events)
<1>1. pc[w] # "idle" /\ pc \in [Workers -> Calls]
  BY DEF IssueLabel, SaveCase, Notify, NoteNotice, DeskInv, TypeOK, StepTypeOK, LocalTypeOK
<1>2. doc[w] \in Document /\ LocalTypeOK /\ now \in Nat /\ op[w] \in {"review", "cancel"}
  BY <1>1, InHand
<1>3. ~Finish(w)
  BY <1>2, FinishFacts
<1>4. ASSUME NEW call, NEW d \in Document, Goto(w, call, d),
             Advice(d) = Advice(doc[w]), IsPrefix(doc[w].events, d.events)
      PROVE  /\ doc'[w] \in Document
             /\ Advice(doc'[w]) = Advice(doc[w]) /\ IsPrefix(doc[w].events, doc'[w].events)
  <2>1. doc'[w] = d
    BY <1>2, <1>4 DEF Goto, LocalTypeOK
  <2> QED
    BY <1>4, <2>1
<1>5. CASE IssueLabel(w)
  <2>1. PICK t \in Labels : Goto(w, "save", Labelled(doc[w], t))
    BY <1>3, <1>5 DEF IssueLabel
  <2> DEFINE b == [doc[w] EXCEPT !.label = t]
  <2>2. b \in Document /\ b.events = doc[w].events
    BY <1>2 DEF Document
  <2>3. "label_issued" \in ReturnStatus
    BY DEF ReturnStatus
  <2> HIDE DEF b
  <2>4. /\ Transitioned(b, "label_issued") \in Document
        /\ Advice(Transitioned(b, "label_issued")) = Advice(b)
        /\ IsPrefix(b.events, Transitioned(b, "label_issued").events)
    BY <1>2, <2>2, <2>3, TransitionedFacts, MovesAreNoAdvice DEF Amends
  <2>5. Labelled(doc[w], t) = Transitioned(b, "label_issued")
    BY DEF Labelled, b
  <2>6. Advice(b) = Advice(doc[w])
    BY <2>2 DEF Advice
  <2> QED
    BY <1>2, <1>4, <2>1, <2>2, <2>4, <2>5, <2>6
<1>6. CASE SaveCase(w)
  <2>1. Goto(w, AfterSave(w), Bumped(doc[w]))
    BY <1>3, <1>6 DEF SaveCase
  <2>2. Bumped(doc[w]) \in Document /\ Bumped(doc[w]).events = doc[w].events
    BY <1>2, BumpedFacts
  <2>3. doc[w].events \in Seq(Event)
    BY <1>2 DEF Document
  <2>4. IsPrefix(doc[w].events, Bumped(doc[w]).events)
    BY <2>2, <2>3, PrefixReflexive
  <2> QED
    BY <1>2, <1>4, <2>1, <2>2, <2>4 DEF Advice
<1>7. CASE Notify(w)
  <2>1. Goto(w, "note", AddEvent(doc[w], "customer_notified", now))
    BY <1>2, <1>3, <1>7 DEF Notify, AfterNotice
  <2>2. "customer_notified" \in EventName /\ "customer_notified" \notin Range(VerdictEvent)
    BY AdviceEvents DEF EventName
  <2> QED
    BY <1>2, <1>4, <2>1, <2>2, AddEventFacts, AdviceAdded DEF Amends
<1>8. CASE NoteNotice(w)
  BY <1>2, <1>3, <1>8 DEF NoteNotice, AfterNotice
<1> QED
  BY <1>2, <1>5, <1>6, <1>7, <1>8

\* A new case brings no advice.
LEMMA FilingIsQuiet ==
  ASSUME DeskInv, NEW c \in Cases, FileCase(c)
  PROVE  Quiet
<1>1. cases \in [Cases -> Document] /\ now \in Nat /\ RowOK(c)
  BY MaxNowAssumption DEF DeskInv, TypeOK, StoreTypeOK, StepTypeOK
<1>2. cases[c] = NoDocument
  BY <1>1 DEF RowOK, FileCase
<1>3. PICK r \in Requests : Put(Escalated(c, r))
  BY DEF FileCase
<1> DEFINE a == [NoDocument EXCEPT !.id = c, !.req = r, !.status = "requested"]
           b == AddEvent(a, "return_requested", now)
           d == Transitioned(b, "manual_review")
<1>4. a \in Document /\ a.events = NoDocument.events
  BY NoDocumentFacts DEF NoDocument, Document, ReturnStatus
<1>5. "return_requested" \in EventName /\ "return_requested" \notin Range(VerdictEvent)
  BY AdviceEvents DEF EventName
<1>6. "manual_review" \in ReturnStatus
  BY DEF ReturnStatus
<1> HIDE DEF a
<1>7. b \in Document /\ Advice(b) = Advice(a)
  BY <1>1, <1>4, <1>5, AddEventFacts, AdviceAdded
<1> HIDE DEF b
<1>8. Advice(d) = Advice(a) /\ d \in Document
  BY <1>1, <1>6, <1>7, MovesAreNoAdvice, TransitionedFacts
<1>9. d = Escalated(c, r)
  BY DEF Escalated, a, b
<1>10. d.id = c
  BY <1>1, <1>9, EscalatedFacts
<1> HIDE DEF d
<1>11. Advice(Bumped(d)) = Advice(NoDocument)
  BY <1>4, <1>8, BumpedFacts DEF Advice
<1>12. cases' = [cases EXCEPT ![c] = Bumped(d)]
  BY <1>3, <1>9, <1>10 DEF Put
<1>13. ASSUME NEW x \in Cases
       PROVE  Advice(cases'[x]) = Advice(cases[x])
  <2>1. CASE x = c
    BY <1>1, <1>2, <1>11, <1>12, <2>1
  <2>2. CASE x # c
    BY <1>1, <1>12, <2>2
  <2> QED
    BY <2>1, <2>2
<1> QED
  BY <1>13 DEF Quiet

\* A step of a worker whose run is in hand, which records no advice: what its
\* thread and its run say must still be what the trail says.
LEMMA QuietKeeps ==
  ASSUME AdvisedInv, DeskInv', RowStep, Quiet, NEW me \in Workers, Reviewers = {me}, OnlyRunOf(me),
         \A c \in Cases \ {Of(me)} : thread'[c] = thread[c],
         RunFollows(me)', Advised(me)',
         Of(me) \in Cases /\ thread'[Of(me)].next = "decide" =>
            Advises(cases[Of(me)], thread'[Of(me)].state.verdict)
  PROVE  AdvisedInv'
<1>1. DeskInv /\ cases \in [Cases -> Document] /\ cases' \in [Cases -> Document]
  BY RowsMove DEF AdvisedInv, DeskInv, TypeOK, StoreTypeOK
<1>2. ASSUME NEW w \in Workers, w # me
      PROVE  run'[w].at = "off" /\ run[w].at = "off"
  <2>1. run'[w] = run[w] /\ StageOK(w)
    BY <1>1, <1>2 DEF DeskInv, OnlyRunOf
  <2> QED
    BY <1>2, <2>1 DEF StageOK
<1>3. ASSUME NEW w \in Workers
      PROVE  RunFollows(w)' /\ Advised(w)'
  <2>1. CASE w # me
    BY <1>2, <1>3, <2>1 DEF RunFollows, Advised, Applying
  <2> QED
    BY <2>1
<1>4. ASSUME NEW c \in Cases, NEW v, Advises(cases[c], v)
      PROVE  Advises(cases'[c], v)
  <2>1. IsPrefix(cases[c].events, cases'[c].events)
    BY <1>1, RowsMove DEF RowMoves
  <2> QED
    BY <1>1, <1>4, <2>1, AdviceStands DEF Quiet
<1>5. ASSUME NEW c \in Cases
      PROVE  ThreadAdvised(c)'
  <2>1. CASE c # Of(me)
    BY <1>4, <2>1 DEF AdvisedInv, ThreadAdvised
  <2>2. CASE c = Of(me)
    BY <1>4, <2>2 DEF ThreadAdvised
  <2> QED
    BY <2>1, <2>2
<1> QED
  BY <1>3, <1>5 DEF AdvisedInv

\* Such a step that does not touch the thread either.
LEMMA CalmKeeps ==
  ASSUME AdvisedInv, DeskInv', RowStep, Quiet, NEW me \in Workers, Reviewers = {me}, OnlyRunOf(me), thread' = thread,
         RunFollows(me)', Advised(me)'
  PROVE  AdvisedInv'
<1>1. Of(me) \in Cases => ThreadAdvised(Of(me))
  BY DEF AdvisedInv
<1> QED
  BY <1>1, QuietKeeps DEF ThreadAdvised

\* A step of another worker, or of the one reviewer outside of its runs.
LEMMA AsideKeeps ==
  ASSUME AdvisedInv, DeskInv', RowStep, Quiet, NEW me \in Workers, Reviewers = {me}, UNCHANGED boardVars,
         run[me].at # "off" => doc'[me] = doc[me]
  PROVE  AdvisedInv'
<1>1. /\ OnlyRunOf(me) /\ thread' = thread /\ run' = run
      /\ DeskInv /\ cases \in [Cases -> Document] /\ cases' \in [Cases -> Document]
      /\ RunFollows(me) /\ Advised(me)
  BY RowsMove DEF AdvisedInv, DeskInv, TypeOK, StoreTypeOK, boardVars, OnlyRunOf
<1>2. RunFollows(me)'
  BY <1>1 DEF RunFollows, Of
<1>3. Advised(me)'
  <2>1. ASSUME run[me].at = "checkpoint"
        PROVE  Advises(cases'[Of(me)], run[me].state.verdict)
    <3>1. Of(me) \in Cases
      BY <1>1, <2>1 DEF DeskInv, StageOK
    <3>2. IsPrefix(cases[Of(me)].events, cases'[Of(me)].events)
      BY <1>1, <3>1, RowsMove DEF RowMoves
    <3> QED
      BY <1>1, <2>1, <3>1, <3>2, AdviceStands DEF Quiet, Advised
  <2> QED
    BY <1>1, <2>1 DEF Advised, Of
<1> QED
  BY <1>1, <1>2, <1>3, CalmKeeps

\* The steps of handlers that no run has called.
LEMMA DeskStepsKeep ==
  ASSUME AdvisedInv, DeskInv', RowStep, NEW me \in Workers, Reviewers = {me}, NEW w \in Workers, run[w].at = "off",
         UNCHANGED boardVars,
         \/ \E c \in Cases, s \in Answers : StartReview(w, c, s)
         \/ \E c \in Cases : StartCancel(w, c)
         \/ IssueLabel(w) \/ SaveCase(w) \/ Notify(w) \/ NoteNotice(w)
  PROVE  AdvisedInv'
<1>1. DeskInv /\ doc \in [Workers -> Document]
  BY DEF AdvisedInv, DeskInv, TypeOK, StepTypeOK, LocalTypeOK
<1>2. Quiet /\ (w # me => doc'[me] = doc[me])
  <2>1. ASSUME NEW c \in Cases, (\E s \in Answers : StartReview(w, c, s)) \/ StartCancel(w, c)
        PROVE  Quiet /\ (w # me => doc'[me] = doc[me])
    BY <1>1, <2>1 DEF StartReview, StartCancel, Begin, Quiet, storeVars
  <2>2. CASE IssueLabel(w) \/ SaveCase(w) \/ Notify(w) \/ NoteNotice(w)
    <3>1. OnlyLocalsOf(w)
      BY <1>1, <2>2, LabelGoesOn, SaveGoesOn, NoticeGoesOn, NoteGoesOn DEF HandlerGoesOn
    <3> QED
      BY <1>1, <2>2, <3>1, HandlersAreQuiet DEF OnlyLocalsOf
  <2> QED
    BY <2>1, <2>2
<1> QED
  BY <1>2, AsideKeeps

\* The one reviewer's steps that leave its thread and the rows alone.
LEMMA OwnArrivalKeeps ==
  ASSUME AdvisedInv, DeskInv', RowStep, NEW me \in Workers, Reviewers = {me}, NEW c \in Cases,
         \/ \E auto \in BOOLEAN : ReviewCase(me, c, auto)
         \/ \E answer \in Answers : ResumeReview(me, c, answer)
  PROVE  AdvisedInv'
<1>1. /\ run \in [Workers -> Run] /\ thread' = thread /\ cases' = cases /\ run[me].at = "off"
      /\ ThreadOK(c)
  BY DEF AdvisedInv, DeskInv, BoardInv, ReviewCase, ResumeReview, Idle, storeVars
<1>2. /\ OnlyRunOf(me) /\ run'[me].case = c
      /\ \/ run'[me].at = "peek" /\ cases[c].status = "manual_review"
         \/ run'[me].at = "load"
  <2>1. ASSUME NEW auto \in BOOLEAN, ReviewCase(me, c, auto)
        PROVE  /\ OnlyRunOf(me) /\ run'[me].case = c
               /\ run'[me].at = "peek" /\ cases[c].status = "manual_review"
    <3> DEFINE r == [NoRun EXCEPT !.at = "peek", !.case = c, !.state.auto = auto]
    <3>1. run' = [run EXCEPT ![me] = r] /\ cases[c].status = "manual_review"
      BY <2>1 DEF ReviewCase, Enter
    <3>2. r.at = "peek" /\ r.case = c
      BY DEF NoRun
    <3> HIDE DEF r
    <3> QED
      BY <1>1, <3>1, <3>2 DEF OnlyRunOf
  <2>2. ASSUME NEW answer \in Answers, ResumeReview(me, c, answer)
        PROVE  OnlyRunOf(me) /\ run'[me].case = c /\ run'[me].at = "load"
    <3> DEFINE r == [NoRun EXCEPT !.at = "load", !.case = c, !.human = answer]
    <3>1. run' = [run EXCEPT ![me] = r]
      BY <2>2 DEF ResumeReview, Enter
    <3>2. r.at = "load" /\ r.case = c
      BY DEF NoRun
    <3> HIDE DEF r
    <3> QED
      BY <1>1, <3>1, <3>2 DEF OnlyRunOf
  <2> QED
    BY <2>1, <2>2
<1>3. run'[me].at = "peek" => thread[c].next # "end"
  BY <1>1, <1>2 DEF ThreadOK, Decided
<1>4. RunFollows(me)' /\ Advised(me)'
  BY <1>1, <1>2, <1>3 DEF RunFollows, Advised, Of, Applying
<1>5. Quiet
  BY <1>1 DEF Quiet
<1> QED
  BY <1>1, <1>2, <1>4, <1>5, CalmKeeps

\* The ends of its run.
LEMMA OwnEndKeeps ==
  ASSUME AdvisedInv, DeskInv', RowStep, Quiet, NEW me \in Workers, Reviewers = {me}, Leave(me), thread' = thread
  PROVE  AdvisedInv'
<1>1. run \in [Workers -> Run]
  BY DEF AdvisedInv, DeskInv, BoardInv
<1>2. OnlyRunOf(me) /\ run'[me].at = "off"
  BY <1>1 DEF Leave, NoRun, OnlyRunOf
<1>3. RunFollows(me)' /\ Advised(me)'
  BY <1>2 DEF RunFollows, Advised, Applying
<1> QED
  BY <1>2, <1>3, CalmKeeps

\* Its calls of the checkpointer, of the specialists and of the store.
LEMMA OwnRunKeeps ==
  ASSUME AdvisedInv, DeskInv', RowStep, NEW me \in Workers, Reviewers = {me},
         \/ Peek(me) \/ Clear(me) \/ Invoke(me) \/ Consult(me) \/ ReadCase(me)
         \/ CheckpointVerdict(me) \/ FinishThread(me) \/ Load(me)
  PROVE  AdvisedInv'
<1>1. /\ run \in [Workers -> Run] /\ run[me] \in Run /\ thread \in [Cases -> Checkpoint]
      /\ RunFollows(me) /\ Advised(me) /\ StageOK(me) /\ cases' = cases
      /\ \A w \in Workers \ {me} : run[w].at = "off"
  BY DEF AdvisedInv, DeskInv, BoardInv, Peek, Clear, Invoke, Consult, ReadCase,
     CheckpointVerdict, FinishThread, Load, storeVars, StageOK
<1>2. Of(me) \in Cases
  BY <1>1 DEF StageOK, Peek, Clear, Invoke, Consult, ReadCase, CheckpointVerdict,
     FinishThread, Load
<1>3. Quiet
  BY <1>1 DEF Quiet
<1>5. ASSUME NEW stage, Proceed(me, stage)
      PROVE  /\ OnlyRunOf(me) /\ run'[me].at = stage /\ run'[me].case = run[me].case
             /\ run'[me].state = run[me].state
  BY <1>1, <1>5 DEF Proceed, OnlyRunOf, Run
<1>6. ASSUME NEW next, NEW s, Write(Of(me), next, s)
      PROVE  /\ thread'[Of(me)].next = next /\ thread'[Of(me)].state = s
             /\ \A c \in Cases \ {Of(me)} : thread'[c] = thread[c]
  BY <1>1, <1>2, <1>6 DEF Write
<1>7. CASE Peek(me)
  <2>1. thread' = thread /\ run[me].at = "peek" /\ thread[Of(me)].next # "end"
    BY <1>1, <1>7 DEF Peek, RunFollows
  <2>2. thread[Of(me)].next \in Pending \cup {"absent", "end"}
    BY <1>1, <1>2 DEF Checkpoint
  <2>3. CASE Leave(me)
    BY <1>3, <2>1, <2>3, OwnEndKeeps
  <2>4. CASE thread[Of(me)].next = "absent" /\ Proceed(me, "invoke")
    <3>1. run'[me].at = "invoke" /\ Of(me)' = Of(me) /\ OnlyRunOf(me)
      BY <1>5, <2>4 DEF Of
    <3>2. RunFollows(me)' /\ Advised(me)'
      BY <2>1, <2>4, <3>1 DEF RunFollows, Advised, Applying
    <3> QED
      BY <1>3, <2>1, <3>1, <3>2, CalmKeeps
  <2> QED
    BY <1>7, <2>1, <2>2, <2>3, <2>4 DEF Peek
<1>8. CASE Clear(me)
  BY <1>1, <1>8 DEF Clear, RunFollows
<1>9. CASE Invoke(me)
  <2> DEFINE state == [thread[Of(me)].state EXCEPT !.auto = run[me].state.auto]
             r == [run[me] EXCEPT !.at = "specialists", !.state = state]
  <2>1. /\ run[me].at = "invoke" /\ Write(Of(me), "specialists", state)
        /\ run' = [run EXCEPT ![me] = r]
    BY <1>9 DEF Invoke, Enter
  <2>2. r.at = "specialists" /\ r.case = run[me].case
    BY <1>1 DEF Run
  <2> HIDE DEF r, state
  <2>3. run'[me].at = "specialists" /\ Of(me)' = Of(me) /\ OnlyRunOf(me)
    BY <1>1, <2>1, <2>2 DEF Of, OnlyRunOf
  <2>4. RunFollows(me)' /\ Advised(me)'
    BY <1>6, <2>1, <2>3 DEF RunFollows, Advised, Applying
  <2> QED
    BY <1>3, <1>6, <2>1, <2>3, <2>4, QuietKeeps
<1>10. CASE Consult(me)
  <2>1. PICK panel \in Panels(BoardSize) :
          LET state == [run[me].state EXCEPT !.votes = Gathered(@, panel)] IN
            /\ Write(Of(me), "synthesize", state)
            /\ Enter(me, [run[me] EXCEPT !.at = "read", !.state = state])
    BY <1>10 DEF Consult
  <2> DEFINE state == [run[me].state EXCEPT !.votes = Gathered(@, panel)]
             r == [run[me] EXCEPT !.at = "read", !.state = state]
  <2>2. /\ run[me].at = "specialists" /\ Write(Of(me), "synthesize", state)
        /\ run' = [run EXCEPT ![me] = r]
    BY <1>10, <2>1 DEF Consult, Enter
  <2>3. r.at = "read" /\ r.case = run[me].case
    BY <1>1 DEF Run
  <2> HIDE DEF r, state
  <2>4. run'[me].at = "read" /\ Of(me)' = Of(me) /\ OnlyRunOf(me)
    BY <1>1, <2>2, <2>3 DEF Of, OnlyRunOf
  <2>5. RunFollows(me)' /\ Advised(me)'
    BY <1>6, <2>2, <2>4 DEF RunFollows, Advised, Applying
  <2> QED
    BY <1>3, <1>6, <2>2, <2>4, <2>5, QuietKeeps
<1>11. CASE ReadCase(me)
  <2>1. /\ run[me].at = "read" /\ thread' = thread /\ Proceed(me, "save")
        /\ thread[Of(me)].next = "synthesize"
    BY <1>1, <1>11 DEF ReadCase, RunFollows
  <2>2. run'[me].at = "save" /\ Of(me)' = Of(me) /\ OnlyRunOf(me)
    BY <1>5, <2>1 DEF Of
  <2>3. RunFollows(me)' /\ Advised(me)'
    BY <2>1, <2>2 DEF RunFollows, Advised, Applying
  <2> QED
    BY <1>3, <2>1, <2>2, <2>3, CalmKeeps
<1>12. CASE CheckpointVerdict(me)
  <2>1. /\ run[me].at = "checkpoint" /\ Write(Of(me), "decide", run[me].state)
        /\ Proceed(me, "decide")
    BY <1>12 DEF CheckpointVerdict
  <2>2. /\ run'[me].at = "decide" /\ Of(me)' = Of(me) /\ OnlyRunOf(me)
        /\ run'[me].state = run[me].state
    BY <1>5, <2>1 DEF Of
  <2>3. RunFollows(me)' /\ Advised(me)'
    BY <1>6, <2>1, <2>2 DEF RunFollows, Advised, Applying
  <2>4. Advises(cases[Of(me)], run[me].state.verdict)
    BY <1>1, <2>1 DEF Advised
  <2> QED
    BY <1>3, <1>6, <2>1, <2>2, <2>3, <2>4, QuietKeeps
<1>13. CASE FinishThread(me)
  <2>1. run[me].at = "finish" /\ Write(Of(me), "end", run[me].state) /\ Leave(me)
    BY <1>13 DEF FinishThread
  <2>2. run'[me].at = "off" /\ OnlyRunOf(me)
    BY <1>1, <2>1 DEF Leave, NoRun, OnlyRunOf
  <2>3. RunFollows(me)' /\ Advised(me)'
    BY <2>2 DEF RunFollows, Advised, Applying
  <2> QED
    BY <1>3, <1>6, <2>1, <2>2, <2>3, QuietKeeps
<1>14. CASE Load(me)
  <2>1. thread' = thread /\ run[me].at = "load"
    BY <1>14 DEF Load
  <2>2. CASE thread[Of(me)].next \notin Pending
    BY <1>3, <1>14, <2>1, <2>2, OwnEndKeeps DEF Load
  <2>3. CASE thread[Of(me)].next \in Pending
    <3> DEFINE t == thread[Of(me)]
               r == [at |-> StageOf[t.next], case |-> Of(me), state |-> t.state,
                     human |-> IF t.next = "decide" THEN run[me].human ELSE None]
    <3>1. run' = [run EXCEPT ![me] = r]
      BY <1>14, <2>3 DEF Load, Enter
    <3>2. /\ r.case = Of(me) /\ r.state = t.state
          /\ \/ r.at = "specialists" /\ t.next = "specialists"
             \/ r.at = "read" /\ t.next = "synthesize"
             \/ r.at = "decide" /\ t.next = "decide"
      BY <2>3 DEF Pending, StageOf
    <3> HIDE DEF r
    <3>3. run'[me] = r /\ OnlyRunOf(me)
      BY <1>1, <3>1 DEF OnlyRunOf
    <3>4. RunFollows(me)' /\ Advised(me)'
      BY <2>1, <3>2, <3>3 DEF RunFollows, Advised, Of, Applying
    <3> QED
      BY <1>3, <2>1, <3>3, <3>4, CalmKeeps
  <2> QED
    BY <2>2, <2>3
<1> QED
  BY <1>7, <1>8, <1>9, <1>10, <1>11, <1>12, <1>13, <1>14

\* synthesize records its advice once, on the case its thread is of.
LEMMA OwnAdviceKeeps ==
  ASSUME AdvisedInv, DeskInv', RowStep, NEW me \in Workers, Reviewers = {me}, RecordAdvice(me)
  PROVE  AdvisedInv'
<1>1. /\ DeskInv /\ run \in [Workers -> Run] /\ run[me] \in Run /\ doc[me] \in Document
      /\ cases \in [Cases -> Document] /\ cases' \in [Cases -> Document]
      /\ RunFollows(me) /\ run[me].at = "save" /\ thread' = thread
      /\ \A w \in Workers \ {me} : run[w].at = "off"
  BY RowsMove DEF AdvisedInv, DeskInv, BoardInv, RecordAdvice, StageOK, TypeOK, StepTypeOK,
     StoreTypeOK, LocalTypeOK
<1>2. CASE ~CanSave(doc[me]) /\ Leave(me) /\ UNCHANGED cases
  <2>1. Quiet
    BY <1>2 DEF Quiet
  <2> QED
    BY <1>1, <1>2, <2>1, OwnEndKeeps
<1>3. ASSUME CanSave(doc[me]), NEW v \in LeadDecisions,
             Put(AddEvent(doc[me], VerdictEvent[v], now)),
             Enter(me, [run[me] EXCEPT !.at = "checkpoint", !.state.verdict = v])
      PROVE  AdvisedInv'
  <2> DEFINE c == Of(me)
             n == Len(cases[c].events) + 1
             d == AddEvent(cases[c], VerdictEvent[v], now)
             r == [run[me] EXCEPT !.at = "checkpoint", !.state.verdict = v]
  <2>1. v \in DOMAIN VerdictEvent
    BY DEF LeadDecisions, Recommendation, VerdictEvent
  <2>2. /\ doc[me] = cases[c] /\ c \in Cases /\ Exists(c) /\ now \in Nat
        /\ VerdictEvent[v] \in EventName /\ VerdictEvent[v] \in Range(VerdictEvent)
        /\ d \in Document
    BY <1>1, <1>3, <2>1, AdviceOverwrites
  <2>3. /\ cases[c] \in Document /\ cases[c].id = c
        /\ n \in Nat /\ Advice(cases[c]) \subseteq 1..(n - 1)
    BY <1>1, <2>2, AdviceInTrail DEF DeskInv, RowOK
  <2>4. Advice(d) = Advice(cases[c]) \cup {n} /\ d.events[n].event = VerdictEvent[v] /\ d.id = c
    <3>1. Advice(d) = Advice(cases[c]) \cup {n} /\ d.events[n].event = VerdictEvent[v]
      BY <2>2, <2>3, AdviceAdded
    <3>2. d.id = c
      BY <2>2, <2>3, AddEventFacts DEF Amends
    <3> QED
      BY <3>1, <3>2
  <2> HIDE DEF d, n
  <2>5. cases' = [cases EXCEPT ![c] = Bumped(d)]
    BY <1>3, <2>2, <2>4 DEF Put, d
  <2>6. /\ cases'[c].events = d.events /\ Advice(cases'[c]) = Advice(cases[c]) \cup {n}
        /\ \A x \in Cases \ {c} : cases'[x] = cases[x]
    BY <1>1, <2>2, <2>4, <2>5, BumpedFacts DEF Advice
  <2>7. Advises(cases'[c], v)
    <3>1. n \in Advice(cases'[c]) /\ \A j \in Advice(cases'[c]) : j <= n
      BY <2>3, <2>6
    <3> QED
      BY <2>4, <2>6, <3>1 DEF Advises
  <2>8. r.at = "checkpoint" /\ r.case = run[me].case /\ r.state.verdict = v
    BY <1>1 DEF Run, State
  <2>9. run' = [run EXCEPT ![me] = r]
    BY <1>3 DEF Enter
  <2> HIDE DEF r
  <2>10. /\ run'[me].at = "checkpoint" /\ run'[me].case = c /\ run'[me].state.verdict = v
         /\ \A w \in Workers \ {me} : run'[w].at = "off"
    BY <1>1, <2>8, <2>9 DEF Of
  <2>11. thread[c].next = "synthesize"
    BY <1>1 DEF RunFollows
  <2> HIDE DEF c
  <2>12. ASSUME NEW w \in Workers
         PROVE  RunFollows(w)' /\ Advised(w)'
    <3>1. CASE w = me
      BY <1>1, <2>7, <2>10, <2>11, <3>1 DEF RunFollows, Advised, Of, Applying
    <3>2. CASE w # me
      BY <2>10, <3>2 DEF RunFollows, Advised, Applying
    <3> QED
      BY <3>1, <3>2
  <2>13. ASSUME NEW x \in Cases
         PROVE  ThreadAdvised(x)'
    <3>1. CASE x = c
      BY <1>1, <2>11, <3>1 DEF ThreadAdvised
    <3>2. CASE x # c
      BY <1>1, <2>6, <3>2 DEF ThreadAdvised, AdvisedInv
    <3> QED
      BY <3>1, <3>2
  <2> QED
    BY <2>12, <2>13 DEF AdvisedInv
<1> QED
  BY <1>2, <1>3 DEF RecordAdvice

\* decide acts on what its thread holds, which is what the trail advises.
LEMMA OwnDecisionKeeps ==
  ASSUME AdvisedInv, DeskInv', RowStep, NEW me \in Workers, Reviewers = {me}, Decide(me)
  PROVE  AdvisedInv'
<1>1. /\ DeskInv /\ run \in [Workers -> Run] /\ run[me] \in Run /\ cases \in [Cases -> Document]
      /\ RunFollows(me) /\ StageOK(me) /\ run[me].at = "decide" /\ thread' = thread
      /\ doc \in [Workers -> Document] /\ now \in Nat
  BY MaxNowAssumption DEF AdvisedInv, DeskInv, BoardInv, Decide, TypeOK, StoreTypeOK, StepTypeOK,
     LocalTypeOK
<1>2. /\ Of(me) \in Cases /\ cases[Of(me)] \in Document
      /\ thread[Of(me)].next = "decide" /\ thread[Of(me)].state = run[me].state
      /\ ThreadAdvised(Of(me))
  BY <1>1 DEF StageOK, RunFollows, AdvisedInv
<1>3. Advises(cases[Of(me)], run[me].state.verdict)
  BY <1>2 DEF ThreadAdvised
<1>4. ASSUME cases' = cases, Leave(me)
      PROVE  AdvisedInv'
  <2>1. Quiet
    BY <1>4 DEF Quiet
  <2> QED
    BY <1>1, <1>4, <2>1, OwnEndKeeps
<1>5. ASSUME NEW s \in ReturnStatus, NEW stage \in Applying,
             StartReview(me, Of(me), s), Proceed(me, stage),
             stage = "by_board" => AppliesItself(me)
      PROVE  AdvisedInv'
  <2>1. /\ run'[me].at = stage /\ Of(me)' = Of(me) /\ run'[me].state = run[me].state
        /\ OnlyRunOf(me)
    BY <1>1, <1>5 DEF Proceed, OnlyRunOf, Run, Of
  <2>2. doc'[me] = Transitioned(cases[Of(me)], s) /\ cases' = cases
    BY <1>1, <1>5 DEF StartReview, Begin, storeVars
  <2>3. Advises(doc'[me], run[me].state.verdict)
    BY <1>1, <1>2, <1>3, <2>2, TransitionedFacts, MovesAreNoAdvice, AdviceStands DEF Amends
  <2>4. stage = "by_board" => run[me].state.verdict = "approve"
    BY <1>5 DEF AppliesItself, MayApply
  <2>5. RunFollows(me)' /\ Advised(me)'
    BY <1>1, <1>2, <1>5, <2>1, <2>3, <2>4 DEF RunFollows, Advised, Applying
  <2>6. Quiet
    BY <2>2 DEF Quiet
  <2> QED
    BY <1>1, <2>1, <2>5, <2>6, CalmKeeps
<1>6. "approved" \in ReturnStatus /\ (run[me].human # None => run[me].human \in ReturnStatus)
  BY <1>1 DEF Run, Answers, ReturnStatus
<1>7. "by_board" \in Applying /\ "by_human" \in Applying
  BY DEF Applying
<1> QED
  BY <1>4, <1>5, <1>6, <1>7 DEF Decide, Apply, storeVars

\* The calls of review out of decide.
LEMMA OwnReviewKeeps ==
  ASSUME AdvisedInv, DeskInv', RowStep, NEW me \in Workers, Reviewers = {me}, InReview(me)
  PROVE  AdvisedInv'
<1>1. /\ DeskInv /\ run \in [Workers -> Run] /\ run[me] \in Run
      /\ RunFollows(me) /\ Advised(me) /\ run[me].at \in Applying /\ thread' = thread
      /\ IssueLabel(me) \/ SaveCase(me) \/ Notify(me) \/ NoteNotice(me)
  BY DEF AdvisedInv, DeskInv, BoardInv, InReview, Applying
<1>2. Quiet
  BY <1>1, HandlersAreQuiet
<1>3. CASE Leave(me)
  BY <1>1, <1>2, <1>3, OwnEndKeeps
<1>4. CASE Proceed(me, "finish")
  <2>1. /\ run'[me].at = "finish" /\ Of(me)' = Of(me) /\ run'[me].state = run[me].state
        /\ OnlyRunOf(me)
    BY <1>1, <1>4 DEF Proceed, OnlyRunOf, Run, Of
  <2>2. RunFollows(me)' /\ Advised(me)'
    BY <1>1, <2>1 DEF RunFollows, Advised, Applying
  <2> QED
    BY <1>1, <1>2, <2>1, <2>2, CalmKeeps
<1>5. CASE run' = run /\ pc'[me] # "idle"
  <2>1. run[me].at = "by_board" => Advises(doc'[me], "approve")
    BY <1>1, <1>5, CopiesAreQuiet, AdviceStands DEF Advised
  <2>2. RunFollows(me)' /\ Advised(me)'
    BY <1>1, <1>5, <2>1 DEF RunFollows, Advised, Applying, Of
  <2> QED
    BY <1>1, <1>2, <1>5, <2>2, CalmKeeps DEF OnlyRunOf
<1> QED
  BY <1>3, <1>4, <1>5 DEF InReview

\* One request to the board at a time.
SoleReviewer == \E me \in Workers : Reviewers = {me}

\* No thread has advice at first.
LEMMA AdviceStarts == Init => AdvisedInv
<1> SUFFICES ASSUME Init PROVE AdvisedInv
  OBVIOUS
<1>1. DeskInv
  BY DeskStarts
<1>2. \A w \in Workers : RunFollows(w) /\ Advised(w)
  BY DEF Init, BoardInit, NoRun, RunFollows, Advised, Applying
<1>3. \A c \in Cases : ThreadAdvised(c)
  BY DEF Init, BoardInit, NoThread, ThreadAdvised
<1> QED
  BY <1>1, <1>2, <1>3 DEF AdvisedInv

\* With one request at a time, every step leaves runs where their threads stand and
\* threads with the advice recorded last.
LEMMA AdviceKeeps ==
  ASSUME AdvisedInv, [Next]_vars, SoleReviewer
  PROVE  AdvisedInv'
<1>1. PICK me \in Workers : Reviewers = {me}
  BY DEF SoleReviewer
<1>2. DeskInv /\ DeskInv' /\ RowStep
  BY DeskKeeps, StepsOnRows DEF AdvisedInv
<1>3. \A w \in Workers : run[w].at # "off" => w = me
  BY <1>1, <1>2 DEF DeskInv, StageOK
<1>4. ASSUME NEW w \in Workers, Arrival(w), UNCHANGED crashes
      PROVE  AdvisedInv'
  <2>1. ASSUME NEW c \in Cases,
               \/ \E auto \in BOOLEAN : ReviewCase(w, c, auto)
               \/ \E answer \in Answers : ResumeReview(w, c, answer)
        PROVE  AdvisedInv'
    <3>1. w = me
      BY <1>1, <2>1 DEF ReviewCase, ResumeReview
    <3> QED
      BY <1>1, <1>2, <1>4, <2>1, <3>1, OwnArrivalKeeps
  <2>2. ASSUME \/ \E c \in Cases, s \in Answers : StartReview(w, c, s)
               \/ \E c \in Cases : StartCancel(w, c),
               run[w].at = "off", UNCHANGED boardVars
        PROVE  AdvisedInv'
    BY <1>1, <1>2, <1>4, <2>2, DeskStepsKeep
  <2> QED
    BY <1>4, <2>1, <2>2 DEF Arrival, Finalize
<1>5. ASSUME NEW w \in Workers, Progress(w), UNCHANGED crashes
      PROVE  AdvisedInv'
  <2>1. CASE /\ run[w].at = "off"
             /\ IssueLabel(w) \/ SaveCase(w) \/ Notify(w) \/ NoteNotice(w)
             /\ UNCHANGED boardVars
    BY <1>1, <1>2, <1>5, <2>1, DeskStepsKeep
  <2>2. ASSUME run[w].at # "off"
        PROVE  w = me
    BY <1>3, <2>2
  <2>3. CASE Peek(w) \/ Clear(w) \/ Invoke(w) \/ Consult(w) \/ ReadCase(w)
             \/ CheckpointVerdict(w) \/ FinishThread(w) \/ Load(w)
    <3>1. w = me
      BY <2>2, <2>3 DEF Peek, Clear, Invoke, Consult, ReadCase, CheckpointVerdict,
         FinishThread, Load
    <3> QED
      BY <1>1, <1>2, <1>5, <2>3, <3>1, OwnRunKeeps
  <2>4. CASE RecordAdvice(w)
    <3>1. w = me
      BY <2>2, <2>4 DEF RecordAdvice
    <3> QED
      BY <1>1, <1>2, <1>5, <2>4, <3>1, OwnAdviceKeeps
  <2>5. CASE Decide(w)
    <3>1. w = me
      BY <2>2, <2>5 DEF Decide
    <3> QED
      BY <1>1, <1>2, <1>5, <2>5, <3>1, OwnDecisionKeeps
  <2>6. CASE InReview(w)
    <3>1. w = me
      BY <2>2, <2>6 DEF InReview
    <3> QED
      BY <1>1, <1>2, <1>5, <2>6, <3>1, OwnReviewKeeps
  <2> QED
    BY <1>5, <2>1, <2>3, <2>4, <2>5, <2>6 DEF Progress
<1>6. ASSUME NEW c \in Cases, FileCase(c), UNCHANGED crashes
      PROVE  AdvisedInv'
  <2>1. Quiet
    BY <1>2, <1>6, FilingIsQuiet
  <2>2. UNCHANGED boardVars /\ doc' = doc
    BY <1>6 DEF FileCase, workerVars
  <2> QED
    BY <1>1, <1>2, <1>6, <2>1, <2>2, AsideKeeps
<1>7. CASE Crash
  <2>1. /\ cases' = cases /\ thread' = thread /\ \A w \in Workers : run'[w].at = "off"
    BY <1>7 DEF Crash, storeVars, NoRun
  <2>2. \A w \in Workers : RunFollows(w)' /\ Advised(w)'
    BY <2>1 DEF RunFollows, Advised, Applying
  <2>3. \A c \in Cases : ThreadAdvised(c)'
    BY <2>1 DEF ThreadAdvised, AdvisedInv
  <2> QED
    BY <1>2, <2>1, <2>2, <2>3 DEF AdvisedInv
<1>8. CASE UNCHANGED vars
  <2>1. UNCHANGED boardVars /\ doc' = doc /\ cases' = cases
    BY <1>8 DEF vars, workerVars, storeVars
  <2>2. Quiet
    BY <2>1 DEF Quiet
  <2> QED
    BY <1>1, <1>2, <2>1, <2>2, AsideKeeps
<1> QED
  BY <1>4, <1>5, <1>6, <1>7, <1>8 DEF Next

\* So they always are.
LEMMA AdviceHolds ==
  ASSUME SoleReviewer
  PROVE  Spec => []AdvisedInv
<1>1. AdvisedInv /\ [Next]_vars => AdvisedInv'
  BY AdviceKeeps
<1> QED
  BY <1>1, AdviceStarts, PTL DEF Spec

\* One thread is one reviewer.
LEMMA OneIsSole ==
  ASSUME IsFiniteSet(Reviewers), Cardinality(Reviewers) = 1
  PROVE  SoleReviewer
  BY FS_Singleton, ReviewersAssumption DEF SoleReviewer

\* With one request to the board at a time, what it approves by itself is what
\* the trail says it advised last, whatever crashed and was resumed.
THEOREM ActsOnItsAdvice ==
  ASSUME IsFiniteSet(Reviewers)
  PROVE  Spec => []BoardActsOnItsAdvice
<1>1. CASE Cardinality(Reviewers) = 1
  <2>1. SoleReviewer
    BY <1>1, OneIsSole
  <2>2. AdvisedInv => BoardActsOnItsAdvice
    <3> SUFFICES ASSUME AdvisedInv, NEW w \in Reviewers, run[w].at = "by_board"
                 PROVE  doc[w].events[Max(Advice(doc[w]))].event = VerdictEvent["approve"]
      BY DEF BoardActsOnItsAdvice
    <3>1. w \in Workers /\ doc[w] \in Document
      BY ReviewersAssumption DEF AdvisedInv, DeskInv, TypeOK, StepTypeOK, LocalTypeOK
    <3>2. Advises(doc[w], "approve")
      BY <3>1 DEF AdvisedInv, Advised
    <3> QED
      BY <3>1, <3>2, LatestAdvice
  <2>3. Spec => []AdvisedInv
    BY <2>1, AdviceHolds
  <2> QED
    BY <2>2, <2>3, PTL
<1>2. CASE Cardinality(Reviewers) # 1
  <2>1. BoardActsOnItsAdvice
    BY <1>2 DEF BoardActsOnItsAdvice
  <2> QED
    BY <2>1, PTL
<1> QED
  BY <1>1, <1>2

-----------------------------------------------------------------------------
(* Any number of requests to the board.                                    *)

\* Each stage in the graph belongs to one node ahead.
LEMMA StageNode ==
  ASSUME NEW next \in Pending \cup {"absent", "end"}, NEW at \in StagesAt[next]
  PROVE  /\ at = "clear" => next = "end"
         /\ at = "invoke" => next = "absent"
         /\ at = "specialists" => next = "specialists"
         /\ at \in {"read", "save", "checkpoint"} => next = "synthesize"
         /\ at \in Applying \cup {"decide", "finish"} => next = "decide"
  BY DEF StagesAt, Pending, Applying

\* A step of w that adds no advice, and goes on with the thread if w drives it.
LEMMA ReviewGoesOn ==
  ASSUME NEW c \in Cases, ReviewOK(c), ~Shared(c)', NEW w \in Workers, OnlyRunOf(w),
         Advice(cases'[c]) = Advice(cases[c]),
         thread'[c] # thread[c] => Drives(w, c),
         Drives(w, c)' => run'[w].at \in StagesAt[thread'[c].next],
         thread[c].next \in {"decide", "end"} \/ AtCheckpoint(w, c)
           => thread'[c].next \in {"decide", "end"} \/ AtCheckpoint(w, c)'
  PROVE  ReviewOK(c)'
<1>1. \A v \in Workers \ {w} : /\ Drives(v, c)' = Drives(v, c)
                               /\ AtCheckpoint(v, c)' = AtCheckpoint(v, c)
                               /\ run'[v].at = run[v].at
  BY DEF OnlyRunOf, Drives, AtCheckpoint, Of
<1>2. \A v, u \in Workers : Drives(v, c)' /\ Drives(u, c)' => v = u
  BY DEF Shared
<1>3. ASSUME NEW v \in Workers, Drives(v, c)'
      PROVE  run'[v].at \in StagesAt[thread'[c].next]
  <2>1. CASE v = w
    BY <1>3, <2>1
  <2>2. CASE v # w
    <3>1. Drives(v, c) /\ run'[v].at = run[v].at
      BY <1>1, <1>3, <2>2
    <3>2. thread'[c] = thread[c]
      BY <2>2, <3>1 DEF ReviewOK
    <3> QED
      BY <3>1, <3>2 DEF ReviewOK
  <2> QED
    BY <2>1, <2>2
<1>4. ASSUME Advice(cases'[c]) # {}
      PROVE  \/ thread'[c].next \in {"decide", "end"}
             \/ \E v \in Workers : AtCheckpoint(v, c)'
  <2>1. \/ thread[c].next \in {"decide", "end"}
        \/ \E v \in Workers : AtCheckpoint(v, c)
    BY <1>4 DEF ReviewOK
  <2>2. ASSUME NEW v \in Workers \ {w}, AtCheckpoint(v, c)
        PROVE  AtCheckpoint(v, c)'
    BY <1>1, <2>2
  <2> QED
    BY <2>1, <2>2
<1> QED
  BY <1>2, <1>3, <1>4 DEF ReviewOK

\* Steps that leave the board alone and record no advice.
LEMMA ReviewRests ==
  ASSUME NEW c \in Cases, ReviewOK(c), Quiet, UNCHANGED boardVars
  PROVE  ReviewOK(c)'
<1>1. \A w \in Workers : /\ Drives(w, c)' = Drives(w, c)
                         /\ AtCheckpoint(w, c)' = AtCheckpoint(w, c)
  BY DEF boardVars, Drives, AtCheckpoint, Of
<1> QED
  BY <1>1 DEF ReviewOK, Quiet, boardVars

\* A crash leaves the advice of a case in its trail only once the thread knows it.
LEMMA CrashKeepsReview ==
  ASSUME NEW c \in Cases, ReviewOK(c), ~CheckpointLost(c), Crash
  PROVE  ReviewOK(c)'
<1>1. /\ cases' = cases /\ thread' = thread
      /\ \A w \in Workers : run'[w].at = "off"
  BY DEF Crash, storeVars, NoRun
<1>2. \A w \in Workers : ~AtCheckpoint(w, c) /\ ~Drives(w, c)'
  BY <1>1 DEF CheckpointLost, Drives
<1> QED
  BY <1>1, <1>2 DEF ReviewOK

\* A request that arrives drives nothing yet.
LEMMA ArrivalKeepsReview ==
  ASSUME DeskInv, NEW c \in Cases, ReviewOK(c), ~Shared(c)', NEW w \in Workers,
         \/ \E x \in Cases, auto \in BOOLEAN : ReviewCase(w, x, auto)
         \/ \E x \in Cases, answer \in Answers : ResumeReview(w, x, answer)
  PROVE  ReviewOK(c)'
<1>1. /\ run \in [Workers -> Run] /\ thread' = thread /\ cases' = cases /\ run[w].at = "off"
  BY DEF DeskInv, BoardInv, ReviewCase, ResumeReview, Idle, storeVars
<1>2. ASSUME NEW r, run' = [run EXCEPT ![w] = r], r.at \in {"peek", "load"}
      PROVE  ReviewOK(c)'
  <2>1. OnlyRunOf(w) /\ run'[w] = r
    BY <1>1, <1>2 DEF OnlyRunOf
  <2>2. ~Drives(w, c)' /\ ~AtCheckpoint(w, c)
    BY <1>1, <1>2, <2>1 DEF Drives, AtCheckpoint
  <2> QED
    BY <1>1, <2>1, <2>2, ReviewGoesOn
<1>3. ASSUME NEW x \in Cases, NEW auto \in BOOLEAN, ReviewCase(w, x, auto)
      PROVE  ReviewOK(c)'
  <2> DEFINE r == [NoRun EXCEPT !.at = "peek", !.case = x, !.state.auto = auto]
  <2>1. run' = [run EXCEPT ![w] = r]
    BY <1>3 DEF ReviewCase, Enter
  <2>2. r.at = "peek"
    BY DEF NoRun
  <2> HIDE DEF r
  <2> QED
    BY <1>2, <2>1, <2>2
<1>4. ASSUME NEW x \in Cases, NEW answer \in Answers, ResumeReview(w, x, answer)
      PROVE  ReviewOK(c)'
  <2> DEFINE r == [NoRun EXCEPT !.at = "load", !.case = x, !.human = answer]
  <2>1. run' = [run EXCEPT ![w] = r]
    BY <1>4 DEF ResumeReview, Enter
  <2>2. r.at = "load"
    BY DEF NoRun
  <2> HIDE DEF r
  <2> QED
    BY <1>2, <2>1, <2>2
<1> QED
  BY <1>3, <1>4

\* A run's steps that record no advice.
LEMMA RunKeepsReview ==
  ASSUME DeskInv, NEW c \in Cases, ReviewOK(c), ~Shared(c)', ~Renewed(c), NEW w \in Workers,
         \/ Peek(w) \/ Clear(w) \/ Invoke(w) \/ Consult(w) \/ ReadCase(w)
         \/ CheckpointVerdict(w) \/ FinishThread(w) \/ Load(w)
  PROVE  ReviewOK(c)'
<1> DEFINE at == run[w].at
           next == thread[c].next
<1>1. /\ run \in [Workers -> Run] /\ run[w] \in Run /\ thread \in [Cases -> Checkpoint]
      /\ Of(w) \in Cases /\ cases' = cases /\ Advice(cases'[c]) = Advice(cases[c])
      /\ next \in Pending \cup {"absent", "end"}
  BY DEF DeskInv, BoardInv, StageOK, Checkpoint, Peek, Clear, Invoke, Consult, ReadCase,
     CheckpointVerdict, FinishThread, Load, storeVars
<1>2. Drives(w, c) => at \in StagesAt[next]
  BY DEF ReviewOK
<1>3. ASSUME NEW stage, Proceed(w, stage)
      PROVE  /\ OnlyRunOf(w) /\ run'[w].at = stage /\ run'[w].case = run[w].case
  BY <1>1, <1>3 DEF Proceed, OnlyRunOf, Run
<1>4. ASSUME Leave(w)
      PROVE  OnlyRunOf(w) /\ run'[w].at = "off"
  BY <1>1, <1>4 DEF Leave, NoRun, OnlyRunOf
<1>5. ASSUME NEW r, Enter(w, r)
      PROVE  OnlyRunOf(w) /\ run'[w] = r
  BY <1>1, <1>5 DEF Enter, OnlyRunOf
<1>6. ASSUME NEW n, NEW s, Write(Of(w), n, s)
      PROVE  /\ Of(w) = c => thread'[c].next = n
             /\ Of(w) # c => thread'[c] = thread[c]
  BY <1>1, <1>6 DEF Write
<1> HIDE DEF at, next
<1>7. CASE Peek(w)
  <2>1. thread' = thread /\ at = "peek"
    BY <1>7 DEF Peek, at
  <2>2. CASE Leave(w)
    BY <1>1, <1>4, <2>1, <2>2, ReviewGoesOn DEF Drives, AtCheckpoint, at
  <2>3. CASE thread[Of(w)].next = "end" /\ Proceed(w, "clear")
    <3>1. OnlyRunOf(w) /\ run'[w].at = "clear" /\ Of(w)' = Of(w)
      BY <1>3, <2>3 DEF Of
    <3>2. Drives(w, c)' => run'[w].at \in StagesAt[thread'[c].next]
      BY <2>1, <2>3, <3>1 DEF Drives, StagesAt
    <3> QED
      BY <1>1, <2>1, <3>1, <3>2, ReviewGoesOn DEF AtCheckpoint, at
  <2>4. CASE thread[Of(w)].next = "absent" /\ Proceed(w, "invoke")
    <3>1. OnlyRunOf(w) /\ run'[w].at = "invoke" /\ Of(w)' = Of(w)
      BY <1>3, <2>4 DEF Of
    <3>2. Drives(w, c)' => run'[w].at \in StagesAt[thread'[c].next]
      BY <2>1, <2>4, <3>1 DEF Drives, StagesAt
    <3> QED
      BY <1>1, <2>1, <3>1, <3>2, ReviewGoesOn DEF AtCheckpoint, at
  <2>5. thread[Of(w)].next \in Pending \cup {"absent", "end"}
    BY <1>1 DEF Checkpoint
  <2> QED
    BY <1>7, <2>2, <2>3, <2>4, <2>5 DEF Peek
<1>8. CASE Clear(w)
  <2>1. at = "clear" /\ Proceed(w, "invoke") /\ thread' = [thread EXCEPT ![Of(w)] = NoThread]
    BY <1>8 DEF Clear, at
  <2>2. CASE Of(w) = c
    <3>1. next = "end"
      BY <1>1, <1>2, <2>1, <2>2, StageNode DEF Drives, at
    <3>2. thread'[c].next = "absent"
      BY <1>1, <2>1, <2>2 DEF NoThread
    <3> QED
      BY <3>1, <3>2 DEF Renewed, next
  <2>3. CASE Of(w) # c
    <3>1. OnlyRunOf(w) /\ ~Drives(w, c)' /\ ~AtCheckpoint(w, c) /\ thread'[c] = thread[c]
      BY <1>1, <1>3, <2>1, <2>3 DEF Drives, AtCheckpoint, Of
    <3> QED
      BY <1>1, <3>1, ReviewGoesOn
  <2> QED
    BY <2>2, <2>3
\* Steps of a run that drives its thread already.
<1>9. ASSUME at \notin {"off", "peek", "load"}, OnlyRunOf(w),
             run'[w].at = "off" \/ Of(w)' = Of(w),
             Of(w) # c => thread'[c] = thread[c],
             Of(w) = c /\ run'[w].at # "off" => run'[w].at \in StagesAt[thread'[c].next],
             Of(w) = c /\ (next \in {"decide", "end"} \/ at = "checkpoint")
               => thread'[c].next \in {"decide", "end"}
      PROVE  ReviewOK(c)'
  <2>1. thread'[c] # thread[c] => Drives(w, c)
    BY <1>9 DEF Drives, at
  <2>2. Drives(w, c)' => run'[w].at \in StagesAt[thread'[c].next]
    BY <1>9 DEF Drives
  <2>3. next \in {"decide", "end"} \/ AtCheckpoint(w, c)
          => thread'[c].next \in {"decide", "end"} \/ AtCheckpoint(w, c)'
    BY <1>9 DEF AtCheckpoint, at, next
  <2> QED
    BY <1>1, <1>9, <2>1, <2>2, <2>3, ReviewGoesOn DEF next
<1>10. CASE Invoke(w)
  <2> DEFINE state == [thread[Of(w)].state EXCEPT !.auto = run[w].state.auto]
             r == [run[w] EXCEPT !.at = "specialists", !.state = state]
  <2>1. at = "invoke" /\ Write(Of(w), "specialists", state) /\ Enter(w, r)
    BY <1>10 DEF Invoke, at
  <2>2. r.at = "specialists" /\ r.case = run[w].case
    BY <1>1 DEF Run
  <2> HIDE DEF r, state
  <2>3. OnlyRunOf(w) /\ run'[w].at = "specialists" /\ Of(w)' = Of(w)
    BY <1>5, <2>1, <2>2 DEF Of
  <2>4. Of(w) = c => next = "absent"
    BY <1>1, <1>2, <2>1, StageNode DEF Drives, at
  <2>5. "specialists" \in StagesAt["specialists"]
    BY DEF StagesAt
  <2> QED
    BY <1>6, <1>9, <2>1, <2>3, <2>4, <2>5
<1>11. CASE Consult(w)
  <2>1. PICK panel \in Panels(BoardSize) :
          LET state == [run[w].state EXCEPT !.votes = Gathered(@, panel)] IN
            /\ Write(Of(w), "synthesize", state)
            /\ Enter(w, [run[w] EXCEPT !.at = "read", !.state = state])
    BY <1>11 DEF Consult
  <2> DEFINE state == [run[w].state EXCEPT !.votes = Gathered(@, panel)]
             r == [run[w] EXCEPT !.at = "read", !.state = state]
  <2>2. at = "specialists" /\ Write(Of(w), "synthesize", state) /\ Enter(w, r)
    BY <1>11, <2>1 DEF Consult, at
  <2>3. r.at = "read" /\ r.case = run[w].case
    BY <1>1 DEF Run
  <2> HIDE DEF r, state
  <2>4. OnlyRunOf(w) /\ run'[w].at = "read" /\ Of(w)' = Of(w)
    BY <1>5, <2>2, <2>3 DEF Of
  <2>5. Of(w) = c => next = "specialists"
    BY <1>1, <1>2, <2>2, StageNode DEF Drives, at
  <2>6. "read" \in StagesAt["synthesize"]
    BY DEF StagesAt
  <2> QED
    BY <1>6, <1>9, <2>2, <2>4, <2>5, <2>6
<1>12. CASE ReadCase(w)
  <2>1. at = "read" /\ thread' = thread /\ Proceed(w, "save")
    BY <1>12 DEF ReadCase, at
  <2>2. OnlyRunOf(w) /\ run'[w].at = "save" /\ Of(w)' = Of(w)
    BY <1>3, <2>1 DEF Of
  <2>3. Of(w) = c => next = "synthesize"
    BY <1>1, <1>2, <2>1, StageNode DEF Drives, at
  <2>4. "save" \in StagesAt["synthesize"]
    BY DEF StagesAt
  <2> QED
    BY <1>9, <2>1, <2>2, <2>3, <2>4 DEF next
<1>13. CASE CheckpointVerdict(w)
  <2>1. at = "checkpoint" /\ Write(Of(w), "decide", run[w].state) /\ Proceed(w, "decide")
    BY <1>13 DEF CheckpointVerdict, at
  <2>2. OnlyRunOf(w) /\ run'[w].at = "decide" /\ Of(w)' = Of(w)
    BY <1>3, <2>1 DEF Of
  <2>3. "decide" \in StagesAt["decide"]
    BY DEF StagesAt
  <2> QED
    BY <1>6, <1>9, <2>1, <2>2, <2>3
<1>14. CASE FinishThread(w)
  <2>1. at = "finish" /\ Write(Of(w), "end", run[w].state) /\ Leave(w)
    BY <1>14 DEF FinishThread, at
  <2> QED
    BY <1>4, <1>6, <1>9, <2>1
<1>15. CASE Load(w)
  <2>1. thread' = thread /\ at = "load"
    BY <1>15 DEF Load, at
  <2>2. CASE Leave(w)
    BY <1>1, <1>4, <2>1, <2>2, ReviewGoesOn DEF Drives, AtCheckpoint, at
  <2>3. CASE thread[Of(w)].next \in Pending
    <3> DEFINE t == thread[Of(w)]
               r == [at |-> StageOf[t.next], case |-> Of(w), state |-> t.state,
                     human |-> IF t.next = "decide" THEN run[w].human ELSE None]
    <3>1. Enter(w, r)
      BY <1>15, <2>3 DEF Load
    <3>2. r.case = Of(w) /\ r.at \in StagesAt[t.next]
      BY <2>3 DEF Pending, StageOf, StagesAt
    <3> HIDE DEF r
    <3>3. OnlyRunOf(w) /\ run'[w] = r
      BY <1>5, <3>1
    <3>4. Drives(w, c)' => run'[w].at \in StagesAt[thread'[c].next]
      BY <2>1, <3>2, <3>3 DEF Drives, Of
    <3> QED
      BY <1>1, <2>1, <3>3, <3>4, ReviewGoesOn DEF AtCheckpoint, at
  <2> QED
    BY <1>15, <2>2, <2>3 DEF Load
<1> QED
  BY <1>7, <1>8, <1>10, <1>11, <1>12, <1>13, <1>14, <1>15

\* synthesize records its advice on a trail that has none.
LEMMA AdviceKeepsReview ==
  ASSUME DeskInv, NEW c \in Cases, ReviewOK(c), ~Shared(c)', NEW w \in Workers,
         RecordAdvice(w)
  PROVE  ReviewOK(c)'
<1>1. /\ run \in [Workers -> Run] /\ run[w] \in Run /\ doc[w] \in Document
      /\ cases \in [Cases -> Document] /\ thread \in [Cases -> Checkpoint]
      /\ run[w].at = "save" /\ thread' = thread
      /\ thread[c].next \in Pending \cup {"absent", "end"}
  BY DEF DeskInv, BoardInv, RecordAdvice, TypeOK, StepTypeOK, StoreTypeOK, LocalTypeOK, Checkpoint
<1>2. CASE Leave(w) /\ UNCHANGED cases
  <2>1. OnlyRunOf(w) /\ ~Drives(w, c)' /\ ~AtCheckpoint(w, c)
    BY <1>1, <1>2 DEF Leave, NoRun, OnlyRunOf, Drives, AtCheckpoint
  <2> QED
    BY <1>1, <1>2, <2>1, ReviewGoesOn
<1>3. ASSUME CanSave(doc[w]), NEW v \in LeadDecisions,
             Put(AddEvent(doc[w], VerdictEvent[v], now)),
             Enter(w, [run[w] EXCEPT !.at = "checkpoint", !.state.verdict = v])
      PROVE  ReviewOK(c)'
  <2> DEFINE x == Of(w)
             n == Len(cases[x].events) + 1
             d == AddEvent(cases[x], VerdictEvent[v], now)
             r == [run[w] EXCEPT !.at = "checkpoint", !.state.verdict = v]
  <2>1. v \in DOMAIN VerdictEvent
    BY DEF LeadDecisions, Recommendation, VerdictEvent
  <2>2. /\ doc[w] = cases[x] /\ x \in Cases /\ Exists(x) /\ now \in Nat
        /\ VerdictEvent[v] \in EventName /\ VerdictEvent[v] \in Range(VerdictEvent)
        /\ d \in Document
    BY <1>1, <1>3, <2>1, AdviceOverwrites
  <2>3. cases[x] \in Document /\ cases[x].id = x
    BY <1>1, <2>2 DEF DeskInv, RowOK
  <2>4. Advice(d) = Advice(cases[x]) \cup {n} /\ d.id = x
    <3>1. Advice(d) = Advice(cases[x]) \cup {n}
      BY <2>2, <2>3, AdviceAdded
    <3>2. d.id = x
      BY <2>2, <2>3, AddEventFacts DEF Amends
    <3> QED
      BY <3>1, <3>2
  <2> HIDE DEF d, n
  <2>5. cases' = [cases EXCEPT ![x] = Bumped(d)]
    BY <1>3, <2>2, <2>4 DEF Put, d
  <2>6. /\ Advice(cases'[x]) = Advice(cases[x]) \cup {n}
        /\ \A y \in Cases \ {x} : cases'[y] = cases[y]
    BY <1>1, <2>2, <2>4, <2>5, BumpedFacts DEF Advice
  <2>7. r.at = "checkpoint" /\ r.case = run[w].case
    BY <1>1 DEF Run
  <2>8. run' = [run EXCEPT ![w] = r]
    BY <1>3 DEF Enter
  <2> HIDE DEF r
  <2>9. OnlyRunOf(w) /\ run'[w].at = "checkpoint" /\ Of(w)' = x
    BY <1>1, <2>7, <2>8 DEF Of, OnlyRunOf
  <2> HIDE DEF x
  <2>10. CASE c # x
    <3>1. ~Drives(w, c)' /\ ~AtCheckpoint(w, c)
      BY <1>1, <2>9, <2>10 DEF Drives, AtCheckpoint
    <3> QED
      BY <1>1, <2>6, <2>9, <2>10, <3>1, ReviewGoesOn
  <2>11. CASE c = x
    <3>1. Drives(w, c)
      BY <1>1, <2>11 DEF Drives, x
    <3>2. thread[c].next = "synthesize"
      BY <1>1, <3>1, StageNode DEF ReviewOK
    <3>3. \A u \in Workers : ~AtCheckpoint(u, c)
      BY <1>1, <3>1 DEF ReviewOK, Drives, AtCheckpoint
    <3>4. Advice(cases[c]) = {}
      BY <3>2, <3>3 DEF ReviewOK
    <3>5. Cardinality(Advice(cases'[c])) = 1
      BY <2>6, <2>11, <3>4, FS_Singleton
    <3>6. AtCheckpoint(w, c)' /\ Drives(w, c)'
      BY <2>9, <2>11 DEF AtCheckpoint, Drives
    <3>7. \A u, y \in Workers : Drives(u, c)' /\ Drives(y, c)' => u = y
      BY DEF Shared
    <3>8. \A u \in Workers : Drives(u, c)' => run'[u].at \in StagesAt[thread'[c].next]
      BY <1>1, <2>9, <3>2, <3>6, <3>7 DEF StagesAt
    <3> QED
      BY <3>5, <3>6, <3>7, <3>8 DEF ReviewOK
  <2> QED
    BY <2>10, <2>11
<1> QED
  BY <1>2, <1>3 DEF RecordAdvice

\* decide and the calls of review out of it record none.
LEMMA DecisionKeepsReview ==
  ASSUME DeskInv, NEW c \in Cases, ReviewOK(c), ~Shared(c)', NEW w \in Workers,
         Decide(w) \/ InReview(w)
  PROVE  ReviewOK(c)'
<1>1. /\ run \in [Workers -> Run] /\ run[w] \in Run /\ thread \in [Cases -> Checkpoint]
      /\ thread' = thread /\ run[w].at \in Applying \cup {"decide"}
      /\ thread[c].next \in Pending \cup {"absent", "end"}
  BY DEF DeskInv, BoardInv, Decide, InReview, Checkpoint, Applying
<1>2. Advice(cases'[c]) = Advice(cases[c])
  <2>1. CASE Decide(w)
    BY <2>1 DEF Decide, Apply, StartReview, Begin, storeVars
  <2>2. CASE InReview(w)
    BY <2>2, HandlersAreQuiet DEF InReview, Quiet
  <2> QED
    BY <2>1, <2>2
<1>3. \/ Leave(w)
      \/ \E stage \in Applying \cup {"finish"} : Proceed(w, stage)
      \/ run' = run
  <2>1. CASE Decide(w)
    BY <2>1 DEF Decide, Apply, Applying
  <2>2. CASE InReview(w)
    BY <2>2 DEF InReview
  <2> QED
    BY <2>1, <2>2
<1>4. /\ OnlyRunOf(w)
      /\ \/ run'[w].at = "off"
         \/ run'[w].at \in Applying \cup {"decide", "finish"} /\ Of(w)' = Of(w)
  <2>1. CASE Leave(w)
    BY <1>1, <2>1 DEF Leave, NoRun, OnlyRunOf
  <2>2. ASSUME NEW stage \in Applying \cup {"finish"}, Proceed(w, stage)
        PROVE  OnlyRunOf(w) /\ run'[w].at = stage /\ Of(w)' = Of(w)
    BY <1>1, <2>2 DEF Proceed, OnlyRunOf, Run, Of
  <2>3. CASE run' = run
    BY <1>1, <2>3 DEF OnlyRunOf, Of
  <2> QED
    BY <1>3, <2>1, <2>2, <2>3
<1>5. Drives(w, c)' => run'[w].at \in StagesAt[thread'[c].next]
  <2> SUFFICES ASSUME Drives(w, c)' PROVE run'[w].at \in StagesAt[thread[c].next]
    BY <1>1
  <2>1. run'[w].at \in Applying \cup {"decide", "finish"} /\ Of(w) = c
    BY <1>4 DEF Drives
  <2>2. Drives(w, c)
    BY <1>1, <2>1 DEF Drives, Applying
  <2>3. thread[c].next = "decide"
    BY <1>1, <2>2, StageNode DEF ReviewOK
  <2> QED
    BY <2>1, <2>3 DEF StagesAt, Applying
<1>6. ~AtCheckpoint(w, c)
  BY <1>1 DEF AtCheckpoint, Applying
<1> QED
  BY <1>1, <1>2, <1>4, <1>5, <1>6, ReviewGoesOn

\* At first no review has strayed from one.
LEMMA OnceStarts == Init /\ strayed = {} => OnceInv
<1> SUFFICES ASSUME Init, NEW c \in Cases PROVE ReviewOK(c)
  BY DEF OnceInv
<1>1. \A w \in Workers : ~Drives(w, c)
  BY DEF Init, BoardInit, NoRun, Drives
<1>2. Advice(cases[c]) = {}
  BY DEF Init, StoreInit, NoDocument, Advice
<1> QED
  BY <1>1, <1>2, FS_EmptySet DEF ReviewOK

\* Every step keeps the reviews that do not stray in it.
LEMMA OnceKeeps ==
  ASSUME DeskInv, OnceInv, [Next /\ Record]_<<vars, strayed>>
  PROVE  OnceInv'
<1> SUFFICES ASSUME NEW c \in Cases \ strayed' PROVE ReviewOK(c)'
  BY DEF OnceInv
<1>1. CASE UNCHANGED <<vars, strayed>>
  <2>1. c \in Cases \ strayed /\ Quiet /\ UNCHANGED boardVars
    BY <1>1 DEF vars, storeVars, Quiet
  <2> QED
    BY <2>1, ReviewRests DEF OnceInv
<1>2. CASE Next /\ Record
  <2>1. /\ c \in Cases \ strayed /\ ~Shared(c)' /\ ~CheckpointLost(c) /\ ~Renewed(c)
    BY <1>2 DEF Record
  <2>2. ReviewOK(c)
    BY <2>1 DEF OnceInv
  <2>3. ASSUME NEW w \in Workers, Arrival(w)
        PROVE  ReviewOK(c)'
    <3>1. CASE \/ \E x \in Cases, auto \in BOOLEAN : ReviewCase(w, x, auto)
               \/ \E x \in Cases, answer \in Answers : ResumeReview(w, x, answer)
      BY <2>1, <2>2, <3>1, ArrivalKeepsReview
    <3>2. ASSUME \/ \E x \in Cases, s \in Answers : StartReview(w, x, s)
                 \/ \E x \in Cases : StartCancel(w, x),
                 UNCHANGED boardVars
          PROVE  ReviewOK(c)'
      <4>1. Quiet
        BY <3>2 DEF StartReview, StartCancel, Begin, Quiet, storeVars
      <4> QED
        BY <2>1, <2>2, <3>2, <4>1, ReviewRests
    <3> QED
      BY <2>3, <3>1, <3>2 DEF Arrival, Finalize
  <2>4. ASSUME NEW w \in Workers, Progress(w)
        PROVE  ReviewOK(c)'
    <3>1. CASE /\ IssueLabel(w) \/ SaveCase(w) \/ Notify(w) \/ NoteNotice(w)
               /\ UNCHANGED boardVars
      BY <2>1, <2>2, <3>1, HandlersAreQuiet, ReviewRests
    <3>2. CASE Peek(w) \/ Clear(w) \/ Invoke(w) \/ Consult(w) \/ ReadCase(w)
               \/ CheckpointVerdict(w) \/ FinishThread(w) \/ Load(w)
      BY <2>1, <2>2, <3>2, RunKeepsReview
    <3>3. CASE RecordAdvice(w)
      BY <2>1, <2>2, <3>3, AdviceKeepsReview
    <3>4. CASE Decide(w) \/ InReview(w)
      BY <2>1, <2>2, <3>4, DecisionKeepsReview
    <3> QED
      BY <2>4, <3>1, <3>2, <3>3, <3>4 DEF Progress
  <2>5. ASSUME NEW x \in Cases, FileCase(x)
        PROVE  ReviewOK(c)'
    <3>1. Quiet /\ UNCHANGED boardVars
      BY <2>5, FilingIsQuiet DEF FileCase
    <3> QED
      BY <2>1, <2>2, <3>1, ReviewRests
  <2>6. CASE Crash
    BY <2>1, <2>2, <2>6, CrashKeepsReview
  <2> QED
    BY <1>2, <2>3, <2>4, <2>5, <2>6 DEF Next
<1> QED
  BY <1>1, <1>2

\* The observer only looks on.
LEMMA ObservedBoard == HistorySpec => Spec
<1>1. [Next /\ Record]_<<vars, strayed>> => [Next]_vars
  OBVIOUS
<1> QED
  BY <1>1, PTL DEF HistorySpec, Spec

\* Whatever is asked of the board at once, fails or crashes, its advice is recorded
\* once for a case, unless two requests drove the case's graph at once, the server
\* died between the advice and its checkpoint, or the thread was cleared.
THEOREM AdvisesOnce == HistorySpec => []AdviceOnce
<1>1. OnceInv => AdviceOnce
  BY DEF OnceInv, ReviewOK, AdviceOnce
<1>2. DeskInv /\ OnceInv /\ [Next /\ Record]_<<vars, strayed>> => OnceInv'
  BY OnceKeeps
<1> QED
  BY <1>1, <1>2, OnceStarts, ObservedBoard, DeskHolds, PTL DEF HistorySpec
=============================================================================

----------------------------- MODULE BoardService -----------------------------
(***************************************************************************)
(* The review board at work on escalated cases, next to agents who review  *)
(* and customers who cancel, on a server that may die.                     *)
(***************************************************************************)
EXTENDS ReviewBoard

CONSTANTS
  Desk,        \* what else is asked of the service: of "review", "finalize", "cancel"
  MaxCrashes   \* bound: how many times the server dies

ASSUME MaxCrashesAssumption == MaxCrashes \in Nat

VARIABLE crashes

vars == <<storeVars, now, notices, workerVars, boardVars, crashes>>

Init ==
  /\ StoreInit
  /\ StepInit
  /\ BoardInit
  /\ crashes = 0

\* create_return inserts a case the engine escalated.
Escalated(c, r) ==
  Transitioned(AddEvent([NoDocument EXCEPT !.id = c, !.req = r, !.status = "requested"],
                        "return_requested", now),
               "manual_review")

FileCase(c) ==
  /\ ~Exists(c)
  /\ \E r \in Requests : Put(Escalated(c, r))
  /\ UNCHANGED <<orders, keys, outbox, now, notices, workerVars, boardVars>>

\* A request reaches an idle worker.
Arrival(w) ==
  \/ \E c \in Cases, auto \in BOOLEAN : ReviewCase(w, c, auto)
  \/ \E c \in Cases, answer \in Answers : ResumeReview(w, c, answer)
  \/ "finalize" \in Desk /\ \E c \in Cases, s \in Answers : Finalize(w, c, s)
  \/ /\ run[w].at = "off"
     /\ \/ "review" \in Desk /\ \E c \in Cases, s \in Answers : StartReview(w, c, s)
        \/ "cancel" \in Desk /\ \E c \in Cases : StartCancel(w, c)
     /\ UNCHANGED boardVars

\* A worker makes the next call of the request it serves.
Progress(w) ==
  \/ Peek(w)
  \/ Clear(w)
  \/ Invoke(w)
  \/ Consult(w)
  \/ ReadCase(w)
  \/ RecordAdvice(w)
  \/ CheckpointVerdict(w)
  \/ Decide(w)
  \/ InReview(w)
  \/ FinishThread(w)
  \/ Load(w)
  \/ /\ run[w].at = "off"
     /\ IssueLabel(w) \/ SaveCase(w) \/ Notify(w) \/ NoteNotice(w)
     /\ UNCHANGED boardVars

\* The process dies: both databases stay, what threads held is gone.
Crash ==
  /\ crashes < MaxCrashes
  /\ crashes' = crashes + 1
  /\ op' = [w \in Workers |-> "none"]
  /\ pc' = [w \in Workers |-> "idle"]
  /\ doc' = [w \in Workers |-> NoDocument]
  /\ ask' = [w \in Workers |-> NoAsk]
  /\ rest' = [w \in Workers |-> {}]
  /\ run' = [w \in Workers |-> NoRun]
  /\ UNCHANGED <<storeVars, now, notices, thread>>

Next ==
  \/ \E w \in Workers : (Arrival(w) \/ Progress(w)) /\ UNCHANGED crashes
  \/ \E c \in Cases : FileCase(c) /\ UNCHANGED crashes
  \/ Crash

Spec == Init /\ [][Next]_vars

-----------------------------------------------------------------------------
\* Threads are scheduled, and calls of the store, the checkpointer, the models
\* and the carrier return or raise.
Scheduling == \A w \in Workers : WF_vars(Progress(w) /\ UNCHANGED crashes)

\* Humans answer again as long as a review asks for an answer, and the carrier
\* makes a label if it is asked often enough.
LabelMade(w) ==
  /\ InReview(w)
  /\ pc[w] = "label" /\ pc'[w] = "save"
  /\ UNCHANGED crashes

AnsweringSpec ==
  /\ Spec
  /\ Scheduling
  /\ \A w \in Workers :
       /\ SF_vars(LabelMade(w))
       /\ \A c \in Cases : SF_vars(ResumeReview(w, c, "rejected") /\ UNCHANGED crashes)
=============================================================================

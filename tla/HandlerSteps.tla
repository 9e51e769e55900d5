----------------------------- MODULE HandlerSteps -----------------------------
(***************************************************************************)
(* The steps the handlers of app/orchestrator.py are made of.  A request   *)
(* is served by a worker thread; threads share the store and the outside   *)
(* world, and each holds in doc the ReturnCase it read or built.  A step   *)
(* ends at the next call that leaves the thread: of the store, the         *)
(* carrier, the notifier, the order system or the payment gateway.         *)
(***************************************************************************)
EXTENDS ReturnStore

CONSTANTS
  Workers,     \* threads of the server's pool
  MaxNow       \* bound: how far the clock goes

ASSUME MaxNowAssumption == MaxNow \in Nat

VARIABLES
  now,         \* the clock, in units of which LabelExpiry is a number
  notices,     \* <<case, status>>: notices the customer has received
  op,          \* the request a worker serves, "none" when idle
  pc,          \* the call it is about to make
  doc,         \* its ReturnCase
  ask,         \* create_return: its request, key and the order it read
  rest         \* sweep_expired_labels: documents it has still to visit

workerVars == <<op, pc, doc, ask, rest>>

Ops == {"none", "create", "review", "cancel", "carrier", "sweep", "inspect", "flush"}

Calls == {"idle", "lookup", "order", "check", "label", "save", "record",
          "notify", "note", "next", "replace", "enqueue", "list", "pay",
          "mark_executed", "mark_pending"}

NoAsk == [req |-> None, key |-> None, book |-> None]

Ask == [req : Requests \cup {None}, key : Keys \cup {None}, book : Books \cup {None}]

\* What a thread holds.
LocalTypeOK ==
  /\ op \in [Workers -> Ops]
  /\ pc \in [Workers -> Calls]
  /\ doc \in [Workers -> Document]
  /\ ask \in [Workers -> Ask]
  /\ rest \in [Workers -> SUBSET Document]

StepTypeOK ==
  /\ now \in 0..MaxNow
  /\ notices \subseteq (Cases \X ReturnStatus)
  /\ LocalTypeOK

NobodyAtWork ==
  /\ op = [w \in Workers |-> "none"]
  /\ pc = [w \in Workers |-> "idle"]
  /\ doc = [w \in Workers |-> NoDocument]
  /\ ask = [w \in Workers |-> NoAsk]
  /\ rest = [w \in Workers |-> {}]

StepInit == now = 0 /\ notices = {} /\ NobodyAtWork

-----------------------------------------------------------------------------
\* A request arrives at an idle worker, which makes its first calls on case d.
Begin(w, o, call, d) ==
  /\ pc[w] = "idle"
  /\ op' = [op EXCEPT ![w] = o]
  /\ pc' = [pc EXCEPT ![w] = call]
  /\ doc' = [doc EXCEPT ![w] = d]
  /\ UNCHANGED <<ask, rest>>

\* The handler goes on to its next call, with d for its case.
Goto(w, call, d) ==
  /\ pc' = [pc EXCEPT ![w] = call]
  /\ doc' = [doc EXCEPT ![w] = d]
  /\ UNCHANGED <<op, ask, rest>>

\* The handler returns, or lets an exception out.
Finish(w) ==
  /\ op' = [op EXCEPT ![w] = "none"]
  /\ pc' = [pc EXCEPT ![w] = "idle"]
  /\ doc' = [doc EXCEPT ![w] = NoDocument]
  /\ ask' = [ask EXCEPT ![w] = NoAsk]
  /\ rest' = [rest EXCEPT ![w] = {}]

\* _transition, once CanMove has allowed it.
Transitioned(d, target) == [AddEvent(d, target, now) EXCEPT !.status = target]

-----------------------------------------------------------------------------
\* No document anywhere carries the tracking number: the carrier's are fresh.
Unused(t) ==
  /\ \A c \in Cases : cases[c].label # t
  /\ \A w \in Workers : doc[w].label # t

Labelled(d, t) == Transitioned([d EXCEPT !.label = t], "label_issued")

\* _issue_label: the carrier makes a label, or the call raises.
IssueLabel(w) ==
  /\ pc[w] = "label"
  /\ \/ /\ CanMove(doc[w].status, "label_issued")
        /\ \E t \in Labels : Unused(t) /\ Goto(w, "save", Labelled(doc[w], t))
     \/ Finish(w)
  /\ UNCHANGED <<storeVars, now, notices>>

\* Outcomes a handler tells the customer of once they are saved.
Announced == {"rejected", "expired", "exchanged", "closed_failed_inspection"}

\* The call that follows a successful save of the case, "idle" for a return.
AfterSave(w) ==
  IF op[w] = "create" /\ ask[w].key # None THEN "record"
  ELSE IF op[w] = "inspect" /\ doc[w].status \in {"refunded", "credited"} THEN "list"
  ELSE IF op[w] # "carrier" /\ doc[w].status \in Announced THEN "notify"
  ELSE "idle"

\* Mutant of SaveCase: the ConcurrencyError is swallowed and the handler goes on.
SaveRegardless(w) ==
  /\ pc[w] = "save"
  /\ IF CanSave(doc[w]) THEN Put(doc[w]) ELSE UNCHANGED cases
  /\ IF AfterSave(w) = "idle" THEN Finish(w) ELSE Goto(w, AfterSave(w), Bumped(doc[w]))
  /\ UNCHANGED <<orders, keys, outbox, now, notices>>

\* The handler's store.save.  A ConcurrencyError goes to the caller (409); in
\* a sweep it ends the whole sweep.
SaveCase(w) ==
  /\ pc[w] = "save"
  /\ \/ /\ CanSave(doc[w])
        /\ Put(doc[w])
        /\ IF AfterSave(w) = "idle" THEN Finish(w) ELSE Goto(w, AfterSave(w), Bumped(doc[w]))
     \/ ~CanSave(doc[w]) /\ Finish(w) /\ UNCHANGED cases
  /\ UNCHANGED <<orders, keys, outbox, now, notices>>

\* After the notice a sweep visits its next case; any other handler returns.
AfterNotice(w) ==
  IF op[w] = "sweep" THEN Goto(w, "next", NoDocument) ELSE Finish(w)

\* _notify, the notifier's part: the notice reaches the customer, or the call
\* raises and the exception is swallowed.
Notify(w) ==
  /\ pc[w] = "notify"
  /\ \/ /\ notices' = notices \cup {<<doc[w].id, doc[w].status>>}
        /\ Goto(w, "note", AddEvent(doc[w], "customer_notified", now))
     \/ AfterNotice(w) /\ UNCHANGED notices
  /\ UNCHANGED <<storeVars, now>>

\* _notify, the audit event: saved, or lost to a newer version of the row.
NoteNotice(w) ==
  /\ pc[w] = "note"
  /\ IF CanSave(doc[w]) THEN Put(doc[w]) ELSE UNCHANGED cases
  /\ AfterNotice(w)
  /\ UNCHANGED <<orders, keys, outbox, now, notices>>

\* Time passes.
Tick ==
  /\ now < MaxNow
  /\ now' = now + 1
  /\ UNCHANGED <<storeVars, notices, workerVars>>
=============================================================================

---------------------------- MODULE ReturnsService ----------------------------
(***************************************************************************)
(* The returns service: every handler of the orchestrator, run by several  *)
(* worker threads over one store, with a clock and a server that may die.  *)
(***************************************************************************)
EXTENDS Intake, CaseActions, Settlement

CONSTANTS
  Offered,     \* the operations clients call, of Ops, "register" and "crash"
  MaxCrashes,  \* bound: how many times the server dies
  Payable      \* entries the gateway is willing to pay in the end (fairness)

ASSUME MaxCrashesAssumption == MaxCrashes \in Nat

VARIABLE crashes

vars == <<storeVars, now, notices, workerVars, moneyVars, crashes>>

Init ==
  /\ StoreInit
  /\ StepInit
  /\ SettlementInit
  /\ crashes = 0

\* POST /returns.
CreateReturn(w) ==
  /\ "create" \in Offered
  /\ \E r \in Requests, k \in HeaderValues : StartCreate(w, r, k)
  /\ UNCHANGED moneyVars

\* POST /returns/{case_id}/review, /inspection and /cancel.
CaseCall(w) ==
  \/ "review" \in Offered /\ \E c \in Cases, s \in {"approved", "rejected"} : StartReview(w, c, s)
                          /\ UNCHANGED moneyVars
  \/ "inspect" \in Offered /\ \E c \in Cases : StartFailedInspection(w, c)
  \/ "inspect" \in Offered /\ \E c \in Cases : StartPassedInspection(w, c)
  \/ "cancel" \in Offered /\ \E c \in Cases : StartCancel(w, c) /\ UNCHANGED moneyVars

\* POST /webhooks/carrier.
CarrierWebhook(w) ==
  /\ "carrier" \in Offered
  /\ \/ \E t \in Labels, s \in {"in_transit", "received"} : StartCarrierMove(w, t, s)
     \/ \E t \in Labels : StartCarrierNote(w, t)
  /\ UNCHANGED moneyVars

\* POST /internal/outbox/flush and /internal/sweep-expired.
InternalCall(w) ==
  \/ "flush" \in Offered /\ StartFlush(w)
  \/ "sweep" \in Offered /\ StartSweep(w) /\ UNCHANGED moneyVars

\* A request reaches an idle worker.
Arrival(w) == CreateReturn(w) \/ CaseCall(w) \/ CarrierWebhook(w) \/ InternalCall(w)

\* A worker makes the next call of the request it serves.
Progress(w) ==
  \/ /\ \/ LookupKey(w)
        \/ ReadOrder(w)
        \/ CheckAndDecide(w)
        \/ RecordKey(w)
        \/ SweepNext(w)
        \/ IssueLabel(w)
        \/ SaveCase(w)
        \/ Notify(w)
        \/ NoteNotice(w)
     /\ UNCHANGED moneyVars
  \/ CreateReplacement(w)
  \/ EnqueuePayment(w)
  \/ ListPending(w)
  \/ Pay(w)
  \/ MarkExecuted(w)
  \/ MarkPending(w)
  \/ EndFlush(w)

\* The merchant's systems register an order.
Register ==
  "register" \in Offered /\ \E o \in OrderIds, b \in Books : RegisterOrder(o, b)

\* The process dies: what was committed stays, what threads held is gone.
Crash ==
  /\ "crash" \in Offered
  /\ crashes < MaxCrashes
  /\ crashes' = crashes + 1
  /\ op' = [w \in Workers |-> "none"]
  /\ pc' = [w \in Workers |-> "idle"]
  /\ doc' = [w \in Workers |-> NoDocument]
  /\ ask' = [w \in Workers |-> NoAsk]
  /\ rest' = [w \in Workers |-> {}]
  /\ batch' = [w \in Workers |-> {}]
  /\ UNCHANGED <<storeVars, now, notices, moved, replaced>>

Next ==
  \/ \E w \in Workers : (Arrival(w) \/ Progress(w)) /\ UNCHANGED crashes
  \/ (Register \/ Tick) /\ UNCHANGED <<moneyVars, crashes>>
  \/ Crash

Spec == Init /\ [][Next]_vars

-----------------------------------------------------------------------------
\* A thread the operating system schedules makes its next call, and every
\* call of an outside system returns or raises.
Scheduling == \A w \in Workers : WF_vars(Progress(w) /\ UNCHANGED crashes)

FairSpec == Spec /\ Scheduling

\* Operators flush again and again, and entries the gateway is willing to pay
\* are accepted if they are tried often enough.
Accepted(w, e) ==
  /\ PayEntry(w, e)
  /\ pc'[w] = "mark_executed"
  /\ UNCHANGED crashes

RetrySpec ==
  /\ FairSpec
  /\ \A w \in Workers :
       /\ SF_vars(StartFlush(w) /\ UNCHANGED crashes)
       /\ \A e \in Payable : SF_vars(Accepted(w, e))
=============================================================================

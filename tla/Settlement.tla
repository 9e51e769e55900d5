------------------------------ MODULE Settlement ------------------------------
(***************************************************************************)
(* record_inspection with _settle, and flush_outbox: the handlers that     *)
(* create replacement orders and move money.  Settling a refund or store   *)
(* credit records a payment_outbox entry, saves the case, and then runs    *)
(* the same flush the operators' endpoint runs, over every pending entry   *)
(* of every case.                                                          *)
(***************************************************************************)
EXTENDS HandlerSteps

CONSTANTS
  MaxEntries,        \* bound: rows of payment_outbox
  MaxReplacements    \* bound: replacement orders of one case

VARIABLES
  moved,       \* outbox entries whose money the gateway has moved, keyed by
               \* the entry's id: it honours the idempotency key it is given
  replaced,    \* how many replacement orders the order system holds per case
  batch        \* flush_outbox: the entries a worker has still to try

moneyVars == <<moved, replaced, batch>>

SettlementTypeOK ==
  /\ moved \subseteq (1..Len(outbox))
  /\ replaced \in [Cases -> Nat]
  /\ batch \in [Workers -> SUBSET (1..Len(outbox))]

SettlementInit ==
  /\ moved = {}
  /\ replaced = [c \in Cases |-> 0]
  /\ batch = [w \in Workers |-> {}]

Wants(d) == d.req.resolution

\* Where a passed inspection takes the case.
Settled(d) == Transitioned(d, ResolutionToStatus[Wants(d)])

\* Mutant of PaymentKind: store credit is paid out as a refund.
RefundAlways(d) == "refund"

PaymentKind(d) == IF Wants(d) = "refund" THEN "refund" ELSE "store_credit"

-----------------------------------------------------------------------------
\* A failed inspection closes the case.
StartFailedInspection(w, c) ==
  /\ Exists(c)
  /\ CanMove(cases[c].status, "inspecting")
  /\ Begin(w, "inspect", "save",
           Transitioned(Transitioned(cases[c], "inspecting"), "closed_failed_inspection"))
  /\ UNCHANGED <<storeVars, now, notices, moneyVars>>

\* A passed one settles it: an exchange calls the order system before the
\* case leaves inspecting, money is recorded after.
StartPassedInspection(w, c) ==
  /\ Exists(c)
  /\ CanMove(cases[c].status, "inspecting")
  /\ LET inspecting == Transitioned(cases[c], "inspecting") IN
       IF Wants(inspecting) = "exchange"
       THEN Begin(w, "inspect", "replace", inspecting)
       ELSE Begin(w, "inspect", "enqueue", Settled(inspecting))
  /\ UNCHANGED <<storeVars, now, notices, moneyVars>>

\* create_replacement_order makes the order, or raises, before or after it did.
CreateReplacement(w) ==
  /\ pc[w] = "replace"
  /\ \/ /\ replaced[doc[w].id] < MaxReplacements
        /\ replaced' = [replaced EXCEPT ![doc[w].id] = @ + 1]
        /\ \/ Goto(w, "save", Settled([doc[w] EXCEPT !.replacement = replaced'[doc[w].id]]))
           \/ Finish(w)
     \/ Finish(w) /\ UNCHANGED replaced
  /\ UNCHANGED <<storeVars, now, notices, moved, batch>>

\* outbox_enqueue: the intent, recorded before the case is saved.
EnqueuePayment(w) ==
  /\ pc[w] = "enqueue"
  /\ Len(outbox) < MaxEntries
  /\ OutboxEnqueue(doc[w].id, PaymentKind(doc[w]))
  /\ Goto(w, "save", doc[w])
  /\ UNCHANGED <<cases, orders, keys, now, notices, moneyVars>>

-----------------------------------------------------------------------------
\* POST /internal/outbox/flush.
StartFlush(w) ==
  /\ Begin(w, "flush", "list", doc[w])
  /\ UNCHANGED <<storeVars, now, notices, moneyVars>>

ListPending(w) ==
  /\ pc[w] = "list"
  /\ batch' = [batch EXCEPT ![w] = OutboxPending]
  /\ Goto(w, "pay", doc[w])
  /\ UNCHANGED <<storeVars, now, notices, moved, replaced>>

\* Entries are tried oldest first.
Oldest(w) == {e \in batch[w] : \A f \in batch[w] : e <= f}

\* Mutant of PayEntry: the gateway's refusal is taken for a success.
PayUnheard(w, e) ==
  /\ pc[w] = "pay"
  /\ e \in Oldest(w)
  /\ moved' \in {moved, moved \cup {e}}
  /\ Goto(w, "mark_executed", doc[w])
  /\ UNCHANGED <<storeVars, now, notices, replaced, batch>>

\* The gateway moves the money and says so; or refuses; or moves it and the
\* answer is lost.
PayEntry(w, e) ==
  /\ pc[w] = "pay"
  /\ e \in Oldest(w)
  /\ \/ moved' = moved \cup {e} /\ Goto(w, "mark_executed", doc[w])
     \/ moved' = moved /\ Goto(w, "mark_pending", doc[w])
     \/ moved' = moved \cup {e} /\ Goto(w, "mark_pending", doc[w])
  /\ UNCHANGED <<storeVars, now, notices, replaced, batch>>

Pay(w) == \E e \in batch[w] : PayEntry(w, e)

\* outbox_mark, and on to the next entry: a failure does not end the flush.
MarkAs(w, call, s) ==
  /\ pc[w] = call
  /\ \E e \in Oldest(w) :
       /\ OutboxMark(e, s)
       /\ batch' = [batch EXCEPT ![w] = @ \ {e}]
  /\ Goto(w, "pay", doc[w])
  /\ UNCHANGED <<cases, orders, keys, now, notices, moved, replaced>>

MarkExecuted(w) == MarkAs(w, "mark_executed", "executed")

\* Mutant of MarkPending: a status nobody flushes again.
MarkFailed(w) == MarkAs(w, "mark_pending", "failed")

\* Mutant of MarkPending: the entry is tried again at once.
MarkAndRetry(w) ==
  /\ pc[w] = "mark_pending"
  /\ \E e \in Oldest(w) : OutboxMark(e, "pending")
  /\ Goto(w, "pay", doc[w])
  /\ UNCHANGED <<cases, orders, keys, now, notices, moneyVars>>

\* Mutant of MarkPending: a failure ends the flush.
MarkAndStop(w) ==
  /\ pc[w] = "mark_pending"
  /\ \E e \in Oldest(w) : OutboxMark(e, "pending")
  /\ batch' = [batch EXCEPT ![w] = {}]
  /\ Goto(w, "pay", doc[w])
  /\ UNCHANGED <<cases, orders, keys, now, notices, moved, replaced>>

MarkPending(w) == MarkAs(w, "mark_pending", "pending")

\* The end of a flush: of the request, or of the one inside _settle, which
\* goes on to tell the customer whatever became of the payment.
EndFlush(w) ==
  /\ pc[w] = "pay" /\ batch[w] = {}
  /\ IF op[w] = "inspect" THEN Goto(w, "notify", doc[w]) ELSE Finish(w)
  /\ UNCHANGED <<storeVars, now, notices, moneyVars>>
=============================================================================

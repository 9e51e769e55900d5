--------------------------- MODULE SettlementProofs ---------------------------
(***************************************************************************)
(* Money and goods: what stands behind settled cases, and, next to the     *)
(* observer of ServiceHistory, that a case has one payment and one         *)
(* replacement, a key one case and an order no more returns than units,    *)
(* but for what a race, a lost answer or a crash did.                      *)
(***************************************************************************)
EXTENDS ServiceTheorems, HistoryInvariant, BasicProofs, FiniteSetTheorems

-----------------------------------------------------------------------------
(* The outbox and the gateway.                                             *)

\* How the outbox changes: an intent is recorded, or one is marked.
LEMMA OutboxSteps ==
  ASSUME [Next]_vars
  PROVE  \/ outbox' = outbox
         \/ \E w \in Workers : EnqueuePayment(w) \/ MarkExecuted(w) \/ MarkPending(w)
<1>1. ASSUME NEW w \in Workers, Arrival(w)
      PROVE  outbox' = outbox
  BY <1>1 DEF Arrival, CreateReturn, CaseCall,
     CarrierWebhook, InternalCall, StartCreate, StartReview, StartCancel, StartCarrierMove,
     StartCarrierNote, StartSweep, StartFailedInspection, StartPassedInspection,
     StartFlush, storeVars
<1>2. ASSUME NEW w \in Workers, Progress(w)
      PROVE  \/ outbox' = outbox
             \/ EnqueuePayment(w) \/ MarkExecuted(w) \/ MarkPending(w)
  BY <1>2 DEF Progress, LookupKey, ReadOrder, CheckAndDecide, RecordKey, SweepNext, IssueLabel,
     SaveCase, Notify, NoteNotice, CreateReplacement, ListPending, Pay, PayEntry, EndFlush,
     storeVars
<1>3. Register \/ Tick \/ Crash \/ UNCHANGED vars => outbox' = outbox
  BY DEF Register, RegisterOrder, Tick, Crash, vars, storeVars
<1> QED
  BY <1>1, <1>2, <1>3 DEF Next

\* A new intent comes last, and is pending.
LEMMA EnqueueAppends ==
  ASSUME IInv, NEW w \in Workers, EnqueuePayment(w)
  PROVE  LET n == Len(outbox) + 1 IN
           /\ DOMAIN outbox' = DOMAIN outbox \cup {n} /\ n \notin DOMAIN outbox
           /\ n \notin moved
           /\ \A e \in DOMAIN outbox : outbox'[e] = outbox[e]
           /\ outbox'[n] = [case |-> doc[w].id, kind |-> PaymentKind(doc[w]),
                            status |-> "pending"]
<1>1. outbox \in Seq(Entry) /\ moved \subseteq 1..Len(outbox)
  BY DEF IInv, TypeOK, StoreTypeOK, SettlementTypeOK
<1>2. outbox' = Append(outbox, [case |-> doc[w].id, kind |-> PaymentKind(doc[w]),
                               status |-> "pending"])
  BY DEF EnqueuePayment, OutboxEnqueue
<1> QED
  BY <1>1, <1>2

\* Entry e has been given status s, and is done with.
Marked(w, e, s) ==
  /\ e \in DOMAIN outbox /\ DOMAIN outbox' = DOMAIN outbox
  /\ outbox'[e] = [outbox[e] EXCEPT !.status = s]
  /\ \A f \in DOMAIN outbox : f # e => outbox'[f] = outbox[f]
  /\ batch'[w] = batch[w] \ {e}

\* Marking changes the status of the oldest entry of the thread's batch.
LEMMA MarkChanges ==
  ASSUME IInv, NEW w \in Workers, NEW call, NEW s \in {"pending", "executed"},
         MarkAs(w, call, s)
  PROVE  pc[w] = call /\ \E e \in Oldest(w) : Marked(w, e, s)
<1>1. outbox \in Seq(Entry) /\ batch \in [Workers -> SUBSET (1..Len(outbox))]
  BY DEF IInv, TypeOK, StoreTypeOK, SettlementTypeOK
<1>2. PICK e \in Oldest(w) : OutboxMark(e, s) /\ batch' = [batch EXCEPT ![w] = @ \ {e}]
  BY DEF MarkAs
<1>3. e \in DOMAIN outbox
  BY <1>1 DEF Oldest
<1> QED
  BY <1>1, <1>2, <1>3 DEF MarkAs, OutboxMark, Marked

\* Entries stay, with the case and the kind they were recorded with.
LEMMA EntriesStay ==
  ASSUME IInv, [Next]_vars, NEW e \in DOMAIN outbox
  PROVE  e \in DOMAIN outbox' /\ outbox'[e].case = outbox[e].case
                             /\ outbox'[e].kind = outbox[e].kind
<1>1. outbox[e] \in Entry
  BY DEF IInv, TypeOK, StoreTypeOK
<1>2. ASSUME NEW w \in Workers, EnqueuePayment(w)
      PROVE  e \in DOMAIN outbox' /\ outbox'[e] = outbox[e]
  BY <1>2, EnqueueAppends
<1>3. ASSUME NEW w \in Workers, NEW call, NEW s \in {"pending", "executed"}, MarkAs(w, call, s)
      PROVE  e \in DOMAIN outbox' /\ outbox'[e].case = outbox[e].case
                                 /\ outbox'[e].kind = outbox[e].kind
  <2>1. PICK f \in Oldest(w) : Marked(w, f, s)
    BY <1>3, MarkChanges
  <2> QED
    BY <1>1, <2>1 DEF Entry, Marked
<1> QED
  BY <1>2, <1>3, OutboxSteps DEF MarkExecuted, MarkPending

\* Money moves in a payment only, of the oldest entry of the thread's batch.
LEMMA MovedSteps ==
  ASSUME [Next]_vars
  PROVE  \/ moved' = moved
         \/ \E w \in Workers : pc[w] = "pay" /\ outbox' = outbox
                                 /\ \E e \in Oldest(w) : moved' = moved \cup {e}
<1>1. ASSUME NEW w \in Workers, Arrival(w)
      PROVE  moved' = moved
  BY <1>1 DEF Arrival, CreateReturn, CaseCall,
     CarrierWebhook, InternalCall, StartFailedInspection, StartPassedInspection, StartFlush, moneyVars
<1>2. ASSUME NEW w \in Workers, Progress(w)
      PROVE  moved' = moved \/ \E e \in batch[w] : PayEntry(w, e)
  BY <1>2 DEF Progress, CreateReplacement, EnqueuePayment, ListPending, Pay, MarkExecuted,
     MarkPending, MarkAs, EndFlush, moneyVars
<1>3. ASSUME NEW w \in Workers, NEW e \in batch[w], PayEntry(w, e)
      PROVE  \/ moved' = moved
             \/ pc[w] = "pay" /\ outbox' = outbox /\ e \in Oldest(w) /\ moved' = moved \cup {e}
  BY <1>3 DEF PayEntry, storeVars
<1>4. Crash \/ UNCHANGED vars => moved' = moved
  BY DEF Crash, vars, moneyVars
<1> QED
  BY <1>1, <1>2, <1>3, <1>4 DEF Next, moneyVars

\* How a thread comes to mark an entry executed: the gateway has just paid it, or
\* it was about to already.
LEMMA MarkersComeFrom ==
  ASSUME IInv, [Next]_vars, NEW v \in Workers, pc'[v] = "mark_executed"
  PROVE  /\ Oldest(v)' = Oldest(v)
         /\ \/ pc[v] = "mark_executed"
            \/ \E e \in Oldest(v) : moved' = moved \cup {e}
<1>1. /\ pc \in [Workers -> Calls] /\ batch \in [Workers -> SUBSET (1..Len(outbox))]
  BY DEF IInv, TypeOK, StepTypeOK, LocalTypeOK, SettlementTypeOK
<1>2. batch'[v] = batch[v] => Oldest(v)' = Oldest(v)
  BY DEF Oldest
<1>3. \A o, call, d : Begin(v, o, call, d) => pc'[v] = call
  BY <1>1 DEF Begin
<1>4. \A call, d : Goto(v, call, d) => pc'[v] = call
  BY <1>1 DEF Goto
<1>5. ~Finish(v)
  BY <1>1 DEF Finish
<1>6. ~Arrival(v)
  BY <1>1, <1>3 DEF Arrival, CreateReturn, CaseCall,
     CarrierWebhook, InternalCall, StartCreate, StartReview, StartCancel, StartCarrierMove,
     StartCarrierNote, StartSweep, StartFailedInspection, StartPassedInspection, StartFlush
<1>7. CASE Progress(v)
  <2>1. AfterSave(v) # "mark_executed"
    BY DEF AfterSave
  <2>2. ~(LookupKey(v) \/ ReadOrder(v) \/ CheckAndDecide(v) \/ RecordKey(v) \/ SweepNext(v)
            \/ IssueLabel(v) \/ SaveCase(v) \/ Notify(v) \/ NoteNotice(v))
    BY <1>1, <1>4, <1>5, <2>1 DEF LookupKey, ReadOrder, CheckAndDecide, RecordKey, SweepNext,
       IssueLabel, SaveCase, Notify, NoteNotice, AfterNotice
  <2>3. ~(CreateReplacement(v) \/ EnqueuePayment(v) \/ ListPending(v) \/ MarkExecuted(v)
            \/ MarkPending(v) \/ EndFlush(v))
    BY <1>4, <1>5 DEF CreateReplacement, EnqueuePayment, ListPending, MarkExecuted,
       MarkPending, MarkAs, EndFlush
  <2>4. PICK e \in batch[v] : PayEntry(v, e)
    BY <1>7, <2>2, <2>3 DEF Progress, Pay
  <2>5. e \in Oldest(v) /\ moved' = moved \cup {e} /\ batch' = batch
    BY <1>4, <2>4 DEF PayEntry
  <2> QED
    BY <1>2, <2>5
<1>8. ASSUME NEW w \in Workers \ {v}, Arrival(w) \/ Progress(w)
      PROVE  pc'[v] = pc[v] /\ batch'[v] = batch[v]
  <2>1. pc'[v] = pc[v]
    BY <1>8, OneThread DEF Idles
  <2>2. batch'[v] = batch[v]
    BY <1>1, <1>8 DEF Arrival, CreateReturn, CaseCall,
     CarrierWebhook, InternalCall, Progress, StartFailedInspection, StartPassedInspection,
       StartFlush, CreateReplacement, EnqueuePayment, ListPending, Pay, PayEntry,
       MarkExecuted, MarkPending, MarkAs, EndFlush, moneyVars
  <2> QED
    BY <2>1, <2>2
<1>9. Register \/ Tick => pc'[v] = pc[v]
  BY DEF Register, RegisterOrder, Tick, workerVars
<1>10. UNCHANGED vars => pc'[v] = pc[v] /\ batch'[v] = batch[v]
  BY DEF vars, workerVars, moneyVars
<1>11. ~Crash
  BY DEF Crash
<1> QED
  BY <1>2, <1>6, <1>7, <1>8, <1>9, <1>10, <1>11 DEF Next, moneyVars

\* No step marks an entry executed that the gateway has not paid.
LEMMA PaidInvKeeps ==
  ASSUME PaidInv, [Next]_vars
  PROVE  PaidInv'
<1>1. IInv /\ IInv'
  BY NextKeeps DEF PaidInv
<1>2. moved \subseteq moved'
  BY MovedSteps
<1>3. ASSUME NEW v \in Workers, pc'[v] = "mark_executed"
      PROVE  Oldest(v)' \subseteq moved'
  <2>1. CASE pc[v] = "mark_executed"
    BY <1>1, <1>2, <1>3, <2>1, MarkersComeFrom DEF PaidInv
  <2>2. CASE \E e \in Oldest(v) : moved' = moved \cup {e}
    <3>1. PICK e \in Oldest(v) : moved' = moved \cup {e}
      BY <2>2
    <3>2. \A f \in Oldest(v) : f = e
      <4>1. batch[v] \subseteq Nat
        BY <1>1 DEF IInv, TypeOK, SettlementTypeOK, StoreTypeOK
      <4> QED
        BY <4>1 DEF Oldest
    <3>3. Oldest(v)' = Oldest(v)
      BY <1>1, <1>3, MarkersComeFrom
    <3> QED
      BY <3>1, <3>2, <3>3
  <2> QED
    BY <1>1, <1>3, <2>1, <2>2, MarkersComeFrom
<1>4. ASSUME NEW e \in DOMAIN outbox', outbox'[e].status = "executed"
      PROVE  e \in moved'
  <2>1. CASE outbox' = outbox
    BY <1>2, <1>4, <2>1 DEF PaidInv, ExecutedWasPaid
  <2>2. ASSUME NEW w \in Workers, EnqueuePayment(w)
        PROVE  e \in moved'
    <3> DEFINE n == Len(outbox) + 1
    <3>1. /\ DOMAIN outbox' = DOMAIN outbox \cup {n}
          /\ \A f \in DOMAIN outbox : outbox'[f] = outbox[f]
          /\ outbox'[n] = [case |-> doc[w].id, kind |-> PaymentKind(doc[w]),
                           status |-> "pending"]
      BY <1>1, <2>2, EnqueueAppends
    <3>2. outbox'[n].status = "pending"
      BY <3>1
    <3> HIDE DEF n
    <3> QED
      BY <1>2, <1>4, <3>1, <3>2 DEF PaidInv, ExecutedWasPaid
  <2>3. ASSUME NEW w \in Workers, MarkExecuted(w)
        PROVE  e \in moved'
    <3>1. Oldest(w) \subseteq moved
      BY <2>3 DEF PaidInv, MarkExecuted, MarkAs
    <3> QED
      BY <1>1, <1>2, <1>4, <2>3, <3>1, MarkChanges
       DEF PaidInv, ExecutedWasPaid, MarkExecuted, Marked
  <2>4. ASSUME NEW w \in Workers, MarkPending(w)
        PROVE  e \in moved'
    <3>1. PICK f \in Oldest(w) : Marked(w, f, "pending")
      BY <1>1, <2>4, MarkChanges DEF MarkPending
    <3>2. outbox'[f].status = "pending"
      BY <1>1, <3>1 DEF IInv, TypeOK, StoreTypeOK, Entry, Marked
    <3> QED
      BY <1>2, <1>4, <3>1, <3>2 DEF PaidInv, ExecutedWasPaid, Marked
  <2> QED
    BY <2>1, <2>2, <2>3, <2>4, OutboxSteps
<1> QED
  BY <1>1, <1>3, <1>4 DEF PaidInv, ExecutedWasPaid

\* An entry that is marked executed is one whose money has moved, whatever answers
\* are lost and however many flushes run at once.
THEOREM ExecutedMeansPaid == Spec => []ExecutedWasPaid
<1>1. Init => PaidInv
  <2>1. Init => IInv
    BY InitKeeps
  <2>2. ASSUME Init
        PROVE  outbox = <<>> /\ \A w \in Workers : pc[w] = "idle"
    BY <2>2 DEF Init, StoreInit, StepInit, NobodyAtWork
  <2> QED
    BY <2>1, <2>2 DEF PaidInv, ExecutedWasPaid
<1>2. PaidInv /\ [Next]_vars => PaidInv'
  BY PaidInvKeeps
<1>3. PaidInv => ExecutedWasPaid
  BY DEF PaidInv
<1> QED
  BY <1>1, <1>2, <1>3, PTL DEF Spec

-----------------------------------------------------------------------------
(* What stands behind settled cases.                                       *)

\* No replacement order goes away, and only the call for one makes another.
LEMMA ReplacedSteps ==
  ASSUME [Next]_vars
  PROVE  \/ replaced' = replaced
         \/ \E w \in Workers : CreateReplacement(w)
                                 /\ replaced' = [replaced EXCEPT ![doc[w].id] = @ + 1]
<1>1. ASSUME NEW w \in Workers, Arrival(w)
      PROVE  replaced' = replaced
  BY <1>1 DEF Arrival, CreateReturn, CaseCall,
     CarrierWebhook, InternalCall, StartFailedInspection, StartPassedInspection, StartFlush, moneyVars
<1>2. ASSUME NEW w \in Workers, Progress(w)
      PROVE  \/ replaced' = replaced
             \/ CreateReplacement(w) /\ replaced' = [replaced EXCEPT ![doc[w].id] = @ + 1]
  <2>1. CASE CreateReplacement(w)
    BY <2>1 DEF CreateReplacement
  <2>2. CASE ~CreateReplacement(w)
    BY <1>2, <2>2 DEF Progress, EnqueuePayment, ListPending, Pay, PayEntry, MarkExecuted,
       MarkPending, MarkAs, EndFlush, moneyVars
  <2> QED
    BY <2>1, <2>2
<1>3. Crash \/ UNCHANGED vars => replaced' = replaced
  BY DEF Crash, vars, moneyVars
<1> QED
  BY <1>1, <1>2, <1>3 DEF Next, moneyVars

\* Replacement orders are never unmade.
LEMMA ReplacedGrows ==
  ASSUME IInv, [Next]_vars, NEW c \in Cases
  PROVE  replaced[c] \in Nat /\ replaced'[c] \in Nat /\ replaced'[c] >= replaced[c]
<1>1. replaced \in [Cases -> Nat]
  BY DEF IInv, TypeOK, SettlementTypeOK
<1> QED
  BY <1>1, ReplacedSteps

\* What stands behind a document of this case, status and replacement after the step.
BackedNext(c, s, n) ==
  /\ s \in {"refunded", "credited"}
       => \E e \in DOMAIN outbox' : /\ outbox'[e].case = c
                                    /\ ResolutionToStatus[outbox'[e].kind] = s
  /\ s = "exchanged" => n \in 1..replaced'[c]

\* What is backed stays so.
LEMMA BackingStays ==
  ASSUME IInv, [Next]_vars, NEW d \in Document, d.id \in Cases, Backed(d)
  PROVE  BackedNext(d.id, d.status, d.replacement)
<1>1. ASSUME d.status \in {"refunded", "credited"}
      PROVE  \E e \in DOMAIN outbox' : /\ outbox'[e].case = d.id
                                       /\ ResolutionToStatus[outbox'[e].kind] = d.status
  <2>1. PICK e \in DOMAIN outbox : /\ outbox[e].case = d.id
                                   /\ ResolutionToStatus[outbox[e].kind] = d.status
    BY <1>1 DEF Backed, EntriesOf
  <2> QED
    BY <2>1, EntriesStay
<1>2. ASSUME d.status = "exchanged"
      PROVE  d.replacement \in 1..replaced'[d.id]
  <2>1. d.replacement \in 1..replaced[d.id]
    BY <1>2 DEF Backed
  <2>2. /\ replaced[d.id] \in Nat /\ replaced'[d.id] \in Nat
        /\ replaced'[d.id] >= replaced[d.id]
    BY ReplacedGrows
  <2> QED
    BY <2>1, <2>2
<1> QED
  BY <1>1, <1>2 DEF BackedNext

\* Nothing needs to stand behind a case that is not settled.
LEMMA UnsettledIsBacked ==
  ASSUME NEW s, s \notin {"refunded", "credited", "exchanged"}, NEW c, NEW n
  PROVE  BackedNext(c, s, n)
BY DEF BackedNext

\* A thread that goes on with a case has recorded the intent of its payment, or
\* ordered its replacement, when that is what settled it.
LEMMA CarriedIsBacked ==
  ASSUME BackedInv, [Next]_vars, NEW w \in Workers, Carries(w)
  PROVE  BackedNext(doc'[w].id, doc'[w].status, doc'[w].replacement)
<1>1. IInv /\ BackedOK(w) /\ Holding(w)
  BY DEF BackedInv, Carries
<1>2. /\ doc[w] \in Document /\ doc[w].id \in Cases /\ doc'[w].id = doc[w].id
      /\ doc[w].req \in Requests /\ Wants(doc[w]) \in Resolution
  BY <1>1, CarriedFacts, WantsFacts
<1>3. CASE pc[w] = "label"
  <2>1. doc'[w].status = "label_issued"
    BY <1>1, <1>3, CarriedFacts
  <2> QED
    BY <2>1, UnsettledIsBacked
<1>4. CASE pc[w] = "replace"
  <2>1. Wants(doc[w]) = "exchange"
    BY <1>1, <1>4 DEF BackedOK
  <2>2. doc'[w].status = "exchanged" /\ doc'[w].replacement = replaced'[doc[w].id]
    BY <1>1, <1>4, <2>1, CarriedFacts DEF ResolutionToStatus
  <2>3. replaced'[doc[w].id] = replaced[doc[w].id] + 1 /\ replaced[doc[w].id] \in Nat
    <3>1. replaced' = [replaced EXCEPT ![doc[w].id] = @ + 1]
      BY <1>4 DEF Carries, SavedBy
    <3> QED
      BY <1>1, <1>2, <3>1 DEF IInv, TypeOK, SettlementTypeOK
  <2> QED
    BY <1>2, <2>2, <2>3 DEF BackedNext
<1>5. CASE pc[w] = "enqueue"
  <2> DEFINE n == Len(outbox) + 1
             e == [case |-> doc[w].id, kind |-> PaymentKind(doc[w]), status |-> "pending"]
  <2>1. /\ doc[w].status = ResolutionToStatus[Wants(doc[w])] /\ Wants(doc[w]) # "exchange"
        /\ doc'[w] = doc[w] /\ outbox' = Append(outbox, e)
    BY <1>1, <1>5 DEF BackedOK, Carries, SavedBy, OutboxEnqueue
  <2>2. PaymentKind(doc[w]) = Wants(doc[w])
    BY <1>2, <2>1 DEF Resolution, PaymentKind
  <2>3. n \in DOMAIN outbox' /\ outbox'[n] = e
    BY <1>1, <2>1 DEF IInv, TypeOK, StoreTypeOK
  <2>4. /\ outbox'[n].case = doc[w].id
        /\ ResolutionToStatus[outbox'[n].kind] = doc[w].status
    BY <2>1, <2>2, <2>3
  <2>5. doc[w].status # "exchanged"
    BY <1>2, <2>1 DEF Resolution, ResolutionToStatus
  <2> HIDE DEF n, e
  <2> QED
    BY <2>1, <2>3, <2>4, <2>5 DEF BackedNext
<1>6. CASE pc[w] \notin {"label", "replace", "enqueue"}
  <2>1. Backed(doc[w])
    BY <1>1, <1>6 DEF BackedOK
  <2>2. doc'[w].status = doc[w].status /\ doc'[w].replacement = doc[w].replacement
    BY <1>1, <1>6, CarriedFacts
  <2> QED
    BY <1>1, <1>2, <2>1, <2>2, BackingStays
<1> QED
  BY <1>3, <1>4, <1>5, <1>6

\* What a thread holds is backed, between the intent and the settlement aside.
LEMMA CopiesStayBacked ==
  ASSUME BackedInv, [Next]_vars, NEW v \in Workers
  PROVE  BackedOK(v)'
<1>1. IInv /\ BackedOK(v)
  BY DEF BackedInv
<1> SUFFICES ASSUME Holding(v)'
             PROVE  IF pc'[v] = "enqueue"
                    THEN /\ doc'[v].status = ResolutionToStatus[Wants(doc'[v])]
                         /\ Wants(doc'[v]) # "exchange"
                    ELSE /\ BackedNext(doc'[v].id, doc'[v].status, doc'[v].replacement)
                         /\ pc'[v] = "replace" => Wants(doc'[v]) = "exchange"
  BY DEF BackedOK, Backed, EntriesOf, BackedNext, Wants
<1>2. CASE Idles(v)
  <2>1. doc'[v] = doc[v] /\ pc'[v] = pc[v] /\ Holding(v)
    BY <1>2 DEF Idles, Holding
  <2>2. doc[v] \in Document /\ doc[v].id \in Cases
    BY <1>1, <2>1, HeldFacts
  <2> QED
    BY <1>1, <2>1, <2>2, BackingStays DEF BackedOK
<1>3. CASE Taken(v)
  <2>1. PICK c \in Cases :
       /\ Exists(c) /\ doc'[v] \in Document /\ Amends(doc'[v], cases[c])
       /\ \/ /\ pc'[v] = "save" /\ doc'[v].status = cases[c].status
          \/ /\ pc'[v] \in {"label", "save"}
             /\ doc'[v].status \in {"approved", "rejected", "cancelled", "in_transit", "received"}
          \/ pc'[v] = "save" /\ doc'[v].status = "closed_failed_inspection"
          \/ /\ pc'[v] = "replace" /\ doc'[v].status = "inspecting"
             /\ Wants(doc'[v]) = "exchange"
          \/ /\ pc'[v] = "enqueue" /\ Wants(doc'[v]) # "exchange"
             /\ doc'[v].status = ResolutionToStatus[Wants(doc'[v])]
    BY <1>3 DEF Taken
  <2>2. cases[c] \in Document /\ cases[c].id \in Cases /\ Backed(cases[c])
    BY <1>1, <2>1, RowFacts DEF BackedInv
  <2>3. BackedNext(doc'[v].id, cases[c].status, doc'[v].replacement)
    BY <1>1, <2>1, <2>2, BackingStays DEF Amends
  <2> QED
    BY <2>1, <2>3, UnsettledIsBacked
<1>4. CASE Expires(v)
  <2>1. doc'[v].status = "expired" /\ pc'[v] = "save"
    BY <1>1, <1>4, ExpiredFacts DEF Expires
  <2> QED
    BY <2>1, UnsettledIsBacked
<1>5. CASE Builds(v)
  <2>1. doc'[v].status \in Decisions /\ pc'[v] \in {"label", "save"}
    BY <1>1, <1>5, BuiltFacts DEF Builds
  <2> QED
    BY <2>1, UnsettledIsBacked DEF Decisions
<1>6. CASE Carries(v)
  <2>1. pc'[v] \notin {"enqueue", "replace"}
    BY <1>6 DEF Carries
  <2> QED
    BY <1>6, <2>1, CarriedIsBacked
<1> QED
  BY <1>1, <1>2, <1>3, <1>4, <1>5, <1>6, HeldCasesComeFrom

\* No step records a settlement nothing stands behind.
LEMMA BackedInvKeeps ==
  ASSUME BackedInv, [Next]_vars
  PROVE  BackedInv'
<1>1. IInv /\ IInv'
  BY NextKeeps DEF BackedInv
<1>2. ASSUME NEW c \in Cases
      PROVE  BackedNext(cases'[c].id, cases'[c].status, cases'[c].replacement)
  <2>1. CASE cases'[c] = cases[c]
    <3>1. CASE Exists(c)
      <4>1. cases[c] \in Document /\ cases[c].id \in Cases /\ Backed(cases[c])
        BY <1>1, <3>1, RowFacts DEF BackedInv
      <4> QED
        BY <1>1, <2>1, <4>1, BackingStays
    <3>2. CASE ~Exists(c)
      <4>1. cases'[c].status = "absent"
        BY <1>1, <2>1, <3>2 DEF IInv, RowOK, NoDocument
      <4> QED
        BY <4>1, UnsettledIsBacked
    <3> QED
      BY <3>1, <3>2
  <2>2. CASE cases'[c] # cases[c]
    <3>1. PICK w \in Workers : SavedBy(w)
      BY <2>2, OnlySaves
    <3>2. c = doc[w].id
      BY <1>1, <2>2, <3>1, SaveLeavesOthers
    <3>3. doc[w] \in Document /\ Holding(w) /\ cases'[c] = Bumped(doc[w])
      BY <1>1, <3>1, <3>2, SaverFacts, PutKeepsRows DEF SavedBy, Holding
    <3>4. /\ cases'[c].id = doc[w].id /\ cases'[c].status = doc[w].status
          /\ cases'[c].replacement = doc[w].replacement
      BY <3>3, BumpedFacts
    <3>5. Backed(doc[w])
      BY <3>1, <3>3 DEF BackedInv, BackedOK, SavedBy
    <3> QED
      BY <1>1, <3>2, <3>3, <3>4, <3>5, BackingStays
  <2> QED
    BY <2>1, <2>2
<1>3. \A c \in Cases : Backed(cases[c])'
  BY <1>2 DEF BackedNext, Backed, EntriesOf
<1> QED
  BY <1>1, <1>3, CopiesStayBacked DEF BackedInv

\* A case recorded as refunded or credited has the intent of its payment in the
\* outbox, and one recorded as exchanged names an order the order system has: no
\* crash, race or lost answer ever leaves a settled case with nothing behind it.
THEOREM SettlementsAreBacked == Spec => []SettledIsBacked
<1>1. Init => BackedInv
  <2>1. Init => IInv
    BY InitKeeps
  <2>2. ASSUME Init
        PROVE  /\ \A c \in Cases : Backed(cases[c])
               /\ \A w \in Workers : ~Holding(w)
    BY <2>2 DEF Init, StoreInit, StepInit, NobodyAtWork, Holding, NoDocument, Backed
  <2> QED
    BY <2>1, <2>2 DEF BackedInv, BackedOK
<1>2. BackedInv /\ [Next]_vars => BackedInv'
  BY BackedInvKeeps
<1>3. BackedInv => SettledIsBacked
  <2> SUFFICES ASSUME BackedInv, NEW c \in Cases,
                      cases[c].status \in {"refunded", "credited", "exchanged"}
               PROVE  cases[c].id = c /\ Backed(cases[c])
    BY DEF SettledIsBacked, Backed
  <2>1. Exists(c)
    BY DEF BackedInv, IInv, RowOK, NoDocument
  <2> QED
    BY <2>1, RowFacts DEF BackedInv
<1> QED
  BY <1>1, <1>2, <1>3, PTL DEF Spec


-----------------------------------------------------------------------------
(* Whose step it is.                                                       *)

\* No thread steps, and nothing threads work on changes but the orders.
NobodySteps == UNCHANGED <<cases, keys, outbox, workerVars, moneyVars, crashes>>

\* A thread's step changes nobody else's request, as it changes nobody else's case.
LEMMA OthersAsk ==
  ASSUME IInv, NEW w \in Workers, Arrival(w) \/ Progress(w), NEW v \in Workers \ {w}
  PROVE  ask'[v] = ask[v]
<1>1. ask \in [Workers -> Ask]
  BY DEF IInv, TypeOK, StepTypeOK, LocalTypeOK
<1>2. \A o, call, d : Begin(w, o, call, d) => ask'[v] = ask[v]
  BY DEF Begin
<1>3. \A call, d : Goto(w, call, d) => ask'[v] = ask[v]
  BY DEF Goto
<1>4. Finish(w) => ask'[v] = ask[v]
  BY <1>1 DEF Finish
<1>5. ASSUME \/ \E r \in Requests, k \in HeaderValues : StartCreate(w, r, k)
             \/ StartSweep(w) \/ ReadOrder(w) \/ SweepNext(w)
      PROVE  ask'[v] = ask[v]
  BY <1>1, <1>4, <1>5 DEF StartCreate, StartSweep, ReadOrder, SweepNext
<1>6. CASE Arrival(w)
  BY <1>2, <1>5, <1>6 DEF Arrival, CreateReturn, CaseCall, CarrierWebhook, InternalCall,
     StartReview, StartCancel, StartCarrierMove, StartCarrierNote, StartFailedInspection,
     StartPassedInspection, StartFlush
<1>7. CASE Progress(w)
  BY <1>3, <1>4, <1>5, <1>7 DEF Progress, LookupKey, CheckAndDecide, RecordKey, IssueLabel,
     SaveCase, Notify, NoteNotice, AfterNotice, CreateReplacement, EnqueuePayment, ListPending,
     Pay, PayEntry, MarkExecuted, MarkPending, MarkAs, EndFlush
<1> QED
  BY <1>6, <1>7

\* A step is one thread's, or nobody's, or a crash.
LEMMA WhoSteps ==
  ASSUME IInv, [Next]_vars
  PROVE  \/ \E w \in Workers :
              /\ (Arrival(w) \/ Progress(w)) /\ crashes' = crashes
              /\ \A v \in Workers \ {w} : Idles(v) /\ ask'[v] = ask[v]
         \/ NobodySteps
         \/ Crash
<1>1. ASSUME NEW w \in Workers, Arrival(w) \/ Progress(w), NEW v \in Workers \ {w}
      PROVE  Idles(v) /\ ask'[v] = ask[v]
  BY <1>1, OneThread, OthersAsk
<1>2. (Register \/ Tick) /\ UNCHANGED <<moneyVars, crashes>> => NobodySteps
  BY DEF Register, RegisterOrder, Tick, NobodySteps, storeVars
<1>3. UNCHANGED vars => NobodySteps
  BY DEF vars, storeVars, NobodySteps
<1> QED
  BY <1>1, <1>2, <1>3 DEF Next

\* From each of these calls there is one way on.
LEMMA WaysOn ==
  ASSUME NEW v \in Workers, Progress(v)
  PROVE  /\ pc[v] # "idle"
         /\ pc[v] = "save" => SaveCase(v)
         /\ pc[v] = "record" => RecordKey(v)
         /\ pc[v] = "lookup" => LookupKey(v)
         /\ pc[v] = "enqueue" => EnqueuePayment(v)
         /\ pc[v] = "replace" => CreateReplacement(v)
BY DEF Progress, LookupKey, ReadOrder, CheckAndDecide, RecordKey, SweepNext, IssueLabel,
   SaveCase, Notify, NoteNotice, CreateReplacement, EnqueuePayment, ListPending, Pay,
   PayEntry, MarkExecuted, MarkPending, MarkAs, EndFlush

\* A request arrives at an idle thread.
LEMMA ArrivesIdle ==
  ASSUME NEW v \in Workers, Arrival(v)
  PROVE  pc[v] = "idle" /\ UNCHANGED <<cases, orders, keys, outbox, moneyVars>>
BY DEF Arrival, CreateReturn, CaseCall, CarrierWebhook, InternalCall, StartCreate, StartReview,
   StartCancel, StartCarrierMove, StartCarrierNote, StartSweep, StartFailedInspection,
   StartPassedInspection, StartFlush, Begin, storeVars

\* The row of a case a thread holds, once it is saved, exists.
LEMMA HeldRowExists ==
  ASSUME IInv, NEW v \in Workers, Holding(v), ~Inserting(v)
  PROVE  doc[v].id \in Cases /\ Exists(doc[v].id)
<1>1. doc[v].id \in Cases /\ cases[doc[v].id] \in Document
  BY HeldFacts
<1>2. doc[v].version \in 1..cases[doc[v].id].version
  BY DEF IInv, FollowOK
<1> QED
  BY <1>1, <1>2 DEF Exists, Document

\* What a row becomes in a step: a save writes the copy it was given.
LEMMA RowsAreWritten ==
  ASSUME IInv, [Next]_vars, NEW c \in Cases, cases'[c] # cases[c]
  PROVE  \E w \in Workers : /\ SavedBy(w) /\ Holding(w) /\ c = doc[w].id
                            /\ doc[w] \in Document /\ cases'[c] = Bumped(doc[w])
                            /\ cases'[c].req = doc[w].req /\ cases'[c].status = doc[w].status
                            /\ cases'[c].replacement = doc[w].replacement
                            /\ doc[w].version = cases[c].version
                            /\ Inserting(w) <=> ~Exists(c)
<1>1. PICK w \in Workers : SavedBy(w)
  BY OnlySaves
<1>2. c = doc[w].id
  BY <1>1, SaveLeavesOthers
<1>3. /\ doc[w] \in Document /\ Holding(w) /\ cases'[c] = Bumped(doc[w])
      /\ doc[w].version = cases[c].version
  BY <1>1, <1>2, SaverFacts, PutKeepsRows DEF SavedBy, Holding
<1>4. /\ cases'[c].req = doc[w].req /\ cases'[c].status = doc[w].status
      /\ cases'[c].replacement = doc[w].replacement
  BY <1>3, BumpedFacts
<1>5. Inserting(w) => ~Exists(c)
  BY <1>2 DEF IInv, InsertOK
<1>6. ~Inserting(w) => Exists(c)
  BY <1>2, <1>3, HeldRowExists
<1> QED
  BY <1>1, <1>2, <1>3, <1>4, <1>5, <1>6

-----------------------------------------------------------------------------
(* What is settled stays.                                                  *)

\* A settled row keeps its status and the replacement order it names.
LEMMA SettledStays ==
  ASSUME SettledInv, [Next]_vars, NEW c \in Cases, cases[c].status \in SettledStatuses
  PROVE  cases'[c].status = cases[c].status /\ cases'[c].replacement = cases[c].replacement
<1>1. IInv
  BY DEF SettledInv, BackedInv
<1>2. cases'[c].status = cases[c].status
  BY <1>1, TerminalStays DEF SettledStatuses, Terminal
<1>3. CASE cases'[c] # cases[c]
  <2>1. PICK w \in Workers : /\ SavedBy(w) /\ Holding(w) /\ c = doc[w].id
                             /\ cases'[c].status = doc[w].status
                             /\ cases'[c].replacement = doc[w].replacement
                             /\ doc[w].version = cases[c].version
    BY <1>1, <1>3, RowsAreWritten
  <2>2. FreshOK(w) /\ CopyOK(w)
    BY DEF SettledInv
  <2>3. ~Settles(w)
    BY <2>1, <2>2 DEF Settles, FreshOK, SettledStatuses
  <2> QED
    BY <1>2, <2>1, <2>2, <2>3 DEF CopyOK
<1> QED
  BY <1>2, <1>3

\* An inspection's save that goes through finds its row received.
LEMMA SavesReceived ==
  ASSUME SettledInv, NEW w \in Workers, op[w] = "inspect", pc[w] = "save", CanSave(doc[w])
  PROVE  doc[w].id \in Cases /\ cases[doc[w].id].status = "received"
<1>1. IInv /\ FreshOK(w)
  BY DEF SettledInv, BackedInv
<1>2. doc[w].id \in Cases /\ doc[w].version = cases[doc[w].id].version
  BY <1>1, SaverFacts
<1> QED
  BY <1>1, <1>2 DEF FreshOK

\* An inspection's copy stays of a received row for as long as the row has its version.
LEMMA FreshKeeps ==
  ASSUME SettledInv, [Next]_vars, NEW v \in Workers
  PROVE  FreshOK(v)'
<1>1. IInv /\ FreshOK(v)
  BY DEF SettledInv, BackedInv
<1> SUFFICES ASSUME op'[v] = "inspect", pc'[v] \in {"replace", "enqueue", "save"},
                    doc'[v].version = cases'[doc'[v].id].version
             PROVE  cases'[doc'[v].id].status = "received"
  BY DEF FreshOK
<1>2. Holding(v)'
  BY DEF Holding
<1>3. CASE Idles(v)
  <2>1. Holding(v) /\ ~Inserting(v) /\ doc'[v] = doc[v]
        /\ op[v] = "inspect" /\ pc[v] \in {"replace", "enqueue", "save"}
    BY <1>3 DEF Idles, Holding, Inserting
  <2>2. doc[v].id \in Cases /\ doc[v].version \in 1..cases[doc[v].id].version
    BY <1>1, <2>1, HeldFacts DEF IInv, FollowOK
  <2>3. cases'[doc[v].id] = cases[doc[v].id]
    <3> DEFINE old == cases[doc[v].id].version
               new == cases'[doc[v].id].version
    <3>1. /\ old \in Nat /\ new \in Nat /\ new >= old
          /\ new = old => cases'[doc[v].id] = cases[doc[v].id]
      BY <1>1, <2>2, RowsStay
    <3>2. doc[v].version = new /\ doc[v].version <= old
      BY <2>1, <2>2, <3>1
    <3> HIDE DEF old, new
    <3>3. new = old
      BY <3>1, <3>2
    <3> QED
      BY <3>1, <3>3
  <2> QED
    BY <1>1, <2>1, <2>3 DEF FreshOK
<1>4. CASE Taken(v)
  <2>1. PICK c \in Cases : /\ Exists(c) /\ Amends(doc'[v], cases[c]) /\ cases' = cases
                           /\ CanMove(cases[c].status, "inspecting")
    BY <1>4 DEF Taken, TablesKept
  <2>2. cases[c].id = c
    BY <1>1, <2>1, RowFacts
  <2>3. cases[c].status = "received"
    BY <2>1 DEF CanMove, Transitions
  <2> QED
    BY <2>1, <2>2, <2>3 DEF Amends
<1>5. ~Expires(v)
  BY <1>1, CallerFacts DEF Expires, IInv, FitOK
<1>6. ~Builds(v)
  BY DEF Builds
<1>7. CASE Carries(v)
  <2>1. pc'[v] = "save" /\ pc[v] \in {"label", "replace", "enqueue"} /\ op[v] = "inspect"
    BY <1>7 DEF Carries
  <2>2. pc[v] # "label"
    <3>1. <<op[v], pc[v]>> \in CallsOf
      BY <1>1 DEF IInv, FitOK
    <3> QED
      BY <2>1, <3>1 DEF CallsOf
  <2>3. /\ cases' = cases /\ doc'[v].version = doc[v].version /\ doc'[v].id = doc[v].id
    BY <1>1, <1>7, <2>1, CarriedFacts
  <2> QED
    BY <1>1, <2>1, <2>2, <2>3 DEF FreshOK
<1> QED
  BY <1>1, <1>2, <1>3, <1>4, <1>5, <1>6, <1>7, HeldCasesComeFrom

\* Copies of settled cases keep agreeing with their rows.
LEMMA CopiesAgree ==
  ASSUME SettledInv, [Next]_vars, NEW v \in Workers
  PROVE  CopyOK(v)'
<1>1. IInv /\ CopyOK(v)
  BY DEF SettledInv, BackedInv
<1> SUFFICES ASSUME Holding(v)', doc'[v].status \in SettledStatuses, ~Settles(v)'
             PROVE  /\ cases'[doc'[v].id].status = doc'[v].status
                    /\ cases'[doc'[v].id].replacement = doc'[v].replacement
  BY DEF CopyOK
<1>2. CASE Idles(v)
  <2>1. Holding(v) /\ ~Settles(v) /\ doc'[v] = doc[v]
    BY <1>2 DEF Idles, Holding, Settles
  <2>2. doc[v].id \in Cases
    BY <1>1, <2>1, HeldFacts
  <2> QED
    BY <1>1, <2>1, <2>2, SettledStays DEF CopyOK
<1>3. CASE Taken(v)
  <2>1. PICK c \in Cases : /\ Exists(c) /\ Amends(doc'[v], cases[c]) /\ cases' = cases
                           /\ doc'[v].status = cases[c].status
    BY <1>3 DEF Taken, TablesKept, SettledStatuses, Settles
  <2>2. cases[c].id = c
    BY <1>1, <2>1, RowFacts
  <2> QED
    BY <2>1, <2>2 DEF Amends
<1>4. ~Expires(v)
  BY <1>1, ExpiredFacts DEF Expires, SettledStatuses
<1>5. ~Builds(v)
  BY <1>1, BuiltFacts DEF Decisions, SettledStatuses
<1>6. CASE Carries(v)
  <2>1. pc[v] # "label"
    BY <1>1, <1>6, CarriedFacts DEF SettledStatuses
  <2>2. pc[v] \notin {"replace", "enqueue"}
    <3>1. pc[v] \in {"replace", "enqueue"} => op[v] = "inspect" /\ pc'[v] = "save"
      BY <1>1, <1>6, CallerFacts DEF Carries, IInv, FitOK
    <3> QED
      BY <1>6, <3>1 DEF Carries, Settles
  <2>3. CASE pc[v] = "save"
    <3>1. SavedBy(v) /\ doc'[v] = Bumped(doc[v]) /\ doc[v] \in Document /\ doc[v].id \in Cases
      BY <1>1, <1>6, <2>3, CarriedFacts
    <3>2. cases'[doc[v].id] = Bumped(doc[v])
      BY <1>1, <3>1, PutKeepsRows DEF SavedBy
    <3> QED
      BY <3>1, <3>2, BumpedFacts
  <2>4. CASE pc[v] # "save"
    <3>1. /\ cases' = cases /\ doc'[v].id = doc[v].id /\ doc'[v].status = doc[v].status
          /\ doc'[v].replacement = doc[v].replacement
      BY <1>1, <1>6, <2>1, <2>2, <2>4, CarriedFacts
    <3>2. Holding(v) /\ ~Settles(v)
      BY <1>6, <2>2, <2>4 DEF Carries, Settles
    <3> QED
      BY <1>1, <3>1, <3>2 DEF CopyOK
  <2> QED
    BY <2>3, <2>4
<1> QED
  BY <1>1, <1>2, <1>3, <1>4, <1>5, <1>6, HeldCasesComeFrom

\* No step parts a settled row from its copies.
LEMMA SettledInvKeeps ==
  ASSUME SettledInv, [Next]_vars
  PROVE  SettledInv'
BY BackedInvKeeps, FreshKeeps, CopiesAgree DEF SettledInv

\* Nothing is settled at first.
LEMMA SettledInvStarts ==
  ASSUME Init
  PROVE  SettledInv
<1>1. IInv
  BY InitKeeps
<1>2. /\ \A c \in Cases : Backed(cases[c])
      /\ \A w \in Workers : ~Holding(w) /\ op[w] = "none"
  BY DEF Init, StoreInit, StepInit, NobodyAtWork, Holding, NoDocument, Backed
<1> QED
  BY <1>1, <1>2 DEF BackedInv, BackedOK, SettledInv, FreshOK, CopyOK

\* The thread that saves a case moves on.
LEMMA SaversMoveOn ==
  ASSUME IInv, [Next]_vars, cases' # cases
  PROVE  \E w \in Workers : SavedBy(w) /\ pc'[w] # pc[w]
<1>1. LocalTypeOK
  BY DEF IInv, TypeOK, StepTypeOK
<1>2. PICK w \in Workers : Arrival(w) \/ Progress(w)
  BY WhoSteps DEF NobodySteps, Crash, storeVars
<1>3. Progress(w)
  BY <1>2, ArrivesIdle
<1>4. SaveCase(w) \/ NoteNotice(w)
  BY <1>3 DEF Progress, LookupKey, ReadOrder, CheckAndDecide, RecordKey, SweepNext, IssueLabel,
     Notify, CreateReplacement, EnqueuePayment, ListPending, Pay, PayEntry, MarkExecuted,
     MarkPending, MarkAs, EndFlush, storeVars
<1>5. SavedBy(w)
  BY <1>4 DEF SaveCase, NoteNotice, SavedBy
<1>6. AfterSave(w) # "save"
  BY DEF AfterSave
<1>7. pc'[w] # pc[w]
  BY <1>1, <1>4, <1>6 DEF SaveCase, NoteNotice, AfterNotice, Goto, Finish, LocalTypeOK
<1> QED
  BY <1>5, <1>7

\* A row becomes settled by an inspection's save, and in no other way.
LEMMA SettledBySave ==
  ASSUME SettledInv, [Next]_vars, NEW c \in Cases,
         cases'[c].status \in SettledStatuses, cases[c].status # cases'[c].status
  PROVE  \E w \in Workers : /\ op[w] = "inspect" /\ pc[w] = "save" /\ pc'[w] # "save"
                            /\ SavedBy(w)
                            /\ doc[w].id = c /\ doc[w].status = cases'[c].status
<1>1. IInv
  BY DEF SettledInv, BackedInv
<1>2. PICK w \in Workers : SavedBy(w) /\ pc'[w] # pc[w]
  BY <1>1, SaversMoveOn
<1>3. c = doc[w].id
  BY <1>1, <1>2, SaveLeavesOthers
<1>4. doc[w] \in Document /\ Holding(w) /\ cases'[c] = Bumped(doc[w])
  BY <1>1, <1>2, <1>3, SaverFacts, PutKeepsRows DEF SavedBy, Holding
<1>5. doc[w].status = cases'[c].status
  BY <1>4, BumpedFacts
<1>6. Settles(w)
  BY <1>3, <1>4, <1>5 DEF SettledInv, CopyOK
<1> QED
  BY <1>2, <1>3, <1>5, <1>6 DEF Settles, SavedBy

-----------------------------------------------------------------------------
(* A case has one payment.                                                 *)

\* No entry is added but by outbox_enqueue.
LEMMA EntriesKeep ==
  ASSUME IInv, [Next]_vars, \A w \in Workers : ~EnqueuePayment(w)
  PROVE  /\ DOMAIN outbox' = DOMAIN outbox
         /\ \A e \in DOMAIN outbox : outbox'[e].case = outbox[e].case
<1>1. ASSUME NEW w \in Workers, NEW call, NEW s \in {"pending", "executed"}, MarkAs(w, call, s)
      PROVE  DOMAIN outbox' = DOMAIN outbox
  BY <1>1, MarkChanges DEF Marked
<1>2. DOMAIN outbox' = DOMAIN outbox
  BY <1>1, OutboxSteps DEF MarkExecuted, MarkPending
<1> QED
  BY <1>2, EntriesStay

\* The observer remembers what it did of a thread that makes no step.
LEMMA IdleIntents ==
  ASSUME IntentInv, RecordIntents, NEW v \in Workers, Idles(v)
  PROVE  /\ intent'[v] = intent[v] /\ Settling(v)' = Settling(v)
         /\ intent[v] # 0 => pc'[v] # "idle"
<1>1. IntentOK(v)
  BY DEF IntentInv
<1>2. Settling(v)' = Settling(v)
  BY DEF Idles, Settling
<1>3. intent[v] # 0 => pc[v] = "save"
  BY <1>1 DEF IntentOK, Settling
<1> QED
  BY <1>2, <1>3 DEF Idles, RecordIntents

\* A thread gets to the save of a settlement by its enqueue only.
LEMMA OthersSettleNothing ==
  ASSUME IntentInv, RecordIntents, NEW w \in Workers, Arrival(w) \/ Progress(w),
         ~Settling(w), ~EnqueuePayment(w)
  PROVE  intent'[w] = 0 /\ ~Settling(w)'
<1>1. IInv /\ IntentOK(w) /\ BackedOK(w) /\ <<op[w], pc[w]>> \in CallsOf
  BY DEF IntentInv, SettledInv, BackedInv, IInv, FitOK
<1>2. intent[w] = 0
  BY <1>1 DEF IntentOK
<1>3. pc[w] # "enqueue"
  BY WaysOn, ArrivesIdle
<1>4. intent'[w] = 0
  BY <1>2, <1>3 DEF RecordIntents
<1>5. ASSUME Settling(w)'
      PROVE  FALSE
  <2>1. Holding(w)' /\ op'[w] = "inspect" /\ pc'[w] = "save"
    BY <1>5 DEF Settling, Holding
  <2>2. ~Taken(w)
    BY <1>5 DEF Taken, Settling
  <2>3. Expires(w) \/ Builds(w) \/ Carries(w)
    BY <1>1, <2>1, <2>2, ArrivalTakes, ProgressCarries
  <2>4. ~Expires(w)
    BY <1>1, <2>1, CallerFacts DEF Expires
  <2>5. ~Builds(w)
    BY <2>1 DEF Builds
  <2>6. Carries(w) /\ pc[w] \in {"label", "replace"} /\ op[w] = "inspect"
    BY <1>3, <2>1, <2>3, <2>4, <2>5 DEF Carries
  <2>7. pc[w] = "replace"
    BY <1>1, <2>6 DEF CallsOf
  <2>8. Wants(doc[w]) = "exchange"
    BY <1>1, <2>6, <2>7 DEF BackedOK, Carries
  <2>9. doc'[w].status = "exchanged"
    BY <1>1, <2>6, <2>7, <2>8, CarriedFacts DEF ResolutionToStatus
  <2> QED
    BY <1>5, <2>9 DEF Settling
<1> QED
  BY <1>4, <1>5

\* How intents are recorded, taken up by a case, and given up.
IntentMade(w) ==
  /\ EnqueuePayment(w) /\ Settling(w)' /\ doc'[w] = doc[w] /\ cases' = cases
  /\ intent' = [intent EXCEPT ![w] = Len(outbox) + 1] /\ strays' = strays
  /\ \A v \in Workers \ {w} : Idles(v) /\ Settling(v)' = Settling(v)

TakenUp(w) ==
  /\ Settling(w) /\ ~Settling(w)' /\ outbox' = outbox
  /\ SavedBy(w)
  /\ intent' = [intent EXCEPT ![w] = 0] /\ strays' = strays
  /\ \A v \in Workers \ {w} : Idles(v) /\ Settling(v)' = Settling(v)

GivenUp ==
  /\ UNCHANGED <<cases, outbox>>
  /\ strays' = strays \cup {intent[w] : w \in {v \in Workers : Settling(v) /\ ~Settling(v)'}}
  /\ intent' = [w \in Workers |-> IF Settling(w)' THEN intent[w] ELSE 0]
  /\ \A v \in Workers : Settling(v)' => Settling(v) /\ doc'[v] = doc[v]

LeftAlone ==
  /\ DOMAIN outbox' = DOMAIN outbox
  /\ \A e \in DOMAIN outbox : outbox'[e].case = outbox[e].case
  /\ intent' = intent /\ strays' = strays
  /\ \A v \in Workers : Settling(v)' = Settling(v) /\ (Settling(v) => doc'[v] = doc[v])

\* A thread's step with an intent.
LEMMA ThreadIntents ==
  ASSUME IntentInv, [Next]_vars, RecordIntents,
         NEW w \in Workers, Arrival(w) \/ Progress(w),
         \A v \in Workers \ {w} : Idles(v)
  PROVE  IntentMade(w) \/ TakenUp(w) \/ GivenUp \/ LeftAlone
<1>1. /\ IInv /\ LocalTypeOK /\ intent \in [Workers -> Nat]
      /\ outbox \in Seq(Entry) /\ IntentOK(w) /\ BackedOK(w)
  BY DEF IntentInv, SettledInv, BackedInv, IInv, TypeOK, StepTypeOK, StoreTypeOK
<1>2. /\ intent' = [v \in Workers |-> intent'[v]]
      /\ \A v \in Workers \ {w} : /\ intent'[v] = intent[v] /\ Settling(v)' = Settling(v)
                                  /\ intent[v] # 0 => pc'[v] # "idle"
  <2>1. intent' = [v \in Workers |-> intent'[v]]
    BY DEF RecordIntents
  <2> QED
    BY <2>1, IdleIntents
<1>3. strays' = IF intent[w] # 0 /\ pc'[w] = "idle" THEN strays \cup {intent[w]} ELSE strays
  <2>1. {u \in Workers : intent[u] # 0 /\ pc'[u] = "idle"}
          = IF intent[w] # 0 /\ pc'[w] = "idle" THEN {w} ELSE {}
    BY <1>2
  <2> QED
    BY <2>1 DEF RecordIntents
<1>4. intent[w] # 0 <=> Settling(w)
  BY <1>1 DEF IntentOK
<1>5. CASE EnqueuePayment(w)
  <2>1. pc[w] = "enqueue" /\ op[w] = "inspect" /\ Holding(w) /\ ~Settling(w)
    BY <1>1, <1>5, CallerFacts DEF EnqueuePayment, IInv, FitOK, Holding, Settling
  <2>2. op'[w] = op[w] /\ pc'[w] = "save" /\ doc'[w] = doc[w] /\ cases' = cases
    BY <1>1, <1>5 DEF EnqueuePayment, Goto, LocalTypeOK
  <2>3. doc[w].status \in {"refunded", "credited"}
    <3>1. doc[w].status = ResolutionToStatus[Wants(doc[w])] /\ Wants(doc[w]) # "exchange"
      BY <1>1, <2>1 DEF BackedOK
    <3>2. doc[w].req \in Requests
      BY <1>1, <2>1, HeldFacts
    <3>3. Wants(doc[w]) \in Resolution
      BY <3>2, WantsFacts
    <3> QED
      BY <3>1, <3>3 DEF Resolution, ResolutionToStatus
  <2>4. Len(outbox') = Len(outbox) + 1
    BY <1>1, <1>5 DEF EnqueuePayment, OutboxEnqueue
  <2>5. intent'[w] = Len(outbox) + 1
    BY <2>1, <2>2, <2>4 DEF RecordIntents
  <2>6. intent' = [intent EXCEPT ![w] = Len(outbox) + 1]
    BY <1>1, <1>2, <2>5
  <2>7. Settling(w)' /\ strays' = strays
    BY <1>3, <1>4, <2>1, <2>2, <2>3 DEF Settling
  <2> QED
    BY <1>2, <1>5, <2>2, <2>6, <2>7 DEF IntentMade
<1>6. CASE Settling(w)
  <2>1. SaveCase(w) /\ pc[w] = "save" /\ op[w] = "inspect" /\ AfterSave(w) = "list"
    BY <1>6, WaysOn, ArrivesIdle DEF Settling, AfterSave
  <2>2. pc'[w] # "save" /\ outbox' = outbox
    BY <1>1, <2>1 DEF SaveCase, Goto, Finish, LocalTypeOK
  <2>3. intent'[w] = 0 /\ ~Settling(w)'
    BY <2>1, <2>2 DEF RecordIntents, Settling
  <2>4. intent' = [intent EXCEPT ![w] = 0]
    BY <1>1, <1>2, <2>3
  <2>5. CASE CanSave(doc[w])
    <3>1. SavedBy(w) /\ pc'[w] = "list"
      BY <1>1, <2>1, <2>5 DEF SaveCase, SavedBy, Goto, LocalTypeOK
    <3> QED
      BY <1>2, <1>3, <1>6, <2>2, <2>3, <2>4, <3>1 DEF TakenUp
  <2>6. CASE ~CanSave(doc[w])
    <3>1. cases' = cases /\ pc'[w] = "idle"
      BY <1>1, <2>1, <2>6 DEF SaveCase, Finish, LocalTypeOK
    <3>2. strays' = strays \cup {intent[w]}
      BY <1>3, <1>4, <1>6, <3>1
    <3>3. {v \in Workers : Settling(v) /\ ~Settling(v)'} = {w}
      BY <1>2, <1>6, <2>3
    <3>4. \A v \in Workers : intent'[v] = IF Settling(v)' THEN intent[v] ELSE 0
      BY <1>2, <2>3 DEF IntentInv, IntentOK
    <3>5. intent' = [v \in Workers |-> IF Settling(v)' THEN intent[v] ELSE 0]
      BY <1>2, <3>4
    <3>6. \A v \in Workers : Settling(v)' => Settling(v) /\ doc'[v] = doc[v]
      BY <1>2, <2>3 DEF Idles
    <3>7. strays' = strays
            \cup {intent[u] : u \in {v \in Workers : Settling(v) /\ ~Settling(v)'}}
      BY <3>2, <3>3
    <3> QED
      BY <2>2, <3>1, <3>5, <3>6, <3>7 DEF GivenUp
  <2> QED
    BY <2>5, <2>6
<1>7. CASE ~Settling(w) /\ ~EnqueuePayment(w)
  <2>1. intent'[w] = 0 /\ ~Settling(w)' /\ intent[w] = 0
    BY <1>4, <1>7, OthersSettleNothing
  <2>2. intent' = intent /\ strays' = strays
    BY <1>1, <1>2, <1>3, <2>1
  <2>3. \A v \in Workers : ~EnqueuePayment(v)
    <3>1. ASSUME NEW v \in Workers \ {w}, EnqueuePayment(v)
          PROVE  FALSE
      <4>1. pc[v] = "enqueue" /\ pc'[v] = "save"
        BY <1>1, <3>1 DEF EnqueuePayment, Goto, LocalTypeOK
      <4> QED
        BY <4>1 DEF Idles
    <3> QED
      BY <1>7, <3>1
  <2>4. DOMAIN outbox' = DOMAIN outbox /\ \A e \in DOMAIN outbox : outbox'[e].case = outbox[e].case
    BY <1>1, <2>3, EntriesKeep
  <2>5. \A v \in Workers : Settling(v)' = Settling(v) /\ (Settling(v) => doc'[v] = doc[v])
    <3>1. Settling(w)' = Settling(w)
      BY <1>7, <2>1 DEF Settling
    <3>2. \A v \in Workers \ {w} : doc'[v] = doc[v]
      BY DEF Idles
    <3> QED
      BY <1>2, <1>7, <3>1, <3>2
  <2> QED
    BY <2>2, <2>4, <2>5 DEF LeftAlone
<1> QED
  BY <1>5, <1>6, <1>7

\* Any step with an intent.
LEMMA IntentSteps ==
  ASSUME IntentInv, [Next]_vars, RecordIntents
  PROVE  \/ \E w \in Workers : IntentMade(w) \/ TakenUp(w)
         \/ GivenUp \/ LeftAlone
<1>1. /\ IInv /\ intent \in [Workers -> Nat] /\ \A w \in Workers : IntentOK(w)
      /\ outbox \in Seq(Entry)
  BY DEF IntentInv, SettledInv, BackedInv, IInv, TypeOK, StoreTypeOK
<1>2. intent' = [v \in Workers |-> intent'[v]]
  BY DEF RecordIntents
<1>3. CASE NobodySteps
  <2>1. \A v \in Workers : Idles(v)
    BY <1>3 DEF NobodySteps, workerVars, Idles
  <2>2. \A v \in Workers : /\ intent'[v] = intent[v] /\ Settling(v)' = Settling(v)
                           /\ intent[v] # 0 => pc'[v] # "idle"
    BY <2>1, IdleIntents
  <2>3. intent' = intent /\ strays' = strays
    BY <1>1, <1>2, <2>2 DEF RecordIntents
  <2> QED
    BY <1>3, <2>1, <2>2, <2>3 DEF LeftAlone, NobodySteps, Idles
<1>4. CASE Crash
  <2>1. /\ UNCHANGED <<cases, outbox>>
        /\ \A v \in Workers : pc'[v] = "idle" /\ ~Settling(v)'
    BY <1>4 DEF Crash, storeVars, Settling
  <2>2. \A v \in Workers : intent[v] # 0 <=> Settling(v)
    BY <1>1 DEF IntentOK
  <2>3. intent' = [v \in Workers |-> IF Settling(v)' THEN intent[v] ELSE 0]
    BY <2>1 DEF RecordIntents
  <2>4. {v \in Workers : intent[v] # 0 /\ pc'[v] = "idle"}
          = {v \in Workers : Settling(v) /\ ~Settling(v)'}
    BY <2>1, <2>2
  <2>5. strays' = strays \cup {intent[w] : w \in {v \in Workers : Settling(v) /\ ~Settling(v)'}}
    BY <2>4 DEF RecordIntents
  <2> QED
    BY <2>1, <2>3, <2>5 DEF GivenUp
<1> QED
  BY <1>1, <1>3, <1>4, WhoSteps, ThreadIntents

\* What is behind a row only changes with its status.
LEMMA MoneyStays ==
  ASSUME SettledInv, [Next]_vars, NEW c \in Cases,
         \A w \in Workers : Settling(w) /\ SavedBy(w) /\ pc'[w] # "save" => doc[w].id # c
  PROVE  cases'[c].status \in {"refunded", "credited"}
           <=> cases[c].status \in {"refunded", "credited"}
<1>1. cases[c].status \in {"refunded", "credited"} => cases'[c].status = cases[c].status
  BY SettledStays DEF SettledStatuses
<1>2. ASSUME cases'[c].status \in {"refunded", "credited"}, cases[c].status # cases'[c].status
      PROVE  FALSE
  <2>1. PICK w \in Workers : /\ op[w] = "inspect" /\ pc[w] = "save" /\ pc'[w] # "save"
                             /\ SavedBy(w) /\ doc[w].id = c /\ doc[w].status = cases'[c].status
    BY <1>2, SettledBySave DEF SettledStatuses
  <2> QED
    BY <1>2, <2>1 DEF Settling
<1> QED
  BY <1>1, <1>2

\* Behind every case there stays what should be there.
LEMMA BehindKeeps ==
  ASSUME IntentInv, [Next]_vars, RecordIntents, NEW c \in Cases
  PROVE  BehindOK(c)'
<1>1. /\ IInv /\ SettledInv /\ intent \in [Workers -> Nat] /\ outbox \in Seq(Entry)
      /\ \A w \in Workers : IntentOK(w)
  BY DEF IntentInv, SettledInv, BackedInv, IInv, TypeOK, StoreTypeOK
<1>2. BehindOK(c)
  BY DEF IntentInv
<1>3. ASSUME Behind(c)' = Behind(c), DOMAIN outbox \subseteq DOMAIN outbox',
             cases'[c].status \in {"refunded", "credited"}
               <=> cases[c].status \in {"refunded", "credited"}
      PROVE  BehindOK(c)'
  BY <1>2, <1>3 DEF BehindOK
<1>4. ASSUME NEW w \in Workers, IntentMade(w)
      PROVE  BehindOK(c)'
  <2> DEFINE n == Len(outbox) + 1
  <2>1. /\ DOMAIN outbox' = DOMAIN outbox \cup {n} /\ n \notin DOMAIN outbox
        /\ \A e \in DOMAIN outbox : outbox'[e] = outbox[e]
        /\ intent' = [intent EXCEPT ![w] = n] /\ strays' = strays /\ cases' = cases
    BY <1>1, <1>4, EnqueueAppends DEF IntentMade
  <2>2. intent[w] = 0 /\ 0 \notin DOMAIN outbox
    BY <1>1, <1>4 DEF IntentOK, Settling, IntentMade, EnqueuePayment
  <2>3. {intent'[v] : v \in Workers} \ {0} = ({intent[v] : v \in Workers} \cup {n}) \ {0}
    <3>1. n # 0 /\ n \in Nat
      BY <1>1
    <3> HIDE DEF n
    <3>2. intent'[w] = n /\ \A v \in Workers \ {w} : intent'[v] = intent[v]
      BY <1>1, <2>1
    <3> QED
      BY <2>2, <3>1, <3>2
  <2> HIDE DEF n
  <2>4. Behind(c)' = Behind(c)
    BY <2>1, <2>2, <2>3 DEF Behind, EntriesOf
  <2> QED
    BY <1>3, <2>1, <2>4
<1>5. ASSUME NEW w \in Workers, TakenUp(w)
      PROVE  BehindOK(c)'
  <2> DEFINE i == intent[w]
  <2>1. /\ i \in DOMAIN outbox \ strays /\ outbox[i].case = doc[w].id
        /\ \A v \in Workers \ {w} : intent[v] # i
    BY <1>1, <1>5 DEF TakenUp, IntentOK
  <2>2. /\ outbox' = outbox /\ intent' = [intent EXCEPT ![w] = 0] /\ strays' = strays
        /\ op[w] = "inspect" /\ pc[w] = "save" /\ SavedBy(w)
        /\ doc[w].status \in {"refunded", "credited"}
    BY <1>5 DEF TakenUp, Settling
  <2>3. 0 \notin DOMAIN outbox
    BY <1>1
  <2>4. {intent'[v] : v \in Workers} \ {0} = ({intent[v] : v \in Workers} \ {i}) \ {0}
    <3>1. intent'[w] = 0 /\ \A v \in Workers \ {w} : intent'[v] = intent[v]
      BY <1>1, <2>2
    <3> QED
      BY <2>1, <3>1
  <2>5. CASE c = doc[w].id
    <3>1. cases[c].status = "received"
      BY <1>1, <2>2, <2>5, SavesReceived DEF SavedBy
    <3>2. Behind(c) = {}
      BY <1>2, <3>1 DEF BehindOK
    <3>3. Behind(c)' = Behind(c) \cup {i}
      <4> HIDE DEF i
      <4> QED
        BY <2>1, <2>2, <2>3, <2>4, <2>5 DEF Behind, EntriesOf
    <3>4. cases'[c].status \in {"refunded", "credited"}
      <4>1. doc[w] \in Document /\ cases'[c] = Bumped(doc[w])
        BY <1>1, <2>2, <2>5, SaverFacts, PutKeepsRows DEF SavedBy
      <4> QED
        BY <2>2, <4>1, BumpedFacts
    <3> QED
      BY <2>1, <2>2, <3>2, <3>3, <3>4 DEF BehindOK
  <2>6. CASE c # doc[w].id
    <3>1. Behind(c)' = Behind(c)
      <4> HIDE DEF i
      <4> QED
        BY <2>1, <2>2, <2>3, <2>4, <2>6 DEF Behind, EntriesOf
    <3>2. cases'[c] = cases[c]
      BY <1>1, <2>2, <2>6, SaveLeavesOthers
    <3> QED
      BY <1>3, <2>2, <3>1, <3>2
  <2> QED
    BY <2>5, <2>6
<1>6. CASE GivenUp
  <2>1. \A v \in Workers : intent[v] # 0 => Settling(v)
    BY <1>1 DEF IntentOK
  <2>2. 0 \notin DOMAIN outbox
    BY <1>1
  <2>3. (strays' \cup {intent'[v] : v \in Workers}) \ {0}
          = (strays \cup {intent[v] : v \in Workers}) \ {0}
    BY <1>6, <2>1 DEF GivenUp
  <2>4. Behind(c)' = Behind(c)
    BY <1>6, <2>2, <2>3 DEF Behind, EntriesOf, GivenUp
  <2> QED
    BY <1>3, <1>6, <2>4 DEF GivenUp
<1>7. CASE LeftAlone
  <2>1. Behind(c)' = Behind(c)
    BY <1>7 DEF Behind, EntriesOf, LeftAlone
  <2>2. \A w \in Workers : Settling(w) => pc'[w] = "save"
    BY <1>7 DEF LeftAlone, Settling
  <2>3. cases'[c].status \in {"refunded", "credited"}
          <=> cases[c].status \in {"refunded", "credited"}
    BY <1>1, <2>2, MoneyStays
  <2> QED
    BY <1>3, <1>7, <2>1, <2>3 DEF LeftAlone
<1> QED
  BY <1>4, <1>5, <1>6, <1>7, IntentSteps

\* What the observer remembers of the intents stays right.
LEMMA IntentsAreRemembered ==
  ASSUME IntentInv, [Next]_vars, RecordIntents
  PROVE  /\ intent' \in [Workers -> Nat] /\ strays' \subseteq DOMAIN outbox'
         /\ \A w \in Workers : IntentOK(w)'
<1>1. /\ IInv /\ intent \in [Workers -> Nat] /\ outbox \in Seq(Entry)
      /\ strays \subseteq DOMAIN outbox
      /\ \A w \in Workers : IntentOK(w)
  BY DEF IntentInv, SettledInv, BackedInv, IInv, TypeOK, StoreTypeOK
<1>2. ASSUME NEW w \in Workers, IntentMade(w)
      PROVE  /\ intent' \in [Workers -> Nat] /\ strays' \subseteq DOMAIN outbox'
             /\ \A v \in Workers : IntentOK(v)'
  <2> DEFINE n == Len(outbox) + 1
             e == [case |-> doc[w].id, kind |-> PaymentKind(doc[w]), status |-> "pending"]
  <2>1. /\ DOMAIN outbox' = DOMAIN outbox \cup {n} /\ n \notin DOMAIN outbox
        /\ \A f \in DOMAIN outbox : outbox'[f] = outbox[f]
        /\ outbox'[n] = e
        /\ intent' = [intent EXCEPT ![w] = n] /\ strays' = strays
        /\ Settling(w)' /\ doc'[w] = doc[w]
    BY <1>1, <1>2, EnqueueAppends DEF IntentMade
  <2>2. /\ outbox'[n].case = doc[w].id /\ n \in Nat
        /\ \A v \in Workers \ {w} : doc'[v] = doc[v] /\ Settling(v)' = Settling(v)
    BY <1>1, <1>2, <2>1 DEF IntentMade, Idles
  <2> HIDE DEF n, e
  <2>3. intent'[w] = n /\ \A v \in Workers \ {w} : intent'[v] = intent[v]
    BY <1>1, <2>1
  <2>4. \A v \in Workers \ {w} : intent[v] # n
    <3>1. 0 # n
      BY DEF n
    <3> QED
      BY <1>1, <2>1, <3>1 DEF IntentOK
  <2>5. IntentOK(w)'
    BY <1>1, <2>1, <2>2, <2>3, <2>4 DEF IntentOK
  <2>6. ASSUME NEW v \in Workers \ {w}
        PROVE  IntentOK(v)'
    <3>1. CASE Settling(v)
      <4>1. /\ intent[v] \in DOMAIN outbox \ strays /\ outbox[intent[v]].case = doc[v].id
            /\ \A u \in Workers \ {v} : intent[u] # intent[v]
        BY <1>1, <3>1 DEF IntentOK
      <4>2. \A u \in Workers \ {v} : intent'[u] # intent[v]
        BY <2>3, <2>4, <4>1
      <4> QED
        BY <2>1, <2>2, <2>3, <3>1, <4>1, <4>2 DEF IntentOK
    <3>2. CASE ~Settling(v)
      BY <1>1, <2>1, <2>2, <2>3, <3>2 DEF IntentOK
    <3> QED
      BY <3>1, <3>2
  <2> QED
    BY <1>1, <2>1, <2>2, <2>5, <2>6
<1>3. ASSUME NEW w \in Workers, TakenUp(w)
      PROVE  /\ intent' \in [Workers -> Nat] /\ strays' \subseteq DOMAIN outbox'
             /\ \A v \in Workers : IntentOK(v)'
  <2>1. /\ outbox' = outbox /\ strays' = strays /\ ~Settling(w)'
        /\ intent' = [intent EXCEPT ![w] = 0]
        /\ \A v \in Workers \ {w} : doc'[v] = doc[v] /\ Settling(v)' = Settling(v)
    BY <1>3 DEF TakenUp, Idles
  <2>2. intent'[w] = 0 /\ \A v \in Workers \ {w} : intent'[v] = intent[v]
    BY <1>1, <2>1
  <2>3. 0 \notin DOMAIN outbox
    BY <1>1
  <2> QED
    BY <1>1, <2>1, <2>2, <2>3 DEF IntentOK
<1>4. CASE GivenUp
  <2>1. /\ outbox' = outbox
        /\ \A v \in Workers : intent'[v] = IF Settling(v)' THEN intent[v] ELSE 0
        /\ \A v \in Workers : Settling(v)' => Settling(v) /\ doc'[v] = doc[v]
        /\ intent' \in [Workers -> Nat]
    BY <1>1, <1>4 DEF GivenUp
  <2>2. \A v \in Workers : Settling(v) => intent[v] \in DOMAIN outbox \ strays
    BY <1>1 DEF IntentOK
  <2>3. \A v \in Workers : Settling(v)' => intent[v] \notin strays'
    <3> SUFFICES ASSUME NEW v \in Workers, Settling(v)', NEW u \in Workers,
                        Settling(u), ~Settling(u)', intent[u] = intent[v]
                 PROVE  FALSE
      BY <1>4, <2>1, <2>2 DEF GivenUp
    <3>1. u # v /\ Settling(v)
      BY <2>1
    <3> QED
      BY <1>1, <3>1 DEF IntentOK
  <2>4. strays' \subseteq DOMAIN outbox'
    BY <1>1, <1>4, <2>1, <2>2 DEF GivenUp
  <2>5. ASSUME NEW v \in Workers
        PROVE  IntentOK(v)'
    <3>1. CASE Settling(v)'
      <4>1. Settling(v) /\ doc'[v] = doc[v] /\ intent'[v] = intent[v]
        BY <2>1, <3>1
      <4>2. /\ intent[v] \in DOMAIN outbox /\ outbox[intent[v]].case = doc[v].id
            /\ \A u \in Workers \ {v} : intent[u] # intent[v]
        BY <1>1, <4>1 DEF IntentOK
      <4>3. 0 \notin DOMAIN outbox
        BY <1>1
      <4>4. \A u \in Workers \ {v} : intent'[u] # intent[v]
        BY <2>1, <4>2, <4>3
      <4> QED
        BY <2>1, <2>3, <3>1, <4>1, <4>2, <4>4 DEF IntentOK
    <3>2. CASE ~Settling(v)'
      BY <2>1, <3>2 DEF IntentOK
    <3> QED
      BY <3>1, <3>2
  <2> QED
    BY <2>1, <2>4, <2>5
<1>5. CASE LeftAlone
  BY <1>1, <1>5 DEF LeftAlone, IntentOK
<1> QED
  BY <1>2, <1>3, <1>4, <1>5, IntentSteps

\* A step that nothing of the service or the observer takes part in.
LEMMA NothingHappens ==
  ASSUME UNCHANGED <<vars, historyVars>>
  PROVE  [Next]_vars /\ UNCHANGED <<cases, orders, keys, outbox, op, pc, doc, ask, rest>>
         /\ UNCHANGED <<replaced, crashes>>
         /\ UNCHANGED <<intent, strays, lostOrders, filings, contested, strained>>
BY DEF vars, storeVars, workerVars, moneyVars, historyVars

\* The observer only looks on: what it sees are behaviours of the service.
LEMMA ObserverLooksOn == HistorySpec => Spec
<1>1. [Next /\ Record]_<<vars, historyVars>> => [Next]_vars
  BY NothingHappens
<1> QED
  BY <1>1, PTL DEF HistorySpec, Spec

\* However requests interleave, crash or are sent again: a case that is settled with
\* money has the intent of one payment behind it, and no other case has any, but for
\* the intents of settlements under way or given up before their save.
THEOREM IntentsAreOne == HistorySpec => []OneIntentPerCase
<1>1. Init /\ HistoryInit => IntentInv
  <2> SUFFICES ASSUME Init, HistoryInit PROVE IntentInv
    OBVIOUS
  <2>1. /\ SettledInv /\ outbox = <<>>
        /\ \A c \in Cases : cases[c].status = "absent"
        /\ \A w \in Workers : op[w] = "none"
    BY SettledInvStarts DEF Init, StoreInit, StepInit, NobodyAtWork, NoDocument
  <2>2. intent = [w \in Workers |-> 0] /\ strays = {}
    BY DEF HistoryInit
  <2> QED
    BY <2>1, <2>2 DEF IntentInv, IntentOK, Settling, BehindOK, Behind, EntriesOf
<1>2. IntentInv /\ [Next /\ Record]_<<vars, historyVars>> => IntentInv'
  <2>1. ASSUME IntentInv, Next, Record
        PROVE  IntentInv'
    BY <2>1, SettledInvKeeps, IntentsAreRemembered, BehindKeeps DEF Record, IntentInv
  <2>2. ASSUME IntentInv, UNCHANGED <<vars, historyVars>>
        PROVE  IntentInv'
    <3>1. SettledInv'
      BY <2>2, NothingHappens, SettledInvKeeps DEF IntentInv
    <3>2. UNCHANGED <<cases, outbox, op, pc, doc, intent, strays>>
      BY <2>2, NothingHappens
    <3> QED
      BY <2>2, <3>1, <3>2 DEF IntentInv, IntentOK, Settling, BehindOK, Behind, EntriesOf
  <2> QED
    BY <2>1, <2>2
<1>3. IntentInv => OneIntentPerCase
  <2> SUFFICES ASSUME IntentInv, NEW c \in Cases
               PROVE  IF cases[c].status \in {"refunded", "credited"}
                      THEN Cardinality(Behind(c)) = 1 ELSE Behind(c) = {}
    BY DEF OneIntentPerCase
  <2>1. CASE cases[c].status \in {"refunded", "credited"}
    <3>1. PICK e \in DOMAIN outbox : Behind(c) = {e}
      BY <2>1 DEF IntentInv, BehindOK
    <3> QED
      BY <2>1, <3>1, FS_Singleton
  <2> QED
    BY <2>1 DEF IntentInv, BehindOK
<1> QED
  BY <1>1, <1>2, <1>3, PTL DEF HistorySpec

-----------------------------------------------------------------------------
(* A case has one replacement order.                                       *)

\* The thread has an order made, and holds its number.
OrderMade(w) ==
  /\ ~HoldsOrder(w) /\ HoldsOrder(w)' /\ doc[w].id \in Cases /\ doc'[w].id = doc[w].id
  /\ doc'[w].replacement = replaced'[doc[w].id]
  /\ replaced' = [replaced EXCEPT ![doc[w].id] = @ + 1]
  /\ cases' = cases /\ lostOrders' = lostOrders
  /\ \A v \in Workers \ {w} : Idles(v)

\* The order is made, and its number lost.
AnswerLost(w) ==
  /\ ~HoldsOrder(w) /\ ~HoldsOrder(w)' /\ doc[w].id \in Cases
  /\ replaced' = [replaced EXCEPT ![doc[w].id] = @ + 1]
  /\ cases' = cases /\ lostOrders' = lostOrders \cup {<<doc[w].id, replaced'[doc[w].id]>>}
  /\ \A v \in Workers \ {w} : Idles(v)

\* The case is saved with the number of its order.
OrderRecorded(w) ==
  /\ HoldsOrder(w) /\ ~HoldsOrder(w)' /\ SavedBy(w)
  /\ replaced' = replaced /\ lostOrders' = lostOrders
  /\ \A v \in Workers \ {w} : Idles(v)

\* Threads drop the orders they hold, or none is held, made or recorded.
OrdersDropped ==
  /\ replaced' = replaced
  /\ \A v \in Workers : HoldsOrder(v)' => HoldsOrder(v) /\ doc'[v] = doc[v]
  /\ lostOrders' = lostOrders
       \cup {<<doc[w].id, doc[w].replacement>> :
               w \in {v \in Workers : HoldsOrder(v) /\ ~HoldsOrder(v)'}}
  /\ \A c \in Cases : /\ cases'[c].status = "exchanged" <=> cases[c].status = "exchanged"
                      /\ cases[c].status = "exchanged"
                           => cases'[c].replacement = cases[c].replacement

\* A thread gets to the save of an exchange by its order only.
LEMMA OthersOrderNothing ==
  ASSUME SettledInv, NEW w \in Workers, Arrival(w) \/ Progress(w),
         ~HoldsOrder(w), ~CreateReplacement(w)
  PROVE  ~HoldsOrder(w)'
<1>1. IInv /\ BackedOK(w) /\ LocalTypeOK
  BY DEF SettledInv, BackedInv, IInv, TypeOK, StepTypeOK
<1> SUFFICES ASSUME HoldsOrder(w)' PROVE FALSE
  OBVIOUS
<1>2. Holding(w)' /\ op'[w] = "inspect" /\ pc'[w] = "save" /\ doc'[w].status = "exchanged"
  BY DEF HoldsOrder, Holding
<1>3. CASE Arrival(w)
  <2>1. Taken(w)
    BY <1>1, <1>2, <1>3, ArrivalTakes
  <2>2. PICK c \in Cases : Exists(c) /\ op'[w] = "inspect" /\ CanMove(cases[c].status, "inspecting")
                            /\ doc'[w].status = "closed_failed_inspection"
    BY <1>2, <2>1 DEF Taken
  <2> QED
    BY <1>2, <2>2
<1>4. CASE Progress(w)
  <2>1. Expires(w) \/ Builds(w) \/ Carries(w)
    BY <1>1, <1>2, <1>4, ProgressCarries
  <2>2. ~Expires(w)
    BY <1>1, <1>2, ExpiredFacts DEF Expires
  <2>3. ~Builds(w)
    BY <1>2 DEF Builds
  <2>4. Carries(w) /\ op[w] = "inspect" /\ pc[w] \in {"label", "replace", "enqueue"}
    BY <1>2, <2>1, <2>2, <2>3 DEF Carries
  <2>5. pc[w] # "replace"
    BY <1>4, WaysOn
  <2>6. pc[w] # "label"
    BY <1>1, <1>2, <2>4, CarriedFacts
  <2>7. pc[w] = "enqueue" /\ Holding(w) /\ doc'[w].status = doc[w].status
    BY <1>1, <2>4, <2>5, <2>6, CarriedFacts DEF Holding
  <2>8. doc[w].status = ResolutionToStatus[Wants(doc[w])] /\ Wants(doc[w]) # "exchange"
    BY <1>1, <2>7 DEF BackedOK
  <2>9. Wants(doc[w]) \in Resolution
    BY <1>1, <2>7, HeldFacts, WantsFacts
  <2> QED
    BY <1>2, <2>7, <2>8, <2>9 DEF Resolution, ResolutionToStatus
<1> QED
  BY <1>3, <1>4

\* In a step that no order is held through, exchanged cases are the same.
LEMMA ExchangesStay ==
  ASSUME SettledInv, [Next]_vars, NEW c \in Cases,
         \A w \in Workers : HoldsOrder(w) /\ SavedBy(w) /\ pc'[w] # "save" => doc[w].id # c
  PROVE  /\ cases'[c].status = "exchanged" <=> cases[c].status = "exchanged"
         /\ cases[c].status = "exchanged" => cases'[c].replacement = cases[c].replacement
<1>1. cases[c].status = "exchanged" => /\ cases'[c].status = cases[c].status
                                       /\ cases'[c].replacement = cases[c].replacement
  BY SettledStays DEF SettledStatuses
<1>2. ASSUME cases'[c].status = "exchanged", cases[c].status # cases'[c].status
      PROVE  FALSE
  <2>1. PICK w \in Workers : /\ op[w] = "inspect" /\ pc[w] = "save" /\ pc'[w] # "save"
                             /\ SavedBy(w) /\ doc[w].id = c /\ doc[w].status = cases'[c].status
    BY <1>2, SettledBySave DEF SettledStatuses
  <2> QED
    BY <1>2, <2>1 DEF HoldsOrder
<1> QED
  BY <1>1, <1>2

\* A thread that asks for an order gets it, or not its number, or nothing.
LEMMA OrderingSteps ==
  ASSUME OrderInv, [Next]_vars, RecordOrders, NEW w \in Workers, CreateReplacement(w),
         \A v \in Workers \ {w} : Idles(v)
  PROVE  OrderMade(w) \/ AnswerLost(w) \/ OrdersDropped
<1>1. /\ SettledInv /\ IInv /\ LocalTypeOK /\ BackedOK(w) /\ replaced \in [Cases -> Nat]
      /\ doc[w] \in Document /\ now \in Nat
  BY MaxNowAssumption DEF OrderInv, SettledInv, BackedInv, IInv, TypeOK, StepTypeOK, LocalTypeOK,
     SettlementTypeOK
<1>2. pc[w] = "replace" /\ op[w] = "inspect" /\ Holding(w) /\ ~HoldsOrder(w)
  <2>1. pc[w] = "replace" /\ Holding(w) /\ ~HoldsOrder(w)
    BY DEF CreateReplacement, Holding, HoldsOrder
  <2> QED
    BY <1>1, <2>1, CallerFacts DEF IInv, FitOK
<1>3. doc[w].id \in Cases /\ Wants(doc[w]) = "exchange"
  BY <1>1, <1>2, HeldFacts DEF BackedOK
<1>4. \A v \in Workers \ {w} : /\ HoldsOrder(v)' = HoldsOrder(v) /\ doc'[v] = doc[v]
                               /\ pc'[v] = pc[v] /\ (HoldsOrder(v) => pc'[v] # "idle")
  BY DEF Idles, HoldsOrder
<1>5. {v \in Workers : HoldsOrder(v) /\ pc'[v] = "idle"} = {}
  BY <1>2, <1>4
<1>6. {v \in Workers : pc[v] = "replace" /\ pc'[v] = "idle" /\ replaced' # replaced}
        = IF pc'[w] = "idle" /\ replaced' # replaced THEN {w} ELSE {}
  BY <1>2, <1>4
<1>7. cases' = cases
  BY DEF CreateReplacement, storeVars
<1>8. CASE replaced' = [replaced EXCEPT ![doc[w].id] = @ + 1]
             /\ Goto(w, "save", Settled([doc[w] EXCEPT !.replacement = replaced'[doc[w].id]]))
  <2> DEFINE d == [doc[w] EXCEPT !.replacement = replaced'[doc[w].id]]
  <2>1. op'[w] = "inspect" /\ pc'[w] = "save" /\ doc'[w] = Settled(d)
    BY <1>1, <1>2, <1>8 DEF Goto, LocalTypeOK
  <2>2. replaced'[doc[w].id] \in Nat
    BY <1>1, <1>3, <1>8
  <2>3. d \in Document /\ d.id = doc[w].id /\ d.replacement = replaced'[doc[w].id] /\ d.req = doc[w].req
    BY <1>1, <2>2 DEF Document
  <2> HIDE DEF d
  <2>4. Settled(d).id = d.id /\ Settled(d).replacement = d.replacement
        /\ Settled(d).status = "exchanged"
    BY <1>3, <2>3 DEF Settled, Transitioned, AddEvent, Document, Wants, ResolutionToStatus
  <2>5. HoldsOrder(w)'
    BY <2>1, <2>4 DEF HoldsOrder
  <2>6. lostOrders' = lostOrders
    BY <1>5, <1>6, <2>1 DEF RecordOrders
  <2> QED
    BY <1>2, <1>3, <1>7, <1>8, <2>1, <2>3, <2>4, <2>5, <2>6 DEF OrderMade
<1>9. CASE replaced' = [replaced EXCEPT ![doc[w].id] = @ + 1] /\ Finish(w)
  <2>1. pc'[w] = "idle" /\ ~HoldsOrder(w)'
    BY <1>1, <1>9 DEF Finish, LocalTypeOK, HoldsOrder
  <2>2. replaced' # replaced
    BY <1>1, <1>3, <1>9
  <2>3. lostOrders' = lostOrders \cup {<<doc[w].id, replaced'[doc[w].id]>>}
    BY <1>5, <1>6, <2>1, <2>2 DEF RecordOrders
  <2> QED
    BY <1>2, <1>3, <1>7, <1>9, <2>1, <2>3 DEF AnswerLost
<1>10. CASE replaced' = replaced /\ Finish(w)
  <2>1. ~HoldsOrder(w)'
    BY <1>1, <1>10 DEF Finish, LocalTypeOK, HoldsOrder
  <2>2. lostOrders' = lostOrders
    BY <1>5, <1>6, <1>10 DEF RecordOrders
  <2>3. {v \in Workers : HoldsOrder(v) /\ ~HoldsOrder(v)'} = {}
    BY <1>2, <1>4
  <2> QED
    BY <1>4, <1>7, <1>10, <2>1, <2>2, <2>3 DEF OrdersDropped
<1> QED
  BY <1>8, <1>9, <1>10 DEF CreateReplacement

\* Any step with an order.
LEMMA OrderSteps ==
  ASSUME OrderInv, [Next]_vars, RecordOrders
  PROVE  \/ \E w \in Workers : OrderMade(w) \/ AnswerLost(w) \/ OrderRecorded(w)
         \/ OrdersDropped
<1>1. SettledInv /\ IInv /\ LocalTypeOK
  BY DEF OrderInv, SettledInv, BackedInv, IInv, TypeOK, StepTypeOK
<1>2. CASE NobodySteps
  <2>1. \A v \in Workers : HoldsOrder(v)' = HoldsOrder(v) /\ doc'[v] = doc[v] /\ pc'[v] = pc[v]
    BY <1>2 DEF NobodySteps, workerVars, HoldsOrder
  <2>2. replaced' = replaced /\ cases' = cases
    BY <1>2 DEF NobodySteps, moneyVars
  <2>3. {v \in Workers : HoldsOrder(v) /\ pc'[v] = "idle"} = {}
        /\ {v \in Workers : HoldsOrder(v) /\ ~HoldsOrder(v)'} = {}
    BY <2>1 DEF HoldsOrder
  <2>4. lostOrders' = lostOrders
    BY <2>2, <2>3 DEF RecordOrders
  <2> QED
    BY <2>1, <2>2, <2>3, <2>4 DEF OrdersDropped
<1>3. CASE Crash
  <2>1. replaced' = replaced /\ cases' = cases /\ \A v \in Workers : pc'[v] = "idle"
    BY <1>3 DEF Crash, storeVars
  <2>2. \A v \in Workers : ~HoldsOrder(v)'
    BY <2>1 DEF HoldsOrder
  <2>3. {v \in Workers : HoldsOrder(v) /\ pc'[v] = "idle"}
          = {v \in Workers : HoldsOrder(v) /\ ~HoldsOrder(v)'}
    BY <2>1, <2>2
  <2> QED
    BY <2>1, <2>2, <2>3 DEF OrdersDropped, RecordOrders
<1>4. ASSUME NEW w \in Workers, Arrival(w) \/ Progress(w), ~CreateReplacement(w),
             \A v \in Workers \ {w} : Idles(v)
      PROVE  OrderRecorded(w) \/ OrdersDropped
  <2>1. \A v \in Workers \ {w} : /\ HoldsOrder(v)' = HoldsOrder(v) /\ doc'[v] = doc[v]
                                 /\ pc'[v] = pc[v] /\ (HoldsOrder(v) => pc'[v] = "save")
    BY <1>4 DEF Idles, HoldsOrder
  <2>2. replaced' = replaced
    <3>1. ASSUME NEW u \in Workers, CreateReplacement(u)
          PROVE  FALSE
      <4>1. pc[u] = "replace" /\ pc'[u] # "replace"
        BY <1>1, <3>1 DEF CreateReplacement, Goto, Finish, LocalTypeOK
      <4> QED
        BY <1>4, <2>1, <3>1, <4>1
    <3> QED
      BY <3>1, ReplacedSteps
  <2>3. lostOrders' = lostOrders \cup {<<doc[u].id, doc[u].replacement>> :
                                         u \in {v \in Workers : HoldsOrder(v) /\ pc'[v] = "idle"}}
    BY <2>2 DEF RecordOrders
  <2>4. CASE HoldsOrder(w)
    <3>1. SaveCase(w) /\ pc[w] = "save" /\ op[w] = "inspect" /\ AfterSave(w) = "notify"
      BY <1>4, <2>4, WaysOn, ArrivesIdle DEF HoldsOrder, AfterSave, Announced
    <3>2. CASE CanSave(doc[w])
      <4>1. SavedBy(w) /\ pc'[w] = "notify"
        BY <1>1, <3>1, <3>2 DEF SaveCase, SavedBy, Goto, LocalTypeOK
      <4>2. {v \in Workers : HoldsOrder(v) /\ pc'[v] = "idle"} = {} /\ ~HoldsOrder(w)'
        BY <2>1, <4>1 DEF HoldsOrder
      <4> QED
        BY <1>4, <2>2, <2>3, <2>4, <4>1, <4>2 DEF OrderRecorded
    <3>3. CASE ~CanSave(doc[w])
      <4>1. cases' = cases /\ pc'[w] = "idle" /\ ~HoldsOrder(w)'
        BY <1>1, <3>1, <3>3 DEF SaveCase, Finish, LocalTypeOK, HoldsOrder
      <4>2. {v \in Workers : HoldsOrder(v) /\ pc'[v] = "idle"}
              = {v \in Workers : HoldsOrder(v) /\ ~HoldsOrder(v)'}
        BY <2>1, <4>1
      <4> QED
        BY <2>1, <2>2, <2>3, <4>1, <4>2 DEF OrdersDropped
    <3> QED
      BY <3>2, <3>3
  <2>5. CASE ~HoldsOrder(w)
    <3>1. ~HoldsOrder(w)'
      BY <1>1, <1>4, <2>5, OthersOrderNothing
    <3>2. {v \in Workers : HoldsOrder(v) /\ pc'[v] = "idle"} = {}
          /\ {v \in Workers : HoldsOrder(v) /\ ~HoldsOrder(v)'} = {}
      BY <2>1, <2>5
    <3>3. \A c \in Cases : /\ cases'[c].status = "exchanged" <=> cases[c].status = "exchanged"
                           /\ cases[c].status = "exchanged"
                                => cases'[c].replacement = cases[c].replacement
      BY <1>1, <2>1, <2>5, ExchangesStay
    <3> QED
      BY <2>1, <2>2, <2>3, <3>1, <3>2, <3>3 DEF OrdersDropped
  <2> QED
    BY <2>4, <2>5
<1> QED
  BY <1>1, <1>2, <1>3, <1>4, WhoSteps, OrderingSteps

\* The order a thread holds is one the order system has made.
LEMMA HeldOrders ==
  ASSUME SettledInv, NEW w \in Workers, HoldsOrder(w)
  PROVE  doc[w].id \in Cases /\ doc[w].replacement \in 1..replaced[doc[w].id]
BY HeldFacts DEF SettledInv, BackedInv, BackedOK, Backed, HoldsOrder, Holding

\* Orders lost are orders made.
LostAreMade == \A p \in lostOrders : \E c \in Cases : \E n \in 1..replaced[c] : p = <<c, n>>

\* What a new order is to those there were.
LEMMA OneMore ==
  ASSUME IInv, NEW x \in Cases, replaced' = [replaced EXCEPT ![x] = @ + 1]
  PROVE  /\ replaced'[x] \in 1..replaced'[x] /\ replaced'[x] \notin 1..replaced[x]
         /\ 1..replaced'[x] = 1..replaced[x] \cup {replaced'[x]}
         /\ \A c \in Cases : c # x => replaced'[c] = replaced[c]
         /\ \A c \in Cases : 1..replaced[c] \subseteq 1..replaced'[c]
<1>1. replaced \in [Cases -> Nat]
  BY DEF IInv, TypeOK, SettlementTypeOK
<1>2. replaced[x] \in Nat /\ replaced'[x] = replaced[x] + 1
  BY <1>1
<1>3. \A c \in Cases : c # x => replaced'[c] = replaced[c]
  BY <1>1
<1>4. 1..replaced'[x] = 1..replaced[x] \cup {replaced'[x]}
  BY <1>2
<1>5. \A c \in Cases : 1..replaced[c] \subseteq 1..replaced'[c]
  BY <1>3, <1>4
<1> QED
  BY <1>2, <1>3, <1>4, <1>5

\* A new order is kept by none, and lost by none.
LEMMA OrderMadeKeeps ==
  ASSUME OrderInv, SettledInv', NEW w \in Workers, OrderMade(w)
  PROVE  OrderInv'
<1> DEFINE x == doc[w].id
           n == replaced'[x]
<1>1. /\ IInv /\ SettledInv /\ LostAreMade /\ OneReplacementPerCase
      /\ \A v \in Workers : HandOK(v)
  BY DEF OrderInv, SettledInv, BackedInv, LostAreMade
<1>2. /\ x \in Cases /\ n \in 1..n /\ n \notin 1..replaced[x] /\ 1..n = 1..replaced[x] \cup {n}
      /\ \A c \in Cases : c # x => replaced'[c] = replaced[c]
      /\ \A c \in Cases : 1..replaced[c] \subseteq 1..replaced'[c]
  BY <1>1, OneMore DEF OrderMade
<1>3. /\ doc'[w].id = x /\ doc'[w].replacement = n /\ HoldsOrder(w)' /\ ~HoldsOrder(w)
      /\ cases' = cases /\ lostOrders' = lostOrders
      /\ \A v \in Workers \ {w} : HoldsOrder(v)' = HoldsOrder(v) /\ doc'[v] = doc[v]
  BY DEF OrderMade, Idles, HoldsOrder
<1> HIDE DEF n, x
<1>4. <<x, n>> \notin lostOrders
  BY <1>1, <1>2 DEF LostAreMade
<1>5. \A v \in Workers \ {w} : HoldsOrder(v) => <<doc[v].id, doc[v].replacement>> # <<x, n>>
  BY <1>1, <1>2, HeldOrders
<1>6. LostAreMade'
  BY <1>1, <1>2, <1>3 DEF LostAreMade
<1>7. ASSUME NEW v \in Workers
      PROVE  HandOK(v)'
  <2>1. CASE v = w
    BY <1>3, <1>4, <1>5, <2>1 DEF HandOK
  <2>2. CASE v # w
    <3>1. HandOK(v)
      BY <1>1
    <3> QED
      BY <1>3, <1>5, <2>2, <3>1 DEF HandOK
  <2> QED
    BY <2>1, <2>2
<1>8. ASSUME NEW c \in Cases
      PROVE  Kept(c)' = Kept(c)
  <2>1. \A m \in 1..replaced[c] : <<c, m>> # <<x, n>>
    BY <1>2
  <2>2. \A m \in 1..replaced'[c] : m \in 1..replaced[c] \/ <<c, m>> = <<x, n>>
    BY <1>2 DEF n
  <2>3. \A m \in 1..replaced'[c] : m \in Kept(c)' <=> m \in Kept(c)
    BY <1>2, <1>3, <2>1, <2>2 DEF Kept
  <2> QED
    BY <1>2, <2>3 DEF Kept
<1>9. OneReplacementPerCase'
  BY <1>1, <1>3, <1>8 DEF OneReplacementPerCase
<1> QED
  BY <1>6, <1>7, <1>9 DEF OrderInv, LostAreMade

\* An order whose number is lost is lost.
LEMMA AnswerLostKeeps ==
  ASSUME OrderInv, SettledInv', NEW w \in Workers, AnswerLost(w)
  PROVE  OrderInv'
<1> DEFINE x == doc[w].id
           n == replaced'[x]
<1>1. /\ IInv /\ SettledInv /\ LostAreMade /\ OneReplacementPerCase
      /\ \A v \in Workers : HandOK(v)
  BY DEF OrderInv, SettledInv, BackedInv, LostAreMade
<1>2. /\ x \in Cases /\ n \in 1..n /\ n \notin 1..replaced[x] /\ 1..n = 1..replaced[x] \cup {n}
      /\ \A c \in Cases : c # x => replaced'[c] = replaced[c]
      /\ \A c \in Cases : 1..replaced[c] \subseteq 1..replaced'[c]
  BY <1>1, OneMore DEF AnswerLost
<1>3. /\ ~HoldsOrder(w)' /\ ~HoldsOrder(w)
      /\ cases' = cases /\ lostOrders' = lostOrders \cup {<<x, n>>}
      /\ \A v \in Workers \ {w} : HoldsOrder(v)' = HoldsOrder(v) /\ doc'[v] = doc[v]
  BY DEF AnswerLost, Idles, HoldsOrder
<1>4. LostAreMade'
  <2>1. \E c \in Cases : \E m \in 1..replaced'[c] : <<x, n>> = <<c, m>>
    BY <1>2
  <2> HIDE DEF n, x
  <2> QED
    BY <1>1, <1>2, <1>3, <2>1 DEF LostAreMade
<1> HIDE DEF n, x
<1>5. \A v \in Workers \ {w} : HoldsOrder(v) => <<doc[v].id, doc[v].replacement>> # <<x, n>>
  BY <1>1, <1>2, HeldOrders
<1>6. ASSUME NEW v \in Workers
      PROVE  HandOK(v)'
  <2>1. CASE v = w
    BY <1>3, <2>1 DEF HandOK
  <2>2. CASE v # w
    <3>1. HandOK(v)
      BY <1>1
    <3> QED
      BY <1>3, <1>5, <2>2, <3>1 DEF HandOK
  <2> QED
    BY <2>1, <2>2
<1>7. ASSUME NEW c \in Cases
      PROVE  Kept(c)' = Kept(c)
  <2>1. \A m \in 1..replaced[c] : <<c, m>> # <<x, n>>
    BY <1>2
  <2>2. \A m \in 1..replaced'[c] : m \in 1..replaced[c] \/ <<c, m>> = <<x, n>>
    BY <1>2 DEF n
  <2>3. \A m \in 1..replaced'[c] : m \in Kept(c)' <=> m \in Kept(c)
    BY <1>2, <1>3, <2>1, <2>2 DEF Kept
  <2> QED
    BY <1>2, <2>3 DEF Kept
<1>8. OneReplacementPerCase'
  BY <1>1, <1>3, <1>7 DEF OneReplacementPerCase
<1> QED
  BY <1>4, <1>6, <1>8 DEF OrderInv, LostAreMade

\* The case that is saved with its order had none before.
LEMMA OrderRecordedKeeps ==
  ASSUME OrderInv, SettledInv', NEW w \in Workers, OrderRecorded(w)
  PROVE  OrderInv'
<1> DEFINE x == doc[w].id
           n == doc[w].replacement
<1>1. /\ IInv /\ SettledInv /\ LostAreMade /\ OneReplacementPerCase
      /\ \A v \in Workers : HandOK(v)
  BY DEF OrderInv, SettledInv, BackedInv, LostAreMade
<1>2. /\ HoldsOrder(w) /\ ~HoldsOrder(w)' /\ SavedBy(w)
      /\ replaced' = replaced /\ lostOrders' = lostOrders
      /\ \A v \in Workers \ {w} : HoldsOrder(v)' = HoldsOrder(v) /\ doc'[v] = doc[v]
  BY DEF OrderRecorded, Idles, HoldsOrder
<1>3. x \in Cases /\ n \in 1..replaced[x]
  BY <1>1, <1>2, HeldOrders
<1>4. cases[x].status = "received"
  BY <1>1, <1>2, SavesReceived DEF HoldsOrder, SavedBy
<1>5. cases'[x].status = "exchanged" /\ cases'[x].replacement = n
  <2>1. doc[w] \in Document /\ cases'[x] = Bumped(doc[w])
    BY <1>1, <1>2, <1>3, SaverFacts, PutKeepsRows DEF SavedBy
  <2> QED
    BY <1>2, <2>1, BumpedFacts DEF HoldsOrder
<1>6. /\ <<x, n>> \notin lostOrders
      /\ \A v \in Workers \ {w} : HoldsOrder(v) => <<doc[v].id, doc[v].replacement>> # <<x, n>>
  BY <1>1, <1>2 DEF HandOK
<1>7. \A c \in Cases : c # x => cases'[c] = cases[c]
  BY <1>1, <1>2, SaveLeavesOthers
<1>8. LostAreMade'
  BY <1>1, <1>2 DEF LostAreMade
<1>9. ASSUME NEW v \in Workers
      PROVE  HandOK(v)'
  <2>1. HandOK(v)
    BY <1>1
  <2> QED
    BY <1>2, <2>1 DEF HandOK
<1> HIDE DEF n, x
<1>10. ASSUME NEW c \in Cases
       PROVE  Kept(c)' = IF c = x THEN Kept(c) \cup {n} ELSE Kept(c)
  <2>1. \A m \in 1..replaced[c] : m \in Kept(c)' <=> m \in Kept(c) \/ <<c, m>> = <<x, n>>
    <3> TAKE m \in 1..replaced[c]
    <3>1. m \in Kept(c)' <=> /\ <<c, m>> \notin lostOrders
                             /\ \A v \in Workers \ {w} : HoldsOrder(v)
                                  => <<doc[v].id, doc[v].replacement>> # <<c, m>>
      BY <1>2 DEF Kept
    <3>2. m \in Kept(c) <=> /\ <<c, m>> \notin lostOrders
                            /\ \A v \in Workers \ {w} : HoldsOrder(v)
                                 => <<doc[v].id, doc[v].replacement>> # <<c, m>>
                            /\ <<x, n>> # <<c, m>>
      BY <1>2 DEF Kept, x, n
    <3> QED
      BY <1>6, <3>1, <3>2
  <2> QED
    BY <1>2, <1>3, <2>1 DEF Kept
<1>11. OneReplacementPerCase'
  <2> SUFFICES ASSUME NEW c \in Cases
               PROVE  Kept(c)' = IF cases'[c].status = "exchanged"
                                 THEN {cases'[c].replacement} ELSE {}
    BY DEF OneReplacementPerCase
  <2>1. Kept(c) = IF cases[c].status = "exchanged" THEN {cases[c].replacement} ELSE {}
    BY <1>1 DEF OneReplacementPerCase
  <2> QED
    BY <1>4, <1>5, <1>7, <1>10, <2>1
<1> QED
  BY <1>8, <1>9, <1>11 DEF OrderInv, LostAreMade

\* What threads drop is lost.
LEMMA OrdersDroppedKeep ==
  ASSUME OrderInv, SettledInv', OrdersDropped
  PROVE  OrderInv'
<1>1. /\ IInv /\ SettledInv /\ LostAreMade /\ OneReplacementPerCase
      /\ \A v \in Workers : HandOK(v)
  BY DEF OrderInv, SettledInv, BackedInv, LostAreMade
<1>2. LostAreMade'
  <2> SUFFICES ASSUME NEW p \in lostOrders'
               PROVE  \E c \in Cases : \E n \in 1..replaced[c] : p = <<c, n>>
    BY DEF LostAreMade, OrdersDropped
  <2>1. CASE p \in lostOrders
    BY <1>1, <2>1 DEF LostAreMade
  <2>2. CASE p \notin lostOrders
    <3>1. PICK w \in Workers : HoldsOrder(w) /\ p = <<doc[w].id, doc[w].replacement>>
      BY <2>2 DEF OrdersDropped
    <3> QED
      BY <1>1, <3>1, HeldOrders
  <2> QED
    BY <2>1, <2>2
<1>3. ASSUME NEW w \in Workers
      PROVE  HandOK(w)'
  <2> SUFFICES ASSUME HoldsOrder(w)'
               PROVE  /\ <<doc'[w].id, doc'[w].replacement>> \notin lostOrders'
                      /\ \A v \in Workers \ {w} : HoldsOrder(v)' =>
                           <<doc'[v].id, doc'[v].replacement>>
                             # <<doc'[w].id, doc'[w].replacement>>
    BY DEF HandOK
  <2>1. HoldsOrder(w) /\ doc'[w] = doc[w]
    BY DEF OrdersDropped
  <2>2. /\ <<doc[w].id, doc[w].replacement>> \notin lostOrders
        /\ \A v \in Workers \ {w} : HoldsOrder(v) =>
             <<doc[v].id, doc[v].replacement>> # <<doc[w].id, doc[w].replacement>>
    BY <1>1, <2>1 DEF HandOK
  <2>3. <<doc[w].id, doc[w].replacement>> \notin lostOrders'
    BY <2>2 DEF OrdersDropped
  <2> QED
    BY <2>1, <2>2, <2>3 DEF OrdersDropped
<1>4. ASSUME NEW c \in Cases
      PROVE  Kept(c)' = Kept(c)
  <2> DEFINE Free(m) == /\ <<c, m>> \notin lostOrders
                        /\ \A w \in Workers : HoldsOrder(w)
                             => <<doc[w].id, doc[w].replacement>> # <<c, m>>
  <2>1. \A m : Free(m)' <=> Free(m)
    BY DEF OrdersDropped
  <2>2. Kept(c) = {m \in 1..replaced[c] : Free(m)}
    BY DEF Kept
  <2>3. Kept(c)' = {m \in 1..replaced'[c] : Free(m)'}
    BY DEF Kept
  <2> HIDE DEF Free
  <2> QED
    BY <2>1, <2>2, <2>3 DEF OrdersDropped
<1>5. OneReplacementPerCase'
  BY <1>1, <1>4 DEF OneReplacementPerCase, OrdersDropped
<1> QED
  BY <1>2, <1>3, <1>5 DEF OrderInv, LostAreMade

\* However requests interleave, crash or lose answers: the one replacement order of
\* a case that no thread holds and nobody lost is the one it names as exchanged, and
\* a case that is not exchanged has none.
THEOREM ReplacementsAreOne == HistorySpec => []OneReplacementPerCase
<1>1. Init /\ HistoryInit => OrderInv
  <2> SUFFICES ASSUME Init, HistoryInit PROVE OrderInv
    OBVIOUS
  <2>1. /\ SettledInv /\ replaced = [c \in Cases |-> 0]
        /\ \A c \in Cases : cases[c].status = "absent"
        /\ \A w \in Workers : op[w] = "none"
    BY SettledInvStarts DEF Init, StoreInit, StepInit, SettlementInit, NobodyAtWork, NoDocument
  <2>2. lostOrders = {}
    BY DEF HistoryInit
  <2>3. \A c \in Cases : 1..replaced[c] = {}
    BY <2>1
  <2> QED
    BY <2>1, <2>2, <2>3 DEF OrderInv, HandOK, HoldsOrder, OneReplacementPerCase, Kept
<1>2. OrderInv /\ [Next /\ Record]_<<vars, historyVars>> => OrderInv'
  <2>1. ASSUME OrderInv, Next, Record
        PROVE  OrderInv'
    <3>1. SettledInv' /\ RecordOrders
      BY <2>1, SettledInvKeeps DEF OrderInv, Record
    <3> QED
      BY <2>1, <3>1, OrderSteps, OrderMadeKeeps, AnswerLostKeeps, OrderRecordedKeeps,
         OrdersDroppedKeep
  <2>2. ASSUME OrderInv, UNCHANGED <<vars, historyVars>>
        PROVE  OrderInv'
    <3>1. SettledInv'
      BY <2>2, NothingHappens, SettledInvKeeps DEF OrderInv
    <3>2. UNCHANGED <<cases, op, pc, doc, replaced, lostOrders>>
      BY <2>2, NothingHappens
    <3>3. OrdersDropped
      BY <3>2 DEF OrdersDropped, HoldsOrder
    <3> QED
      BY <2>2, <3>1, <3>3, OrdersDroppedKeep
  <2> QED
    BY <2>1, <2>2
<1>3. OrderInv => OneReplacementPerCase
  BY DEF OrderInv
<1> QED
  BY <1>1, <1>2, <1>3, PTL DEF HistorySpec

-----------------------------------------------------------------------------
(* A key has one case.                                                     *)

\* A thread that creates a case goes on for the key it was given.
LEMMA CreationGoesOn ==
  ASSUME IInv, [Next]_vars, NEW v \in Workers, Progress(v), op'[v] = "create"
  PROVE  op[v] = "create" /\ ask'[v].key = ask[v].key
<1>1. LocalTypeOK
  BY DEF IInv, TypeOK, StepTypeOK
<1>2. ~Finish(v)
  BY <1>1 DEF Finish, LocalTypeOK
<1>3. op'[v] = op[v]
  BY <1>1, <1>2 DEF Progress, LookupKey, ReadOrder, CheckAndDecide, RecordKey, SweepNext,
     IssueLabel, SaveCase, Notify, NoteNotice, AfterNotice, CreateReplacement, EnqueuePayment,
     ListPending, Pay, PayEntry, MarkExecuted, MarkPending, MarkAs, EndFlush, Goto, LocalTypeOK
<1>4. ask'[v].key = ask[v].key
  <2>1. ask[v] \in Ask
    BY <1>1 DEF LocalTypeOK
  <2>2. CASE ReadOrder(v)
    <3>1. ask' = [ask EXCEPT ![v].book = orders[ask[v].req.order]]
      BY <1>2, <2>2 DEF ReadOrder
    <3> QED
      BY <1>1, <3>1 DEF LocalTypeOK, Ask
  <2>3. CASE ~ReadOrder(v)
    <3>1. ask' = ask
      BY <1>2, <2>3 DEF Progress, LookupKey, CheckAndDecide, RecordKey, SweepNext,
         IssueLabel, SaveCase, Notify, NoteNotice, AfterNotice, CreateReplacement, EnqueuePayment,
         ListPending, Pay, PayEntry, MarkExecuted, MarkPending, MarkAs, EndFlush, Goto
    <3> QED
      BY <3>1
  <2> QED
    BY <2>2, <2>3
<1> QED
  BY <1>3, <1>4

\* A thread is past its lookup of a key when it was, or has just found it free.
LEMMA PastComeFrom ==
  ASSUME KeyInv, [Next]_vars, NEW v \in Workers, NEW k \in Keys, PastLookup(v, k)'
  PROVE  \/ PastLookup(v, k) /\ pc[v] # "record"
         \/ PastLookup(v, k) /\ ~(Arrival(v) \/ Progress(v))
         \/ LookupKey(v) /\ keys[k] = None /\ keys' = keys
<1>1. /\ IInv /\ LocalTypeOK /\ op'[v] = "create" /\ ask'[v].key = k
      /\ pc'[v] \in {"order", "check", "label", "save", "record"}
  BY DEF KeyInv, IInv, TypeOK, StepTypeOK, PastLookup
<1>2. CASE Arrival(v)
  <2>1. \A o, call, d : Begin(v, o, call, d) => op'[v] = o
    BY <1>1 DEF Begin, LocalTypeOK
  <2>2. CASE \E r \in Requests, h \in HeaderValues : StartCreate(v, r, h)
    <3>1. PICK r \in Requests, h \in HeaderValues : StartCreate(v, r, h)
      BY <2>2
    <3>2. /\ pc'[v] = IF h = None THEN "order" ELSE "lookup"
          /\ ask'[v] = [req |-> r, key |-> h, book |-> None]
      BY <1>1, <3>1 DEF StartCreate, LocalTypeOK
    <3> QED
      BY <1>1, <3>2, NoneAssumption
  <2>3. CASE StartSweep(v)
    BY <1>1, <2>3 DEF StartSweep, LocalTypeOK
  <2> QED
    BY <1>1, <1>2, <2>1, <2>2, <2>3 DEF Arrival, CreateReturn, CaseCall, CarrierWebhook,
       InternalCall, StartReview, StartCancel, StartCarrierMove, StartCarrierNote,
       StartFailedInspection, StartPassedInspection, StartFlush
<1>3. CASE Progress(v)
  <2>1. op[v] = "create" /\ ask[v].key = k
    BY <1>1, <1>3, CreationGoesOn
  <2>2. CASE LookupKey(v)
    <3>1. ~(keys[k] # None /\ Exists(keys[k])) /\ keys' = keys
      BY <1>1, <2>1, <2>2 DEF LookupKey, Finish, LocalTypeOK, storeVars
    <3> QED
      BY <2>2, <3>1 DEF KeyInv
  <2>3. CASE ~LookupKey(v)
    <3>1. pc[v] \notin {"lookup", "record", "notify", "note"}
      <4>1. pc[v] # "lookup" /\ (pc[v] = "record" => RecordKey(v))
        BY <1>3, <2>3, WaysOn
      <4>2. ~RecordKey(v)
        BY <1>1 DEF RecordKey, Goto, Finish, LocalTypeOK
      <4>3. pc[v] = "notify" => Notify(v)
        BY <1>3 DEF Progress, LookupKey, ReadOrder, CheckAndDecide, RecordKey, SweepNext,
           IssueLabel, SaveCase, NoteNotice, CreateReplacement, EnqueuePayment, ListPending,
           Pay, PayEntry, MarkExecuted, MarkPending, MarkAs, EndFlush
      <4>4. pc[v] = "note" => NoteNotice(v)
        BY <1>3 DEF Progress, LookupKey, ReadOrder, CheckAndDecide, RecordKey, SweepNext,
           IssueLabel, SaveCase, Notify, CreateReplacement, EnqueuePayment, ListPending,
           Pay, PayEntry, MarkExecuted, MarkPending, MarkAs, EndFlush
      <4>5. ~Notify(v) /\ ~NoteNotice(v)
        BY <1>1 DEF Notify, NoteNotice, AfterNotice, Goto, Finish, LocalTypeOK
      <4> QED
        BY <4>1, <4>2, <4>3, <4>4, <4>5
    <3>2. <<op[v], pc[v]>> \in CallsOf
      BY <1>1 DEF IInv, FitOK
    <3>3. pc[v] \in {"order", "check", "label", "save"}
      BY <2>1, <3>1, <3>2 DEF CallsOf
    <3> QED
      BY <2>1, <3>3 DEF PastLookup
  <2> QED
    BY <2>2, <2>3
<1>4. CASE ~(Arrival(v) \/ Progress(v))
  <2>1. op'[v] = op[v] /\ pc'[v] = pc[v] /\ ask'[v] = ask[v]
    BY <1>1, <1>4, WhoSteps DEF NobodySteps, workerVars, Idles, Crash
  <2> QED
    BY <1>1, <1>4, <2>1 DEF PastLookup
<1> QED
  BY <1>2, <1>3, <1>4

\* The key a thread is past its lookup of stays free, unless another is past it too.
LEMMA LookupsKeep ==
  ASSUME FilingInv, [Next]_vars, RecordFilings, NEW w \in Workers
  PROVE  LookedUpOK(w)'
<1>1. KeyInv /\ IInv /\ LocalTypeOK /\ contested \subseteq contested'
  BY DEF FilingInv, KeyInv, IInv, TypeOK, StepTypeOK, RecordFilings
<1> SUFFICES ASSUME NEW k \in Keys, k \notin contested', PastLookup(w, k)'
             PROVE  keys'[k] = None /\ \A v \in Workers \ {w} : ~PastLookup(v, k)'
  BY DEF LookedUpOK
<1>2. \A v \in Workers \ {w} : ~PastLookup(v, k)'
  BY DEF RecordFilings
<1>3. ASSUME NEW u \in Workers, RecordKey(u), PastLookup(w, k), u # w
      PROVE  keys'[k] = keys[k]
  <2>1. pc[u] = "record" /\ op[u] = "create" /\ keys' = RecordedKey(ask[u].key, doc[u].id)
    BY <1>1, <1>3, CallerFacts DEF RecordKey, IInv, FitOK
  <2>2. ask[u].key # k
    BY <1>1, <1>3, <2>1 DEF FilingInv, LookedUpOK, PastLookup
  <2>3. keys \in [Keys -> Cases \cup {None}]
    BY <1>1 DEF IInv, TypeOK, StoreTypeOK
  <2> QED
    BY <2>1, <2>2, <2>3 DEF RecordedKey
<1>4. CASE LookupKey(w) /\ keys[k] = None /\ keys' = keys
  BY <1>2, <1>4
<1>5. CASE PastLookup(w, k) /\ (pc[w] # "record" \/ ~(Arrival(w) \/ Progress(w)))
  <2>1. keys[k] = None
    BY <1>1, <1>5 DEF FilingInv, LookedUpOK
  <2>2. ~RecordKey(w)
    <3> SUFFICES ASSUME RecordKey(w) PROVE FALSE
      OBVIOUS
    <3>1. pc[w] = "record" /\ pc'[w] # "record"
      BY <1>1 DEF RecordKey, Goto, Finish, LocalTypeOK
    <3>2. Idles(w) \/ Arrival(w) \/ Progress(w) \/ Crash \/ NobodySteps
      BY <1>1, WhoSteps
    <3>3. pc'[w] = pc[w]
      BY <1>5, <3>1, <3>2 DEF Idles, NobodySteps, workerVars, Crash, PastLookup
    <3> QED
      BY <3>1, <3>3
  <2>3. keys'[k] = keys[k]
    BY <1>3, <1>5, <2>2, OnlyKeys
  <2> QED
    BY <1>2, <2>1, <2>3
<1> QED
  BY <1>1, <1>4, <1>5, PastComeFrom

\* A case filed for a key nobody contests has it, or is about to.
LEMMA FilingsKeep ==
  ASSUME FilingInv, [Next]_vars, RecordFilings
  PROVE  /\ filings' \subseteq (Cases \X Keys)
         /\ \A c \in Cases, k \in Keys \ contested' : <<c, k>> \in filings' =>
              keys'[k] = c \/ \E w \in Workers : Records(w, c, k)'
<1>1. KeyInv /\ IInv /\ LocalTypeOK /\ contested \subseteq contested'
      /\ doc \in [Workers -> Document] /\ crashes \in Nat
  BY MaxCrashesAssumption
   DEF FilingInv, KeyInv, IInv, TypeOK, StepTypeOK, LocalTypeOK, RecordFilings
<1>2. ASSUME NEW w \in Workers, pc[w] = "save", pc'[w] = "record"
      PROVE  /\ doc[w].id \in Cases /\ ask[w].key \in Keys
             /\ op'[w] = "create" /\ ask'[w].key = ask[w].key /\ doc'[w].id = doc[w].id
  <2>1. Arrival(w) \/ Progress(w)
    BY <1>1, <1>2, WhoSteps DEF Idles, NobodySteps, workerVars, Crash
  <2>2. SaveCase(w)
    BY <1>2, <2>1, WaysOn, ArrivesIdle
  <2>3. AfterSave(w) = "record" /\ Goto(w, "record", Bumped(doc[w]))
    BY <1>1, <1>2, <2>2 DEF SaveCase, Finish, Goto, LocalTypeOK
  <2>4. op[w] = "create" /\ ask[w].key # None
    BY <2>3 DEF AfterSave
  <2>5. ask[w].key \in Keys
    BY <1>1, <2>4 DEF LocalTypeOK, Ask
  <2>6. op'[w] = "create" /\ ask'[w] = ask[w] /\ doc'[w] = Bumped(doc[w])
    BY <1>1, <2>3, <2>4 DEF Goto, LocalTypeOK
  <2>7. doc'[w].id = doc[w].id
    BY <1>1, <2>6, BumpedFacts
  <2>8. doc[w].id \in Cases
    BY <1>1, <1>2, HeldFacts DEF Holding
  <2> QED
    BY <2>5, <2>6, <2>7, <2>8
<1>3. filings' \subseteq (Cases \X Keys)
  BY <1>2 DEF FilingInv, RecordFilings
<1>4. ASSUME NEW c \in Cases, NEW k \in Keys \ contested', <<c, k>> \in filings
      PROVE  keys'[k] = c \/ \E w \in Workers : Records(w, c, k)'
  <2>1. CASE keys[k] = c
    BY <1>1, <2>1, KeyInvKeeps, NoneAssumption
  <2>2. ASSUME NEW w \in Workers, Records(w, c, k)
        PROVE  keys'[k] = c \/ Records(w, c, k)'
    <3>1. op[w] = "create" /\ pc[w] = "record" /\ ask[w].key = k /\ doc[w].id = c
      BY <2>2 DEF Records
    <3>2. ~Crash
      BY <1>1, <3>1 DEF Crash, RecordFilings
    <3>3. CASE Arrival(w) \/ Progress(w)
      <4>1. RecordKey(w)
        BY <3>1, <3>3, WaysOn, ArrivesIdle
      <4>2. keys[k] = None
        BY <1>1, <3>1 DEF FilingInv, LookedUpOK, PastLookup
      <4>3. keys \in [Keys -> Cases \cup {None}]
        BY <1>1 DEF IInv, TypeOK, StoreTypeOK
      <4> QED
        BY <3>1, <4>1, <4>2, <4>3 DEF RecordKey, RecordedKey
    <3>4. CASE ~(Arrival(w) \/ Progress(w))
      <4>1. op'[w] = op[w] /\ pc'[w] = pc[w] /\ ask'[w] = ask[w] /\ doc'[w] = doc[w]
        BY <1>1, <3>2, <3>4, WhoSteps DEF NobodySteps, workerVars, Idles
      <4> QED
        BY <3>1, <4>1 DEF Records
    <3> QED
      BY <3>3, <3>4
  <2> QED
    BY <1>1, <1>4, <2>1, <2>2 DEF FilingInv
<1>5. ASSUME NEW c \in Cases, NEW k \in Keys \ contested',
             <<c, k>> \in filings', <<c, k>> \notin filings
      PROVE  \E w \in Workers : Records(w, c, k)'
  <2>1. PICK w \in Workers : pc[w] = "save" /\ pc'[w] = "record" /\ c = doc[w].id /\ k = ask[w].key
    BY <1>5 DEF RecordFilings
  <2> QED
    BY <1>2, <2>1 DEF Records
<1> QED
  BY <1>3, <1>4, <1>5

\* However requests interleave, crash and are sent again: two cases are filed for one
\* key only if two of its requests were past their lookup at once, or the server
\* died between a case and its key.
THEOREM KeysFileOneCase == HistorySpec => []OneFilingPerKey
<1>1. Init /\ HistoryInit => FilingInv
  <2> SUFFICES ASSUME Init, HistoryInit PROVE FilingInv
    OBVIOUS
  <2>1. KeyInv
    BY InitKeeps DEF Init, StoreInit, KeyInv
  <2>2. filings = {} /\ \A w \in Workers : op[w] = "none"
    BY DEF Init, StepInit, NobodyAtWork, HistoryInit
  <2> QED
    BY <2>1, <2>2 DEF FilingInv, LookedUpOK, PastLookup
<1>2. FilingInv /\ [Next /\ Record]_<<vars, historyVars>> => FilingInv'
  <2>1. ASSUME FilingInv, Next, Record
        PROVE  FilingInv'
    <3>1. KeyInv' /\ RecordFilings
      BY <2>1, KeyInvKeeps DEF FilingInv, Record
    <3> QED
      BY <2>1, <3>1, LookupsKeep, FilingsKeep DEF FilingInv
  <2>2. ASSUME FilingInv, UNCHANGED <<vars, historyVars>>
        PROVE  FilingInv'
    <3>1. KeyInv'
      BY <2>2, NothingHappens, KeyInvKeeps DEF FilingInv
    <3>2. UNCHANGED <<keys, op, pc, doc, ask, filings, contested>>
      BY <2>2, NothingHappens
    <3> QED
      BY <2>2, <3>1, <3>2 DEF FilingInv, LookedUpOK, PastLookup, Records
  <2> QED
    BY <2>1, <2>2
<1>3. FilingInv => OneFilingPerKey
  <2> SUFFICES ASSUME FilingInv, NEW f \in filings, NEW g \in filings, f[2] = g[2],
                      f[2] \notin contested
               PROVE  f = g
    BY DEF OneFilingPerKey
  <2>1. PICK c \in Cases, d \in Cases, k \in Keys : f = <<c, k>> /\ g = <<d, k>>
    BY DEF FilingInv
  <2>2. k \notin contested
    BY <2>1
  <2>3. /\ keys[k] = c \/ \E w \in Workers : Records(w, c, k)
        /\ keys[k] = d \/ \E w \in Workers : Records(w, d, k)
    BY <2>1, <2>2 DEF FilingInv
  <2>4. \A w \in Workers, x \in Cases : Records(w, x, k) =>
          keys[k] = None /\ \A v \in Workers : PastLookup(v, k) => v = w
    BY <2>2 DEF FilingInv, LookedUpOK, Records, PastLookup
  <2>5. c = d
    <3>1. CASE keys[k] = c
      BY <2>3, <2>4, <3>1, NoneAssumption
    <3>2. ASSUME NEW w \in Workers, Records(w, c, k)
          PROVE  c = d
      <4>1. PICK v \in Workers : Records(v, d, k)
        BY <2>3, <2>4, <3>2, NoneAssumption
      <4>2. v = w
        BY <2>4, <3>2, <4>1 DEF Records, PastLookup
      <4> QED
        BY <3>2, <4>1, <4>2 DEF Records
    <3> QED
      BY <2>3, <3>1, <3>2
  <2> QED
    BY <2>1, <2>5
<1> QED
  BY <1>1, <1>2, <1>3, PTL DEF HistorySpec

-----------------------------------------------------------------------------
(* A case keeps its request.                                               *)

\* The request of a recorded case never changes.
LEMMA RequestsStay ==
  ASSUME AskedInv, [Next]_vars, NEW c \in Cases, Exists(c)
  PROVE  cases'[c].req = cases[c].req
<1>1. CASE cases'[c] # cases[c]
  <2>1. PICK w \in Workers : /\ SavedBy(w) /\ Holding(w) /\ c = doc[w].id
                             /\ cases'[c].req = doc[w].req
                             /\ Inserting(w) <=> ~Exists(c)
    BY <1>1, RowsAreWritten DEF AskedInv
  <2> QED
    BY <2>1 DEF AskedInv, AskedOK
<1> QED
  BY <1>1

\* No step parts a copy from the request of its row.
LEMMA AskedInvKeeps ==
  ASSUME AskedInv, [Next]_vars
  PROVE  AskedInv'
<1>1. IInv /\ IInv'
  BY NextKeeps DEF AskedInv
<1>2. ASSUME NEW v \in Workers, Holding(v)', ~Inserting(v)'
      PROVE  doc'[v].req = cases'[doc'[v].id].req
  <2>1. CASE Idles(v)
    <3>1. Holding(v) /\ ~Inserting(v) /\ doc'[v] = doc[v]
      BY <1>2, <2>1 DEF Idles, Holding, Inserting
    <3>2. doc[v].id \in Cases /\ Exists(doc[v].id)
      BY <1>1, <3>1, HeldRowExists
    <3>3. doc[v].req = cases[doc[v].id].req
      BY <3>1 DEF AskedInv, AskedOK
    <3> QED
      BY <3>1, <3>2, <3>3, RequestsStay
  <2>2. CASE Taken(v)
    <3>1. PICK c \in Cases : Exists(c) /\ Amends(doc'[v], cases[c]) /\ cases' = cases
      BY <2>2 DEF Taken, TablesKept
    <3>2. cases[c].id = c
      BY <1>1, <3>1, RowFacts
    <3> QED
      BY <3>1, <3>2 DEF Amends
  <2>3. CASE Expires(v)
    <3>1. PICK d \in rest[v] : doc'[v] = Transitioned(d, "expired") /\ cases' = cases
      BY <2>3 DEF Expires, TablesKept
    <3>2. Amends(doc'[v], d)
      BY <1>1, <3>1, ExpiredFacts
    <3>3. d.req = cases[d.id].req
      BY DEF AskedInv, AskedOK
    <3> QED
      BY <3>1, <3>2, <3>3 DEF Amends
  <2>4. ~Builds(v)
    BY <1>2 DEF Builds, Inserting
  <2>5. CASE Carries(v)
    <3>1. /\ doc[v] \in Document /\ doc[v].id \in Cases /\ doc'[v].id = doc[v].id
          /\ doc'[v].req = doc[v].req
          /\ IF pc[v] = "save" THEN SavedBy(v) ELSE cases' = cases
      BY <1>1, <2>5, CarriedFacts
    <3>2. CASE pc[v] = "save"
      <4>1. cases'[doc[v].id] = Bumped(doc[v])
        BY <1>1, <3>1, <3>2, PutKeepsRows DEF SavedBy
      <4>2. cases'[doc[v].id].req = doc[v].req
        BY <3>1, <4>1, BumpedFacts
      <4> QED
        BY <3>1, <4>2
    <3>3. CASE pc[v] # "save"
      <4>1. Holding(v) /\ ~Inserting(v)
        BY <1>2, <2>5, <3>3 DEF Carries, Inserting
      <4>2. doc[v].req = cases[doc[v].id].req
        BY <4>1 DEF AskedInv, AskedOK
      <4> QED
        BY <3>1, <3>3, <4>2
    <3> QED
      BY <3>2, <3>3
  <2> QED
    BY <1>1, <1>2, <2>1, <2>2, <2>3, <2>4, <2>5, HeldCasesComeFrom
<1>3. ASSUME NEW v \in Workers, NEW d \in rest'[v]
      PROVE  d.req = cases'[d.id].req
  <2>1. CASE d \in rest[v]
    <3>1. /\ d.id \in Cases /\ d.version \in 1..cases[d.id].version
          /\ cases[d.id] \in Document
      BY <1>1, <2>1 DEF IInv, RestOK, TypeOK, StoreTypeOK
    <3>2. Exists(d.id)
      BY <3>1 DEF Exists, Document
    <3>3. d.req = cases[d.id].req
      BY <2>1 DEF AskedInv, AskedOK
    <3> QED
      BY <3>1, <3>2, <3>3, RequestsStay
  <2>2. CASE \E c \in Cases : Exists(c) /\ d = cases[c]
    <3>1. PICK c \in Cases : Exists(c) /\ d = cases[c]
      BY <2>2
    <3>2. d.id = c
      BY <1>1, <3>1, RowFacts
    <3> QED
      BY <3>1, <3>2, RequestsStay
  <2> QED
    BY <1>1, <1>3, <2>1, <2>2, RestsComeFrom
<1> QED
  BY <1>1, <1>2, <1>3 DEF AskedInv, AskedOK

-----------------------------------------------------------------------------
(* Sums of units.                                                          *)

\* The units of a sku in a request: those of the one line that names it, if each
\* sku is named once.
LEMMA UnitsFacts ==
  ASSUME NEW r \in Requests, NEW sku
  PROVE  /\ UnitsIn(r.lines, sku) \in Nat
         /\ \A i \in DOMAIN r.lines :
              ~Doubled(r) /\ r.lines[i].sku = sku => UnitsIn(r.lines, sku) = r.lines[i].quantity
         /\ (\A i \in DOMAIN r.lines : r.lines[i].sku # sku) => UnitsIn(r.lines, sku) = 0
<1> DEFINE D == DOMAIN r.lines
           v == [i \in D |-> IF r.lines[i].sku = sku THEN r.lines[i].quantity ELSE 0]
           Folds(it) == it = [s \in SUBSET D |->
                                IF s = {} THEN 0
                                ELSE (IF r.lines[CHOOSE x \in s : TRUE].sku = sku
                                      THEN r.lines[CHOOSE x \in s : TRUE].quantity ELSE 0)
                                       + it[s \ {CHOOSE x \in s : TRUE}]]
           total == CHOOSE it : Folds(it)
<1>1. IsFiniteSet(D) /\ \A i \in D : r.lines[i].quantity \in Nat
  BY LinesAssumption
<1>2. \A it : Folds(it) <=> IsSum(it, D, v)
  <2> TAKE it
  <2>1. \A s \in SUBSET D : s # {} =>
          v[Chosen(s)] = IF r.lines[Chosen(s)].sku = sku THEN r.lines[Chosen(s)].quantity ELSE 0
    BY DEF Chosen
  <2>2. [s \in SUBSET D |-> IF s = {} THEN 0
                            ELSE (IF r.lines[CHOOSE x \in s : TRUE].sku = sku
                                  THEN r.lines[CHOOSE x \in s : TRUE].quantity ELSE 0)
                                   + it[s \ {CHOOSE x \in s : TRUE}]]
          = [s \in SUBSET D |-> IF s = {} THEN 0 ELSE v[Chosen(s)] + it[s \ {Chosen(s)}]]
    <3> HIDE DEF v
    <3> QED
      BY <2>1 DEF Chosen
  <2> QED
    BY <2>2 DEF IsSum
<1>3. \E it : Folds(it)
  <2>1. v \in [D -> Int]
    BY <1>1
  <2> HIDE DEF v, Folds
  <2>2. \E it : IsSum(it, D, v)
    BY <1>1, <2>1, SumExists
  <2> QED
    BY <1>2, <2>2
<1>4. IsSum(total, D, v)
  <2> HIDE DEF Folds, v
  <2> QED
    BY <1>2, <1>3
<1>5. UnitsIn(r.lines, sku) = total[D]
  BY DEF UnitsIn, MapThenSumSet, MapThenFoldSet
<1>6. \A i \in D : v[i] \in Nat /\ v[i] \in Int
  BY <1>1
<1>7. total[D] \in Nat
  <2>1. 0 \in Nat /\ \A a, b \in Nat : a + b \in Nat
    OBVIOUS
  <2> HIDE DEF v, total, D
  <2> QED
    BY <1>1, <1>4, <1>6, <2>1, SumIsIn
<1>8. ASSUME NEW S \in SUBSET D, \A i \in S : r.lines[i].sku # sku
      PROVE  total[S] = 0
  <2> DEFINE T == {i \in D : r.lines[i].sku # sku}
             jt == [s \in SUBSET T |-> total[s]]
  <2>1. IsFiniteSet(T) /\ S \in SUBSET T /\ T \in SUBSET D
    BY <1>1, <1>8, FS_Subset
  <2>2. \A s \in SUBSET D : total[s] = IF s = {} THEN 0 ELSE v[Chosen(s)] + total[s \ {Chosen(s)}]
    BY <1>4 DEF IsSum
  <2>3. \A s \in SUBSET T : jt[s] = IF s = {} THEN 0 ELSE v[Chosen(s)] + jt[s \ {Chosen(s)}]
    <3> HIDE DEF v, total
    <3> QED
      BY <2>1, <2>2
  <2>4. IsSum(jt, T, v)
    <3>1. jt = [s \in SUBSET T |-> IF s = {} THEN 0 ELSE v[Chosen(s)] + jt[s \ {Chosen(s)}]]
      <4> HIDE DEF v, total, T
      <4> QED
        BY <2>3
    <3> QED
      BY <3>1 DEF IsSum
  <2>5. \A i \in T : v[i] \in {0}
    OBVIOUS
  <2>6. 0 \in {0} /\ \A a, b \in {0} : a + b \in {0}
    OBVIOUS
  <2>7. jt[S] \in {0}
    <3> HIDE DEF v, jt, T
    <3> QED
      BY <2>1, <2>4, <2>5, <2>6, SumIsIn
  <2> QED
    BY <2>1, <2>7
<1>9. ASSUME ~Doubled(r), NEW i \in D, r.lines[i].sku = sku
      PROVE  total[D] = r.lines[i].quantity
  <2>1. total[D \ {i}] = 0
    BY <1>8, <1>9 DEF Doubled
  <2>2. total[D] = v[i] + total[D \ {i}]
    <3> HIDE DEF v, total, D
    <3> QED
      BY <1>1, <1>4, <1>6, <1>9, SumSplits
  <2>3. v[i] = r.lines[i].quantity
    BY <1>9
  <2> QED
    BY <1>1, <2>1, <2>2, <2>3
<1> QED
  BY <1>5, <1>7, <1>8, <1>9

\* The units of a sku each case of a table asks for.
Asks(tab, sku) == [c \in Cases |-> UnitsIn(tab[c].req.lines, sku)]

\* What is reserved is the sum of what the cases reserve.
LEMMA ReservedIsSum ==
  ASSUME IsFiniteSet(Cases), NEW tab, NEW o, NEW sku,
         \A c \in Cases : tab[c].version > 0 => tab[c].req \in Requests
  PROVE  /\ IsFiniteSet(Reserving(tab, o))
         /\ \A c \in Reserving(tab, o) : Asks(tab, sku)[c] \in Nat
         /\ \E it : /\ IsSum(it, Reserving(tab, o), Asks(tab, sku))
                    /\ ReservedIn(tab, o, sku) = it[Reserving(tab, o)]
<1> DEFINE D == Reserving(tab, o)
           v == [c \in D |-> UnitsIn(tab[c].req.lines, sku)]
           Folds(it) == it = [s \in SUBSET D |->
                                IF s = {} THEN 0
                                ELSE UnitsIn(tab[CHOOSE x \in s : TRUE].req.lines, sku)
                                       + it[s \ {CHOOSE x \in s : TRUE}]]
           total == CHOOSE it : Folds(it)
<1>1. D \in SUBSET Cases /\ \A c \in D : tab[c].version > 0
  BY DEF Reserving
<1>2. IsFiniteSet(D)
  BY <1>1, FS_Subset
<1>3. \A c \in D : tab[c].req \in Requests
  BY <1>1
<1>4. \A c \in D : UnitsIn(tab[c].req.lines, sku) \in Nat
  BY <1>3, UnitsFacts
<1>5. \A c \in D : Asks(tab, sku)[c] = v[c] /\ Asks(tab, sku)[c] \in Nat
  BY <1>1, <1>4 DEF Asks
<1>6. \A it : Folds(it) <=> IsSum(it, D, Asks(tab, sku))
  <2> TAKE it
  <2>1. \A s \in SUBSET D : s # {} =>
          Asks(tab, sku)[Chosen(s)] = UnitsIn(tab[Chosen(s)].req.lines, sku)
    <3> TAKE s \in SUBSET D
    <3> SUFFICES ASSUME s # {}
                 PROVE  Asks(tab, sku)[Chosen(s)] = UnitsIn(tab[Chosen(s)].req.lines, sku)
      OBVIOUS
    <3>1. Chosen(s) \in Cases
      BY <1>1 DEF Chosen
    <3> QED
      BY <3>1 DEF Asks
  <2>2. [s \in SUBSET D |-> IF s = {} THEN 0
                            ELSE UnitsIn(tab[CHOOSE x \in s : TRUE].req.lines, sku)
                                   + it[s \ {CHOOSE x \in s : TRUE}]]
          = [s \in SUBSET D |->
               IF s = {} THEN 0 ELSE Asks(tab, sku)[Chosen(s)] + it[s \ {Chosen(s)}]]
    <3> HIDE DEF D
    <3> QED
      BY <2>1 DEF Chosen
  <2> QED
    BY <2>2 DEF IsSum
<1>7. \E it : Folds(it)
  <2>1. v \in [D -> Int]
    BY <1>4
  <2> HIDE DEF v, Folds, D
  <2>2. PICK it : IsSum(it, D, v)
    BY <1>2, <2>1, SumExists
  <2>3. \A s \in SUBSET D : s # {} => Asks(tab, sku)[Chosen(s)] = v[Chosen(s)]
    BY <1>5 DEF Chosen
  <2>4. IsSum(it, D, Asks(tab, sku))
    <3>1. [s \in SUBSET D |-> IF s = {} THEN 0 ELSE v[Chosen(s)] + it[s \ {Chosen(s)}]]
            = [s \in SUBSET D |->
                 IF s = {} THEN 0 ELSE Asks(tab, sku)[Chosen(s)] + it[s \ {Chosen(s)}]]
      BY <2>3
    <3> QED
      BY <2>2, <3>1 DEF IsSum
  <2> QED
    BY <1>6, <2>4
<1>8. IsSum(total, D, Asks(tab, sku))
  <2> HIDE DEF Folds
  <2> QED
    BY <1>6, <1>7
<1>9. ReservedIn(tab, o, sku) = total[D]
  BY DEF ReservedIn, MapThenSumSet, MapThenFoldSet
<1> HIDE DEF total
<1> QED
  BY <1>2, <1>5, <1>8, <1>9

\* What is reserved now.
LEMMA ReservedFacts ==
  ASSUME NEW o, NEW sku
  PROVE  Reserved(o, sku) = ReservedIn(cases, o, sku)
<1>1. {c \in ListByOrder(o) : cases[c].status \notin Released} = Reserving(cases, o)
  BY DEF Reserving, ListByOrder, Exists
<1> QED
  BY <1>1 DEF Reserved, ReservedIn, MapThenSumSet, MapThenFoldSet

\* A table whose reserving cases reserve in another one too, for the same requests,
\* reserves no more than that one.
LEMMA ReservesNoMore ==
  ASSUME IsFiniteSet(Cases), NEW old, NEW new, NEW o, NEW sku,
         \A c \in Cases : old[c].version > 0 => old[c].req \in Requests,
         \A c \in Cases : new[c].version > 0 => new[c].req \in Requests,
         NEW S \in SUBSET Reserving(new, o), S \subseteq Reserving(old, o),
         \A c \in S : new[c].req = old[c].req,
         NEW it, IsSum(it, Reserving(new, o), Asks(new, sku))
  PROVE  /\ it[S] \in Nat /\ ReservedIn(old, o, sku) \in Nat
         /\ it[S] <= ReservedIn(old, o, sku)
<1> DEFINE D == Reserving(new, o)
           E == Reserving(old, o)
           v == Asks(new, sku)
           u == Asks(old, sku)
<1>1. IsFiniteSet(D) /\ \A c \in D : v[c] \in Nat
  BY ReservedIsSum
<1>2. /\ IsFiniteSet(E) /\ \A c \in E : u[c] \in Nat
      /\ \E jt : IsSum(jt, E, u) /\ ReservedIn(old, o, sku) = jt[E]
  BY ReservedIsSum
<1>3. PICK jt : IsSum(jt, E, u) /\ ReservedIn(old, o, sku) = jt[E]
  BY <1>2
<1>4. \A c \in S : v[c] = u[c]
  BY DEF Asks, Reserving
<1>5. 0 \in Nat /\ \A a, b \in Nat : a + b \in Nat
  OBVIOUS
<1> HIDE DEF v, u, D, E
<1>6. IsSum(it, D, v) /\ S \in SUBSET D /\ S \subseteq E /\ E \in SUBSET E
  BY DEF D, E, v
<1>7. it[S] <= jt[E]
  BY <1>1, <1>2, <1>3, <1>4, <1>6, SumGrows
<1>8. it[S] \in Nat
  BY <1>1, <1>5, <1>6, SumIsIn
<1>9. jt[E] \in Nat
  BY <1>2, <1>3, <1>5, <1>6, SumIsIn
<1> QED
  BY <1>3, <1>7, <1>8, <1>9

\* A step in which every case that reserves after it did so before it.
LEMMA ReservationsShrink ==
  ASSUME IsFiniteSet(Cases), NEW old, NEW new, NEW o, NEW sku,
         \A c \in Cases : old[c].version > 0 => old[c].req \in Requests,
         \A c \in Cases : new[c].version > 0 => new[c].req \in Requests,
         Reserving(new, o) \subseteq Reserving(old, o),
         \A c \in Reserving(new, o) : new[c].req = old[c].req
  PROVE  /\ ReservedIn(new, o, sku) \in Nat /\ ReservedIn(old, o, sku) \in Nat
         /\ ReservedIn(new, o, sku) <= ReservedIn(old, o, sku)
<1> DEFINE D == Reserving(new, o)
<1>1. PICK it : IsSum(it, D, Asks(new, sku)) /\ ReservedIn(new, o, sku) = it[D]
  BY ReservedIsSum
<1>2. D \in SUBSET D
  OBVIOUS
<1> QED
  BY <1>1, <1>2, ReservesNoMore

\* A step in which one case more reserves adds the units it asks for.
LEMMA ReservationsGrow ==
  ASSUME IsFiniteSet(Cases), NEW old, NEW new, NEW o, NEW sku,
         \A c \in Cases : old[c].version > 0 => old[c].req \in Requests,
         \A c \in Cases : new[c].version > 0 => new[c].req \in Requests,
         NEW x \in Reserving(new, o),
         Reserving(new, o) \ {x} \subseteq Reserving(old, o),
         \A c \in Reserving(new, o) \ {x} : new[c].req = old[c].req
  PROVE  /\ ReservedIn(new, o, sku) \in Nat /\ ReservedIn(old, o, sku) \in Nat
         /\ ReservedIn(new, o, sku)
              <= UnitsIn(new[x].req.lines, sku) + ReservedIn(old, o, sku)
<1> DEFINE D == Reserving(new, o)
           v == Asks(new, sku)
<1>1. IsFiniteSet(D) /\ \A c \in D : v[c] \in Nat
  BY ReservedIsSum
<1>2. PICK it : IsSum(it, D, v) /\ ReservedIn(new, o, sku) = it[D]
  BY ReservedIsSum
<1>3. v[x] = UnitsIn(new[x].req.lines, sku)
  BY DEF Asks, Reserving
<1>4. D \ {x} \in SUBSET D
  OBVIOUS
<1>5. /\ it[D \ {x}] \in Nat /\ ReservedIn(old, o, sku) \in Nat
      /\ it[D \ {x}] <= ReservedIn(old, o, sku)
  BY <1>2, <1>4, ReservesNoMore
<1> HIDE DEF v, D
<1>6. x \in D /\ D \in SUBSET D /\ \A c \in D : v[c] \in Int
  BY <1>1 DEF D
<1>7. it[D] = v[x] + it[D \ {x}]
  BY <1>1, <1>2, <1>6, SumSplits
<1> QED
  BY <1>1, <1>2, <1>3, <1>5, <1>6, <1>7

-----------------------------------------------------------------------------
(* Nothing is returned twice over.                                         *)

\* A request has room in its order exactly if create_return's check of its lines
\* finds it returnable.
LEMMA ReturnableHasRoom ==
  ASSUME NEW r, NEW book, orders[r.order] = book, book # None, Returnable(r, book)
  PROVE  Room(cases, orders, r)
BY ReservedFacts DEF Returnable, Room

\* Where a thread that checks lines, or holds a case the table does not have yet,
\* has come from.
LEMMA CheckersComeFrom ==
  ASSUME IInv, NEW v \in Workers, Progress(v), pc'[v] = "check"
  PROVE  ask'[v].book # None /\ orders'[ask'[v].req.order] = ask'[v].book
<1>1. LocalTypeOK
  BY DEF IInv, TypeOK, StepTypeOK
<1>2. ~Finish(v)
  BY <1>1 DEF Finish, LocalTypeOK
<1>3. \A call, d : Goto(v, call, d) => pc'[v] = call
  BY <1>1 DEF Goto, LocalTypeOK
<1>4. ReadOrder(v)
  <2>1. CASE SweepNext(v)
    BY <1>1, <1>2, <2>1 DEF SweepNext, LocalTypeOK
  <2>2. CASE SaveCase(v)
    BY <1>2, <1>3, <2>2 DEF SaveCase, AfterSave
  <2> QED
    BY <1>2, <1>3, <2>1, <2>2 DEF Progress, LookupKey, CheckAndDecide, RecordKey, IssueLabel,
       Notify, NoteNotice, AfterNotice, CreateReplacement, EnqueuePayment, ListPending, Pay,
       PayEntry, MarkExecuted, MarkPending, MarkAs, EndFlush
<1> DEFINE book == orders[ask[v].req.order]
<1>5. /\ ask' = [ask EXCEPT ![v].book = book] /\ book # None /\ orders' = orders
  BY <1>2, <1>4 DEF ReadOrder, storeVars
<1>6. ask[v] \in Ask
  BY <1>1 DEF LocalTypeOK
<1>7. ask'[v] = [ask[v] EXCEPT !.book = book]
  BY <1>1, <1>5 DEF LocalTypeOK
<1>8. ask'[v].book = book /\ ask'[v].req = ask[v].req
  BY <1>6, <1>7 DEF Ask
<1> QED
  BY <1>5, <1>8

\* The thread has just built a case of the request it has checked, or has a label
\* for the case it built.
Creates(v) ==
  /\ UNCHANGED <<cases, orders>>
  /\ \/ /\ pc[v] = "check" /\ doc'[v].req = ask[v].req
        /\ Returnable(ask[v].req, ask[v].book)
     \/ Inserting(v) /\ doc'[v].req = doc[v].req

\* So it is of every thread that holds a case the table does not have.
LEMMA CreatorsComeFrom ==
  ASSUME IInv, NEW v \in Workers, Progress(v), Inserting(v)'
  PROVE  Creates(v)
<1>1. LocalTypeOK /\ <<op[v], pc[v]>> \in CallsOf /\ now \in Nat
      /\ doc \in [Workers -> Document]
  BY MaxNowAssumption DEF IInv, TypeOK, StepTypeOK, FitOK, LocalTypeOK
<1>2. ~Finish(v) /\ op'[v] = "create" /\ pc'[v] \in {"label", "save"}
  BY <1>1 DEF Finish, LocalTypeOK, Inserting
<1>3. \A call, d : Goto(v, call, d) => op'[v] = op[v] /\ pc'[v] = call /\ doc'[v] = d
  BY <1>1 DEF Goto, LocalTypeOK
<1>4. CASE CheckAndDecide(v)
  <2>1. PICK c \in Cases, s \in Decisions :
          Goto(v, IF s = "approved" THEN "label" ELSE "save",
               Transitioned(NewCase(c, ask[v].req), s))
    BY <1>2, <1>4 DEF CheckAndDecide
  <2>2. doc'[v] = Transitioned(NewCase(c, ask[v].req), s)
    BY <1>3, <2>1
  <2>3. ask[v].req \in Requests /\ s \in ReturnStatus
    BY <1>4 DEF CheckAndDecide, IInv, FitOK, Decisions, ReturnStatus
  <2>4. doc'[v].req = ask[v].req
    BY <1>1, <2>2, <2>3, NewCaseFacts
  <2>5. Returnable(ask[v].req, ask[v].book) /\ pc[v] = "check" /\ UNCHANGED <<cases, orders>>
    BY <1>2, <1>4 DEF CheckAndDecide, storeVars
  <2> QED
    BY <2>4, <2>5 DEF Creates
<1>5. CASE IssueLabel(v)
  <2>1. PICK t \in Labels : Goto(v, "save", Labelled(doc[v], t))
    BY <1>2, <1>5 DEF IssueLabel
  <2>2. op[v] = "create" /\ pc[v] = "label" /\ doc'[v] = Labelled(doc[v], t)
    BY <1>2, <1>3, <1>5, <2>1 DEF IssueLabel
  <2>3. doc'[v].req = doc[v].req
    <3>1. doc[v] \in Document
      BY <1>1
    <3> QED
      BY <2>2, <3>1 DEF Labelled, Transitioned, AddEvent, Document
  <2>4. UNCHANGED <<cases, orders>>
    BY <1>5 DEF IssueLabel, storeVars
  <2> QED
    BY <2>2, <2>3, <2>4 DEF Creates, Inserting
<1>6. ~(CheckAndDecide(v) \/ IssueLabel(v)) => FALSE
  <2> SUFFICES ASSUME ~(CheckAndDecide(v) \/ IssueLabel(v)) PROVE FALSE
    OBVIOUS
  <2>1. CASE SweepNext(v)
    <3>1. op'[v] = op[v] /\ pc[v] = "next"
      BY <1>2, <2>1 DEF SweepNext
    <3> QED
      BY <1>1, <1>2, <3>1 DEF CallsOf
  <2>2. CASE CreateReplacement(v)
    <3>1. op'[v] = op[v] /\ pc[v] = "replace"
      BY <1>2, <1>3, <2>2 DEF CreateReplacement
    <3> QED
      BY <1>1, <1>2, <3>1 DEF CallsOf
  <2>3. CASE EnqueuePayment(v)
    <3>1. op'[v] = op[v] /\ pc[v] = "enqueue"
      BY <1>2, <1>3, <2>3 DEF EnqueuePayment
    <3> QED
      BY <1>1, <1>2, <3>1 DEF CallsOf
  <2>4. CASE ReadOrder(v)
    <3>1. pc' = [pc EXCEPT ![v] = "check"]
      BY <1>2, <2>4 DEF ReadOrder
    <3> QED
      BY <1>1, <1>2, <3>1 DEF LocalTypeOK
  <2>5. CASE SaveCase(v)
    BY <1>2, <1>3, <2>5 DEF SaveCase, AfterSave
  <2> QED
    BY <1>2, <1>3, <2>1, <2>2, <2>3, <2>4, <2>5 DEF Progress, LookupKey, RecordKey,
       Notify, NoteNotice, AfterNotice, ListPending, Pay,
       PayEntry, MarkExecuted, MarkPending, MarkAs, EndFlush
<1> QED
  BY <1>4, <1>5, <1>6

\* Orders are registered and never unmade; the body of one that nothing strains stays.
LEMMA BodiesKeep ==
  ASSUME IInv, [Next]_vars, RecordStrains, NEW o \in OrderIds, orders[o] # None
  PROVE  orders'[o] # None /\ (o \notin strained' => orders'[o] = orders[o])
<1>1. ASSUME NEW w \in Workers, Arrival(w) \/ Progress(w)
      PROVE  orders' = orders
  <2>1. CASE Arrival(w)
    BY <2>1, ArrivesIdle
  <2>2. CASE Progress(w)
    BY <2>2 DEF Progress, LookupKey, ReadOrder, CheckAndDecide, RecordKey, SweepNext,
       IssueLabel, SaveCase, Notify, NoteNotice, CreateReplacement, EnqueuePayment,
       ListPending, Pay, PayEntry, MarkExecuted, MarkPending, MarkAs, EndFlush, storeVars
  <2> QED
    BY <1>1, <2>1, <2>2
<1>2. Tick \/ Crash \/ UNCHANGED vars => orders' = orders
  BY DEF Tick, Crash, vars, storeVars
<1>3. ASSUME NEW p \in OrderIds, NEW b \in Books, RegisterOrder(p, b)
      PROVE  orders'[o] # None
  <2>1. orders' = [orders EXCEPT ![p] = b] /\ orders \in [OrderIds -> Books \cup {None}]
    BY <1>3 DEF RegisterOrder, PutOrder, IInv, TypeOK, StoreTypeOK
  <2> QED
    BY <2>1, NoneAssumption
<1>4. orders'[o] # None
  BY <1>1, <1>2, <1>3 DEF Next, Register
<1> QED
  BY <1>4 DEF RecordStrains

\* A recorded case is of an order that is registered.
LEMMA OrdersAreKnown ==
  ASSUME StrainInv, [Next]_vars, RecordStrains, NEW c \in Cases, cases'[c].version > 0
  PROVE  /\ cases'[c].req \in Requests /\ cases'[c].req.order \in OrderIds
         /\ orders[cases'[c].req.order] # None /\ orders'[cases'[c].req.order] # None
<1>1. AskedInv /\ IInv
  BY DEF StrainInv, AskedInv
<1>2. CASE Exists(c)
  <2>1. cases'[c].req = cases[c].req /\ cases[c].req \in Requests
    BY <1>1, <1>2, RequestsStay, RowFacts
  <2>2. cases[c].req.order \in OrderIds /\ orders[cases[c].req.order] # None
    BY <1>2, <2>1, RequestsAssumption DEF StrainInv
  <2> QED
    BY <1>1, <2>1, <2>2, BodiesKeep
<1>3. CASE ~Exists(c)
  <2>1. cases'[c] # cases[c]
    BY <1>3 DEF Exists
  <2>2. PICK w \in Workers : Holding(w) /\ cases'[c].req = doc[w].req /\ Inserting(w)
    BY <1>1, <1>3, <2>1, RowsAreWritten
  <2>3. doc[w].req \in Requests
    BY <1>1, <2>2 DEF IInv, HeldOK
  <2>4. doc[w].req.order \in OrderIds /\ orders[doc[w].req.order] # None
    BY <2>2, <2>3, RequestsAssumption DEF StrainInv, RoomOK
  <2> QED
    BY <1>1, <2>2, <2>3, <2>4, BodiesKeep
<1> QED
  BY <1>2, <1>3

\* Requests stay what they are.
LEMMA RowsAsk ==
  ASSUME StrainInv, [Next]_vars, RecordStrains, NEW c \in Cases
  PROVE  /\ cases[c].version > 0 => cases[c].req \in Requests
         /\ cases'[c].version > 0 => cases'[c].req \in Requests
BY OrdersAreKnown, RowFacts DEF StrainInv, AskedInv, Exists

\* As long as no case is filed for an order, what reserves units of it did before.
LEMMA ReservingShrinks ==
  ASSUME AskedInv, [Next]_vars, NEW o \in OrderIds,
         \A w \in Workers : SavedBy(w) => ~FilingFor(w, o)
  PROVE  /\ Reserving(cases', o) \subseteq Reserving(cases, o)
         /\ \A c \in Reserving(cases', o) : cases'[c].req = cases[c].req
<1> SUFFICES ASSUME NEW c \in Reserving(cases', o)
             PROVE  c \in Reserving(cases, o) /\ cases'[c].req = cases[c].req
  OBVIOUS
<1>1. /\ c \in Cases /\ cases'[c].version > 0 /\ cases'[c].req.order = o
      /\ cases'[c].status \notin Released
  BY DEF Reserving
<1>2. CASE cases'[c] = cases[c]
  BY <1>1, <1>2 DEF Reserving
<1>3. CASE cases'[c] # cases[c]
  <2>1. PICK w \in Workers : /\ SavedBy(w) /\ Holding(w) /\ c = doc[w].id
                             /\ cases'[c].req = doc[w].req
                             /\ Inserting(w) <=> ~Exists(c)
    BY <1>1, <1>3, RowsAreWritten DEF AskedInv
  <2>2. Exists(c)
    BY <1>1, <2>1 DEF FilingFor
  <2>3. cases'[c].req = cases[c].req
    BY <1>1, <2>2, RequestsStay
  <2>4. cases[c].status \notin Released
    BY <1>1, TerminalStays DEF AskedInv, Terminal
  <2> QED
    BY <1>1, <2>2, <2>3, <2>4 DEF Reserving, Exists
<1> QED
  BY <1>2, <1>3

\* What had room in an order has it still, if no case is filed for the order.
LEMMA RoomStays ==
  ASSUME IsFiniteSet(Cases), StrainInv, [Next]_vars, RecordStrains,
         NEW r \in Requests, r.order \notin strained', Room(cases, orders, r),
         \A w \in Workers : SavedBy(w) => ~FilingFor(w, r.order)
  PROVE  Room(cases', orders', r)
<1> DEFINE o == r.order
<1>1. AskedInv /\ IInv
  BY DEF StrainInv, AskedInv
<1>2. o \in OrderIds /\ orders[o] # None
  BY RequestsAssumption DEF Room
<1>3. orders'[o] = orders[o] /\ orders[o] \in Books
  BY <1>1, <1>2, BodiesKeep DEF IInv, TypeOK, StoreTypeOK
<1>4. \A c \in Cases : /\ cases[c].version > 0 => cases[c].req \in Requests
                       /\ cases'[c].version > 0 => cases'[c].req \in Requests
  BY RowsAsk
<1>5. /\ Reserving(cases', o) \subseteq Reserving(cases, o)
      /\ \A c \in Reserving(cases', o) : cases'[c].req = cases[c].req
  BY <1>1, <1>2, ReservingShrinks
<1>6. \A sku : /\ ReservedIn(cases', o, sku) \in Nat /\ ReservedIn(cases, o, sku) \in Nat
               /\ ReservedIn(cases', o, sku) <= ReservedIn(cases, o, sku)
  BY <1>4, <1>5, ReservationsShrink
<1>7. ASSUME NEW i \in DOMAIN r.lines
      PROVE  LET line == r.lines[i] IN
               /\ line.sku \in DOMAIN orders'[o]
               /\ line.quantity + ReservedIn(cases', o, line.sku) <= orders'[o][line.sku]
  <2>1. /\ r.lines[i].sku \in DOMAIN orders[o]
        /\ r.lines[i].quantity + ReservedIn(cases, o, r.lines[i].sku)
             <= orders[o][r.lines[i].sku]
    BY DEF Room
  <2>2. r.lines[i].quantity \in Nat /\ orders[o][r.lines[i].sku] \in Nat
    BY <1>3, <2>1, LinesAssumption
  <2> QED
    BY <1>3, <1>6, <2>1, <2>2
<1> QED
  BY <1>2, <1>3, <1>7 DEF Room

\* The thread has checked a request against the order, after the step.
FiledNext(w, o) == Inserting(w)' /\ doc'[w].req.order = o

\* What a thread has checked holds until it has filed, in an order nothing strains.
LEMMA RoomIsKept ==
  ASSUME IsFiniteSet(Cases), StrainInv, [Next]_vars, RecordStrains, NEW v \in Workers
  PROVE  RoomOK(v)'
<1>1. IInv /\ LocalTypeOK /\ RoomOK(v) /\ strained \subseteq strained'
  BY DEF StrainInv, AskedInv, IInv, TypeOK, StepTypeOK, RecordStrains
<1>2. CASE Crash
  BY <1>2 DEF Crash, RoomOK, Inserting
<1>3. CASE Arrival(v)
  <2>1. pc'[v] # "check" /\ ~Inserting(v)'
    <3>1. \A o, call, d : Begin(v, o, call, d) => op'[v] = o /\ pc'[v] = call
      BY <1>1 DEF Begin, LocalTypeOK
    <3>2. CASE \E r \in Requests, k \in HeaderValues : StartCreate(v, r, k)
      BY <1>1, <3>2 DEF StartCreate, LocalTypeOK, Inserting
    <3>3. CASE StartSweep(v)
      BY <1>1, <3>3 DEF StartSweep, LocalTypeOK, Inserting
    <3> QED
      BY <1>3, <3>1, <3>2, <3>3 DEF Arrival, CreateReturn, CaseCall, CarrierWebhook,
         InternalCall, StartReview, StartCancel, StartCarrierMove, StartCarrierNote,
         StartFailedInspection, StartPassedInspection, StartFlush, Inserting
  <2> QED
    BY <2>1 DEF RoomOK
<1>4. CASE Progress(v)
  <2>1. pc'[v] = "check" => ask'[v].book # None /\ orders'[ask'[v].req.order] = ask'[v].book
    BY <1>1, <1>4, CheckersComeFrom
  <2>2. ASSUME Inserting(v)'
        PROVE  LET o == doc'[v].req.order IN
                 /\ orders'[o] # None
                 /\ o \notin strained' =>
                      /\ Room(cases', orders', doc'[v].req)
                      /\ ~Doubled(doc'[v].req)
                      /\ \A u \in Workers \ {v} : ~FiledNext(u, o)
    <3> DEFINE r == doc'[v].req
    <3>1. Creates(v)
      BY <1>1, <1>4, <2>2, CreatorsComeFrom
    <3>2. UNCHANGED <<cases, orders>>
      BY <3>1 DEF Creates
    <3>3. orders[r.order] # None /\ (r.order \notin strained => Room(cases, orders, r))
          /\ r \in Requests
      <4>1. CASE pc[v] = "check" /\ r = ask[v].req /\ Returnable(ask[v].req, ask[v].book)
        BY <1>1, <4>1, ReturnableHasRoom DEF RoomOK, IInv, FitOK
      <4>2. CASE Inserting(v) /\ r = doc[v].req
        BY <1>1, <4>2 DEF RoomOK, IInv, HeldOK, Holding, Inserting
      <4> QED
        BY <3>1, <4>1, <4>2 DEF Creates
    <3>4. r.order \in OrderIds
      BY <3>3, RequestsAssumption
    <3>5. FiledNext(v, r.order)
      BY <2>2 DEF FiledNext
    <3>6. ASSUME r.order \notin strained'
          PROVE  ~Doubled(r) /\ \A u \in Workers \ {v} : ~FiledNext(u, r.order)
      BY <2>2, <3>4, <3>6 DEF RecordStrains, FilingFor, FiledNext
    <3> HIDE DEF r
    <3>7. orders'[r.order] # None
          /\ (r.order \notin strained' => Room(cases', orders', r))
      BY <1>1, <3>2, <3>3
    <3> QED
      BY <3>6, <3>7 DEF r
  <2> QED
    BY <2>1, <2>2 DEF RoomOK, FilingFor, FiledNext
<1>5. CASE ~Crash /\ ~(Arrival(v) \/ Progress(v))
  <2>1. op'[v] = op[v] /\ pc'[v] = pc[v] /\ ask'[v] = ask[v] /\ doc'[v] = doc[v]
    BY <1>1, <1>5, WhoSteps DEF NobodySteps, workerVars, Idles
  <2>2. ASSUME pc[v] = "check"
        PROVE  LET o == ask[v].req.order IN
                 /\ orders'[o] # None
                 /\ o \notin strained' => orders'[o] = ask[v].book
    <3>1. ask[v].req \in Requests
      BY <1>1, <2>2 DEF IInv, FitOK
    <3>2. ask[v].req.order \in OrderIds
      BY <3>1, RequestsAssumption
    <3> QED
      BY <1>1, <2>2, <3>2, BodiesKeep DEF RoomOK
  <2>3. ASSUME Inserting(v)
        PROVE  LET o == doc[v].req.order IN
                 /\ orders'[o] # None
                 /\ o \notin strained' =>
                      /\ Room(cases', orders', doc[v].req)
                      /\ ~Doubled(doc[v].req)
                      /\ \A u \in Workers \ {v} : ~FiledNext(u, o)
    <3> DEFINE r == doc[v].req
    <3>1. r \in Requests /\ r.order \in OrderIds
      BY <1>1, <2>3, RequestsAssumption DEF IInv, HeldOK, Holding, Inserting
    <3>2. orders'[r.order] # None
      BY <1>1, <2>3, <3>1, BodiesKeep DEF RoomOK
    <3>3. ASSUME r.order \notin strained'
          PROVE  /\ Room(cases', orders', r) /\ ~Doubled(r)
                 /\ \A u \in Workers \ {v} : ~FiledNext(u, r.order)
      <4>1. /\ Room(cases, orders, r) /\ ~Doubled(r)
            /\ \A u \in Workers \ {v} : ~FilingFor(u, r.order)
        BY <1>1, <2>3, <3>3 DEF RoomOK
      <4>2. ~SavedBy(v)
        <5> SUFFICES ASSUME SavedBy(v) PROVE FALSE
          OBVIOUS
        <5>1. doc[v].id \in Cases /\ cases'[doc[v].id] # cases[doc[v].id]
          <6>1. doc[v].id \in Cases /\ ~Exists(doc[v].id) /\ doc[v] \in Document
            BY <1>1, <2>3, HeldFacts DEF IInv, InsertOK, Holding, Inserting
          <6>2. cases'[doc[v].id] = Bumped(doc[v])
            BY <1>1, <6>1, PutKeepsRows DEF SavedBy
          <6> QED
            BY <6>1, <6>2, BumpedFacts DEF Exists, Document
        <5>2. PICK u \in Workers : SavedBy(u) /\ pc'[u] # pc[u]
          BY <1>1, <5>1, SaversMoveOn
        <5>3. u # v
          BY <2>1, <5>2
        <5>4. doc[u].id = doc[v].id
          BY <1>1, <5>1, <5>2, SaveLeavesOthers
        <5> QED
          BY <1>1, <2>3, <5>3, <5>4 DEF IInv, InsertOK
      <4>3. \A w \in Workers : SavedBy(w) => ~FilingFor(w, r.order)
        BY <4>1, <4>2
      <4>4. Room(cases', orders', r)
        BY <3>1, <3>3, <4>1, <4>3, RoomStays
      <4>5. FiledNext(v, r.order)
        BY <2>1, <2>3 DEF FiledNext, Inserting
      <4>6. \A u \in Workers \ {v} : ~FiledNext(u, r.order)
        <5> HIDE DEF r
        <5>1. \A u \in Workers \ {v} : FiledNext(u, r.order) => r.order \in strained'
          BY <2>1, <2>3, <3>1 DEF RecordStrains, FilingFor, FiledNext, Inserting, r
        <5> QED
          BY <3>3, <5>1
      <4> QED
        BY <4>1, <4>4, <4>6
    <3> HIDE DEF r
    <3> QED
      BY <3>2, <3>3 DEF r
  <2>4. Inserting(v)' <=> Inserting(v)
    BY <2>1 DEF Inserting
  <2>5. pc'[v] = "check" => LET o == ask'[v].req.order IN
                              /\ orders'[o] # None
                              /\ o \notin strained' => orders'[o] = ask'[v].book
    BY <2>1, <2>2
  <2>6. Inserting(v)' => LET o == doc'[v].req.order IN
                           /\ orders'[o] # None
                           /\ o \notin strained' =>
                                /\ Room(cases', orders', doc'[v].req)
                                /\ ~Doubled(doc'[v].req)
                                /\ \A u \in Workers \ {v} : ~FiledNext(u, o)
    BY <2>1, <2>3, <2>4
  <2> QED
    BY <2>5, <2>6 DEF RoomOK, FilingFor, FiledNext
<1> QED
  BY <1>2, <1>3, <1>4, <1>5

\* What is reserved of a registered order that nothing strains stays within it.
LEMMA OrdersHold ==
  ASSUME IsFiniteSet(Cases), StrainInv, [Next]_vars, RecordStrains,
         NEW o \in OrderIds, o \notin strained', orders[o] # None, NEW sku \in DOMAIN orders[o]
  PROVE  ReservedIn(cases', o, sku) <= orders[o][sku]
<1>1. AskedInv /\ IInv /\ o \notin strained
  BY DEF StrainInv, AskedInv, RecordStrains
<1>2. ReservedIn(cases, o, sku) <= orders[o][sku]
  BY <1>1 DEF StrainInv, WithinOrder
<1>3. orders[o][sku] \in Nat
  <2>1. orders[o] \in Books
    BY <1>1 DEF IInv, TypeOK, StoreTypeOK
  <2> QED
    BY <2>1, LinesAssumption
<1>4. \A c \in Cases : /\ cases[c].version > 0 => cases[c].req \in Requests
                       /\ cases'[c].version > 0 => cases'[c].req \in Requests
  BY RowsAsk
<1>5. CASE \A w \in Workers : SavedBy(w) => ~FilingFor(w, o)
  <2>1. /\ Reserving(cases', o) \subseteq Reserving(cases, o)
        /\ \A c \in Reserving(cases', o) : cases'[c].req = cases[c].req
    BY <1>1, <1>5, ReservingShrinks
  <2>2. /\ ReservedIn(cases', o, sku) \in Nat /\ ReservedIn(cases, o, sku) \in Nat
        /\ ReservedIn(cases', o, sku) <= ReservedIn(cases, o, sku)
    BY <1>4, <2>1, ReservationsShrink
  <2> QED
    BY <1>2, <1>3, <2>2
<1>6. ASSUME NEW w \in Workers, SavedBy(w), FilingFor(w, o)
      PROVE  ReservedIn(cases', o, sku) <= orders[o][sku]
  <2> DEFINE x == doc[w].id
             r == doc[w].req
  <2>1. /\ Inserting(w) /\ Holding(w) /\ r.order = o /\ doc[w] \in Document /\ x \in Cases
        /\ ~Exists(x) /\ r \in Requests
    BY <1>1, <1>6, HeldFacts DEF FilingFor, Inserting, Holding, IInv, InsertOK, HeldOK
  <2>2. Room(cases, orders, r) /\ ~Doubled(r)
    BY <1>1, <2>1 DEF StrainInv, RoomOK
  <2>3. cases'[x].req = r
    <3>1. cases'[x] = Bumped(doc[w])
      BY <1>1, <1>6, <2>1, PutKeepsRows DEF SavedBy
    <3> QED
      BY <2>1, <3>1, BumpedFacts
  <2>4. \A c \in Cases \ {x} : cases'[c] = cases[c]
    BY <1>1, <1>6, SaveLeavesOthers
  <2> HIDE DEF x, r
  <2>5. /\ Reserving(cases', o) \ {x} \subseteq Reserving(cases, o)
        /\ \A c \in Reserving(cases', o) \ {x} : cases'[c].req = cases[c].req
    BY <2>4 DEF Reserving
  <2>6. CASE x \notin Reserving(cases', o)
    <3>1. /\ Reserving(cases', o) \subseteq Reserving(cases, o)
          /\ \A c \in Reserving(cases', o) : cases'[c].req = cases[c].req
      BY <2>5, <2>6
    <3>2. /\ ReservedIn(cases', o, sku) \in Nat /\ ReservedIn(cases, o, sku) \in Nat
          /\ ReservedIn(cases', o, sku) <= ReservedIn(cases, o, sku)
      BY <1>4, <3>1, ReservationsShrink
    <3> QED
      BY <1>2, <1>3, <3>2
  <2>7. CASE x \in Reserving(cases', o)
    <3>1. /\ ReservedIn(cases', o, sku) \in Nat /\ ReservedIn(cases, o, sku) \in Nat
          /\ ReservedIn(cases', o, sku) <= UnitsIn(r.lines, sku) + ReservedIn(cases, o, sku)
      BY <1>4, <2>3, <2>5, <2>7, ReservationsGrow
    <3>2. CASE \E i \in DOMAIN r.lines : r.lines[i].sku = sku
      <4>1. PICK i \in DOMAIN r.lines : r.lines[i].sku = sku
        BY <3>2
      <4>2. UnitsIn(r.lines, sku) = r.lines[i].quantity /\ UnitsIn(r.lines, sku) \in Nat
        BY <2>1, <2>2, <4>1, UnitsFacts
      <4>3. r.lines[i].quantity + ReservedIn(cases, o, sku) <= orders[o][sku]
        BY <2>1, <2>2, <4>1 DEF Room
      <4> QED
        BY <1>3, <3>1, <4>2, <4>3
    <3>3. CASE ~ \E i \in DOMAIN r.lines : r.lines[i].sku = sku
      <4>1. UnitsIn(r.lines, sku) = 0
        BY <2>1, <3>3, UnitsFacts
      <4> QED
        BY <1>2, <1>3, <3>1, <4>1
    <3> QED
      BY <3>2, <3>3
  <2> QED
    BY <2>6, <2>7
<1> QED
  BY <1>5, <1>6

\* Of an order that has just been registered nothing is reserved.
LEMMA NewOrdersAreWhole ==
  ASSUME IsFiniteSet(Cases), StrainInv, [Next]_vars, RecordStrains,
         NEW o \in OrderIds, orders[o] = None, orders'[o] # None, NEW sku \in DOMAIN orders'[o]
  PROVE  ReservedIn(cases', o, sku) <= orders'[o][sku]
<1>1. \A c \in Cases : cases'[c].version > 0 => cases'[c].req \in Requests
  BY OrdersAreKnown
<1>2. Reserving(cases', o) = {}
  BY OrdersAreKnown DEF Reserving
<1>3. PICK it : /\ IsSum(it, Reserving(cases', o), Asks(cases', sku))
                /\ ReservedIn(cases', o, sku) = it[Reserving(cases', o)]
  BY <1>1, ReservedIsSum
<1>4. it[{}] = 0
  <2>1. IsSum(it, {}, Asks(cases', sku))
    BY <1>2, <1>3
  <2> QED
    BY <2>1 DEF IsSum
<1>5. orders'[o][sku] \in Nat
  <2>1. IInv'
    BY NextKeeps DEF StrainInv, AskedInv
  <2>2. orders'[o] \in Books
    BY <2>1 DEF IInv, TypeOK, StoreTypeOK
  <2> QED
    BY <2>2, LinesAssumption
<1> QED
  BY <1>2, <1>3, <1>4, <1>5

\* No step takes more of an order that nothing strains than was bought.
LEMMA StrainInvKeeps ==
  ASSUME IsFiniteSet(Cases), StrainInv, [Next]_vars, RecordStrains
  PROVE  StrainInv'
<1>1. AskedInv' /\ IInv
  BY AskedInvKeeps DEF StrainInv, AskedInv
<1>2. ASSUME NEW o \in OrderIds \ strained', orders'[o] # None, NEW sku \in DOMAIN orders'[o]
      PROVE  ReservedIn(cases', o, sku) <= orders'[o][sku]
  <2>1. CASE orders[o] = None
    BY <1>2, <2>1, NewOrdersAreWhole
  <2>2. CASE orders[o] # None
    <3>1. orders'[o] = orders[o]
      BY <1>1, <1>2, <2>2, BodiesKeep
    <3> QED
      BY <1>2, <2>2, <3>1, OrdersHold
  <2> QED
    BY <2>1, <2>2
<1>3. \A c \in Cases : cases'[c].version > 0 => orders'[cases'[c].req.order] # None
  BY OrdersAreKnown
<1>4. \A w \in Workers : RoomOK(w)'
  BY RoomIsKept
<1> QED
  BY <1>1, <1>2, <1>3, <1>4 DEF StrainInv, WithinOrder, Exists

\* However requests interleave and the server dies: the cases of an order reserve more
\* units of a sku than were bought only if two of its requests were between check and
\* save at once, one named a sku on two lines, or the order came with a new body.
THEOREM OrdersAreNotOverReturned ==
  ASSUME IsFiniteSet(Cases)
  PROVE  HistorySpec => []StrainedOrMet
<1>1. Init /\ HistoryInit => StrainInv
  <2> SUFFICES ASSUME Init PROVE StrainInv
    OBVIOUS
  <2>1. IInv
    BY InitKeeps
  <2>2. /\ \A c \in Cases : ~Exists(c)
        /\ \A o \in OrderIds : orders[o] = None
    BY DEF Init, StoreInit, Exists, NoDocument
  <2>3. \A w \in Workers : pc[w] = "idle" /\ op[w] = "none" /\ rest[w] = {}
    BY DEF Init, StepInit, NobodyAtWork
  <2>4. \A w \in Workers : AskedOK(w) /\ RoomOK(w)
    BY <2>3 DEF AskedOK, RoomOK, Holding, Inserting
  <2> QED
    BY <2>1, <2>2, <2>4 DEF StrainInv, AskedInv
<1>2. StrainInv /\ [Next /\ Record]_<<vars, historyVars>> => StrainInv'
  <2>1. ASSUME StrainInv, Next, Record
        PROVE  StrainInv'
    BY <2>1, StrainInvKeeps DEF Record
  <2>2. ASSUME StrainInv, UNCHANGED <<vars, historyVars>>
        PROVE  StrainInv'
    <3>1. AskedInv'
      BY <2>2, NothingHappens, AskedInvKeeps DEF StrainInv
    <3>2. UNCHANGED <<cases, orders, op, pc, doc, ask, strained>>
      BY <2>2, NothingHappens
    <3> QED
      BY <2>2, <3>1, <3>2 DEF StrainInv, WithinOrder, Exists, RoomOK, Inserting, FilingFor
  <2> QED
    BY <2>1, <2>2
<1>3. StrainInv => StrainedOrMet
  BY ReservedFacts DEF StrainInv, WithinOrder, StrainedOrMet
<1> QED
  BY <1>1, <1>2, <1>3, PTL DEF HistorySpec
=============================================================================

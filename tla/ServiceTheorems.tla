---------------------------- MODULE ServiceTheorems ----------------------------
(***************************************************************************)
(* What follows from the inductive invariant: what a save may do to a row, *)
(* that the service implements the ledger of CaseLedger, and that notices  *)
(* tell the truth, that keys keep their case, and that only labels nobody  *)
(* used expire.                                                            *)
(***************************************************************************)
EXTENDS ServiceProofs

-----------------------------------------------------------------------------
(* Rows change in saves only.                                              *)

\* The step saves the case w holds, under the version check.
SavedBy(w) == pc[w] \in {"save", "note"} /\ CanSave(doc[w]) /\ Put(doc[w])

\* Every step leaves return_cases alone or is a save the version check let through.
LEMMA OnlySaves ==
  ASSUME [Next]_vars
  PROVE  cases' = cases \/ \E w \in Workers : SavedBy(w)
<1>1. ASSUME NEW w \in Workers, Arrival(w)
      PROVE  cases' = cases
  BY <1>1 DEF Arrival, CreateReturn, CaseCall,
     CarrierWebhook, InternalCall, StartCreate, StartReview, StartCancel, StartCarrierMove,
     StartCarrierNote, StartSweep, StartFailedInspection, StartPassedInspection,
     StartFlush, storeVars
<1>2. ASSUME NEW w \in Workers, Progress(w)
      PROVE  cases' = cases \/ SavedBy(w)
  <2>1. CASE SaveCase(w)
    BY <2>1 DEF SaveCase, SavedBy
  <2>2. CASE NoteNotice(w)
    BY <2>2 DEF NoteNotice, SavedBy
  <2>3. CASE LookupKey(w) \/ ReadOrder(w) \/ CheckAndDecide(w) \/ SweepNext(w)
             \/ IssueLabel(w) \/ Notify(w) \/ CreateReplacement(w) \/ ListPending(w)
             \/ EndFlush(w)
    BY <2>3 DEF LookupKey, ReadOrder, CheckAndDecide, SweepNext, IssueLabel, Notify,
       CreateReplacement, ListPending, EndFlush, storeVars
  <2>4. CASE RecordKey(w) \/ EnqueuePayment(w) \/ MarkExecuted(w) \/ MarkPending(w)
    BY <2>4 DEF RecordKey, EnqueuePayment, MarkExecuted, MarkPending, MarkAs
  <2>5. CASE Pay(w)
    BY <2>5 DEF Pay, PayEntry, storeVars
  <2> QED
    BY <1>2, <2>1, <2>2, <2>3, <2>4, <2>5 DEF Progress
<1>3. Register \/ Tick \/ Crash \/ UNCHANGED vars => cases' = cases
  BY DEF Register, RegisterOrder, Tick, Crash, vars, storeVars
<1> QED
  BY <1>1, <1>2, <1>3 DEF Next

\* What such a save does to the row: it continues it.
LEMMA SaveContinues ==
  ASSUME IInv, NEW w \in Workers, SavedBy(w)
  PROVE  LET old == cases[doc[w].id]
             new == cases'[doc[w].id]
         IN /\ old \in Document /\ new \in Document
            /\ IsPrefix(old.events, new.events)
            /\ old.label # None => new.label = old.label
            /\ \/ old.status = "absent" /\ new.status \in FirstStatuses
               \/ old.status # "absent" /\ old.status = new.status
               \/ <<old.status, new.status>> \in DurableMoves
            /\ pc[w] = "note" => old.status = new.status
<1> DEFINE d == doc[w]
           old == cases[d.id]
           new == cases'[d.id]
<1>1. /\ d \in Document /\ d.id \in Cases /\ old \in Document
      /\ ~Exists(d.id) => old = NoDocument /\ pc[w] = "save" /\ d.status \in FirstStatuses
      /\ Exists(d.id) => Continues(pc[w], old, d)
  BY SaverFacts DEF SavedBy
<1>2. new = Bumped(d)
  BY PutKeepsRows DEF SavedBy
<1>3. new \in Document /\ new.status = d.status /\ new.label = d.label /\ new.events = d.events
  BY <1>1, <1>2, BumpedFacts
<1>4. pc[w] = "save" \/ pc[w] = "note"
  BY DEF SavedBy
<1>5. CASE ~Exists(d.id)
  <2>1. old.events = <<>> /\ old.label = None /\ old.status = "absent"
    BY <1>1, <1>5 DEF NoDocument
  <2>2. d.events \in Seq(Event)
    BY <1>1 DEF Document
  <2>3. IsPrefix(old.events, d.events)
    BY <2>1, <2>2, PrefixEmpty
  <2> QED
    BY <1>1, <1>3, <1>5, <2>1, <2>3
<1>6. CASE Exists(d.id)
  <2>1. old.status \in Durable /\ old.status # "absent"
    BY <1>1, <1>6 DEF IInv, RowOK, Durable, ReturnStatus
  <2>2. IsPrefix(old.events, d.events) /\ (old.label # None => d.label = old.label)
    BY <1>1, <1>6 DEF Continues
  <2>3. MayBecome(pc[w], old.status, d.status)
    BY <1>1, <1>6 DEF Continues
  <2>4. /\ old.status = d.status \/ <<old.status, d.status>> \in DurableMoves
        /\ pc[w] = "note" => old.status = d.status
    BY <1>4, <2>3 DEF MayBecome
  <2> QED
    BY <1>1, <1>3, <2>1, <2>2, <2>4
<1> QED
  BY <1>5, <1>6

\* The other rows stay as they are.
LEMMA SaveLeavesOthers ==
  ASSUME IInv, NEW w \in Workers, SavedBy(w), NEW c \in Cases, c # doc[w].id
  PROVE  cases'[c] = cases[c]
BY DEF SavedBy, Put, IInv, TypeOK, StoreTypeOK

-----------------------------------------------------------------------------
(* Action properties.                                                      *)

\* No save, of any handler however it interleaves with others, drops or
\* rewrites an event that is in the audit trail: lost updates cannot happen.
THEOREM TrailsGrow == Spec => AuditTrailGrows
<1>1. ASSUME IInv, [Next]_vars, NEW c \in Cases
      PROVE  IsPrefix(cases[c].events, cases'[c].events)
  <2>1. CASE cases'[c] = cases[c]
    <3>1. cases[c].events \in Seq(Event)
      BY <1>1 DEF IInv, TypeOK, StoreTypeOK, Document
    <3> QED
      BY <2>1, <3>1, PrefixReflexive
  <2>2. CASE cases'[c] # cases[c]
    <3>1. PICK w \in Workers : SavedBy(w)
      BY <1>1, <2>2, OnlySaves
    <3>2. c = doc[w].id
      BY <1>1, <2>2, <3>1, SaveLeavesOthers
    <3> QED
      BY <1>1, <3>1, <3>2, SaveContinues
  <2> QED
    BY <2>1, <2>2
<1>2. IInv /\ [Next]_vars => [\A c \in Cases : IsPrefix(cases[c].events, cases'[c].events)]_vars
  BY <1>1
<1> QED
  BY <1>2, InvariantHolds, PTL DEF Spec, AuditTrailGrows

\* The tracking number recorded for a case is never replaced, so the label a
\* customer was given keeps leading back to the case.
THEOREM LabelsAreKept == Spec => LabelsStay
<1>1. ASSUME IInv, [Next]_vars, NEW c \in Cases, cases[c].label # None
      PROVE  cases'[c].label = cases[c].label
  <2>1. CASE cases'[c] # cases[c]
    <3>1. PICK w \in Workers : SavedBy(w)
      BY <1>1, <2>1, OnlySaves
    <3>2. c = doc[w].id
      BY <1>1, <2>1, <3>1, SaveLeavesOthers
    <3> QED
      BY <1>1, <3>1, <3>2, SaveContinues
  <2> QED
    BY <2>1
<1>2. IInv /\ [Next]_vars
        => [\A c \in Cases : cases[c].label # None => cases'[c].label = cases[c].label]_vars
  BY <1>1
<1> QED
  BY <1>2, InvariantHolds, PTL DEF Spec, LabelsStay

-----------------------------------------------------------------------------
(* The service implements the ledger.                                      *)

\* The ledger speaks of the lifecycle of the service.
LEMMA SameMoves ==
  /\ Ledger!Durable = Durable
  /\ Ledger!DurableMoves = DurableMoves
  /\ Ledger!FirstStatuses = FirstStatuses
BY DEF Ledger!Durable, Durable, Ledger!ReturnStatus, ReturnStatus, Ledger!InMemoryOnly,
   InMemoryOnly, Ledger!DurableMoves, DurableMoves, Ledger!CanMove, CanMove,
   Ledger!Transitions, Transitions, Ledger!FirstStatuses, FirstStatuses

\* Every step is a step of the ledger, or leaves every recorded status alone.
LEMMA StepsMap ==
  ASSUME IInv, [Next]_vars
  PROVE  [Ledger!LedgerNext]_Recorded
<1>1. cases \in [Cases -> Document]
  BY DEF IInv, TypeOK, StoreTypeOK
<1>2. CASE cases' = cases
  BY <1>2 DEF Recorded
<1>3. ASSUME NEW w \in Workers, SavedBy(w)
      PROVE  [Ledger!LedgerNext]_Recorded
  <2> DEFINE i == doc[w].id
             s == cases'[i].status
  <2>1. i \in Cases
    BY <1>3, SaverFacts DEF SavedBy
  <2>2. \A c \in Cases \ {i} : cases'[c] = cases[c]
    BY <1>3, SaveLeavesOthers
  <2>3. Recorded' = [Recorded EXCEPT ![i] = s]
    BY <2>1, <2>2 DEF Recorded
  <2>4. Recorded[i] = cases[i].status
    BY <2>1 DEF Recorded
  <2>5. \/ Recorded[i] = "absent" /\ s \in FirstStatuses
        \/ Recorded[i] = s
        \/ <<Recorded[i], s>> \in DurableMoves
    BY <1>3, <2>4, SaveContinues
  <2> HIDE DEF i, s
  <2>6. CASE Recorded[i] = "absent" /\ s \in FirstStatuses
    BY <2>1, <2>3, <2>6, SameMoves DEF Ledger!LedgerNext, Ledger!Open
  <2>7. CASE Recorded[i] = s
    <3>1. Recorded \in [Cases -> {cases[c].status : c \in Cases}]
      BY DEF Recorded
    <3> QED
      BY <2>1, <2>3, <2>7, <3>1
  <2>8. CASE <<Recorded[i], s>> \in DurableMoves
    <3>1. s \in Durable
      BY <2>8, LedgerMoves
    <3> QED
      BY <2>1, <2>3, <2>8, <3>1, SameMoves DEF Ledger!LedgerNext, Ledger!Advance
  <2> QED
    BY <2>5, <2>6, <2>7, <2>8
<1> QED
  BY <1>2, <1>3, OnlySaves

\* A case is opened once, in a status create_return may give it, and then only
\* makes legal moves of the lifecycle, whatever handlers race for it.
THEOREM ImplementsLedger == Spec => FollowsLedger
<1>1. Init => Ledger!LedgerInit
  BY DEF Init, StoreInit, Recorded, NoDocument, Ledger!LedgerInit
<1>2. IInv /\ [Next]_vars => [Ledger!LedgerNext]_Recorded
  BY StepsMap
<1> QED
  BY <1>1, <1>2, InvariantHolds, PTL DEF Spec, FollowsLedger, Ledger!LedgerSpec

-----------------------------------------------------------------------------
(* Notices are true.                                                       *)

\* Nothing follows a terminal status.
LEMMA TerminalStays ==
  ASSUME IInv, [Next]_vars, NEW c \in Cases, cases[c].status \in Terminal
  PROVE  cases'[c].status = cases[c].status
<1>1. \A s \in Terminal : \A t : <<s, t>> \notin DurableMoves /\ s # "absent"
  BY DEF Terminal, Released, DurableMoves, CanMove, Transitions, InMemoryOnly
<1>2. CASE cases'[c] # cases[c]
  <2>1. PICK w \in Workers : SavedBy(w)
    BY <1>2, OnlySaves
  <2>2. c = doc[w].id
    BY <1>2, <2>1, SaveLeavesOthers
  <2> QED
    BY <1>1, <2>1, <2>2, SaveContinues
<1> QED
  BY <1>2

\* A thread is past its save because it has just saved, or was before and has
\* its case still.
GoesOn(w) ==
  \/ /\ SavedBy(w)
     /\ doc'[w] = Bumped(doc[w])
     /\ pc'[w] # "record" => doc[w].status \in Terminal
  \/ /\ Saved(w) /\ cases' = cases
     /\ doc'[w].id = doc[w].id /\ doc'[w].status = doc[w].status
     /\ pc'[w] # "record" => pc[w] # "record" \/ doc[w].status \in Terminal

\* So it is after any call of its handler.
LEMMA GoingOn ==
  ASSUME IInv, NEW w \in Workers, Progress(w), Saved(w)'
  PROVE  GoesOn(w)
<1>1. /\ op \in [Workers -> Ops] /\ pc \in [Workers -> Calls]
      /\ doc \in [Workers -> Document] /\ <<op[w], pc[w]>> \in CallsOf
  BY DEF IInv, TypeOK, StepTypeOK, LocalTypeOK, FitOK
<1>2. ~Finish(w)
  BY <1>1 DEF Finish, Saved
<1>3. \A call, d : Goto(w, call, d) => op'[w] = op[w] /\ pc'[w] = call /\ doc'[w] = d
  BY <1>1 DEF Goto
<1>4. CASE LookupKey(w) \/ CheckAndDecide(w) \/ IssueLabel(w)
  BY <1>2, <1>3, <1>4 DEF LookupKey, CheckAndDecide, IssueLabel, Saved
<1>5. CASE ReadOrder(w)
  BY <1>1, <1>2, <1>5 DEF ReadOrder, Saved
<1>6. CASE SweepNext(w)
  BY <1>1, <1>2, <1>6 DEF SweepNext, Saved
<1>7. CASE RecordKey(w)
  <2>1. Goto(w, "notify", doc[w]) /\ doc[w].status = "rejected"
    BY <1>2, <1>7 DEF RecordKey
  <2> QED
    BY <1>3, <1>7, <2>1 DEF RecordKey, GoesOn, Saved, Terminal, Released
<1>8. CASE SaveCase(w)
  <2>1. /\ SavedBy(w) /\ AfterSave(w) # "idle"
        /\ pc'[w] = AfterSave(w) /\ doc'[w] = Bumped(doc[w])
    BY <1>2, <1>3, <1>8 DEF SaveCase, SavedBy
  <2>2. AfterSave(w) # "record" => doc[w].status \in Terminal
    BY <2>1 DEF AfterSave, Announced, Terminal, Released
  <2> QED
    BY <2>1, <2>2 DEF GoesOn
<1>9. CASE Notify(w)
  <2>1. Goto(w, "note", AddEvent(doc[w], "customer_notified", now))
    BY <1>2, <1>3, <1>9 DEF Notify, AfterNotice, Saved
  <2>2. doc[w] \in Document
    BY <1>1
  <2>3. /\ AddEvent(doc[w], "customer_notified", now).id = doc[w].id
        /\ AddEvent(doc[w], "customer_notified", now).status = doc[w].status
    BY <2>2 DEF AddEvent, Document
  <2> QED
    BY <1>3, <1>9, <2>1, <2>3 DEF Notify, GoesOn, Saved, storeVars
<1>10. CASE NoteNotice(w)
  BY <1>2, <1>3, <1>10 DEF NoteNotice, AfterNotice, Saved
<1>11. CASE CreateReplacement(w) \/ EnqueuePayment(w)
  BY <1>2, <1>3, <1>11 DEF CreateReplacement, EnqueuePayment, Saved
<1>12. CASE ListPending(w) \/ Pay(w) \/ MarkExecuted(w) \/ MarkPending(w)
  <2>1. \E call \in {"pay", "mark_executed", "mark_pending"} : Goto(w, call, doc[w])
    BY <1>12 DEF ListPending, Pay, PayEntry, MarkExecuted, MarkPending, MarkAs
  <2>2. cases' = cases /\ pc[w] \in {"list", "pay", "mark_executed", "mark_pending"}
    BY <1>12 DEF ListPending, Pay, PayEntry, MarkExecuted, MarkPending, MarkAs, storeVars
  <2> QED
    BY <1>3, <2>1, <2>2 DEF GoesOn, Saved
<1>13. CASE EndFlush(w)
  BY <1>2, <1>3, <1>13 DEF EndFlush, GoesOn, Saved, storeVars
<1> QED
  BY <1>4, <1>5, <1>6, <1>7, <1>8, <1>9, <1>10, <1>11, <1>12, <1>13 DEF Progress

\* A request that has just arrived has saved nothing.
LEMMA ArrivalSavesNothing ==
  ASSUME IInv, NEW w \in Workers, Arrival(w)
  PROVE  ~Saved(w)'
<1>1. op \in [Workers -> Ops] /\ pc \in [Workers -> Calls]
  BY DEF IInv, TypeOK, StepTypeOK, LocalTypeOK
<1>2. ASSUME NEW o \in Ops \ {"inspect"}, NEW d,
             \/ Begin(w, o, "save", d)
             \/ Begin(w, o, "label", d)
             \/ Begin(w, o, "list", d)
      PROVE  ~Saved(w)'
  BY <1>1, <1>2 DEF Begin, Saved
<1>3. ASSUME NEW d, \/ Begin(w, "inspect", "save", d)
                   \/ Begin(w, "inspect", "replace", d)
                   \/ Begin(w, "inspect", "enqueue", d)
      PROVE  ~Saved(w)'
  BY <1>1, <1>3 DEF Begin, Saved
<1>4. CASE \E r \in Requests, k \in HeaderValues : StartCreate(w, r, k)
  BY <1>1, <1>4 DEF StartCreate, Saved
<1>5. CASE StartSweep(w)
  BY <1>1, <1>5 DEF StartSweep, Saved
<1>6. CASE \/ \E c \in Cases, s \in {"approved", "rejected"} : StartReview(w, c, s)
           \/ \E c \in Cases : StartCancel(w, c)
           \/ \E t \in Labels, s \in {"in_transit", "received"} : StartCarrierMove(w, t, s)
           \/ \E t \in Labels : StartCarrierNote(w, t)
           \/ StartFlush(w)
  <2>1. {"review", "cancel", "carrier", "flush"} \subseteq Ops \ {"inspect"}
    BY DEF Ops
  <2> QED
    BY <1>2, <1>6, <2>1 DEF StartReview, StartCancel, StartCarrierMove, StartCarrierNote, StartFlush
<1>7. CASE \E c \in Cases : StartFailedInspection(w, c) \/ StartPassedInspection(w, c)
  BY <1>3, <1>7 DEF StartFailedInspection, StartPassedInspection
<1> QED
  BY <1>4, <1>5, <1>6, <1>7 DEF Arrival, CreateReturn, CaseCall,
     CarrierWebhook, InternalCall

\* The step is none of thread v's.
Idles(v) == op'[v] = op[v] /\ pc'[v] = pc[v] /\ doc'[v] = doc[v]

\* A thread's step changes nobody else's operation, call or case.
LEMMA OneThread ==
  ASSUME IInv, NEW w \in Workers, Arrival(w) \/ Progress(w), NEW v \in Workers \ {w}
  PROVE  Idles(v)
<1>1. op \in [Workers -> Ops] /\ pc \in [Workers -> Calls] /\ doc \in [Workers -> Document]
  BY DEF IInv, TypeOK, StepTypeOK, LocalTypeOK
<1>2. \A o, call, d : Begin(w, o, call, d) => Idles(v)
  BY <1>1 DEF Begin, Idles
<1>3. \A call, d : Goto(w, call, d) => Idles(v)
  BY <1>1 DEF Goto, Idles
<1>4. Finish(w) => Idles(v)
  BY <1>1 DEF Finish, Idles
<1>5. CASE \/ \E r \in Requests, k \in HeaderValues : StartCreate(w, r, k)
           \/ StartSweep(w)
  BY <1>1, <1>5 DEF StartCreate, StartSweep, Idles
<1>6. CASE \/ \E c \in Cases, s \in {"approved", "rejected"} : StartReview(w, c, s)
           \/ \E c \in Cases : StartCancel(w, c)
           \/ \E t \in Labels, s \in {"in_transit", "received"} : StartCarrierMove(w, t, s)
           \/ \E t \in Labels : StartCarrierNote(w, t)
           \/ \E c \in Cases : StartFailedInspection(w, c) \/ StartPassedInspection(w, c)
           \/ StartFlush(w)
  BY <1>2, <1>6 DEF StartReview, StartCancel, StartCarrierMove, StartCarrierNote,
     StartFailedInspection, StartPassedInspection, StartFlush
<1>7. CASE SweepNext(w) \/ ReadOrder(w)
  <2>1. CASE Finish(w)
    BY <1>4, <2>1
  <2>2. CASE ~Finish(w)
    BY <1>1, <1>7, <2>2 DEF SweepNext, ReadOrder, Idles
  <2> QED
    BY <2>1, <2>2
<1>8. CASE \/ LookupKey(w) \/ CheckAndDecide(w) \/ RecordKey(w) \/ IssueLabel(w)
           \/ SaveCase(w) \/ Notify(w) \/ NoteNotice(w)
  BY <1>3, <1>4, <1>8 DEF LookupKey, CheckAndDecide, RecordKey, IssueLabel, SaveCase,
     Notify, NoteNotice, AfterNotice
<1>9. CASE \/ CreateReplacement(w) \/ EnqueuePayment(w) \/ ListPending(w) \/ Pay(w)
           \/ MarkExecuted(w) \/ MarkPending(w) \/ EndFlush(w)
  BY <1>3, <1>4, <1>9 DEF CreateReplacement, EnqueuePayment, ListPending, Pay, PayEntry,
     MarkExecuted, MarkPending, MarkAs, EndFlush
<1> QED
  BY <1>5, <1>6, <1>7, <1>8, <1>9 DEF Arrival, CreateReturn, CaseCall,
     CarrierWebhook, InternalCall, Progress

\* Threads past their save keep being right about the row.
LEMMA ToldKeeps ==
  ASSUME NoticeInv, [Next]_vars, NEW v \in Workers
  PROVE  ToldOK(v)'
<1>1. IInv /\ ToldOK(v)
  BY DEF NoticeInv
<1> SUFFICES ASSUME Saved(v)'
             PROVE  /\ pc'[v] # "record" => doc'[v].status \in Terminal
                    /\ doc'[v].status \in Terminal
                         => cases'[doc'[v].id].status = doc'[v].status
  BY DEF ToldOK
<1>2. Saved(v) => doc[v].id \in Cases
  BY <1>1, HeldFacts DEF Saved, Holding
<1>3. CASE Idles(v)
  <2>1. Saved(v)
    BY <1>3 DEF Saved, Idles
  <2> QED
    BY <1>1, <1>2, <1>3, <2>1, TerminalStays DEF ToldOK, Idles
<1>4. CASE Arrival(v) \/ Progress(v)
  <2>1. GoesOn(v)
    BY <1>1, <1>4, ArrivalSavesNothing, GoingOn
  <2>2. CASE /\ SavedBy(v)
             /\ doc'[v] = Bumped(doc[v])
             /\ pc'[v] # "record" => doc[v].status \in Terminal
    <3>1. doc[v] \in Document /\ cases'[doc[v].id] = Bumped(doc[v])
      BY <1>1, <2>2, SaverFacts, PutKeepsRows DEF SavedBy
    <3>2. Bumped(doc[v]).id = doc[v].id /\ Bumped(doc[v]).status = doc[v].status
      BY <3>1, BumpedFacts
    <3> QED
      BY <2>2, <3>1, <3>2
  <2>3. CASE /\ Saved(v) /\ cases' = cases
             /\ doc'[v].id = doc[v].id /\ doc'[v].status = doc[v].status
             /\ pc'[v] # "record" => pc[v] # "record" \/ doc[v].status \in Terminal
    BY <1>1, <2>3 DEF ToldOK
  <2> QED
    BY <2>1, <2>2, <2>3 DEF GoesOn
<1>5. CASE \E w \in Workers \ {v} : Arrival(w) \/ Progress(w)
  BY <1>1, <1>3, <1>5, OneThread
<1>6. CASE Register \/ Tick \/ UNCHANGED vars
  BY <1>3, <1>6 DEF Register, RegisterOrder, Tick, vars, workerVars, Idles
<1>7. CASE Crash
  BY <1>7 DEF Crash, Saved
<1> QED
  BY <1>4, <1>5, <1>6, <1>7 DEF Next

\* A notice is sent by a thread past its save, and only then.
LEMMA NewNotices ==
  ASSUME [Next]_vars
  PROVE  \/ notices' = notices
         \/ \E w \in Workers : /\ pc[w] = "notify" /\ cases' = cases
                               /\ notices' = notices \cup {<<doc[w].id, doc[w].status>>}
<1>1. ASSUME NEW w \in Workers, Arrival(w)
      PROVE  notices' = notices
  BY <1>1 DEF Arrival, CreateReturn, CaseCall,
     CarrierWebhook, InternalCall, StartCreate, StartReview, StartCancel, StartCarrierMove,
     StartCarrierNote, StartSweep, StartFailedInspection, StartPassedInspection, StartFlush
<1>2. ASSUME NEW w \in Workers, Progress(w)
      PROVE  \/ notices' = notices
             \/ /\ pc[w] = "notify" /\ cases' = cases
                /\ notices' = notices \cup {<<doc[w].id, doc[w].status>>}
  <2>1. CASE Notify(w)
    BY <2>1 DEF Notify, storeVars
  <2>2. CASE ~Notify(w)
    BY <1>2, <2>2 DEF Progress, LookupKey, ReadOrder, CheckAndDecide, RecordKey, SweepNext,
       IssueLabel, SaveCase, NoteNotice, CreateReplacement, EnqueuePayment, ListPending,
       Pay, PayEntry, MarkExecuted, MarkPending, MarkAs, EndFlush
  <2> QED
    BY <2>1, <2>2
<1>3. Register \/ Tick \/ Crash \/ UNCHANGED vars => notices' = notices
  BY DEF Register, RegisterOrder, Tick, Crash, vars
<1> QED
  BY <1>1, <1>2, <1>3 DEF Next

\* Every step leaves what customers were told true.
LEMMA NoticeInvKeeps ==
  ASSUME NoticeInv, [Next]_vars
  PROVE  NoticeInv'
<1>1. IInv /\ IInv'
  BY NextKeeps DEF NoticeInv
<1>2. \A w \in Workers : ToldOK(w)'
  BY ToldKeeps
<1>3. notices \subseteq (Cases \X ReturnStatus)
  BY <1>1 DEF IInv, TypeOK, StepTypeOK
<1>4. ASSUME NEW n \in notices
      PROVE  n[2] \in Terminal /\ cases'[n[1]].status = n[2]
  <2>1. n[1] \in Cases /\ n[2] \in Terminal /\ cases[n[1]].status = n[2]
    BY <1>3 DEF NoticeInv
  <2> QED
    BY <1>1, <2>1, TerminalStays
<1>5. ASSUME NEW w \in Workers, pc[w] = "notify", cases' = cases
      PROVE  doc[w].status \in Terminal /\ cases'[doc[w].id].status = doc[w].status
  BY <1>5 DEF NoticeInv, ToldOK, Saved
<1>6. ASSUME NEW n \in notices'
      PROVE  n[2] \in Terminal /\ cases'[n[1]].status = n[2]
  <2>1. CASE n \in notices
    BY <1>4, <2>1
  <2>2. CASE n \notin notices
    <3>1. PICK w \in Workers : /\ pc[w] = "notify" /\ cases' = cases
                               /\ n = <<doc[w].id, doc[w].status>>
      BY <2>2, NewNotices
    <3> QED
      BY <1>5, <3>1
  <2> QED
    BY <2>1, <2>2
<1> QED
  BY <1>1, <1>2, <1>6 DEF NoticeInv

\* Rows and copies are in order, and a thread past its save of a final status finds
\* it recorded: the invariant the truth of notices rests on.
THEOREM NoticesAreInOrder == Spec => []NoticeInv
<1>1. Init => NoticeInv
  <2>1. Init => IInv
    BY InitKeeps
  <2>2. Init => notices = {} /\ \A w \in Workers : ToldOK(w)
    BY DEF Init, StepInit, NobodyAtWork, ToldOK, Saved
  <2> QED
    BY <2>1, <2>2 DEF NoticeInv
<1>2. NoticeInv /\ [Next]_vars => NoticeInv'
  BY NoticeInvKeeps
<1> QED
  BY <1>1, <1>2, PTL DEF Spec

\* Whatever a customer has been told of a case is its recorded status and
\* stays it, for every number of threads and however their calls interleave.
THEOREM NoticesTellTheTruth == Spec => []NoticesAreTrue
<1>1. NoticeInv => NoticesAreTrue
  <2> SUFFICES ASSUME NoticeInv, NEW c \in Cases, NEW s \in ReturnStatus, <<c, s>> \in notices
               PROVE  cases[c].status = s
    BY DEF NoticesAreTrue
  <2>1. \A n \in notices : cases[n[1]].status = n[2]
    BY DEF NoticeInv
  <2> QED
    BY <2>1
<1> QED
  BY <1>1, NoticesAreInOrder, PTL

-----------------------------------------------------------------------------
(* Where a thread's case comes from.                                       *)

\* A step that touches none of the tables and no replacement order.
TablesKept == UNCHANGED <<cases, outbox, replaced, now>>

\* The thread has just read a row and moved its copy of it.
Taken(w) ==
  /\ TablesKept
  /\ \E c \in Cases :
       /\ Exists(c)
       /\ doc'[w] \in Document /\ Amends(doc'[w], cases[c])
       /\ \/ /\ op'[w] = "carrier" /\ pc'[w] = "save"
             /\ doc'[w].status = cases[c].status
          \/ /\ op'[w] \in {"review", "cancel", "carrier"} /\ pc'[w] \in {"label", "save"}
             /\ doc'[w].status \in {"approved", "rejected", "cancelled", "in_transit", "received"}
          \/ /\ op'[w] = "inspect" /\ CanMove(cases[c].status, "inspecting")
             /\ \/ pc'[w] = "save" /\ doc'[w].status = "closed_failed_inspection"
                \/ /\ pc'[w] = "replace" /\ doc'[w].status = "inspecting"
                   /\ Wants(doc'[w]) = "exchange"
                \/ /\ pc'[w] = "enqueue" /\ Wants(doc'[w]) # "exchange"
                   /\ doc'[w].status = ResolutionToStatus[Wants(doc'[w])]

\* The sweep goes on to its next case.
Expires(w) ==
  /\ TablesKept
  /\ pc[w] = "next" /\ op'[w] = op[w] /\ pc'[w] = "save"
  /\ \E d \in rest[w] : doc'[w] = Transitioned(d, "expired")

\* create_return has built its case.
Builds(w) ==
  /\ TablesKept
  /\ op[w] = "create" /\ op'[w] = "create" /\ pc'[w] \in {"label", "save"}
  /\ \E c \in Cases, s \in Decisions :
       /\ Fresh(c)
       /\ doc'[w] = Transitioned(NewCase(c, ask[w].req), s)

\* The handler goes on with the case it holds.
Carries(w) ==
  /\ Holding(w) /\ op'[w] = op[w]
  /\ \/ /\ pc[w] = "label" /\ pc'[w] = "save" /\ TablesKept
        /\ \E t \in Labels : doc'[w] = Labelled(doc[w], t)
     \/ /\ pc[w] = "replace" /\ pc'[w] = "save" /\ UNCHANGED <<cases, outbox, now>>
        /\ replaced' = [replaced EXCEPT ![doc[w].id] = @ + 1]
        /\ doc'[w] = Settled([doc[w] EXCEPT !.replacement = replaced'[doc[w].id]])
     \/ /\ pc[w] = "enqueue" /\ pc'[w] = "save" /\ UNCHANGED <<cases, replaced, now>>
        /\ OutboxEnqueue(doc[w].id, PaymentKind(doc[w])) /\ doc'[w] = doc[w]
     \/ /\ pc[w] = "save" /\ SavedBy(w) /\ pc'[w] \in {"record", "list", "notify"}
        /\ UNCHANGED <<outbox, replaced, now>> /\ doc'[w] = Bumped(doc[w])
     \/ /\ pc[w] = "notify" /\ pc'[w] = "note" /\ TablesKept
        /\ doc'[w] = AddEvent(doc[w], "customer_notified", now)
     \/ /\ pc[w] \in {"record", "list", "pay", "mark_executed", "mark_pending"}
        /\ pc'[w] \in {"notify", "pay", "mark_executed", "mark_pending"}
        /\ UNCHANGED <<cases, replaced, now>> /\ doc'[w] = doc[w]

\* A request that arrives and holds a case has read it from its row.
LEMMA ArrivalTakes ==
  ASSUME IInv, NEW w \in Workers, Arrival(w), Holding(w)'
  PROVE  Taken(w)
<1>1. LocalTypeOK
  BY DEF IInv, TypeOK, StepTypeOK
<1>2. ASSUME NEW o \in Ops, NEW call \in Calls, NEW d, Begin(w, o, call, d)
      PROVE  op'[w] = o /\ pc'[w] = call /\ doc'[w] = d
  BY <1>1, <1>2 DEF Begin, LocalTypeOK
<1>3. {"review", "cancel", "carrier", "inspect", "flush"} \subseteq Ops
      /\ {"label", "save", "replace", "enqueue", "list"} \subseteq Calls
  BY DEF Ops, Calls
<1>4. ASSUME NEW c \in Cases, NEW s \in {"approved", "rejected"}, StartReview(w, c, s),
             UNCHANGED moneyVars
      PROVE  Taken(w)
  <2>1. Exists(c) /\ s \in ReturnStatus /\ TablesKept
    BY <1>4 DEF StartReview, ReturnStatus, TablesKept, storeVars, moneyVars
  <2>2. op'[w] = "review" /\ pc'[w] \in {"label", "save"} /\ doc'[w] = Transitioned(cases[c], s)
    BY <1>2, <1>3, <1>4 DEF StartReview
  <2>3. doc'[w] \in Document /\ doc'[w].status = s /\ Amends(doc'[w], cases[c])
    BY <2>1, <2>2, RowFacts, TransitionedFacts
  <2> QED
    BY <2>1, <2>2, <2>3 DEF Taken
<1>5. ASSUME NEW c \in Cases, StartCancel(w, c), UNCHANGED moneyVars
      PROVE  Taken(w)
  <2>1. Exists(c) /\ "cancelled" \in ReturnStatus /\ TablesKept
    BY <1>5 DEF StartCancel, ReturnStatus, TablesKept, storeVars, moneyVars
  <2>2. op'[w] = "cancel" /\ pc'[w] = "save" /\ doc'[w] = Transitioned(cases[c], "cancelled")
    BY <1>2, <1>3, <1>5 DEF StartCancel
  <2>3. /\ doc'[w] \in Document /\ doc'[w].status = "cancelled"
        /\ Amends(doc'[w], cases[c])
    BY <2>1, <2>2, RowFacts, TransitionedFacts
  <2> QED
    BY <2>1, <2>2, <2>3 DEF Taken
<1>6. ASSUME NEW t \in Labels, NEW s \in {"in_transit", "received"}, StartCarrierMove(w, t, s),
             UNCHANGED moneyVars
      PROVE  Taken(w)
  <2>1. s \in ReturnStatus /\ TablesKept
    BY <1>6 DEF StartCarrierMove, ReturnStatus, TablesKept, storeVars, moneyVars
  <2>2. PICK c \in Cases : Exists(c) /\ Begin(w, "carrier", "save", Transitioned(cases[c], s))
    BY <1>6 DEF StartCarrierMove, ByTracking
  <2>3. op'[w] = "carrier" /\ pc'[w] = "save" /\ doc'[w] = Transitioned(cases[c], s)
    BY <1>2, <1>3, <2>2
  <2>4. doc'[w] \in Document /\ doc'[w].status = s /\ Amends(doc'[w], cases[c])
    BY <2>1, <2>2, <2>3, RowFacts, TransitionedFacts
  <2> QED
    BY <2>1, <2>2, <2>3, <2>4 DEF Taken
<1>7. ASSUME NEW t \in Labels, StartCarrierNote(w, t), UNCHANGED moneyVars
      PROVE  Taken(w)
  <2>1. "tracking_other" \in EventName /\ TablesKept
    BY <1>7 DEF StartCarrierNote, EventName, TablesKept, storeVars, moneyVars
  <2>2. PICK c \in Cases :
          Exists(c) /\ Begin(w, "carrier", "save", AddEvent(cases[c], "tracking_other", now))
    BY <1>7 DEF StartCarrierNote, ByTracking
  <2>3. /\ op'[w] = "carrier" /\ pc'[w] = "save"
        /\ doc'[w] = AddEvent(cases[c], "tracking_other", now)
    BY <1>2, <1>3, <2>2
  <2>4. /\ doc'[w] \in Document /\ doc'[w].status = cases[c].status
        /\ Amends(doc'[w], cases[c])
    BY <2>1, <2>2, <2>3, RowFacts, AddEventFacts
  <2> QED
    BY <2>1, <2>2, <2>3, <2>4 DEF Taken
<1>8. ASSUME NEW c \in Cases, StartFailedInspection(w, c)
      PROVE  Taken(w)
  <2> DEFINE d == Transitioned(Transitioned(cases[c], "inspecting"), "closed_failed_inspection")
  <2>1. Exists(c) /\ CanMove(cases[c].status, "inspecting") /\ TablesKept
    BY <1>8 DEF StartFailedInspection, TablesKept, storeVars, moneyVars
  <2>2. op'[w] = "inspect" /\ pc'[w] = "save" /\ doc'[w] = d
    BY <1>2, <1>3, <1>8 DEF StartFailedInspection
  <2>3. d \in Document /\ d.status = "closed_failed_inspection" /\ Amends(d, cases[c])
    BY <2>1, InspectedFacts
  <2> QED
    BY <2>1, <2>2, <2>3 DEF Taken
<1>9. ASSUME NEW c \in Cases, StartPassedInspection(w, c)
      PROVE  Taken(w)
  <2> DEFINE b == Transitioned(cases[c], "inspecting")
             s == ResolutionToStatus[Wants(b)]
             d == Transitioned(b, s)
  <2>1. Exists(c) /\ CanMove(cases[c].status, "inspecting") /\ TablesKept
    BY <1>9 DEF StartPassedInspection, TablesKept, storeVars, moneyVars
  <2>2. \/ Wants(b) = "exchange" /\ Begin(w, "inspect", "replace", b)
        \/ Wants(b) # "exchange" /\ Begin(w, "inspect", "enqueue", d)
    BY <1>9 DEF StartPassedInspection, Settled
  <2>3. b \in Document /\ b.status = "inspecting" /\ Amends(b, cases[c])
    <3>1. "inspecting" \in ReturnStatus
      BY DEF ReturnStatus
    <3> QED
      BY <2>1, <3>1, RowFacts, TransitionedFacts
  <2>4. b.req = cases[c].req /\ b.req \in Requests
    BY <2>1, <2>3, RowFacts DEF Amends
  <2>5. s \in {"refunded", "exchanged", "credited"}
    BY <2>4, WantsFacts
  <2>6. d \in Document /\ d.status = s /\ Amends(d, cases[c])
    BY <2>1, <2>5, InspectedFacts
  <2>7. Wants(d) = Wants(b)
    BY <2>4, <2>6 DEF Amends, Wants
  <2>8. CASE Wants(b) = "exchange" /\ Begin(w, "inspect", "replace", b)
    <3>1. op'[w] = "inspect" /\ pc'[w] = "replace" /\ doc'[w] = b
      BY <1>2, <1>3, <2>8
    <3> QED
      BY <2>1, <2>3, <2>8, <3>1 DEF Taken
  <2>9. CASE Wants(b) # "exchange" /\ Begin(w, "inspect", "enqueue", d)
    <3>1. op'[w] = "inspect" /\ pc'[w] = "enqueue" /\ doc'[w] = d
      BY <1>2, <1>3, <2>9
    <3> HIDE DEF b, s, d
    <3> QED
      BY <2>1, <2>6, <2>7, <2>9, <3>1 DEF Taken, s
  <2> QED
    BY <2>2, <2>8, <2>9
<1>10. ~StartFlush(w)
  BY <1>2, <1>3 DEF StartFlush, Holding
<1>11. ~ \E r \in Requests, k \in HeaderValues : StartCreate(w, r, k)
  BY <1>1 DEF StartCreate, Holding, LocalTypeOK
<1>12. ~StartSweep(w)
  BY <1>1 DEF StartSweep, Holding, LocalTypeOK
<1> QED
  BY <1>4, <1>5, <1>6, <1>7, <1>8, <1>9, <1>10, <1>11, <1>12 DEF Arrival, CreateReturn, CaseCall,
     CarrierWebhook, InternalCall

\* A handler that goes on and holds a case holds the one it had, or a new one.
LEMMA ProgressCarries ==
  ASSUME IInv, NEW w \in Workers, Progress(w), Holding(w)'
  PROVE  Expires(w) \/ Builds(w) \/ Carries(w)
<1>1. /\ LocalTypeOK /\ <<op[w], pc[w]>> \in CallsOf
      /\ op \in [Workers -> Ops] /\ pc \in [Workers -> Calls] /\ doc \in [Workers -> Document]
  BY DEF IInv, TypeOK, StepTypeOK, LocalTypeOK, FitOK
<1>2. ~Finish(w)
  BY <1>1 DEF Finish, Holding
<1>3. \A call, d : Goto(w, call, d) => op'[w] = op[w] /\ pc'[w] = call /\ doc'[w] = d
  BY <1>1 DEF Goto
<1>4. CASE (LookupKey(w) \/ ReadOrder(w)) /\ UNCHANGED moneyVars
  <2>1. pc[w] \in {"lookup", "order"} /\ op[w] = "create"
    BY <1>1, <1>4, CallerFacts DEF LookupKey, ReadOrder
  <2>2. op'[w] = op[w] /\ pc'[w] \in {"order", "check"}
    BY <1>1, <1>2, <1>3, <1>4 DEF LookupKey, ReadOrder
  <2> QED
    BY <2>1, <2>2 DEF Holding
<1>5. CASE CheckAndDecide(w) /\ UNCHANGED moneyVars
  <2>1. op[w] = "create" /\ TablesKept
    BY <1>1, <1>5, CallerFacts DEF CheckAndDecide, TablesKept, storeVars, moneyVars
  <2>2. PICK c \in Cases, s \in Decisions :
          Fresh(c) /\ Goto(w, IF s = "approved" THEN "label" ELSE "save",
                           Transitioned(NewCase(c, ask[w].req), s))
    BY <1>2, <1>5 DEF CheckAndDecide
  <2> QED
    BY <1>3, <2>1, <2>2 DEF Builds
<1>6. CASE SweepNext(w) /\ UNCHANGED moneyVars
  <2>1. TablesKept /\ pc[w] = "next"
    BY <1>6 DEF SweepNext, TablesKept, storeVars, moneyVars
  <2>2. PICK d \in rest[w] : /\ pc' = [pc EXCEPT ![w] = "save"]
                             /\ doc' = [doc EXCEPT ![w] = Transitioned(d, "expired")]
                             /\ UNCHANGED <<op, ask>>
    BY <1>2, <1>6 DEF SweepNext
  <2>3. op'[w] = op[w] /\ pc'[w] = "save" /\ doc'[w] = Transitioned(d, "expired")
    BY <1>1, <2>2
  <2> QED
    BY <2>1, <2>3 DEF Expires
<1>7. CASE IssueLabel(w) /\ UNCHANGED moneyVars
  <2>1. TablesKept /\ pc[w] = "label" /\ Holding(w)
    BY <1>7 DEF IssueLabel, TablesKept, storeVars, moneyVars, Holding
  <2>2. PICK t \in Labels : Goto(w, "save", Labelled(doc[w], t))
    BY <1>2, <1>7 DEF IssueLabel
  <2> QED
    BY <1>3, <2>1, <2>2 DEF Carries
<1>8. CASE RecordKey(w) /\ UNCHANGED moneyVars
  <2>1. pc[w] = "record" /\ Holding(w) /\ UNCHANGED <<cases, replaced, now>>
    BY <1>8 DEF RecordKey, moneyVars, Holding
  <2>2. Goto(w, "notify", doc[w])
    BY <1>2, <1>8 DEF RecordKey
  <2> QED
    BY <1>3, <2>1, <2>2 DEF Carries
<1>9. CASE SaveCase(w) /\ UNCHANGED moneyVars
  <2>1. pc[w] = "save" /\ SavedBy(w) /\ Holding(w) /\ UNCHANGED <<outbox, replaced, now>>
    BY <1>2, <1>9 DEF SaveCase, SavedBy, moneyVars, Holding
  <2>2. Goto(w, AfterSave(w), Bumped(doc[w])) /\ AfterSave(w) # "idle"
    BY <1>2, <1>9 DEF SaveCase
  <2>3. AfterSave(w) \in {"record", "list", "notify"}
    BY <2>2 DEF AfterSave
  <2> QED
    BY <1>3, <2>1, <2>2, <2>3 DEF Carries
<1>10. CASE Notify(w) /\ UNCHANGED moneyVars
  <2>1. pc[w] = "notify" /\ Holding(w) /\ TablesKept
    BY <1>10 DEF Notify, storeVars, moneyVars, TablesKept, Holding
  <2>2. Goto(w, "note", AddEvent(doc[w], "customer_notified", now)) \/ AfterNotice(w)
    BY <1>10 DEF Notify
  <2>3. ~AfterNotice(w)
    BY <1>2, <1>3 DEF AfterNotice, Holding
  <2> QED
    BY <1>3, <2>1, <2>2, <2>3 DEF Carries
<1>11. CASE NoteNotice(w) /\ UNCHANGED moneyVars
  BY <1>2, <1>3, <1>11 DEF NoteNotice, AfterNotice, Holding
<1>12. CASE CreateReplacement(w)
  <2>1. pc[w] = "replace" /\ Holding(w) /\ UNCHANGED <<cases, outbox, now>>
    BY <1>12 DEF CreateReplacement, storeVars, Holding
  <2>2. /\ replaced' = [replaced EXCEPT ![doc[w].id] = @ + 1]
        /\ Goto(w, "save", Settled([doc[w] EXCEPT !.replacement = replaced'[doc[w].id]]))
    BY <1>2, <1>12 DEF CreateReplacement
  <2> QED
    BY <1>3, <2>1, <2>2 DEF Carries
<1>13. CASE EnqueuePayment(w)
  <2>1. pc[w] = "enqueue" /\ Holding(w) /\ UNCHANGED <<cases, replaced, now>>
    BY <1>13 DEF EnqueuePayment, moneyVars, Holding
  <2>2. OutboxEnqueue(doc[w].id, PaymentKind(doc[w])) /\ Goto(w, "save", doc[w])
    BY <1>13 DEF EnqueuePayment
  <2> QED
    BY <1>3, <2>1, <2>2 DEF Carries
<1>14. CASE ListPending(w) \/ Pay(w) \/ MarkExecuted(w) \/ MarkPending(w) \/ EndFlush(w)
  <2>1. UNCHANGED <<cases, replaced, now>>
        /\ pc[w] \in {"list", "pay", "mark_executed", "mark_pending"}
    BY <1>14 DEF ListPending, Pay, PayEntry, MarkExecuted, MarkPending, MarkAs, EndFlush,
       storeVars, moneyVars
  <2>2. \E call \in {"notify", "pay", "mark_executed", "mark_pending"} : Goto(w, call, doc[w])
    BY <1>2, <1>14 DEF ListPending, Pay, PayEntry, MarkExecuted, MarkPending, MarkAs, EndFlush
  <2>3. op'[w] = op[w] /\ pc'[w] \in {"notify", "pay", "mark_executed", "mark_pending"}
        /\ doc'[w] = doc[w]
    BY <1>3, <2>2
  <2>4. Holding(w)
    <3>1. CASE op[w] = "inspect"
      BY <3>1 DEF Holding
    <3>2. CASE op[w] # "inspect"
      <4>1. pc'[w] = "notify"
        BY <2>3, <3>2 DEF Holding
      <4>2. EndFlush(w)
        BY <1>3, <1>14, <4>1 DEF ListPending, Pay, PayEntry, MarkExecuted, MarkPending, MarkAs
      <4> QED
        BY <1>2, <3>2, <4>2 DEF EndFlush
    <3> QED
      BY <3>1, <3>2
  <2> QED
    BY <2>1, <2>3, <2>4 DEF Carries
<1> QED
  BY <1>4, <1>5, <1>6, <1>7, <1>8, <1>9, <1>10, <1>11, <1>12, <1>13, <1>14 DEF Progress

\* So, whatever step is taken, a case that is held was held before, read from its
\* row, listed by the sweep, or has just been built.
LEMMA HeldCasesComeFrom ==
  ASSUME IInv, [Next]_vars, NEW v \in Workers, Holding(v)'
  PROVE  Idles(v) \/ Taken(v) \/ Expires(v) \/ Builds(v) \/ Carries(v)
<1>1. CASE \E w \in Workers : Arrival(w) \/ Progress(w)
  BY <1>1, OneThread, ArrivalTakes, ProgressCarries
<1>2. CASE Register \/ Tick \/ UNCHANGED vars
  BY <1>2 DEF Register, RegisterOrder, Tick, vars, workerVars, Idles
<1>3. CASE Crash
  BY <1>3 DEF Crash, Holding
<1> QED
  BY <1>1, <1>2, <1>3 DEF Next

-----------------------------------------------------------------------------
(* Keys.                                                                   *)

\* Only recording a key changes the table of keys.
LEMMA OnlyKeys ==
  ASSUME [Next]_vars
  PROVE  keys' = keys \/ \E w \in Workers : RecordKey(w)
<1>1. ASSUME NEW w \in Workers, Arrival(w)
      PROVE  keys' = keys
  BY <1>1 DEF Arrival, CreateReturn, CaseCall,
     CarrierWebhook, InternalCall, StartCreate, StartReview, StartCancel, StartCarrierMove,
     StartCarrierNote, StartSweep, StartFailedInspection, StartPassedInspection,
     StartFlush, storeVars
<1>2. ASSUME NEW w \in Workers, Progress(w)
      PROVE  keys' = keys \/ RecordKey(w)
  BY <1>2 DEF Progress, LookupKey, ReadOrder, CheckAndDecide, SweepNext, IssueLabel,
     SaveCase, Notify, NoteNotice, CreateReplacement, EnqueuePayment, ListPending, Pay,
     PayEntry, MarkExecuted, MarkPending, MarkAs, EndFlush, storeVars
<1>3. Register \/ Tick \/ Crash \/ UNCHANGED vars => keys' = keys
  BY DEF Register, RegisterOrder, Tick, Crash, vars, storeVars
<1> QED
  BY <1>1, <1>2, <1>3 DEF Next

\* A row stays, and its version never falls; the row a save writes is one.
LEMMA RowsStay ==
  ASSUME IInv, [Next]_vars, NEW c \in Cases
  PROVE  /\ Exists(c) => Exists(c)'
         /\ cases[c].version \in Nat /\ cases'[c].version \in Nat
         /\ cases'[c].version >= cases[c].version
         /\ cases'[c].version = cases[c].version => cases'[c] = cases[c]
<1>1. cases[c].version \in Nat
  BY DEF IInv, TypeOK, StoreTypeOK, Document
<1>2. CASE cases'[c] = cases[c]
  BY <1>1, <1>2 DEF Exists
<1>3. CASE cases'[c] # cases[c]
  <2>1. PICK w \in Workers : SavedBy(w)
    BY <1>3, OnlySaves
  <2>2. c = doc[w].id
    BY <1>3, <2>1, SaveLeavesOthers
  <2>3. doc[w] \in Document /\ doc[w].version = cases[c].version
    BY <2>1, <2>2, SaverFacts DEF SavedBy
  <2>4. cases'[c].version = doc[w].version + 1
    BY <2>1, <2>2, <2>3, PutKeepsRows, BumpedFacts DEF SavedBy
  <2> QED
    BY <1>1, <2>3, <2>4 DEF Exists
<1> QED
  BY <1>2, <1>3

\* A thread that is about to record a key holds a case that is in the table.
LEMMA RecordedExists ==
  ASSUME IInv, NEW w \in Workers, pc[w] = "record"
  PROVE  doc[w].id \in Cases /\ Exists(doc[w].id)
<1>1. Holding(w) /\ ~Inserting(w)
  BY DEF Holding, Inserting
<1>2. doc[w] \in Document /\ doc[w].id \in Cases /\ cases[doc[w].id] \in Document
  BY <1>1, HeldFacts
<1>3. doc[w].version \in 1..cases[doc[w].id].version
  BY <1>1 DEF IInv, FollowOK
<1> QED
  BY <1>2, <1>3 DEF Exists, Document

\* Every step leaves recorded keys to their cases, which stay in the table.
LEMMA KeyInvKeeps ==
  ASSUME KeyInv, [Next]_vars
  PROVE  KeyInv' /\ \A k \in Keys : keys[k] # None => keys'[k] = keys[k]
<1>1. IInv /\ IInv' /\ keys \in [Keys -> Cases \cup {None}]
  BY NextKeeps DEF KeyInv, IInv, TypeOK, StoreTypeOK
<1>2. \A c \in Cases : Exists(c) => Exists(c)'
  BY <1>1, RowsStay
<1>3. CASE keys' = keys
  BY <1>1, <1>2, <1>3 DEF KeyInv
<1>4. ASSUME NEW w \in Workers, RecordKey(w)
      PROVE  KeyInv' /\ \A k \in Keys : keys[k] # None => keys'[k] = keys[k]
  <2> DEFINE i == doc[w].id
  <2>1. i \in Cases /\ Exists(i)
    BY <1>1, <1>4, RecordedExists DEF RecordKey
  <2>2. \A k \in Keys : /\ keys[k] # None => keys'[k] = keys[k]
                        /\ keys'[k] = keys[k] \/ keys'[k] = i
    BY <1>1, <1>4 DEF RecordKey, RecordedKey
  <2> QED
    BY <1>1, <1>2, <2>1, <2>2 DEF KeyInv
<1> QED
  BY <1>3, <1>4, OnlyKeys

\* A key that is recorded keeps its case, and the case is in the table: a replay
\* always returns what the first recorded request created.
THEOREM KeysKeepTheirCase == Spec => KeysArePermanent
<1>1. Init => KeyInv
  BY InitKeeps DEF Init, StoreInit, KeyInv
<1>2. KeyInv /\ [Next]_vars => KeyInv'
  BY KeyInvKeeps
<1>3. KeyInv /\ [Next]_vars
        => [\A k \in Keys : keys[k] # None => keys'[k] = keys[k] /\ Exists(keys[k])]_vars
  BY KeyInvKeeps DEF KeyInv
<1> QED
  BY <1>1, <1>2, <1>3, PTL DEF Spec, KeysArePermanent

-----------------------------------------------------------------------------
(* Expiry.                                                                 *)

\* Time does not run backwards.
LEMMA TimeGoesOn ==
  ASSUME IInv, [Next]_vars
  PROVE  now \in Nat /\ now' \in Nat /\ now <= now'
<1>1. now \in Nat
  BY MaxNowAssumption DEF IInv, TypeOK, StepTypeOK
<1>2. ASSUME NEW w \in Workers, Arrival(w)
      PROVE  now' = now
  BY <1>2 DEF Arrival, CreateReturn, CaseCall,
     CarrierWebhook, InternalCall, StartCreate, StartReview, StartCancel, StartCarrierMove,
     StartCarrierNote, StartSweep, StartFailedInspection, StartPassedInspection, StartFlush
<1>3. ASSUME NEW w \in Workers, Progress(w)
      PROVE  now' = now
  BY <1>3 DEF Progress, LookupKey, ReadOrder, CheckAndDecide, RecordKey, SweepNext, IssueLabel,
     SaveCase, Notify, NoteNotice, CreateReplacement, EnqueuePayment, ListPending, Pay,
     PayEntry, MarkExecuted, MarkPending, MarkAs, EndFlush
<1>4. Tick => now' = now + 1
  BY DEF Tick
<1>5. Register \/ Crash \/ UNCHANGED vars => now' = now
  BY DEF Register, RegisterOrder, Crash, vars
<1> QED
  BY <1>1, <1>2, <1>3, <1>4, <1>5 DEF Next

\* What is stale stays so.
LEMMA StaysStale ==
  ASSUME IInv, [Next]_vars, NEW d \in Document, d.events # <<>>, Stale(d)
  PROVE  Stale(d)'
<1>1. UpdatedAt(d) \in Nat
  <2>1. d.events \in Seq(Event) /\ Len(d.events) \in 1..Len(d.events)
    BY DEF Document
  <2>2. d.events[Len(d.events)] \in Event
    BY <2>1
  <2> QED
    BY <2>2 DEF UpdatedAt, Event
<1>2. UpdatedAt(d) + LabelExpiry <= now
  BY DEF Stale
<1> HIDE DEF UpdatedAt
<1> SUFFICES UpdatedAt(d) + LabelExpiry <= now'
  BY DEF Stale
<1> QED
  BY <1>1, <1>2, TimeGoesOn, LabelExpiryAssumption

\* What goes on from a trail is no shorter.
LEMMA PrefixNotEmpty ==
  ASSUME NEW S, NEW s \in Seq(S), NEW t \in Seq(S), IsPrefix(s, t), s # <<>>
  PROVE  t # <<>>
BY DEF IsPrefix

\* How the case a handler goes on with differs from the one it held.
LEMMA CarriedFacts ==
  ASSUME IInv, NEW w \in Workers, Carries(w)
  PROVE  /\ doc[w] \in Document /\ doc'[w] \in Document
         /\ doc[w].id \in Cases /\ doc'[w].id = doc[w].id
         /\ doc[w].req \in Requests /\ doc'[w].req = doc[w].req
         /\ IsPrefix(doc[w].events, doc'[w].events)
         /\ IF pc[w] = "label" THEN doc'[w].status = "label_issued"
            ELSE IF pc[w] = "replace" THEN doc'[w].status = ResolutionToStatus[Wants(doc[w])]
            ELSE doc'[w].status = doc[w].status
         /\ IF pc[w] = "replace" THEN doc'[w].replacement = replaced'[doc[w].id]
            ELSE doc'[w].replacement = doc[w].replacement
         /\ IF pc[w] = "save" THEN SavedBy(w) /\ doc'[w] = Bumped(doc[w])
            ELSE cases' = cases /\ doc'[w].version = doc[w].version
<1>1. /\ doc[w] \in Document /\ doc[w].id \in Cases /\ doc[w].req \in Requests
      /\ now \in Nat /\ SettlementTypeOK
  BY HeldFacts DEF Carries, TypeOK
<1>2. IsPrefix(doc[w].events, doc[w].events)
  BY <1>1, PrefixReflexive DEF Document
<1>3. CASE pc[w] = "label"
  <2>1. PICK t \in Labels : doc'[w] = Labelled(doc[w], t)
    BY <1>3 DEF Carries, SavedBy
  <2> DEFINE b == [doc[w] EXCEPT !.label = t]
  <2>2. /\ b \in Document /\ b.id = doc[w].id /\ b.req = doc[w].req
        /\ b.replacement = doc[w].replacement /\ b.events = doc[w].events
        /\ b.version = doc[w].version
    BY <1>1 DEF Document
  <2>3. "label_issued" \in ReturnStatus /\ doc'[w] = Transitioned(b, "label_issued")
    BY <2>1 DEF Labelled, ReturnStatus
  <2> HIDE DEF b
  <2>4. /\ doc'[w] \in Document /\ doc'[w].status = "label_issued"
        /\ Amends(doc'[w], b)
    BY <1>1, <2>2, <2>3, TransitionedFacts
  <2>5. cases' = cases
    BY <1>3 DEF Carries, TablesKept
  <2> QED
    BY <1>1, <1>3, <2>2, <2>4, <2>5 DEF Amends
<1>4. CASE pc[w] = "replace"
  <2> DEFINE n == replaced'[doc[w].id]
             b == [doc[w] EXCEPT !.replacement = n]
             s == ResolutionToStatus[Wants(b)]
  <2>1. /\ replaced' = [replaced EXCEPT ![doc[w].id] = @ + 1]
        /\ doc'[w] = Transitioned(b, s) /\ cases' = cases
    BY <1>4 DEF Carries, Settled
  <2>2. n \in Nat
    BY <1>1, <2>1 DEF SettlementTypeOK
  <2> HIDE DEF n
  <2>3. /\ b \in Document /\ b.id = doc[w].id /\ b.req = doc[w].req
        /\ b.replacement = n /\ b.events = doc[w].events
        /\ b.version = doc[w].version
    BY <1>1, <2>2 DEF Document
  <2>4. s = ResolutionToStatus[Wants(doc[w])] /\ s \in ReturnStatus
    BY <1>1, <2>3, WantsFacts DEF Wants, ReturnStatus
  <2> HIDE DEF b, s
  <2>5. doc'[w] \in Document /\ doc'[w].status = s /\ Amends(doc'[w], b)
    BY <1>1, <2>1, <2>3, <2>4, TransitionedFacts
  <2> QED
    BY <1>1, <1>4, <2>1, <2>3, <2>4, <2>5 DEF Amends, n
<1>5. CASE pc[w] = "save"
  <2>1. SavedBy(w) /\ doc'[w] = Bumped(doc[w])
    BY <1>5 DEF Carries
  <2> QED
    BY <1>1, <1>2, <1>5, <2>1, BumpedFacts
<1>6. CASE pc[w] \notin {"label", "replace", "save"}
  <2>1. cases' = cases
    BY <1>6 DEF Carries, TablesKept
  <2>2. CASE doc'[w] = doc[w]
    BY <1>1, <1>2, <1>6, <2>1, <2>2
  <2>3. CASE doc'[w] = AddEvent(doc[w], "customer_notified", now)
    <3>1. "customer_notified" \in EventName
      BY DEF EventName
    <3>2. /\ doc'[w] \in Document /\ doc'[w].status = doc[w].status
          /\ Amends(doc'[w], doc[w])
      BY <1>1, <2>3, <3>1, AddEventFacts
    <3> QED
      BY <1>1, <1>6, <2>1, <3>2 DEF Amends
  <2> QED
    BY <1>6, <2>2, <2>3 DEF Carries
<1> QED
  BY <1>3, <1>4, <1>5, <1>6

\* What the case a sweep goes on to, and the one create_return builds, are.
LEMMA ExpiredFacts ==
  ASSUME IInv, NEW w \in Workers, NEW d \in rest[w]
  PROVE  LET e == Transitioned(d, "expired") IN
           /\ d \in Document /\ e \in Document /\ e.status = "expired"
           /\ Amends(e, d)
<1>1. d \in Document /\ now \in Nat /\ "expired" \in ReturnStatus
  BY MaxNowAssumption DEF IInv, TypeOK, StepTypeOK, LocalTypeOK, ReturnStatus
<1> QED
  BY <1>1, TransitionedFacts

\* What the case create_return builds is.
LEMMA BuiltFacts ==
  ASSUME IInv, NEW w \in Workers, Builds(w)
  PROVE  /\ doc'[w] \in Document /\ doc'[w].status \in Decisions
         /\ doc'[w].id \in Cases /\ doc'[w].version = 0 /\ doc'[w].replacement = 0
         /\ doc'[w].events # <<>>
         /\ ~Exists(doc'[w].id)
<1>1. PICK c \in Cases, s \in Decisions :
        Fresh(c) /\ doc'[w] = Transitioned(NewCase(c, ask[w].req), s)
  BY DEF Builds
<1> DEFINE r == ask[w].req
           a == [NoDocument EXCEPT !.id = c, !.req = r, !.status = "requested"]
           b == NewCase(c, r)
<1>2. ask[w].req \in Requests \cup {None} /\ now \in Nat
  BY MaxNowAssumption DEF IInv, TypeOK, StepTypeOK, LocalTypeOK, Ask
<1>3. /\ a \in Document /\ a.id = c /\ a.version = 0 /\ a.replacement = 0
      /\ a.events \in Seq(Event)
  <2>1. "requested" \in ReturnStatus
    BY DEF ReturnStatus
  <2>2. NoDocument \in Document
    BY NoDocumentFacts
  <2> QED
    BY <1>2, <2>1, <2>2 DEF Document, NoDocument
<1>4. "return_requested" \in EventName /\ s \in ReturnStatus
  BY DEF EventName, Decisions, ReturnStatus
<1>5. b = AddEvent(a, "return_requested", now)
  BY DEF NewCase
<1> HIDE DEF a
<1>6. b \in Document /\ Amends(b, a)
  BY <1>2, <1>3, <1>4, <1>5, AddEventFacts
<1>7. b.events # <<>>
  <2>1. b.events = Append(a.events, [event |-> "return_requested", at |-> now])
    BY <1>3, <1>5 DEF AddEvent, Document
  <2> QED
    BY <1>3, <2>1
<1> HIDE DEF b
<1>8. doc'[w] \in Document /\ doc'[w].status = s /\ Amends(doc'[w], b)
  BY <1>1, <1>2, <1>4, <1>6, TransitionedFacts DEF b
<1>9. doc'[w].events # <<>>
  BY <1>6, <1>7, <1>8, PrefixNotEmpty DEF Amends, Document
<1> QED
  BY <1>1, <1>3, <1>6, <1>8, <1>9 DEF Amends, Fresh

\* What a sweep has still to visit it had before, or has just listed.
LEMMA RestsComeFrom ==
  ASSUME IInv, [Next]_vars, NEW v \in Workers, NEW d \in rest'[v]
  PROVE  \/ d \in rest[v]
         \/ Stale(d) /\ \E c \in Cases : Exists(c) /\ d = cases[c]
<1>1. rest \in [Workers -> SUBSET Document]
  BY DEF IInv, TypeOK, StepTypeOK, LocalTypeOK
<1> SUFFICES ASSUME d \notin rest[v]
             PROVE  Stale(d) /\ \E c \in Cases : Exists(c) /\ d = cases[c]
  OBVIOUS
<1>2. rest' # rest
  OBVIOUS
<1>3. ASSUME NEW w \in Workers, Finish(w)
      PROVE  FALSE
  BY <1>1, <1>3 DEF Finish
<1>4. ASSUME NEW w \in Workers, Arrival(w)
      PROVE  Stale(d) /\ \E c \in Cases : Exists(c) /\ d = cases[c]
  <2>1. StartSweep(w)
    BY <1>2, <1>4 DEF Arrival, CreateReturn, CaseCall,
     CarrierWebhook, InternalCall, StartCreate, StartReview, StartCancel, StartCarrierMove,
       StartCarrierNote, StartFailedInspection, StartPassedInspection, StartFlush, Begin
  <2>2. d \in {x \in ListByStatus("label_issued") : Stale(x)}
    BY <1>1, <2>1 DEF StartSweep
  <2> QED
    BY <2>2 DEF ListByStatus
<1>5. ASSUME NEW w \in Workers, Progress(w)
      PROVE  FALSE
  <2>1. CASE SweepNext(w)
    BY <1>1, <1>3, <2>1 DEF SweepNext
  <2>2. CASE ~SweepNext(w)
    BY <1>2, <1>3, <1>5, <2>2 DEF Progress, LookupKey, ReadOrder, CheckAndDecide, RecordKey,
       IssueLabel, SaveCase, Notify, NoteNotice, AfterNotice, CreateReplacement,
       EnqueuePayment, ListPending, Pay, PayEntry, MarkExecuted, MarkPending, MarkAs,
       EndFlush, Goto
  <2> QED
    BY <2>1, <2>2
<1>6. Register \/ Tick \/ UNCHANGED vars => rest' = rest
  BY DEF Register, RegisterOrder, Tick, vars, workerVars
<1>7. ~Crash
  BY DEF Crash
<1> QED
  BY <1>2, <1>4, <1>5, <1>6, <1>7 DEF Next

\* No trail becomes empty.
LEMMA TrailsAreKept ==
  ASSUME ExpiryInv, [Next]_vars
  PROVE  /\ \A c \in Cases : Exists(c)' => cases'[c].events # <<>>
         /\ \A v \in Workers : Holding(v)' => doc'[v].events # <<>>
<1>1. IInv /\ IInv'
  BY NextKeeps DEF ExpiryInv
<1>2. ASSUME NEW c \in Cases, Exists(c)'
      PROVE  cases'[c].events # <<>>
  <2>1. CASE cases'[c] = cases[c]
    BY <1>2, <2>1 DEF ExpiryInv, Exists
  <2>2. CASE cases'[c] # cases[c]
    <3>1. PICK w \in Workers : SavedBy(w)
      BY <2>2, OnlySaves
    <3>2. c = doc[w].id
      BY <1>1, <2>2, <3>1, SaveLeavesOthers
    <3>3. doc[w] \in Document /\ Holding(w) /\ cases'[c] = Bumped(doc[w])
      BY <1>1, <3>1, <3>2, SaverFacts, PutKeepsRows DEF SavedBy, Holding
    <3>4. cases'[c].events = doc[w].events
      BY <3>3, BumpedFacts
    <3> QED
      BY <3>3, <3>4 DEF ExpiryInv, ExpiryOK
  <2> QED
    BY <2>1, <2>2
<1>3. ASSUME NEW v \in Workers, Holding(v)'
      PROVE  doc'[v].events # <<>>
  <2>1. CASE Idles(v)
    BY <1>3, <2>1 DEF ExpiryInv, ExpiryOK, Idles, Holding
  <2>2. CASE Taken(v)
    <3>1. PICK c \in Cases : Exists(c) /\ doc'[v] \in Document /\ Amends(doc'[v], cases[c])
      BY <2>2 DEF Taken
    <3>2. cases[c] \in Document /\ cases[c].events # <<>>
      BY <1>1, <3>1, RowFacts DEF ExpiryInv
    <3> QED
      BY <3>1, <3>2, PrefixNotEmpty DEF Amends, Document
  <2>3. CASE Expires(v)
    <3>1. PICK d \in rest[v] : doc'[v] = Transitioned(d, "expired")
      BY <2>3 DEF Expires
    <3>2. d.events # <<>>
      BY DEF ExpiryInv, ExpiryOK
    <3>3. d \in Document /\ doc'[v] \in Document /\ Amends(doc'[v], d)
      BY <1>1, <3>1, ExpiredFacts
    <3> QED
      BY <3>2, <3>3, PrefixNotEmpty DEF Amends, Document
  <2>4. CASE Builds(v)
    BY <1>1, <2>4, BuiltFacts
  <2>5. CASE Carries(v)
    <3>1. doc[v].events # <<>>
      BY <2>5 DEF ExpiryInv, ExpiryOK, Carries
    <3> QED
      BY <1>1, <2>5, <3>1, CarriedFacts, PrefixNotEmpty DEF Document
  <2> QED
    BY <1>1, <1>3, <2>1, <2>2, <2>3, <2>4, <2>5, HeldCasesComeFrom
<1> QED
  BY <1>2, <1>3

\* A copy that would expire its row is one of a row that was stale.
LEMMA ExpiriesKeep ==
  ASSUME ExpiryInv, [Next]_vars, NEW v \in Workers,
         pc'[v] \in {"save", "enqueue"}, doc'[v].status = "expired",
         doc'[v].version = cases'[doc'[v].id].version,
         cases'[doc'[v].id].status = "label_issued"
  PROVE  Stale(cases[doc[v].id])'
<1> DEFINE i == doc'[v].id
<1>1. IInv /\ ExpiryOK(v)
  BY DEF ExpiryInv
<1>2. \A c \in Cases : cases[c] \in Document /\ (Exists(c) => cases[c].events # <<>>)
  BY DEF ExpiryInv, IInv, TypeOK, StoreTypeOK
<1>3. ASSUME i \in Cases, cases'[i] = cases[i], Exists(i), Stale(cases[i])
      PROVE  Stale(cases[doc[v].id])'
  <2>1. Stale(cases[i]) /\ cases[i] \in Document /\ cases[i].events # <<>>
    BY <1>2, <1>3
  <2>2. \A d \in Document : d.events # <<>> /\ Stale(d) => UpdatedAt(d) + LabelExpiry <= now'
    BY <1>1, StaysStale DEF Stale
  <2>3. UpdatedAt(cases[i]) + LabelExpiry <= now'
    BY <2>1, <2>2
  <2> QED
    BY <1>3, <2>3 DEF Stale
<1>4. CASE Idles(v)
  <2>1. pc[v] \in {"save", "enqueue"} /\ doc[v].status = "expired" /\ doc[v] = doc'[v]
    BY <1>4 DEF Idles
  <2>2. Holding(v) /\ ~Inserting(v)
    <3>1. Holding(v)
      BY <2>1 DEF Holding
    <3>2. CASE Inserting(v)
      BY <1>1, <2>1, <3>2 DEF IInv, InsertOK, FirstStatuses
    <3> QED
      BY <3>1, <3>2
  <2>3. i \in Cases /\ doc[v].version \in 1..cases[i].version
    BY <1>1, <2>1, <2>2, HeldFacts DEF IInv, FollowOK
  <2>4. /\ cases[i].version \in Nat /\ cases'[i].version \in Nat
        /\ cases'[i].version >= cases[i].version
        /\ cases'[i].version = cases[i].version => cases'[i] = cases[i]
    BY <1>1, <2>3, RowsStay
  <2>5. cases'[i] = cases[i] /\ Exists(i)
    BY <2>1, <2>3, <2>4 DEF Exists
  <2>6. Stale(cases[i])
    BY <1>1, <2>1, <2>5 DEF ExpiryOK
  <2> QED
    BY <1>3, <2>3, <2>5, <2>6
<1>5. CASE Taken(v)
  <2>1. PICK c \in Cases : /\ Exists(c) /\ Amends(doc'[v], cases[c]) /\ cases' = cases
                           /\ \/ doc'[v].status = cases[c].status
                              \/ /\ pc'[v] = "enqueue"
                                 /\ doc'[v].status = ResolutionToStatus[Wants(doc'[v])]
    BY <1>5 DEF Taken, TablesKept
  <2>2. cases[c].id = c /\ cases[c].req \in Requests
    BY <1>1, <2>1, RowFacts
  <2>3. i = c /\ doc'[v].req \in Requests
    BY <2>1, <2>2 DEF Amends
  <2>4. ResolutionToStatus[Wants(doc'[v])] # "expired"
    BY <2>3, WantsFacts
  <2> QED
    BY <2>1, <2>3, <2>4
<1>6. CASE Expires(v)
  <2>1. PICK d \in rest[v] : doc'[v] = Transitioned(d, "expired") /\ cases' = cases
    BY <1>6 DEF Expires, TablesKept
  <2>2. Stale(d) /\ i = d.id /\ doc'[v].version = d.version
    BY <1>1, <2>1, ExpiredFacts DEF ExpiryOK, Amends
  <2>3. d.id \in Cases /\ d.version \in 1..cases[d.id].version
        /\ (d.version = cases[d.id].version => d = cases[d.id])
    BY <1>1 DEF IInv, RestOK
  <2>4. cases[i] = d /\ Exists(i)
    BY <1>2, <2>1, <2>2, <2>3 DEF Exists, Document
  <2> QED
    BY <1>3, <2>1, <2>2, <2>3, <2>4
<1>7. CASE Builds(v)
  BY <1>1, <1>7, BuiltFacts DEF Decisions
<1>8. CASE Carries(v)
  <2>1. pc[v] \in {"label", "replace", "enqueue"}
    BY <1>8 DEF Carries
  <2>2. doc[v].req \in Requests /\ ResolutionToStatus[Wants(doc[v])] # "expired"
    BY <1>1, <1>8, CarriedFacts, WantsFacts
  <2>3. pc[v] = "enqueue" /\ doc'[v] = doc[v] /\ cases' = cases
    BY <1>1, <1>8, <2>1, <2>2, CarriedFacts DEF Carries, SavedBy
  <2>4. Stale(cases[i]) /\ i \in Cases
    BY <1>1, <1>8, <2>3, CarriedFacts DEF ExpiryOK
  <2>5. Exists(i)
    <3>1. Holding(v) /\ ~Inserting(v)
      BY <2>3 DEF Holding, Inserting
    <3>2. doc[v].version \in 1..cases[i].version
      BY <1>1, <2>3, <3>1 DEF IInv, FollowOK
    <3> QED
      BY <1>2, <2>4, <3>2 DEF Exists, Document
  <2> QED
    BY <1>3, <2>3, <2>4, <2>5
<1>9. Holding(v)'
  BY DEF Holding
<1> QED
  BY <1>1, <1>4, <1>5, <1>6, <1>7, <1>8, <1>9, HeldCasesComeFrom

\* Every step leaves the rows that copies would expire stale.
LEMMA ExpiryInvKeeps ==
  ASSUME ExpiryInv, [Next]_vars
  PROVE  ExpiryInv'
<1>1. IInv /\ IInv'
  BY NextKeeps DEF ExpiryInv
<1>2. ASSUME NEW v \in Workers, NEW d \in rest'[v]
      PROVE  d.events # <<>> /\ Stale(d)'
  <2>1. d \in Document
    BY <1>1 DEF IInv, TypeOK, StepTypeOK, LocalTypeOK
  <2>2. d.events # <<>> /\ Stale(d)
    BY <1>1, RestsComeFrom DEF ExpiryInv, ExpiryOK
  <2> QED
    BY <1>1, <2>1, <2>2, StaysStale
<1>3. ASSUME NEW v \in Workers
      PROVE  ExpiryOK(v)'
  <2>1. \A d \in rest'[v] : d.events # <<>> /\ Stale(d)'
    BY <1>2
  <2>2. Holding(v)' => doc'[v].events # <<>>
    BY TrailsAreKept
  <2>3. /\ pc'[v] \in {"save", "enqueue"} /\ doc'[v].status = "expired"
        /\ doc'[v].version = cases'[doc'[v].id].version
        /\ cases'[doc'[v].id].status = "label_issued"
        => Stale(cases[doc[v].id])'
    BY ExpiriesKeep
  <2> QED
    BY <2>1, <2>2, <2>3 DEF ExpiryOK
<1> QED
  BY <1>1, <1>3, TrailsAreKept DEF ExpiryInv

\* A label expires only if its case has been left alone for the whole limit at the
\* moment the expiry is recorded, however events race with the sweep.
THEOREM OnlyUnusedLabelsExpire == Spec => ExpiresOnlyUnused
<1>1. Init => ExpiryInv
  <2>1. Init => IInv
    BY InitKeeps
  <2>2. ASSUME Init
        PROVE  /\ \A c \in Cases : ~Exists(c)
               /\ \A w \in Workers : rest[w] = {} /\ ~Holding(w) /\ pc[w] = "idle"
    BY <2>2 DEF Init, StoreInit, StepInit, NobodyAtWork, Exists, Holding, NoDocument
  <2> QED
    BY <2>1, <2>2 DEF ExpiryInv, ExpiryOK
<1>2. ExpiryInv /\ [Next]_vars => ExpiryInv'
  BY ExpiryInvKeeps
<1>3. ASSUME ExpiryInv, [Next]_vars, NEW c \in Cases,
             cases[c].status = "label_issued", cases'[c].status = "expired"
      PROVE  Stale(cases[c])
  <2>1. PICK w \in Workers : SavedBy(w)
    BY <1>3, OnlySaves
  <2>2. IInv /\ ExpiryOK(w)
    BY <1>3 DEF ExpiryInv
  <2>3. c = doc[w].id
    BY <1>3, <2>1, <2>2, SaveLeavesOthers
  <2>4. pc[w] = "save"
    BY <1>3, <2>1, <2>2, <2>3, SaveContinues DEF SavedBy
  <2>5. doc[w] \in Document /\ doc[w].version = cases[c].version
    BY <2>1, <2>2, <2>3, SaverFacts DEF SavedBy
  <2>6. doc[w].status = "expired"
    BY <1>3, <2>1, <2>2, <2>3, <2>5, PutKeepsRows, BumpedFacts DEF SavedBy
  <2> QED
    BY <1>3, <2>2, <2>3, <2>4, <2>5, <2>6 DEF ExpiryOK
<1>4. ExpiryInv /\ [Next]_vars
        => [\A c \in Cases : cases[c].status = "label_issued" /\ cases'[c].status = "expired"
                               => Stale(cases[c])]_vars
  BY <1>3
<1> QED
  BY <1>1, <1>2, <1>4, PTL DEF Spec, ExpiresOnlyUnused
=============================================================================

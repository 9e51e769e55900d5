---------------------------- MODULE ServiceProofs ----------------------------
(***************************************************************************)
(* The inductive invariant of the service, proved for any number of cases, *)
(* threads, orders and keys, any clock bound and any set of operations     *)
(* offered: what one thread's step leaves alone in the invariant of the    *)
(* others, then each handler's steps, then the theorems.                   *)
(***************************************************************************)
EXTENDS ServiceInvariant, DocumentProofs, TLAPS

-----------------------------------------------------------------------------
(* How one thread's step leaves the rest of the invariant alone.           *)

\* The types of everything threads share.
WorldTypeOK ==
  /\ StoreTypeOK
  /\ now \in 0..MaxNow
  /\ notices \subseteq (Cases \X ReturnStatus)
  /\ SettlementTypeOK
  /\ crashes \in 0..MaxCrashes

\* What IInv says of one thread.
WorkerOK(w) == FitOK(w) /\ HeldOK(w) /\ FollowOK(w) /\ InsertOK(w) /\ RestOK(w)

\* The step saves at most the case w holds, under a higher version.
SavesOnlyOf(w) ==
  \A c \in Cases :
    \/ cases'[c] = cases[c]
    \/ c = doc[w].id /\ cases'[c].version > cases[c].version

\* The case w holds after the step is none another thread is inserting.
KeepsApart(w) ==
  \/ doc'[w].id = doc[w].id
  \/ doc'[w].id = None
  \/ doc'[w].id \in Cases /\ Exists(doc'[w].id)
  \/ \A v \in Workers : doc[v].id # doc'[w].id

\* A step of w leaves rows alone, or gives them a higher version.
LEMMA VersionsGrow ==
  ASSUME IInv, NEW w \in Workers, SavesOnlyOf(w), cases' \in [Cases -> Document]
  PROVE  /\ \A c \in Cases : /\ cases[c].version \in Nat
                            /\ cases'[c].version \in Nat
                            /\ cases'[c].version >= cases[c].version
         /\ \A c \in Cases : cases'[c].version = cases[c].version => cases'[c] = cases[c]
<1>1. \A c \in Cases : /\ cases[c].version \in Nat
                        /\ cases'[c].version \in Nat
                        /\ cases'[c].version >= cases[c].version
  <2> SUFFICES ASSUME NEW c \in Cases
               PROVE  /\ cases[c].version \in Nat
                      /\ cases'[c].version \in Nat
                      /\ cases'[c].version >= cases[c].version
    OBVIOUS
  <2>1. cases[c] \in Document /\ cases'[c] \in Document
    BY DEF IInv, TypeOK, StoreTypeOK
  <2>2. cases[c].version \in Nat /\ cases'[c].version \in Nat
    BY <2>1 DEF Document
  <2>3. \/ cases'[c].version = cases[c].version
        \/ cases'[c].version > cases[c].version
    BY DEF SavesOnlyOf
  <2> QED
    BY <2>2, <2>3
<1>2. \A c \in Cases : cases'[c].version = cases[c].version => cases'[c] = cases[c]
  <2>1. ASSUME NEW c \in Cases PROVE cases[c].version \in Nat /\ cases'[c].version \in Nat
    BY <1>1
  <2> QED
    BY <2>1 DEF SavesOnlyOf
<1> QED
  BY <1>1, <1>2

\* The documents a sweep has yet to visit stay copies of their rows.
LEMMA RestKeeps ==
  ASSUME IInv, NEW w \in Workers, SavesOnlyOf(w), cases' \in [Cases -> Document],
         NEW v \in Workers, rest'[v] \subseteq rest[v]
  PROVE  RestOK(v)'
<1>0. /\ \A c \in Cases : /\ cases[c].version \in Nat
                            /\ cases'[c].version \in Nat
                            /\ cases'[c].version >= cases[c].version
      /\ \A c \in Cases : cases'[c].version = cases[c].version => cases'[c] = cases[c]
  BY VersionsGrow
<1>1. RestOK(v)
  BY DEF IInv
<1>2. \A d \in rest[v] : /\ d \in Document /\ d.id \in Cases
                          /\ d.version \in 1..cases[d.id].version
  BY <1>1 DEF RestOK, IInv, TypeOK, StepTypeOK, LocalTypeOK
<1>3. ASSUME NEW d \in rest[v]
      PROVE  /\ d.version \in 1..cases'[d.id].version
             /\ d.version = cases'[d.id].version
                  => /\ cases'[d.id] = cases[d.id]
                     /\ d.version = cases[d.id].version
  <2> DEFINE old == cases[d.id].version
             new == cases'[d.id].version
  <2>1. old \in Nat /\ new \in Nat /\ new >= old
    BY <1>0, <1>2
  <2>2. new = old => cases'[d.id] = cases[d.id]
    BY <1>0, <1>2
  <2>3. d.version \in 1..old
    BY <1>2
  <2>4. d.version \in 1..new
        /\ (d.version = new => d.version = old /\ new = old)
    <3> HIDE DEF old, new
    <3> QED
      BY <2>1, <2>3, VersionGap
  <2> QED
    BY <2>2, <2>4
<1> QED
  BY <1>1, <1>3 DEF RestOK

\* A thread that takes no part in a step keeps its part of the invariant.
LEMMA OthersKeep ==
  ASSUME IInv, NEW w \in Workers, NEW v \in Workers \ {w},
         OnlyLocalsOf(w), SavesOnlyOf(w), KeepsApart(w), cases' \in [Cases -> Document]
  PROVE  WorkerOK(v)'
<1>1. /\ op'[v] = op[v] /\ pc'[v] = pc[v] /\ doc'[v] = doc[v]
      /\ ask'[v] = ask[v] /\ rest'[v] = rest[v]
  BY DEF OnlyLocalsOf
<1>2. FitOK(v)' /\ HeldOK(v)'
  BY <1>1 DEF IInv, FitOK, HeldOK, Holding
<1>3. /\ \A c \in Cases : /\ cases[c].version \in Nat
                            /\ cases'[c].version \in Nat
                            /\ cases'[c].version >= cases[c].version
      /\ \A c \in Cases : cases'[c].version = cases[c].version => cases'[c] = cases[c]
  BY VersionsGrow
<1>4. FollowOK(v)'
  <2> SUFFICES ASSUME Holding(v), ~Inserting(v)
               PROVE  /\ doc[v].version \in 1..cases'[doc[v].id].version
                      /\ doc[v].version = cases'[doc[v].id].version
                           => Continues(pc[v], cases'[doc[v].id], doc[v])
    BY <1>1 DEF FollowOK, Holding, Inserting
  <2>1. doc[v].id \in Cases /\ doc[v].version \in 1..cases[doc[v].id].version
    BY DEF IInv, HeldOK, FollowOK
  <2>2. doc[v].version = cases[doc[v].id].version
          => Continues(pc[v], cases[doc[v].id], doc[v])
    BY DEF IInv, FollowOK
  <2> DEFINE old == cases[doc[v].id].version
             new == cases'[doc[v].id].version
  <2>4. old \in Nat /\ new \in Nat /\ new >= old
    BY <1>3, <2>1
  <2>5. new = old => cases'[doc[v].id] = cases[doc[v].id]
    BY <1>3, <2>1
  <2>6. doc[v].version \in 1..old
    BY <2>1
  <2>7. doc[v].version \in 1..new
        /\ (doc[v].version = new => doc[v].version = old /\ new = old)
    <3> HIDE DEF old, new
    <3> QED
      BY <2>4, <2>6, VersionGap
  <2>3. /\ doc[v].version \in 1..cases'[doc[v].id].version
        /\ doc[v].version = cases'[doc[v].id].version
             => /\ cases'[doc[v].id] = cases[doc[v].id]
                /\ doc[v].version = cases[doc[v].id].version
    BY <2>5, <2>7
  <2> QED
    BY <2>2, <2>3
<1>5. InsertOK(v)'
  <2> SUFFICES ASSUME Inserting(v)
               PROVE  /\ doc[v].version = 0
                      /\ ~(cases'[doc[v].id].version > 0)
                      /\ doc[v].status \in FirstStatuses \cup {"approved"}
                      /\ \A u \in Workers \ {v} : doc'[u].id # doc[v].id
    BY <1>1 DEF InsertOK, Inserting, Exists
  <2>1. /\ doc[v].version = 0 /\ ~(cases[doc[v].id].version > 0)
        /\ doc[v].status \in FirstStatuses \cup {"approved"}
        /\ \A u \in Workers \ {v} : doc[u].id # doc[v].id
    BY DEF IInv, InsertOK, Exists
  <2>2. doc[v].id \in Cases
    BY DEF IInv, HeldOK, Holding, Inserting
  <2>3. cases'[doc[v].id] = cases[doc[v].id]
    BY <2>1, <2>2 DEF SavesOnlyOf
  <2>4. doc'[w].id # doc[v].id
    BY <2>1, <2>2, NoneAssumption DEF KeepsApart, Exists
  <2> QED
    BY <2>1, <2>3, <2>4 DEF OnlyLocalsOf
<1>6. RestOK(v)'
  BY <1>1, RestKeeps
<1> QED
  BY <1>2, <1>4, <1>5, <1>6 DEF WorkerOK

\* So a step of w keeps the invariant if it keeps w's part of it.
LEMMA OwnPartSuffices ==
  ASSUME IInv, NEW w \in Workers, OnlyLocalsOf(w), SavesOnlyOf(w), KeepsApart(w),
         WorldTypeOK', LocalTypeOK', \A c \in Cases : RowOK(c)', WorkerOK(w)'
  PROVE  IInv'
<1>1. TypeOK'
  BY DEF WorldTypeOK, TypeOK, StepTypeOK
<1>2. \A v \in Workers : WorkerOK(v)'
  BY OthersKeep DEF WorldTypeOK, StoreTypeOK
<1> QED
  BY <1>1, <1>2 DEF IInv, WorkerOK

-----------------------------------------------------------------------------
(* Steps of which a thread's part of the invariant follows.               *)

\* An idle worker is in no one's way.
LEMMA IdlePart ==
  ASSUME NEW w \in Workers, op'[w] = "none", pc'[w] = "idle", rest'[w] = {}
  PROVE  WorkerOK(w)'
<1>1. <<"none", "idle">> \in CallsOf
  BY DEF CallsOf
<1>2. FitOK(w)'
  BY <1>1 DEF FitOK
<1>3. HeldOK(w)' /\ FollowOK(w)' /\ InsertOK(w)'
  BY DEF HeldOK, FollowOK, InsertOK, Holding, Inserting
<1>4. RestOK(w)'
  BY DEF RestOK
<1> QED
  BY <1>2, <1>3, <1>4 DEF WorkerOK

\* A step that saves nothing leaves the rows in order.
LEMMA RowsSame ==
  ASSUME IInv, cases' = cases
  PROVE  /\ \A c \in Cases : RowOK(c)'
         /\ \A w : SavesOnlyOf(w)
<1>1. \A c \in Cases : RowOK(c)'
  BY DEF IInv, RowOK, Exists
<1>2. \A w : SavesOnlyOf(w)
  BY DEF SavesOnlyOf
<1> QED
  BY <1>1, <1>2

\* A step that touches nothing shared keeps its types.
LEMMA WorldSame ==
  ASSUME TypeOK, UNCHANGED <<storeVars, now, notices, moneyVars, crashes>>
  PROVE  WorldTypeOK'
BY DEF TypeOK, StepTypeOK, WorldTypeOK, StoreTypeOK, SettlementTypeOK, storeVars, moneyVars

\* A handler may end at any moment.
LEMMA FinishKeeps ==
  ASSUME IInv, NEW w \in Workers, Finish(w), SavesOnlyOf(w), WorldTypeOK',
         \A c \in Cases : RowOK(c)'
  PROVE  IInv'
<1>1. LocalTypeOK
  BY DEF IInv, TypeOK, StepTypeOK
<1>2. /\ LocalTypeOK' /\ OnlyLocalsOf(w)
      /\ op'[w] = "none" /\ pc'[w] = "idle" /\ doc'[w] = NoDocument
      /\ rest'[w] = {}
  BY <1>1, FinishFacts
<1>3. KeepsApart(w)
  BY <1>2 DEF KeepsApart, NoDocument
<1>4. WorkerOK(w)'
  BY <1>2, IdlePart
<1> QED
  BY <1>2, <1>3, <1>4, OwnPartSuffices

\* A handler that reads a row and goes on with an amended copy of it.
LEMMA BeginKeeps ==
  ASSUME IInv, NEW w \in Workers, NEW c \in Cases, Exists(c),
         NEW o \in Ops, NEW call \in {"label", "save", "replace", "enqueue"},
         NEW d \in Document, Begin(w, o, call, d),
         o # "create", <<o, call>> \in CallsOf,
         Amends(d, cases[c]), d.status \in StatusAt(call), Unlabelled(d),
         MayBecome(call, cases[c].status, d.status),
         UNCHANGED <<storeVars, now, notices, moneyVars, crashes>>
  PROVE  IInv'
<1>1. LocalTypeOK /\ TypeOK
  BY DEF IInv, TypeOK, StepTypeOK
<1>2. call \in Calls
  BY DEF Calls
<1>3. /\ LocalTypeOK' /\ OnlyLocalsOf(w)
      /\ op'[w] = o /\ pc'[w] = call /\ doc'[w] = d /\ rest'[w] = rest[w]
  BY <1>1, <1>2, BeginFacts
<1>4. cases' = cases /\ WorldTypeOK'
  BY <1>1, WorldSame DEF storeVars
<1>5. cases[c].id = c /\ cases[c].req \in Requests
  BY DEF IInv, RowOK
<1>6. d.id = c /\ d.req \in Requests
  BY <1>5 DEF Amends
<1>7. KeepsApart(w)
  BY <1>3, <1>6 DEF KeepsApart
<1>8. FitOK(w)'
  BY <1>3 DEF FitOK
<1>9. HeldOK(w)'
  BY <1>3, <1>6 DEF HeldOK
<1>10. InsertOK(w)'
  BY <1>3 DEF InsertOK, Inserting
<1>11. FollowOK(w)'
  <2>1. cases[c] \in Document
    BY <1>1 DEF TypeOK, StoreTypeOK
  <2>2. cases[c].version \in Nat /\ cases[c].version > 0 /\ d.version = cases[c].version
    BY <2>1 DEF Document, Exists, Amends
  <2>3. d.version \in 1..cases[c].version
    BY <2>2
  <2>4. Continues(call, cases[c], d)
    BY DEF Continues, Amends
  <2> QED
    BY <1>3, <1>4, <1>6, <2>3, <2>4 DEF FollowOK
<1>12. RestOK(w)'
  BY <1>3, <1>4 DEF RestOK, IInv
<1>13. WorkerOK(w)'
  BY <1>8, <1>9, <1>10, <1>11, <1>12 DEF WorkerOK
<1>14. (\A x \in Cases : RowOK(x)') /\ SavesOnlyOf(w)
  BY <1>4, RowsSame
<1> QED
  BY <1>3, <1>4, <1>7, <1>13, <1>14, OwnPartSuffices

\* A handler that goes on with an amended copy of the case in its hands and
\* saves nothing.
LEMMA StepKeeps ==
  ASSUME IInv, NEW w \in Workers, Holding(w),
         NEW call \in Calls, NEW d \in Document, Goto(w, call, d),
         call \notin {"lookup", "order", "check"}, <<op[w], call>> \in CallsOf,
         d.id = doc[w].id, d.req = doc[w].req, d.version = doc[w].version,
         doc[w].label # None => d.label = doc[w].label,
         IsPrefix(doc[w].events, d.events),
         d.status \in StatusAt(call), Unlabelled(d),
         \A s \in Durable : MayBecome(pc[w], s, doc[w].status) => MayBecome(call, s, d.status),
         Inserting(w) => call = "save" /\ d.status = "label_issued",
         ~Inserting(w) => op[w] # "create" \/ call \notin {"label", "save"},
         cases' = cases, WorldTypeOK'
  PROVE  IInv'
<1>1. LocalTypeOK /\ TypeOK
  BY DEF IInv, TypeOK, StepTypeOK
<1>2. /\ LocalTypeOK' /\ OnlyLocalsOf(w)
      /\ op'[w] = op[w] /\ pc'[w] = call /\ doc'[w] = d /\ rest'[w] = rest[w]
  BY <1>1, GotoFacts
<1>3. KeepsApart(w)
  BY <1>2 DEF KeepsApart
<1>4. FitOK(w)'
  BY <1>2 DEF FitOK
<1>5. doc[w].id \in Cases /\ doc[w].req \in Requests
  BY DEF IInv, HeldOK
<1>6. HeldOK(w)'
  BY <1>2, <1>5 DEF HeldOK
<1>7. Inserting(w)' <=> Inserting(w)
  BY <1>2 DEF Inserting
<1>8. InsertOK(w)'
  <2> SUFFICES ASSUME Inserting(w)
               PROVE  InsertOK(w)'
    BY <1>7 DEF InsertOK
  <2>1. /\ doc[w].version = 0 /\ ~Exists(doc[w].id)
        /\ \A v \in Workers \ {w} : doc[v].id # doc[w].id
    BY DEF IInv, InsertOK
  <2>2. \A v \in Workers \ {w} : doc'[v].id # doc'[w].id
    BY <1>2, <2>1 DEF OnlyLocalsOf
  <2>3. ~Exists(doc[w].id)'
    BY <1>2, <2>1 DEF Exists
  <2>4. doc'[w].status \in FirstStatuses
    BY <1>2 DEF FirstStatuses
  <2> QED
    BY <1>2, <2>1, <2>2, <2>3, <2>4 DEF InsertOK
<1>9. FollowOK(w)'
  <2> SUFFICES ASSUME ~Inserting(w)
               PROVE  /\ d.version \in 1..cases[d.id].version
                      /\ d.version = cases[d.id].version => Continues(call, cases[d.id], d)
    BY <1>2, <1>7 DEF FollowOK
  <2>1. /\ doc[w].version \in 1..cases[doc[w].id].version
        /\ doc[w].version = cases[doc[w].id].version
             => Continues(pc[w], cases[doc[w].id], doc[w])
    BY DEF IInv, FollowOK
  <2> SUFFICES ASSUME doc[w].version = cases[doc[w].id].version
               PROVE  Continues(call, cases[doc[w].id], d)
    BY <2>1
  <2> DEFINE row == cases[doc[w].id]
  <2>2. row \in Document /\ doc[w] \in Document
    BY <1>1, <1>5 DEF TypeOK, StoreTypeOK, LocalTypeOK
  <2>3. /\ row.events \in Seq(Event) /\ doc[w].events \in Seq(Event)
        /\ d.events \in Seq(Event)
    BY <2>2 DEF Document
  <2>4. Continues(pc[w], row, doc[w])
    BY <2>1
  <2>5. IsPrefix(row.events, d.events)
    BY <2>3, <2>4, PrefixTransitive DEF Continues
  <2>6. row.label # None => d.label = row.label
    BY <2>4 DEF Continues
  <2>7. row.status \in Durable
    <3>1. Exists(doc[w].id)
      BY <2>1, <2>2 DEF Exists, Document
    <3> QED
      BY <3>1, <1>5 DEF IInv, RowOK
  <2>8. MayBecome(call, row.status, d.status)
    BY <2>4, <2>7 DEF Continues
  <2> QED
    BY <2>5, <2>6, <2>8 DEF Continues
<1>10. RestOK(w)'
  BY <1>2 DEF RestOK, IInv
<1>11. WorkerOK(w)'
  BY <1>4, <1>6, <1>8, <1>9, <1>10 DEF WorkerOK
<1>12. (\A x \in Cases : RowOK(x)') /\ SavesOnlyOf(w)
  BY RowsSame
<1> QED
  BY <1>2, <1>3, <1>11, <1>12, OwnPartSuffices

-----------------------------------------------------------------------------
(* Requests on an existing case.                                           *)

\* What is known of a row a handler reads.
LEMMA RowFacts ==
  ASSUME IInv, NEW c \in Cases, Exists(c)
  PROVE  /\ cases[c] \in Document /\ cases[c].id = c /\ cases[c].req \in Requests
         /\ cases[c].status \in Durable /\ Unlabelled(cases[c])
         /\ now \in Nat
BY MaxNowAssumption DEF IInv, RowOK, TypeOK, StoreTypeOK, StepTypeOK

\* review reads the row and goes on from it.
LEMMA StartReviewKeeps ==
  ASSUME IInv, NEW w \in Workers, NEW c \in Cases, NEW s, StartReview(w, c, s),
         UNCHANGED <<moneyVars, crashes>>
  PROVE  IInv'
<1> DEFINE d == Transitioned(cases[c], s)
           call == IF s = "approved" THEN "label" ELSE "save"
<1>1. /\ Exists(c) /\ s \in {"approved", "rejected"} /\ CanMove(cases[c].status, s)
      /\ Begin(w, "review", call, d)
      /\ UNCHANGED <<storeVars, now, notices, moneyVars, crashes>>
  BY DEF StartReview
<1>2. s \in ReturnStatus
  BY <1>1 DEF ReturnStatus
<1>3. d \in Document /\ d.status = s /\ Amends(d, cases[c])
  BY <1>1, <1>2, RowFacts, TransitionedFacts
<1>4. cases[c].status \in Durable /\ Unlabelled(cases[c])
  BY <1>1, RowFacts
<1>5. d.label = cases[c].label
  BY <1>3 DEF Amends
<1>6. "review" \in Ops /\ "review" # "create" /\ <<"review", call>> \in CallsOf
  BY DEF Ops, CallsOf
<1>7. call \in {"label", "save", "replace", "enqueue"}
  OBVIOUS
<1>8. d.status \in StatusAt(call)
  BY <1>1, <1>3 DEF StatusAt, Durable, ReturnStatus, InMemoryOnly
<1>9. Unlabelled(d)
  <2>1. CASE s = "approved"
    BY <1>1, <1>4, <1>5, <2>1, ApprovalMoves DEF Unlabelled
  <2>2. CASE s # "approved"
    BY <1>1, <1>3, <2>2 DEF Unlabelled
  <2> QED
    BY <2>1, <2>2
<1>10. MayBecome(call, cases[c].status, d.status)
  <2>1. CASE s = "approved"
    BY <1>1, <2>1 DEF MayBecome
  <2>2. CASE s = "rejected"
    BY <1>1, <1>3, <1>4, <2>2, DirectMoves DEF MayBecome, Durable, ReturnStatus, InMemoryOnly
  <2> QED
    BY <1>1, <2>1, <2>2
<1> HIDE DEF d, call
<1> QED
  BY <1>1, <1>3, <1>6, <1>7, <1>8, <1>9, <1>10, BeginKeeps

\* A legal move straight to the save, by an operation that inserts nothing.
LEMMA DirectMoveKeeps ==
  ASSUME IInv, NEW w \in Workers, NEW c \in Cases, Exists(c),
         NEW o \in {"review", "cancel", "carrier", "inspect"},
         NEW s \in Durable, s # "manual_review", CanMove(cases[c].status, s),
         Begin(w, o, "save", Transitioned(cases[c], s)),
         UNCHANGED <<storeVars, now, notices, moneyVars, crashes>>
  PROVE  IInv'
<1> DEFINE d == Transitioned(cases[c], s)
<1>1. s \in ReturnStatus
  BY DEF Durable
<1>2. d \in Document /\ d.status = s /\ Amends(d, cases[c])
  BY <1>1, RowFacts, TransitionedFacts
<1>3. o \in Ops /\ o # "create" /\ <<o, "save">> \in CallsOf
  BY DEF Ops, CallsOf
<1>4. d.status \in StatusAt("save")
  BY <1>2 DEF StatusAt
<1>5. Unlabelled(d)
  BY <1>2 DEF Unlabelled, Durable, InMemoryOnly
<1>6. MayBecome("save", cases[c].status, d.status)
  BY <1>2, RowFacts, DirectMoves DEF MayBecome
<1> HIDE DEF d
<1>7. Begin(w, o, "save", d)
  BY DEF d
<1> QED
  BY <1>2, <1>3, <1>4, <1>5, <1>6, <1>7, BeginKeeps

\* So does cancel.
LEMMA StartCancelKeeps ==
  ASSUME IInv, NEW w \in Workers, NEW c \in Cases, StartCancel(w, c),
         UNCHANGED <<moneyVars, crashes>>
  PROVE  IInv'
<1>1. "cancelled" \in Durable
  BY DEF Durable, ReturnStatus, InMemoryOnly
<1> QED
  BY <1>1, DirectMoveKeeps DEF StartCancel

\* So does carrier_update, for an event the lifecycle knows.
LEMMA StartCarrierMoveKeeps ==
  ASSUME IInv, NEW w \in Workers, NEW t \in Labels, NEW s, StartCarrierMove(w, t, s),
         UNCHANGED <<moneyVars, crashes>>
  PROVE  IInv'
<1>1. s \in Durable /\ s # "manual_review"
  BY DEF StartCarrierMove, Durable, ReturnStatus, InMemoryOnly
<1>2. PICK c \in ByTracking(t) : /\ CanMove(cases[c].status, s)
                                 /\ Begin(w, "carrier", "save", Transitioned(cases[c], s))
  BY DEF StartCarrierMove
<1>3. c \in Cases /\ Exists(c)
  BY DEF ByTracking
<1> QED
  BY <1>1, <1>2, <1>3, DirectMoveKeeps DEF StartCarrierMove

\* For any other event it adds to the trail and leaves the status.
LEMMA StartCarrierNoteKeeps ==
  ASSUME IInv, NEW w \in Workers, NEW t \in Labels, StartCarrierNote(w, t),
         UNCHANGED <<moneyVars, crashes>>
  PROVE  IInv'
<1>1. PICK c \in ByTracking(t) :
        Begin(w, "carrier", "save", AddEvent(cases[c], "tracking_other", now))
  BY DEF StartCarrierNote
<1>2. c \in Cases /\ Exists(c)
  BY DEF ByTracking
<1> DEFINE d == AddEvent(cases[c], "tracking_other", now)
<1>3. "tracking_other" \in EventName
  BY DEF EventName
<1>4. d \in Document /\ d.status = cases[c].status /\ Amends(d, cases[c])
  BY <1>2, <1>3, RowFacts, AddEventFacts
<1>5. cases[c].status \in Durable /\ Unlabelled(cases[c])
  BY <1>2, RowFacts
<1>6. d.status \in StatusAt("save")
  BY <1>4, <1>5 DEF StatusAt
<1>7. Unlabelled(d)
  BY <1>4, <1>5 DEF Unlabelled, Amends
<1>8. MayBecome("save", cases[c].status, d.status)
  BY <1>4 DEF MayBecome
<1>9. "carrier" \in Ops /\ "carrier" # "create" /\ <<"carrier", "save">> \in CallsOf
  BY DEF Ops, CallsOf
<1>10. Begin(w, "carrier", "save", d)
       /\ UNCHANGED <<storeVars, now, notices, moneyVars, crashes>>
  BY <1>1 DEF StartCarrierNote
<1> HIDE DEF d
<1> QED
  BY <1>2, <1>4, <1>6, <1>7, <1>8, <1>9, <1>10, BeginKeeps

\* Moving through inspecting, in memory, to an outcome.
LEMMA InspectedFacts ==
  ASSUME IInv, NEW c \in Cases, Exists(c), CanMove(cases[c].status, "inspecting"),
         NEW s \in {"refunded", "exchanged", "credited", "closed_failed_inspection"}
  PROVE  LET d == Transitioned(Transitioned(cases[c], "inspecting"), s) IN
           /\ d \in Document /\ d.status = s /\ Amends(d, cases[c])
           /\ Unlabelled(d) /\ s \in Durable
           /\ <<cases[c].status, s>> \in DurableMoves
<1> DEFINE b == Transitioned(cases[c], "inspecting")
           d == Transitioned(b, s)
<1>1. "inspecting" \in ReturnStatus /\ s \in ReturnStatus
  BY DEF ReturnStatus
<1>2. cases[c] \in Document /\ cases[c].status \in Durable /\ now \in Nat
  BY RowFacts
<1>3. b \in Document /\ Amends(b, cases[c])
  BY <1>1, <1>2, TransitionedFacts
<1> HIDE DEF b
<1>4. d \in Document /\ d.status = s /\ Amends(d, b)
  BY <1>1, <1>2, <1>3, TransitionedFacts
<1> HIDE DEF d
<1>5. Amends(d, cases[c])
  BY <1>2, <1>3, <1>4, AmendsTransitive
<1>6. Unlabelled(d)
  BY <1>4 DEF Unlabelled
<1>7. s \in Durable /\ <<cases[c].status, s>> \in DurableMoves
  BY <1>2, InspectionMoves
<1> QED
  BY <1>4, <1>5, <1>6, <1>7 DEF b, d

\* A failed inspection goes on from the row by two moves.
LEMMA StartFailedInspectionKeeps ==
  ASSUME IInv, NEW w \in Workers, NEW c \in Cases, StartFailedInspection(w, c),
         UNCHANGED crashes
  PROVE  IInv'
<1> DEFINE d == Transitioned(Transitioned(cases[c], "inspecting"), "closed_failed_inspection")
<1>1. /\ Exists(c) /\ CanMove(cases[c].status, "inspecting") /\ Begin(w, "inspect", "save", d)
      /\ UNCHANGED <<storeVars, now, notices, moneyVars, crashes>>
  BY DEF StartFailedInspection
<1>2. /\ d \in Document /\ d.status = "closed_failed_inspection" /\ Amends(d, cases[c])
      /\ Unlabelled(d) /\ d.status \in Durable
      /\ <<cases[c].status, d.status>> \in DurableMoves
  BY <1>1, InspectedFacts
<1>3. "inspect" \in Ops /\ "inspect" # "create" /\ <<"inspect", "save">> \in CallsOf
  BY DEF Ops, CallsOf
<1> HIDE DEF d
<1>4. d.status \in StatusAt("save") /\ MayBecome("save", cases[c].status, d.status)
  BY <1>2 DEF StatusAt, MayBecome
<1> QED
  BY <1>1, <1>2, <1>3, <1>4, BeginKeeps

\* The outcome of a passed inspection is one the wanted resolution leads to.
LEMMA WantsFacts ==
  ASSUME NEW d, d.req \in Requests
  PROVE  /\ Wants(d) \in Resolution
         /\ ResolutionToStatus[Wants(d)] \in {"refunded", "exchanged", "credited"}
BY RequestsAssumption DEF Wants, Resolution, ResolutionToStatus

\* So does a passed one, or it stops before the second for an exchange.
LEMMA StartPassedInspectionKeeps ==
  ASSUME IInv, NEW w \in Workers, NEW c \in Cases, StartPassedInspection(w, c),
         UNCHANGED crashes
  PROVE  IInv'
<1> DEFINE b == Transitioned(cases[c], "inspecting")
           s == ResolutionToStatus[Wants(b)]
           d == Transitioned(b, s)
<1>1. /\ Exists(c) /\ CanMove(cases[c].status, "inspecting")
      /\ UNCHANGED <<storeVars, now, notices, moneyVars, crashes>>
  BY DEF StartPassedInspection
<1>2. \/ Begin(w, "inspect", "replace", b)
      \/ Begin(w, "inspect", "enqueue", d)
  BY DEF StartPassedInspection, Settled
<1>3. "inspect" \in Ops /\ "inspect" # "create"
      /\ <<"inspect", "replace">> \in CallsOf /\ <<"inspect", "enqueue">> \in CallsOf
  BY DEF Ops, CallsOf
<1>4. b \in Document /\ b.status = "inspecting" /\ Amends(b, cases[c])
  <2>1. "inspecting" \in ReturnStatus
    BY DEF ReturnStatus
  <2> QED
    BY <1>1, <2>1, RowFacts, TransitionedFacts
<1>5. s \in {"refunded", "exchanged", "credited"}
  <2>1. b.req \in Requests
    BY <1>1, <1>4, RowFacts DEF Amends
  <2> QED
    BY <2>1, WantsFacts
<1>6. CASE Begin(w, "inspect", "replace", b)
  <2>1. b.status \in StatusAt("replace") /\ Unlabelled(b)
        /\ MayBecome("replace", cases[c].status, b.status)
    BY <1>1, <1>4 DEF StatusAt, Unlabelled, MayBecome
  <2> HIDE DEF b
  <2> QED
    BY <1>1, <1>3, <1>4, <1>6, <2>1, BeginKeeps
<1>7. CASE Begin(w, "inspect", "enqueue", d)
  <2>1. /\ d \in Document /\ d.status = s /\ Amends(d, cases[c])
        /\ Unlabelled(d) /\ s \in Durable
        /\ <<cases[c].status, s>> \in DurableMoves
    <3> HIDE DEF s
    <3> QED
      BY <1>1, <1>5, InspectedFacts
  <2>2. d.status \in StatusAt("enqueue") /\ MayBecome("enqueue", cases[c].status, d.status)
    BY <2>1 DEF StatusAt, MayBecome
  <2> HIDE DEF d
  <2> QED
    BY <1>1, <1>3, <1>7, <2>1, <2>2, BeginKeeps
<1> QED
  BY <1>2, <1>6, <1>7

-----------------------------------------------------------------------------
(* Calls on a case in hand that save nothing.                              *)

\* What is known of the case a handler holds.
LEMMA HeldFacts ==
  ASSUME IInv, NEW w \in Workers, Holding(w)
  PROVE  /\ doc[w] \in Document /\ doc[w].id \in Cases /\ doc[w].req \in Requests
         /\ doc[w].status \in StatusAt(pc[w]) /\ Unlabelled(doc[w])
         /\ cases[doc[w].id] \in Document /\ now \in Nat
         /\ <<op[w], pc[w]>> \in CallsOf
         /\ TypeOK /\ LocalTypeOK
<1>1. TypeOK /\ LocalTypeOK
  BY DEF IInv, TypeOK, StepTypeOK
<1>2. doc[w].id \in Cases
  BY DEF IInv, HeldOK
<1>3. doc[w] \in Document /\ cases[doc[w].id] \in Document /\ now \in Nat
  BY <1>1, <1>2, MaxNowAssumption DEF TypeOK, LocalTypeOK, StoreTypeOK, StepTypeOK
<1> QED
  BY <1>1, <1>2, <1>3 DEF IInv, HeldOK, FitOK

\* _issue_label labels an approved case, and no other thread holds the label.
LEMMA IssueLabelKeeps ==
  ASSUME IInv, NEW w \in Workers, IssueLabel(w), UNCHANGED <<moneyVars, crashes>>
  PROVE  IInv'
<1>1. pc[w] = "label" /\ Holding(w) /\ TypeOK
      /\ UNCHANGED <<storeVars, now, notices, moneyVars, crashes>>
  BY DEF IssueLabel, Holding, IInv
<1>2. cases' = cases /\ WorldTypeOK'
  BY <1>1, WorldSame DEF storeVars
<1>3. CASE Finish(w)
  BY <1>2, <1>3, RowsSame, FinishKeeps
<1>4. ASSUME NEW t \in Labels, Goto(w, "save", Labelled(doc[w], t))
      PROVE  IInv'
  <2> DEFINE b == [doc[w] EXCEPT !.label = t]
             d == Transitioned(b, "label_issued")
  <2>1. doc[w] \in Document /\ doc[w].status = "approved" /\ Unlabelled(doc[w])
        /\ now \in Nat /\ <<op[w], "label">> \in CallsOf
    BY <1>1, HeldFacts DEF StatusAt
  <2>2. b \in Document /\ b.id = doc[w].id /\ b.req = doc[w].req
        /\ b.version = doc[w].version /\ b.events = doc[w].events
    BY <2>1 DEF Document
  <2> HIDE DEF b
  <2>3. "label_issued" \in ReturnStatus
    BY DEF ReturnStatus
  <2>4. d \in Document /\ d.status = "label_issued" /\ Amends(d, b)
    BY <2>1, <2>2, <2>3, TransitionedFacts
  <2> HIDE DEF d
  <2>5. Goto(w, "save", d)
    BY <1>4 DEF Labelled, b, d
  <2>6. "save" \in Calls /\ "save" \notin {"lookup", "order", "check"}
        /\ <<op[w], "save">> \in CallsOf
    BY <2>1 DEF Calls, CallsOf
  <2>7. doc[w].label # None => d.label = doc[w].label
    BY <2>1 DEF Unlabelled
  <2>8. IsPrefix(doc[w].events, d.events) /\ d.id = doc[w].id /\ d.req = doc[w].req
        /\ d.version = doc[w].version
    BY <2>2, <2>4 DEF Amends
  <2>9. d.status \in StatusAt("save") /\ Unlabelled(d)
    BY <2>4 DEF StatusAt, Unlabelled, Durable, ReturnStatus, InMemoryOnly
  <2>10. \A s \in Durable : MayBecome(pc[w], s, doc[w].status) => MayBecome("save", s, d.status)
    BY <1>1, <2>4, ApprovalMoves DEF MayBecome
  <2>11. ~Inserting(w) => op[w] # "create"
    BY <1>1 DEF Inserting
  <2> QED
    BY <1>1, <1>2, <2>4, <2>5, <2>6, <2>7, <2>8, <2>9, <2>10, <2>11, StepKeeps
<1> QED
  BY <1>3, <1>4 DEF IssueLabel

-----------------------------------------------------------------------------
(* More steps of which a thread's part of the invariant follows.           *)

\* A step after which the worker holds no case and nothing was saved.
LEMMA UnheldKeeps ==
  ASSUME IInv, NEW w \in Workers, OnlyLocalsOf(w), KeepsApart(w),
         cases' = cases, LocalTypeOK', WorldTypeOK',
         FitOK(w)', ~Holding(w)', RestOK(w)'
  PROVE  IInv'
<1>1. HeldOK(w)' /\ FollowOK(w)' /\ InsertOK(w)'
  BY DEF HeldOK, FollowOK, InsertOK, Inserting, Holding
<1>2. WorkerOK(w)'
  BY <1>1 DEF WorkerOK
<1>3. (\A x \in Cases : RowOK(x)') /\ SavesOnlyOf(w)
  BY RowsSame
<1> QED
  BY <1>2, <1>3, OwnPartSuffices

\* A step that touches no row and no thread.
LEMMA WorldStepKeeps ==
  ASSUME IInv, UNCHANGED <<cases, workerVars>>, WorldTypeOK'
  PROVE  IInv'
<1>1. TypeOK'
  BY DEF WorldTypeOK, IInv, TypeOK, StepTypeOK, LocalTypeOK, workerVars
<1>2. \A c \in Cases : RowOK(c)'
  BY RowsSame
<1>3. \A v \in Workers : FitOK(v)' /\ HeldOK(v)'
  BY DEF IInv, FitOK, HeldOK, Holding, workerVars
<1>4. \A v \in Workers : FollowOK(v)'
  BY DEF IInv, FollowOK, Holding, Inserting, workerVars
<1>5. \A v \in Workers : InsertOK(v)'
  BY DEF IInv, InsertOK, Inserting, Exists, workerVars
<1>6. \A v \in Workers : RestOK(v)'
  BY DEF IInv, RestOK, workerVars
<1> QED
  BY <1>1, <1>2, <1>3, <1>4, <1>5, <1>6 DEF IInv

\* Only create_return looks up, reads an order and checks; only a sweep loops.
LEMMA CallerFacts ==
  ASSUME NEW o, NEW call, <<o, call>> \in CallsOf
  PROVE  /\ call \in {"lookup", "order", "check", "record"} => o = "create"
         /\ call = "next" => o = "sweep"
         /\ call \in {"replace", "enqueue"} => o = "inspect"
BY DEF CallsOf

-----------------------------------------------------------------------------
(* Saving, and telling the customer.                                       *)

\* The save the version check lets through: the thread's copy continues the
\* row, or is the first version of a row nobody else inserts.
LEMMA SaverFacts ==
  ASSUME IInv, NEW w \in Workers, pc[w] \in {"save", "note"}, CanSave(doc[w])
  PROVE  /\ doc[w] \in Document /\ doc[w].id \in Cases /\ doc[w].req \in Requests
         /\ doc[w].status \in Durable /\ Unlabelled(doc[w])
         /\ cases[doc[w].id] \in Document
         /\ doc[w].version = cases[doc[w].id].version
         /\ ~Exists(doc[w].id) => /\ cases[doc[w].id] = NoDocument
                                  /\ pc[w] = "save"
                                  /\ doc[w].status \in FirstStatuses
         /\ Exists(doc[w].id) => Continues(pc[w], cases[doc[w].id], doc[w])
<1>1. Holding(w)
  BY DEF Holding
<1>2. /\ doc[w] \in Document /\ doc[w].id \in Cases /\ doc[w].req \in Requests
      /\ doc[w].status \in Durable /\ Unlabelled(doc[w])
      /\ cases[doc[w].id] \in Document
  BY <1>1, HeldFacts DEF StatusAt
<1>3. doc[w].version \in Nat /\ cases[doc[w].id].version \in Nat
  BY <1>2 DEF Document
<1>4. CASE Inserting(w)
  <2>1. /\ doc[w].version = 0 /\ ~Exists(doc[w].id) /\ pc[w] = "save"
        /\ doc[w].status \in FirstStatuses \cup {"approved"}
    BY <1>4 DEF IInv, InsertOK, Inserting
  <2>2. doc[w].status \in FirstStatuses
    BY <1>2, <2>1 DEF Durable, InMemoryOnly
  <2>3. doc[w].version = cases[doc[w].id].version
    BY <1>3, <2>1 DEF Exists
  <2>4. cases[doc[w].id] = NoDocument
    BY <1>2, <2>1 DEF IInv, RowOK
  <2> QED
    BY <1>2, <2>1, <2>2, <2>3, <2>4
<1>5. CASE ~Inserting(w)
  <2>1. /\ doc[w].version \in 1..cases[doc[w].id].version
        /\ doc[w].version = cases[doc[w].id].version
             => Continues(pc[w], cases[doc[w].id], doc[w])
    BY <1>1, <1>5 DEF IInv, FollowOK
  <2>2. cases[doc[w].id].version \in {0, doc[w].version}
    BY DEF CanSave
  <2>3. doc[w].version = cases[doc[w].id].version /\ Exists(doc[w].id)
    BY <1>3, <2>1, <2>2 DEF Exists
  <2> QED
    BY <1>2, <2>1, <2>3
<1> QED
  BY <1>4, <1>5

\* Such a save leaves every row in order.
LEMMA PutKeepsRows ==
  ASSUME IInv, NEW w \in Workers, pc[w] \in {"save", "note"}, CanSave(doc[w]), Put(doc[w])
  PROVE  /\ cases' \in [Cases -> Document]
         /\ cases'[doc[w].id] = Bumped(doc[w])
         /\ SavesOnlyOf(w)
         /\ \A c \in Cases : RowOK(c)'
<1> DEFINE d == doc[w]
           new == Bumped(d)
<1>1. /\ d \in Document /\ d.id \in Cases /\ d.req \in Requests
      /\ d.status \in Durable /\ Unlabelled(d)
      /\ d.version = cases[d.id].version
  BY SaverFacts
<1>2. cases \in [Cases -> Document] /\ cases' = [cases EXCEPT ![d.id] = new]
  BY DEF IInv, TypeOK, StoreTypeOK, Put
<1>3. /\ new \in Document /\ new.version = d.version + 1 /\ new.id = d.id
      /\ new.req = d.req /\ new.status = d.status /\ new.label = d.label
  BY <1>1, BumpedFacts
<1>4. d.version \in Nat
  BY <1>1 DEF Document
<1> HIDE DEF d, new
<1>5. cases' \in [Cases -> Document] /\ cases'[d.id] = new
      /\ \A c \in Cases \ {d.id} : cases'[c] = cases[c]
  BY <1>1, <1>2, <1>3
<1>6. new.version > cases[d.id].version
  BY <1>1, <1>3, <1>4
<1>7. SavesOnlyOf(w)
  BY <1>5, <1>6 DEF SavesOnlyOf, d
<1>8. /\ new.version > 0 /\ new.id = d.id /\ new.req \in Requests
      /\ new.status \in Durable /\ Unlabelled(new)
  BY <1>1, <1>3, <1>4 DEF Unlabelled
<1>9. ASSUME NEW c \in Cases PROVE RowOK(c)'
  <2>1. CASE c = d.id
    <3>1. cases'[c] = new
      BY <1>5, <2>1
    <3> QED
      BY <1>8, <2>1, <3>1 DEF RowOK, Exists
  <2>2. CASE c # d.id
    <3>1. cases'[c] = cases[c]
      BY <1>5, <2>2
    <3> QED
      BY <3>1 DEF IInv, RowOK, Exists
  <2> QED
    BY <2>1, <2>2
<1> QED
  BY <1>5, <1>7, <1>9 DEF d, new

\* After a notice, sent or not, the worker holds no case.
LEMMA AfterNoticeKeeps ==
  ASSUME IInv, NEW w \in Workers, pc[w] \in {"notify", "note"}, AfterNotice(w),
         SavesOnlyOf(w), WorldTypeOK', \A c \in Cases : RowOK(c)'
  PROVE  IInv'
<1>1. LocalTypeOK
  BY DEF IInv, TypeOK, StepTypeOK
<1>2. CASE op[w] = "sweep"
  <2>1. Goto(w, "next", NoDocument)
    BY <1>2 DEF AfterNotice
  <2>2. "next" \in Calls /\ <<"sweep", "next">> \in CallsOf
    BY DEF Calls, CallsOf
  <2>3. /\ LocalTypeOK' /\ OnlyLocalsOf(w)
        /\ op'[w] = op[w] /\ pc'[w] = "next" /\ doc'[w] = NoDocument
        /\ ask'[w] = ask[w] /\ rest'[w] = rest[w]
    BY <1>1, <2>1, <2>2, NoDocumentFacts, GotoFacts
  <2>4. KeepsApart(w)
    BY <2>3 DEF KeepsApart, NoDocument
  <2>5. FitOK(w)'
    BY <1>2, <2>2, <2>3 DEF FitOK
  <2>6. HeldOK(w)' /\ FollowOK(w)' /\ InsertOK(w)'
    BY <1>2, <2>3 DEF HeldOK, FollowOK, InsertOK, Inserting, Holding
  <2>7. RestOK(w)'
    BY <2>3, RestKeeps DEF WorldTypeOK, StoreTypeOK
  <2>8. WorkerOK(w)'
    BY <2>5, <2>6, <2>7 DEF WorkerOK
  <2> QED
    BY <2>3, <2>4, <2>8, OwnPartSuffices
<1>3. CASE op[w] # "sweep"
  BY <1>3, FinishKeeps DEF AfterNotice
<1> QED
  BY <1>2, <1>3

\* _notify adds to the trail of its copy.
LEMMA NotifyKeeps ==
  ASSUME IInv, NEW w \in Workers, Notify(w), UNCHANGED <<moneyVars, crashes>>
  PROVE  IInv'
<1>1. pc[w] = "notify" /\ Holding(w) /\ ~Inserting(w)
  BY DEF Notify, Holding, Inserting
<1>2. /\ doc[w] \in Document /\ doc[w].id \in Cases /\ doc[w].req \in Requests
      /\ doc[w].status \in Durable /\ Unlabelled(doc[w]) /\ now \in Nat
      /\ <<op[w], "notify">> \in CallsOf /\ TypeOK
  BY <1>1, HeldFacts DEF StatusAt
<1>3. UNCHANGED <<storeVars, now, moneyVars, crashes>>
  BY DEF Notify
<1>4. cases' = cases
  BY <1>3 DEF storeVars
<1>5. ASSUME notices' \subseteq (Cases \X ReturnStatus) PROVE WorldTypeOK'
  BY <1>2, <1>3, <1>5
    DEF TypeOK, StepTypeOK, WorldTypeOK, StoreTypeOK, SettlementTypeOK, storeVars, moneyVars
<1>6. CASE /\ notices' = notices \cup {<<doc[w].id, doc[w].status>>}
           /\ Goto(w, "note", AddEvent(doc[w], "customer_notified", now))
  <2> DEFINE d == AddEvent(doc[w], "customer_notified", now)
  <2>1. "customer_notified" \in EventName
    BY DEF EventName
  <2>2. d \in Document /\ d.status = doc[w].status /\ Amends(d, doc[w])
    BY <1>2, <2>1, AddEventFacts
  <2>3. Goto(w, "note", d)
    BY <1>6
  <2> HIDE DEF d
  <2>4. WorldTypeOK'
    BY <1>2, <1>5, <1>6 DEF TypeOK, StepTypeOK, Durable
  <2>5. "note" \in Calls /\ <<op[w], "note">> \in CallsOf
    BY <1>2 DEF Calls, CallsOf
  <2>6. d.status \in StatusAt("note") /\ Unlabelled(d)
    BY <1>2, <2>2 DEF StatusAt, Unlabelled, Amends
  <2>7. \A s \in Durable : MayBecome(pc[w], s, doc[w].status) => MayBecome("note", s, d.status)
    BY <1>1, <2>2 DEF MayBecome
  <2>8. /\ d.id = doc[w].id /\ d.req = doc[w].req /\ d.version = doc[w].version
        /\ d.label = doc[w].label /\ IsPrefix(doc[w].events, d.events)
    BY <2>2 DEF Amends
  <2> QED
    BY <1>1, <1>4, <2>2, <2>3, <2>4, <2>5, <2>6, <2>7, <2>8, StepKeeps
<1>7. CASE AfterNotice(w) /\ UNCHANGED notices
  <2>1. WorldTypeOK'
    BY <1>2, <1>5, <1>7 DEF TypeOK, StepTypeOK
  <2> QED
    BY <1>1, <1>4, <1>7, <2>1, RowsSame, AfterNoticeKeeps
<1> QED
  BY <1>6, <1>7 DEF Notify

\* Its save is let through only if the copy goes on from the row.
LEMMA NoteNoticeKeeps ==
  ASSUME IInv, NEW w \in Workers, NoteNotice(w), UNCHANGED <<moneyVars, crashes>>
  PROVE  IInv'
<1>1. pc[w] = "note" /\ AfterNotice(w)
      /\ UNCHANGED <<orders, keys, outbox, now, notices, moneyVars, crashes>>
  BY DEF NoteNotice
<1>2. cases' \in [Cases -> Document] /\ SavesOnlyOf(w) /\ \A c \in Cases : RowOK(c)'
  <2>1. CASE CanSave(doc[w])
    BY <1>1, <2>1, PutKeepsRows DEF NoteNotice
  <2>2. CASE ~CanSave(doc[w])
    BY <2>2, RowsSame DEF NoteNotice, IInv, TypeOK, StoreTypeOK
  <2> QED
    BY <2>1, <2>2
<1>3. WorldTypeOK'
  BY <1>1, <1>2 DEF IInv, TypeOK, StepTypeOK, WorldTypeOK, StoreTypeOK, SettlementTypeOK, moneyVars
<1> QED
  BY <1>1, <1>2, <1>3, AfterNoticeKeeps

\* So is a handler's, and the copies of other threads are then of an older version.
LEMMA SaveCaseKeeps ==
  ASSUME IInv, NEW w \in Workers, SaveCase(w), UNCHANGED <<moneyVars, crashes>>
  PROVE  IInv'
<1>1. pc[w] = "save" /\ UNCHANGED <<orders, keys, outbox, now, notices, moneyVars, crashes>>
  BY DEF SaveCase
<1>2. ASSUME cases' \in [Cases -> Document] PROVE WorldTypeOK'
  BY <1>1, <1>2 DEF IInv, TypeOK, StepTypeOK, WorldTypeOK, StoreTypeOK, SettlementTypeOK, moneyVars
<1>3. CASE ~CanSave(doc[w]) /\ Finish(w) /\ UNCHANGED cases
  <2>1. WorldTypeOK'
    BY <1>2, <1>3 DEF IInv, TypeOK, StoreTypeOK
  <2> QED
    BY <1>3, <2>1, RowsSame, FinishKeeps
<1>4. CASE /\ CanSave(doc[w])
           /\ Put(doc[w])
           /\ IF AfterSave(w) = "idle" THEN Finish(w) ELSE Goto(w, AfterSave(w), Bumped(doc[w]))
  <2>1. /\ cases' \in [Cases -> Document] /\ SavesOnlyOf(w)
        /\ cases'[doc[w].id] = Bumped(doc[w])
        /\ \A c \in Cases : RowOK(c)'
    BY <1>1, <1>4, PutKeepsRows
  <2>2. WorldTypeOK'
    BY <1>2, <2>1
  <2>3. CASE Finish(w)
    BY <2>1, <2>2, <2>3, FinishKeeps
  <2>4. CASE AfterSave(w) # "idle"
    <3> DEFINE d == Bumped(doc[w])
               call == AfterSave(w)
    <3>1. /\ doc[w] \in Document /\ doc[w].id \in Cases /\ doc[w].req \in Requests
          /\ doc[w].status \in Durable /\ Unlabelled(doc[w])
      BY <1>1, <1>4, SaverFacts
    <3>2. /\ d \in Document /\ d.version = doc[w].version + 1 /\ d.id = doc[w].id
          /\ d.req = doc[w].req /\ d.status = doc[w].status /\ d.label = doc[w].label
      BY <3>1, BumpedFacts
    <3>3. <<op[w], "save">> \in CallsOf
      BY <1>1 DEF IInv, FitOK
    <3>4. call \in {"record", "list", "notify"} /\ <<op[w], call>> \in CallsOf
      BY <2>4, <3>3 DEF AfterSave, CallsOf
    <3>5. Goto(w, call, d)
      BY <1>4, <2>4
    <3> HIDE DEF call, d
    <3>6. call \in Calls
      BY <3>4 DEF Calls
    <3>7. /\ LocalTypeOK' /\ OnlyLocalsOf(w)
          /\ op'[w] = op[w] /\ pc'[w] = call /\ doc'[w] = d /\ rest'[w] = rest[w]
      <4>1. LocalTypeOK
        BY DEF IInv, TypeOK, StepTypeOK
      <4> QED
        BY <3>2, <3>5, <3>6, <4>1, GotoFacts
    <3>8. KeepsApart(w)
      BY <3>2, <3>7 DEF KeepsApart
    <3>9. FitOK(w)' /\ InsertOK(w)'
      BY <3>4, <3>7 DEF FitOK, InsertOK, Inserting
    <3>10. HeldOK(w)'
      BY <3>1, <3>2, <3>4, <3>7 DEF HeldOK, StatusAt, Unlabelled
    <3>11. FollowOK(w)'
      <4>1. cases'[d.id] = d
        BY <2>1, <3>2 DEF d
      <4>2. d.version \in 1..d.version
        BY <3>1, <3>2 DEF Document
      <4>3. Continues(call, d, d)
        <5>1. d.events \in Seq(Event)
          BY <3>2 DEF Document
        <5> QED
          BY <3>4, <5>1, PrefixReflexive DEF Continues, MayBecome
      <4> QED
        BY <3>7, <4>1, <4>2, <4>3 DEF FollowOK
    <3>12. RestOK(w)'
      BY <2>1, <3>7, RestKeeps
    <3>13. WorkerOK(w)'
      BY <3>9, <3>10, <3>11, <3>12 DEF WorkerOK
    <3> QED
      BY <2>1, <2>2, <3>7, <3>8, <3>13, OwnPartSuffices
  <2> QED
    BY <1>4, <2>3, <2>4
<1> QED
  BY <1>3, <1>4 DEF SaveCase

-----------------------------------------------------------------------------
(* Settlement and the outbox.                                              *)

\* _settle names a replacement order and takes the copy out of inspecting.
LEMMA CreateReplacementKeeps ==
  ASSUME IInv, NEW w \in Workers, CreateReplacement(w), UNCHANGED crashes
  PROVE  IInv'
<1>1. pc[w] = "replace" /\ Holding(w) /\ ~Inserting(w)
      /\ UNCHANGED <<storeVars, now, notices, moved, batch, crashes>>
  BY DEF CreateReplacement, Holding, Inserting
<1>2. /\ doc[w] \in Document /\ doc[w].id \in Cases /\ doc[w].req \in Requests
      /\ doc[w].status = "inspecting" /\ Unlabelled(doc[w]) /\ now \in Nat
      /\ <<op[w], "replace">> \in CallsOf /\ TypeOK
  BY <1>1, HeldFacts DEF StatusAt
<1>3. replaced \in [Cases -> Nat]
  BY <1>2 DEF TypeOK, SettlementTypeOK
<1>4. \/ replaced' = replaced
      \/ replaced' = [replaced EXCEPT ![doc[w].id] = @ + 1]
  BY DEF CreateReplacement
<1>5. replaced' \in [Cases -> Nat] /\ replaced'[doc[w].id] \in Nat
  BY <1>2, <1>3, <1>4
<1>6. cases' = cases /\ WorldTypeOK'
  BY <1>1, <1>2, <1>5
    DEF TypeOK, StepTypeOK, WorldTypeOK, StoreTypeOK, SettlementTypeOK, storeVars
<1>7. CASE Finish(w)
  BY <1>6, <1>7, RowsSame, FinishKeeps
<1>8. CASE Goto(w, "save", Settled([doc[w] EXCEPT !.replacement = replaced'[doc[w].id]]))
  <2> DEFINE b == [doc[w] EXCEPT !.replacement = replaced'[doc[w].id]]
             s == ResolutionToStatus[Wants(b)]
             d == Transitioned(b, s)
  <2>1. b \in Document /\ b.id = doc[w].id /\ b.req = doc[w].req
        /\ b.version = doc[w].version /\ b.events = doc[w].events /\ b.label = doc[w].label
    BY <1>2, <1>5 DEF Document
  <2>2. Goto(w, "save", d)
    BY <1>8 DEF Settled
  <2> HIDE DEF b
  <2>3. s \in {"refunded", "exchanged", "credited"}
    BY <1>2, <2>1, WantsFacts
  <2> HIDE DEF s
  <2>4. s \in ReturnStatus /\ s \in Durable
    BY <2>3 DEF ReturnStatus, Durable, InMemoryOnly
  <2>5. d \in Document /\ d.status = s /\ Amends(d, b)
    BY <1>2, <2>1, <2>4, TransitionedFacts
  <2> HIDE DEF d
  <2>6. "save" \in Calls /\ <<op[w], "save">> \in CallsOf /\ op[w] # "create"
    BY <1>2 DEF Calls, CallsOf
  <2>7. d.status \in StatusAt("save") /\ Unlabelled(d)
    BY <2>3, <2>4, <2>5 DEF StatusAt, Unlabelled
  <2>8. \A x \in Durable : MayBecome(pc[w], x, doc[w].status) => MayBecome("save", x, d.status)
    BY <1>1, <2>3, <2>5, InspectionMoves DEF MayBecome
  <2>9. /\ d.id = doc[w].id /\ d.req = doc[w].req /\ d.version = doc[w].version
        /\ d.label = doc[w].label /\ IsPrefix(doc[w].events, d.events)
    BY <2>1, <2>5 DEF Amends
  <2> QED
    BY <1>1, <1>6, <2>2, <2>5, <2>6, <2>7, <2>8, <2>9, StepKeeps
<1> QED
  BY <1>7, <1>8 DEF CreateReplacement

\* Appending an entry keeps the outbox and everything that points into it.
LEMMA EnqueueFacts ==
  ASSUME StoreTypeOK, SettlementTypeOK, NEW c \in Cases,
         NEW kind \in {"refund", "store_credit"}, OutboxEnqueue(c, kind)
  PROVE  /\ outbox' \in Seq(Entry)
         /\ moved \subseteq (1..Len(outbox'))
         /\ batch \in [Workers -> SUBSET (1..Len(outbox'))]
<1> DEFINE e == [case |-> c, kind |-> kind, status |-> "pending"]
<1>1. e \in Entry
  BY DEF Entry
<1>2. outbox' = Append(outbox, e) /\ outbox \in Seq(Entry)
  BY DEF OutboxEnqueue, StoreTypeOK
<1> HIDE DEF e
<1>3. outbox' \in Seq(Entry) /\ Len(outbox') = Len(outbox) + 1 /\ Len(outbox) \in Nat
  BY <1>1, <1>2
<1>4. 1..Len(outbox) \subseteq 1..Len(outbox')
  BY <1>3
<1> QED
  BY <1>3, <1>4 DEF SettlementTypeOK

\* outbox_enqueue touches no case.
LEMMA EnqueuePaymentKeeps ==
  ASSUME IInv, NEW w \in Workers, EnqueuePayment(w), UNCHANGED crashes
  PROVE  IInv'
<1>1. /\ pc[w] = "enqueue" /\ Holding(w) /\ ~Inserting(w)
      /\ OutboxEnqueue(doc[w].id, PaymentKind(doc[w])) /\ Goto(w, "save", doc[w])
      /\ UNCHANGED <<cases, orders, keys, now, notices, moneyVars, crashes>>
  BY DEF EnqueuePayment, Holding, Inserting
<1>2. /\ doc[w] \in Document /\ doc[w].id \in Cases /\ doc[w].status \in Durable
      /\ Unlabelled(doc[w]) /\ <<op[w], "enqueue">> \in CallsOf /\ TypeOK
  BY <1>1, HeldFacts DEF StatusAt
<1>3. PaymentKind(doc[w]) \in {"refund", "store_credit"}
  BY DEF PaymentKind
<1>4. /\ outbox' \in Seq(Entry)
      /\ moved \subseteq (1..Len(outbox'))
      /\ batch \in [Workers -> SUBSET (1..Len(outbox'))]
  BY <1>1, <1>2, <1>3, EnqueueFacts DEF TypeOK
<1>5. WorldTypeOK'
  BY <1>1, <1>2, <1>4
    DEF TypeOK, StepTypeOK, WorldTypeOK, StoreTypeOK, SettlementTypeOK, moneyVars
<1>6. "save" \in Calls /\ <<op[w], "save">> \in CallsOf /\ op[w] # "create"
  BY <1>2 DEF Calls, CallsOf
<1>7. doc[w].status \in StatusAt("save")
  BY <1>2 DEF StatusAt
<1>8. \A s \in Durable :
        MayBecome(pc[w], s, doc[w].status) => MayBecome("save", s, doc[w].status)
  BY <1>1 DEF MayBecome
<1>9. IsPrefix(doc[w].events, doc[w].events)
  BY <1>2, PrefixReflexive DEF Document
<1> QED
  BY <1>1, <1>2, <1>5, <1>6, <1>7, <1>8, <1>9, StepKeeps

\* The steps of a flush, its own request's or the one inside _settle.
LEMMA FlushStepKeeps ==
  ASSUME IInv, NEW w \in Workers,
         pc[w] \in {"list", "pay", "mark_executed", "mark_pending"},
         NEW call \in {"pay", "mark_executed", "mark_pending"}, Goto(w, call, doc[w]),
         cases' = cases, WorldTypeOK'
  PROVE  IInv'
<1>1. LocalTypeOK /\ doc[w] \in Document /\ <<op[w], pc[w]>> \in CallsOf
  BY DEF IInv, TypeOK, StepTypeOK, LocalTypeOK, FitOK
<1>2. op[w] \in {"inspect", "flush"} /\ call \in Calls
  BY <1>1 DEF CallsOf, Calls
<1>3. <<op[w], call>> \in CallsOf
  BY <1>2 DEF CallsOf
<1>4. CASE op[w] = "inspect"
  <2>1. Holding(w) /\ ~Inserting(w)
    BY <1>4 DEF Holding, Inserting
  <2>2. doc[w].status \in StatusAt(call) /\ Unlabelled(doc[w])
    BY <2>1, HeldFacts DEF StatusAt
  <2>3. \A s \in Durable :
          MayBecome(pc[w], s, doc[w].status) => MayBecome(call, s, doc[w].status)
    BY DEF MayBecome
  <2>4. IsPrefix(doc[w].events, doc[w].events)
    BY <1>1, PrefixReflexive DEF Document
  <2> QED
    BY <1>1, <1>2, <1>3, <2>1, <2>2, <2>3, <2>4, StepKeeps
<1>5. CASE op[w] = "flush"
  <2>1. /\ LocalTypeOK' /\ OnlyLocalsOf(w)
        /\ op'[w] = op[w] /\ pc'[w] = call /\ doc'[w] = doc[w] /\ rest'[w] = rest[w]
    BY <1>1, <1>2, GotoFacts
  <2>2. KeepsApart(w) /\ FitOK(w)' /\ ~Holding(w)'
    BY <1>3, <1>5, <2>1 DEF KeepsApart, FitOK, Holding
  <2>3. RestOK(w)'
    BY <2>1 DEF RestOK, IInv
  <2> QED
    BY <2>1, <2>2, <2>3, UnheldKeeps
<1> QED
  BY <1>2, <1>4, <1>5

\* flush_outbox lists the entries and touches no case.
LEMMA ListPendingKeeps ==
  ASSUME IInv, NEW w \in Workers, ListPending(w), UNCHANGED crashes
  PROVE  IInv'
<1>1. /\ pc[w] = "list" /\ Goto(w, "pay", doc[w])
      /\ batch' = [batch EXCEPT ![w] = OutboxPending]
      /\ UNCHANGED <<storeVars, now, notices, moved, replaced, crashes>>
  BY DEF ListPending
<1>2. TypeOK /\ OutboxPending \subseteq 1..Len(outbox)
  BY DEF IInv, TypeOK, StoreTypeOK, OutboxPending
<1>3. cases' = cases /\ WorldTypeOK'
  BY <1>1, <1>2
    DEF TypeOK, StepTypeOK, WorldTypeOK, StoreTypeOK, SettlementTypeOK, storeVars
<1> QED
  BY <1>1, <1>3, FlushStepKeeps

\* Nor does the gateway.
LEMMA PayKeeps ==
  ASSUME IInv, NEW w \in Workers, Pay(w), UNCHANGED crashes
  PROVE  IInv'
<1>1. PICK e \in batch[w] : PayEntry(w, e)
  BY DEF Pay
<1>2. pc[w] = "pay" /\ UNCHANGED <<storeVars, now, notices, replaced, batch, crashes>>
  BY <1>1 DEF PayEntry
<1>3. TypeOK /\ e \in 1..Len(outbox)
  BY DEF IInv, TypeOK, SettlementTypeOK
<1>4. moved' \subseteq moved \cup {e}
      /\ \E call \in {"mark_executed", "mark_pending"} : Goto(w, call, doc[w])
  BY <1>1 DEF PayEntry
<1>5. cases' = cases /\ WorldTypeOK'
  BY <1>2, <1>3, <1>4
    DEF TypeOK, StepTypeOK, WorldTypeOK, StoreTypeOK, SettlementTypeOK, storeVars
<1> QED
  BY <1>2, <1>4, <1>5, FlushStepKeeps

\* Nor does outbox_mark.
LEMMA MarkKeeps ==
  ASSUME IInv, NEW w \in Workers, UNCHANGED crashes,
         NEW call \in {"mark_executed", "mark_pending"},
         NEW s \in {"pending", "executed"}, MarkAs(w, call, s)
  PROVE  IInv'
<1>1. PICK e \in batch[w] : /\ OutboxMark(e, s)
                            /\ batch' = [batch EXCEPT ![w] = @ \ {e}]
  BY DEF MarkAs, Oldest
<1>2. pc[w] = call /\ Goto(w, "pay", doc[w])
      /\ UNCHANGED <<cases, orders, keys, now, notices, moved, replaced, crashes>>
  BY DEF MarkAs
<1>3. TypeOK /\ e \in 1..Len(outbox) /\ outbox \in Seq(Entry)
  BY DEF IInv, TypeOK, SettlementTypeOK, StoreTypeOK
<1>4. outbox' \in Seq(Entry) /\ Len(outbox') = Len(outbox)
  <2>1. outbox[e] \in Entry
    BY <1>3
  <2>2. [outbox[e] EXCEPT !.status = s] \in Entry
    BY <2>1 DEF Entry
  <2>3. outbox' = [outbox EXCEPT ![e] = [outbox[e] EXCEPT !.status = s]]
    BY <1>1 DEF OutboxMark
  <2> QED
    BY <1>3, <2>2, <2>3
<1>5. WorldTypeOK'
  BY <1>1, <1>2, <1>3, <1>4
    DEF TypeOK, StepTypeOK, WorldTypeOK, StoreTypeOK, SettlementTypeOK
<1> QED
  BY <1>2, <1>5, FlushStepKeeps

\* The flush ends, or its inspection goes on with the case it holds.
LEMMA EndFlushKeeps ==
  ASSUME IInv, NEW w \in Workers, EndFlush(w), UNCHANGED crashes
  PROVE  IInv'
<1>1. pc[w] = "pay" /\ UNCHANGED <<storeVars, now, notices, moneyVars, crashes>>
  BY DEF EndFlush
<1>2. cases' = cases /\ WorldTypeOK'
  BY <1>1, WorldSame DEF storeVars, IInv
<1>3. CASE Finish(w)
  BY <1>2, <1>3, RowsSame, FinishKeeps
<1>4. CASE op[w] = "inspect"
  <2>1. Holding(w) /\ ~Inserting(w) /\ Goto(w, "notify", doc[w])
    BY <1>4 DEF Holding, Inserting, EndFlush
  <2>2. doc[w] \in Document /\ doc[w].status \in StatusAt("notify") /\ Unlabelled(doc[w])
    BY <1>1, <2>1, HeldFacts DEF StatusAt
  <2>3. "notify" \in Calls /\ <<op[w], "notify">> \in CallsOf
    BY <1>4 DEF Calls, CallsOf
  <2>4. \A s \in Durable :
          MayBecome(pc[w], s, doc[w].status) => MayBecome("notify", s, doc[w].status)
    BY <1>1 DEF MayBecome
  <2>5. IsPrefix(doc[w].events, doc[w].events)
    BY <2>2, PrefixReflexive DEF Document
  <2> QED
    BY <1>2, <1>4, <2>1, <2>2, <2>3, <2>4, <2>5, StepKeeps
<1> QED
  BY <1>3, <1>4 DEF EndFlush

\* A flush begins with no case.
LEMMA StartFlushKeeps ==
  ASSUME IInv, NEW w \in Workers, StartFlush(w), UNCHANGED crashes
  PROVE  IInv'
<1>1. Begin(w, "flush", "list", doc[w])
      /\ UNCHANGED <<storeVars, now, notices, moneyVars, crashes>>
  BY DEF StartFlush
<1>2. cases' = cases /\ WorldTypeOK'
  BY <1>1, WorldSame DEF storeVars, IInv
<1>3. LocalTypeOK /\ doc[w] \in Document /\ "flush" \in Ops /\ "list" \in Calls
      /\ <<"flush", "list">> \in CallsOf
  BY DEF IInv, TypeOK, StepTypeOK, LocalTypeOK, Ops, Calls, CallsOf
<1>4. /\ LocalTypeOK' /\ OnlyLocalsOf(w)
      /\ op'[w] = "flush" /\ pc'[w] = "list" /\ doc'[w] = doc[w] /\ rest'[w] = rest[w]
  BY <1>1, <1>3, BeginFacts
<1>5. KeepsApart(w) /\ FitOK(w)' /\ ~Holding(w)'
  BY <1>3, <1>4 DEF KeepsApart, FitOK, Holding
<1>6. RestOK(w)'
  BY <1>2, <1>4 DEF RestOK, IInv
<1> QED
  BY <1>2, <1>4, <1>5, <1>6, UnheldKeeps

-----------------------------------------------------------------------------
(* The sweep.                                                              *)

\* A sweep lists rows as they are.
LEMMA StartSweepKeeps ==
  ASSUME IInv, NEW w \in Workers, StartSweep(w), UNCHANGED <<moneyVars, crashes>>
  PROVE  IInv'
<1> DEFINE todo == {d \in ListByStatus("label_issued") : Stale(d)}
<1>1. /\ op' = [op EXCEPT ![w] = "sweep"] /\ pc' = [pc EXCEPT ![w] = "next"]
      /\ rest' = [rest EXCEPT ![w] = todo] /\ doc' = doc /\ ask' = ask
      /\ UNCHANGED <<storeVars, now, notices, moneyVars, crashes>>
  BY DEF StartSweep
<1>2. cases' = cases /\ WorldTypeOK'
  BY <1>1, WorldSame DEF storeVars, IInv
<1>3. LocalTypeOK /\ cases \in [Cases -> Document]
  BY DEF IInv, TypeOK, StepTypeOK, StoreTypeOK
<1>4. \A d \in todo : d \in Document /\ d.status = "label_issued"
                     /\ \E c \in Cases : Exists(c) /\ d = cases[c]
  BY <1>3 DEF ListByStatus
<1>5. \A d \in todo : /\ d.id \in Cases /\ d.req \in Requests /\ d = cases[d.id]
                     /\ d.version \in 1..cases[d.id].version
  <2>1. ASSUME NEW d \in todo
        PROVE  /\ d.id \in Cases /\ d.req \in Requests /\ d = cases[d.id]
               /\ d.version \in 1..cases[d.id].version
    <3>1. PICK c \in Cases : Exists(c) /\ d = cases[c]
      BY <1>4
    <3>2. d.id = c /\ d.req \in Requests
      BY <3>1, RowFacts
    <3>3. d.version \in Nat /\ d.version > 0
      BY <1>4, <3>1 DEF Exists, Document
    <3> QED
      BY <3>1, <3>2, <3>3
  <2> QED
    BY <2>1
<1>6. todo \in SUBSET Document
  BY <1>4
<1> HIDE DEF todo
<1>7. "sweep" \in Ops /\ "next" \in Calls /\ <<"sweep", "next">> \in CallsOf
  BY DEF Ops, Calls, CallsOf
<1>8. LocalTypeOK' /\ OnlyLocalsOf(w)
  BY <1>1, <1>3, <1>6, <1>7 DEF LocalTypeOK, OnlyLocalsOf
<1>9. op'[w] = "sweep" /\ pc'[w] = "next" /\ rest'[w] = todo /\ doc'[w] = doc[w]
  BY <1>1, <1>3 DEF LocalTypeOK
<1>10. KeepsApart(w) /\ FitOK(w)' /\ ~Holding(w)'
  BY <1>7, <1>9 DEF KeepsApart, FitOK, Holding
<1>11. RestOK(w)'
  <2>1. \A d \in todo : d.status = "label_issued"
    BY <1>4
  <2> QED
    BY <1>2, <1>5, <1>9, <2>1 DEF RestOK
<1> QED
  BY <1>2, <1>8, <1>10, <1>11, UnheldKeeps

\* It goes on to a case it has listed, whose row may have changed since.
LEMMA SweepNextKeeps ==
  ASSUME IInv, NEW w \in Workers, SweepNext(w), UNCHANGED <<moneyVars, crashes>>
  PROVE  IInv'
<1>1. pc[w] = "next" /\ UNCHANGED <<storeVars, now, notices, moneyVars, crashes>>
  BY DEF SweepNext
<1>2. cases' = cases /\ WorldTypeOK'
  BY <1>1, WorldSame DEF storeVars, IInv
<1>3. CASE Finish(w)
  BY <1>2, <1>3, RowsSame, FinishKeeps
<1>4. ASSUME NEW b \in rest[w],
             CanMove(b.status, "expired"),
             pc' = [pc EXCEPT ![w] = "save"],
             doc' = [doc EXCEPT ![w] = Transitioned(b, "expired")],
             rest' = [rest EXCEPT ![w] = @ \ {b}],
             UNCHANGED <<op, ask>>
      PROVE  IInv'
  <2> DEFINE d == Transitioned(b, "expired")
  <2>1. LocalTypeOK /\ cases \in [Cases -> Document] /\ now \in Nat
    BY MaxNowAssumption DEF IInv, TypeOK, StepTypeOK, StoreTypeOK
  <2>2. /\ b \in Document /\ b.id \in Cases /\ b.req \in Requests
        /\ b.status = "label_issued"
        /\ b.version \in 1..cases[b.id].version
        /\ b.version = cases[b.id].version => b = cases[b.id]
    BY <2>1 DEF IInv, RestOK, LocalTypeOK
  <2>3. "expired" \in ReturnStatus /\ "expired" \in Durable
    BY DEF ReturnStatus, Durable, InMemoryOnly
  <2>4. d \in Document /\ d.status = "expired" /\ Amends(d, b)
    BY <2>1, <2>2, <2>3, TransitionedFacts
  <2>5. op[w] = "sweep" /\ <<"sweep", "save">> \in CallsOf /\ "save" \in Calls
    <3>1. op[w] = "sweep"
      BY <1>1, CallerFacts DEF IInv, FitOK
    <3> QED
      BY <3>1 DEF CallsOf, Calls
  <2>6. doc' = [doc EXCEPT ![w] = d]
    BY <1>4
  <2> HIDE DEF d
  <2>7. LocalTypeOK' /\ OnlyLocalsOf(w)
    BY <1>4, <2>1, <2>4, <2>5, <2>6 DEF LocalTypeOK, OnlyLocalsOf
  <2>8. /\ op'[w] = "sweep" /\ pc'[w] = "save" /\ doc'[w] = d
        /\ rest'[w] \subseteq rest[w]
    BY <1>4, <2>1, <2>5, <2>6 DEF LocalTypeOK
  <2>9. d.id = b.id /\ d.req = b.req /\ d.version = b.version /\ d.label = b.label
        /\ IsPrefix(b.events, d.events)
    BY <2>4 DEF Amends
  <2>10. Exists(b.id)
    <3>1. cases[b.id].version \in Nat
      BY <2>1, <2>2 DEF Document
    <3> QED
      BY <2>2, <3>1 DEF Exists
  <2>11. KeepsApart(w)
    BY <2>2, <2>8, <2>9, <2>10 DEF KeepsApart
  <2>12. FitOK(w)' /\ InsertOK(w)'
    BY <2>5, <2>8 DEF FitOK, InsertOK, Inserting
  <2>13. HeldOK(w)'
    BY <2>2, <2>3, <2>4, <2>8, <2>9 DEF HeldOK, StatusAt, Unlabelled
  <2>14. FollowOK(w)'
    <3>1. <<"label_issued", "expired">> \in DurableMoves
      BY <1>4, <2>2, <2>3, DirectMoves DEF Durable, ReturnStatus, InMemoryOnly
    <3>2. d.version = cases[d.id].version => Continues("save", cases[d.id], d)
      BY <2>2, <2>4, <2>9, <3>1 DEF Continues, MayBecome
    <3>3. d.version \in 1..cases[d.id].version
      BY <2>2, <2>9
    <3> QED
      BY <1>2, <2>8, <3>2, <3>3 DEF FollowOK
  <2>15. (\A c \in Cases : RowOK(c)') /\ SavesOnlyOf(w)
    BY <1>2, RowsSame
  <2>16. RestOK(w)'
    BY <1>2, <2>1, <2>8, <2>15, RestKeeps
  <2>17. WorkerOK(w)'
    BY <2>12, <2>13, <2>14, <2>16 DEF WorkerOK
  <2> QED
    BY <1>2, <2>7, <2>11, <2>15, <2>17, OwnPartSuffices
<1> QED
  BY <1>3, <1>4 DEF SweepNext

-----------------------------------------------------------------------------
(* Intake.                                                                 *)

\* create_return begins with no case.
LEMMA StartCreateKeeps ==
  ASSUME IInv, NEW w \in Workers, NEW r \in Requests, NEW k \in HeaderValues,
         StartCreate(w, r, k), UNCHANGED <<moneyVars, crashes>>
  PROVE  IInv'
<1> DEFINE call == IF k = None THEN "order" ELSE "lookup"
           a == [req |-> r, key |-> k, book |-> None]
<1>1. /\ op' = [op EXCEPT ![w] = "create"] /\ pc' = [pc EXCEPT ![w] = call]
      /\ ask' = [ask EXCEPT ![w] = a] /\ doc' = doc /\ rest' = rest
      /\ UNCHANGED <<storeVars, now, notices, moneyVars, crashes>>
  BY DEF StartCreate
<1>2. cases' = cases /\ WorldTypeOK'
  BY <1>1, WorldSame DEF storeVars, IInv
<1>3. a \in Ask /\ a.req = r
  BY HeaderAssumption DEF Ask
<1>4. /\ call \in {"order", "lookup"} /\ "create" \in Ops /\ call \in Calls
      /\ <<"create", call>> \in CallsOf
  BY DEF Ops, Calls, CallsOf
<1>5. LocalTypeOK
  BY DEF IInv, TypeOK, StepTypeOK
<1> HIDE DEF a, call
<1>6. LocalTypeOK' /\ OnlyLocalsOf(w)
  BY <1>1, <1>3, <1>4, <1>5 DEF LocalTypeOK, OnlyLocalsOf
<1>7. /\ op'[w] = "create" /\ pc'[w] = call /\ ask'[w].req = r
      /\ doc'[w] = doc[w] /\ rest'[w] = rest[w]
  BY <1>1, <1>3, <1>5 DEF LocalTypeOK
<1>8. KeepsApart(w) /\ FitOK(w)' /\ ~Holding(w)'
  BY <1>4, <1>7 DEF KeepsApart, FitOK, Holding
<1>9. RestOK(w)'
  BY <1>2, <1>7 DEF RestOK, IInv
<1> QED
  BY <1>2, <1>6, <1>8, <1>9, UnheldKeeps

\* It looks its key up and has no case yet.
LEMMA LookupKeyKeeps ==
  ASSUME IInv, NEW w \in Workers, LookupKey(w), UNCHANGED <<moneyVars, crashes>>
  PROVE  IInv'
<1>1. pc[w] = "lookup" /\ UNCHANGED <<storeVars, now, notices, moneyVars, crashes>>
  BY DEF LookupKey
<1>2. cases' = cases /\ WorldTypeOK'
  BY <1>1, WorldSame DEF storeVars, IInv
<1>3. CASE Finish(w)
  BY <1>2, <1>3, RowsSame, FinishKeeps
<1>4. CASE Goto(w, "order", doc[w])
  <2>1. LocalTypeOK /\ doc[w] \in Document /\ "order" \in Calls
    BY DEF IInv, TypeOK, StepTypeOK, LocalTypeOK, Calls
  <2>2. /\ LocalTypeOK' /\ OnlyLocalsOf(w) /\ op'[w] = op[w] /\ pc'[w] = "order"
        /\ doc'[w] = doc[w] /\ ask'[w] = ask[w] /\ rest'[w] = rest[w]
    BY <1>4, <2>1, GotoFacts
  <2>3. op[w] = "create" /\ ask[w].req \in Requests /\ <<"create", "order">> \in CallsOf
    <3>1. op[w] = "create" /\ ask[w].req \in Requests
      BY <1>1, CallerFacts DEF IInv, FitOK
    <3> QED
      BY <3>1 DEF CallsOf
  <2>4. KeepsApart(w) /\ FitOK(w)' /\ ~Holding(w)'
    BY <2>2, <2>3 DEF KeepsApart, FitOK, Holding
  <2>5. RestOK(w)'
    BY <1>2, <2>2 DEF RestOK, IInv
  <2> QED
    BY <1>2, <2>2, <2>4, <2>5, UnheldKeeps
<1> QED
  BY <1>3, <1>4 DEF LookupKey

\* Nor has it one when it reads the order.
LEMMA ReadOrderKeeps ==
  ASSUME IInv, NEW w \in Workers, ReadOrder(w), UNCHANGED <<moneyVars, crashes>>
  PROVE  IInv'
<1> DEFINE book == orders[ask[w].req.order]
<1>1. pc[w] = "order" /\ UNCHANGED <<storeVars, now, notices, moneyVars, crashes>>
  BY DEF ReadOrder
<1>2. cases' = cases /\ WorldTypeOK'
  BY <1>1, WorldSame DEF storeVars, IInv
<1>3. CASE Finish(w)
  BY <1>2, <1>3, RowsSame, FinishKeeps
<1>4. CASE /\ ask' = [ask EXCEPT ![w].book = book]
           /\ pc' = [pc EXCEPT ![w] = "check"]
           /\ UNCHANGED <<op, doc, rest>>
  <2>1. LocalTypeOK /\ orders \in [OrderIds -> Books \cup {None}]
    BY DEF IInv, TypeOK, StepTypeOK, StoreTypeOK
  <2>2. op[w] = "create" /\ ask[w].req \in Requests /\ <<"create", "check">> \in CallsOf
    <3>1. op[w] = "create" /\ ask[w].req \in Requests
      BY <1>1, CallerFacts DEF IInv, FitOK
    <3> QED
      BY <3>1 DEF CallsOf
  <2>3. book \in Books \cup {None}
    BY <2>1, <2>2, RequestsAssumption
  <2> HIDE DEF book
  <2>4. [ask[w] EXCEPT !.book = book] \in Ask /\ [ask[w] EXCEPT !.book = book].req = ask[w].req
    BY <2>1, <2>3 DEF LocalTypeOK, Ask
  <2>5. ask' = [ask EXCEPT ![w] = [ask[w] EXCEPT !.book = book]] /\ "check" \in Calls
    BY <1>4 DEF Calls
  <2>6. LocalTypeOK' /\ OnlyLocalsOf(w)
    BY <1>4, <2>1, <2>4, <2>5 DEF LocalTypeOK, OnlyLocalsOf
  <2>7. /\ op'[w] = op[w] /\ pc'[w] = "check" /\ ask'[w].req = ask[w].req
        /\ doc'[w] = doc[w] /\ rest'[w] = rest[w]
    BY <1>4, <2>1, <2>4, <2>5 DEF LocalTypeOK
  <2>8. KeepsApart(w) /\ FitOK(w)' /\ ~Holding(w)'
    BY <2>2, <2>7 DEF KeepsApart, FitOK, Holding
  <2>9. RestOK(w)'
    BY <1>2, <2>7 DEF RestOK, IInv
  <2> QED
    BY <1>2, <2>6, <2>8, <2>9, UnheldKeeps
<1> QED
  BY <1>3, <1>4 DEF ReadOrder

\* The case create_return builds.
LEMMA NewCaseFacts ==
  ASSUME NEW c \in Cases, NEW r \in Requests, NEW s \in ReturnStatus, now \in Nat
  PROVE  LET d == Transitioned(NewCase(c, r), s) IN
           /\ d \in Document /\ d.id = c /\ d.req = r /\ d.version = 0
           /\ d.status = s /\ d.label = None
<1> DEFINE a == [NoDocument EXCEPT !.id = c, !.req = r, !.status = "requested"]
           b == NewCase(c, r)
<1>1. a \in Document /\ a.id = c /\ a.req = r /\ a.version = 0 /\ a.label = None
  <2>1. "requested" \in ReturnStatus
    BY DEF ReturnStatus
  <2>2. NoDocument \in Document /\ NoDocument.version = 0 /\ NoDocument.label = None
    BY NoDocumentFacts DEF NoDocument
  <2> QED
    BY <2>1, <2>2 DEF Document
<1>2. b = AddEvent(a, "return_requested", now) /\ "return_requested" \in EventName
  BY DEF NewCase, EventName
<1> HIDE DEF a, b
<1>3. b \in Document /\ Amends(b, a)
  BY <1>1, <1>2, AddEventFacts
<1>4. /\ Transitioned(b, s) \in Document /\ Transitioned(b, s).status = s
      /\ Amends(Transitioned(b, s), b)
  BY <1>3, TransitionedFacts
<1> QED
  BY <1>1, <1>3, <1>4 DEF Amends, b

\* It builds a case with an id nobody has.
LEMMA CheckAndDecideKeeps ==
  ASSUME IInv, NEW w \in Workers, CheckAndDecide(w), UNCHANGED <<moneyVars, crashes>>
  PROVE  IInv'
<1>1. pc[w] = "check" /\ UNCHANGED <<storeVars, now, notices, moneyVars, crashes>>
  BY DEF CheckAndDecide
<1>2. cases' = cases /\ WorldTypeOK'
  BY <1>1, WorldSame DEF storeVars, IInv
<1>3. CASE Finish(w)
  BY <1>2, <1>3, RowsSame, FinishKeeps
<1>4. ASSUME NEW c \in Cases, NEW s \in Decisions, Fresh(c),
             Goto(w, IF s = "approved" THEN "label" ELSE "save",
                  Transitioned(NewCase(c, ask[w].req), s))
      PROVE  IInv'
  <2> DEFINE d == Transitioned(NewCase(c, ask[w].req), s)
             call == IF s = "approved" THEN "label" ELSE "save"
  <2>1. LocalTypeOK /\ now \in Nat
    BY MaxNowAssumption DEF IInv, TypeOK, StepTypeOK
  <2>2. op[w] = "create" /\ ask[w].req \in Requests
    BY <1>1, CallerFacts DEF IInv, FitOK
  <2>3. s \in ReturnStatus
    BY DEF Decisions, ReturnStatus
  <2>4. /\ d \in Document /\ d.id = c /\ d.req = ask[w].req /\ d.version = 0
        /\ d.status = s /\ d.label = None
    BY <2>1, <2>2, <2>3, NewCaseFacts
  <2>5. call \in {"label", "save"} /\ call \in Calls /\ <<"create", call>> \in CallsOf
    BY DEF Calls, CallsOf
  <2>6. s \in StatusAt(call) /\ s \in FirstStatuses \cup {"approved"}
    BY DEF StatusAt, Decisions, FirstStatuses, Durable, ReturnStatus, InMemoryOnly
  <2>7. Goto(w, call, d)
    BY <1>4
  <2> HIDE DEF d, call
  <2>8. /\ LocalTypeOK' /\ OnlyLocalsOf(w) /\ op'[w] = op[w] /\ pc'[w] = call
        /\ doc'[w] = d /\ rest'[w] = rest[w]
    BY <2>1, <2>4, <2>5, <2>7, GotoFacts
  <2>9. KeepsApart(w)
    BY <1>4, <2>4, <2>8 DEF KeepsApart, Fresh
  <2>10. FitOK(w)'
    BY <2>2, <2>5, <2>8 DEF FitOK
  <2>11. HeldOK(w)'
    BY <2>2, <2>4, <2>6, <2>8 DEF HeldOK, Unlabelled
  <2>12. FollowOK(w)'
    BY <2>2, <2>5, <2>8 DEF FollowOK, Inserting
  <2>13. InsertOK(w)'
    <3>1. ~Exists(c) /\ \A v \in Workers \ {w} : doc'[v].id # c
      BY <1>4, <2>8 DEF Fresh, OnlyLocalsOf
    <3> QED
      BY <1>2, <2>4, <2>6, <2>8, <3>1 DEF InsertOK, Exists
  <2>14. RestOK(w)'
    BY <1>2, <2>8 DEF RestOK, IInv
  <2>15. WorkerOK(w)'
    BY <2>10, <2>11, <2>12, <2>13, <2>14 DEF WorkerOK
  <2>16. (\A x \in Cases : RowOK(x)') /\ SavesOnlyOf(w)
    BY <1>2, RowsSame
  <2> QED
    BY <1>2, <2>8, <2>9, <2>15, <2>16, OwnPartSuffices
<1> QED
  BY <1>3, <1>4 DEF CheckAndDecide

\* It records its key and goes on with the case it saved.
LEMMA RecordKeyKeeps ==
  ASSUME IInv, NEW w \in Workers, RecordKey(w), UNCHANGED <<moneyVars, crashes>>
  PROVE  IInv'
<1>1. /\ pc[w] = "record" /\ Holding(w) /\ ~Inserting(w)
      /\ keys' = RecordedKey(ask[w].key, doc[w].id)
      /\ UNCHANGED <<cases, orders, outbox, now, notices, moneyVars, crashes>>
  BY DEF RecordKey, Holding, Inserting
<1>2. /\ doc[w] \in Document /\ doc[w].id \in Cases /\ doc[w].status \in Durable
      /\ Unlabelled(doc[w]) /\ <<op[w], "record">> \in CallsOf /\ TypeOK
  BY <1>1, HeldFacts DEF StatusAt
<1>3. keys' \in [Keys -> Cases \cup {None}]
  BY <1>1, <1>2 DEF RecordedKey, TypeOK, StoreTypeOK
<1>4. WorldTypeOK'
  BY <1>1, <1>2, <1>3
    DEF TypeOK, StepTypeOK, WorldTypeOK, StoreTypeOK, SettlementTypeOK, moneyVars
<1>5. CASE Finish(w)
  BY <1>1, <1>4, <1>5, RowsSame, FinishKeeps
<1>6. CASE Goto(w, "notify", doc[w])
  <2>1. "notify" \in Calls /\ <<op[w], "notify">> \in CallsOf
    BY <1>2 DEF Calls, CallsOf
  <2>2. doc[w].status \in StatusAt("notify")
    BY <1>2 DEF StatusAt
  <2>3. \A s \in Durable :
          MayBecome(pc[w], s, doc[w].status) => MayBecome("notify", s, doc[w].status)
    BY <1>1 DEF MayBecome
  <2>4. IsPrefix(doc[w].events, doc[w].events)
    BY <1>2, PrefixReflexive DEF Document
  <2> QED
    BY <1>1, <1>2, <1>4, <1>6, <2>1, <2>2, <2>3, <2>4, StepKeeps
<1> QED
  BY <1>5, <1>6 DEF RecordKey

-----------------------------------------------------------------------------
(* The rest of the world, and the theorem.                                 *)

\* register_order touches no case.
LEMMA RegisterKeeps ==
  ASSUME IInv, NEW o \in OrderIds, NEW b \in Books, RegisterOrder(o, b),
         UNCHANGED <<moneyVars, crashes>>
  PROVE  IInv'
<1>1. /\ orders' = [orders EXCEPT ![o] = b]
      /\ UNCHANGED <<cases, keys, outbox, now, notices, workerVars, moneyVars, crashes>>
  BY DEF RegisterOrder, PutOrder
<1>2. TypeOK
  BY DEF IInv
<1>3. orders' \in [OrderIds -> Books \cup {None}]
  BY <1>1, <1>2 DEF TypeOK, StoreTypeOK
<1>4. WorldTypeOK'
  BY <1>1, <1>2, <1>3
    DEF TypeOK, StepTypeOK, WorldTypeOK, StoreTypeOK, SettlementTypeOK, moneyVars
<1> QED
  BY <1>1, <1>4, WorldStepKeeps

\* Time touches none.
LEMMA TickKeeps ==
  ASSUME IInv, Tick, UNCHANGED <<moneyVars, crashes>>
  PROVE  IInv'
<1>1. /\ now < MaxNow /\ now' = now + 1
      /\ UNCHANGED <<storeVars, notices, workerVars, moneyVars, crashes>>
  BY DEF Tick
<1>2. TypeOK /\ now \in 0..MaxNow
  BY DEF IInv, TypeOK, StepTypeOK
<1>3. now' \in 0..MaxNow
  BY <1>1, <1>2, MaxNowAssumption
<1>4. WorldTypeOK'
  BY <1>1, <1>2, <1>3
    DEF TypeOK, StepTypeOK, WorldTypeOK, StoreTypeOK, SettlementTypeOK, moneyVars, storeVars
<1>5. UNCHANGED <<cases, workerVars>>
  BY <1>1 DEF storeVars
<1> QED
  BY <1>4, <1>5, WorldStepKeeps

\* With every worker idle, only the rows and the types are left to say.
LEMMA IdleSuffices ==
  ASSUME TypeOK, \A c \in Cases : RowOK(c),
         \A w \in Workers : op[w] = "none" /\ pc[w] = "idle" /\ rest[w] = {}
  PROVE  IInv
<1>1. <<"none", "idle">> \in CallsOf
  BY DEF CallsOf
<1>2. ASSUME NEW w \in Workers
      PROVE  FitOK(w) /\ HeldOK(w) /\ FollowOK(w) /\ InsertOK(w) /\ RestOK(w)
  <2>1. ~Holding(w) /\ ~Inserting(w)
    BY DEF Holding, Inserting
  <2> QED
    BY <1>1, <2>1 DEF FitOK, HeldOK, FollowOK, InsertOK, RestOK
<1> QED
  BY <1>2 DEF IInv

\* Workers with nothing in their hands have locals of the right types.
LEMMA NobodyTypes ==
  ASSUME NobodyAtWork
  PROVE  LocalTypeOK
<1>1. NoAsk \in Ask
  BY DEF NoAsk, Ask
<1>2. "none" \in Ops /\ "idle" \in Calls /\ {} \in SUBSET Document
  BY DEF Ops, Calls
<1> QED
  BY <1>1, <1>2, NoDocumentFacts DEF LocalTypeOK, NobodyAtWork

\* After a crash no thread holds a case.
LEMMA CrashKeeps ==
  ASSUME IInv, Crash
  PROVE  IInv'
<1>1. TypeOK
  BY DEF IInv
<1>2. LocalTypeOK'
  <2>1. NoAsk \in Ask
    BY DEF NoAsk, Ask
  <2>2. "none" \in Ops /\ "idle" \in Calls /\ {} \in SUBSET Document
    BY DEF Ops, Calls
  <2> QED
    BY <2>1, <2>2, NoDocumentFacts DEF LocalTypeOK, Crash
<1>3. crashes' \in 0..MaxCrashes
  BY <1>1, MaxCrashesAssumption DEF Crash, TypeOK
<1>4. SettlementTypeOK'
  BY <1>1 DEF Crash, TypeOK, SettlementTypeOK, storeVars
<1>5. StoreTypeOK' /\ now' \in 0..MaxNow /\ notices' \subseteq (Cases \X ReturnStatus)
  BY <1>1 DEF Crash, TypeOK, StoreTypeOK, StepTypeOK, storeVars
<1>6. TypeOK'
  BY <1>2, <1>3, <1>4, <1>5 DEF TypeOK, StepTypeOK
<1>7. \A c \in Cases : RowOK(c)'
  BY RowsSame DEF Crash, storeVars
<1>8. ASSUME NEW w \in Workers
      PROVE  FitOK(w)' /\ HeldOK(w)' /\ FollowOK(w)' /\ InsertOK(w)' /\ RestOK(w)'
  <2>1. op'[w] = "none" /\ pc'[w] = "idle" /\ rest'[w] = {}
    BY DEF Crash
  <2> QED
    BY <2>1, IdlePart DEF WorkerOK
<1> QED
  BY <1>6, <1>7, <1>8 DEF IInv

\* The service starts in order.
LEMMA InitKeeps ==
  ASSUME Init
  PROVE  IInv
<1>1. LocalTypeOK
  BY NobodyTypes DEF Init, StepInit
<1>2. StoreTypeOK
  <2>1. <<>> \in Seq(Entry)
    OBVIOUS
  <2> QED
    BY <2>1, NoDocumentFacts DEF Init, StoreInit, StoreTypeOK
<1>3. SettlementTypeOK /\ crashes \in 0..MaxCrashes
  BY MaxCrashesAssumption DEF Init, SettlementInit, SettlementTypeOK
<1>4. StepTypeOK
  BY <1>1, MaxNowAssumption DEF Init, StepInit, StepTypeOK
<1>5. TypeOK
  BY <1>2, <1>3, <1>4 DEF TypeOK
<1>6. \A c \in Cases : RowOK(c)
  BY DEF Init, StoreInit, RowOK, Exists, NoDocument
<1>7. \A w \in Workers : op[w] = "none" /\ pc[w] = "idle" /\ rest[w] = {}
  BY DEF Init, StepInit, NobodyAtWork
<1> QED
  BY <1>5, <1>6, <1>7, IdleSuffices

\* Every step keeps the invariant: one case for each action.
LEMMA NextKeeps ==
  ASSUME IInv, [Next]_vars
  PROVE  IInv'
<1>1. ASSUME NEW w \in Workers, Arrival(w), UNCHANGED crashes
      PROVE  IInv'
  <2>1. CASE \E r \in Requests, k \in HeaderValues : StartCreate(w, r, k) /\ UNCHANGED moneyVars
    BY <1>1, <2>1, StartCreateKeeps
  <2>2. CASE \E c \in Cases, s \in {"approved", "rejected"} :
               StartReview(w, c, s) /\ UNCHANGED moneyVars
    BY <1>1, <2>2, StartReviewKeeps
  <2>3. CASE \E c \in Cases : StartCancel(w, c) /\ UNCHANGED moneyVars
    BY <1>1, <2>3, StartCancelKeeps
  <2>4. CASE \E t \in Labels, s \in {"in_transit", "received"} :
               StartCarrierMove(w, t, s) /\ UNCHANGED moneyVars
    BY <1>1, <2>4, StartCarrierMoveKeeps
  <2>5. CASE \E t \in Labels : StartCarrierNote(w, t) /\ UNCHANGED moneyVars
    BY <1>1, <2>5, StartCarrierNoteKeeps
  <2>6. CASE StartSweep(w) /\ UNCHANGED moneyVars
    BY <1>1, <2>6, StartSweepKeeps
  <2>7. CASE \E c \in Cases : StartFailedInspection(w, c)
    BY <1>1, <2>7, StartFailedInspectionKeeps
  <2>8. CASE \E c \in Cases : StartPassedInspection(w, c)
    BY <1>1, <2>8, StartPassedInspectionKeeps
  <2>9. CASE StartFlush(w)
    BY <1>1, <2>9, StartFlushKeeps
  <2> QED
    BY <1>1, <2>1, <2>2, <2>3, <2>4, <2>5, <2>6, <2>7, <2>8, <2>9 DEF Arrival, CreateReturn, CaseCall,
     CarrierWebhook, InternalCall
<1>2. ASSUME NEW w \in Workers, Progress(w), UNCHANGED crashes
      PROVE  IInv'
  <2>1. CASE LookupKey(w) /\ UNCHANGED moneyVars
    BY <1>2, <2>1, LookupKeyKeeps
  <2>2. CASE ReadOrder(w) /\ UNCHANGED moneyVars
    BY <1>2, <2>2, ReadOrderKeeps
  <2>3. CASE CheckAndDecide(w) /\ UNCHANGED moneyVars
    BY <1>2, <2>3, CheckAndDecideKeeps
  <2>4. CASE RecordKey(w) /\ UNCHANGED moneyVars
    BY <1>2, <2>4, RecordKeyKeeps
  <2>5. CASE SweepNext(w) /\ UNCHANGED moneyVars
    BY <1>2, <2>5, SweepNextKeeps
  <2>6. CASE IssueLabel(w) /\ UNCHANGED moneyVars
    BY <1>2, <2>6, IssueLabelKeeps
  <2>7. CASE SaveCase(w) /\ UNCHANGED moneyVars
    BY <1>2, <2>7, SaveCaseKeeps
  <2>8. CASE Notify(w) /\ UNCHANGED moneyVars
    BY <1>2, <2>8, NotifyKeeps
  <2>9. CASE NoteNotice(w) /\ UNCHANGED moneyVars
    BY <1>2, <2>9, NoteNoticeKeeps
  <2>10. CASE CreateReplacement(w)
    BY <1>2, <2>10, CreateReplacementKeeps
  <2>11. CASE EnqueuePayment(w)
    BY <1>2, <2>11, EnqueuePaymentKeeps
  <2>12. CASE ListPending(w)
    BY <1>2, <2>12, ListPendingKeeps
  <2>13. CASE Pay(w)
    BY <1>2, <2>13, PayKeeps
  <2>14. CASE MarkExecuted(w)
    BY <1>2, <2>14, MarkKeeps DEF MarkExecuted
  <2>15. CASE MarkPending(w)
    BY <1>2, <2>15, MarkKeeps DEF MarkPending
  <2>16. CASE EndFlush(w)
    BY <1>2, <2>16, EndFlushKeeps
  <2> QED
    BY <1>2, <2>1, <2>2, <2>3, <2>4, <2>5, <2>6, <2>7, <2>8, <2>9, <2>10, <2>11,
       <2>12, <2>13, <2>14, <2>15, <2>16 DEF Progress
<1>3. CASE Register /\ UNCHANGED <<moneyVars, crashes>>
  BY <1>3, RegisterKeeps DEF Register
<1>4. CASE Tick /\ UNCHANGED <<moneyVars, crashes>>
  BY <1>4, TickKeeps
<1>5. CASE Crash
  BY <1>5, CrashKeeps
<1>6. CASE UNCHANGED vars
  <2>1. UNCHANGED <<cases, workerVars>> /\ WorldTypeOK'
    BY <1>6, WorldSame DEF IInv, vars, storeVars
  <2> QED
    BY <2>1, WorldStepKeeps
<1> QED
  BY <1>1, <1>2, <1>3, <1>4, <1>5, <1>6 DEF Next

\* The invariant holds of every behaviour.
THEOREM InvariantHolds == Spec => []IInv
<1>1. Init => IInv
  BY InitKeeps
<1>2. IInv /\ [Next]_vars => IInv'
  BY NextKeeps
<1> QED
  BY <1>1, <1>2, PTL DEF Spec

\* Every variable keeps to its type.
THEOREM TypeCorrect == Spec => []TypeOK
<1>1. IInv => TypeOK
  BY DEF IInv
<1> QED
  BY <1>1, InvariantHolds, PTL
=============================================================================

--------------------------- MODULE ServiceInvariant ---------------------------
(***************************************************************************)
(* The inductive invariant behind the safety properties of the service.    *)
(* Its heart is what a thread's copy of a case has to do with the row: the *)
(* copy is never newer than the row, and while the two have the same       *)
(* version the copy continues the row, so that the save the version check  *)
(* lets through extends the trail and makes a legal move.                  *)
(***************************************************************************)
EXTENDS ServiceProperties, CaseCopies

\* Which calls the handler of each operation makes.  (A cancelled case is
\* never announced; the invariant does not need to know.)
CallsOf ==
  UNION {{"none"} \X {"idle"},
         {"create"} \X {"lookup", "order", "check", "label", "save", "record",
                        "notify", "note"},
         {"review"} \X {"label", "save", "notify", "note"},
         {"cancel"} \X {"save", "notify", "note"},
         {"carrier"} \X {"save"},
         {"sweep"} \X {"next", "save", "notify", "note"},
         {"inspect"} \X {"replace", "enqueue", "save", "list", "pay",
                         "mark_executed", "mark_pending", "notify", "note"},
         {"flush"} \X {"list", "pay", "mark_executed", "mark_pending"}}

\* The thread holds a case of its own.
Holding(w) ==
  \/ pc[w] \in {"label", "save", "record", "notify", "note", "replace", "enqueue"}
  \/ op[w] = "inspect"

\* The case it holds is not in the table yet.
Inserting(w) == op[w] = "create" /\ pc[w] \in {"label", "save"}

-----------------------------------------------------------------------------
FitOK(w) ==
  /\ <<op[w], pc[w]>> \in CallsOf
  /\ pc[w] \in {"lookup", "order", "check"} => ask[w].req \in Requests

HeldOK(w) ==
  Holding(w) =>
    /\ doc[w].id \in Cases
    /\ doc[w].req \in Requests
    /\ doc[w].status \in StatusAt(pc[w])
    /\ Unlabelled(doc[w])

FollowOK(w) ==
  Holding(w) /\ ~Inserting(w) =>
    LET row == cases[doc[w].id] IN
      /\ doc[w].version \in 1..row.version
      /\ doc[w].version = row.version => Continues(pc[w], row, doc[w])

InsertOK(w) ==
  Inserting(w) =>
    /\ doc[w].version = 0
    /\ ~Exists(doc[w].id)
    /\ doc[w].status \in FirstStatuses \cup {"approved"}
    /\ \A v \in Workers \ {w} : doc[v].id # doc[w].id

RestOK(w) ==
  \A d \in rest[w] :
    /\ d.id \in Cases
    /\ d.req \in Requests
    /\ d.status = "label_issued"
    /\ d.version \in 1..cases[d.id].version
    /\ d.version = cases[d.id].version => d = cases[d.id]

\* Every row is in order, and every thread's copies fit their rows.
IInv ==
  /\ TypeOK
  /\ \A c \in Cases : RowOK(c)
  /\ \A w \in Workers : FitOK(w)
  /\ \A w \in Workers : HeldOK(w)
  /\ \A w \in Workers : FollowOK(w)
  /\ \A w \in Workers : InsertOK(w)
  /\ \A w \in Workers : RestOK(w)

-----------------------------------------------------------------------------
(* What it takes for notices to be true: a thread that has saved an outcome *)
(* nothing can follow finds the row still in it.                           *)

\* The thread has saved its case and still has calls to make for it.
Saved(w) ==
  \/ pc[w] \in {"record", "notify", "note"}
  \/ op[w] = "inspect" /\ pc[w] \in {"list", "pay", "mark_executed", "mark_pending"}

ToldOK(w) ==
  Saved(w) =>
    /\ pc[w] # "record" => doc[w].status \in Terminal
    /\ doc[w].status \in Terminal => cases[doc[w].id].status = doc[w].status

\* Rows and copies are in order, and what was told or will be is recorded.
NoticeInv ==
  /\ IInv
  /\ \A n \in notices : n[2] \in Terminal /\ cases[n[1]].status = n[2]
  /\ \A w \in Workers : ToldOK(w)

-----------------------------------------------------------------------------
(* Keys and labels.                                                        *)

\* A key names a case that is recorded.
KeyInv ==
  /\ IInv
  /\ \A k \in Keys : keys[k] # None => Exists(keys[k])

\* What a sweep has still to visit was stale when it was listed, and so is a row
\* that a copy of its version would expire.
ExpiryOK(w) ==
  /\ \A d \in rest[w] : d.events # <<>> /\ Stale(d)
  /\ Holding(w) => doc[w].events # <<>>
  /\ pc[w] \in {"save", "enqueue"} /\ doc[w].status = "expired" =>
       LET row == cases[doc[w].id] IN
         doc[w].version = row.version /\ row.status = "label_issued" => Stale(row)

\* No trail is empty, so every case has a time of its last event.
ExpiryInv ==
  /\ IInv
  /\ \A c \in Cases : Exists(c) => cases[c].events # <<>>
  /\ \A w \in Workers : ExpiryOK(w)

-----------------------------------------------------------------------------
(* Money and goods.                                                        *)

\* The entry a thread is about to mark executed is one the gateway has paid.
PaidInv ==
  /\ IInv
  /\ ExecutedWasPaid
  /\ \A w \in Workers : pc[w] = "mark_executed" => Oldest(w) \subseteq moved

\* What stands behind a settled document, recorded or in a thread's hands.
Backed(d) ==
  /\ d.status \in {"refunded", "credited"}
       => \E e \in EntriesOf(d.id) : ResolutionToStatus[outbox[e].kind] = d.status
  /\ d.status = "exchanged" => d.replacement \in 1..replaced[d.id]

\* A copy is backed, but between its settlement and the intent of its payment.
BackedOK(w) ==
  Holding(w) =>
    IF pc[w] = "enqueue"
    THEN doc[w].status = ResolutionToStatus[Wants(doc[w])] /\ Wants(doc[w]) # "exchange"
    ELSE /\ Backed(doc[w])
         /\ pc[w] = "replace" => Wants(doc[w]) = "exchange"

BackedInv ==
  /\ IInv
  /\ \A c \in Cases : Backed(cases[c])
  /\ \A w \in Workers : BackedOK(w)

-----------------------------------------------------------------------------
(* What is settled.                                                        *)

SettledStatuses == {"refunded", "credited", "exchanged"}

\* The row an inspection's copy is of is still to be inspected, as long as the copy
\* has its version and is not saved.
FreshOK(w) ==
  op[w] = "inspect" /\ pc[w] \in {"replace", "enqueue", "save"} =>
    LET row == cases[doc[w].id] IN doc[w].version = row.version => row.status = "received"

\* The thread is about to save what it has settled.
Settles(w) == op[w] = "inspect" /\ pc[w] \in {"enqueue", "save"}

\* Any other copy of a settled case agrees with its row.
CopyOK(w) ==
  Holding(w) /\ doc[w].status \in SettledStatuses /\ ~Settles(w) =>
    LET row == cases[doc[w].id] IN
      row.status = doc[w].status /\ row.replacement = doc[w].replacement

\* A row is settled by the save of an inspection, and what it says then stays.
SettledInv ==
  /\ BackedInv
  /\ \A w \in Workers : FreshOK(w) /\ CopyOK(w)

-----------------------------------------------------------------------------
(* What the cases of an order reserve.                                     *)

\* A copy is of the request its row was filed with.
AskedOK(w) ==
  /\ Holding(w) /\ ~Inserting(w) => doc[w].req = cases[doc[w].id].req
  /\ \A d \in rest[w] : d.req = cases[d.id].req

AskedInv == IInv /\ \A w \in Workers : AskedOK(w)

\* The cases of a table that reserve units of an order, and the units of a sku
\* they reserve.
Reserving(tab, o) ==
  {c \in {x \in Cases : tab[x].version > 0 /\ tab[x].req.order = o} :
     tab[c].status \notin Released}

ReservedIn(tab, o, sku) ==
  MapThenSumSet(LAMBDA c : UnitsIn(tab[c].req.lines, sku), Reserving(tab, o))

\* The order of a request is registered, and has what the request asks for left.
Room(tab, books, r) ==
  LET book == books[r.order] IN
    /\ book # None
    /\ \A i \in DOMAIN r.lines :
         LET line == r.lines[i] IN
           /\ line.sku \in DOMAIN book
           /\ line.quantity + ReservedIn(tab, r.order, line.sku) <= book[line.sku]
=============================================================================

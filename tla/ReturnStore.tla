----------------------------- MODULE ReturnStore -----------------------------
(***************************************************************************)
(* app/store.py: the SQLite tables and the operations on them.  Every      *)
(* operation takes the store's lock, runs its statements and commits, so   *)
(* it is one atomic step of the handler that calls it; what is committed   *)
(* survives a crash.  Here an operation is a condition on the tables, a    *)
(* value read from them, or a change of one of them, for the handlers'     *)
(* actions to use.                                                         *)
(***************************************************************************)
EXTENDS ReturnLifecycle, Naturals, Sequences, FiniteSets, FiniteSetsExt

CONSTANTS
  Cases,       \* case ids create_return may draw (uuids)
  Labels,      \* tracking numbers the carrier may hand out (uuids)
  OrderIds,    \* ids of the merchant's orders
  Books,       \* order bodies: units bought, a function from skus to numbers
  Keys,        \* values of the Idempotency-Key header
  Requests,    \* bodies of POST /returns: [order, lines, resolution]
  None         \* Python's None

ASSUME NoneAssumption ==
  /\ None \notin Cases /\ None \notin Labels /\ None \notin Books
  /\ None \notin Keys  /\ None \notin Requests

ASSUME RequestsAssumption ==
  \A r \in Requests : r.order \in OrderIds /\ r.resolution \in Resolution

VARIABLES
  cases,       \* return_cases: the body of each row
  orders,      \* orders: the registered body, or None
  keys,        \* idempotency_keys: the case id recorded for a key, or None
  outbox       \* payment_outbox: the entries, an entry's id being its index

storeVars == <<cases, orders, keys, outbox>>

-----------------------------------------------------------------------------
(* ReturnCase documents.  Prices, notes and messages are left out; the     *)
(* request a case was filed with stands for its order, lines and wanted    *)
(* resolution, which no handler changes.                                   *)

\* The lead reviewer's event stands for those of the specialists saved with it.
VerdictEvent == [approve |-> "verdict_approve", reject |-> "verdict_reject",
                 escalate |-> "verdict_escalate"]

EventName ==
  ReturnStatus \cup {"return_requested", "tracking_other", "customer_notified"}
    \cup {VerdictEvent[v] : v \in DOMAIN VerdictEvent}

Event == [event : EventName, at : Nat]

Document ==
  [id          : Cases \cup {None},
   req         : Requests \cup {None},
   version     : Nat,
   status      : ReturnStatus \cup {"absent"},
   label       : Labels \cup {None},
   replacement : Nat,                       \* 0 for None
   events      : Seq(Event)]

\* What stands in for a row that does not exist and for a handler's unset local.
NoDocument ==
  [id |-> None, req |-> None, version |-> 0, status |-> "absent",
   label |-> None, replacement |-> 0, events |-> <<>>]

\* updated_at is set by add_event and by nothing else.
UpdatedAt(d) == d.events[Len(d.events)].at

AddEvent(d, e, t) == [d EXCEPT !.events = Append(@, [event |-> e, at |-> t])]

Entry == [case : Cases, kind : {"refund", "store_credit"}, status : {"pending", "executed"}]

StoreTypeOK ==
  /\ cases \in [Cases -> Document]
  /\ orders \in [OrderIds -> Books \cup {None}]
  /\ keys \in [Keys -> Cases \cup {None}]
  /\ outbox \in Seq(Entry)

StoreInit ==
  /\ cases = [c \in Cases |-> NoDocument]
  /\ orders = [o \in OrderIds |-> None]
  /\ keys = [k \in Keys |-> None]
  /\ outbox = <<>>

-----------------------------------------------------------------------------
Exists(c) == cases[c].version > 0

\* Mutant of CanSave: the UPDATE without its version condition.
SaveAlways(d) == TRUE

\* save finds a row of the expected version to update, or no row and inserts.
CanSave(d) == cases[d.id].version \in {0, d.version}

\* save bumps the version of the document it was given, and writes that.
Bumped(d) == [d EXCEPT !.version = @ + 1]

Put(d) == cases' = [cases EXCEPT ![d.id] = Bumped(d)]

\* get_by_tracking, as the set of its at most one answer.
ByTracking(t) == {c \in Cases : Exists(c) /\ cases[c].label = t}

ListByStatus(s) == {cases[c] : c \in {x \in Cases : Exists(x) /\ cases[x].status = s}}

ListByOrder(o) == {c \in Cases : Exists(c) /\ cases[c].req.order = o}

\* register_order overwrites the body of an order it already knows.
PutOrder(o, book) == orders' = [orders EXCEPT ![o] = book]

\* Mutant of RecordedKey: INSERT OR REPLACE.
ReplacedKey(k, c) == [keys EXCEPT ![k] = c]

\* idempotency_record is INSERT OR IGNORE: the first case of a key stays.
RecordedKey(k, c) == [keys EXCEPT ![k] = IF @ = None THEN c ELSE @]

OutboxEnqueue(c, kind) ==
  outbox' = Append(outbox, [case |-> c, kind |-> kind, status |-> "pending"])

OutboxPending == {e \in DOMAIN outbox : outbox[e].status = "pending"}

\* outbox_mark writes whatever status it is given, over any status.
OutboxMark(e, s) == outbox' = [outbox EXCEPT ![e].status = s]
=============================================================================

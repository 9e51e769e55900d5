-------------------------------- MODULE Intake --------------------------------
(***************************************************************************)
(* ReturnsOrchestrator.create_return and ReturnStore.register_order.       *)
(* create_return reads the idempotency table, the order and the returns    *)
(* already filed against it, decides, may buy a label, and only then       *)
(* inserts the case and records the key: six calls, with those of other    *)
(* threads in between.                                                     *)
(* The policy decision is left open: PolicyEngine.tla has the rules.       *)
(***************************************************************************)
EXTENDS HandlerSteps

CONSTANT HeaderValues   \* Idempotency-Key headers clients send; None for no header

ASSUME HeaderAssumption == HeaderValues \subseteq Keys \cup {None}

\* A request lists its lines, and quantities are counts (ge=1 in models.py).
ASSUME LinesAssumption ==
  /\ \A r \in Requests : /\ IsFiniteSet(DOMAIN r.lines)
                         /\ \A i \in DOMAIN r.lines : r.lines[i].quantity \in Nat
  /\ \A b \in Books : \A sku \in DOMAIN b : b[sku] \in Nat

\* What the engine may decide.
Decisions == {"approved", "rejected", "manual_review"}

\* Units of a sku in a list of request lines.
UnitsIn(lines, sku) ==
  MapThenSumSet(LAMBDA i : IF lines[i].sku = sku THEN lines[i].quantity ELSE 0,
                DOMAIN lines)

\* already_returned: units reserved by cases that have not released them.
Reserved(o, sku) ==
  MapThenSumSet(LAMBDA c : UnitsIn(cases[c].req.lines, sku),
                {c \in ListByOrder(o) : cases[c].status \notin Released})

\* Mutant of Returnable: what was returned before does not count.
ReturnableAgain(r, book) ==
  \A i \in DOMAIN r.lines :
    r.lines[i].sku \in DOMAIN book /\ r.lines[i].quantity <= book[r.lines[i].sku]

\* _resolve_against_order: each line against what was bought, one by one.
Returnable(r, book) ==
  \A i \in DOMAIN r.lines :
    LET line == r.lines[i] IN
      /\ line.sku \in DOMAIN book
      /\ line.quantity + Reserved(r.order, line.sku) <= book[line.sku]

\* Ids nobody has: uuid4 never repeats.
Fresh(c) == ~Exists(c) /\ \A w \in Workers : doc[w].id # c

\* The case create_return builds for request r, up to the decision.
NewCase(c, r) ==
  AddEvent([NoDocument EXCEPT !.id = c, !.req = r, !.status = "requested"],
           "return_requested", now)

-----------------------------------------------------------------------------
RegisterOrder(o, book) ==
  /\ PutOrder(o, book)
  /\ orders[o] # book            \* writing the same body again changes nothing
  /\ UNCHANGED <<cases, keys, outbox, now, notices, workerVars>>

\* POST /returns, with or without an Idempotency-Key.
StartCreate(w, r, k) ==
  /\ pc[w] = "idle"
  /\ op' = [op EXCEPT ![w] = "create"]
  /\ pc' = [pc EXCEPT ![w] = IF k = None THEN "order" ELSE "lookup"]
  /\ ask' = [ask EXCEPT ![w] = [req |-> r, key |-> k, book |-> None]]
  /\ UNCHANGED <<storeVars, now, notices, doc, rest>>

\* Mutant of LookupKey: the recorded case is never returned.
LookupNothing(w) ==
  /\ pc[w] = "lookup"
  /\ Goto(w, "order", doc[w])
  /\ UNCHANGED <<storeVars, now, notices>>

\* A recorded key returns its case, the replay of an earlier request.
LookupKey(w) ==
  /\ pc[w] = "lookup"
  /\ LET found == keys[ask[w].key] IN
       IF found # None /\ Exists(found) THEN Finish(w) ELSE Goto(w, "order", doc[w])
  /\ UNCHANGED <<storeVars, now, notices>>

\* get_order; an unregistered order is a ValidationFailure.
ReadOrder(w) ==
  /\ pc[w] = "order"
  /\ LET book == orders[ask[w].req.order] IN
       IF book = None THEN Finish(w)
       ELSE /\ ask' = [ask EXCEPT ![w].book = book]
            /\ pc' = [pc EXCEPT ![w] = "check"]
            /\ UNCHANGED <<op, doc, rest>>
  /\ UNCHANGED <<storeVars, now, notices>>

\* list_by_order, the check of every line, the engine's decision.  It also
\* ends here when the order's customer is not in the registry.
CheckAndDecide(w) ==
  /\ pc[w] = "check"
  /\ \/ /\ Returnable(ask[w].req, ask[w].book)
        /\ \E c \in Cases, s \in Decisions :
             /\ Fresh(c)
             /\ CanMove("requested", s)
             /\ Goto(w, IF s = "approved" THEN "label" ELSE "save",
                     Transitioned(NewCase(c, ask[w].req), s))
     \/ Finish(w)
  /\ UNCHANGED <<storeVars, now, notices>>

\* idempotency_record, after the save.
RecordKey(w) ==
  /\ pc[w] = "record"
  /\ keys' = RecordedKey(ask[w].key, doc[w].id)
  /\ IF doc[w].status = "rejected" THEN Goto(w, "notify", doc[w]) ELSE Finish(w)
  /\ UNCHANGED <<cases, orders, outbox, now, notices>>
=============================================================================

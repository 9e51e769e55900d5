--------------------------- MODULE HistoryInvariant ---------------------------
(***************************************************************************)
(* The inductive invariants behind the properties of ServiceHistory: what  *)
(* the observer remembers and what the threads have in hand make up what   *)
(* the tables do not show.                                                 *)
(***************************************************************************)
EXTENDS ServiceHistory

-----------------------------------------------------------------------------
(* Payments.                                                               *)

\* The thread is between the intent of a payment and the save of its case.
Settling(w) ==
  op[w] = "inspect" /\ pc[w] = "save" /\ doc[w].status \in {"refunded", "credited"}

\* Its intent is remembered, and is nobody else's.
IntentOK(w) ==
  IF Settling(w)
  THEN /\ intent[w] \in DOMAIN outbox \ strays
       /\ outbox[intent[w]].case = doc[w].id
       /\ \A v \in Workers \ {w} : intent[v] # intent[w]
  ELSE intent[w] = 0

\* A case has one intent behind it from the save of its settlement on.
BehindOK(c) ==
  IF cases[c].status \in {"refunded", "credited"}
  THEN \E e \in DOMAIN outbox : Behind(c) = {e}
  ELSE Behind(c) = {}

IntentInv ==
  /\ SettledInv
  /\ intent \in [Workers -> Nat]
  /\ strays \subseteq DOMAIN outbox
  /\ \A w \in Workers : IntentOK(w)
  /\ \A c \in Cases : BehindOK(c)

-----------------------------------------------------------------------------
(* Replacement orders.                                                     *)

\* The order a thread has in hand is not lost, and in no other hands.
HandOK(w) ==
  HoldsOrder(w) =>
    LET order == <<doc[w].id, doc[w].replacement>> IN
      /\ order \notin lostOrders
      /\ \A v \in Workers \ {w} :
           HoldsOrder(v) => <<doc[v].id, doc[v].replacement>> # order

OrderInv ==
  /\ SettledInv
  /\ \A p \in lostOrders : \E c \in Cases : \E n \in 1..replaced[c] : p = <<c, n>>
  /\ \A w \in Workers : HandOK(w)
  /\ OneReplacementPerCase

-----------------------------------------------------------------------------
(* Keys.                                                                   *)

\* The thread is about to record a case for a key.
Records(w, c, k) == op[w] = "create" /\ pc[w] = "record" /\ ask[w].key = k /\ doc[w].id = c

\* A key is free while one request is past its lookup, and two are a contest.
LookedUpOK(w) ==
  \A k \in Keys \ contested : PastLookup(w, k) =>
    /\ keys[k] = None
    /\ \A v \in Workers \ {w} : ~PastLookup(v, k)

FilingInv ==
  /\ KeyInv
  /\ filings \subseteq (Cases \X Keys)
  /\ \A c \in Cases, k \in Keys \ contested : <<c, k>> \in filings =>
       keys[k] = c \/ \E w \in Workers : Records(w, c, k)
  /\ \A w \in Workers : LookedUpOK(w)

-----------------------------------------------------------------------------
(* Orders.                                                                 *)

\* What a thread has checked against an order that nothing strains still holds.
RoomOK(w) ==
  /\ pc[w] = "check" =>
       LET o == ask[w].req.order IN
         /\ orders[o] # None
         /\ o \notin strained => orders[o] = ask[w].book
  /\ Inserting(w) =>
       LET o == doc[w].req.order IN
         /\ orders[o] # None
         /\ o \notin strained =>
              /\ Room(cases, orders, doc[w].req)
              /\ ~Doubled(doc[w].req)
              /\ \A v \in Workers \ {w} : ~FilingFor(v, o)

\* The cases of an order take no more of it than was bought.
WithinOrder(o) ==
  \A sku \in DOMAIN orders[o] : ReservedIn(cases, o, sku) <= orders[o][sku]

StrainInv ==
  /\ AskedInv
  /\ \A o \in OrderIds \ strained : orders[o] # None => WithinOrder(o)
  /\ \A c \in Cases : Exists(c) => orders[cases[c].req.order] # None
  /\ \A w \in Workers : RoomOK(w)
=============================================================================

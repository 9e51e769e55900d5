---------------------------- MODULE ServiceHistory ----------------------------
(***************************************************************************)
(* The service next to an observer that remembers what the tables do not   *)
(* show: which intents, replacement orders, keys and orders a race, a lost *)
(* answer or a crash has touched.  The code promises one payment, one      *)
(* replacement, one case for a key and no more returns than were bought,   *)
(* and overlapping requests and crashes break each of these; what is       *)
(* stated here is that nothing else does.  The observer records and never  *)
(* keeps a step from being taken.                                          *)
(***************************************************************************)
EXTENDS ServiceInvariant

VARIABLES
  intent,      \* the outbox entry of a settlement whose case is not saved, or 0
  strays,      \* entries of settlements given up before their case was saved
  lostOrders,  \* <<case, n>>: replacement orders made, and then not recorded
  filings,     \* <<case, key>>: cases saved for a request that carried a key
  contested,   \* keys two requests used at once, or whose recording a crash cut off
  strained     \* orders with overlapping requests, a sku named twice, or a new body

historyVars == <<intent, strays, lostOrders, filings, contested, strained>>

HistoryInit ==
  /\ intent = [w \in Workers |-> 0]
  /\ strays = {}
  /\ lostOrders = {}
  /\ filings = {}
  /\ contested = {}
  /\ strained = {}

-----------------------------------------------------------------------------
(* Payments and replacement orders.                                        *)

\* From outbox_enqueue to the end of the save.
RecordIntents ==
  /\ intent' = [w \in Workers |->
       IF pc[w] = "enqueue" /\ pc'[w] = "save" THEN Len(outbox')
       ELSE IF pc'[w] = "save" THEN intent[w] ELSE 0]
  /\ strays' = strays \cup {intent[w] : w \in {v \in Workers : intent[v] # 0 /\ pc'[v] = "idle"}}

\* The thread has an order's number in hand that its case does not show yet.
HoldsOrder(w) == op[w] = "inspect" /\ pc[w] = "save" /\ doc[w].status = "exchanged"

\* The answer of the order system was lost, or the case that held it was.
RecordOrders ==
  lostOrders' = lostOrders
    \cup {<<doc[w].id, replaced'[doc[w].id]>> :
            w \in {v \in Workers : pc[v] = "replace" /\ pc'[v] = "idle" /\ replaced' # replaced}}
    \cup {<<doc[w].id, doc[w].replacement>> :
            w \in {v \in Workers : HoldsOrder(v) /\ pc'[v] = "idle"}}

-----------------------------------------------------------------------------
(* Keys and orders.                                                        *)

\* The request has found no case for its key, and has not recorded one.
PastLookup(w, k) ==
  op[w] = "create" /\ ask[w].key = k /\ pc[w] \in {"order", "check", "label", "save", "record"}

RecordFilings ==
  /\ filings' = filings \cup {<<doc[w].id, ask[w].key>> :
                                w \in {v \in Workers : pc[v] = "save" /\ pc'[v] = "record"}}
  /\ contested' = contested
       \cup {k \in Keys : \E v, w \in Workers : v # w /\ PastLookup(v, k)' /\ PastLookup(w, k)'}
       \cup {ask[w].key : w \in {v \in Workers : pc[v] = "record" /\ crashes' # crashes}}

\* Two lines of the request are of one sku.
Doubled(r) == \E i, j \in DOMAIN r.lines : i # j /\ r.lines[i].sku = r.lines[j].sku

\* The thread has checked a request against the order and not saved its case.
FilingFor(w, o) == Inserting(w) /\ doc[w].req.order = o

RecordStrains ==
  strained' = strained
    \cup {o \in OrderIds :
            \/ \E v, w \in Workers : v # w /\ FilingFor(v, o)' /\ FilingFor(w, o)'
            \/ \E w \in Workers : FilingFor(w, o)' /\ Doubled(doc'[w].req)
            \/ orders[o] # None /\ orders'[o] # orders[o]}

-----------------------------------------------------------------------------
Record == RecordIntents /\ RecordOrders /\ RecordFilings /\ RecordStrains

HistorySpec == (Init /\ HistoryInit) /\ [][Next /\ Record]_<<vars, historyVars>>

\* The intents of a case's payments but for those of settlements under way or given
\* up.
Behind(c) == EntriesOf(c) \ (strays \cup {intent[w] : w \in Workers})

\* A case has the intent of one payment when it is settled with money, and none
\* before, but for those of settlements under way or given up: only an overtaken
\* save or a crash between outbox_enqueue and save can have a case paid twice.
OneIntentPerCase ==
  \A c \in Cases :
    IF cases[c].status \in {"refunded", "credited"}
    THEN Cardinality(Behind(c)) = 1
    ELSE Behind(c) = {}

\* The replacement orders of a case that no thread has in hand and nobody lost.
Kept(c) ==
  {n \in 1..replaced[c] :
     /\ <<c, n>> \notin lostOrders
     /\ \A w \in Workers : HoldsOrder(w) => <<doc[w].id, doc[w].replacement>> # <<c, n>>}

\* Of the replacement orders made for a case, each is the one it names as
\* exchanged, or in the hands of a thread, or was lost with an answer or a save
\* (create_replacement_order carries no key, so the next inspection makes another).
OneReplacementPerCase ==
  \A c \in Cases :
    Kept(c) = IF cases[c].status = "exchanged" THEN {cases[c].replacement} ELSE {}

\* However often a request is sent again, its key has one case, unless two of its
\* tries overlapped or a crash came between the case and the key.
OneFilingPerKey ==
  \A f, g \in filings : f[2] = g[2] /\ f[2] \notin contested => f = g

\* The returns of an order never reserve more units than were bought, unless two of
\* its requests were between check and save at once, a request named a sku on two
\* lines, or the order was registered again with another body.
StrainedOrMet ==
  \A o \in OrderIds \ strained : orders[o] # None =>
    \A sku \in DOMAIN orders[o] : Reserved(o, sku) <= orders[o][sku]
=============================================================================

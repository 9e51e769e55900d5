-------------------------- MODULE ServiceProperties --------------------------
(***************************************************************************)
(* What the returns service should guarantee, in terms of the tables, the  *)
(* threads and the outside world of ReturnsService.                        *)
(***************************************************************************)
EXTENDS ReturnsService, SequencesExt

\* Every variable keeps to its type.
TypeOK ==
  /\ StoreTypeOK
  /\ StepTypeOK
  /\ SettlementTypeOK
  /\ crashes \in 0..MaxCrashes

-----------------------------------------------------------------------------
(* The life of a case.                                                     *)

\* The status column of return_cases.
Recorded == [c \in Cases |-> cases[c].status]

Ledger == INSTANCE CaseLedger WITH status <- Recorded

\* However handlers interleave and whatever copies they hold, the recorded
\* status of a case only makes legal moves, and a terminal one none.
FollowsLedger == Ledger!LedgerSpec

\* No save drops or rewrites an event another save has recorded: the audit
\* trail of a case only grows at its end ("not a lost update").
AuditTrailGrows ==
  [][\A c \in Cases : IsPrefix(cases[c].events, cases'[c].events)]_vars

\* A case keeps the tracking number it was given, even when two approvals
\* raced and each bought a label.
LabelsStay ==
  [][\A c \in Cases : cases[c].label # None => cases'[c].label = cases[c].label]_vars

\* A label expires only if nothing happened to its case for the whole limit up
\* to the moment the expiry is recorded, not just when the sweep listed it.
ExpiresOnlyUnused ==
  [][\A c \in Cases :
       cases[c].status = "label_issued" /\ cases'[c].status = "expired"
         => Stale(cases[c])]_vars

\* What a customer was told of a case is, and stays, its recorded status.
NoticesAreTrue ==
  \A c \in Cases, s \in ReturnStatus : <<c, s>> \in notices => cases[c].status = s

-----------------------------------------------------------------------------
(* Intake.                                                                 *)

\* A key names a case that exists, and the same one ever after, so a replay
\* returns what the first recorded request created.
KeysArePermanent ==
  [][\A k \in Keys : keys[k] # None => keys'[k] = keys[k] /\ Exists(keys[k])]_vars

\* The returns of an order never reserve more units of a sku than were bought.
NoOverReturn ==
  \A o \in OrderIds : orders[o] # None =>
    \A sku \in DOMAIN orders[o] : Reserved(o, sku) <= orders[o][sku]

\* With a key on every request, no key ever has two cases to its name.
OneCasePerKey ==
  None \notin HeaderValues
    => Cardinality({c \in Cases : Exists(c)}) <= Cardinality(HeaderValues)

-----------------------------------------------------------------------------
(* Settlement.                                                             *)

EntriesOf(c) == {e \in DOMAIN outbox : outbox[e].case = c}

\* A case recorded as refunded or credited has the intent of its payment, of
\* the right kind, in the outbox; one recorded as exchanged names a
\* replacement order the order system has.
SettledIsBacked ==
  \A c \in Cases :
    /\ cases[c].status \in {"refunded", "credited"}
         => \E e \in EntriesOf(c) :
              ResolutionToStatus[outbox[e].kind] = cases[c].status
    /\ cases[c].status = "exchanged"
         => cases[c].replacement \in 1..replaced[c]

\* An entry marked executed is one whose money has moved.
ExecutedWasPaid ==
  \A e \in DOMAIN outbox : outbox[e].status = "executed" => e \in moved

\* The money of a case moves at most once.
OnePaymentPerCase ==
  \A c \in Cases : Cardinality(EntriesOf(c) \cap moved) <= 1

\* Money moves only for a case whose settled state is recorded.
PaidIsSettled ==
  \A e \in moved : cases[outbox[e].case].status \in {"refunded", "credited"}

-----------------------------------------------------------------------------
(* Liveness.                                                               *)

\* Every request ends: it is answered, or the server dies under it.
RequestsEnd == \A w \in Workers : pc[w] # "idle" ~> pc[w] = "idle"

\* An entry the gateway is willing to pay ends up executed, even next to an
\* older one it always refuses ("keep flushing the rest").
PaymentsComplete ==
  \A e \in Payable :
    e \in OutboxPending ~> e \in DOMAIN outbox /\ outbox[e].status = "executed"
=============================================================================

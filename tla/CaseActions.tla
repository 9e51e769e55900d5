------------------------------ MODULE CaseActions ------------------------------
(***************************************************************************)
(* The handlers that move an existing case and touch neither money nor     *)
(* goods: review, cancel, carrier_update and sweep_expired_labels.  Each   *)
(* reads the case, changes its own copy, and saves that copy later.        *)
(* A call the transition table refuses ends at once with nothing changed,  *)
(* so only the calls it allows are steps here.                             *)
(***************************************************************************)
EXTENDS HandlerSteps

CONSTANTS
  LabelExpiry,   \* label_expiry_days, in ticks of the clock
  MaxTracking    \* bound: other tracking events one case records

ASSUME LabelExpiryAssumption == LabelExpiry \in Nat \ {0}

\* review: approving goes on to the carrier, rejecting is saved as it is.
StartReview(w, c, target) ==
  /\ Exists(c)
  /\ target \in {"approved", "rejected"}
  /\ CanMove(cases[c].status, target)
  /\ Begin(w, "review", IF target = "approved" THEN "label" ELSE "save",
           Transitioned(cases[c], target))
  /\ UNCHANGED <<storeVars, now, notices>>

\* Mutant of StartCancel: any case can be cancelled.
CancelAnyTime(w, c) ==
  /\ Exists(c)
  /\ Begin(w, "cancel", "save", Transitioned(cases[c], "cancelled"))
  /\ UNCHANGED <<storeVars, now, notices>>

StartCancel(w, c) ==
  /\ Exists(c)
  /\ CanMove(cases[c].status, "cancelled")
  /\ Begin(w, "cancel", "save", Transitioned(cases[c], "cancelled"))
  /\ UNCHANGED <<storeVars, now, notices>>

\* Mutant of StartCarrierMove: a repeated webhook takes a settled case back.
CarrierMovesAlways(w, t, target) ==
  /\ target \in {"in_transit", "received"}
  /\ \E c \in ByTracking(t) : Begin(w, "carrier", "save", Transitioned(cases[c], target))
  /\ UNCHANGED <<storeVars, now, notices>>

\* carrier_update's mapping of picked_up and delivered.
StartCarrierMove(w, t, target) ==
  /\ target \in {"in_transit", "received"}
  /\ \E c \in ByTracking(t) :
       /\ CanMove(cases[c].status, target)
       /\ Begin(w, "carrier", "save", Transitioned(cases[c], target))
  /\ UNCHANGED <<storeVars, now, notices>>

TrackingEvents(d) == {i \in DOMAIN d.events : d.events[i].event = "tracking_other"}

\* Any other tracking event is added to the trail, whatever the status.
StartCarrierNote(w, t) ==
  /\ \E c \in ByTracking(t) :
       /\ Cardinality(TrackingEvents(cases[c])) < MaxTracking
       /\ Begin(w, "carrier", "save", AddEvent(cases[c], "tracking_other", now))
  /\ UNCHANGED <<storeVars, now, notices>>

-----------------------------------------------------------------------------
\* What a sweep expires: labels whose case was last touched before the cutoff.
Stale(d) == UpdatedAt(d) + LabelExpiry <= now

\* The sweep lists the label_issued rows once and works on those copies.
StartSweep(w) ==
  /\ pc[w] = "idle"
  /\ op' = [op EXCEPT ![w] = "sweep"]
  /\ pc' = [pc EXCEPT ![w] = "next"]
  /\ rest' = [rest EXCEPT ![w] = {d \in ListByStatus("label_issued") : Stale(d)}]
  /\ UNCHANGED <<storeVars, now, notices, doc, ask>>

\* Its loop; the order of the rows makes no difference here.
SweepNext(w) ==
  /\ pc[w] = "next"
  /\ \/ \E d \in rest[w] :
          /\ CanMove(d.status, "expired")
          /\ pc' = [pc EXCEPT ![w] = "save"]
          /\ doc' = [doc EXCEPT ![w] = Transitioned(d, "expired")]
          /\ rest' = [rest EXCEPT ![w] = @ \ {d}]
          /\ UNCHANGED <<op, ask>>
     \/ rest[w] = {} /\ Finish(w)
  /\ UNCHANGED <<storeVars, now, notices>>
=============================================================================

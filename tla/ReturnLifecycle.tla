--------------------------- MODULE ReturnLifecycle ---------------------------
(***************************************************************************)
(* The life of a return: the statuses of app/models.py and the transition  *)
(* table of app/orchestrator.py, as a relation.  Nothing here has state.   *)
(***************************************************************************)

\* ReturnStatus: every value the enumeration has.
ReturnStatus ==
  {"requested", "manual_review", "approved", "rejected", "label_issued",
   "in_transit", "received", "inspecting", "refunded", "exchanged",
   "credited", "closed_failed_inspection", "cancelled", "expired"}

\* Resolution: what a customer may ask for.
Resolution == {"refund", "exchange", "store_credit"}

\* _TRANSITIONS as a set of pairs <<from, to>>.
Transitions ==
  UNION {{"requested"} \X {"approved", "rejected", "manual_review", "cancelled"},
         {"manual_review"} \X {"approved", "rejected", "cancelled"},
         {"approved"} \X {"label_issued", "cancelled"},
         {"label_issued"} \X {"in_transit", "received", "cancelled", "expired"},
         {"in_transit"} \X {"received"},
         {"received"} \X {"inspecting"},
         {"inspecting"} \X {"refunded", "exchanged", "credited",
                            "closed_failed_inspection"}}

\* The check of _transition.
CanMove(from, to) == <<from, to>> \in Transitions

\* _RESOLUTION_TO_STATUS.
ResolutionToStatus ==
  [refund |-> "refunded", exchange |-> "exchanged", store_credit |-> "credited"]

\* _RELEASED_STATUSES: the case no longer reserves quantity of its order.
Released == {"rejected", "cancelled", "expired", "closed_failed_inspection"}

\* Statuses without an outgoing transition.
Terminal == Released \cup {"refunded", "exchanged", "credited"}

-----------------------------------------------------------------------------
\* A handler passes through these in memory and saves only after leaving them.
InMemoryOnly == {"requested", "approved", "inspecting"}

\* The statuses a row of return_cases can have.
Durable == ReturnStatus \ InMemoryOnly

\* One save moves a row along one transition, or along two with a status in
\* between that is never saved.
DurableMoves ==
  {m \in Durable \X Durable :
     \/ CanMove(m[1], m[2])
     \/ \E via \in InMemoryOnly : CanMove(m[1], via) /\ CanMove(via, m[2])}

\* What create_return may insert.
FirstStatuses == {"manual_review", "rejected", "label_issued"}
=============================================================================

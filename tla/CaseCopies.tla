------------------------------ MODULE CaseCopies ------------------------------
(***************************************************************************)
(* A row of return_cases, and what a handler's copy of a case has to do    *)
(* with it: definitions the invariants of the service and of the board     *)
(* share.                                                                  *)
(***************************************************************************)
EXTENDS HandlerSteps, SequencesExt

\* No label is bought before a case is approved.
Unlabelled(d) == d.status \in {"manual_review", "approved"} => d.label = None

\* The statuses a held case can have at a call.
StatusAt(call) ==
  IF call = "label" THEN {"approved"}
  ELSE IF call = "replace" THEN {"inspecting"}
  ELSE Durable

\* What the row's status can be to a copy of its version with status to, at
\* each call: the one the copy moves on from, or after the save the same.
MayBecome(call, from, to) ==
  IF call = "label" THEN CanMove(from, "approved")
  ELSE IF call = "replace" THEN CanMove(from, "inspecting")
  ELSE IF call \in {"save", "enqueue"} THEN from = to \/ <<from, to>> \in DurableMoves
  ELSE from = to

\* How a copy of the row's version continues the row.
Continues(call, row, d) ==
  /\ IsPrefix(row.events, d.events)
  /\ row.label # None => d.label = row.label
  /\ MayBecome(call, row.status, d.status)

\* A row is in order.
RowOK(c) ==
  IF Exists(c)
  THEN /\ cases[c].id = c
       /\ cases[c].req \in Requests
       /\ cases[c].status \in Durable
       /\ Unlabelled(cases[c])
  ELSE cases[c] = NoDocument
=============================================================================

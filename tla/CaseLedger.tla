------------------------------ MODULE CaseLedger ------------------------------
(***************************************************************************)
(* What the service promises about one return, whatever handlers run and   *)
(* however they interleave: a case is opened once, every later change of   *)
(* its recorded status is a legal move of the lifecycle from the status    *)
(* recorded before it, and a terminal status is for ever.                  *)
(***************************************************************************)
EXTENDS ReturnLifecycle

CONSTANT Cases

VARIABLE status     \* the recorded status of each case, "absent" before it exists

LedgerTypeOK == status \in [Cases -> Durable \cup {"absent"}]

LedgerInit == status = [c \in Cases |-> "absent"]

Open(c) ==
  /\ status[c] = "absent"
  /\ \E s \in FirstStatuses : status' = [status EXCEPT ![c] = s]

Advance(c) ==
  \E s \in Durable :
    /\ <<status[c], s>> \in DurableMoves
    /\ status' = [status EXCEPT ![c] = s]

LedgerNext == \E c \in Cases : Open(c) \/ Advance(c)

LedgerSpec == LedgerInit /\ [][LedgerNext]_status
=============================================================================

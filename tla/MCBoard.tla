-------------------------------- MODULE MCBoard --------------------------------
(***************************************************************************)
(* Small instances of the review board for TLC.                            *)
(***************************************************************************)
EXTENDS BoardInvariant

CONSTANTS c1, w1, w2, t1, t2, o1

Escalation == {[order |-> o1, lines |-> <<>>, resolution |-> "refund"]}

Symmetry == Permutations(Workers) \cup Permutations(Labels)
=============================================================================

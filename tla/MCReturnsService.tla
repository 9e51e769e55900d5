-------------------------- MODULE MCReturnsService --------------------------
(***************************************************************************)
(* Small instances of the service for TLC.                                 *)
(***************************************************************************)
EXTENDS ServiceInvariant

CONSTANTS c1, c2, c3, w1, w2, t1, t2, o1, k1, k2, sku

\* One order of a single unit, and one of two.
Unit(n) == [s \in {sku} |-> n]
BookOne == {Unit(1)}
BookTwo == {Unit(2)}

Line(n) == [sku |-> sku, quantity |-> n]
Refund == [order |-> o1, lines |-> <<Line(1)>>, resolution |-> "refund"]
Credit == [Refund EXCEPT !.resolution = "store_credit"]
Exchange == [Refund EXCEPT !.resolution = "exchange"]

RefundOnly == {Refund}
EveryResolution == {Refund, Credit, Exchange}
NoHeader == {None}

Symmetry ==
  Permutations(Workers) \cup Permutations(Labels) \cup Permutations(Cases) \cup Permutations(Keys)
=============================================================================

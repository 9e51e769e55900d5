------------------------------- MODULE MCPolicy -------------------------------
(***************************************************************************)
(* Small instances of the decision engine for TLC.  The catalog knows one  *)
(* kind, with a shorter window than the default and a fee; the second has  *)
(* the merchant's defaults, and the third is of an excluded category.      *)
(* Money is in half cents, and rates are per mille.                        *)
(***************************************************************************)
EXTENDS PolicyProperties

Kind(b, k) == [brand |-> b, category |-> k]
ThreeKinds == {Kind("b1", "shoes"), Kind("b2", "shoes"), Kind("b2", "gift_card")}

OneEntry ==
  [k \in {Kind("b1", "shoes")} |->
     [window |-> 1, finalSale |-> FALSE, requiresReceipt |-> FALSE, fee |-> 625]]

Default ==
  [window |-> 2, grace |-> 1, excluded |-> {"gift_card"}, requiresReceipt |-> TRUE,
   fee |-> 0, valueThreshold |-> 5, rate |-> <<1, 2>>, minOrders |-> 3]

\* One differs in what the snapshot leaves out, the others in the grace period,
\* and in terms that only lines the catalog does not know are under.
SomePolicies ==
  {Default,
   [Default EXCEPT !.minOrders = 4],
   [Default EXCEPT !.grace = 0],
   [Default EXCEPT !.window = 3, !.excluded = {}, !.requiresReceipt = FALSE, !.fee = 505]}

\* A line may be worth less than nothing, something, or the whole threshold.
ThreeValues == {-1, 3, 5}

\* New, at the minimum of orders and at the rate, above the rate, below the minimum.
SomeCustomers == {<<0, 0>>, <<4, 2>>, <<3, 2>>, <<2, 2>>}
=============================================================================

-------------------------- MODULE MCStripeBilling --------------------------
(***************************************************************************)
(* StripeBilling on small instances: one buyer, one or two purchases.      *)
(***************************************************************************)
EXTENDS StripeBilling

CONSTANTS u1, p1, p2

OneUser == {u1}
OnePurchase == {p1}
TwoPurchases == {p1, p2}
OneBuyer == [p \in TwoPurchases |-> u1]
BuyerOfOne == [p \in OnePurchase |-> u1]
=============================================================================

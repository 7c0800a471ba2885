------------------------- MODULE MCSubscriptionLedger -------------------------
(* Small instances of SubscriptionLedger for TLC. *)
EXTENDS SubscriptionLedger, TLC

CONSTANTS p1, p2, p3, w1, w2

TwoPayments   == {p1, p2}
ThreePayments == {p1, p2, p3}

Alike == Permutations(Payment) \union Permutations(Worker)
=============================================================================

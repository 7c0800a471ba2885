----------------------- MODULE MCSubscriptionLedgerRaces -----------------------
(* Small instances of SubscriptionLedgerRaces for TLC. *)
EXTENDS SubscriptionLedgerRaces, TLC

CONSTANTS p1, p2, w1, w2

TwoPayments == {p1, p2}

Alike == Permutations(Payment) \union Permutations(Worker)
=============================================================================

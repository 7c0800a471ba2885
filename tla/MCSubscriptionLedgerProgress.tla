--------------------- MODULE MCSubscriptionLedgerProgress ---------------------
(* Small instances of SubscriptionLedgerProgress for TLC. *)
EXTENDS SubscriptionLedgerProgress

CONSTANTS p1, p2, w1, w2

TwoPayments == {p1, p2}

\* Payments are alike; p1 is the one ordered first.
InOrder == payment'[p2].status # "none" => payment'[p1].status # "none"

OrderedSpec == ProgressInit /\ [][ProgressNext /\ InOrder]_progressVars /\ Fairness
=============================================================================

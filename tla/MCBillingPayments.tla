-------------------------- MODULE MCBillingPayments --------------------------
(* A small instance of BillingPayments for TLC. *)
EXTENDS BillingPayments

CONSTANTS p1, h1

OnePayment  == {p1}
OneHandler  == {h1}
AllOutcomes == Reported
=============================================================================

--------------------- MODULE MCBillingPaymentsProgress ---------------------
(* A small instance of BillingPaymentsProgress for TLC. *)
EXTENDS BillingPaymentsProgress

CONSTANTS p1, h1

OnePayment  == {p1}
OneHandler  == {h1}
FewOutcomes == {"processing", "success", "failure"}
=============================================================================

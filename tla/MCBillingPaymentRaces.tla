------------------------ MODULE MCBillingPaymentRaces ------------------------
(* A small instance of BillingPaymentRaces for TLC. *)
EXTENDS BillingPaymentRaces, TLC

CONSTANTS p1, h1, h2

OnePayment  == {p1}
TwoHandlers == {h1, h2}

\* The branches of the code tell success from a returning status and never one
\* returning status from another.
FewOutcomes == {"success", "reversed"}

Handlers == Permutations({h1, h2})
=============================================================================

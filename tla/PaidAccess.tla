----------------------------- MODULE PaidAccess -----------------------------
(* What the billing component promises about one customer purchase, without *)
(* saying which process notices what and when.  Money is captured by the    *)
(* payment provider; a captured payment may later be taken back; paid       *)
(* access follows the money, each half at most once.                        *)
CONSTANT Payment

VARIABLES money,   \* what the provider did with the customer's money
          access   \* what the purchase ledger grants for the payment

Money  == {"unpaid", "captured", "returned"}
Access == {"none", "active", "reversed"}

Init == /\ money = [p \in Payment |-> "unpaid"]
        /\ access = [p \in Payment |-> "none"]

Capture(p) == /\ money[p] = "unpaid"
              /\ money' = [money EXCEPT ![p] = "captured"]
              /\ UNCHANGED access

Return(p) == /\ money[p] = "captured"
             /\ money' = [money EXCEPT ![p] = "returned"]
             /\ UNCHANGED access

\* Access is granted for money that has been captured, possibly after it was
\* returned again: nobody promises to look twice before granting.
Grant(p) == /\ money[p] # "unpaid"
            /\ access[p] = "none"
            /\ access' = [access EXCEPT ![p] = "active"]
            /\ UNCHANGED money

Revoke(p) == /\ money[p] = "returned"
             /\ access[p] = "active"
             /\ access' = [access EXCEPT ![p] = "reversed"]
             /\ UNCHANGED money

Next == \E p \in Payment : Capture(p) \/ Return(p) \/ Grant(p) \/ Revoke(p)

Spec == Init /\ [][Next]_<<money, access>>
=============================================================================

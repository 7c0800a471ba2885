---------------------- MODULE SubscriptionLedgerProgress ----------------------
(* What recovery mends: the plan of a paying customer after races, aborted   *)
(* transactions and expiry have left the user_subscription row in any state  *)
(* they can.                                                                *)
EXTENDS SubscriptionLedger

VARIABLE calm  \* customers, administrators and handlers leave the row alone

progressVars == <<vars, calm>>

Recover(p) == \E w \in Background : BeginRecover(w, p)

\* The workers go on when all is calm: transactions that have begun end,
\* reconciliation recovers, maintenance downgrades what has expired.
WorkersGoOn ==
  \/ \E w \in Worker : Transaction(w)
  \/ \E w \in Background : BeginExpire(w)
  \/ \E p \in Payment : Recover(p)
  \/ Tick

ProgressInit == Init /\ calm = FALSE

CalmsDown == ~ calm /\ calm' = TRUE /\ UNCHANGED vars

ProgressNext ==
  \/ ~ calm /\ Next /\ UNCHANGED calm
  \/ CalmsDown
  \/ calm /\ WorkersGoOn /\ UNCHANGED calm

\* A begun transaction ends.  Every interval of reconciliation goes over all
\* that is listed for recovery, one payment after the other.
Fairness ==
  /\ WF_progressVars(CalmsDown)
  /\ \A w \in Worker : WF_vars(Transaction(w))
  /\ \A p \in Payment : SF_vars(Recover(p))

ProgressSpec == ProgressInit /\ [][ProgressNext]_progressVars /\ Fairness

-----------------------------------------------------------------------------
Honoured(p) == payment[p].status = "success" /\ Covers(purchase[p], clock)

\* A customer whose purchase covers the moment ends up on a plan paid for now,
\* whatever overlapping transactions, the confirmation of the free plan or the
\* expiry at the border of two periods did to the row: recovery lists a purchase
\* until the row shows it (process_due_internal_recovery).  Time may stop at any
\* moment (Tick is not fair), so it is asked of each: of a border too, where
\* maintenance has yet to take the old period away, or has just done so.
PaidPlanIsProjected ==
  <>[]((\E p \in Payment : Honoured(p)) =>
         \E p \in Payment : /\ Covers(purchase[p], clock)
                            /\ subscription = Mirror(purchase[p]))

=============================================================================

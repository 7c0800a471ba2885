---------------------- MODULE BillingPaymentsProgress ----------------------
(* What billing does in the end.  No property of progress survives a worker *)
(* that is killed in every tick, so faults happen any number of times but   *)
(* cease: calm is the environment's, not the program's.                     *)
EXTENDS BillingPayments

VARIABLE calm   \* no process dies or raises any more

ProgressVars == <<vars, calm>>

ProgressInit == Init /\ calm = FALSE

CalmsDown == ~ calm /\ calm' = TRUE /\ UNCHANGED vars

ProgressNext ==
  \/ NormalStep /\ UNCHANGED calm
  \/ ~ calm /\ Fault /\ UNCHANGED calm
  \/ CalmsDown

\* The worker loops for ever and a process that holds a payment runs on;
\* recovery is due again and again; a provider that is asked again and again
\* answers with the status of the moment.
Fairness ==
  /\ WF_ProgressVars(CalmsDown)
  /\ WF_vars(ReconStep)
  /\ SF_vars(ListToRecover)
  /\ \A w \in Worker : WF_vars(WorkerStep(w))
  /\ SF_vars(FetchFresh(Recon))

ProgressSpec == ProgressInit /\ [][ProgressNext]_ProgressVars /\ Fairness

\* Captured money is noticed: the worker polls a payment until its status is
\* the provider's success, or the provider takes the money back first.
CaptureIsNoticed ==
  \A p \in Payment :
    (provider[p] = "success") ~>
      (payment[p].status = "success" \/ provider[p] # "success")

\* And it is honoured the same day: when the process that wrote the success
\* dies before the purchase, recovery grants it, unless another process has
\* overwritten the status or midnight has passed since paid_at
\* (list_success_payments_requiring_subscription_recovery_today).
SuccessIsHonouredToday ==
  \A p \in Payment :
    (payment[p].status = "success" /\ purchase[p] = "none")
      ~> \/ purchase[p] # "none"
         \/ payment[p].status # "success"
         \/ Day(payment[p].paidAt) # Day(clock)

=============================================================================

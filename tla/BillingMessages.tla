--------------------------- MODULE BillingMessages ---------------------------
(* The way of a fiscal check: ReceiptRetrieval fetches it, and its row, or   *)
(* the row of an alert that there is none, is one that appears in            *)
(* BillingDelivery.  The two halves share no other state and no process, so  *)
(* a behaviour is one of one half or of the other, with the fairness of its  *)
(* processes.                                                                *)
EXTENDS BillingDelivery, ReceiptRetrieval

VARIABLE half
messageVars == <<vars, retrievalVars, half>>

MessagesInit == Init /\ RetrievalInit /\ half \in {"retrieval", "delivery"}

Delivering(Step) == half = "delivery" /\ Step /\ UNCHANGED <<retrievalVars, half>>
Retrieving(Step) == half = "retrieval" /\ Step /\ UNCHANGED <<vars, half>>

MessagesNext == Delivering(Next) \/ Retrieving(RetrievalNext)

\* The bot polls for ever, a request the API serves goes on, ten minutes pass, a
\* result is saved or lost.
DeliveryFairness ==
  /\ WF_messageVars(Delivering(\E h \in Handler : ApiStep(h)))
  /\ WF_messageVars(Delivering(BotStep))
  /\ \A i \in Item : WF_messageVars(Delivering(LeaseRunsOut(i)))
  /\ WF_messageVars(Delivering(\E a \in acks : HandleAck(a) \/ LoseAck(a)))

\* The worker loops, a fetch has a timeout and delays pass.
RetrievalFairness ==
  /\ WF_messageVars(Retrieving(List))
  /\ WF_messageVars(Retrieving(\E p \in Payment : WorkerBegins(p)))
  /\ \A w \in Process : WF_messageVars(Retrieving(Fetched(w, "done") \/ Fetched(w, "missing")))
  /\ WF_messageVars(Retrieving(\E p \in Payment : \E n \in DOMAIN rows[p] : DelayPasses(p, n)))

MessagesSpec ==
  MessagesInit /\ [][MessagesNext]_messageVars /\ DeliveryFairness /\ RetrievalFairness

=============================================================================

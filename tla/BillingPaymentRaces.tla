------------------------- MODULE BillingPaymentRaces -------------------------
(* Which interleavings of BillingPayments make the purchase ledger disagree *)
(* with the payment status for good, and which leave a result untold?  The   *)
(* auxiliary variables mark a payment when one process overtakes another on  *)
(* it or dies; everywhere else ledger, status and notifications agree.       *)
EXTENDS BillingPayments

VARIABLES
  raced,    \* payments on which one process overtook another
  dropped   \* payments on which a process died with a result still to be told

RaceVars == <<vars, raced, dropped>>

\* The step takes process w out of its position in the procedure.
Moved(w) == job'[w] # job[w]

\* The step writes a status decided on a row that had changed meanwhile.
WroteStale(w) ==
  job[w].pc = "write" /\ Moved(w) /\ job[w].seen # payment[job[w].pay].status

\* The step grants a purchase to a payment that is no success any more.
GrantedLate(w) ==
  job[w].pc = "apply" /\ Moved(w) /\ payment[job[w].pay].status # "success"

\* The step gives up between the status and the ledger.
GaveUp(w) ==
  /\ Moved(w)
  /\ \/ job[w].pc = "apply" /\ purchase'[job[w].pay] = "none"
     \/ job[w].pc = "reverse" /\ purchase'[job[w].pay] = "active"

Overtaken(w) == WroteStale(w) \/ GrantedLate(w) \/ GaveUp(w)

\* The step ends a process that still owes its customer the notification.
DiedUntold(w) ==
  /\ job[w].pc \in {"apply", "reverse", "notify"} /\ job'[w].pc = "idle"
  /\ notified' = notified /\ <<job[w].pay, job[w].got>> \notin notified

RaceInit == Init /\ raced = {} /\ dropped = {}

RaceNext ==
  /\ Next
  /\ raced' = raced \union {p \in Payment :
                  \E w \in Worker : job[w].pay = p /\ Overtaken(w)}
  /\ dropped' = dropped \union {p \in Payment :
                  \E w \in Worker : job[w].pay = p /\ DiedUntold(w)}

RaceSpec == RaceInit /\ [][RaceNext]_RaceVars

\* On a payment nobody is working on, the ledger says what the status says:
\* a success has an active purchase, and captured money whose payment ended
\* otherwise has none.  The exceptions are exactly the payments on which a
\* process wrote a status over one it had not seen, granted a purchase after
\* the payment had left success, or died between status and ledger
\* (apply_provider_status_payload commits the two separately).
LedgerAgreesUnlessRaced ==
  \A p \in Payment \ raced :
    Settled(p) => (payment[p].status = "success" <=> purchase[p] = "active")

\* A payment that came to rest in a terminal status (other than a refused
\* checkout) has the notification of that very status queued, whichever process
\* wrote it and however the writes were ordered, unless a process died between
\* the status and the notification (apply_provider_status_payload notifies
\* last, and a later poll finds the status terminal already).
TerminalIsNotified ==
  \A p \in Payment \ dropped :
    (Settled(p) /\ payment[p].invoiced /\ payment[p].status \in Terminal)
      => <<p, payment[p].status>> \in notified

=============================================================================

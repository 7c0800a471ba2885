--------------------------- MODULE BillingPayments ---------------------------
(* The life of a billing payment between the payment provider, the request  *)
(* handlers of app-api (checkout, provider webhook, client status polling)  *)
(* and the billing reconciliation worker.                                   *)
(*                                                                          *)
(* Every repository call of the code is a transaction of its own, so one    *)
(* action below is one such transaction or one provider call.  A process    *)
(* keeps the payment row it read in its memory ("seen") while the database  *)
(* moves on: all the processes run the same apply_provider_status_payload   *)
(* on a row that may be stale.                                              *)
EXTENDS Integers, FiniteSets

CONSTANTS
  Payment,         \* rows of billing_payment
  Instant,         \* payments taken by the "instant" provider
  Handler,         \* threads of app-api that serve requests
  Recon,           \* the reconciliation worker (one container, one loop)
  Outcome,         \* statuses the provider may come to report
  MaxClock,        \* bound on the clock
  TicksPerDay,     \* ticks of the clock in a calendar day
  RecheckWindow,   \* success_recheck_window_days
  RecheckInterval, \* success_recheck_interval_days
  RecheckTick,     \* success_recheck_hour, in ticks of the day
  NoPayment, NoStatus, Never  \* None

Worker == Handler \union {Recon}

ASSUME BillingAssumption ==
  /\ Instant \subseteq Payment
  /\ Recon \notin Handler
  /\ {MaxClock, RecheckTick} \subseteq Nat
  /\ {TicksPerDay, RecheckWindow, RecheckInterval} \subseteq Nat \ {0}
  /\ NoPayment \notin Payment
  /\ Never \notin Nat

-----------------------------------------------------------------------------
Returning == {"failure", "reversed", "expired"}
Terminal  == {"success"} \union Returning
Status    == {"created", "invoice_created", "processing"} \union Terminal

ASSUME NoStatusAssumption == NoStatus \notin Status

\* Status reported by the provider, as resolve_payment_status translates it.
Reported == Status \ {"created"}

ASSUME OutcomeAssumption == Outcome \subseteq Reported

Day(t) == t \div TicksPerDay

\* Mutant: only a success is protected against late news.
ShouldIgnoreAfterSuccess(seen, got) ==
  seen = "success" /\ got \in {"invoice_created", "processing"}

\* should_ignore_provider_status: the two kinds of late news that are dropped.
ShouldIgnore(seen, got) ==
  \/ seen = "success" /\ got \in {"invoice_created", "processing"}
  \/ seen \in Returning /\ got # seen

VARIABLES
  payment,   \* the billing_payment rows
  purchase,  \* status of the billing_subscription_purchase row of a payment
  notified,  \* terminal_status rows of billing_bot_notification
  provider,  \* what get_invoice_status answers
  captured,  \* payments the provider has ever captured
  job,       \* what each process is in the middle of
  batch,     \* rows the reconciliation worker listed and still has to visit
  phase,     \* the pass the reconciliation worker is in
  lastRun,   \* runtime state: last run of the success recheck
  runTime,   \* the time at which the current run of the recheck began
  clock

db == <<payment, purchase, notified>>
outside == <<provider, captured>>
runs == <<lastRun, runTime>>
worklist == <<batch, phase, runs>>
vars == <<db, outside, job, worklist, clock>>

Time == Nat \union {Never}

Row == [status: Status \union {NoStatus}, invoiced: BOOLEAN,
        paidAt: Time, rechecked: Time]

PC == {"idle", "invoice", "mark", "fetch", "write", "apply", "reverse",
       "notify", "recheck"}

Job == [pc: PC, pay: Payment \union {NoPayment},
        seen: Status \union {NoStatus}, got: Status \union {NoStatus}]

Snapshot == [pay: Payment, seen: Status]

NoJob  == [pc |-> "idle", pay |-> NoPayment, seen |-> NoStatus, got |-> NoStatus]
NoRow  == [status |-> NoStatus, invoiced |-> FALSE,
           paidAt |-> Never, rechecked |-> Never]

BillingTypeOK ==
  /\ payment \in [Payment -> Row]
  /\ purchase \in [Payment -> {"none", "active", "reversed"}]
  /\ notified \subseteq Payment \X Terminal
  /\ provider \in [Payment -> Reported \union {NoStatus}]
  /\ captured \subseteq Payment
  /\ job \in [Worker -> Job]
  /\ \A w \in Worker : job[w].pc # "idle" => job[w].pay \in Payment
  /\ batch \subseteq Snapshot
  /\ phase \in {"sleep", "poll", "recover", "recheck"}
  /\ lastRun \in Time /\ runTime \in Time
  /\ clock \in Nat

Init ==
  /\ payment = [p \in Payment |-> NoRow]
  /\ purchase = [p \in Payment |-> "none"]
  /\ notified = {}
  /\ provider = [p \in Payment |-> NoStatus]
  /\ captured = {}
  /\ job = [w \in Worker |-> NoJob]
  /\ batch = {}
  /\ phase = "sleep"
  /\ lastRun = Never /\ runTime = Never
  /\ clock = 0

-----------------------------------------------------------------------------
(* Control of a process.                                                    *)

Begin(w, pc, p, seen, got) ==
  job' = [job EXCEPT ![w] = [pc |-> pc, pay |-> p, seen |-> seen, got |-> got]]

Goto(w, pc) == job' = [job EXCEPT ![w].pc = pc]

Idle(w) == job' = [job EXCEPT ![w] = NoJob]

\* The success recheck stamps a payment after its poll; the other callers
\* are done with the payment.
AfterPoll(w) ==
  IF w = Recon /\ phase = "recheck" THEN Goto(w, "recheck") ELSE Idle(w)

\* Mutant: a payment that fails without ever having succeeded is not announced.
FirstEffectSilentFailure(seen, got) ==
  CASE got = "success" /\ seen # "success"   -> "apply"
    [] seen = "success" /\ got \in Returning -> "reverse"
    [] OTHER                                 -> "idle"

\* Mutant: a bad end revokes even what was never a success.
FirstEffectRevokeAll(seen, got) ==
  CASE got = "success" /\ seen # "success" -> "apply"
    [] got \in Returning                  -> "reverse"
    [] OTHER                              -> "idle"

\* The effect that follows the status write, in the order of the code.
FirstEffect(seen, got) ==
  CASE got = "success" /\ seen # "success"         -> "apply"
    [] seen = "success" /\ got \in Returning       -> "reverse"
    [] OTHER -> IF got \in Terminal /\ seen # got THEN "notify" ELSE "idle"

-----------------------------------------------------------------------------
(* Checkout: create_payment, create_invoice at the provider,                *)
(* mark_payment_invoice_created.                                            *)

Checkout(w, p) ==
  /\ job[w].pc = "idle"
  /\ payment[p].status = NoStatus
  /\ payment' = [payment EXCEPT ![p].status = "created"]
  /\ Begin(w, "invoice", p, "created", NoStatus)
  /\ UNCHANGED <<purchase, notified, outside, worklist, clock>>

CreateInvoice(w) ==
  LET p == job[w].pay
  IN /\ job[w].pc = "invoice"
     /\ IF p \in Instant
        THEN /\ provider' = [provider EXCEPT ![p] = "success"]
             /\ captured' = captured \union {p}
        ELSE /\ provider' = [provider EXCEPT ![p] = "invoice_created"]
             /\ UNCHANGED captured
     /\ Goto(w, "mark")
     /\ UNCHANGED <<db, worklist, clock>>

\* Mutant: the refusal is stored under a word that is not a payment status.
InvoiceRefusedAsFailed(w) ==
  /\ job[w].pc = "invoice"
  /\ payment' = [payment EXCEPT ![job[w].pay].status = "failed"]
  /\ Idle(w)
  /\ UNCHANGED <<purchase, notified, outside, worklist, clock>>

\* _mark_checkout_invoice_failure: the payment fails without an invoice id,
\* and nobody is notified (the caller of the checkout gets the error).
InvoiceRefused(w) ==
  LET p == job[w].pay
  IN /\ job[w].pc = "invoice"
     /\ payment' = [payment EXCEPT ![p].status = "failure"]
     /\ Idle(w)
     /\ UNCHANGED <<purchase, notified, outside, worklist, clock>>

MarkInvoiceCreated(w) ==
  LET p == job[w].pay
  IN /\ job[w].pc = "mark"
     /\ payment' = [payment EXCEPT ![p].status = "invoice_created",
                                   ![p].invoiced = TRUE]
     /\ IF p \in Instant THEN Begin(w, "fetch", p, "invoice_created", NoStatus)
                         ELSE Idle(w)
     /\ UNCHANGED <<purchase, notified, outside, worklist, clock>>

-----------------------------------------------------------------------------
(* Two ways a request handler takes up a payment.                           *)

\* The provider calls back, at any time and any number of times; the row is
\* found by its invoice id, whatever its status.
Webhook(w, p) ==
  /\ job[w].pc = "idle"
  /\ payment[p].invoiced /\ p \notin Instant
  /\ Begin(w, "fetch", p, payment[p].status, NoStatus)
  /\ UNCHANGED <<db, outside, worklist, clock>>

\* get_client_payment_status polls only what is not terminal.
ClientPoll(w, p) ==
  /\ job[w].pc = "idle"
  /\ payment[p].invoiced /\ payment[p].status \notin Terminal
  /\ Begin(w, "fetch", p, payment[p].status, NoStatus)
  /\ UNCHANGED <<db, outside, worklist, clock>>

-----------------------------------------------------------------------------
(* Fetch and apply a provider status.                                       *)

\* The provider answers with the status of the payment or, once it has ended,
\* with the stage before: the code expects late answers
\* ("stale_non_terminal_after_terminal_status").
Answers(p) ==
  {provider[p]}
    \union (IF p \in captured THEN {"success"} ELSE {})
    \union (IF provider[p] \in Terminal /\ p \notin Instant
            THEN {"processing"} ELSE {})

Answered(w, got) ==
  /\ job' = [job EXCEPT ![w].pc = "write", ![w].got = got]
  /\ UNCHANGED <<db, outside, worklist, clock>>

Fetch(w) ==
  /\ job[w].pc = "fetch"
  /\ \E got \in Answers(job[w].pay) : Answered(w, got)

FetchFresh(w) ==
  /\ job[w].pc = "fetch"
  /\ Answered(w, provider[job[w].pay])

FetchFails(w) ==
  /\ job[w].pc = "fetch"
  /\ Idle(w)
  /\ UNCHANGED <<db, outside, worklist, clock>>

IgnoreStatus(w) ==
  /\ job[w].pc = "write"
  /\ ShouldIgnore(job[w].seen, job[w].got)
  /\ AfterPoll(w)
  /\ UNCHANGED <<db, outside, worklist, clock>>

\* Every write of a success stamps paid_at anew, a recheck's included.
PaidAt(p, got) == IF got = "success" THEN clock ELSE payment[p].paidAt

\* update_payment_provider_status is unconditional: the test was made on the
\* row the process remembers, not on the row it writes.
WriteStatus(w) ==
  LET p == job[w].pay  got == job[w].got
  IN /\ job[w].pc = "write"
     /\ ~ ShouldIgnore(job[w].seen, got)
     /\ payment' = [payment EXCEPT ![p].status = got,
                                   ![p].paidAt = PaidAt(p, got)]
     /\ LET next == FirstEffect(job[w].seen, got)
        IN IF next = "idle" THEN AfterPoll(w) ELSE Goto(w, next)
     /\ UNCHANGED <<purchase, notified, outside, worklist, clock>>

\* Mutant: applying a payment again turns its reversed purchase active.
ApplyPurchaseRevives(w) ==
  /\ job[w].pc = "apply"
  /\ purchase' = [purchase EXCEPT ![job[w].pay] = "active"]
  /\ IF job[w].seen = job[w].got THEN Idle(w) ELSE Goto(w, "notify")
  /\ UNCHANGED <<payment, notified, outside, worklist, clock>>

\* The purchase row is unique per payment and a row that exists is kept.
\* Recovery stops here; a status change goes on to its notification.
ApplyPurchase(w) ==
  LET p == job[w].pay
  IN /\ job[w].pc = "apply"
     /\ purchase' = [purchase EXCEPT ![p] = IF @ = "none" THEN "active" ELSE @]
     /\ IF job[w].seen = job[w].got THEN Idle(w) ELSE Goto(w, "notify")
     /\ UNCHANGED <<payment, notified, outside, worklist, clock>>

\* A missing purchase is skipped (subscription_revocation_skipped).
ReversePurchase(w) ==
  LET p == job[w].pay
  IN /\ job[w].pc = "reverse"
     /\ purchase' = [purchase EXCEPT ![p] = IF @ = "none" THEN @ ELSE "reversed"]
     /\ Goto(w, "notify")
     /\ UNCHANGED <<payment, notified, outside, worklist, clock>>

\* Mutant: the notification carries the status the payment had before.
NotifyCustomerOfOld(w) ==
  /\ job[w].pc = "notify"
  /\ notified' = notified \union {<<job[w].pay, job[w].seen>>}
  /\ AfterPoll(w)
  /\ UNCHANGED <<payment, purchase, outside, worklist, clock>>

\* create_terminal_bot_notification: one row per payment and status.
NotifyCustomer(w) ==
  /\ job[w].pc = "notify"
  /\ notified' = notified \union {<<job[w].pay, job[w].got>>}
  /\ AfterPoll(w)
  /\ UNCHANGED <<payment, purchase, outside, worklist, clock>>

\* mark_payment_success_rechecked, after the poll returned normally.
MarkRechecked(w) ==
  /\ job[w].pc = "recheck"
  /\ payment' = [payment EXCEPT ![job[w].pay].rechecked = clock]
  /\ Idle(w)
  /\ UNCHANGED <<purchase, notified, outside, worklist, clock>>

-----------------------------------------------------------------------------
(* The reconciliation worker: one tick lists and visits non-terminal        *)
(* payments, then payments to recover, then successes to recheck.           *)

SnapshotOf(P) == {[pay |-> p, seen |-> payment[p].status] : p \in P}

\* Mutant: a payment on hold is taken for finished.
NonTerminalNew == {p \in Payment : /\ payment[p].status = "invoice_created"
                                   /\ payment[p].invoiced}

NonTerminal == {p \in Payment : /\ payment[p].status \notin Terminal
                                /\ payment[p].invoiced}

\* Mutant: recovery looks at the days before today.
ToRecoverLate == {p \in Payment : /\ payment[p].status = "success"
                                  /\ payment[p].paidAt # Never
                                  /\ Day(payment[p].paidAt) < Day(clock)
                                  /\ purchase[p] = "none"}

\* Successes paid TODAY without a purchase row.
ToRecover == {p \in Payment : /\ payment[p].status = "success"
                              /\ payment[p].paidAt # Never
                              /\ Day(payment[p].paidAt) = Day(clock)
                              /\ purchase[p] = "none"}

DueForRecheck ==
  {p \in Payment :
     /\ payment[p].status = "success" /\ payment[p].invoiced
     /\ payment[p].paidAt # Never
     /\ payment[p].paidAt >= clock - RecheckWindow * TicksPerDay
     /\ \/ payment[p].rechecked = Never
        \/ payment[p].rechecked <= clock - RecheckInterval * TicksPerDay}

RecheckRunIsDue ==
  /\ clock % TicksPerDay >= RecheckTick
  /\ lastRun # Never => Day(clock) >= Day(lastRun) + RecheckInterval

ReconFree == job[Recon].pc = "idle"

ListNonTerminal ==
  /\ ReconFree /\ phase = "sleep"
  /\ phase' = "poll"
  /\ batch' = SnapshotOf(NonTerminal)
  /\ UNCHANGED <<db, outside, job, runs, clock>>

ListToRecover ==
  /\ ReconFree /\ phase = "poll" /\ batch = {}
  /\ phase' = "recover"
  /\ batch' = SnapshotOf(ToRecover)
  /\ UNCHANGED <<db, outside, job, runs, clock>>

\* Recovery has an interval of its own and may not be due in this tick.
SkipRecovery ==
  /\ ReconFree /\ phase = "poll" /\ batch = {}
  /\ phase' = "recover"
  /\ UNCHANGED <<db, outside, job, batch, runs, clock>>

ListToRecheck ==
  /\ ReconFree /\ phase = "recover" /\ batch = {}
  /\ RecheckRunIsDue
  /\ phase' = "recheck"
  /\ runTime' = clock
  /\ batch' = SnapshotOf(DueForRecheck)
  /\ UNCHANGED <<db, outside, job, lastRun, clock>>

\* The tick ends: a recheck pass is recorded with the time at which it began,
\* or the pass was not due.
EndTick ==
  /\ ReconFree /\ batch = {}
  /\ \/ phase = "recheck" /\ lastRun' = runTime
     \/ phase = "recover" /\ ~ RecheckRunIsDue /\ UNCHANGED lastRun
  /\ phase' = "sleep" /\ runTime' = Never
  /\ UNCHANGED <<db, outside, job, batch, clock>>

\* The worker takes up a row it listed, as it was when it was listed.
TakeFromBatch(s) ==
  /\ ReconFree /\ s \in batch
  /\ batch' = batch \ {s}
  /\ IF phase = "recover"
     THEN Begin(Recon, "apply", s.pay, "success", "success")
     ELSE Begin(Recon, "fetch", s.pay, s.seen, NoStatus)
  /\ UNCHANGED <<db, outside, phase, runs, clock>>

-----------------------------------------------------------------------------
(* Faults: an exception in a call ends the request, or this payment's turn  *)
(* in the batch; a restart of the worker loses the whole batch.             *)

Abort(w) ==
  /\ job[w].pc \notin {"idle", "fetch"}  \* at "fetch" this is FetchFails
  /\ Idle(w)
  /\ UNCHANGED <<db, outside, worklist, clock>>

ReconRestarts ==
  /\ phase # "sleep"
  /\ Idle(Recon)
  /\ batch' = {} /\ phase' = "sleep" /\ runTime' = Never
  /\ UNCHANGED <<db, outside, lastRun, clock>>

-----------------------------------------------------------------------------
(* The world: the provider and the clock.  The customer can pay once the    *)
(* checkout has returned the invoice's page.  A terminal answer is final,   *)
(* except that captured money can be taken back.                            *)

ProviderStep(p, new) ==
  /\ p \notin Instant
  /\ provider[p] # new
  /\ CASE provider[p] = "invoice_created" ->
            payment[p].invoiced \/ new = "expired"
       [] provider[p] = "processing" -> new \in Terminal \ {"expired"}
       [] provider[p] = "success"    -> new \in Returning
       [] OTHER -> FALSE
  /\ new = "reversed" => p \in captured
  /\ provider' = [provider EXCEPT ![p] = new]
  /\ captured' = IF new = "success" THEN captured \union {p} ELSE captured
  /\ UNCHANGED <<db, job, worklist, clock>>

Tick ==
  /\ clock < MaxClock
  /\ clock' = clock + 1
  /\ UNCHANGED <<db, outside, job, worklist>>

-----------------------------------------------------------------------------
\* Steps of the procedure every process runs on the payment it holds.
WorkerStep(w) ==
  \/ Fetch(w) \/ FetchFails(w)
  \/ IgnoreStatus(w) \/ WriteStatus(w)
  \/ ApplyPurchase(w) \/ ReversePurchase(w)
  \/ NotifyCustomer(w) \/ MarkRechecked(w)

CheckoutStep(w) ==
  CreateInvoice(w) \/ InvoiceRefused(w) \/ MarkInvoiceCreated(w)

ReconStep ==
  \/ ListNonTerminal \/ ListToRecover \/ SkipRecovery
  \/ ListToRecheck \/ EndTick
  \/ \E s \in batch : TakeFromBatch(s)

NormalStep ==
  \/ \E w \in Handler, p \in Payment :
       Checkout(w, p) \/ Webhook(w, p) \/ ClientPoll(w, p)
  \/ \E w \in Handler : CheckoutStep(w)
  \/ \E w \in Worker : WorkerStep(w)
  \/ ReconStep
  \/ \E p \in Payment, new \in Outcome : ProviderStep(p, new)
  \/ Tick

Fault == ReconRestarts \/ \E w \in Worker : Abort(w)

Next == NormalStep \/ Fault

Spec == Init /\ [][Next]_vars

-----------------------------------------------------------------------------
(* Properties.                                                              *)

\* What the provider did with the money, seen from the promise PaidAccess.
Money(p) == IF p \notin captured THEN "unpaid"
            ELSE IF provider[p] \in Returning THEN "returned" ELSE "captured"

Promise == INSTANCE PaidAccess
             WITH money <- [p \in Payment |-> Money(p)], access <- purchase

\* However stale the rows the processes work on, and whatever they lose:
\* access is granted at most once and only for captured money, it is revoked
\* only when the provider took the money back, and a revoked purchase is never
\* revived (apply_subscription_purchase_for_payment keeps an existing row).
KeepsPromise == Promise!Spec

\* No customer is told of a result the provider never reported: a notification
\* of success needs captured money, one of a reversal a reversal.
NotifiedOnlyTheTruth ==
  \A n \in notified :
    IF n[2] = "success" THEN n[1] \in captured ELSE provider[n[1]] = n[2]

\* The inductive invariant behind the two: rows, jobs and listed snapshots may
\* be old, but what they say of the provider was true and has stayed true.
Told(p, status) ==
  IF status = "success" THEN p \in captured
  ELSE status \in Returning => provider[p] = status

RowsAreTrue ==
  \A p \in Payment :
    /\ payment[p].status = "success" => p \in captured
    /\ payment[p].invoiced => provider[p] # NoStatus
    /\ provider[p] # NoStatus => payment[p].status # NoStatus
    /\ p \in captured => provider[p] # NoStatus
    /\ provider[p] = "success" => p \in captured

JobIsTrue(j) ==
  /\ j.pc = "invoice" => /\ provider[j.pay] = NoStatus
                         /\ payment[j.pay].status # NoStatus
  /\ j.pc \in {"mark", "fetch", "write"} => provider[j.pay] # NoStatus
  /\ j.pc # "idle" /\ j.seen = "success" => j.pay \in captured
  /\ j.pc \in {"write", "apply", "reverse", "notify"} =>
       j.got \in Reported /\ Told(j.pay, j.got)
  /\ j.pc = "apply" => j.got = "success"
  /\ j.pc = "reverse" => j.seen = "success" /\ j.got \in Returning
  /\ j.pc = "notify" => j.got \in Terminal

JobsAreTrue == \A w \in Worker : JobIsTrue(job[w])

CheckoutIsExclusive ==
  \A v, w \in Worker :
    job[v].pc = "invoice" /\ job[w].pc = "invoice" /\ job[v].pay = job[w].pay
      => v = w

BatchIsTrue ==
  \A s \in batch : /\ provider[s.pay] # NoStatus
                   /\ s.seen = "success" => s.pay \in captured
                   /\ phase = "recover" => s.pay \in captured

LedgerIsTrue ==
  \A p \in Payment :
    /\ purchase[p] # "none" => p \in captured
    /\ purchase[p] = "reversed" => provider[p] \in Returning

NewsIsTrue == /\ RowsAreTrue /\ JobsAreTrue /\ CheckoutIsExclusive
              /\ BatchIsTrue /\ LedgerIsTrue /\ NotifiedOnlyTheTruth

\* Nobody is in the middle of applying a status to p.
Settled(p) ==
  \A w \in Worker : job[w].pay = p =>
    job[w].pc \notin {"apply", "reverse", "notify"}

\* A late "processing" never takes a successful payment back to a pending one.
SuccessNeverRegresses ==
  [][\A p \in Payment :
       payment[p].status = "success" => payment'[p].status \in Terminal]_vars

=============================================================================

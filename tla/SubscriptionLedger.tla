-------------------------- MODULE SubscriptionLedger --------------------------
(* From a paid payment to the plan of its customer: checkout quotes, the    *)
(* ledger of purchased periods (billing_subscription_purchase) and its      *)
(* projection on the user_subscription row that the paywall reads.          *)
(*                                                                          *)
(* One customer: every query of the code is by user.  Every transaction     *)
(* runs under READ COMMITTED and is cut where other transactions may commit *)
(* between its reads and its writes; an UPDATE writes only the columns that *)
(* differ from those the session loaded.  A month is one tick.              *)
EXTENDS Integers, FiniteSetsExt

CONSTANTS
  Payment,     \* the customer's payments
  Handler,     \* threads of app-api and app-admin, polls of reconciliation
  Background,  \* threads of recovery and of maintenance
  Offer,       \* the paid plans that may be ordered
  Months,      \* granted_period_months on offer
  AdminPlans,  \* plans an administrator may set
  MaxClock,    \* bound on the clock
  NoPayment, Never  \* None

ASSUME LedgerAssumption ==
  /\ Offer \subseteq {"premium", "premium_plus"}
  /\ Months \subseteq Nat \ {0}
  /\ AdminPlans \subseteq {"free", "premium", "premium_plus"}
  /\ MaxClock \in Nat
  /\ NoPayment \notin Payment
  /\ Never \notin Nat

-----------------------------------------------------------------------------
Worker == Handler \union Background

Paid == {"premium", "premium_plus"}       \* MONTHLY_PLAN_KEYS of a student
Plan == {"free"} \union Paid

Rank == [free |-> 0, premium |-> 1, premium_plus |-> 2]

VARIABLES
  payment,       \* billing_payment rows, with the quote frozen at checkout
  purchase,      \* billing_subscription_purchase rows, by payment
  subscription,  \* the user_subscription row
  inserted,      \* <<p, q>>: the row of p was inserted after that of q (its id
                 \* is the larger one)
  job,           \* the transaction each process is in
  clock

vars == <<payment, purchase, subscription, inserted, job, clock>>

Time == Nat \union {Never}

Quote == [kind: {"none", "renewal", "upgrade", "subscription"},
          start: Time, end: Time]

PaymentRow == [status: {"none", "open", "success", "reversed"}, plan: Plan,
               months: Nat, quote: Quote, paidAt: Time]

Purchase == [status: {"none", "active", "reversed"}, plan: Plan,
             start: Nat, end: Nat]

Subscription == [plan: Plan, start: Nat, end: Time]

\* An UPDATE writes the columns that the session has changed.
Column == {"plan", "start", "end"}

Job == [tx: {"idle", "apply", "reverse", "expire", "free", "admin"},
        step: {"project", "commit"}, pay: Payment \union {NoPayment}, now: Nat,
        row: Purchase, write: Subscription, changed: SUBSET Column]

NoQuote    == [kind |-> "none", start |-> Never, end |-> Never]
NoPaymentRow == [status |-> "none", plan |-> "free", months |-> 0,
                 quote |-> NoQuote, paidAt |-> Never]
NoPurchase == [status |-> "none", plan |-> "free", start |-> 0, end |-> 0]
FreeSince(t) == [plan |-> "free", start |-> t, end |-> Never]
NoJob == [tx |-> "idle", step |-> "commit", pay |-> NoPayment, now |-> 0,
          row |-> NoPurchase, write |-> FreeSince(0), changed |-> {}]

LedgerTypeOK ==
  /\ payment \in [Payment -> PaymentRow]
  /\ purchase \in [Payment -> Purchase]
  /\ subscription \in Subscription
  /\ job \in [Worker -> Job]
  /\ \A w \in Worker : job[w].tx \in {"apply", "reverse"} => job[w].pay \in Payment
  /\ inserted \subseteq Payment \X Payment
  /\ clock \in Nat
  /\ \A p \in Payment :
       purchase[p].status # "none" => purchase[p].start < purchase[p].end

Init ==
  /\ payment = [p \in Payment |-> NoPaymentRow]
  /\ purchase = [p \in Payment |-> NoPurchase]
  /\ subscription = FreeSince(0)
  /\ job = [w \in Worker |-> NoJob]
  /\ inserted = {}
  /\ clock = 0

-----------------------------------------------------------------------------
(* Checkout and payment.                                                    *)

Running(sub) == sub.end # Never /\ sub.end > clock

\* Mutant: an upgrade extends the moment, not the period it replaces.
QuoteForFromNow(plan, months) ==
  LET sub == subscription
  IN CASE plan = sub.plan /\ Running(sub) ->
            [kind |-> "renewal", start |-> sub.end, end |-> sub.end + months]
       [] sub.plan # "free" /\ Rank[sub.plan] < Rank[plan] /\ Running(sub) ->
            [kind |-> "upgrade", start |-> clock, end |-> clock + months - 1]
       [] OTHER -> [NoQuote EXCEPT !.kind = "subscription"]

\* build_checkout_quote: what is paid for is fixed now, on the projected row.
QuoteFor(plan, months) ==
  LET sub == subscription
  IN CASE plan = sub.plan /\ Running(sub) ->
            [kind |-> "renewal", start |-> sub.end, end |-> sub.end + months]
       [] sub.plan # "free" /\ Rank[sub.plan] < Rank[plan] /\ Running(sub) ->
            [kind |-> "upgrade", start |-> clock, end |-> sub.end + months - 1]
       [] OTHER -> [NoQuote EXCEPT !.kind = "subscription"]

IsDowngrade(plan) == Rank[subscription.plan] > Rank[plan] /\ Running(subscription)

Checkout(p, plan, months) ==
  /\ payment[p].status = "none"
  /\ ~ IsDowngrade(plan)
  /\ payment' = [payment EXCEPT ![p] =
                   [status |-> "open", plan |-> plan, months |-> months,
                    quote |-> QuoteFor(plan, months), paidAt |-> Never]]
  /\ UNCHANGED <<purchase, subscription, inserted, job, clock>>

\* The status writes of BillingPayments, as far as the ledger sees them.
WriteSuccess(p) ==
  /\ payment[p].status = "open"
  /\ payment' = [payment EXCEPT ![p].status = "success", ![p].paidAt = clock]
  /\ UNCHANGED <<purchase, subscription, inserted, job, clock>>

WriteReversed(p) ==
  /\ payment[p].status = "success"
  /\ payment' = [payment EXCEPT ![p].status = "reversed"]
  /\ UNCHANGED <<purchase, subscription, inserted, job, clock>>

-----------------------------------------------------------------------------
(* The ledger and its projection.                                           *)

Begin(w, tx, p, row) ==
  job' = [job EXCEPT ![w] = [NoJob EXCEPT !.tx = tx, !.step = "project",
                               !.pay = p, !.now = clock, !.row = row]]

\* Active periods that end in the future.
EndsAhead == {purchase[q].end : q \in {r \in Payment :
                purchase[r].status = "active" /\ purchase[r].end > clock}}

Latest(times) == {t \in times : \A u \in times : u <= t}

\* An upgrade or a renewal is granted the period of its quote; a first
\* subscription starts when it was paid or, if later, where the paid time ends.
GrantedPeriods(p) ==
  LET row == payment[p]
  IN IF row.quote.kind # "subscription"
     THEN {[start |-> row.quote.start, end |-> row.quote.end]}
     ELSE {[start |-> t, end |-> t + row.months] :
             t \in Latest(EndsAhead \union {row.paidAt})}

\* Nobody holds an uncommitted row for p (the unique index on payment_id makes
\* a second INSERT wait, and then fall back to the row of the first).
RowIsUnclaimed(p) ==
  \A w \in Worker : ~ (job[w].tx = "apply" /\ job[w].pay = p /\ job[w].row.status = "active")

NewPurchase(p, period) ==
  [status |-> "active", plan |-> payment[p].plan,
   start |-> period.start, end |-> period.end]

\* The row of p gets an id above every other.
Insert(w, p) ==
  /\ \E period \in GrantedPeriods(p) : Begin(w, "apply", p, NewPurchase(p, period))
  /\ inserted' = (inserted \ (Payment \X {p})) \union ({p} \X (Payment \ {p}))

\* Mutant: the unique index is missing.
BeginApplyTwice(w, p) ==
  /\ job[w].tx = "idle"
  /\ payment[p].status = "success"
  /\ Insert(w, p)
  /\ UNCHANGED <<payment, purchase, subscription, clock>>

BeginApply(w, p) ==
  /\ job[w].tx = "idle"
  /\ payment[p].status = "success"
  /\ \/ purchase[p].status = "none" /\ RowIsUnclaimed(p) /\ Insert(w, p)
     \/ purchase[p].status # "none" /\ Begin(w, "apply", p, NoPurchase)
                                    /\ UNCHANGED inserted
  /\ UNCHANGED <<payment, purchase, subscription, clock>>

BeginReverse(w, p) ==
  /\ job[w].tx = "idle"
  /\ payment[p].status = "reversed" /\ purchase[p].status # "none"
  /\ Begin(w, "reverse", p, [purchase[p] EXCEPT !.status = "reversed"])
  /\ UNCHANGED <<payment, purchase, subscription, inserted, clock>>

\* What the transaction of w sees: the committed rows and its own.
View(w) == IF job[w].row.status = "none" THEN purchase
           ELSE [purchase EXCEPT ![job[w].pay] = job[w].row]

Covers(row, t) == row.status = "active" /\ row.start <= t /\ t < row.end

\* The covering purchase that started last, or of two the younger row.
Newest(ledger, t) ==
  LET covering == {p \in Payment : Covers(ledger[p], t)}
  IN {p \in covering : \A q \in covering \ {p} :
        \/ ledger[p].start > ledger[q].start
        \/ ledger[p].start = ledger[q].start /\ <<p, q>> \in inserted}

Mirror(row) == [plan |-> row.plan, start |-> row.start, end |-> row.end]

\* Mutant: a reversed purchase takes the paid plan away without a look at the
\* other purchases.
ProjectionsRevokeAll(ledger, t) ==
  IF \E p \in Payment : ledger[p].status = "reversed" THEN {FreeSince(t)}
  ELSE IF \E p \in Payment : Covers(ledger[p], t)
       THEN {Mirror(ledger[p]) : p \in Newest(ledger, t)}
       ELSE {IF subscription.plan \in Paid THEN FreeSince(t) ELSE subscription}

\* _project_subscription_for_user_in_session: the row mirrors the newest of the
\* covering purchases; without one, a paid plan falls back to free.
Projections(ledger, t) ==
  IF \E p \in Payment : Covers(ledger[p], t)
  THEN {Mirror(ledger[p]) : p \in Newest(ledger, t)}
  ELSE {IF subscription.plan \in Paid THEN FreeSince(t) ELSE subscription}

Differ(old, new) == {c \in Column : old[c] # new[c]}

ProjectOn(w, ledger) ==
  /\ job[w].tx \in {"apply", "reverse"} /\ job[w].step = "project"
  /\ \E new \in Projections(ledger, job[w].now) :
       job' = [job EXCEPT ![w].step = "commit", ![w].write = new,
                          ![w].changed = Differ(subscription, new)]
  /\ UNCHANGED <<payment, purchase, subscription, inserted, clock>>

\* Mutant: the projection is read before the change of the purchase is flushed.
ProjectUnflushed(w) == ProjectOn(w, purchase)

Project(w) == ProjectOn(w, View(w))

\* The row after the UPDATE of transaction j.
Written(j) ==
  LET new(c) == IF c \in j.changed THEN j.write[c] ELSE subscription[c]
  IN [plan |-> new("plan"), start |-> new("start"), end |-> new("end")]

Commit(w) ==
  /\ job[w].tx # "idle" /\ job[w].step = "commit"
  /\ purchase' = View(w)
  /\ subscription' = Written(job[w])
  /\ job' = [job EXCEPT ![w] = NoJob]
  /\ UNCHANGED <<payment, inserted, clock>>

\* A transaction that fails leaves nothing behind.
Rollback(w) ==
  /\ job[w].tx # "idle"
  /\ job' = [job EXCEPT ![w] = NoJob]
  /\ UNCHANGED <<payment, purchase, subscription, inserted, clock>>

-----------------------------------------------------------------------------
(* The other writers of the subscription row.                               *)

\* process_expired_paid_subscriptions: a plan whose period has ended.
BeginExpire(w) ==
  /\ job[w].tx = "idle"
  /\ subscription.plan \in Paid /\ subscription.end # Never
  /\ subscription.end <= clock
  /\ job' = [job EXCEPT ![w] = [NoJob EXCEPT !.tx = "expire", !.now = clock,
                !.write = FreeSince(clock),
                !.changed = Differ(subscription, FreeSince(clock))]]
  /\ UNCHANGED <<payment, purchase, subscription, inserted, clock>>

\* set_plan_for_user loads the row; a paid plan runs for 30 days.
SetPlan(w, tx, plan, now) ==
  LET new == [plan |-> plan, start |-> now,
              end |-> IF plan \in Paid THEN now + 1 ELSE Never]
  IN job' = [job EXCEPT ![w] = [NoJob EXCEPT !.tx = tx, !.now = now, !.write = new,
                                  !.changed = Differ(subscription, new)]]

\* select_plan: a customer on the free plan confirms it.  The check is one
\* transaction, set_plan_for_user the next.
BeginSelectFree(w) ==
  /\ job[w].tx = "idle"
  /\ subscription.plan = "free"
  /\ job' = [job EXCEPT ![w] = [NoJob EXCEPT !.tx = "free", !.step = "project",
                                  !.now = clock]]
  /\ UNCHANGED <<payment, purchase, subscription, inserted, clock>>

SelectFree(w) ==
  /\ job[w].tx = "free" /\ job[w].step = "project"
  /\ SetPlan(w, "free", "free", job[w].now)
  /\ UNCHANGED <<payment, purchase, subscription, inserted, clock>>

BeginAdminPlan(w, plan) ==
  /\ job[w].tx = "idle"
  /\ SetPlan(w, "admin", plan, clock)
  /\ UNCHANGED <<payment, purchase, subscription, inserted, clock>>

-----------------------------------------------------------------------------
\* Mutant: only the payments of today are listed.
NeedsRecoveryToday(p) ==
  /\ payment[p].status = "success" /\ payment[p].paidAt = clock
  /\ \/ purchase[p].status = "none"
     \/ Covers(purchase[p], clock) /\ subscription # Mirror(purchase[p])

\* What recovery lists: a success without a purchase, or an active purchase
\* that covers the moment and is not the one projected.
NeedsRecovery(p) ==
  /\ payment[p].status = "success"
  /\ \/ purchase[p].status = "none" /\ payment[p].paidAt = clock
     \/ Covers(purchase[p], clock) /\ subscription # Mirror(purchase[p])

BeginRecover(w, p) == NeedsRecovery(p) /\ BeginApply(w, p)

Tick ==
  /\ clock < MaxClock
  /\ clock' = clock + 1
  /\ UNCHANGED <<payment, purchase, subscription, inserted, job>>

Transaction(w) == SelectFree(w) \/ Project(w) \/ Commit(w)

\* What happens between the commits.
Uncommitted ==
  \/ \E p \in Payment, plan \in Offer, months \in Months : Checkout(p, plan, months)
  \/ \E p \in Payment : WriteSuccess(p) \/ WriteReversed(p)
  \/ \E w \in Handler, p \in Payment : BeginApply(w, p) \/ BeginReverse(w, p)
  \/ \E w \in Handler : BeginSelectFree(w) \/ SelectFree(w)
  \/ \E w \in Handler, plan \in AdminPlans : BeginAdminPlan(w, plan)
  \/ \E w \in Background, p \in Payment : BeginRecover(w, p)
  \/ \E w \in Background : BeginExpire(w)
  \/ \E w \in Worker : Project(w) \/ Rollback(w)
  \/ Tick

Next == Uncommitted \/ \E w \in Worker : Commit(w)

Spec == Init /\ [][Next]_vars

-----------------------------------------------------------------------------
(* Properties.                                                              *)

\* The unique payment_id makes every grant final: a period once committed is
\* never changed, extended or granted again, by whichever transactions apply
\* or reverse it concurrently.
PurchaseIsFinal ==
  [][\A p \in Payment : purchase[p].status # "none" =>
       /\ Mirror(purchase'[p]) = Mirror(purchase[p])
       /\ purchase[p].status = "reversed" => purchase'[p].status = "reversed"]_vars

\* A payment carries all that its grant will need from the moment it was
\* quoted or paid (create_checkout, update_payment_provider_status).
IsPriced(row) ==
  /\ row.status # "none" => row.quote.kind # "none" /\ row.months \in Nat \ {0}
  /\ row.quote.kind \in {"renewal", "upgrade"} =>
       row.quote.start \in Nat /\ row.quote.end \in Nat
       /\ row.quote.start < row.quote.end
  /\ row.status \in {"success", "reversed"} => row.paidAt \in Nat

\* An uncommitted row is for a payment without one, or reverses the committed
\* row of the same period.
RowIsSound(j) ==
  /\ j.row.status # "none" => j.pay \in Payment /\ j.row.start < j.row.end
  /\ j.row.status = "active" => j.tx = "apply" /\ purchase[j.pay].status = "none"
  /\ j.row.status = "reversed" => /\ purchase[j.pay].status # "none"
                                  /\ Mirror(j.row) = Mirror(purchase[j.pay])

Claims(j, p) == j.row.status = "active" /\ j.pay = p

\* However many processes apply or reverse one payment at once, at most one of
\* them holds its new row, and none when one is committed; what it grants was
\* fixed when the payment was quoted and paid.  (The unique index on payment_id
\* is all that orders them: apply_subscription_purchase_for_payment.)
GrantsAreSound ==
  /\ \A p \in Payment : IsPriced(payment[p])
  /\ \A w \in Worker : RowIsSound(job[w])
  /\ \A v, w \in Worker : Claims(job[v], job[w].pay) /\ Claims(job[w], job[w].pay)
                            => v = w

Idle == \A w \in Worker : job[w].tx = "idle"

\* A renewal starts where all the time paid for so far ends, as the plan page
\* shows it (get_subscription_projection_for_user).
PaidHorizon == {purchase[p].end : p \in {q \in Payment :
                  purchase[q].status = "active" /\ purchase[q].end > clock}}

RenewalStartsAtHorizon ==
  [][\A p \in Payment :
       payment[p].status = "none" /\ payment'[p].quote.kind = "renewal"
         => payment'[p].quote.start = Max(PaidHorizon)]_vars

\* A reversal revokes the subscription: the plan of a reversed purchase does
\* not stay on the row, unless another purchase gives the same.
ReversalRevokes ==
  \A p \in Payment :
    /\ Idle /\ purchase[p].status = "reversed"
    /\ subscription.plan \in Paid /\ subscription = Mirror(purchase[p])
    => \E q \in Payment : /\ purchase[q].status = "active"
                          /\ Mirror(purchase[q]) = Mirror(purchase[p])

=============================================================================

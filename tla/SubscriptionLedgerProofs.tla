----------------------- MODULE SubscriptionLedgerProofs -----------------------
(* Proofs about SubscriptionLedger and SubscriptionLedgerRaces, for any       *)
(* payments, processes, months and plans of administrators.  A committed      *)
(* purchase never changes because the rows that transactions are about to     *)
(* commit were sound when they began, and stay so whatever commits meanwhile  *)
(* (Inv); the row stays a mirror of the ledger because what a transaction     *)
(* that nothing overtook has read is still so when it commits (RaceInv).      *)
EXTENDS SubscriptionLedgerRaces, TLAPS

USE LedgerAssumption

Inv == LedgerTypeOK /\ GrantsAreSound

-----------------------------------------------------------------------------
(* Types of the values that steps build.                                    *)

LEMMA NoJobType == NoJob \in Job /\ NoJob.row = NoPurchase
BY DEF NoJob, Job, NoPurchase, Purchase, FreeSince, Subscription, Plan, Paid, Time

LEMMA FreeSinceType ==
  ASSUME NEW t \in Nat
  PROVE  FreeSince(t) \in Subscription
BY DEF FreeSince, Subscription, Plan, Paid, Time

LEMMA MirrorType ==
  ASSUME NEW row \in Purchase
  PROVE  Mirror(row) \in Subscription
BY DEF Mirror, Purchase, Subscription, Time

LEMMA DifferType ==
  ASSUME NEW old, NEW new
  PROVE  Differ(old, new) \in SUBSET Column
BY DEF Differ

LEMMA JobUpdate ==
  ASSUME Inv, NEW w \in Worker, NEW j \in Job, job' = [job EXCEPT ![w] = j]
  PROVE  /\ job' \in [Worker -> Job]
         /\ job'[w] = j
         /\ \A v \in Worker \ {w} : job'[v] = job[v]
BY Zenon DEF Inv, LedgerTypeOK

\* A step that changes nothing but its own transaction and the order of rows.
LEMMA JobStep ==
  ASSUME Inv, NEW w \in Worker, NEW j \in Job, job' = [job EXCEPT ![w] = j],
         j.tx \in {"apply", "reverse"} => j.pay \in Payment,
         RowIsSound(j),
         \A v \in Worker \ {w} : ~ (Claims(j, j.pay) /\ Claims(job[v], j.pay)),
         inserted' \subseteq Payment \X Payment,
         UNCHANGED <<payment, purchase, subscription, clock>>
  PROVE  Inv'
<1>1. /\ job' \in [Worker -> Job] /\ job'[w] = j
      /\ \A v \in Worker \ {w} : job'[v] = job[v]
  BY JobUpdate
<1>2. LedgerTypeOK'
  BY <1>1 DEF Inv, LedgerTypeOK
<1>3. \A p \in Payment : IsPriced(payment'[p])
  BY DEF Inv, GrantsAreSound
<1>4. \A v \in Worker : RowIsSound(job[v])'
  BY <1>1 DEF Inv, GrantsAreSound, RowIsSound
<1>5. \A u, v \in Worker :
        Claims(job'[u], job'[v].pay) /\ Claims(job'[v], job'[v].pay) => u = v
  BY <1>1 DEF Inv, GrantsAreSound, Claims
<1> QED  BY <1>2, <1>3, <1>4, <1>5 DEF Inv, GrantsAreSound

-----------------------------------------------------------------------------
(* The invariant holds initially and every action keeps it.                 *)

LEMMA InitInv == Init => Inv
<1> SUFFICES ASSUME Init PROVE Inv
  OBVIOUS
<1>1. LedgerTypeOK
  BY NoJobType, FreeSinceType
     DEF Init, LedgerTypeOK, NoPaymentRow, PaymentRow, NoQuote, Quote, Plan,
         Paid, Time, NoPurchase, Purchase, NoJob
<1>2. \A p \in Payment : IsPriced(payment[p])
  BY DEF Init, IsPriced, NoPaymentRow, NoQuote
<1>3. \A w \in Worker : RowIsSound(job[w]) /\ job[w].row.status # "active"
  BY NoJobType DEF Init, RowIsSound, NoPurchase
<1> QED  BY <1>1, <1>2, <1>3 DEF Inv, GrantsAreSound, Claims

\* Steps on a payment's row leave the transactions alone.
LEMMA PaymentStep ==
  ASSUME Inv, NEW p \in Payment, NEW row \in PaymentRow, IsPriced(row),
         payment' = [payment EXCEPT ![p] = row],
         UNCHANGED <<purchase, subscription, inserted, job, clock>>
  PROVE  Inv'
<1>1. /\ payment' \in [Payment -> PaymentRow]
      /\ payment'[p] = row /\ \A q \in Payment \ {p} : payment'[q] = payment[q]
  BY Zenon DEF Inv, LedgerTypeOK
<1>2. LedgerTypeOK'
  BY <1>1 DEF Inv, LedgerTypeOK
<1>3. \A q \in Payment : IsPriced(payment'[q])
  BY <1>1 DEF Inv, GrantsAreSound
<1>4. \A v \in Worker : RowIsSound(job[v])'
  BY DEF Inv, GrantsAreSound, RowIsSound
<1>5. \A u, v \in Worker :
        Claims(job'[u], job'[v].pay) /\ Claims(job'[v], job'[v].pay) => u = v
  BY DEF Inv, GrantsAreSound
<1> QED  BY <1>2, <1>3, <1>4, <1>5 DEF Inv, GrantsAreSound

LEMMA QuoteIsPriced ==
  ASSUME Inv, NEW plan \in Paid, NEW months \in Months
  PROVE  LET q == QuoteFor(plan, months)
         IN /\ q \in Quote /\ q.kind # "none"
            /\ q.kind \in {"renewal", "upgrade"} =>
                 q.start \in Nat /\ q.end \in Nat /\ q.start < q.end
<1> DEFINE renews == plan = subscription.plan /\ Running(subscription)
           upgrades == /\ subscription.plan # "free"
                       /\ Rank[subscription.plan] < Rank[plan]
                       /\ Running(subscription)
<1>1. months \in Nat \ {0} /\ clock \in Nat /\ subscription.end \in Time
  BY DEF Inv, LedgerTypeOK, Subscription
<1>2. Running(subscription) => subscription.end \in Nat /\ clock < subscription.end
  BY <1>1 DEF Running, Time
<1>3. CASE renews
  <2>1. Rank[plan] \in Nat
    BY DEF Rank, Paid
  <2>2. ~ upgrades
    BY <1>3, <2>1
  <2>3. QuoteFor(plan, months) = [kind |-> "renewal", start |-> subscription.end,
                                  end |-> subscription.end + months]
    BY <1>3, <2>2 DEF QuoteFor
  <2> QED  BY <1>1, <1>2, <1>3, <2>3 DEF Quote, Time
<1>4. CASE ~ renews /\ upgrades
  <2>1. QuoteFor(plan, months) = [kind |-> "upgrade", start |-> clock,
                                  end |-> subscription.end + months - 1]
    BY <1>4 DEF QuoteFor
  <2> QED  BY <1>1, <1>2, <1>4, <2>1 DEF Quote, Time
<1>5. CASE ~ renews /\ ~ upgrades
  <2>1. QuoteFor(plan, months) = [NoQuote EXCEPT !.kind = "subscription"]
    BY <1>5 DEF QuoteFor
  <2> QED  BY <2>1 DEF NoQuote, Quote, Time
<1> QED  BY <1>3, <1>4, <1>5

LEMMA CheckoutInv ==
  ASSUME Inv, NEW p \in Payment, NEW plan \in Offer, NEW months \in Months,
         Checkout(p, plan, months)
  PROVE  Inv'
<1> DEFINE row == [status |-> "open", plan |-> plan, months |-> months,
                   quote |-> QuoteFor(plan, months), paidAt |-> Never]
<1>1. row \in PaymentRow /\ IsPriced(row)
  <2>1. months \in Nat \ {0} /\ plan \in Paid
    BY DEF Paid
  <2> HIDE DEF QuoteFor
  <2> QED  BY <2>1, QuoteIsPriced DEF PaymentRow, Plan, Time, IsPriced
<1> QED  BY <1>1, PaymentStep DEF Checkout

LEMMA WriteSuccessInv ==
  ASSUME Inv, NEW p \in Payment, WriteSuccess(p)
  PROVE  Inv'
<1> DEFINE row == [payment[p] EXCEPT !.status = "success", !.paidAt = clock]
<1>1. row \in PaymentRow /\ IsPriced(row)
  BY DEF Inv, LedgerTypeOK, GrantsAreSound, WriteSuccess, PaymentRow, Time, IsPriced
<1>2. payment' = [payment EXCEPT ![p] = row]
  BY DEF WriteSuccess
<1> QED  BY <1>1, <1>2, PaymentStep DEF WriteSuccess

LEMMA WriteReversedInv ==
  ASSUME Inv, NEW p \in Payment, WriteReversed(p)
  PROVE  Inv'
<1> DEFINE row == [payment[p] EXCEPT !.status = "reversed"]
<1>1. row \in PaymentRow /\ IsPriced(row)
  BY DEF Inv, LedgerTypeOK, GrantsAreSound, WriteReversed, PaymentRow, IsPriced
<1>2. payment' = [payment EXCEPT ![p] = row]
  BY DEF WriteReversed
<1> QED  BY <1>1, <1>2, PaymentStep DEF WriteReversed

LEMMA PeriodIsSound ==
  ASSUME Inv, NEW p \in Payment, payment[p].status = "success",
         NEW period \in GrantedPeriods(p)
  PROVE  period.start \in Nat /\ period.end \in Nat /\ period.start < period.end
<1>1. /\ payment[p] \in PaymentRow /\ IsPriced(payment[p])
      /\ payment[p].quote \in Quote
  BY DEF Inv, LedgerTypeOK, GrantsAreSound, PaymentRow
<1>2. CASE payment[p].quote.kind # "subscription"
  <2>1. payment[p].quote.kind \in {"renewal", "upgrade"}
    BY <1>1, <1>2 DEF IsPriced, Quote
  <2>2. period = [start |-> payment[p].quote.start, end |-> payment[p].quote.end]
    BY <1>2 DEF GrantedPeriods
  <2> QED  BY <1>1, <2>1, <2>2 DEF IsPriced
<1>3. CASE payment[p].quote.kind = "subscription"
  <2>1. PICK t \in Latest(EndsAhead \union {payment[p].paidAt}) :
          period = [start |-> t, end |-> t + payment[p].months]
    BY <1>3 DEF GrantedPeriods
  <2>2. EndsAhead \subseteq Nat
    BY DEF EndsAhead, Inv, LedgerTypeOK, Purchase
  <2>3. t \in Nat /\ payment[p].months \in Nat \ {0}
    BY <1>1, <2>1, <2>2 DEF Latest, IsPriced
  <2> QED  BY <2>1, <2>3
<1> QED  BY <1>2, <1>3

LEMMA BeginApplyInv ==
  ASSUME Inv, NEW w \in Worker, NEW p \in Payment, BeginApply(w, p)
  PROVE  Inv'
<1>1. clock \in Nat /\ payment[p] \in PaymentRow /\ inserted \subseteq Payment \X Payment
  BY DEF Inv, LedgerTypeOK
<1>2. CASE purchase[p].status = "none" /\ RowIsUnclaimed(p) /\ Insert(w, p)
  <2>1. PICK period \in GrantedPeriods(p) : Begin(w, "apply", p, NewPurchase(p, period))
    BY <1>2 DEF Insert
  <2> DEFINE j == [NoJob EXCEPT !.tx = "apply", !.step = "project", !.pay = p,
                                !.now = clock, !.row = NewPurchase(p, period)]
  <2>2. period.start \in Nat /\ period.end \in Nat /\ period.start < period.end
    BY PeriodIsSound DEF BeginApply
  <2>3. /\ NewPurchase(p, period) \in Purchase
        /\ NewPurchase(p, period).status = "active"
        /\ NewPurchase(p, period).start < NewPurchase(p, period).end
    BY <1>1, <2>2 DEF NewPurchase, Purchase, PaymentRow
  <2>4. /\ j \in Job /\ j.tx = "apply" /\ j.pay = p
        /\ j.row = NewPurchase(p, period)
    BY <1>1, <2>3, NoJobType DEF Job
  <2>5. job' = [job EXCEPT ![w] = j]
    BY <2>1 DEF Begin
  <2>6. RowIsSound(j)
    BY <1>2, <2>3, <2>4 DEF RowIsSound
  <2>7. \A v \in Worker \ {w} : ~ Claims(job[v], j.pay)
    BY <1>2, <2>4 DEF RowIsUnclaimed, Claims, Inv, GrantsAreSound, RowIsSound
  <2>8. inserted' \subseteq Payment \X Payment
    BY <1>1, <1>2 DEF Insert
  <2> HIDE DEF j
  <2> QED  BY <2>4, <2>5, <2>6, <2>7, <2>8, JobStep DEF BeginApply
<1>3. CASE Begin(w, "apply", p, NoPurchase) /\ UNCHANGED inserted
  <2> DEFINE j == [NoJob EXCEPT !.tx = "apply", !.step = "project", !.pay = p,
                                !.now = clock, !.row = NoPurchase]
  <2>1. /\ j \in Job /\ j.tx = "apply" /\ j.pay = p
        /\ j.row = NoPurchase /\ j.row.status = "none"
    BY <1>1, NoJobType DEF Job, NoPurchase
  <2>2. job' = [job EXCEPT ![w] = j]
    BY <1>3 DEF Begin
  <2>3. RowIsSound(j) /\ ~ Claims(j, j.pay)
    BY <2>1 DEF RowIsSound, Claims
  <2> HIDE DEF j
  <2> QED  BY <1>1, <1>3, <2>1, <2>2, <2>3, JobStep DEF BeginApply
<1> QED  BY <1>2, <1>3 DEF BeginApply

LEMMA BeginReverseInv ==
  ASSUME Inv, NEW w \in Worker, NEW p \in Payment, BeginReverse(w, p)
  PROVE  Inv'
<1> DEFINE row == [purchase[p] EXCEPT !.status = "reversed"]
           j == [NoJob EXCEPT !.tx = "reverse", !.step = "project", !.pay = p,
                              !.now = clock, !.row = row]
<1>1. /\ clock \in Nat /\ inserted \subseteq Payment \X Payment
      /\ purchase[p] \in Purchase /\ purchase[p].start < purchase[p].end
  BY DEF Inv, LedgerTypeOK, BeginReverse
<1>2. /\ row \in Purchase /\ row.status = "reversed"
      /\ row.start < row.end /\ Mirror(row) = Mirror(purchase[p])
  BY <1>1 DEF Purchase, Mirror
<1>3. j \in Job /\ j.tx = "reverse" /\ j.pay = p /\ j.row = row
  BY <1>1, <1>2, NoJobType DEF Job
<1>4. job' = [job EXCEPT ![w] = j]
  BY DEF BeginReverse, Begin
<1>5. RowIsSound(j) /\ ~ Claims(j, j.pay)
  BY <1>2, <1>3 DEF RowIsSound, Claims, BeginReverse
<1> HIDE DEF j
<1> QED  BY <1>1, <1>3, <1>4, <1>5, JobStep DEF BeginReverse

LEMMA ProjectionType ==
  ASSUME Inv, NEW ledger \in [Payment -> Purchase], NEW t \in Nat,
         NEW new \in Projections(ledger, t)
  PROVE  new \in Subscription
<1>1. \A p \in Payment : Mirror(ledger[p]) \in Subscription
  BY MirrorType
<1>2. subscription \in Subscription /\ FreeSince(t) \in Subscription
  BY FreeSinceType DEF Inv, LedgerTypeOK
<1>3. Newest(ledger, t) \subseteq Payment
  BY DEF Newest
<1> HIDE DEF Mirror, FreeSince
<1> QED  BY <1>1, <1>2, <1>3 DEF Projections

LEMMA ViewType ==
  ASSUME Inv, NEW w \in Worker
  PROVE  /\ View(w) \in [Payment -> Purchase]
         /\ job[w].row.status = "none" => View(w) = purchase
         /\ job[w].row.status # "none" =>
              /\ job[w].pay \in Payment
              /\ View(w)[job[w].pay] = job[w].row
              /\ \A q \in Payment \ {job[w].pay} : View(w)[q] = purchase[q]
<1>1. purchase \in [Payment -> Purchase] /\ job[w] \in Job /\ job[w].row \in Purchase
  BY DEF Inv, LedgerTypeOK, Job
<1>2. job[w].row.status # "none" => job[w].pay \in Payment
  BY DEF Inv, GrantsAreSound, RowIsSound
<1> QED  BY <1>1, <1>2 DEF View

LEMMA ProjectInv ==
  ASSUME Inv, NEW w \in Worker, Project(w)
  PROVE  Inv'
<1>1. PICK new \in Projections(View(w), job[w].now) :
        job' = [job EXCEPT ![w].step = "commit", ![w].write = new,
                           ![w].changed = Differ(subscription, new)]
  BY DEF Project, ProjectOn
<1> DEFINE j == [job[w] EXCEPT !.step = "commit", !.write = new,
                               !.changed = Differ(subscription, new)]
<1>2. job[w] \in Job /\ job[w].now \in Nat /\ inserted \subseteq Payment \X Payment
  BY DEF Inv, LedgerTypeOK, Job
<1>3. new \in Subscription /\ Differ(subscription, new) \in SUBSET Column
  BY <1>2, ViewType, ProjectionType, DifferType
<1>4. j \in Job /\ j.tx = job[w].tx /\ j.pay = job[w].pay /\ j.row = job[w].row
  BY <1>2, <1>3 DEF Job
<1>5. job' = [job EXCEPT ![w] = j]
  BY <1>1
<1>6. j.tx \in {"apply", "reverse"} => j.pay \in Payment
  BY <1>4 DEF Inv, LedgerTypeOK
<1>7. RowIsSound(j)
  BY <1>4 DEF Inv, GrantsAreSound, RowIsSound
<1>8. \A v \in Worker \ {w} : ~ (Claims(j, j.pay) /\ Claims(job[v], j.pay))
  BY <1>4 DEF Inv, GrantsAreSound, Claims
<1> HIDE DEF j
<1> QED  BY <1>2, <1>4, <1>5, <1>6, <1>7, <1>8, JobStep DEF Project, ProjectOn

LEMMA WrittenType ==
  ASSUME Inv, NEW w \in Worker
  PROVE  Written(job[w]) \in Subscription
<1>1. subscription \in Subscription /\ job[w] \in Job /\ job[w].write \in Subscription
  BY DEF Inv, LedgerTypeOK, Job
<1> QED  BY <1>1 DEF Written, Subscription

\* A commit may meet other transactions on the same payment: none of them can
\* hold a new row for it, and a reversal's row has the period that stays.
LEMMA CommitInv ==
  ASSUME Inv, NEW w \in Worker, Commit(w)
  PROVE  Inv'
<1> DEFINE p == job[w].pay
           row == job[w].row
<1>1. /\ job' \in [Worker -> Job] /\ job'[w] = NoJob
      /\ \A v \in Worker \ {w} : job'[v] = job[v]
  BY NoJobType, JobUpdate DEF Commit
<1>2. /\ purchase' \in [Payment -> Purchase]
      /\ row.status = "none" => purchase' = purchase
      /\ row.status # "none" =>
           /\ p \in Payment /\ purchase'[p] = row
           /\ \A q \in Payment \ {p} : purchase'[q] = purchase[q]
  BY ViewType DEF Commit
<1>3. row.status # "none" => row.start < row.end
  BY DEF Inv, GrantsAreSound, RowIsSound
<1>4. subscription' \in Subscription
  BY WrittenType DEF Commit
<1>5. LedgerTypeOK'
  <2>1. \A q \in Payment :
          purchase'[q].status # "none" => purchase'[q].start < purchase'[q].end
    BY <1>2, <1>3 DEF Inv, LedgerTypeOK
  <2>2. \A v \in Worker : job'[v].tx \in {"apply", "reverse"} => job'[v].pay \in Payment
    BY <1>1 DEF Inv, LedgerTypeOK, NoJob
  <2> QED  BY <1>1, <1>2, <1>4, <2>1, <2>2 DEF Inv, LedgerTypeOK, Commit
<1>6. \A q \in Payment : IsPriced(payment'[q])
  BY DEF Inv, GrantsAreSound, Commit
<1>7. \A v \in Worker : RowIsSound(job[v])'
  <2> SUFFICES ASSUME NEW v \in Worker PROVE RowIsSound(job[v])'
    OBVIOUS
  <2>1. CASE v = w
    BY <1>1, <2>1, NoJobType DEF RowIsSound, NoPurchase
  <2>2. CASE v # w
    <3>1. RowIsSound(job[v]) /\ RowIsSound(job[w]) /\ job'[v] = job[v]
      BY <1>1, <2>2 DEF Inv, GrantsAreSound
    <3>2. CASE row.status = "none" \/ job[v].row.status = "none" \/ job[v].pay # p
      BY <1>2, <3>1, <3>2 DEF RowIsSound
    <3>3. CASE row.status # "none" /\ job[v].row.status = "reversed" /\ job[v].pay = p
      <4>1. purchase[p].status # "none" /\ row.status = "reversed"
        BY <3>1, <3>3 DEF RowIsSound, Inv, LedgerTypeOK, Job, Purchase
      <4>2. Mirror(purchase'[p]) = Mirror(purchase[p]) /\ purchase'[p].status # "none"
        BY <1>2, <3>1, <3>3, <4>1 DEF RowIsSound
      <4> QED  BY <3>1, <3>3, <4>2 DEF RowIsSound
    <3>4. CASE row.status # "none" /\ job[v].row.status = "active" /\ job[v].pay = p
      <4>1. row.status = "active"
        BY <3>1, <3>4 DEF RowIsSound, Inv, LedgerTypeOK, Job, Purchase
      <4> QED  BY <2>2, <3>4, <4>1 DEF Inv, GrantsAreSound, Claims
    <3>5. job[v].row.status \in {"none", "active", "reversed"}
      BY DEF Inv, LedgerTypeOK, Job, Purchase
    <3> QED  BY <3>2, <3>3, <3>4, <3>5
  <2> QED  BY <2>1, <2>2
<1>8. \A u, v \in Worker :
        Claims(job'[u], job'[v].pay) /\ Claims(job'[v], job'[v].pay) => u = v
  BY <1>1, NoJobType DEF Inv, GrantsAreSound, Claims, NoPurchase
<1> QED  BY <1>5, <1>6, <1>7, <1>8 DEF Inv, GrantsAreSound

LEMMA RollbackInv ==
  ASSUME Inv, NEW w \in Worker, Rollback(w)
  PROVE  Inv'
<1>1. NoJob \in Job /\ NoJob.tx = "idle" /\ NoJob.row.status = "none"
  BY NoJobType DEF NoJob, NoPurchase
<1>2. RowIsSound(NoJob) /\ ~ Claims(NoJob, NoJob.pay)
  BY <1>1 DEF RowIsSound, Claims
<1>3. inserted' \subseteq Payment \X Payment
  BY DEF Inv, LedgerTypeOK, Rollback
<1> HIDE DEF NoJob
<1> QED  BY <1>1, <1>2, <1>3, JobStep DEF Rollback

\* A transaction that writes the row only, and no purchase.
LEMMA RowOnlyInv ==
  ASSUME Inv, NEW w \in Worker, NEW j \in Job, job' = [job EXCEPT ![w] = j],
         j.tx \notin {"apply", "reverse"}, j.row = NoPurchase,
         UNCHANGED <<payment, purchase, subscription, inserted, clock>>
  PROVE  Inv'
<1>1. j.row.status = "none" /\ inserted' \subseteq Payment \X Payment
  BY DEF NoPurchase, Inv, LedgerTypeOK
<1>2. RowIsSound(j) /\ ~ Claims(j, j.pay)
  BY <1>1 DEF RowIsSound, Claims
<1> QED  BY <1>1, <1>2, JobStep

LEMMA BeginExpireInv ==
  ASSUME Inv, NEW w \in Worker, BeginExpire(w)
  PROVE  Inv'
<1> DEFINE j == [NoJob EXCEPT !.tx = "expire", !.now = clock, !.write = FreeSince(clock),
                   !.changed = Differ(subscription, FreeSince(clock))]
<1>1. /\ clock \in Nat /\ FreeSince(clock) \in Subscription
      /\ Differ(subscription, FreeSince(clock)) \in SUBSET Column
  BY FreeSinceType, DifferType DEF Inv, LedgerTypeOK
<1>2. job' = [job EXCEPT ![w] = j]
  BY DEF BeginExpire
<1> HIDE DEF FreeSince, Differ
<1>3. j \in Job /\ j.tx = "expire" /\ j.row = NoPurchase
  BY <1>1, NoJobType DEF Job
<1> HIDE DEF j
<1> QED  BY <1>2, <1>3, RowOnlyInv DEF BeginExpire

LEMMA BeginSelectFreeInv ==
  ASSUME Inv, NEW w \in Worker, BeginSelectFree(w)
  PROVE  Inv'
<1> DEFINE j == [NoJob EXCEPT !.tx = "free", !.step = "project", !.now = clock]
<1>1. j \in Job /\ j.tx = "free" /\ j.row = NoPurchase
  BY NoJobType DEF Job, Inv, LedgerTypeOK
<1>2. job' = [job EXCEPT ![w] = j]
  BY DEF BeginSelectFree
<1> HIDE DEF j
<1> QED  BY <1>1, <1>2, RowOnlyInv DEF BeginSelectFree

\* What set_plan_for_user has loaded and will write.
LEMMA SetPlanType ==
  ASSUME Inv, NEW w \in Worker, NEW tx \in {"free", "admin"}, NEW plan \in Plan,
         NEW now \in Nat, SetPlan(w, tx, plan, now)
  PROVE  \E j \in Job :
           /\ job' = [job EXCEPT ![w] = j]
           /\ j.tx = tx /\ j.step = "commit" /\ j.row = NoPurchase /\ j.now = now
           /\ j.write.plan = plan /\ j.changed = Differ(subscription, j.write)
<1> DEFINE new == [plan |-> plan, start |-> now,
                   end |-> IF plan \in Paid THEN now + 1 ELSE Never]
           j == [NoJob EXCEPT !.tx = tx, !.now = now, !.write = new,
                              !.changed = Differ(subscription, new)]
<1>1. new \in Subscription /\ new.plan = plan
  BY DEF Subscription, Time
<1>2. Differ(subscription, new) \in SUBSET Column
  BY DifferType
<1>3. job' = [job EXCEPT ![w] = j]
  BY DEF SetPlan
<1> HIDE DEF new, Differ
<1>4. /\ j \in Job /\ j.tx = tx /\ j.row = NoPurchase /\ j.now = now
      /\ j.write = new /\ j.changed = Differ(subscription, new)
  BY <1>1, <1>2, NoJobType DEF Job
<1>5. j.step = "commit"
  BY DEF NoJob
<1> HIDE DEF j
<1> QED  BY <1>1, <1>3, <1>4, <1>5

LEMMA SelectFreeInv ==
  ASSUME Inv, NEW w \in Worker, SelectFree(w)
  PROVE  Inv'
<1>1. job[w].now \in Nat /\ "free" \in Plan
  BY DEF Inv, LedgerTypeOK, Job, Plan
<1>2. PICK j \in Job : job' = [job EXCEPT ![w] = j] /\ j.tx = "free" /\ j.row = NoPurchase
  BY <1>1, SetPlanType DEF SelectFree
<1> QED  BY <1>2, RowOnlyInv DEF SelectFree

LEMMA BeginAdminPlanInv ==
  ASSUME Inv, NEW w \in Worker, NEW plan \in AdminPlans, BeginAdminPlan(w, plan)
  PROVE  Inv'
<1>1. clock \in Nat /\ plan \in Plan
  BY DEF Inv, LedgerTypeOK, Plan, Paid
<1>2. PICK j \in Job : job' = [job EXCEPT ![w] = j] /\ j.tx = "admin" /\ j.row = NoPurchase
  BY <1>1, SetPlanType DEF BeginAdminPlan
<1> QED  BY <1>2, RowOnlyInv DEF BeginAdminPlan

LEMMA TickInv == ASSUME Inv, Tick PROVE Inv'
<1>1. LedgerTypeOK'
  BY DEF Inv, LedgerTypeOK, Tick
<1>2. GrantsAreSound'
  BY DEF Inv, GrantsAreSound, Tick, RowIsSound
<1> QED  BY <1>1, <1>2 DEF Inv

LEMMA NextInv == Inv /\ [Next]_vars => Inv'
<1> SUFFICES ASSUME Inv, [Next]_vars PROVE Inv'
  OBVIOUS
<1>1. CASE UNCHANGED vars
  BY <1>1 DEF vars, Inv, LedgerTypeOK, GrantsAreSound, RowIsSound
<1>2. CASE Next
  <2>1. CASE \E p \in Payment, plan \in Offer, months \in Months :
               Checkout(p, plan, months)
    BY <2>1, CheckoutInv
  <2>2. CASE \E p \in Payment : WriteSuccess(p) \/ WriteReversed(p)
    BY <2>2, WriteSuccessInv, WriteReversedInv
  <2>3. CASE \E w \in Handler, p \in Payment : BeginApply(w, p) \/ BeginReverse(w, p)
    BY <2>3, BeginApplyInv, BeginReverseInv DEF Worker
  <2>4. CASE \E w \in Handler : BeginSelectFree(w) \/ SelectFree(w)
    BY <2>4, BeginSelectFreeInv, SelectFreeInv DEF Worker
  <2>5. CASE \E w \in Handler, plan \in AdminPlans : BeginAdminPlan(w, plan)
    BY <2>5, BeginAdminPlanInv DEF Worker
  <2>6. CASE \E w \in Background : BeginExpire(w) \/ \E p \in Payment : BeginRecover(w, p)
    BY <2>6, BeginExpireInv, BeginApplyInv DEF Worker, BeginRecover
  <2>7. CASE \E w \in Worker : Project(w) \/ Rollback(w) \/ Commit(w)
    BY <2>7, ProjectInv, RollbackInv, CommitInv
  <2>8. CASE Tick
    BY <2>8, TickInv
  <2> QED  BY <1>2, <2>1, <2>2, <2>3, <2>4, <2>5, <2>6, <2>7, <2>8 DEF Next, Uncommitted
<1> QED  BY <1>1, <1>2

-----------------------------------------------------------------------------
(* The theorems.                                                            *)

LEMMA InvAlways == Spec => []Inv
<1> QED  BY InitInv, NextInv, PTL DEF Spec

\* Every reachable state is well typed, and no purchased period is empty.
THEOREM LedgerTypeCorrect == Spec => []LedgerTypeOK
<1>1. Inv => LedgerTypeOK
  BY DEF Inv
<1> QED  BY <1>1, InvAlways, PTL

\* At any moment at most one transaction holds a new row of a payment, and none
\* when one is committed.
THEOREM GrantsAlwaysSound == Spec => []GrantsAreSound
<1>1. Inv => GrantsAreSound
  BY DEF Inv
<1> QED  BY <1>1, InvAlways, PTL

LEMMA UncommittedKeepsRows == Uncommitted => UNCHANGED <<purchase, subscription>>
BY DEF Uncommitted, BeginRecover, Checkout, WriteSuccess, WriteReversed, BeginApply, BeginReverse,
       BeginExpire, BeginSelectFree, SelectFree, BeginAdminPlan, Project, ProjectOn,
       Rollback, Tick

\* A step that changes a purchase is a commit; what it commits is new, or the
\* reversal of the very period that was there.
LEMMA StepIsFinal ==
  ASSUME Inv, [Next]_vars, NEW p \in Payment, purchase[p].status # "none"
  PROVE  /\ Mirror(purchase'[p]) = Mirror(purchase[p])
         /\ purchase[p].status = "reversed" => purchase'[p].status = "reversed"
<1>1. CASE purchase' = purchase
  BY <1>1
<1>2. CASE \E w \in Worker : Commit(w)
  <2> PICK w \in Worker : Commit(w)
    BY <1>2
  <2>1. CASE job[w].row.status = "none" \/ job[w].pay # p
    BY <2>1, ViewType DEF Commit
  <2>2. CASE job[w].row.status # "none" /\ job[w].pay = p
    <3>1. purchase'[p] = job[w].row
      BY <2>2, ViewType DEF Commit
    <3>2. RowIsSound(job[w])
      BY DEF Inv, GrantsAreSound
    <3>3. job[w].row.status \in {"none", "active", "reversed"}
      BY DEF Inv, LedgerTypeOK, Job, Purchase
    <3> QED  BY <2>2, <3>1, <3>2, <3>3 DEF RowIsSound
  <2> QED  BY <2>1, <2>2
<1>3. purchase' = purchase \/ \E w \in Worker : Commit(w)
  BY UncommittedKeepsRows DEF Next, vars
<1> QED  BY <1>1, <1>2, <1>3

\* A committed period is never changed, extended, granted again or revived.
THEOREM PurchasesAreFinal == Spec => PurchaseIsFinal
<1> DEFINE Final == \A p \in Payment : purchase[p].status # "none" =>
                      /\ Mirror(purchase'[p]) = Mirror(purchase[p])
                      /\ purchase[p].status = "reversed" => purchase'[p].status = "reversed"
<1>1. Inv /\ [Next]_vars => [Final]_vars
  BY StepIsFinal
<1>2. PurchaseIsFinal <=> [][Final]_vars
  BY DEF PurchaseIsFinal
<1> QED  BY <1>1, InvAlways, PTL DEF Spec, PurchaseIsFinal

-----------------------------------------------------------------------------
(* Transactions that overlap.  Nothing that an unstale transaction has read   *)
(* changes until it writes, so it leaves the row as it should be.             *)

RowIsMirror ==
  subscription.plan \in Paid =>
    \E p \in Payment : purchase[p].status = "active" /\ subscription = Mirror(purchase[p])

\* What w is about to write is right for the rows it will leave.
WriteIsRight(w) ==
  /\ job[w].changed = Differ(subscription, job[w].write)
  /\ job[w].write.plan \in Paid =>
       \E p \in Payment : View(w)[p].status = "active" /\ job[w].write = Mirror(View(w)[p])
  /\ (job[w].write.plan = "free" /\ subscription.plan \in Paid) =>
       \/ \A p \in Payment : ~ Covers(View(w)[p], job[w].now)
       \/ job[w].tx = "expire" /\ subscription.end <= job[w].now

\* What w has read is still so.
LookHolds(w) ==
  /\ job[w].tx \notin {"idle", "admin"} /\ job[w].step = "commit" => WriteIsRight(w)
  /\ job[w].tx = "free" => subscription.plan = "free"

RaceInv ==
  /\ ~ tainted => RowIsMirror
  /\ \A w \in Worker \ stale : LookHolds(w)

\* Nobody pays for the free plan.
OnlyPaidPlans ==
  /\ \A p \in Payment : payment[p].status # "none" => payment[p].plan \in Paid
  /\ \A p \in Payment : purchase[p].status # "none" => purchase[p].plan \in Paid
  /\ \A w \in Worker : job[w].row.status # "none" => job[w].row.plan \in Paid

LEMMA RaceInitInv == RaceInit => RaceInv
BY NoJobType DEF RaceInit, Init, RaceInv, RowIsMirror, LookHolds, FreeSince, Paid, NoJob

\* The UPDATE of a transaction that nothing has overtaken leaves the row it meant.
LEMMA WrittenIsWrite ==
  ASSUME Inv, NEW w \in Worker, job[w].changed = Differ(subscription, job[w].write)
  PROVE  Written(job[w]) = job[w].write
<1>1. subscription \in Subscription /\ job[w].write \in Subscription
  BY DEF Inv, LedgerTypeOK, Job
<1>2. \A c \in Column : (IF c \in job[w].changed THEN job[w].write[c] ELSE subscription[c]) = job[w].write[c]
  BY DEF Differ
<1>3. /\ subscription["plan"] = subscription.plan /\ job[w].write["plan"] = job[w].write.plan
      /\ "plan" \in Column /\ "start" \in Column /\ "end" \in Column
  BY DEF Column
<1>4. Written(job[w]) = [plan |-> job[w].write["plan"], start |-> job[w].write["start"], end |-> job[w].write["end"]]
  BY <1>2, <1>3 DEF Written
<1> QED  BY <1>1, <1>4 DEF Subscription

LEMMA PlansInit == Init => OnlyPaidPlans
BY NoJobType DEF Init, OnlyPaidPlans, NoPaymentRow, NoPurchase

\* A step that begins, goes on with or gives up a transaction.
LEMMA PlansJob ==
  ASSUME Inv, OnlyPaidPlans, NEW w \in Worker, NEW j, job' = [job EXCEPT ![w] = j],
         j.row.status # "none" => j.row.plan \in Paid,
         UNCHANGED <<payment, purchase>>
  PROVE  OnlyPaidPlans'
<1>1. job'[w] = j /\ \A v \in Worker \ {w} : job'[v] = job[v]
  BY Zenon DEF Inv, LedgerTypeOK
<1> QED  BY <1>1 DEF OnlyPaidPlans

LEMMA BeginPlans ==
  ASSUME Inv, OnlyPaidPlans, NEW w \in Worker, NEW p \in Payment, BeginApply(w, p) \/ BeginReverse(w, p)
  PROVE  OnlyPaidPlans'
<1>1. PICK tx, row :
        /\ tx \in {"apply", "reverse"}
        /\ Begin(w, tx, p, row) /\ (row.status # "none" => row.plan \in Paid)
  <2>1. CASE BeginReverse(w, p)
    <3> DEFINE r == [purchase[p] EXCEPT !.status = "reversed"]
    <3>1. purchase[p] \in Purchase /\ purchase[p].plan \in Paid /\ Begin(w, "reverse", p, r)
      BY <2>1 DEF BeginReverse, OnlyPaidPlans, Inv, LedgerTypeOK
    <3>2. r.plan \in Paid
      BY <3>1 DEF Purchase
    <3> HIDE DEF r
    <3> QED  BY <3>1, <3>2
  <2>2. CASE BeginApply(w, p)
    <3>1. payment[p].plan \in Paid
      BY <2>2 DEF BeginApply, OnlyPaidPlans
    <3>2. \A period : NewPurchase(p, period).plan \in Paid
      BY <3>1 DEF NewPurchase
    <3>3. NoPurchase.status = "none"
      BY DEF NoPurchase
    <3>4. \/ Begin(w, "apply", p, NoPurchase)
          \/ \E period : Begin(w, "apply", p, NewPurchase(p, period))
      BY <2>2 DEF BeginApply, Insert
    <3> HIDE DEF NewPurchase, NoPurchase
    <3> QED  BY <3>2, <3>3, <3>4
  <2> QED  BY <2>1, <2>2
<1> DEFINE j == [NoJob EXCEPT !.tx = tx, !.step = "project", !.pay = p, !.now = clock, !.row = row]
<1>2. job' = [job EXCEPT ![w] = j]
  BY <1>1 DEF Begin
<1>3. j.row.status # "none" => j.row.plan \in Paid
  BY <1>1 DEF NoJob
<1> HIDE DEF j
<1> QED  BY <1>2, <1>3, PlansJob DEF BeginApply, BeginReverse

LEMMA PlansStep == Inv /\ OnlyPaidPlans /\ [Next]_vars => OnlyPaidPlans'
<1> SUFFICES ASSUME Inv, OnlyPaidPlans, [Next]_vars PROVE OnlyPaidPlans'
  OBVIOUS
<1>1. ASSUME NEW p \in Payment, NEW plan \in Offer, NEW months \in Months, Checkout(p, plan, months)
      PROVE  OnlyPaidPlans'
  <2> DEFINE row == [status |-> "open", plan |-> plan, months |-> months,
                     quote |-> QuoteFor(plan, months), paidAt |-> Never]
  <2>1. payment' = [payment EXCEPT ![p] = row] /\ row.plan = plan
    BY <1>1 DEF Checkout
  <2> HIDE DEF row
  <2>2. /\ payment'[p].plan = plan /\ plan \in Paid
        /\ \A q \in Payment \ {p} : payment'[q] = payment[q]
    BY <2>1 DEF Inv, LedgerTypeOK, Paid
  <2> QED  BY <1>1, <2>2 DEF OnlyPaidPlans, Checkout
<1>2. ASSUME NEW p \in Payment, WriteSuccess(p) \/ WriteReversed(p) PROVE OnlyPaidPlans'
  <2>1. \A q \in Payment : payment'[q].plan = payment[q].plan /\ (q # p => payment'[q] = payment[q])
    BY <1>2 DEF WriteSuccess, WriteReversed, Inv, LedgerTypeOK, PaymentRow
  <2>2. payment[p].status # "none" /\ UNCHANGED <<purchase, job>>
    BY <1>2 DEF WriteSuccess, WriteReversed
  <2> QED  BY <2>1, <2>2 DEF OnlyPaidPlans
<1>3. ASSUME NEW w \in Worker, NEW p \in Payment, BeginApply(w, p) \/ BeginReverse(w, p) PROVE OnlyPaidPlans'
  BY <1>3, BeginPlans
<1>4. ASSUME NEW w \in Worker, NEW j, job' = [job EXCEPT ![w] = j], j.row = NoPurchase,
             UNCHANGED <<payment, purchase>>
      PROVE  OnlyPaidPlans'
  <2>1. NoPurchase.status = "none"
    BY DEF NoPurchase
  <2>2. j.row.status # "none" => j.row.plan \in Paid
    BY <1>4, <2>1
  <2> QED  BY <1>4, <2>2, PlansJob
<1>5. ASSUME NEW w \in Worker, Project(w) PROVE OnlyPaidPlans'
  <2>1. PICK new : job' = [job EXCEPT ![w].step = "commit", ![w].write = new,
                                      ![w].changed = Differ(subscription, new)]
    BY <1>5 DEF Project, ProjectOn
  <2>2. \A v \in Worker : job'[v].row = job[v].row
    BY <2>1 DEF Inv, LedgerTypeOK, Job
  <2> QED  BY <1>5, <2>2 DEF OnlyPaidPlans, Project, ProjectOn
<1>6. ASSUME NEW w \in Worker, Commit(w) PROVE OnlyPaidPlans'
  <2>1. job'[w] = NoJob /\ \A v \in Worker \ {w} : job'[v] = job[v]
    BY <1>6 DEF Commit, Inv, LedgerTypeOK
  <2>2. NoJob.row.status = "none"
    BY NoJobType DEF NoPurchase
  <2>3. \A p \in Payment : purchase'[p] = purchase[p]
                           \/ (purchase'[p] = job[w].row /\ job[w].row.status # "none")
    BY <1>6, ViewType DEF Commit
  <2> QED  BY <1>6, <2>1, <2>2, <2>3 DEF OnlyPaidPlans, Commit
<1>7. ASSUME NEW w \in Worker, SelectFree(w) \/ \E plan \in AdminPlans : BeginAdminPlan(w, plan)
      PROVE  OnlyPaidPlans'
  <2>1. clock \in Nat /\ job[w].now \in Nat /\ AdminPlans \subseteq Plan /\ "free" \in Plan
    BY DEF Inv, LedgerTypeOK, Job, Plan, Paid
  <2>2. \E j \in Job : job' = [job EXCEPT ![w] = j] /\ j.row = NoPurchase
    BY <1>7, <2>1, SetPlanType DEF SelectFree, BeginAdminPlan
  <2> QED  BY <1>4, <1>7, <2>2 DEF SelectFree, BeginAdminPlan
<1>8. ASSUME NEW w \in Worker, BeginExpire(w) \/ BeginSelectFree(w) \/ Rollback(w)
      PROVE  OnlyPaidPlans'
  <2> DEFINE expire == [NoJob EXCEPT !.tx = "expire", !.now = clock, !.write = FreeSince(clock),
                          !.changed = Differ(subscription, FreeSince(clock))]
             select == [NoJob EXCEPT !.tx = "free", !.step = "project", !.now = clock]
  <2>1. NoJob.row = NoPurchase /\ expire.row = NoPurchase /\ select.row = NoPurchase
    BY DEF NoJob
  <2>2. PICK j \in {NoJob, expire, select} : job' = [job EXCEPT ![w] = j]
    BY <1>8 DEF BeginExpire, BeginSelectFree, Rollback
  <2> HIDE DEF expire, select
  <2> QED  BY <1>4, <1>8, <2>1, <2>2 DEF BeginExpire, BeginSelectFree, Rollback
<1>9. ASSUME UNCHANGED <<payment, purchase, job>> PROVE OnlyPaidPlans'
  BY <1>9 DEF OnlyPaidPlans
<1>10. CASE Tick \/ UNCHANGED vars
  BY <1>9, <1>10 DEF Tick, vars
<1> QED  BY <1>1, <1>2, <1>3, <1>5, <1>6, <1>7, <1>8, <1>10 DEF Next, Uncommitted, Worker, BeginRecover

\* A projection mirrors a purchase that covers the moment; without one it is
\* free, or the row as it is.
LEMMA ProjectionIsRight ==
  ASSUME NEW ledger, NEW t, NEW new \in Projections(ledger, t)
  PROVE  \/ \E p \in Payment : Covers(ledger[p], t) /\ new = Mirror(ledger[p])
         \/ /\ \A p \in Payment : ~ Covers(ledger[p], t)
            /\ new = FreeSince(t) \/ (new = subscription /\ subscription.plan \notin Paid)
<1>1. CASE \E p \in Payment : Covers(ledger[p], t)
  BY <1>1 DEF Projections, Newest
<1>2. CASE ~ \E p \in Payment : Covers(ledger[p], t)
  BY <1>2 DEF Projections
<1> QED  BY <1>1, <1>2

\* A step of one transaction that is not a commit.
LEMMA RaceJob ==
  ASSUME RaceInv, NEW w \in Worker, \A v \in Worker \ {w} : job'[v] = job[v],
         w \notin stale => LookHolds(w)', UNCHANGED <<purchase, subscription, tainted>>,
         stale' = {v \in stale : job'[v].tx # "idle"}
  PROVE  RaceInv'
<1>1. (~ tainted => RowIsMirror)'
  BY DEF RaceInv, RowIsMirror
<1>2. ASSUME NEW v \in Worker, v \notin stale' PROVE LookHolds(v)'
  <2>1. CASE v \in stale
    BY <1>2, <2>1 DEF LookHolds
  <2>2. CASE v \notin stale /\ v # w
    <3>1. LookHolds(v) /\ job'[v] = job[v]
      BY <2>2 DEF RaceInv
    <3> QED  BY <3>1 DEF LookHolds, WriteIsRight, View, Differ, Covers, Mirror
  <2>3. CASE v \notin stale /\ v = w
    BY <2>3
  <2> QED  BY <2>1, <2>2, <2>3
<1> QED  BY <1>1, <1>2 DEF RaceInv

LEMMA LookOfBegin ==
  ASSUME Inv, NEW w \in Worker, NEW p \in Payment, BeginApply(w, p) \/ BeginReverse(w, p)
  PROVE  /\ LookHolds(w)'
         /\ \A v \in Worker \ {w} : job'[v] = job[v]
<1>1. PICK j : job' = [job EXCEPT ![w] = j] /\ j.tx # "free" /\ j.step = "project"
  <2>1. PICK tx, row : tx \in {"apply", "reverse"} /\ Begin(w, tx, p, row)
    BY DEF BeginApply, BeginReverse, Insert
  <2> DEFINE j == [NoJob EXCEPT !.tx = tx, !.step = "project", !.pay = p, !.now = clock, !.row = row]
  <2>2. job' = [job EXCEPT ![w] = j]
    BY <2>1 DEF Begin
  <2>3. j.tx # "free" /\ j.step = "project"
    BY <2>1 DEF NoJob
  <2> QED  BY <2>2, <2>3
<1>2. job'[w] = j /\ \A v \in Worker \ {w} : job'[v] = job[v]
  BY <1>1, Zenon DEF Inv, LedgerTypeOK
<1> QED  BY <1>1, <1>2 DEF LookHolds

LEMMA LookOfExpire ==
  ASSUME Inv, NEW w \in Worker, BeginExpire(w)
  PROVE  /\ LookHolds(w)'
         /\ \A v \in Worker \ {w} : job'[v] = job[v]
<1> DEFINE j == [NoJob EXCEPT !.tx = "expire", !.now = clock, !.write = FreeSince(clock),
                   !.changed = Differ(subscription, FreeSince(clock))]
<1>1. job' = [job EXCEPT ![w] = j]
  BY DEF BeginExpire
<1>2. /\ j.tx = "expire" /\ j.now = clock /\ j.write = FreeSince(clock)
      /\ j.changed = Differ(subscription, FreeSince(clock))
  BY DEF NoJob
<1>3. /\ job'[w] = j /\ subscription' = subscription
      /\ \A v \in Worker \ {w} : job'[v] = job[v]
  <2> HIDE DEF j
  <2> QED  BY <1>1 DEF Inv, LedgerTypeOK, BeginExpire
<1> HIDE DEF j
<1>4. subscription.end <= clock /\ FreeSince(clock).plan = "free"
  BY DEF BeginExpire, FreeSince
<1>5. LookHolds(w)'
  BY <1>2, <1>3, <1>4 DEF LookHolds, WriteIsRight, Paid
<1> QED  BY <1>3, <1>5

LEMMA LookOfSelectFree ==
  ASSUME Inv, NEW w \in Worker, BeginSelectFree(w) \/ (SelectFree(w) /\ LookHolds(w))
  PROVE  /\ LookHolds(w)'
         /\ \A v \in Worker \ {w} : job'[v] = job[v]
<1>1. CASE BeginSelectFree(w)
  <2> DEFINE j == [NoJob EXCEPT !.tx = "free", !.step = "project", !.now = clock]
  <2>1. job' = [job EXCEPT ![w] = j]
    BY <1>1 DEF BeginSelectFree
  <2>2. j.step = "project"
    BY DEF NoJob
  <2>3. /\ job'[w] = j /\ subscription' = subscription /\ subscription.plan = "free"
        /\ \A v \in Worker \ {w} : job'[v] = job[v]
    <3> HIDE DEF j
    <3> QED  BY <1>1, <2>1 DEF Inv, LedgerTypeOK, BeginSelectFree
  <2> HIDE DEF j
  <2> QED  BY <2>2, <2>3 DEF LookHolds
<1>2. CASE SelectFree(w) /\ LookHolds(w)
  <2>1. job[w].now \in Nat /\ "free" \in Plan
    BY DEF Inv, LedgerTypeOK, Job, Plan
  <2>2. PICK j \in Job : /\ job' = [job EXCEPT ![w] = j] /\ j.tx = "free" /\ j.write.plan = "free"
                         /\ j.changed = Differ(subscription, j.write)
    BY <1>2, <2>1, SetPlanType DEF SelectFree
  <2>3. job'[w] = j /\ \A v \in Worker \ {w} : job'[v] = job[v]
    BY <2>2, JobUpdate
  <2>4. subscription' = subscription /\ subscription.plan = "free"
    BY <1>2 DEF SelectFree, LookHolds
  <2>5. LookHolds(w)'
    BY <2>2, <2>3, <2>4 DEF LookHolds, WriteIsRight, Paid
  <2> QED  BY <2>3, <2>5
<1> QED  BY <1>1, <1>2

LEMMA LookOfAdmin ==
  ASSUME Inv, NEW w \in Worker, NEW plan \in AdminPlans, BeginAdminPlan(w, plan)
  PROVE  /\ LookHolds(w)'
         /\ \A v \in Worker \ {w} : job'[v] = job[v]
<1>1. clock \in Nat /\ plan \in Plan
  BY DEF Inv, LedgerTypeOK, Plan, Paid
<1>2. PICK j \in Job : job' = [job EXCEPT ![w] = j] /\ j.tx = "admin"
  BY <1>1, SetPlanType DEF BeginAdminPlan
<1>3. job'[w] = j /\ \A v \in Worker \ {w} : job'[v] = job[v]
  BY <1>2, JobUpdate
<1> QED  BY <1>2, <1>3 DEF LookHolds

LEMMA LookOfProject ==
  ASSUME Inv, OnlyPaidPlans, NEW w \in Worker, Project(w)
  PROVE  /\ LookHolds(w)'
         /\ \A v \in Worker \ {w} : job'[v] = job[v]
<1>1. PICK new \in Projections(View(w), job[w].now) :
        job' = [job EXCEPT ![w].step = "commit", ![w].write = new,
                           ![w].changed = Differ(subscription, new)]
  BY DEF Project, ProjectOn
<1>2. job[w] \in Job /\ job[w].tx # "free" /\ subscription' = subscription /\ purchase' = purchase
  BY DEF Inv, LedgerTypeOK, Project, ProjectOn
<1>3. /\ job'[w].tx = job[w].tx /\ job'[w].row = job[w].row /\ job'[w].pay = job[w].pay
      /\ job'[w].now = job[w].now /\ job'[w].write = new
      /\ job'[w].changed = Differ(subscription, new)
      /\ \A v \in Worker \ {w} : job'[v] = job[v]
  BY <1>1, <1>2 DEF Inv, LedgerTypeOK, Job
<1>4. View(w)' = View(w)
  BY <1>2, <1>3 DEF View
<1>5. job'[w].changed = Differ(subscription', job'[w].write)
  BY <1>2, <1>3 DEF Differ
<1>6. ASSUME NEW p \in Payment, View(w)[p].status = "active"
      PROVE  Mirror(View(w)[p]).plan \in Paid
  BY <1>6, ViewType DEF Mirror, OnlyPaidPlans
<1>7. FreeSince(job[w].now).plan = "free" /\ "free" \notin Paid
  BY DEF FreeSince, Paid
<1>8. \/ \E p \in Payment : Covers(View(w)[p], job[w].now) /\ new = Mirror(View(w)[p])
      \/ /\ \A p \in Payment : ~ Covers(View(w)[p], job[w].now)
         /\ new = FreeSince(job[w].now) \/ (new = subscription /\ subscription.plan \notin Paid)
  BY <1>1, ProjectionIsRight
<1>9. \A p \in Payment : Covers(View(w)[p], job[w].now) => View(w)[p].status = "active"
  BY DEF Covers
<1>10. /\ new.plan \in Paid => \E p \in Payment : View(w)[p].status = "active" /\ new = Mirror(View(w)[p])
       /\ new.plan = "free" => \A p \in Payment : ~ Covers(View(w)[p], job[w].now)
  BY <1>6, <1>7, <1>8, <1>9
<1>11. WriteIsRight(w)'
  BY <1>2, <1>3, <1>4, <1>5, <1>10 DEF WriteIsRight, Covers, Mirror
<1> QED  BY <1>2, <1>3, <1>11 DEF LookHolds

\* An unstale transaction leaves the row and the rows of the ledger in accord.
LEMMA CommitIsRight ==
  ASSUME Inv, RaceInv, NEW w \in Worker, Commit(w), w \notin stale, job[w].tx # "admin"
  PROVE  purchase' = View(w) /\ subscription' = job[w].write /\ WriteIsRight(w)
<1>1. WriteIsRight(w)
  BY DEF RaceInv, LookHolds, Commit
<1> QED  BY <1>1, WrittenIsWrite DEF WriteIsRight, Commit

LEMMA CommitRace ==
  ASSUME Inv, RaceInv, NEW w \in Worker, CommitRaces(w)
  PROVE  RaceInv'
<1>1. Commit(w) /\ tainted' = (w \in stale \/ job[w].tx = "admin")
  BY DEF CommitRaces
<1>2. job'[w].tx = "idle" /\ \A v \in Worker \ {w} : job'[v] = job[v]
  BY <1>1, NoJobType, JobUpdate DEF Commit, NoJob
<1>3. ASSUME ~ tainted' PROVE RowIsMirror'
  <2>1. w \notin stale /\ job[w].tx # "admin"
    BY <1>1, <1>3
  <2>2. purchase' = View(w) /\ subscription' = job[w].write /\ WriteIsRight(w)
    BY <1>1, <2>1, CommitIsRight
  <2> QED  BY <2>2 DEF WriteIsRight, RowIsMirror, Mirror
<1>4. ASSUME NEW v \in Worker, v \notin stale' PROVE LookHolds(v)'
  <2>1. CASE v = w
    BY <1>2, <2>1 DEF LookHolds
  <2>2. CASE v # w /\ RowsChange
    <3>1. ~ HasLooked(v) /\ job'[v] = job[v]
      BY <1>2, <1>4, <2>2 DEF CommitRaces
    <3> QED  BY <3>1 DEF HasLooked, LookHolds
  <2>3. CASE v # w /\ ~ RowsChange
    <3>1. v \notin stale /\ job'[v] = job[v] /\ UNCHANGED <<purchase, subscription>>
      BY <1>2, <1>4, <2>3 DEF CommitRaces, RowsChange
    <3>2. LookHolds(v)
      BY <3>1 DEF RaceInv
    <3> QED  BY <3>1, <3>2 DEF LookHolds, WriteIsRight, View, Differ, Covers, Mirror
  <2> QED  BY <2>1, <2>2, <2>3
<1> QED  BY <1>3, <1>4 DEF RaceInv

LEMMA OtherRace ==
  ASSUME Inv, OnlyPaidPlans, RaceInv, OtherRaces
  PROVE  RaceInv'
<1>1. /\ Uncommitted /\ UNCHANGED <<purchase, subscription, tainted>>
      /\ stale' = {v \in stale : job'[v].tx # "idle"}
  BY UncommittedKeepsRows DEF OtherRaces
<1>2. ASSUME NEW w \in Worker, w \notin stale => LookHolds(w)',
             \A v \in Worker \ {w} : job'[v] = job[v]
      PROVE  RaceInv'
  BY <1>1, <1>2, RaceJob
<1>3. CASE (\E p \in Payment, plan \in Offer, months \in Months : Checkout(p, plan, months))
           \/ (\E p \in Payment : WriteSuccess(p) \/ WriteReversed(p)) \/ Tick
  <2>1. job' = job
    BY <1>3 DEF Checkout, WriteSuccess, WriteReversed, Tick
  <2>2. (~ tainted => RowIsMirror)'
    BY <1>1 DEF RaceInv, RowIsMirror
  <2>3. ASSUME NEW v \in Worker, v \notin stale' PROVE LookHolds(v)'
    <3>1. CASE v \in stale
      BY <1>1, <2>3, <3>1 DEF LookHolds
    <3>2. CASE v \notin stale
      BY <1>1, <2>1, <3>2 DEF RaceInv, LookHolds, WriteIsRight, View, Differ, Covers, Mirror
    <3> QED  BY <3>1, <3>2
  <2> QED  BY <2>2, <2>3 DEF RaceInv
<1>4. CASE \E w \in Handler, p \in Payment : BeginApply(w, p) \/ BeginReverse(w, p)
  BY <1>2, <1>4, LookOfBegin DEF Worker
<1>5. CASE \E w \in Handler : BeginSelectFree(w) \/ SelectFree(w)
  <2>1. PICK w \in Worker : BeginSelectFree(w) \/ SelectFree(w)
    BY <1>5 DEF Worker
  <2>2. \A v \in Worker \ {w} : job'[v] = job[v]
    <3>1. CASE BeginSelectFree(w)
      BY <3>1, LookOfSelectFree
    <3>2. CASE SelectFree(w)
      <4>1. PICK j : job' = [job EXCEPT ![w] = j]
        BY <3>2 DEF SelectFree, SetPlan
      <4> QED  BY <4>1 DEF Inv, LedgerTypeOK
    <3> QED  BY <2>1, <3>1, <3>2
  <2>3. w \notin stale => LookHolds(w)'
    BY <2>1, LookOfSelectFree DEF RaceInv
  <2> QED  BY <1>2, <2>2, <2>3
<1>6. CASE \E w \in Handler, plan \in AdminPlans : BeginAdminPlan(w, plan)
  BY <1>2, <1>6, LookOfAdmin DEF Worker
<1>7. CASE \E w \in Background : BeginExpire(w) \/ \E p \in Payment : BeginRecover(w, p)
  BY <1>2, <1>7, LookOfExpire, LookOfBegin DEF Worker, BeginRecover
<1>8. CASE \E w \in Worker : Project(w)
  BY <1>2, <1>8, LookOfProject
<1>9. CASE \E w \in Worker : Rollback(w)
  <2>1. PICK w \in Worker : job' = [job EXCEPT ![w] = NoJob]
    BY <1>9 DEF Rollback
  <2>2. job'[w] = NoJob /\ \A v \in Worker \ {w} : job'[v] = job[v]
    BY <2>1, NoJobType, JobUpdate
  <2>3. LookHolds(w)'
    BY <2>2 DEF LookHolds, NoJob
  <2> QED  BY <1>2, <2>2, <2>3
<1> QED  BY <1>1, <1>3, <1>4, <1>5, <1>6, <1>7, <1>8, <1>9 DEF Uncommitted

LEMMA RaceIsNext == RaceNext => Next
BY DEF RaceNext, CommitRaces, OtherRaces, Next

LEMMA RaceStep ==
  ASSUME Inv, OnlyPaidPlans, RaceInv, [RaceNext]_raceVars
  PROVE  (Inv /\ OnlyPaidPlans /\ RaceInv)'
<1>1. [Next]_vars
  BY RaceIsNext DEF raceVars
<1>2. Inv' /\ OnlyPaidPlans'
  BY <1>1, NextInv, PlansStep
<1>3. CASE RaceNext
  BY <1>2, <1>3, CommitRace, OtherRace DEF RaceNext
<1>4. CASE UNCHANGED raceVars
  BY <1>2, <1>4 DEF raceVars, vars, RaceInv, RowIsMirror, LookHolds, WriteIsRight, View, Differ, Covers, Mirror
<1> QED  BY <1>3, <1>4

LEMMA RaceAlways == RaceSpec => [](Inv /\ OnlyPaidPlans /\ RaceInv)
<1>1. RaceInit => Inv /\ OnlyPaidPlans /\ RaceInv
  BY InitInv, PlansInit, RaceInitInv DEF RaceInit
<1>2. (Inv /\ OnlyPaidPlans /\ RaceInv) /\ [RaceNext]_raceVars => (Inv /\ OnlyPaidPlans /\ RaceInv)'
  BY RaceStep
<1> QED  BY <1>1, <1>2, PTL DEF RaceSpec

\* However many transactions and administrators overlap: after the commit of one
\* that nothing overtook, and until one that was overtaken or an administrator's,
\* a paid plan on the row is the period of an active purchase
\* (_project_subscription_for_user_in_session).
THEOREM RowMirrors == RaceSpec => []RowMirrorsLedger
<1>1. RaceInv => RowMirrorsLedger
  BY DEF RaceInv, RowIsMirror, RowMirrorsLedger
<1> QED  BY <1>1, RaceAlways, PTL

\* A step that takes a paid plan away is the commit of a transaction that was
\* overtaken, is an administrator's, found the period over, or saw no purchase
\* cover its moment.
LEMMA FallIsDue ==
  ASSUME Inv, RaceInv, [RaceNext]_raceVars, NEW w \in Worker, NEW p \in Payment,
         job'[w] # job[w], subscription.plan \in Paid, subscription'.plan = "free",
         Covers(purchase'[p], job[w].now)
  PROVE  \/ w \in stale \/ job[w].tx = "admin"
         \/ job[w].tx = "expire" /\ subscription.end <= job[w].now
<1>1. subscription' # subscription
  BY DEF Paid
<1>2. PICK v \in Worker : Commit(v)
  BY <1>1, UncommittedKeepsRows DEF RaceNext, CommitRaces, OtherRaces, raceVars, vars
<1>3. v = w
  BY <1>2 DEF Commit, Inv, LedgerTypeOK
<1>4. CASE w \notin stale /\ job[w].tx # "admin"
  <2>1. purchase' = View(w) /\ subscription' = job[w].write /\ WriteIsRight(w)
    BY <1>2, <1>3, <1>4, CommitIsRight
  <2> QED  BY <2>1 DEF WriteIsRight
<1> QED  BY <1>4

\* While a purchase covers the moment of a transaction, it takes a paid plan away
\* only if it was overtaken, if an administrator wants it, or if maintenance
\* finds the period on the row over.
THEOREM NeverFreeEarly == RaceSpec => NeverFreeBeforePeriodEnd
<1> DEFINE Due == \A w \in Worker :
                    (/\ job'[w] # job[w]
                     /\ subscription.plan \in Paid /\ subscription'.plan = "free"
                     /\ \E p \in Payment : Covers(purchase'[p], job[w].now))
                      => \/ w \in stale \/ job[w].tx = "admin"
                         \/ job[w].tx = "expire" /\ subscription.end <= job[w].now
<1>1. (Inv /\ OnlyPaidPlans /\ RaceInv) /\ [RaceNext]_raceVars => [Due]_raceVars
  BY FallIsDue
<1>2. NeverFreeBeforePeriodEnd <=> [][Due]_raceVars
  BY DEF NeverFreeBeforePeriodEnd
<1> QED  BY <1>1, <1>2, RaceAlways, PTL DEF RaceSpec, NeverFreeBeforePeriodEnd

=============================================================================

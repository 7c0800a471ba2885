------------------------ MODULE BillingPaymentsProofs ------------------------
(* Proofs that the safety promise of BillingPayments holds for every set of *)
(* payments, request handlers and settings.                                 *)
EXTENDS BillingPayments, TLAPS

Inv == BillingTypeOK /\ NewsIsTrue

USE BillingAssumption, NoStatusAssumption
    DEF Worker, Row, Job, PC, NoRow, NoJob, Time, Snapshot,
        Status, Terminal, Returning, Reported,
        db, outside, runs, worklist, Begin, Goto, Idle

-----------------------------------------------------------------------------
\* Writing a well-formed row, or job, keeps the table well formed and the other
\* rows, or jobs, as they are.
LEMMA RowUpdate ==
  ASSUME Inv, NEW p \in Payment, NEW r \in Row, payment' = [payment EXCEPT ![p] = r]
  PROVE  /\ payment' \in [Payment -> Row]
         /\ payment'[p] = r
         /\ \A q \in Payment \ {p} : payment'[q] = payment[q]
BY Zenon DEF Inv, BillingTypeOK

LEMMA JobUpdate ==
  ASSUME Inv, NEW w \in Worker, NEW j \in Job, job' = [job EXCEPT ![w] = j]
  PROVE  /\ job' \in [Worker -> Job]
         /\ job'[w] = j
         /\ \A v \in Worker \ {w} : job'[v] = job[v]
BY Zenon DEF Inv, BillingTypeOK

LEMMA GotoUpdate ==
  ASSUME Inv, NEW w \in Worker, NEW pc \in PC, Goto(w, pc)
  PROVE  /\ job' \in [Worker -> Job]
         /\ job'[w] = [job[w] EXCEPT !.pc = pc]
         /\ \A v \in Worker \ {w} : job'[v] = job[v]
<1> DEFINE j == [job[w] EXCEPT !.pc = pc]
<1>1. j \in Job
  BY DEF Inv, BillingTypeOK
<1>2. job' = [job EXCEPT ![w] = j]
  OBVIOUS
<1> QED  BY <1>1, <1>2, JobUpdate

LEMMA JobAfterPoll ==
  ASSUME Inv, NEW w \in Worker, AfterPoll(w) \/ Idle(w)
  PROVE  /\ job' \in [Worker -> Job]
         /\ job'[w] = NoJob \/ job'[w] = [job[w] EXCEPT !.pc = "recheck"]
         /\ \A v \in Worker \ {w} : job'[v] = job[v]
<1>1. CASE Idle(w)
  <2>1. NoJob \in Job
    BY DEF Job, NoJob, PC
  <2> QED  BY <1>1, <2>1, JobUpdate DEF Idle
<1>2. CASE Goto(w, "recheck")
  <2>1. "recheck" \in PC
    BY DEF PC
  <2> QED  BY <1>2, <2>1, GotoUpdate
<1> QED  BY <1>1, <1>2 DEF AfterPoll


LEMMA InitInv == Init => Inv
BY DEF Init, Inv, BillingTypeOK, NewsIsTrue, RowsAreTrue, JobsAreTrue, JobIsTrue,
    Told, CheckoutIsExclusive, BatchIsTrue, LedgerIsTrue, NotifiedOnlyTheTruth

LEMMA CheckoutInv ==
  ASSUME Inv, NEW w \in Handler, NEW p \in Payment, Checkout(w, p)
  PROVE  Inv'
<1>1. BillingTypeOK'
  <2>1. payment' \in [Payment -> Row]
    <3>1. payment[p] \in Row
      BY DEF Inv, BillingTypeOK
    <3>2. [payment[p] EXCEPT !.status = "created"] \in Row
      BY <3>1
    <3>3. payment' = [payment EXCEPT ![p] = [payment[p] EXCEPT !.status = "created"]]
      BY DEF Checkout
    <3> QED  BY <3>2, <3>3 DEF Inv, BillingTypeOK
  <2>2. job' \in [Worker -> Job]
    BY DEF Inv, NewsIsTrue, BillingTypeOK, JobsAreTrue, JobIsTrue, Checkout
  <2>3. \A v \in Worker : job'[v].pc # "idle" => job'[v].pay \in Payment
    BY DEF Inv, BillingTypeOK, Checkout
  <2>4. /\ purchase' \in [Payment -> {"none", "active", "reversed"}]
        /\ notified' \subseteq Payment \X Terminal
        /\ provider' \in [Payment -> Reported \union {NoStatus}]
        /\ captured' \subseteq Payment
        /\ batch' \subseteq Snapshot
        /\ phase' \in {"sleep", "poll", "recover", "recheck"}
        /\ lastRun' \in Time /\ runTime' \in Time /\ clock' \in Nat
    BY DEF Inv, BillingTypeOK, Checkout
  <2> QED  BY <2>1, <2>2, <2>3, <2>4 DEF BillingTypeOK
<1>2. RowsAreTrue'
  BY DEF Inv, NewsIsTrue, BillingTypeOK, RowsAreTrue, JobsAreTrue, JobIsTrue,
         Told, Checkout
<1>3. JobsAreTrue'
  BY DEF Inv, NewsIsTrue, BillingTypeOK, RowsAreTrue, JobsAreTrue, JobIsTrue,
         Told, Checkout
<1>4. CheckoutIsExclusive'
  BY DEF Inv, NewsIsTrue, BillingTypeOK, CheckoutIsExclusive, JobsAreTrue,
         JobIsTrue, Checkout
<1>5. BatchIsTrue' /\ LedgerIsTrue' /\ NotifiedOnlyTheTruth'
  BY DEF Inv, NewsIsTrue, BatchIsTrue, LedgerIsTrue, NotifiedOnlyTheTruth,
         Checkout
<1> QED  BY <1>1, <1>2, <1>3, <1>4, <1>5 DEF Inv, NewsIsTrue

LEMMA CreateInvoiceInv ==
  ASSUME Inv, NEW w \in Handler, CreateInvoice(w)
  PROVE  Inv'
<1>1. BillingTypeOK'
  BY DEF Inv, NewsIsTrue, BillingTypeOK, JobsAreTrue, JobIsTrue, CreateInvoice
<1>2. RowsAreTrue'
  BY DEF Inv, NewsIsTrue, BillingTypeOK, RowsAreTrue, JobsAreTrue, JobIsTrue,
         Told, CreateInvoice
<1>3. JobsAreTrue'
  BY DEF Inv, NewsIsTrue, BillingTypeOK, RowsAreTrue, JobsAreTrue, JobIsTrue,
         Told, CheckoutIsExclusive, CreateInvoice
<1>4. CheckoutIsExclusive'
  BY DEF Inv, NewsIsTrue, BillingTypeOK, CheckoutIsExclusive, JobsAreTrue,
         JobIsTrue, CreateInvoice
<1>5. BatchIsTrue'
  BY DEF Inv, NewsIsTrue, BillingTypeOK, RowsAreTrue, BatchIsTrue,
         CreateInvoice
<1>6. LedgerIsTrue'
  BY DEF Inv, NewsIsTrue, BillingTypeOK, JobsAreTrue, JobIsTrue, Told,
         LedgerIsTrue, CreateInvoice
<1>7. NotifiedOnlyTheTruth'
  BY DEF Inv, NewsIsTrue, BillingTypeOK, NotifiedOnlyTheTruth, JobsAreTrue,
         JobIsTrue, Told, CreateInvoice
<1> QED  BY <1>1, <1>2, <1>3, <1>4, <1>5, <1>6, <1>7 DEF Inv, NewsIsTrue

LEMMA InvoiceRefusedInv ==
  ASSUME Inv, NEW w \in Handler, InvoiceRefused(w)
  PROVE  Inv'
<1>1. BillingTypeOK'
  <2> DEFINE p == job[w].pay
             r == [payment[p] EXCEPT !.status = "failure"]
  <2>1. p \in Payment /\ payment[p] \in Row
    BY DEF Inv, BillingTypeOK, InvoiceRefused
  <2>2. r \in Row /\ payment' = [payment EXCEPT ![p] = r]
    BY <2>1 DEF InvoiceRefused
  <2>3. payment' \in [Payment -> Row]
    BY <2>1, <2>2, RowUpdate
  <2>4. NoJob \in Job /\ job' = [job EXCEPT ![w] = NoJob]
    BY DEF InvoiceRefused
  <2>5. /\ job' \in [Worker -> Job]
        /\ \A v \in Worker : job'[v].pc # "idle" => job'[v].pay \in Payment
    BY <2>4, JobUpdate DEF Inv, BillingTypeOK
  <2> QED  BY <2>3, <2>5 DEF Inv, BillingTypeOK, InvoiceRefused
<1>2. RowsAreTrue'
  BY DEF Inv, NewsIsTrue, BillingTypeOK, RowsAreTrue, JobsAreTrue, JobIsTrue,
         Told, InvoiceRefused
<1>3. JobsAreTrue'
  BY DEF Inv, NewsIsTrue, BillingTypeOK, RowsAreTrue, JobsAreTrue, JobIsTrue,
         Told, InvoiceRefused
<1>4. CheckoutIsExclusive'
  BY DEF Inv, NewsIsTrue, BillingTypeOK, CheckoutIsExclusive, JobsAreTrue,
         JobIsTrue, InvoiceRefused
<1>5. BatchIsTrue' /\ LedgerIsTrue' /\ NotifiedOnlyTheTruth'
  BY DEF Inv, NewsIsTrue, BatchIsTrue, LedgerIsTrue, NotifiedOnlyTheTruth,
         InvoiceRefused
<1> QED  BY <1>1, <1>2, <1>3, <1>4, <1>5 DEF Inv, NewsIsTrue

LEMMA MarkInvoiceCreatedInv ==
  ASSUME Inv, NEW w \in Handler, MarkInvoiceCreated(w)
  PROVE  Inv'
<1>1. BillingTypeOK'
  <2>1. payment' \in [Payment -> Row]
    <3> DEFINE p == job[w].pay
               r == [payment[p] EXCEPT !.status = "invoice_created", !.invoiced = TRUE]
    <3>1. p \in Payment /\ payment[p] \in Row
      BY DEF Inv, BillingTypeOK, MarkInvoiceCreated
    <3>2. r \in Row
      BY <3>1
    <3>3. payment' = [payment EXCEPT ![p] = r]
      BY DEF MarkInvoiceCreated
    <3> QED  BY <3>1, <3>2, <3>3, RowUpdate
  <2>2. job' \in [Worker -> Job]
    <3> DEFINE p == job[w].pay
               j == [pc |-> "fetch", pay |-> p, seen |-> "invoice_created", got |-> NoStatus]
    <3>1. p \in Payment /\ j \in Job /\ NoJob \in Job
      BY DEF Inv, BillingTypeOK, MarkInvoiceCreated
    <3>2. job' = [job EXCEPT ![w] = j] \/ job' = [job EXCEPT ![w] = NoJob]
      BY DEF MarkInvoiceCreated
    <3> QED  BY <3>1, <3>2, JobUpdate
  <2>3. \A v \in Worker : job'[v].pc # "idle" => job'[v].pay \in Payment
    <3>1. job'[w].pc # "idle" => job'[w].pay \in Payment
      BY DEF Inv, BillingTypeOK, MarkInvoiceCreated
    <3>2. \A v \in Worker \ {w} : job'[v] = job[v]
      BY DEF Inv, BillingTypeOK, MarkInvoiceCreated
    <3> QED  BY <3>1, <3>2 DEF Inv, BillingTypeOK
  <2>4. /\ purchase' \in [Payment -> {"none", "active", "reversed"}]
        /\ notified' \subseteq Payment \X Terminal
        /\ provider' \in [Payment -> Reported \union {NoStatus}]
        /\ captured' \subseteq Payment
        /\ batch' \subseteq Snapshot
        /\ phase' \in {"sleep", "poll", "recover", "recheck"}
        /\ lastRun' \in Time /\ runTime' \in Time /\ clock' \in Nat
    BY DEF Inv, BillingTypeOK, MarkInvoiceCreated
  <2> QED  BY <2>1, <2>2, <2>3, <2>4 DEF BillingTypeOK
<1>2. RowsAreTrue'
  BY DEF Inv, NewsIsTrue, BillingTypeOK, RowsAreTrue, JobsAreTrue, JobIsTrue,
         Told, MarkInvoiceCreated
<1>3. JobsAreTrue'
  <2>1. /\ job[w].pc = "mark" /\ JobIsTrue(job[w])
        /\ \A v \in Worker \ {w} : job'[v] = job[v]
    BY DEF Inv, NewsIsTrue, BillingTypeOK, JobsAreTrue, MarkInvoiceCreated
  <2>2. \A q \in Payment : payment[q].status # NoStatus => payment'[q].status # NoStatus
    BY DEF Inv, BillingTypeOK, MarkInvoiceCreated
  <2>3. ASSUME NEW v \in Worker \ {w} PROVE JobIsTrue(job[v])'
    <3>1. JobIsTrue(job[v]) /\ (job[v].pc # "idle" => job[v].pay \in Payment)
      BY DEF Inv, NewsIsTrue, JobsAreTrue, BillingTypeOK
    <3> QED  BY <2>1, <2>2, <3>1 DEF JobIsTrue, Told, MarkInvoiceCreated
  <2>4. JobIsTrue(job[w])'
    <3>1. \/ job'[w] = NoJob
          \/ job'[w] = [pc |-> "fetch", pay |-> job[w].pay,
                        seen |-> "invoice_created", got |-> NoStatus]
      BY DEF Inv, BillingTypeOK, MarkInvoiceCreated
    <3> QED  BY <2>1, <3>1 DEF JobIsTrue, Told, MarkInvoiceCreated
  <2> QED  BY <2>3, <2>4 DEF JobsAreTrue
<1>4. CheckoutIsExclusive'
  <2>1. job'[w].pc # "invoice"
    BY DEF Inv, BillingTypeOK, MarkInvoiceCreated
  <2>2. \A v \in Worker \ {w} : job'[v] = job[v]
    BY DEF Inv, BillingTypeOK, MarkInvoiceCreated
  <2> QED  BY <2>1, <2>2 DEF Inv, NewsIsTrue, CheckoutIsExclusive
<1>5. BatchIsTrue' /\ LedgerIsTrue' /\ NotifiedOnlyTheTruth'
  BY DEF Inv, NewsIsTrue, BatchIsTrue, LedgerIsTrue, NotifiedOnlyTheTruth,
         MarkInvoiceCreated
<1> QED  BY <1>1, <1>2, <1>3, <1>4, <1>5 DEF Inv, NewsIsTrue

LEMMA WebhookInv ==
  ASSUME Inv, NEW w \in Handler, NEW p \in Payment, Webhook(w, p)
  PROVE  Inv'
<1>1. BillingTypeOK'
  BY DEF Inv, NewsIsTrue, BillingTypeOK, JobsAreTrue, JobIsTrue, Webhook
<1>2. JobsAreTrue'
  BY DEF Inv, NewsIsTrue, BillingTypeOK, RowsAreTrue, JobsAreTrue, JobIsTrue,
         Told, Webhook
<1>3. CheckoutIsExclusive'
  BY DEF Inv, NewsIsTrue, BillingTypeOK, CheckoutIsExclusive, JobsAreTrue,
         JobIsTrue, Webhook
<1>4. RowsAreTrue' /\ BatchIsTrue' /\ LedgerIsTrue' /\ NotifiedOnlyTheTruth'
  BY DEF Inv, NewsIsTrue, RowsAreTrue, BatchIsTrue, LedgerIsTrue,
         NotifiedOnlyTheTruth, Webhook
<1> QED  BY <1>1, <1>2, <1>3, <1>4 DEF Inv, NewsIsTrue

LEMMA ClientPollInv ==
  ASSUME Inv, NEW w \in Handler, NEW p \in Payment, ClientPoll(w, p)
  PROVE  Inv'
<1>1. BillingTypeOK'
  BY DEF Inv, NewsIsTrue, BillingTypeOK, JobsAreTrue, JobIsTrue, ClientPoll
<1>2. JobsAreTrue'
  BY DEF Inv, NewsIsTrue, BillingTypeOK, RowsAreTrue, JobsAreTrue, JobIsTrue,
         Told, ClientPoll
<1>3. CheckoutIsExclusive'
  BY DEF Inv, NewsIsTrue, BillingTypeOK, CheckoutIsExclusive, JobsAreTrue,
         JobIsTrue, ClientPoll
<1>4. RowsAreTrue' /\ BatchIsTrue' /\ LedgerIsTrue' /\ NotifiedOnlyTheTruth'
  BY DEF Inv, NewsIsTrue, RowsAreTrue, BatchIsTrue, LedgerIsTrue,
         NotifiedOnlyTheTruth, ClientPoll
<1> QED  BY <1>1, <1>2, <1>3, <1>4 DEF Inv, NewsIsTrue

\* Whatever the provider answers, it is the payment's status or an earlier one.
LEMMA AnswersAreTrue ==
  ASSUME Inv, NEW p \in Payment, provider[p] # NoStatus, NEW got \in Answers(p)
  PROVE  got \in Reported /\ Told(p, got)
<1>1. provider[p] \in Reported /\ (provider[p] = "success" => p \in captured)
  BY DEF Inv, BillingTypeOK, NewsIsTrue, RowsAreTrue
<1> QED  BY <1>1 DEF Answers, Told

LEMMA FetchInv ==
  ASSUME Inv, NEW w \in Worker, Fetch(w)
  PROVE  Inv'
<1> DEFINE p == job[w].pay
<1>1. p \in Payment /\ provider[p] # NoStatus /\ job[w].pc = "fetch" /\ JobIsTrue(job[w])
  BY DEF Inv, BillingTypeOK, NewsIsTrue, JobsAreTrue, JobIsTrue, Fetch
<1>2. PICK got \in Answers(p) : Answered(w, got)
  BY DEF Fetch
<1>3. got \in Reported /\ Told(p, got)
  BY <1>1, AnswersAreTrue
<1> DEFINE j == [job[w] EXCEPT !.pc = "write", !.got = got]
<1>4. j \in Job
  <2>1. job[w] \in Job
    BY DEF Inv, BillingTypeOK
  <2> QED  BY <1>3, <2>1
<1>5. job' = [job EXCEPT ![w] = j]
  BY <1>2 DEF Answered
<1>6. /\ job' \in [Worker -> Job]
      /\ job'[w] = j
      /\ \A v \in Worker \ {w} : job'[v] = job[v]
  BY <1>4, <1>5, JobUpdate
<1>7. UNCHANGED <<db, outside, worklist, clock>>
  BY <1>2 DEF Answered
<1>8. BillingTypeOK'
  <2>1. \A v \in Worker : job'[v].pc # "idle" => job'[v].pay \in Payment
    <3>1. job'[w].pay \in Payment
      BY <1>1, <1>6
    <3> QED  BY <3>1, <1>6 DEF Inv, BillingTypeOK
  <2> QED  BY <1>6, <1>7, <2>1 DEF Inv, BillingTypeOK
<1>9. JobsAreTrue'
  <2>1. ASSUME NEW v \in Worker \ {w} PROVE JobIsTrue(job[v])'
    <3>1. JobIsTrue(job[v])
      BY DEF Inv, NewsIsTrue, JobsAreTrue
    <3> QED  BY <1>6, <1>7, <3>1 DEF JobIsTrue, Told
  <2>2. JobIsTrue(job[w])'
    BY <1>1, <1>3, <1>6, <1>7 DEF JobIsTrue, Told
  <2> QED  BY <2>1, <2>2 DEF JobsAreTrue
<1>10. CheckoutIsExclusive'
  <2>1. job'[w].pc # "invoice"
    BY <1>6
  <2> QED  BY <1>6, <2>1 DEF Inv, NewsIsTrue, CheckoutIsExclusive
<1>11. RowsAreTrue' /\ BatchIsTrue' /\ LedgerIsTrue' /\ NotifiedOnlyTheTruth'
  BY <1>7 DEF Inv, NewsIsTrue, RowsAreTrue, BatchIsTrue, LedgerIsTrue,
          NotifiedOnlyTheTruth
<1> QED  BY <1>8, <1>9, <1>10, <1>11 DEF Inv, NewsIsTrue

LEMMA GiveUpInv ==
  ASSUME Inv, NEW w \in Worker, FetchFails(w) \/ IgnoreStatus(w) \/ Abort(w)
  PROVE  Inv'
<1>1. BillingTypeOK'
  <2>1. job[w].pc # "idle" => job[w].pay \in Payment
    BY DEF Inv, BillingTypeOK
  <2>2. /\ job' \in [Worker -> Job]
        /\ job'[w] = NoJob \/ job'[w] = [job[w] EXCEPT !.pc = "recheck"]
        /\ \A v \in Worker \ {w} : job'[v] = job[v]
    BY JobAfterPoll DEF FetchFails, IgnoreStatus, Abort, AfterPoll
  <2>4. job[w] \in Job /\ job[w].pc # "idle"
    BY DEF Inv, BillingTypeOK, FetchFails, IgnoreStatus, Abort
  <2>5. job'[w].pc # "idle" => job'[w].pay \in Payment
    BY <2>1, <2>2, <2>4 DEF Job, NoJob
  <2>3. UNCHANGED <<db, outside, worklist, clock>>
    BY DEF FetchFails, IgnoreStatus, Abort
  <2> QED  BY <2>2, <2>3, <2>5 DEF Inv, BillingTypeOK
<1>2. JobsAreTrue'
  BY DEF Inv, NewsIsTrue, BillingTypeOK, RowsAreTrue, JobsAreTrue, JobIsTrue,
         Told, FetchFails, IgnoreStatus, AfterPoll, Abort
<1>3. CheckoutIsExclusive'
  BY DEF Inv, NewsIsTrue, BillingTypeOK, CheckoutIsExclusive, JobsAreTrue,
         JobIsTrue, FetchFails, IgnoreStatus, AfterPoll, Abort
<1>4. RowsAreTrue' /\ BatchIsTrue' /\ LedgerIsTrue' /\ NotifiedOnlyTheTruth'
  BY DEF Inv, NewsIsTrue, RowsAreTrue, BatchIsTrue, LedgerIsTrue,
         NotifiedOnlyTheTruth, FetchFails, IgnoreStatus, AfterPoll, Abort
<1> QED  BY <1>1, <1>2, <1>3, <1>4 DEF Inv, NewsIsTrue

LEMMA WrittenRow ==
  ASSUME Inv, NEW w \in Worker, WriteStatus(w)
  PROVE  \E p \in Payment, r \in Row :
           /\ p = job[w].pay
           /\ payment' = [payment EXCEPT ![p] = r]
           /\ r.status = job[w].got /\ r.invoiced = payment[p].invoiced
<1> DEFINE p == job[w].pay
           r == [payment[p] EXCEPT !.status = job[w].got,
                                   !.paidAt = PaidAt(p, job[w].got)]
<1>1. p \in Payment /\ payment[p] \in Row /\ clock \in Nat
  BY DEF Inv, BillingTypeOK, WriteStatus
<1>2. job[w].got \in Reported
  BY DEF Inv, NewsIsTrue, JobsAreTrue, JobIsTrue, WriteStatus
<1>3. PaidAt(p, job[w].got) \in Time
  BY <1>1 DEF PaidAt
<1>4. r \in Row /\ r.status = job[w].got /\ r.invoiced = payment[p].invoiced
  BY <1>1, <1>2, <1>3
<1>5. payment' = [payment EXCEPT ![p] = r]
  BY DEF WriteStatus
<1> QED  BY <1>1, <1>4, <1>5

LEMMA WriteStatusInv ==
  ASSUME Inv, NEW w \in Worker, WriteStatus(w)
  PROVE  Inv'
<1>1. BillingTypeOK'
  <2>1. payment' \in [Payment -> Row]
    BY RowUpdate, WrittenRow
  <2>2. job' \in [Worker -> Job]
    <3>1. job[w] \in Job
      BY DEF Inv, BillingTypeOK
    <3>2. \A pc \in PC : [job EXCEPT ![w].pc = pc] \in [Worker -> Job]
      BY <3>1 DEF Inv, BillingTypeOK
    <3>3. [job EXCEPT ![w] = NoJob] \in [Worker -> Job]
      BY DEF Inv, BillingTypeOK
    <3>4. FirstEffect(job[w].seen, job[w].got) \in PC
      BY DEF FirstEffect
    <3>5. AfterPoll(w) => job' \in [Worker -> Job]
      BY <3>2, <3>3 DEF AfterPoll
    <3>6. Goto(w, FirstEffect(job[w].seen, job[w].got)) => job' \in [Worker -> Job]
      BY <3>4, GotoUpdate
    <3> HIDE DEF Job, PC, NoJob, Goto, Idle
    <3> QED  BY <3>5, <3>6 DEF WriteStatus
  <2>3. \A v \in Worker : job'[v].pc # "idle" => job'[v].pay \in Payment
    <3>1. job'[w] = NoJob \/ job'[w].pay = job[w].pay
      BY DEF Inv, BillingTypeOK, WriteStatus, AfterPoll
    <3>2. \A v \in Worker \ {w} : job'[v] = job[v]
      BY DEF Inv, BillingTypeOK, WriteStatus, FirstEffect, AfterPoll
    <3>3. job[w].pay \in Payment
      BY DEF Inv, BillingTypeOK, WriteStatus
    <3> QED  BY <3>1, <3>2, <3>3 DEF Inv, BillingTypeOK
  <2>4. /\ purchase' \in [Payment -> {"none", "active", "reversed"}]
        /\ notified' \subseteq Payment \X Terminal
        /\ provider' \in [Payment -> Reported \union {NoStatus}]
        /\ captured' \subseteq Payment
        /\ batch' \subseteq Snapshot
        /\ phase' \in {"sleep", "poll", "recover", "recheck"}
        /\ lastRun' \in Time /\ runTime' \in Time /\ clock' \in Nat
    BY DEF Inv, BillingTypeOK, WriteStatus,
           FirstEffect, PaidAt, AfterPoll
  <2> QED  BY <2>1, <2>2, <2>3, <2>4 DEF BillingTypeOK
<1>2. RowsAreTrue'
  <2>1. PICK p \in Payment, r \in Row :
          /\ p = job[w].pay
          /\ payment' = [payment EXCEPT ![p] = r]
          /\ r.status = job[w].got /\ r.invoiced = payment[p].invoiced
    BY WrittenRow
  <2>2. /\ payment'[p] = r
        /\ \A q \in Payment \ {p} : payment'[q] = payment[q]
    BY <2>1, RowUpdate
  <2>3. r.status \in Reported /\ Told(p, r.status)
    BY <2>1 DEF Inv, NewsIsTrue, JobsAreTrue, JobIsTrue, WriteStatus
  <2>4. UNCHANGED outside
    BY DEF WriteStatus
  <2> QED  BY <2>1, <2>2, <2>3, <2>4 DEF Inv, NewsIsTrue, RowsAreTrue, Told
<1>3. JobsAreTrue'
  <2>1. \A v \in Worker \ {w} : job'[v] = job[v]
    BY DEF Inv, BillingTypeOK, WriteStatus, FirstEffect, AfterPoll
  <2>2. \A q \in Payment : payment[q].status # NoStatus => payment'[q].status # NoStatus
    <3>1. PICK p \in Payment, r \in Row :
            /\ payment' = [payment EXCEPT ![p] = r] /\ r.status = job[w].got
      BY WrittenRow
    <3>2. r.status # NoStatus
      BY <3>1 DEF Inv, NewsIsTrue, JobsAreTrue, JobIsTrue, WriteStatus
    <3> QED  BY <3>1, <3>2, RowUpdate
  <2>3. ASSUME NEW v \in Worker \ {w} PROVE JobIsTrue(job[v])'
    <3>1. JobIsTrue(job[v]) /\ (job[v].pc # "idle" => job[v].pay \in Payment)
      BY DEF Inv, NewsIsTrue, JobsAreTrue, BillingTypeOK
    <3> QED  BY <2>1, <2>2, <3>1 DEF JobIsTrue, Told, WriteStatus
  <2>4. JobIsTrue(job[w])'
    <3>1. JobIsTrue(job[w]) /\ job[w].pc = "write" /\ job[w] \in Job
      BY DEF Inv, NewsIsTrue, JobsAreTrue, BillingTypeOK, WriteStatus
    <3>2. CASE job'[w] = NoJob
      BY <3>2 DEF JobIsTrue
    <3>3. CASE job'[w] = [job[w] EXCEPT !.pc = "recheck"]
      BY <3>1, <3>3 DEF JobIsTrue, Told, WriteStatus
    <3>4. CASE /\ FirstEffect(job[w].seen, job[w].got) # "idle"
               /\ job'[w] = [job[w] EXCEPT !.pc = FirstEffect(job[w].seen, job[w].got)]
      BY <3>1, <3>4 DEF JobIsTrue, Told, WriteStatus, FirstEffect
    <3> QED  BY <3>2, <3>3, <3>4 DEF WriteStatus, AfterPoll, Inv, BillingTypeOK
  <2> QED  BY <2>3, <2>4 DEF JobsAreTrue
<1>4. CheckoutIsExclusive'
  <2>1. job'[w].pc # "invoice"
    BY DEF Inv, BillingTypeOK, WriteStatus, FirstEffect, AfterPoll
  <2>2. \A v \in Worker \ {w} : job'[v] = job[v]
    BY DEF Inv, BillingTypeOK, WriteStatus, FirstEffect, AfterPoll
  <2> QED  BY <2>1, <2>2 DEF Inv, NewsIsTrue, CheckoutIsExclusive
<1>5. BatchIsTrue' /\ LedgerIsTrue' /\ NotifiedOnlyTheTruth'
  BY DEF Inv, NewsIsTrue, BatchIsTrue, LedgerIsTrue, NotifiedOnlyTheTruth,
         WriteStatus, FirstEffect, PaidAt, AfterPoll
<1> QED  BY <1>1, <1>2, <1>3, <1>4, <1>5 DEF Inv, NewsIsTrue

LEMMA ApplyPurchaseInv ==
  ASSUME Inv, NEW w \in Worker, ApplyPurchase(w)
  PROVE  Inv'
<1>1. BillingTypeOK'
  <2>1. payment' \in [Payment -> Row]
    BY DEF Inv, NewsIsTrue, BillingTypeOK, JobsAreTrue, JobIsTrue, ApplyPurchase
  <2>2. job' \in [Worker -> Job]
    <3>1. job[w] \in Job
      BY DEF Inv, BillingTypeOK
    <3>2. [job EXCEPT ![w].pc = "notify"] \in [Worker -> Job]
      BY <3>1 DEF Inv, BillingTypeOK
    <3>3. [job EXCEPT ![w] = NoJob] \in [Worker -> Job]
      BY DEF Inv, BillingTypeOK
    <3> QED  BY <3>2, <3>3 DEF ApplyPurchase
  <2>3. \A v \in Worker : job'[v].pc # "idle" => job'[v].pay \in Payment
    BY DEF Inv, BillingTypeOK, ApplyPurchase
  <2>4. /\ purchase' \in [Payment -> {"none", "active", "reversed"}]
        /\ notified' \subseteq Payment \X Terminal
        /\ provider' \in [Payment -> Reported \union {NoStatus}]
        /\ captured' \subseteq Payment
        /\ batch' \subseteq Snapshot
        /\ phase' \in {"sleep", "poll", "recover", "recheck"}
        /\ lastRun' \in Time /\ runTime' \in Time /\ clock' \in Nat
    BY DEF Inv, BillingTypeOK, ApplyPurchase
  <2> QED  BY <2>1, <2>2, <2>3, <2>4 DEF BillingTypeOK
<1>2. JobsAreTrue'
  <2>1. \A v \in Worker \ {w} : job'[v] = job[v]
    BY DEF Inv, BillingTypeOK, ApplyPurchase
  <2>2. job'[w] = NoJob \/ job'[w] = [job[w] EXCEPT !.pc = "notify"]
    BY DEF Inv, BillingTypeOK, ApplyPurchase
  <2>3. \A v \in Worker : JobIsTrue(job[v])
    BY DEF Inv, NewsIsTrue, JobsAreTrue
  <2>4. ASSUME NEW v \in Worker \ {w} PROVE JobIsTrue(job[v])'
    BY <2>1, <2>3 DEF JobIsTrue, Told, ApplyPurchase
  <2>5. JobIsTrue(job[w])'
    <3>1. job[w] \in Job
      BY DEF Inv, BillingTypeOK
    <3> QED  BY <2>2, <2>3, <3>1 DEF JobIsTrue, Told, ApplyPurchase
  <2> QED  BY <2>4, <2>5 DEF JobsAreTrue
<1>3. CheckoutIsExclusive'
  BY DEF Inv, NewsIsTrue, BillingTypeOK, CheckoutIsExclusive, JobsAreTrue,
         JobIsTrue, ApplyPurchase
<1>4. LedgerIsTrue'
  BY DEF Inv, NewsIsTrue, BillingTypeOK, JobsAreTrue, JobIsTrue, Told,
         LedgerIsTrue, ApplyPurchase
<1>5. RowsAreTrue' /\ BatchIsTrue' /\ NotifiedOnlyTheTruth'
  BY DEF Inv, NewsIsTrue, RowsAreTrue, BatchIsTrue, NotifiedOnlyTheTruth,
         ApplyPurchase
<1> QED  BY <1>1, <1>2, <1>3, <1>4, <1>5 DEF Inv, NewsIsTrue

LEMMA ReversePurchaseInv ==
  ASSUME Inv, NEW w \in Worker, ReversePurchase(w)
  PROVE  Inv'
<1>1. BillingTypeOK'
  <2>1. /\ job' \in [Worker -> Job]
        /\ job'[w] = [job[w] EXCEPT !.pc = "notify"]
        /\ \A v \in Worker \ {w} : job'[v] = job[v]
    <3>1. Goto(w, "notify") /\ "notify" \in PC
      BY DEF ReversePurchase
    <3> QED  BY <3>1, GotoUpdate
  <2>2. \A v \in Worker : job'[v].pc # "idle" => job'[v].pay \in Payment
    BY <2>1 DEF Inv, BillingTypeOK, ReversePurchase
  <2>3. purchase' \in [Payment -> {"none", "active", "reversed"}]
    BY DEF Inv, BillingTypeOK, ReversePurchase
  <2> QED  BY <2>1, <2>2, <2>3 DEF Inv, BillingTypeOK, ReversePurchase
<1>2. JobsAreTrue'
  BY DEF Inv, NewsIsTrue, BillingTypeOK, RowsAreTrue, JobsAreTrue, JobIsTrue,
         Told, ReversePurchase
<1>3. CheckoutIsExclusive'
  BY DEF Inv, NewsIsTrue, BillingTypeOK, CheckoutIsExclusive, JobsAreTrue,
         JobIsTrue, ReversePurchase
<1>4. LedgerIsTrue'
  BY DEF Inv, NewsIsTrue, BillingTypeOK, JobsAreTrue, JobIsTrue, Told,
         LedgerIsTrue, ReversePurchase
<1>5. RowsAreTrue' /\ BatchIsTrue' /\ NotifiedOnlyTheTruth'
  BY DEF Inv, NewsIsTrue, RowsAreTrue, BatchIsTrue, NotifiedOnlyTheTruth,
         ReversePurchase
<1> QED  BY <1>1, <1>2, <1>3, <1>4, <1>5 DEF Inv, NewsIsTrue

LEMMA NotifyCustomerInv ==
  ASSUME Inv, NEW w \in Worker, NotifyCustomer(w)
  PROVE  Inv'
<1>1. BillingTypeOK'
  BY DEF Inv, NewsIsTrue, BillingTypeOK, JobsAreTrue, JobIsTrue,
         NotifyCustomer, AfterPoll
<1>2. JobsAreTrue'
  BY DEF Inv, NewsIsTrue, BillingTypeOK, RowsAreTrue, JobsAreTrue, JobIsTrue,
         Told, NotifyCustomer, AfterPoll
<1>3. CheckoutIsExclusive'
  <2>1. /\ job'[w] = NoJob \/ job'[w] = [job[w] EXCEPT !.pc = "recheck"]
        /\ \A v \in Worker \ {w} : job'[v] = job[v]
    BY JobAfterPoll DEF NotifyCustomer
  <2>2. job[w] \in Job
    BY DEF Inv, BillingTypeOK
  <2>3. job'[w].pc # "invoice"
    BY <2>1, <2>2 DEF Job, NoJob
  <2> QED  BY <2>1, <2>3 DEF Inv, NewsIsTrue, CheckoutIsExclusive
<1>4. NotifiedOnlyTheTruth'
  BY DEF Inv, NewsIsTrue, BillingTypeOK, NotifiedOnlyTheTruth, JobsAreTrue,
         JobIsTrue, Told, NotifyCustomer, AfterPoll
<1>5. RowsAreTrue' /\ BatchIsTrue' /\ LedgerIsTrue'
  BY DEF Inv, NewsIsTrue, RowsAreTrue, BatchIsTrue, LedgerIsTrue,
         NotifyCustomer, AfterPoll
<1> QED  BY <1>1, <1>2, <1>3, <1>4, <1>5 DEF Inv, NewsIsTrue

LEMMA MarkRecheckedInv ==
  ASSUME Inv, NEW w \in Worker, MarkRechecked(w)
  PROVE  Inv'
<1>1. BillingTypeOK'
  <2> DEFINE p == job[w].pay
             r == [payment[p] EXCEPT !.rechecked = clock]
  <2>1. p \in Payment /\ payment[p] \in Row /\ clock \in Nat
    BY DEF Inv, BillingTypeOK, MarkRechecked
  <2>2. r \in Row /\ payment' = [payment EXCEPT ![p] = r]
    BY <2>1 DEF MarkRechecked
  <2>3. payment' \in [Payment -> Row]
    BY <2>1, <2>2, RowUpdate
  <2>4. NoJob \in Job /\ job' = [job EXCEPT ![w] = NoJob]
    BY DEF MarkRechecked
  <2>5. /\ job' \in [Worker -> Job]
        /\ \A v \in Worker : job'[v].pc # "idle" => job'[v].pay \in Payment
    BY <2>4, JobUpdate DEF Inv, BillingTypeOK
  <2> QED  BY <2>3, <2>5 DEF Inv, BillingTypeOK, MarkRechecked
<1>2. RowsAreTrue'
  BY DEF Inv, NewsIsTrue, BillingTypeOK, RowsAreTrue, JobsAreTrue, JobIsTrue,
         Told, MarkRechecked
<1>3. JobsAreTrue'
  BY DEF Inv, NewsIsTrue, BillingTypeOK, RowsAreTrue, JobsAreTrue, JobIsTrue,
         Told, MarkRechecked
<1>4. CheckoutIsExclusive'
  BY DEF Inv, NewsIsTrue, BillingTypeOK, CheckoutIsExclusive, JobsAreTrue,
         JobIsTrue, MarkRechecked
<1>5. BatchIsTrue' /\ LedgerIsTrue' /\ NotifiedOnlyTheTruth'
  BY DEF Inv, NewsIsTrue, BatchIsTrue, LedgerIsTrue, NotifiedOnlyTheTruth,
         MarkRechecked
<1> QED  BY <1>1, <1>2, <1>3, <1>4, <1>5 DEF Inv, NewsIsTrue

LEMMA ListInv ==
  ASSUME Inv, ListNonTerminal \/ ListToRecover \/ ListToRecheck
  PROVE  Inv'
<1>1. BillingTypeOK'
  <2>1. batch' \subseteq Snapshot
    BY DEF Inv, NewsIsTrue, BillingTypeOK, RowsAreTrue, ListNonTerminal,
           ListToRecover, ListToRecheck, SnapshotOf, NonTerminal, ToRecover,
           DueForRecheck
  <2> QED
    BY <2>1 DEF Inv, BillingTypeOK, ListNonTerminal, ListToRecover,
           ListToRecheck
<1>2. BatchIsTrue'
  BY DEF Inv, NewsIsTrue, BillingTypeOK, RowsAreTrue, BatchIsTrue,
         ListNonTerminal, ListToRecover, ListToRecheck, SnapshotOf,
         NonTerminal, ToRecover, DueForRecheck
<1>3. RowsAreTrue' /\ JobsAreTrue' /\ CheckoutIsExclusive' /\ LedgerIsTrue' /\ NotifiedOnlyTheTruth'
  BY DEF Inv, NewsIsTrue, RowsAreTrue, JobsAreTrue, CheckoutIsExclusive,
         LedgerIsTrue, NotifiedOnlyTheTruth, JobIsTrue, Told, ListNonTerminal,
         ListToRecover, ListToRecheck, SnapshotOf, NonTerminal, ToRecover,
         DueForRecheck
<1> QED  BY <1>1, <1>2, <1>3 DEF Inv, NewsIsTrue

LEMMA NoListInv ==
  ASSUME Inv, SkipRecovery \/ EndTick \/ ReconRestarts
  PROVE  Inv'
<1>1. BillingTypeOK'
  BY DEF Inv, NewsIsTrue, BillingTypeOK, JobsAreTrue, JobIsTrue, SkipRecovery,
         EndTick, ReconRestarts
<1>2. JobsAreTrue'
  BY DEF Inv, NewsIsTrue, BillingTypeOK, RowsAreTrue, JobsAreTrue, JobIsTrue,
         Told, SkipRecovery, EndTick, ReconRestarts
<1>3. CheckoutIsExclusive'
  BY DEF Inv, NewsIsTrue, BillingTypeOK, CheckoutIsExclusive, JobsAreTrue,
         JobIsTrue, SkipRecovery, EndTick, ReconRestarts
<1>4. BatchIsTrue'
  BY DEF Inv, NewsIsTrue, BillingTypeOK, RowsAreTrue, BatchIsTrue,
         SkipRecovery, EndTick, ReconRestarts
<1>5. RowsAreTrue' /\ LedgerIsTrue' /\ NotifiedOnlyTheTruth'
  BY DEF Inv, NewsIsTrue, RowsAreTrue, LedgerIsTrue, NotifiedOnlyTheTruth,
         SkipRecovery, EndTick, ReconRestarts
<1> QED  BY <1>1, <1>2, <1>3, <1>4, <1>5 DEF Inv, NewsIsTrue

LEMMA TakeFromBatchInv ==
  ASSUME Inv, NEW s \in batch, TakeFromBatch(s)
  PROVE  Inv'
<1>1. BillingTypeOK'
  BY DEF Inv, NewsIsTrue, BillingTypeOK, JobsAreTrue, JobIsTrue, TakeFromBatch
<1>2. JobsAreTrue'
  <2>1. s \in Snapshot /\ provider[s.pay] # NoStatus
    BY DEF Inv, NewsIsTrue, BillingTypeOK, BatchIsTrue, TakeFromBatch
  <2>2. CASE phase = "recover"
    <3>1. s.pay \in captured
      BY <2>2 DEF Inv, NewsIsTrue, BatchIsTrue, TakeFromBatch
    <3>2. job' = [job EXCEPT ![Recon] = [pc |-> "apply", pay |-> s.pay,
                                         seen |-> "success", got |-> "success"]]
      BY <2>2 DEF TakeFromBatch
    <3> QED
      BY <2>1, <3>1, <3>2 DEF Inv, NewsIsTrue, BillingTypeOK, JobsAreTrue,
             JobIsTrue, Told, TakeFromBatch
  <2>3. CASE phase # "recover"
    <3>1. s.seen = "success" => s.pay \in captured
      BY DEF Inv, NewsIsTrue, BatchIsTrue, TakeFromBatch
    <3>2. job' = [job EXCEPT ![Recon] = [pc |-> "fetch", pay |-> s.pay,
                                         seen |-> s.seen, got |-> NoStatus]]
      BY <2>3 DEF TakeFromBatch
    <3> QED
      BY <2>1, <3>1, <3>2 DEF Inv, NewsIsTrue, BillingTypeOK, JobsAreTrue,
             JobIsTrue, Told, TakeFromBatch
  <2> QED  BY <2>2, <2>3
<1>3. CheckoutIsExclusive'
  BY DEF Inv, NewsIsTrue, BillingTypeOK, CheckoutIsExclusive, JobsAreTrue,
         JobIsTrue, TakeFromBatch
<1>4. BatchIsTrue'
  BY DEF Inv, NewsIsTrue, BillingTypeOK, RowsAreTrue, BatchIsTrue,
         TakeFromBatch
<1>5. RowsAreTrue' /\ LedgerIsTrue' /\ NotifiedOnlyTheTruth'
  BY DEF Inv, NewsIsTrue, RowsAreTrue, LedgerIsTrue, NotifiedOnlyTheTruth,
         TakeFromBatch
<1> QED  BY <1>1, <1>2, <1>3, <1>4, <1>5 DEF Inv, NewsIsTrue

LEMMA ProviderStepInv ==
  ASSUME Inv, NEW p \in Payment, NEW new \in Outcome, ProviderStep(p, new)
  PROVE  Inv'
<1>0. new \in Reported
  BY OutcomeAssumption
<1>1. BillingTypeOK'
  BY <1>0 DEF Inv, NewsIsTrue, BillingTypeOK, JobsAreTrue, JobIsTrue, ProviderStep
<1>2. RowsAreTrue'
  BY <1>0 DEF Inv, NewsIsTrue, BillingTypeOK, RowsAreTrue, JobsAreTrue, JobIsTrue,
         Told, ProviderStep
<1>3. JobsAreTrue'
  BY <1>0 DEF Inv, NewsIsTrue, BillingTypeOK, RowsAreTrue, JobsAreTrue, JobIsTrue,
         Told, ProviderStep
<1>4. BatchIsTrue'
  BY <1>0 DEF Inv, NewsIsTrue, BillingTypeOK, RowsAreTrue, BatchIsTrue,
         ProviderStep
<1>5. LedgerIsTrue'
  BY <1>0 DEF Inv, NewsIsTrue, BillingTypeOK, JobsAreTrue, JobIsTrue, Told,
         LedgerIsTrue, ProviderStep
<1>6. NotifiedOnlyTheTruth'
  BY <1>0 DEF Inv, NewsIsTrue, BillingTypeOK, NotifiedOnlyTheTruth, JobsAreTrue,
         JobIsTrue, Told, ProviderStep
<1>7. CheckoutIsExclusive'
  BY <1>0 DEF Inv, NewsIsTrue, CheckoutIsExclusive, ProviderStep
<1> QED  BY <1>1, <1>2, <1>3, <1>4, <1>5, <1>6, <1>7 DEF Inv, NewsIsTrue

LEMMA TickInv ==
  ASSUME Inv, Tick
  PROVE  Inv'
<1>1. BillingTypeOK'
  BY DEF Inv, NewsIsTrue, BillingTypeOK, JobsAreTrue, JobIsTrue, Tick
<1>2. RowsAreTrue' /\ JobsAreTrue' /\ CheckoutIsExclusive' /\ BatchIsTrue' /\ LedgerIsTrue' /\ NotifiedOnlyTheTruth'
  BY DEF Inv, NewsIsTrue, RowsAreTrue, JobsAreTrue, CheckoutIsExclusive,
         BatchIsTrue, LedgerIsTrue, NotifiedOnlyTheTruth, JobIsTrue, Told,
         Tick
<1> QED  BY <1>1, <1>2 DEF Inv, NewsIsTrue

-----------------------------------------------------------------------------
LEMMA NextInv == Inv /\ [Next]_vars => Inv'
<1> SUFFICES ASSUME Inv, [Next]_vars PROVE Inv'
  OBVIOUS
<1>1. ASSUME NEW w \in Handler, NEW p \in Payment,
             Checkout(w, p) \/ Webhook(w, p) \/ ClientPoll(w, p)
      PROVE  Inv'
  BY <1>1, CheckoutInv, WebhookInv, ClientPollInv
<1>2. ASSUME NEW w \in Handler, CheckoutStep(w) PROVE Inv'
  BY <1>2, CreateInvoiceInv, InvoiceRefusedInv, MarkInvoiceCreatedInv
     DEF CheckoutStep
<1>3. ASSUME NEW w \in Worker, WorkerStep(w) \/ Abort(w) PROVE Inv'
  BY <1>3, FetchInv, GiveUpInv, WriteStatusInv, ApplyPurchaseInv,
     ReversePurchaseInv, NotifyCustomerInv, MarkRecheckedInv DEF WorkerStep
<1>4. ASSUME ReconStep \/ ReconRestarts PROVE Inv'
  BY <1>4, ListInv, NoListInv, TakeFromBatchInv DEF ReconStep
<1>5. ASSUME NEW p \in Payment, NEW new \in Outcome, ProviderStep(p, new)
      PROVE  Inv'
  BY <1>5, ProviderStepInv
<1>6. CASE Tick
  BY <1>6, TickInv
<1>7. CASE UNCHANGED vars
  BY <1>7 DEF vars, Inv, BillingTypeOK, NewsIsTrue, RowsAreTrue, JobsAreTrue,
     JobIsTrue, Told, CheckoutIsExclusive, BatchIsTrue, LedgerIsTrue,
     NotifiedOnlyTheTruth
<1> QED  BY <1>1, <1>2, <1>3, <1>4, <1>5, <1>6, <1>7 DEF Next, NormalStep, Fault

\* The state of every process, row and listing is well formed, and what they
\* say of the provider is true, in every behaviour of apply_provider_status_payload
\* and its callers.
THEOREM BillingInvariant == Spec => []Inv
<1>1. Init => Inv                  BY InitInv
<1>2. Inv /\ [Next]_vars => Inv'   BY NextInv
<1> QED  BY <1>1, <1>2, PTL DEF Spec

\* Types are respected for every choice of the constants.
THEOREM BillingTypeCorrect == Spec => []BillingTypeOK
<1>1. Inv => BillingTypeOK  BY DEF Inv
<1> QED  BY <1>1, BillingInvariant, PTL

\* What rows, jobs and listings say of the provider is true.
THEOREM NewsAlwaysTrue == Spec => []NewsIsTrue
<1>1. Inv => NewsIsTrue  BY DEF Inv
<1> QED  BY <1>1, BillingInvariant, PTL

\* No notification (create_terminal_bot_notification) announces a result the
\* provider did not report.
THEOREM NotifiedTruth == Spec => []NotifiedOnlyTheTruth
<1>1. Inv => NotifiedOnlyTheTruth  BY DEF Inv, NewsIsTrue
<1> QED  BY <1>1, BillingInvariant, PTL

-----------------------------------------------------------------------------
(* The refinement: money and access of PaidAccess move only by its actions. *)

PromiseStep == [Promise!Next]_<<[p \in Payment |-> Money(p)], purchase>>

LEMMA PromiseInit == Init => Promise!Init
BY DEF Init, Promise!Init, Money

LEMMA PromiseStutter ==
  ASSUME UNCHANGED <<purchase, outside>>
  PROVE  PromiseStep
BY DEF PromiseStep, Money

LEMMA CreateInvoiceKeeps ==
  ASSUME Inv, NEW w \in Handler, CreateInvoice(w)
  PROVE  PromiseStep
<1> DEFINE p == job[w].pay
<1>1. p \in Payment /\ provider[p] = NoStatus /\ p \notin captured
  BY DEF Inv, BillingTypeOK, NewsIsTrue, JobsAreTrue, JobIsTrue, RowsAreTrue,
         CreateInvoice
<1>2. CASE p \in Instant
  <2>1. provider' = [provider EXCEPT ![p] = "success"] /\ captured' = captured \union {p}
    BY <1>2 DEF CreateInvoice
  <2>2. [q \in Payment |-> Money(q)]'
          = [[q \in Payment |-> Money(q)] EXCEPT ![p] = "captured"]
    BY <1>1, <2>1 DEF Money, Inv, BillingTypeOK
  <2>3. Money(p) = "unpaid" /\ UNCHANGED purchase
    BY <1>1 DEF Money, CreateInvoice
  <2>4. Promise!Capture(p)
    BY <1>1, <2>2, <2>3 DEF Promise!Capture
  <2> QED  BY <1>1, <2>4 DEF PromiseStep, Promise!Next
<1>3. CASE p \notin Instant
  <2>1. provider' = [provider EXCEPT ![p] = "invoice_created"] /\ UNCHANGED captured
    BY <1>3 DEF CreateInvoice
  <2>2. UNCHANGED <<[q \in Payment |-> Money(q)], purchase>>
    BY <1>1, <2>1 DEF Money, Inv, BillingTypeOK, CreateInvoice
  <2> QED  BY <2>2 DEF PromiseStep
<1> QED  BY <1>2, <1>3

LEMMA ApplyPurchaseKeeps ==
  ASSUME Inv, NEW w \in Worker, ApplyPurchase(w)
  PROVE  PromiseStep
<1> DEFINE p == job[w].pay
<1>1. p \in Payment /\ p \in captured
  BY DEF Inv, BillingTypeOK, NewsIsTrue, JobsAreTrue, JobIsTrue, Told, ApplyPurchase
<1>2. UNCHANGED [q \in Payment |-> Money(q)]
  BY DEF ApplyPurchase, Money
<1>3. CASE purchase[p] = "none"
  <2>1. purchase' = [purchase EXCEPT ![p] = "active"]
    BY <1>3 DEF ApplyPurchase
  <2>2. Promise!Grant(p)
    BY <1>1, <1>2, <1>3, <2>1 DEF Promise!Grant, Money
  <2> QED  BY <1>1, <2>2 DEF PromiseStep, Promise!Next
<1>4. CASE purchase[p] # "none"
  <2>1. UNCHANGED purchase
    BY <1>4 DEF ApplyPurchase, Inv, BillingTypeOK
  <2> QED  BY <1>2, <2>1 DEF PromiseStep
<1> QED  BY <1>3, <1>4

LEMMA ReversePurchaseKeeps ==
  ASSUME Inv, NEW w \in Worker, ReversePurchase(w)
  PROVE  PromiseStep
<1> DEFINE p == job[w].pay
<1>1. p \in Payment /\ p \in captured /\ provider[p] \in Returning
  BY DEF Inv, BillingTypeOK, NewsIsTrue, JobsAreTrue, JobIsTrue, Told, ReversePurchase
<1>2. UNCHANGED [q \in Payment |-> Money(q)]
  BY DEF ReversePurchase, Money
<1>3. CASE purchase[p] = "active"
  <2>1. purchase' = [purchase EXCEPT ![p] = "reversed"]
    BY <1>3 DEF ReversePurchase
  <2>2. Promise!Revoke(p)
    BY <1>1, <1>2, <1>3, <2>1 DEF Promise!Revoke, Money
  <2> QED  BY <1>1, <2>2 DEF PromiseStep, Promise!Next
<1>4. CASE purchase[p] # "active"
  <2>1. UNCHANGED purchase
    BY <1>4, <1>1 DEF ReversePurchase, Inv, BillingTypeOK
  <2> QED  BY <1>2, <2>1 DEF PromiseStep
<1> QED  BY <1>3, <1>4

LEMMA ProviderStepKeeps ==
  ASSUME Inv, NEW p \in Payment, NEW new \in Outcome, ProviderStep(p, new)
  PROVE  PromiseStep
<1>1. provider' = [provider EXCEPT ![p] = new] /\ UNCHANGED purchase
  BY DEF ProviderStep
<1>2. \A q \in Payment \ {p} : Money(q)' = Money(q)
  BY <1>1 DEF ProviderStep, Money, Inv, BillingTypeOK
<1>3. CASE Money(p)' = Money(p)
  <2>1. UNCHANGED [q \in Payment |-> Money(q)]
    BY <1>2, <1>3
  <2> QED  BY <1>1, <2>1 DEF PromiseStep
<1>4. CASE Money(p)' # Money(p)
  <2>1. \/ Money(p) = "unpaid" /\ Money(p)' = "captured"
        \/ Money(p) = "captured" /\ Money(p)' = "returned"
    BY <1>1, <1>4 DEF ProviderStep, Money, Inv, BillingTypeOK
  <2>2. [q \in Payment |-> Money(q)]'
          = [[q \in Payment |-> Money(q)] EXCEPT ![p] = Money(p)']
    BY <1>2
  <2>3. Promise!Capture(p) \/ Promise!Return(p)
    BY <1>1, <2>1, <2>2 DEF Promise!Capture, Promise!Return
  <2> QED  BY <2>3 DEF PromiseStep, Promise!Next
<1> QED  BY <1>3, <1>4

LEMMA NextKeeps == Inv /\ [Next]_vars => PromiseStep
<1> SUFFICES ASSUME Inv, [Next]_vars PROVE PromiseStep
  OBVIOUS
<1>1. CASE \E w \in Handler : CreateInvoice(w)
  BY <1>1, CreateInvoiceKeeps
<1>2. CASE \E w \in Worker : ApplyPurchase(w)
  BY <1>2, ApplyPurchaseKeeps
<1>3. CASE \E w \in Worker : ReversePurchase(w)
  BY <1>3, ReversePurchaseKeeps
<1>4. CASE \E p \in Payment, new \in Outcome : ProviderStep(p, new)
  BY <1>4, ProviderStepKeeps
<1>5. CASE \E w \in Handler, p \in Payment :
             Checkout(w, p) \/ Webhook(w, p) \/ ClientPoll(w, p)
  BY <1>5, PromiseStutter DEF Checkout, Webhook, ClientPoll
<1>6. CASE \E w \in Handler : InvoiceRefused(w) \/ MarkInvoiceCreated(w)
  BY <1>6, PromiseStutter DEF InvoiceRefused, MarkInvoiceCreated
<1>7. CASE \E w \in Worker : \/ Fetch(w) \/ FetchFails(w) \/ IgnoreStatus(w)
                             \/ WriteStatus(w) \/ NotifyCustomer(w)
                             \/ MarkRechecked(w) \/ Abort(w)
  BY <1>7, PromiseStutter
  DEF Fetch, Answered, FetchFails, IgnoreStatus, WriteStatus, NotifyCustomer,
      MarkRechecked, Abort
<1>8. CASE ReconStep \/ ReconRestarts \/ Tick \/ UNCHANGED vars
  BY <1>8, PromiseStutter
  DEF ReconStep, ListNonTerminal, ListToRecover, SkipRecovery, ListToRecheck,
      EndTick, TakeFromBatch, ReconRestarts, Tick, vars
<1> QED
  BY <1>1, <1>2, <1>3, <1>4, <1>5, <1>6, <1>7, <1>8
  DEF Next, NormalStep, Fault, WorkerStep, CheckoutStep

\* The whole billing machinery implements PaidAccess: whatever the processes
\* remember, lose or repeat (apply_provider_status_payload, the reconciliation
\* worker), access follows captured money and each half happens at most once.
THEOREM PromiseKept == Spec => KeepsPromise
<1>1. Init => Promise!Init
  BY PromiseInit
<1>2. Inv /\ [Next]_vars => [Promise!Next]_<<[p \in Payment |-> Money(p)], purchase>>
  BY NextKeeps DEF PromiseStep
<1>3. Spec => []Inv
  BY BillingInvariant
<1> QED  BY <1>1, <1>2, <1>3, PTL DEF Spec, KeepsPromise, Promise!Spec

=============================================================================

---------------------- MODULE BillingPaymentRacesProofs ----------------------
(* Where no process overtook another and none died with a result untold, the *)
(* ledger and the notifications of a payment follow its status: for every set *)
(* of payments, handlers and settings, and every interleaving.                *)
EXTENDS BillingPaymentRaces, BillingPaymentsProofs

Pending == {NoStatus, "created", "invoice_created", "processing"}
InCheckout == {"invoice", "mark"}

\* Process w is at the step pc of the procedure for payment p.
IsAt(w, pc, p) == job[w].pc = pc /\ job[w].pay = p

\* A payment has no invoice while its checkout runs, so that nobody else can
\* take it up; whoever works on a payment later finds one with an invoice.
CheckoutsAreNew ==
  /\ \A w \in Worker :
       /\ job[w].pc \in InCheckout =>
            payment[job[w].pay].status = "created" /\ ~ payment[job[w].pay].invoiced
       /\ job[w].pc \notin InCheckout \union {"idle"} => payment[job[w].pay].invoiced
  /\ \A v, w \in Worker :
       job[v].pc \in InCheckout /\ job[w].pc \in InCheckout /\ job[v].pay = job[w].pay => v = w
  /\ \A s \in batch : payment[s.pay].invoiced
  /\ \A p \in Payment :
       payment[p].status \notin {NoStatus, "created", "failure"} => payment[p].invoiced

\* The ledger follows the status, or a process on its way will make it follow.
LedgerFollows(p) ==
  /\ payment[p].status \in Pending => purchase[p] = "none"
  /\ payment[p].status = "success" =>
       \/ purchase[p] = "active"
       \/ purchase[p] = "none" /\ \E w \in Worker : IsAt(w, "apply", p)
  /\ payment[p].status \in Returning /\ purchase[p] = "active" =>
       \E w \in Worker : IsAt(w, "reverse", p)
  /\ \A w \in Worker : IsAt(w, "reverse", p) => payment[p].status \in Returning

\* The customer was told of the status, or a process on its way will tell it.
Owes(w, p, status) ==
  /\ job[w].pc \in {"apply", "reverse", "notify"} /\ job[w].pay = p
  /\ job[w].got = status /\ job[w].seen # status

Announced(p, status) ==
  \/ p \in dropped
  \/ <<p, status>> \in notified
  \/ \E w \in Worker : Owes(w, p, status)

\* Whatever is terminal in a row, or in what a process has read of it.
NewsIsAnnounced ==
  /\ \A p \in Payment :
       payment[p].invoiced /\ payment[p].status \in Terminal => Announced(p, payment[p].status)
  /\ \A w \in Worker :
       job[w].pc \in {"fetch", "write"} /\ job[w].seen \in Terminal => Announced(job[w].pay, job[w].seen)
  /\ \A s \in batch :
       phase # "recover" /\ s.seen \in Terminal => Announced(s.pay, s.seen)

RaceInv ==
  /\ CheckoutsAreNew
  /\ \A p \in Payment \ raced : LedgerFollows(p)
  /\ NewsIsAnnounced

-----------------------------------------------------------------------------
(* Steps that leave the statuses, the ledger and the notifications alone.   *)

\* What the step records of the processes it overtakes or ends.
Marks ==
  /\ raced' = raced \union {p \in Payment :
                  \E w \in Worker : job[w].pay = p /\ Overtaken(w)}
  /\ dropped' = dropped \union {p \in Payment :
                  \E w \in Worker : job[w].pay = p /\ DiedUntold(w)}

\* The turn of a process that only reads: what it takes up has an invoice, and
\* what it has read of it stands in a row or stood in a row that was listed.
Turns(w) ==
  \/ job'[w].pc = "idle"
  \/ job[w].pc = "write" /\ job'[w].pc = "recheck" /\ job'[w].pay = job[w].pay
  \/ job[w].pc = "invoice" /\ job'[w].pc = "mark" /\ job'[w].pay = job[w].pay
  \/ /\ job[w].pc = "fetch" /\ job'[w].pc = "write"
     /\ job'[w].pay = job[w].pay /\ job'[w].seen = job[w].seen
  \/ /\ job[w].pc = "idle" /\ job'[w].pc = "fetch"
     /\ job'[w].pay \in Payment /\ payment[job'[w].pay].invoiced
     /\ \/ job'[w].seen = payment[job'[w].pay].status
        \/ phase # "recover" /\ \E s \in batch : s.pay = job'[w].pay /\ s.seen = job'[w].seen
  \/ /\ job[w].pc = "idle" /\ job'[w].pc = "apply"
     /\ job'[w].pay \in Payment /\ payment[job'[w].pay].invoiced

Others(w) == \A v \in Worker \ {w} : job'[v] = job[v]

SameRows ==
  \A p \in Payment : payment'[p].status = payment[p].status /\ payment'[p].invoiced = payment[p].invoiced

Light(w) ==
  /\ SameRows /\ UNCHANGED <<purchase, notified>>
  /\ Others(w) /\ Turns(w)
  /\ batch' \subseteq batch /\ (batch' # {} => phase' = phase)

\* A list: rows with an invoice, as they are; recovery passes over what it read.
Lists ==
  /\ UNCHANGED <<payment, purchase, notified, job>>
  /\ \A s \in batch' :
       /\ s.pay \in Payment
       /\ \/ s \in batch /\ (phase' # "recover" => phase # "recover")
          \/ /\ payment[s.pay].invoiced
             /\ phase' # "recover" => s.seen = payment[s.pay].status

LEMMA Types ==
  ASSUME Inv
  PROVE  /\ job \in [Worker -> Job] /\ payment \in [Payment -> Row]
         /\ \A w \in Worker : job[w].pc # "idle" => job[w].pay \in Payment
         /\ \A w \in Worker : job[w].seen \in Status \union {NoStatus}
         /\ \A s \in batch : s.pay \in Payment
         /\ \A w \in Worker : job[w].pc \in {"write", "apply", "reverse", "notify"} => job[w].got \in Reported
         /\ \A p \in Payment : payment[p].status \in Status \union {NoStatus}
         /\ \A p \in Payment : payment[p].invoiced => payment[p].status # NoStatus
         /\ purchase \in [Payment -> {"none", "active", "reversed"}]
         /\ phase \in {"sleep", "poll", "recover", "recheck"}
  BY DEF Inv, BillingTypeOK, Job, Row, Snapshot, NewsIsTrue, JobsAreTrue, JobIsTrue, RowsAreTrue

\* A step that does not mark a payment overtook nobody on it.
LEMMA NotRaced ==
  ASSUME Marks, NEW p \in Payment \ raced'
  PROVE  p \in Payment \ raced /\ \A w \in Worker : job[w].pay = p => ~ Overtaken(w)
  BY DEF Marks

LEMMA Dropped ==
  ASSUME Marks
  PROVE  /\ dropped \subseteq dropped'
         /\ \A w \in Worker : job[w].pay \in Payment /\ DiedUntold(w) => job[w].pay \in dropped'
  BY DEF Marks

LEMMA LightCheckouts ==
  ASSUME Inv, RaceInv, NEW w \in Worker, Light(w)
  PROVE  CheckoutsAreNew'
  <1>1. CheckoutsAreNew /\ SameRows
    BY DEF RaceInv, Light
  <1>2. \A v \in Worker : job[v].pc # "idle" => job[v].pay \in Payment
    BY Types
  <1>3. \A v \in Worker :
          /\ job'[v].pc \in InCheckout => job[v].pc \in InCheckout /\ job'[v].pay = job[v].pay
          /\ job'[v].pc \notin InCheckout \union {"idle"} =>
               /\ job'[v].pay \in Payment /\ payment[job'[v].pay].invoiced
    BY <1>1, <1>2 DEF CheckoutsAreNew, Light, Turns, Others, InCheckout
  <1>4. \A v \in Worker :
          /\ job'[v].pc \in InCheckout =>
               payment'[job'[v].pay].status = "created" /\ ~ payment'[job'[v].pay].invoiced
          /\ job'[v].pc \notin InCheckout \union {"idle"} => payment'[job'[v].pay].invoiced
    BY <1>1, <1>2, <1>3 DEF CheckoutsAreNew, SameRows, InCheckout
  <1>5. \A v, u \in Worker :
          job'[v].pc \in InCheckout /\ job'[u].pc \in InCheckout /\ job'[v].pay = job'[u].pay => v = u
    BY <1>1, <1>3 DEF CheckoutsAreNew
  <1>6. \A s \in batch' : payment'[s.pay].invoiced
    BY <1>1, Types DEF CheckoutsAreNew, SameRows, Light
  <1>7. \A p \in Payment :
          payment'[p].status \notin {NoStatus, "created", "failure"} => payment'[p].invoiced
    BY <1>1 DEF CheckoutsAreNew, SameRows
  <1> QED BY <1>4, <1>5, <1>6, <1>7 DEF CheckoutsAreNew, InCheckout

\* Who gives up between status and ledger is marked.
LEMMA LightFollows ==
  ASSUME Inv, RaceInv, NEW w \in Worker, Light(w), Marks, NEW p \in Payment \ raced'
  PROVE  LedgerFollows(p)'
  <1>1. LedgerFollows(p) /\ (job[w].pay = p => ~ Overtaken(w))
    BY NotRaced DEF RaceInv
  <1>2. /\ payment'[p].status = payment[p].status /\ purchase'[p] = purchase[p]
        /\ \A v \in Worker \ {w} : job'[v] = job[v]
    BY DEF Light, SameRows, Others
  <1>3. IsAt(w, "apply", p) /\ purchase[p] = "none" => job'[w] = job[w]
    BY <1>1, <1>2 DEF IsAt, Overtaken, GaveUp, Moved
  <1>4. IsAt(w, "reverse", p) /\ purchase[p] = "active" => job'[w] = job[w]
    BY <1>1, <1>2 DEF IsAt, Overtaken, GaveUp, Moved
  <1>5. job'[w].pc = "reverse" => FALSE
    BY DEF Light, Turns
  <1>6. \A v \in Worker : IsAt(v, "apply", p) /\ purchase[p] = "none" => IsAt(v, "apply", p)'
    BY <1>2, <1>3 DEF IsAt
  <1>7. \A v \in Worker : IsAt(v, "reverse", p) /\ purchase[p] = "active" => IsAt(v, "reverse", p)'
    BY <1>2, <1>4 DEF IsAt
  <1>8. \A v \in Worker : IsAt(v, "reverse", p)' => IsAt(v, "reverse", p)
    BY <1>2, <1>5 DEF IsAt
  <1> QED BY <1>1, <1>2, <1>6, <1>7, <1>8 DEF LedgerFollows

\* What is announced stays so: who ends without telling is marked.
LEMMA LightAnnounced ==
  ASSUME Inv, NEW w \in Worker, Light(w), Marks, NEW p, NEW status, Announced(p, status)
  PROVE  Announced(p, status)'
  <1>1. /\ dropped \subseteq dropped' /\ notified' = notified
        /\ \A v \in Worker \ {w} : job'[v] = job[v]
    BY Dropped DEF Light, Others
  <1>2. ASSUME Owes(w, p, status)
        PROVE  p \in dropped' \/ <<p, status>> \in notified
    <2>1. job'[w].pc = "idle"
      BY <1>2 DEF Owes, Light, Turns
    <2>2. <<p, status>> \in notified \/ DiedUntold(w)
      BY <1>1, <1>2, <2>1 DEF Owes, DiedUntold
    <2>3. job[w].pay = p /\ p \in Payment
      BY <1>2, Types DEF Owes
    <2> QED BY <2>2, <2>3, Dropped
  <1>3. ASSUME NEW v \in Worker \ {w}, Owes(v, p, status)
        PROVE  Owes(v, p, status)'
    BY <1>1, <1>3 DEF Owes
  <1> QED BY <1>1, <1>2, <1>3 DEF Announced

LEMMA LightNews ==
  ASSUME Inv, RaceInv, NEW w \in Worker, Light(w), Marks
  PROVE  NewsIsAnnounced'
  <1>1. NewsIsAnnounced /\ SameRows /\ Others(w)
    BY DEF RaceInv, Light
  <1>2. ASSUME NEW p \in Payment, payment'[p].invoiced, payment'[p].status \in Terminal
        PROVE  Announced(p, payment[p].status)' /\ payment'[p].status = payment[p].status
    BY <1>1, <1>2, LightAnnounced DEF NewsIsAnnounced, SameRows
  <1>3. ASSUME NEW v \in Worker, job'[v].pc \in {"fetch", "write"}, job'[v].seen \in Terminal
        PROVE  Announced(job'[v].pay, job'[v].seen)
    <2>1. CASE job[v].pc \in {"fetch", "write"} /\ job'[v].pay = job[v].pay /\ job'[v].seen = job[v].seen
      BY <1>1, <1>3, <2>1 DEF NewsIsAnnounced
    <2>2. CASE /\ job'[v].pay \in Payment /\ payment[job'[v].pay].invoiced
               /\ job'[v].seen = payment[job'[v].pay].status
      BY <1>1, <1>3, <2>2 DEF NewsIsAnnounced
    <2>3. CASE phase # "recover" /\ \E s \in batch : s.pay = job'[v].pay /\ s.seen = job'[v].seen
      BY <1>1, <1>3, <2>3 DEF NewsIsAnnounced
    <2> QED BY <1>1, <1>3, <2>1, <2>2, <2>3 DEF Others, Light, Turns
  <1>4. ASSUME NEW s \in batch', phase' # "recover", s.seen \in Terminal
        PROVE  Announced(s.pay, s.seen)
    BY <1>1, <1>4 DEF NewsIsAnnounced, Light
  <1> QED BY <1>2, <1>3, <1>4, LightAnnounced DEF NewsIsAnnounced

\* A list goes through whole: the rows are as they were.
LEMMA ListsKeep ==
  ASSUME Inv, RaceInv, Lists, Marks
  PROVE  RaceInv'
  <1>1. CheckoutsAreNew'
    BY DEF RaceInv, Lists, CheckoutsAreNew
  <1>2. ASSUME NEW p \in Payment \ raced'
        PROVE  LedgerFollows(p)'
    <2>1. LedgerFollows(p)
      BY NotRaced DEF RaceInv
    <2> QED BY <2>1 DEF Lists, LedgerFollows, IsAt
  <1>3. \A p, status : Announced(p, status) => Announced(p, status)'
    BY Dropped DEF Lists, Announced, Owes
  <1>4. NewsIsAnnounced'
    <2>1. ASSUME NEW s \in batch', phase' # "recover", s.seen \in Terminal
          PROVE  Announced(s.pay, s.seen)
      BY <2>1 DEF RaceInv, NewsIsAnnounced, Lists
    <2>2. /\ \A p \in Payment :
               payment'[p].invoiced /\ payment'[p].status \in Terminal => Announced(p, payment'[p].status)
          /\ \A w \in Worker : job'[w].pc \in {"fetch", "write"} /\ job'[w].seen \in Terminal =>
               Announced(job'[w].pay, job'[w].seen)
      BY DEF RaceInv, NewsIsAnnounced, Lists
    <2> QED BY <1>3, <2>1, <2>2 DEF NewsIsAnnounced
  <1> QED BY <1>1, <1>2, <1>4 DEF RaceInv

LEMMA LightKeeps ==
  ASSUME Inv, RaceInv, NEW w \in Worker, Light(w), Marks
  PROVE  RaceInv'
  BY LightCheckouts, LightFollows, LightNews DEF RaceInv

\* What a step makes of the process that takes it.
LEMMA Moves ==
  ASSUME Inv, NEW w \in Worker, NEW j, job' = [job EXCEPT ![w] = j]
  PROVE  job'[w] = j /\ Others(w)
  BY Types DEF Others

LEMMA Goes ==
  ASSUME Inv, NEW w \in Worker, NEW pc, Goto(w, pc)
  PROVE  /\ job'[w].pc = pc /\ job'[w].pay = job[w].pay
         /\ job'[w].seen = job[w].seen /\ job'[w].got = job[w].got
         /\ Others(w)
  <1> DEFINE j == [job[w] EXCEPT !.pc = pc]
  <1>1. job[w] \in Job
    BY Types
  <1>2. job' = [job EXCEPT ![w] = j]
    BY DEF Goto
  <1>3. job'[w] = j /\ Others(w)
    BY <1>2, Moves
  <1> QED BY <1>1, <1>3 DEF Job

LEMMA Rests ==
  ASSUME Inv, NEW w \in Worker, Idle(w)
  PROVE  job'[w].pc = "idle" /\ Others(w)
  <1>1. job'[w] = NoJob /\ Others(w)
    BY Moves DEF Idle
  <1> QED BY <1>1 DEF NoJob

LEMMA Polled ==
  ASSUME Inv, NEW w \in Worker, AfterPoll(w)
  PROVE  /\ job'[w].pc \in {"idle", "recheck"} /\ Others(w)
         /\ job'[w].pc = "recheck" => job'[w].pay = job[w].pay
  BY Rests, Goes DEF AfterPoll

LEMMA Begins ==
  ASSUME Inv, NEW w \in Worker, NEW pc, NEW p, NEW seen, NEW got, Begin(w, pc, p, seen, got)
  PROVE  job'[w].pc = pc /\ job'[w].pay = p /\ job'[w].seen = seen /\ job'[w].got = got /\ Others(w)
  <1> DEFINE j == [pc |-> pc, pay |-> p, seen |-> seen, got |-> got]
  <1>1. job' = [job EXCEPT ![w] = j]
    BY DEF Begin
  <1>2. job'[w] = j /\ Others(w)
    BY <1>1, Moves
  <1> QED BY <1>2

LEMMA SameRowsNow ==
  ASSUME UNCHANGED payment
  PROVE  SameRows
  BY DEF SameRows

LEMMA ListingLists ==
  ASSUME Inv, RaceInv,
         \/ ListNonTerminal \/ ListToRecover \/ SkipRecovery \/ ListToRecheck \/ EndTick
         \/ Tick \/ \E p \in Payment, new \in Outcome : ProviderStep(p, new)
  PROVE  Lists
  <1>1. \A s \in batch : s.pay \in Payment
    BY Types
  <1>2. CASE SkipRecovery \/ EndTick
    BY <1>2 DEF SkipRecovery, EndTick, Lists, db
  <1>3. CASE Tick \/ \E p \in Payment, new \in Outcome : ProviderStep(p, new)
    BY <1>1, <1>3 DEF Tick, ProviderStep, Lists, db, worklist
  <1>4. ASSUME NEW P \in SUBSET Payment, batch' = SnapshotOf(P), UNCHANGED <<db, job>>,
               \A p \in P : payment[p].invoiced
        PROVE  Lists
    BY <1>4 DEF Lists, SnapshotOf, db
  <1>5. CASE ListNonTerminal
    <2>1. NonTerminal \subseteq Payment /\ \A p \in NonTerminal : payment[p].invoiced
      BY DEF NonTerminal
    <2> QED BY <1>4, <1>5, <2>1 DEF ListNonTerminal
  <1>6. CASE ListToRecover
    <2>1. ToRecover \subseteq Payment /\ \A p \in ToRecover : payment[p].invoiced
      BY NoStatusAssumption DEF ToRecover, RaceInv, CheckoutsAreNew, Status, Terminal
    <2> QED BY <1>4, <1>6, <2>1 DEF ListToRecover
  <1>7. CASE ListToRecheck
    <2>1. DueForRecheck \subseteq Payment /\ \A p \in DueForRecheck : payment[p].invoiced
      BY DEF DueForRecheck
    <2> QED BY <1>4, <1>7, <2>1 DEF ListToRecheck
  <1> QED BY <1>2, <1>3, <1>5, <1>6, <1>7

LEMMA GivingUpIsLight ==
  ASSUME Inv, NEW w \in Worker, FetchFails(w) \/ IgnoreStatus(w) \/ Abort(w)
  PROVE  Light(w)
  <1>1. UNCHANGED <<payment, purchase, notified, batch, phase>>
    BY DEF FetchFails, IgnoreStatus, Abort, db, worklist
  <1>2. Others(w) /\ Turns(w)
    BY Rests, Polled DEF FetchFails, IgnoreStatus, Abort, Turns
  <1> QED BY <1>1, <1>2, SameRowsNow DEF Light

LEMMA TakingUpIsLight ==
  ASSUME Inv, RaceInv, NEW w \in Handler, NEW p \in Payment, Webhook(w, p) \/ ClientPoll(w, p)
  PROVE  Light(w)
  <1>1. UNCHANGED <<payment, purchase, notified, batch, phase>> /\ w \in Worker
    BY DEF Webhook, ClientPoll, db, worklist, Worker
  <1>2. /\ job[w].pc = "idle" /\ payment[p].invoiced
        /\ Begin(w, "fetch", p, payment[p].status, NoStatus)
    BY DEF Webhook, ClientPoll
  <1>3. job'[w].pc = "fetch" /\ job'[w].pay = p /\ job'[w].seen = payment[p].status /\ Others(w)
    BY <1>1, <1>2, Begins
  <1>4. Turns(w)
    BY <1>2, <1>3 DEF Turns
  <1> QED BY <1>1, <1>3, <1>4, SameRowsNow DEF Light

LEMMA FetchIsLight ==
  ASSUME Inv, NEW w \in Worker, Fetch(w)
  PROVE  Light(w)
  <1>1. UNCHANGED <<payment, purchase, notified, batch, phase>> /\ job[w].pc = "fetch"
    BY DEF Fetch, Answered, db, worklist
  <1>2. PICK got : job' = [job EXCEPT ![w].pc = "write", ![w].got = got]
    BY DEF Fetch, Answered
  <1> DEFINE j == [job[w] EXCEPT !.pc = "write", !.got = got]
  <1>3. job[w] \in Job /\ job' = [job EXCEPT ![w] = j]
    BY <1>2, Types
  <1>4. job'[w] = j /\ Others(w)
    BY <1>3, Moves
  <1>5. j.pc = "write" /\ j.pay = job[w].pay /\ j.seen = job[w].seen
    BY <1>3 DEF Job
  <1>6. Turns(w)
    BY <1>1, <1>4, <1>5 DEF Turns
  <1> QED BY <1>1, <1>4, <1>6, SameRowsNow DEF Light

LEMMA CreateInvoiceIsLight ==
  ASSUME Inv, NEW w \in Handler, CreateInvoice(w)
  PROVE  Light(w)
  <1>1. UNCHANGED <<payment, purchase, notified, batch, phase>> /\ job[w].pc = "invoice" /\ w \in Worker
    BY DEF CreateInvoice, db, worklist, Worker
  <1>2. job'[w].pc = "mark" /\ job'[w].pay = job[w].pay /\ Others(w)
    BY <1>1, Goes DEF CreateInvoice
  <1>3. Turns(w)
    BY <1>1, <1>2 DEF Turns
  <1> QED BY <1>1, <1>2, <1>3, SameRowsNow DEF Light

LEMMA MarkRecheckedIsLight ==
  ASSUME Inv, NEW w \in Worker, MarkRechecked(w)
  PROVE  Light(w)
  <1>1. UNCHANGED <<purchase, notified, batch, phase>> /\ Others(w) /\ Turns(w)
    BY Rests DEF MarkRechecked, worklist, Turns
  <1>2. SameRows
    <2>1. payment \in [Payment -> Row]
      BY Types
    <2>2. payment' = [payment EXCEPT ![job[w].pay].rechecked = clock]
      BY DEF MarkRechecked
    <2> QED BY <2>1, <2>2 DEF SameRows, Row
  <1> QED BY <1>1, <1>2 DEF Light

LEMMA TakeFromBatchIsLight ==
  ASSUME Inv, RaceInv, NEW s \in batch, TakeFromBatch(s)
  PROVE  Light(Recon)
  <1>1. /\ UNCHANGED <<payment, purchase, notified, phase>> /\ batch' \subseteq batch
        /\ job[Recon].pc = "idle" /\ Recon \in Worker
    BY DEF TakeFromBatch, ReconFree, db, Worker
  <1>2. s.pay \in Payment /\ payment[s.pay].invoiced
    BY Types DEF RaceInv, CheckoutsAreNew
  <1>3. CASE phase = "recover"
    <2>1. Begin(Recon, "apply", s.pay, "success", "success")
      BY <1>3 DEF TakeFromBatch
    <2>2. job'[Recon].pc = "apply" /\ job'[Recon].pay = s.pay /\ Others(Recon)
      BY <1>1, <2>1, Begins
    <2>3. Turns(Recon)
      BY <1>1, <1>2, <2>2 DEF Turns
    <2> QED BY <1>1, <2>2, <2>3, SameRowsNow DEF Light
  <1>4. CASE phase # "recover"
    <2>1. Begin(Recon, "fetch", s.pay, s.seen, NoStatus)
      BY <1>4 DEF TakeFromBatch
    <2>2. job'[Recon].pc = "fetch" /\ job'[Recon].pay = s.pay /\ job'[Recon].seen = s.seen /\ Others(Recon)
      BY <1>1, <2>1, Begins
    <2>3. Turns(Recon)
      BY <1>1, <1>2, <1>4, <2>2 DEF Turns
    <2> QED BY <1>1, <2>2, <2>3, SameRowsNow DEF Light
  <1> QED BY <1>3, <1>4

LEMMA ReconRestartsIsLight ==
  ASSUME Inv, ReconRestarts
  PROVE  Light(Recon)
  <1>1. UNCHANGED <<payment, purchase, notified>> /\ batch' = {} /\ Recon \in Worker
    BY DEF ReconRestarts, db, Worker
  <1>2. Others(Recon) /\ Turns(Recon)
    BY <1>1, Rests DEF ReconRestarts, Turns
  <1> QED BY <1>1, <1>2, SameRowsNow DEF Light

-----------------------------------------------------------------------------
(* Steps of a checkout.                                                     *)

LEMMA AnnouncedStays ==
  ASSUME NEW w \in Worker, Others(w), notified \subseteq notified', dropped \subseteq dropped',
         NEW p, NEW status, Announced(p, status),
         Owes(w, p, status) => Owes(w, p, status)' \/ <<p, status>> \in notified'
  PROVE  Announced(p, status)'
  BY DEF Announced, Others, Owes

\* The row of a payment without an invoice changes, under its own checkout.
Registers(w, p) ==
  /\ ~ payment[p].invoiced
  /\ \/ job[w].pc = "idle" /\ payment[p].status = NoStatus
     \/ job[w].pc \in InCheckout /\ job[w].pay = p /\ payment[p].status = "created"
  /\ \A q \in Payment \ {p} : payment'[q].status = payment[q].status /\ payment'[q].invoiced = payment[q].invoiced
  /\ \/ payment'[p].status = "created" /\ ~ payment'[p].invoiced /\ job'[w].pc = "invoice" /\ job'[w].pay = p
     \/ payment'[p].status = "failure" /\ ~ payment'[p].invoiced /\ job'[w].pc = "idle"
     \/ /\ payment'[p].status = "invoice_created" /\ payment'[p].invoiced
        /\ \/ job'[w].pc = "idle"
           \/ job'[w].pc = "fetch" /\ job'[w].pay = p /\ job'[w].seen = "invoice_created"
  /\ UNCHANGED <<purchase, notified, batch, phase>> /\ Others(w)

LEMMA RegistersAlone ==
  ASSUME Inv, RaceInv, NEW w \in Worker, NEW p \in Payment, Registers(w, p)
  PROVE  /\ \A v \in Worker \ {w} : job[v].pc # "idle" => job[v].pay # p
         /\ \A s \in batch : s.pay # p
  <1>1. ASSUME NEW v \in Worker \ {w}, job[v].pc # "idle", job[v].pay = p
        PROVE  FALSE
    <2>1. job[v].pc \in InCheckout /\ payment[p].status = "created"
      BY <1>1 DEF Registers, RaceInv, CheckoutsAreNew
    <2>2. job[w].pc \in InCheckout /\ job[w].pay = p
      BY <2>1, NoStatusAssumption DEF Registers, Status
    <2> QED BY <1>1, <2>1, <2>2 DEF RaceInv, CheckoutsAreNew
  <1> QED BY <1>1 DEF Registers, RaceInv, CheckoutsAreNew

LEMMA RegistersKeeps ==
  ASSUME Inv, RaceInv, NEW w \in Worker, NEW p \in Payment, Registers(w, p), Marks
  PROVE  RaceInv'
  <1>1. /\ \A v \in Worker \ {w} : job[v].pc # "idle" => job[v].pay # p /\ job[v].pay \in Payment
        /\ \A s \in batch : s.pay # p /\ s.pay \in Payment
        /\ \A v \in Worker \ {w} : job'[v] = job[v]
    BY RegistersAlone, Types DEF Registers, Others
  <1>2. CheckoutsAreNew'
    <2>1. \A v \in Worker :
            /\ job'[v].pc \in InCheckout =>
                 payment'[job'[v].pay].status = "created" /\ ~ payment'[job'[v].pay].invoiced
            /\ job'[v].pc \notin InCheckout \union {"idle"} => payment'[job'[v].pay].invoiced
      BY <1>1 DEF Registers, RaceInv, CheckoutsAreNew, InCheckout
    <2>2. \A v, u \in Worker :
            job'[v].pc \in InCheckout /\ job'[u].pc \in InCheckout /\ job'[v].pay = job'[u].pay => v = u
      BY <1>1 DEF Registers, RaceInv, CheckoutsAreNew, InCheckout
    <2>3. \A s \in batch' : payment'[s.pay].invoiced
      BY <1>1 DEF Registers, RaceInv, CheckoutsAreNew
    <2>4. \A q \in Payment :
            payment'[q].status \notin {NoStatus, "created", "failure"} => payment'[q].invoiced
      BY DEF Registers, RaceInv, CheckoutsAreNew
    <2> QED BY <2>1, <2>2, <2>3, <2>4 DEF CheckoutsAreNew, InCheckout
  <1>3. ASSUME NEW q \in Payment \ raced'
        PROVE  LedgerFollows(q)'
    <2>1. LedgerFollows(q) /\ purchase' = purchase
      BY NotRaced DEF RaceInv, Registers
    <2>2. \A v \in Worker : (IsAt(v, "apply", q)' <=> IsAt(v, "apply", q))
                            /\ (IsAt(v, "reverse", q)' <=> IsAt(v, "reverse", q))
      BY <1>1 DEF IsAt, Registers, InCheckout
    <2>3. CASE q # p
      <3>1. payment'[q].status = payment[q].status
        BY <2>3 DEF Registers
      <3> QED BY <2>1, <2>2, <3>1 DEF LedgerFollows
    <2>4. CASE q = p
      <3>1. payment[p].status \in Pending /\ purchase[p] = "none"
        BY <2>1, <2>4 DEF LedgerFollows, Registers, Pending
      <3>2. payment'[p].status \in {"created", "failure", "invoice_created"}
        BY DEF Registers
      <3>3. \A v \in Worker : ~ IsAt(v, "reverse", q)
        BY <1>1, <2>4 DEF IsAt, Registers, InCheckout
      <3> QED BY <2>1, <2>2, <2>4, <3>1, <3>2, <3>3 DEF LedgerFollows, Returning
    <2> QED BY <2>3, <2>4
  <1>4. \A q, status : Announced(q, status) => Announced(q, status)'
    <2>1. \A q, status : ~ Owes(w, q, status)
      BY DEF Owes, Registers, InCheckout
    <2>2. Others(w) /\ notified \subseteq notified' /\ dropped \subseteq dropped'
      BY Dropped DEF Registers
    <2> QED BY <2>1, <2>2, AnnouncedStays
  <1>5. NewsIsAnnounced'
    <2>1. ASSUME NEW q \in Payment, payment'[q].invoiced, payment'[q].status \in Terminal
          PROVE  Announced(q, payment'[q].status)
      BY <2>1 DEF Registers, RaceInv, NewsIsAnnounced, Terminal, Returning
    <2>2. ASSUME NEW v \in Worker, job'[v].pc \in {"fetch", "write"}, job'[v].seen \in Terminal
          PROVE  Announced(job'[v].pay, job'[v].seen)
      BY <1>1, <2>2 DEF Registers, RaceInv, NewsIsAnnounced, Terminal, Returning
    <2>3. ASSUME NEW s \in batch', phase' # "recover", s.seen \in Terminal
          PROVE  Announced(s.pay, s.seen)
      BY <2>3 DEF Registers, RaceInv, NewsIsAnnounced
    <2> QED BY <1>4, <2>1, <2>2, <2>3 DEF NewsIsAnnounced
  <1> QED BY <1>2, <1>3, <1>5 DEF RaceInv

LEMMA CheckoutRegisters ==
  ASSUME Inv, NEW w \in Handler, NEW p \in Payment, Checkout(w, p)
  PROVE  Registers(w, p)
  <1>1. w \in Worker /\ payment \in [Payment -> Row] /\ ~ payment[p].invoiced
    BY Types DEF Worker, Checkout
  <1>2. UNCHANGED <<purchase, notified, batch, phase>> /\ payment[p].status = NoStatus /\ job[w].pc = "idle"
    BY DEF Checkout, worklist
  <1>3. job'[w].pc = "invoice" /\ job'[w].pay = p /\ Others(w)
    BY <1>1, Begins DEF Checkout
  <1>4. payment' = [payment EXCEPT ![p].status = "created"]
    BY DEF Checkout
  <1>5. payment'[p].status = "created" /\ payment'[p].invoiced = payment[p].invoiced
        /\ \A q \in Payment \ {p} : payment'[q] = payment[q]
    BY <1>1, <1>4 DEF Row
  <1> QED BY <1>1, <1>2, <1>3, <1>5 DEF Registers

LEMMA InvoiceRefusedRegisters ==
  ASSUME Inv, RaceInv, NEW w \in Handler, InvoiceRefused(w)
  PROVE  job[w].pay \in Payment /\ Registers(w, job[w].pay)
  <1> DEFINE p == job[w].pay
  <1>1. w \in Worker /\ payment \in [Payment -> Row] /\ job[w].pc = "invoice"
    BY Types DEF Worker, InvoiceRefused
  <1>2. p \in Payment /\ payment[p].status = "created" /\ ~ payment[p].invoiced
    BY <1>1, Types DEF RaceInv, CheckoutsAreNew, InCheckout
  <1>3. UNCHANGED <<purchase, notified, batch, phase>>
    BY DEF InvoiceRefused, worklist
  <1>4. job'[w].pc = "idle" /\ Others(w)
    BY <1>1, Rests DEF InvoiceRefused
  <1>5. payment' = [payment EXCEPT ![p].status = "failure"]
    BY DEF InvoiceRefused
  <1>6. payment'[p].status = "failure" /\ payment'[p].invoiced = payment[p].invoiced
        /\ \A q \in Payment \ {p} : payment'[q] = payment[q]
    BY <1>1, <1>2, <1>5 DEF Row
  <1> QED BY <1>1, <1>2, <1>3, <1>4, <1>6 DEF Registers, InCheckout

LEMMA MarkInvoiceCreatedRegisters ==
  ASSUME Inv, RaceInv, NEW w \in Handler, MarkInvoiceCreated(w)
  PROVE  job[w].pay \in Payment /\ Registers(w, job[w].pay)
  <1> DEFINE p == job[w].pay
  <1>1. w \in Worker /\ payment \in [Payment -> Row] /\ job[w].pc = "mark"
    BY Types DEF Worker, MarkInvoiceCreated
  <1>2. p \in Payment /\ payment[p].status = "created" /\ ~ payment[p].invoiced
    BY <1>1, Types DEF RaceInv, CheckoutsAreNew, InCheckout
  <1>3. UNCHANGED <<purchase, notified, batch, phase>>
    BY DEF MarkInvoiceCreated, worklist
  <1>4. /\ Others(w)
        /\ \/ job'[w].pc = "idle"
           \/ job'[w].pc = "fetch" /\ job'[w].pay = p /\ job'[w].seen = "invoice_created"
    BY <1>1, Rests, Begins DEF MarkInvoiceCreated
  <1>5. payment' = [payment EXCEPT ![p].status = "invoice_created", ![p].invoiced = TRUE]
    BY DEF MarkInvoiceCreated
  <1>6. payment'[p].status = "invoice_created" /\ payment'[p].invoiced
        /\ \A q \in Payment \ {p} : payment'[q] = payment[q]
    BY <1>1, <1>2, <1>5 DEF Row
  <1> QED BY <1>1, <1>2, <1>3, <1>4, <1>6 DEF Registers, InCheckout

-----------------------------------------------------------------------------
(* A status and its effects.                                                *)

LEMMA Effects ==
  ASSUME NEW seen, NEW got \in Reported
  PROVE  /\ got = "success" /\ seen # "success" => FirstEffect(seen, got) = "apply"
         /\ got \in Returning /\ seen = "success" => FirstEffect(seen, got) = "reverse"
         /\ got \in Returning /\ seen # "success" /\ seen # got => FirstEffect(seen, got) = "notify"
         /\ seen = got \/ got \notin Terminal => FirstEffect(seen, got) = "idle"
         /\ FirstEffect(seen, got) \in {"apply", "reverse", "notify", "idle"}
         /\ got \in Terminal /\ seen # got => FirstEffect(seen, got) # "idle"
  BY DEF FirstEffect, Terminal, Returning

\* The process that writes a status it was told.
Writes(w, p, seen, got) ==
  /\ job[w].pc = "write" /\ job[w].pay = p /\ job[w].seen = seen
  /\ p \in Payment /\ got \in Reported /\ seen \in Status \union {NoStatus}
  /\ ~ ShouldIgnore(seen, got)
  /\ payment'[p].status = got /\ payment'[p].invoiced = payment[p].invoiced
  /\ \A q \in Payment \ {p} : payment'[q].status = payment[q].status /\ payment'[q].invoiced = payment[q].invoiced
  /\ UNCHANGED <<purchase, notified, batch, phase>> /\ Others(w)
  /\ \/ /\ FirstEffect(seen, got) = "idle" /\ job'[w].pc \in {"idle", "recheck"}
        /\ job'[w].pc = "recheck" => job'[w].pay = p
     \/ /\ FirstEffect(seen, got) # "idle" /\ job'[w].pc = FirstEffect(seen, got)
        /\ job'[w].pay = p /\ job'[w].seen = seen /\ job'[w].got = got

LEMMA WriteStatusWrites ==
  ASSUME Inv, NEW w \in Worker, WriteStatus(w)
  PROVE  Writes(w, job[w].pay, job[w].seen, job[w].got)
  <1> DEFINE p == job[w].pay
             got == job[w].got
             seen == job[w].seen
  <1>1. /\ job[w].pc = "write" /\ p \in Payment /\ got \in Reported /\ seen \in Status \union {NoStatus}
        /\ payment \in [Payment -> Row] /\ ~ ShouldIgnore(seen, got)
    BY Types DEF WriteStatus
  <1>2. payment' = [payment EXCEPT ![p].status = got, ![p].paidAt = PaidAt(p, got)]
    BY DEF WriteStatus
  <1>3. /\ payment'[p].status = got /\ payment'[p].invoiced = payment[p].invoiced
        /\ \A q \in Payment \ {p} : payment'[q] = payment[q]
    BY <1>1, <1>2 DEF Row
  <1>4. UNCHANGED <<purchase, notified, batch, phase>>
    BY DEF WriteStatus, worklist
  <1>5. IF FirstEffect(seen, got) = "idle" THEN AfterPoll(w) ELSE Goto(w, FirstEffect(seen, got))
    BY DEF WriteStatus
  <1>6. CASE FirstEffect(seen, got) = "idle"
    BY <1>1, <1>3, <1>4, <1>5, <1>6, Polled DEF Writes
  <1>7. CASE FirstEffect(seen, got) # "idle"
    BY <1>1, <1>3, <1>4, <1>5, <1>7, Goes DEF Writes
  <1> QED BY <1>6, <1>7

LEMMA WritesCheckouts ==
  ASSUME Inv, RaceInv, NEW w \in Worker, NEW p, NEW seen, NEW got, Writes(w, p, seen, got)
  PROVE  CheckoutsAreNew'
  <1>1. /\ payment[p].invoiced /\ p \in Payment
        /\ \A q \in Payment : payment'[q].invoiced = payment[q].invoiced
        /\ \A q \in Payment \ {p} : payment'[q].status = payment[q].status
        /\ \A v \in Worker \ {w} : job'[v] = job[v]
    BY DEF Writes, RaceInv, CheckoutsAreNew, InCheckout, Others
  <1>2. \A v \in Worker : job[v].pc # "idle" => job[v].pay \in Payment
    BY Types
  <1>3. job'[w].pc \notin InCheckout /\ (job'[w].pc # "idle" => job'[w].pay = p)
    BY Effects DEF Writes, InCheckout
  <1>4. \A v \in Worker :
          /\ job'[v].pc \in InCheckout =>
               payment'[job'[v].pay].status = "created" /\ ~ payment'[job'[v].pay].invoiced
          /\ job'[v].pc \notin InCheckout \union {"idle"} => payment'[job'[v].pay].invoiced
    BY <1>1, <1>2, <1>3 DEF RaceInv, CheckoutsAreNew, InCheckout
  <1>5. \A v, u \in Worker :
          job'[v].pc \in InCheckout /\ job'[u].pc \in InCheckout /\ job'[v].pay = job'[u].pay => v = u
    BY <1>1, <1>3 DEF RaceInv, CheckoutsAreNew
  <1>6. \A s \in batch' : payment'[s.pay].invoiced
    BY <1>1, Types DEF Writes, RaceInv, CheckoutsAreNew
  <1>7. \A q \in Payment :
          payment'[q].status \notin {NoStatus, "created", "failure"} => payment'[q].invoiced
    BY <1>1 DEF RaceInv, CheckoutsAreNew
  <1> QED BY <1>4, <1>5, <1>6, <1>7 DEF CheckoutsAreNew, InCheckout

LEMMA WritesFollows ==
  ASSUME Inv, RaceInv, NEW w \in Worker, NEW p, NEW seen, NEW got, Writes(w, p, seen, got), Marks,
         NEW q \in Payment \ raced'
  PROVE  LedgerFollows(q)'
  <1>1. LedgerFollows(q) /\ (job[w].pay = q => ~ Overtaken(w)) /\ purchase' = purchase
    BY NotRaced DEF RaceInv, Writes
  <1>2. \A v \in Worker \ {w} : (IsAt(v, "apply", q)' <=> IsAt(v, "apply", q))
                                /\ (IsAt(v, "reverse", q)' <=> IsAt(v, "reverse", q))
    BY DEF IsAt, Writes, Others
  <1>3. ~ IsAt(w, "apply", q) /\ ~ IsAt(w, "reverse", q)
    BY DEF IsAt, Writes
  <1>4. CASE q # p
    <2>1. ~ IsAt(w, "apply", q)' /\ ~ IsAt(w, "reverse", q)'
      BY <1>4, Effects DEF IsAt, Writes
    <2>2. payment'[q].status = payment[q].status
      BY <1>4 DEF Writes
    <2> QED BY <1>1, <1>2, <1>3, <2>1, <2>2 DEF LedgerFollows
  <1>5. CASE q = p
    <2>1. seen = payment[p].status
      <3>1. job'[w] # job[w]
        BY Effects DEF Writes
      <3> QED BY <1>1, <1>5, <3>1 DEF Overtaken, WroteStale, Moved, Writes
    <2>2. /\ payment'[p].status = got /\ got \in Reported /\ ~ ShouldIgnore(seen, got)
          /\ seen \in Status \union {NoStatus}
      BY DEF Writes
    <2>3. CASE got \notin Terminal
      <3>1. got \in Pending /\ seen \in Pending
        BY <2>2, <2>3 DEF ShouldIgnore, Pending, Reported, Status, Terminal, Returning
      <3>2. purchase[p] = "none" /\ payment[p].status \notin Returning
        BY <1>1, <1>5, <2>1, <3>1, NoStatusAssumption DEF LedgerFollows, Pending, Returning, Status, Terminal
      <3>3. ~ IsAt(w, "reverse", q)'
        BY <2>3, Effects DEF IsAt, Writes
      <3>4. \A v \in Worker : ~ IsAt(v, "reverse", q)'
        BY <1>1, <1>2, <1>5, <3>2, <3>3 DEF LedgerFollows
      <3>5. got # "success" /\ got \notin Returning
        BY <2>3 DEF Terminal
      <3> QED BY <1>1, <1>5, <2>2, <3>2, <3>4, <3>5 DEF LedgerFollows
    <2>4. CASE got = "success"
      <3>1. got \notin Pending /\ got \notin Returning /\ seen \notin Returning
        BY <2>2, <2>4, NoStatusAssumption DEF ShouldIgnore, Pending, Returning, Status, Terminal
      <3>2. \A v \in Worker \ {w} : ~ IsAt(v, "reverse", q)'
        BY <1>1, <1>2, <1>5, <2>1, <3>1 DEF LedgerFollows
      <3>3. ~ IsAt(w, "reverse", q)'
        BY <2>4, Effects DEF IsAt, Writes
      <3>4. CASE seen = "success"
        <4>1. \/ purchase[p] = "active"
              \/ purchase[p] = "none" /\ \E v \in Worker : IsAt(v, "apply", q)'
          BY <1>1, <1>2, <1>3, <1>5, <2>1, <3>4 DEF LedgerFollows
        <4> QED BY <1>1, <1>5, <2>2, <3>1, <3>2, <3>3, <4>1 DEF LedgerFollows
      <3>5. CASE seen # "success"
        <4>1. seen \in Pending
          BY <2>2, <3>1, <3>5 DEF Pending, Status, Terminal, Returning
        <4>2. purchase[p] = "none"
          BY <1>1, <1>5, <2>1, <4>1 DEF LedgerFollows
        <4>3. IsAt(w, "apply", q)'
          BY <1>5, <2>4, <3>5, Effects DEF IsAt, Writes
        <4> QED BY <1>1, <1>5, <2>2, <3>1, <3>2, <3>3, <4>2, <4>3 DEF LedgerFollows
      <3> QED BY <3>4, <3>5
    <2>5. CASE got \in Returning
      <3>1. got \notin Pending /\ got # "success"
        BY <2>2, <2>5, NoStatusAssumption DEF Pending, Returning, Status, Terminal
      <3>2. purchase[p] = "active" => \E v \in Worker : IsAt(v, "reverse", q)'
        <4>1. CASE seen = "success"
          BY <1>5, <2>5, <4>1, Effects DEF IsAt, Writes
        <4>2. CASE seen \in Returning
          BY <1>1, <1>2, <1>3, <1>5, <2>1, <4>2 DEF LedgerFollows
        <4>3. CASE seen \notin Returning /\ seen # "success"
          <5>1. seen \in Pending
            BY <2>2, <4>3 DEF Pending, Status, Terminal, Returning
          <5> QED BY <1>1, <1>5, <2>1, <5>1 DEF LedgerFollows
        <4> QED BY <4>1, <4>2, <4>3
      <3> QED BY <1>1, <1>5, <2>2, <2>5, <3>1, <3>2 DEF LedgerFollows
    <2> QED BY <2>2, <2>3, <2>4, <2>5 DEF Terminal
  <1> QED BY <1>4, <1>5

LEMMA WritesNews ==
  ASSUME Inv, RaceInv, NEW w \in Worker, NEW p, NEW seen, NEW got, Writes(w, p, seen, got), Marks
  PROVE  NewsIsAnnounced'
  <1>1. \A q, status : Announced(q, status) => Announced(q, status)'
    <2>1. \A q, status : ~ Owes(w, q, status)
      BY DEF Owes, Writes
    <2>2. Others(w) /\ notified \subseteq notified' /\ dropped \subseteq dropped'
      BY Dropped DEF Writes
    <2> QED BY <2>1, <2>2, AnnouncedStays
  <1>2. ASSUME NEW q \in Payment \ {p}, payment'[q].invoiced, payment'[q].status \in Terminal
        PROVE  Announced(q, payment'[q].status)
    BY <1>2 DEF Writes, RaceInv, NewsIsAnnounced
  <1>3. ASSUME got \in Terminal
        PROVE  Announced(p, got)'
    <2>1. CASE seen = got
      <3>1. Announced(p, seen)
        BY <1>3, <2>1 DEF Writes, RaceInv, NewsIsAnnounced
      <3> QED BY <1>1, <2>1, <3>1
    <2>2. CASE seen # got
      <3>1. Owes(w, p, got)'
        BY <1>3, <2>2, Effects DEF Writes, Owes
      <3> QED BY <3>1 DEF Announced
    <2> QED BY <2>1, <2>2
  <1>4. ASSUME NEW v \in Worker, job'[v].pc \in {"fetch", "write"}, job'[v].seen \in Terminal
        PROVE  Announced(job'[v].pay, job'[v].seen)
    <2>1. v # w
      BY <1>4, Effects DEF Writes
    <2> QED BY <1>4, <2>1 DEF Writes, Others, RaceInv, NewsIsAnnounced
  <1>5. ASSUME NEW s \in batch', phase' # "recover", s.seen \in Terminal
        PROVE  Announced(s.pay, s.seen)
    BY <1>5 DEF Writes, RaceInv, NewsIsAnnounced
  <1>6. p \in Payment /\ payment'[p].status = got
    BY DEF Writes
  <1> QED BY <1>1, <1>2, <1>3, <1>4, <1>5, <1>6 DEF NewsIsAnnounced

LEMMA WriteStatusKeeps ==
  ASSUME Inv, RaceInv, NEW w \in Worker, WriteStatus(w), Marks
  PROVE  RaceInv'
  <1>1. PICK p, seen, got : Writes(w, p, seen, got)
    BY WriteStatusWrites
  <1> QED BY <1>1, WritesCheckouts, WritesFollows, WritesNews DEF RaceInv

-----------------------------------------------------------------------------
(* The effects that follow a status: grant, revoke, notify.                 *)

\* Process w carries an effect out and passes on to what is left to do.
Carries(w, p) ==
  /\ p \in Payment /\ job[w].pay = p /\ job[w].pc \in {"apply", "reverse", "notify"}
  /\ SameRows /\ UNCHANGED <<batch, phase>> /\ Others(w)
  /\ job'[w].pc \in {"idle", "notify", "recheck"}
  /\ job'[w].pc # "idle" => job'[w].pay = p
  /\ notified \subseteq notified'
  /\ \A status : Owes(w, p, status) => Owes(w, p, status)' \/ <<p, status>> \in notified'

LEMMA CarriesCheckouts ==
  ASSUME Inv, RaceInv, NEW w \in Worker, NEW p, Carries(w, p)
  PROVE  CheckoutsAreNew'
  <1>1. /\ payment[p].invoiced /\ p \in Payment
        /\ \A q \in Payment : payment'[q].invoiced = payment[q].invoiced
        /\ \A q \in Payment : payment'[q].status = payment[q].status
        /\ \A v \in Worker \ {w} : job'[v] = job[v]
    BY DEF Carries, SameRows, RaceInv, CheckoutsAreNew, InCheckout, Others
  <1>2. \A v \in Worker : job[v].pc # "idle" => job[v].pay \in Payment
    BY Types
  <1>3. job'[w].pc \notin InCheckout /\ (job'[w].pc # "idle" => job'[w].pay = p)
    BY DEF Carries, InCheckout
  <1>4. \A v \in Worker :
          /\ job'[v].pc \in InCheckout =>
               payment'[job'[v].pay].status = "created" /\ ~ payment'[job'[v].pay].invoiced
          /\ job'[v].pc \notin InCheckout \union {"idle"} => payment'[job'[v].pay].invoiced
    BY <1>1, <1>2, <1>3 DEF RaceInv, CheckoutsAreNew, InCheckout
  <1>5. \A v, u \in Worker :
          job'[v].pc \in InCheckout /\ job'[u].pc \in InCheckout /\ job'[v].pay = job'[u].pay => v = u
    BY <1>1, <1>3 DEF RaceInv, CheckoutsAreNew
  <1>6. \A s \in batch' : payment'[s.pay].invoiced
    BY <1>1, Types DEF Carries, RaceInv, CheckoutsAreNew
  <1>7. \A q \in Payment :
          payment'[q].status \notin {NoStatus, "created", "failure"} => payment'[q].invoiced
    BY <1>1 DEF RaceInv, CheckoutsAreNew
  <1> QED BY <1>4, <1>5, <1>6, <1>7 DEF CheckoutsAreNew, InCheckout

LEMMA CarriesNews ==
  ASSUME Inv, RaceInv, NEW w \in Worker, NEW p, Carries(w, p), Marks
  PROVE  NewsIsAnnounced'
  <1>1. \A q, status : Announced(q, status) => Announced(q, status)'
    <2>1. \A q, status : Owes(w, q, status) => Owes(w, q, status)' \/ <<q, status>> \in notified'
      BY DEF Owes, Carries
    <2>2. Others(w) /\ notified \subseteq notified' /\ dropped \subseteq dropped'
      BY Dropped DEF Carries
    <2> QED BY <2>1, <2>2, AnnouncedStays
  <1>2. ASSUME NEW q \in Payment, payment'[q].invoiced, payment'[q].status \in Terminal
        PROVE  Announced(q, payment'[q].status)
    BY <1>2 DEF Carries, SameRows, RaceInv, NewsIsAnnounced
  <1>3. ASSUME NEW v \in Worker, job'[v].pc \in {"fetch", "write"}, job'[v].seen \in Terminal
        PROVE  Announced(job'[v].pay, job'[v].seen)
    BY <1>3 DEF Carries, Others, RaceInv, NewsIsAnnounced
  <1>4. ASSUME NEW s \in batch', phase' # "recover", s.seen \in Terminal
        PROVE  Announced(s.pay, s.seen)
    BY <1>4 DEF Carries, RaceInv, NewsIsAnnounced
  <1> QED BY <1>1, <1>2, <1>3, <1>4 DEF NewsIsAnnounced

\* A ledger that is not touched follows, as long as nobody else is due there.
LEMMA UntouchedFollows ==
  ASSUME Inv, NEW w \in Worker, NEW p, Carries(w, p), NEW q \in Payment,
         LedgerFollows(q), purchase'[q] = purchase[q],
         q = p => job[w].pc = "notify"
  PROVE  LedgerFollows(q)'
  <1>1. \A v \in Worker : (IsAt(v, "apply", q)' <=> IsAt(v, "apply", q))
                          /\ (IsAt(v, "reverse", q)' <=> IsAt(v, "reverse", q))
    BY DEF IsAt, Carries, Others
  <1>2. payment'[q].status = payment[q].status
    BY DEF Carries, SameRows
  <1> QED BY <1>1, <1>2 DEF LedgerFollows

LEMMA GrantCarries ==
  ASSUME Inv, NEW w \in Worker, ApplyPurchase(w)
  PROVE  Carries(w, job[w].pay)
  <1> DEFINE p == job[w].pay
  <1>1. job[w].pc = "apply" /\ UNCHANGED <<payment, notified, batch, phase>>
    BY DEF ApplyPurchase, worklist
  <1>2. CASE job[w].seen = job[w].got
    <2>1. job'[w].pc = "idle" /\ Others(w)
      BY <1>2, Rests DEF ApplyPurchase
    <2>2. \A status : ~ Owes(w, p, status)
      BY <1>2 DEF Owes
    <2> QED BY <1>1, <2>1, <2>2, Types, SameRowsNow DEF Carries
  <1>3. CASE job[w].seen # job[w].got
    <2>1. /\ job'[w].pc = "notify" /\ job'[w].pay = p /\ Others(w)
          /\ job'[w].seen = job[w].seen /\ job'[w].got = job[w].got
      BY <1>3, Goes DEF ApplyPurchase
    <2>2. \A status : Owes(w, p, status) => Owes(w, p, status)'
      BY <2>1 DEF Owes
    <2> QED BY <1>1, <2>1, <2>2, Types, SameRowsNow DEF Carries
  <1> QED BY <1>2, <1>3

\* Who grants a purchase late is marked; otherwise the payment is a success.
LEMMA GrantFollows ==
  ASSUME Inv, RaceInv, NEW w \in Worker, ApplyPurchase(w), Marks, NEW q \in Payment \ raced'
  PROVE  LedgerFollows(q)'
  <1> DEFINE p == job[w].pay
  <1>1. LedgerFollows(q) /\ (job[w].pay = q => ~ Overtaken(w))
    BY NotRaced DEF RaceInv
  <1>2. Carries(w, p) /\ job[w].pc = "apply"
    BY GrantCarries DEF ApplyPurchase
  <1>3. purchase' = [purchase EXCEPT ![p] = IF @ = "none" THEN "active" ELSE @]
    BY DEF ApplyPurchase
  <1>4. purchase \in [Payment -> {"none", "active", "reversed"}] /\ p \in Payment
    BY <1>2, Types DEF Carries
  <1>5. CASE q # p
    <2>1. purchase'[q] = purchase[q]
      BY <1>3, <1>4, <1>5
    <2> QED BY <1>1, <1>2, <1>5, <2>1, UntouchedFollows
  <1>6. CASE q = p
    <2>1. Moved(w)
      BY <1>2 DEF Moved, Carries
    <2>2. payment[p].status = "success"
      BY <1>1, <1>2, <1>6, <2>1 DEF Overtaken, GrantedLate
    <2>3. purchase'[p] = "active"
      BY <1>1, <1>3, <1>4, <1>6, <2>2 DEF LedgerFollows
    <2>4. payment'[p].status = "success"
      BY <1>2, <2>2 DEF Carries, SameRows
    <2>5. \A v \in Worker : ~ IsAt(v, "reverse", q)
      BY <1>1, <1>6, <2>2 DEF LedgerFollows, Returning
    <2>6. \A v \in Worker : ~ IsAt(v, "reverse", q)'
      BY <1>2, <2>5 DEF IsAt, Carries, Others
    <2>7. "success" \notin Pending /\ "success" \notin Returning
      BY NoStatusAssumption DEF Pending, Returning, Status, Terminal
    <2> QED BY <1>6, <2>3, <2>4, <2>6, <2>7 DEF LedgerFollows
  <1> QED BY <1>5, <1>6

LEMMA RevokeCarries ==
  ASSUME Inv, NEW w \in Worker, ReversePurchase(w)
  PROVE  Carries(w, job[w].pay)
  <1> DEFINE p == job[w].pay
  <1>1. job[w].pc = "reverse" /\ UNCHANGED <<payment, notified, batch, phase>>
    BY DEF ReversePurchase, worklist
  <1>2. /\ job'[w].pc = "notify" /\ job'[w].pay = p /\ Others(w)
        /\ job'[w].seen = job[w].seen /\ job'[w].got = job[w].got
    BY Goes DEF ReversePurchase
  <1>3. \A status : Owes(w, p, status) => Owes(w, p, status)'
    BY <1>2 DEF Owes
  <1> QED BY <1>1, <1>2, <1>3, Types, SameRowsNow DEF Carries

\* Who revokes a purchase works for a payment that is a success no longer.
LEMMA RevokeFollows ==
  ASSUME Inv, RaceInv, NEW w \in Worker, ReversePurchase(w), Marks, NEW q \in Payment \ raced'
  PROVE  LedgerFollows(q)'
  <1> DEFINE p == job[w].pay
  <1>1. LedgerFollows(q)
    BY NotRaced DEF RaceInv
  <1>2. Carries(w, p) /\ job[w].pc = "reverse"
    BY RevokeCarries DEF ReversePurchase
  <1>3. purchase' = [purchase EXCEPT ![p] = IF @ = "none" THEN @ ELSE "reversed"]
    BY DEF ReversePurchase
  <1>4. purchase \in [Payment -> {"none", "active", "reversed"}] /\ p \in Payment
    BY <1>2, Types DEF Carries
  <1>5. CASE q # p
    <2>1. purchase'[q] = purchase[q]
      BY <1>3, <1>4, <1>5
    <2> QED BY <1>1, <1>2, <1>5, <2>1, UntouchedFollows
  <1>6. CASE q = p
    <2>1. payment[p].status \in Returning /\ IsAt(w, "reverse", p)
      BY <1>1, <1>2, <1>6 DEF LedgerFollows, IsAt
    <2>2. payment'[p].status \in Returning
      BY <1>2, <2>1 DEF Carries, SameRows
    <2>3. purchase'[p] # "active"
      BY <1>3, <1>4
    <2>4. \A status \in Returning : status \notin Pending /\ status # "success"
      BY NoStatusAssumption DEF Pending, Returning, Status, Terminal
    <2> QED BY <1>6, <2>2, <2>3, <2>4 DEF LedgerFollows
  <1> QED BY <1>5, <1>6

LEMMA NotifyCarries ==
  ASSUME Inv, NEW w \in Worker, NotifyCustomer(w)
  PROVE  Carries(w, job[w].pay)
  <1>1. job[w].pc = "notify" /\ UNCHANGED <<payment, batch, phase>>
    BY DEF NotifyCustomer, worklist
  <1>2. /\ job'[w].pc \in {"idle", "recheck"} /\ Others(w)
        /\ job'[w].pc = "recheck" => job'[w].pay = job[w].pay
    BY Polled DEF NotifyCustomer
  <1>3. notified' = notified \union {<<job[w].pay, job[w].got>>}
    BY DEF NotifyCustomer
  <1>4. \A status : Owes(w, job[w].pay, status) => <<job[w].pay, status>> \in notified'
    BY <1>3 DEF Owes
  <1> QED BY <1>1, <1>2, <1>3, <1>4, Types, SameRowsNow DEF Carries

LEMMA NotifyFollows ==
  ASSUME Inv, RaceInv, NEW w \in Worker, NotifyCustomer(w), Marks, NEW q \in Payment \ raced'
  PROVE  LedgerFollows(q)'
  <1>1. LedgerFollows(q) /\ Carries(w, job[w].pay)
    BY NotRaced, NotifyCarries DEF RaceInv
  <1>2. job[w].pc = "notify" /\ purchase' = purchase
    BY DEF NotifyCustomer
  <1> QED BY <1>1, <1>2, UntouchedFollows

LEMMA EffectKeeps ==
  ASSUME Inv, RaceInv, NEW w \in Worker, Marks,
         ApplyPurchase(w) \/ ReversePurchase(w) \/ NotifyCustomer(w)
  PROVE  RaceInv'
  <1>1. Carries(w, job[w].pay)
    BY GrantCarries, RevokeCarries, NotifyCarries
  <1>2. \A q \in Payment \ raced' : LedgerFollows(q)'
    BY GrantFollows, RevokeFollows, NotifyFollows
  <1> QED BY <1>1, <1>2, CarriesCheckouts, CarriesNews DEF RaceInv

-----------------------------------------------------------------------------
(* All the steps together.                                                  *)

LEMMA RaceBegins ==
  ASSUME RaceInit
  PROVE  RaceInv
  <1>1. /\ \A w \in Worker : job[w].pc = "idle"
        /\ \A p \in Payment : /\ payment[p].status = NoStatus /\ ~ payment[p].invoiced
                              /\ purchase[p] = "none"
        /\ batch = {}
    BY DEF RaceInit, Init, NoJob, NoRow
  <1>2. CheckoutsAreNew /\ NewsIsAnnounced
    BY <1>1 DEF CheckoutsAreNew, NewsIsAnnounced, InCheckout
  <1>3. NoStatus # "success" /\ NoStatus \notin Returning
    BY NoStatusAssumption DEF Status, Terminal, Returning
  <1>4. \A p \in Payment : LedgerFollows(p)
    BY <1>1, <1>3 DEF LedgerFollows, IsAt
  <1> QED BY <1>2, <1>4 DEF RaceInv

LEMMA RaceStutters ==
  ASSUME RaceInv, UNCHANGED RaceVars
  PROVE  RaceInv'
  <1>1. UNCHANGED <<payment, purchase, notified, job, batch, phase, raced, dropped>>
    BY DEF RaceVars, vars, db, worklist
  <1> QED BY <1>1 DEF RaceInv, CheckoutsAreNew, LedgerFollows, NewsIsAnnounced, Announced, Owes, IsAt

LEMMA RaceWorkerKeeps ==
  ASSUME Inv, RaceInv, Marks, NEW w \in Worker, WorkerStep(w) \/ Abort(w)
  PROVE  RaceInv'
  <1>1. CASE FetchFails(w) \/ IgnoreStatus(w) \/ Abort(w)
    BY <1>1, GivingUpIsLight, LightKeeps
  <1>2. CASE Fetch(w)
    BY <1>2, FetchIsLight, LightKeeps
  <1>3. CASE MarkRechecked(w)
    BY <1>3, MarkRecheckedIsLight, LightKeeps
  <1>4. CASE WriteStatus(w)
    BY <1>4, WriteStatusKeeps
  <1>5. CASE ApplyPurchase(w) \/ ReversePurchase(w) \/ NotifyCustomer(w)
    BY <1>5, EffectKeeps
  <1> QED BY <1>1, <1>2, <1>3, <1>4, <1>5 DEF WorkerStep

LEMMA RaceHandlerKeeps ==
  ASSUME Inv, RaceInv, Marks, NEW w \in Handler,
         \/ CheckoutStep(w)
         \/ \E p \in Payment : Checkout(w, p) \/ Webhook(w, p) \/ ClientPoll(w, p)
  PROVE  RaceInv'
  <1>1. w \in Worker
    BY DEF Worker
  <1>2. CASE CreateInvoice(w)
    BY <1>1, <1>2, CreateInvoiceIsLight, LightKeeps
  <1>3. CASE InvoiceRefused(w)
    BY <1>1, <1>3, InvoiceRefusedRegisters, RegistersKeeps
  <1>4. CASE MarkInvoiceCreated(w)
    BY <1>1, <1>4, MarkInvoiceCreatedRegisters, RegistersKeeps
  <1>5. ASSUME NEW p \in Payment, Checkout(w, p)
        PROVE  RaceInv'
    BY <1>1, <1>5, CheckoutRegisters, RegistersKeeps
  <1>6. ASSUME NEW p \in Payment, Webhook(w, p) \/ ClientPoll(w, p)
        PROVE  RaceInv'
    BY <1>1, <1>6, TakingUpIsLight, LightKeeps
  <1> QED BY <1>2, <1>3, <1>4, <1>5, <1>6 DEF CheckoutStep

LEMMA RaceStepKeeps ==
  ASSUME Inv, RaceInv, RaceNext
  PROVE  RaceInv'
  <1>1. Marks /\ Next /\ Recon \in Worker
    BY DEF RaceNext, Marks, Worker
  <1>2. CASE \E w \in Worker : WorkerStep(w) \/ Abort(w)
    BY <1>1, <1>2, RaceWorkerKeeps
  <1>3. CASE \E w \in Handler :
               \/ CheckoutStep(w)
               \/ \E p \in Payment : Checkout(w, p) \/ Webhook(w, p) \/ ClientPoll(w, p)
    BY <1>1, <1>3, RaceHandlerKeeps
  <1>4. CASE \/ ListNonTerminal \/ ListToRecover \/ SkipRecovery \/ ListToRecheck \/ EndTick
             \/ Tick \/ \E p \in Payment, new \in Outcome : ProviderStep(p, new)
    BY <1>1, <1>4, ListingLists, ListsKeep
  <1>5. CASE \E s \in batch : TakeFromBatch(s)
    BY <1>1, <1>5, TakeFromBatchIsLight, LightKeeps
  <1>6. CASE ReconRestarts
    BY <1>1, <1>6, ReconRestartsIsLight, LightKeeps
  <1> QED BY <1>1, <1>2, <1>3, <1>4, <1>5, <1>6 DEF Next, NormalStep, Fault, ReconStep

\* The marks only watch: every behaviour with them is one of the payments.
LEMMA MarksOnlyWatch == RaceSpec => Spec
  <1>1. RaceInit => Init
    BY DEF RaceInit
  <1>2. [RaceNext]_RaceVars => [Next]_vars
    BY DEF RaceNext, RaceVars
  <1> QED BY <1>1, <1>2, PTL DEF RaceSpec, Spec

\* The inductive invariant: checkouts own their rows, the ledger of a payment
\* that was not raced follows its status, and every result is announced.
THEOREM RaceInvariant == RaceSpec => [](Inv /\ RaceInv)
  <1>1. RaceSpec => []Inv
    BY MarksOnlyWatch, BillingInvariant, PTL
  <1>2. RaceInit => RaceInv
    BY RaceBegins
  <1>3. Inv /\ RaceInv /\ [RaceNext]_RaceVars => RaceInv'
    BY RaceStepKeeps, RaceStutters
  <1> QED BY <1>1, <1>2, <1>3, PTL DEF RaceSpec

\* On a payment that nobody raced and nobody is working on, the ledger says
\* what the status says: a success has its purchase, and a payment that ended
\* otherwise has none.  The two commits of apply_provider_status_payload can
\* disagree for good only in the three ways Overtaken names.
THEOREM LedgerAgrees == RaceSpec => []LedgerAgreesUnlessRaced
  <1>1. Inv /\ RaceInv => LedgerAgreesUnlessRaced
    <2> SUFFICES ASSUME Inv, RaceInv, NEW p \in Payment \ raced, Settled(p)
                 PROVE  payment[p].status = "success" <=> purchase[p] = "active"
      BY DEF LedgerAgreesUnlessRaced
    <2>1. LedgerFollows(p) /\ payment[p].status \in Status \union {NoStatus}
      BY Types DEF RaceInv
    <2>2. \A w \in Worker : ~ IsAt(w, "apply", p) /\ ~ IsAt(w, "reverse", p)
      BY DEF Settled, IsAt
    <2>3. payment[p].status \in Pending \union {"success"} \union Returning
      BY <2>1 DEF Status, Terminal, Pending
    <2> QED BY <2>1, <2>2, <2>3 DEF LedgerFollows
  <1> QED BY <1>1, RaceInvariant, PTL

\* A payment at rest in a terminal status has the notification of that very
\* status queued, unless a process died between the status and its telling:
\* overtaking alone never costs a customer the last word.
THEOREM TerminalNotified == RaceSpec => []TerminalIsNotified
  <1>1. RaceInv => TerminalIsNotified
    <2> SUFFICES ASSUME RaceInv, NEW p \in Payment \ dropped, Settled(p),
                        payment[p].invoiced, payment[p].status \in Terminal
                 PROVE  <<p, payment[p].status>> \in notified
      BY DEF TerminalIsNotified
    <2>1. Announced(p, payment[p].status)
      BY DEF RaceInv, NewsIsAnnounced
    <2>2. \A w \in Worker : ~ Owes(w, p, payment[p].status)
      BY DEF Settled, Owes
    <2> QED BY <2>1, <2>2 DEF Announced
  <1> QED BY <1>1, RaceInvariant, PTL

=============================================================================

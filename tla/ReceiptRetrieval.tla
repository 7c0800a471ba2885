--------------------------- MODULE ReceiptRetrieval ---------------------------
(* How the fiscal check of a paid order is fetched from the provider.  Every *)
(* attempt adds a row; a webhook, a status poll and the reconciliation each  *)
(* try at once, with no limit, and the worker tries what it lists, up to     *)
(* MaxAttempts and after a delay.  A row with a check is queued for the bot, *)
(* a row of the last attempt without one is an alert to the superadmins      *)
(* (BillingDelivery).                                                        *)
EXTENDS Integers, Sequences, FiniteSets

CONSTANTS
  P,             \* payments are numbered in the order of paid_at
  Requester,     \* requests that learn of a success
  Worker,
  MaxAttempts,   \* receipt_retry_max_attempts
  ListLimit,     \* the limit of the worker's query, 100 in the code
  MaxRows,       \* bound: requests stop trying at so many rows
  MaxFailures    \* bound: processes that die or raise

Payment == 1 .. P
Process == Requester \union {Worker}

ASSUME RetrievalAssumption ==
  /\ P \in Nat /\ MaxAttempts \in Nat \ {0} /\ ListLimit \in Nat \ {0}
  /\ MaxRows \in Nat /\ MaxFailures \in Nat
  /\ Worker \notin Requester

VARIABLES
  paid,     \* payments with status success
  rows,     \* billing_receipt: the attempts of each payment
  proc,     \* what each process is fetching, and the count it will write
  batch,    \* payments the worker has listed and not yet come to
  raced,    \* payments fetched for by two processes at once
  extra,    \* payments a request fetched for when the attempts were used up
  failures
retrievalVars == <<paid, rows, proc, batch, raced, extra, failures>>

\* next_retry_at: none is due at once.
AttemptRow == [status : {"done", "missing"}, count : Nat, next : {"none", "later", "due"}]
Idle == [on |-> 0, count |-> 0]

RetrievalTypeOK ==
  /\ paid \subseteq Payment
  /\ rows \in [Payment -> Seq(AttemptRow)]
  /\ proc \in [Process -> [on : 0 .. P, count : Nat]]
  /\ batch \subseteq Payment
  /\ raced \subseteq Payment /\ extra \subseteq Payment
  /\ failures \in 0 .. MaxFailures

RetrievalInit ==
  /\ paid = {} /\ batch = {} /\ raced = {} /\ extra = {} /\ failures = 0
  /\ rows = [p \in Payment |-> <<>>]
  /\ proc = [w \in Process |-> Idle]

Attempts(p) == {rows[p][n] : n \in DOMAIN rows[p]}
Received(p) == \E r \in Attempts(p) : r.status = "done"

\* receipt_retry_exhausted: the count of some attempt has reached the limit.
Exhausted(p) == \E r \in Attempts(p) : r.count >= MaxAttempts

\* next_receipt_retry_count.
NextCount(p) ==
  CHOOSE k \in 1 .. Len(rows[p]) + 1 :
    /\ \A r \in Attempts(p) : r.count < k
    /\ k = 1 \/ \E r \in Attempts(p) : r.count = k - 1

\* A mutant: without the delay of the last attempt a failure is final.
RetryableOnce(r) == r.status = "missing" /\ r.next = "none" /\ r.count < MaxAttempts

\* A row of an earlier attempt stays retryable for good.
Retryable(r) == r.status = "missing" /\ r.next # "later" /\ r.count < MaxAttempts

Requiring == {p \in paid : rows[p] = <<>> \/ \E r \in Attempts(p) : Retryable(r)}
Earliest(S) == {p \in S : Cardinality({q \in S : q < p}) < ListLimit}

----------------------------------------------------------------------------
Pay(p) ==
  /\ p \notin paid /\ \A q \in 1 .. p - 1 : q \in paid
  /\ paid' = paid \union {p}
  /\ UNCHANGED <<rows, proc, batch, raced, extra, failures>>

DelayPasses(p, n) ==
  /\ n \in DOMAIN rows[p] /\ rows[p][n].next = "later"
  /\ rows' = [rows EXCEPT ![p][n].next = "due"]
  /\ UNCHANGED <<paid, proc, batch, raced, extra, failures>>

\* process_due_receipt_retries, in its interval.
List ==
  /\ batch = {} /\ proc[Worker] = Idle
  /\ batch' = Earliest(Requiring)
  /\ batch' # {}
  /\ UNCHANGED <<paid, rows, proc, raced, extra, failures>>

\* A mutant: only the attempts count.
WantedBlindly(w, p) == w = Worker => ~ Exhausted(p)

\* ensure_success_receipts, first half: what is known decides whether to fetch.
Wanted(w, p) == ~ Received(p) /\ (w = Worker => ~ Exhausted(p))

Begin(w, p) ==
  /\ proc[w] = Idle /\ p \in paid
  /\ proc' = IF Wanted(w, p) THEN [proc EXCEPT ![w] = [on |-> p, count |-> NextCount(p)]]
                             ELSE proc
  /\ raced' = IF Wanted(w, p) /\ \E v \in Process : proc[v].on = p
                THEN raced \union {p} ELSE raced
  /\ extra' = IF Wanted(w, p) /\ Exhausted(p) THEN extra \union {p} ELSE extra
  /\ UNCHANGED <<paid, rows, failures>>

RequestBegins(h, p) ==
  /\ Wanted(h, p) /\ Len(rows[p]) < MaxRows
  /\ Begin(h, p)
  /\ UNCHANGED batch

WorkerBegins(p) ==
  /\ p \in batch /\ \A q \in batch : p <= q
  /\ batch' = batch \ {p}
  /\ Begin(Worker, p)

\* A mutant: a retry at once, which the column cannot say.
NextRetryAtOnce(w, count) == IF w = Worker /\ count < MaxAttempts THEN "now" ELSE "none"

\* Only the worker asks for a delay, and not after its last attempt.
NextRetry(w, count) == IF w = Worker /\ count < MaxAttempts THEN "later" ELSE "none"

\* The second half: the provider has answered, with a check or without.
Fetched(w, status) ==
  LET p == proc[w].on  count == proc[w].count IN
    /\ p # 0
    /\ rows' = [rows EXCEPT ![p] = Append(@,
                  [status |-> status, count |-> count,
                   next |-> IF status = "done" THEN "none" ELSE NextRetry(w, count)])]
    /\ proc' = [proc EXCEPT ![w] = Idle]
    /\ UNCHANGED <<paid, batch, raced, extra, failures>>

\* The process dies, or the attempt raises and the worker goes on.
Fails(w) ==
  /\ proc[w] # Idle
  /\ failures < MaxFailures /\ failures' = failures + 1
  /\ proc' = [proc EXCEPT ![w] = Idle]
  /\ batch' \in IF w = Worker THEN {batch, {}} ELSE {batch}
  /\ UNCHANGED <<paid, rows, raced, extra>>

RetrievalNext ==
  \/ \E p \in Payment : Pay(p) \/ WorkerBegins(p) \/ \E n \in 1 .. MaxRows + MaxAttempts : DelayPasses(p, n)
  \/ List
  \/ \E h \in Requester, p \in Payment : RequestBegins(h, p)
  \/ \E w \in Process : Fails(w) \/ \E status \in {"done", "missing"} : Fetched(w, status)

RetrievalSpec == RetrievalInit /\ [][RetrievalNext]_retrievalVars

----------------------------------------------------------------------------
Done(p) == {n \in DOMAIN rows[p] : rows[p][n].status = "done"}
GivenUp(p) == \E r \in Attempts(p) : r.status = "missing" /\ r.count >= MaxAttempts

\* Unless two processes fetched at once, a customer gets one check (each row
\* with one is a message of the bot); and the superadmins are not alerted to a
\* check that is there, unless a request found it after the last attempt.
OneCheckOrOneAlert ==
  \A p \in Payment \ raced :
    /\ Cardinality(Done(p)) <= 1
    /\ (p \notin extra /\ Received(p)) => ~ GivenUp(p)

\* A paid order gets its check or a last attempt, if the worker's list ever comes
\* to it: orders that need nothing more stay on the list, before it, for good.
SettledAhead(p) == {q \in Requiring : q < p /\ (Received(q) \/ Exhausted(q))}
EveryCheckIsSettled ==
  \A p \in Payment :
    (p \in paid) ~> (Received(p) \/ Exhausted(p) \/ Cardinality(SettledAhead(p)) >= ListLimit)

=============================================================================

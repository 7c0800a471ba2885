----------------------- MODULE ReceiptRetrievalProofs -----------------------
(* Proofs about ReceiptRetrieval, for any number of orders, requests,        *)
(* attempts and failures, and about its place in BillingMessages.            *)
EXTENDS BillingMessages, BillingDeliveryProofs, FiniteSetTheorems

\* What next_receipt_retry_count looks for: one more than every count so far.
IsNext(p, k) ==
  /\ \A r \in Attempts(p) : r.count < k
  /\ k = 1 \/ \E r \in Attempts(p) : r.count = k - 1

\* There is one within the length of the list; and a count a process took
\* earlier is at most that of one more row.
CountsGoOn ==
  /\ \A p \in Payment : \E k \in 1 .. Len(rows[p]) + 1 : IsNext(p, k)
  /\ \A w \in Process : proc[w].on # 0 => proc[w].count \in 1 .. Len(rows[proc[w].on]) + 1

\* Why there is one check: if no two processes fetched for an order at once, the
\* one that does has looked at rows nobody has added to since.
Fetching(p) == {w \in Process : proc[w].on = p}

FetchesAreFresh ==
  \A p \in Payment \ raced :
    /\ \A v, w \in Fetching(p) : v = w
    /\ Fetching(p) # {} => ~ Received(p) /\ (p \in extra \/ ~ Exhausted(p))

RetrievalInv ==
  /\ RetrievalTypeOK
  /\ CountsGoOn
  /\ FetchesAreFresh
  /\ OneCheckOrOneAlert

----------------------------------------------------------------------------
USE RetrievalAssumption

\* next_receipt_retry_count: when there is a next count, it is what is chosen.
LEMMA NextCountIsNext ==
  ASSUME NEW p \in Payment, \E k \in 1 .. Len(rows[p]) + 1 : IsNext(p, k)
  PROVE  NextCount(p) \in 1 .. Len(rows[p]) + 1 /\ IsNext(p, NextCount(p))
BY DEF NextCount, IsNext

LEMMA RetrievalStarts == RetrievalInit => RetrievalInv
<1> SUFFICES ASSUME RetrievalInit PROVE RetrievalInv
  OBVIOUS
<1> USE DEF RetrievalInit, Idle
<1>1. RetrievalTypeOK
  <2>1. rows \in [Payment -> Seq(AttemptRow)]
    OBVIOUS
  <2>2. proc \in [Process -> [on : 0 .. P, count : Nat]]
    OBVIOUS
  <2> QED
    BY <2>1, <2>2 DEF RetrievalTypeOK
<1>2. \A p \in Payment : Attempts(p) = {} /\ Done(p) = {} /\ IsNext(p, 1)
  BY DEF Attempts, Done, IsNext
<1>3. CountsGoOn
  BY <1>2 DEF CountsGoOn
<1>4. \A p \in Payment : Fetching(p) = {}
  BY DEF Fetching, Payment
<1>5. FetchesAreFresh
  BY <1>4 DEF FetchesAreFresh
<1>6. OneCheckOrOneAlert
  <2>1. \A p \in Payment : ~ Received(p) /\ Cardinality(Done(p)) = 0
    BY <1>2, FS_EmptySet DEF Received
  <2> QED
    BY <2>1 DEF OneCheckOrOneAlert
<1> QED
  BY <1>1, <1>3, <1>5, <1>6 DEF RetrievalInv

\* A step that leaves the rows of an order as they are, but for when to retry.
SameRows(p) ==
  /\ Len(rows'[p]) = Len(rows[p])
  /\ \A n \in DOMAIN rows[p] : /\ rows'[p][n].status = rows[p][n].status
                               /\ rows'[p][n].count = rows[p][n].count

LEMMA RowsSay ==
  ASSUME RetrievalTypeOK, RetrievalTypeOK', NEW p \in Payment, SameRows(p)
  PROVE  /\ Received(p)' <=> Received(p)
         /\ Exhausted(p)' <=> Exhausted(p)
         /\ GivenUp(p)' <=> GivenUp(p)
         /\ Done(p)' = Done(p)
         /\ \A k \in Nat : IsNext(p, k) => IsNext(p, k)'
<1>1. rows[p] \in Seq(AttemptRow) /\ rows'[p] \in Seq(AttemptRow)
  BY DEF RetrievalTypeOK
<1>2. DOMAIN rows'[p] = DOMAIN rows[p]
  BY <1>1 DEF SameRows
<1> QED
  BY <1>1, <1>2 DEF SameRows, Received, Exhausted, GivenUp, Done, Attempts, IsNext

\* The rows and the fetches stay: a payment, a listing, a delay.
LEMMA NothingFetched ==
  ASSUME RetrievalInv, RetrievalTypeOK', \A p \in Payment : SameRows(p),
         UNCHANGED <<proc, raced, extra>>
  PROVE  RetrievalInv'
<1> USE DEF RetrievalInv
<1>1. CountsGoOn'
  <2>1. \A p \in Payment : \E k \in 1 .. Len(rows'[p]) + 1 : IsNext(p, k)'
    BY RowsSay DEF CountsGoOn, SameRows
  <2>2. ASSUME NEW w \in Process, proc[w].on # 0
        PROVE  Len(rows'[proc[w].on]) = Len(rows[proc[w].on])
    BY <2>2 DEF SameRows, RetrievalTypeOK, Payment
  <2> QED
    BY <2>1, <2>2 DEF CountsGoOn
<1>2. FetchesAreFresh'
  BY RowsSay DEF FetchesAreFresh, Fetching
<1>3. OneCheckOrOneAlert'
  BY RowsSay DEF OneCheckOrOneAlert
<1> QED
  BY <1>1, <1>2, <1>3

\* next_retry_at of a new row is one the column can hold.
LEMMA NextRetryType ==
  ASSUME NEW w, NEW count \in Nat
  PROVE  NextRetry(w, count) \in {"none", "later", "due"}
BY DEF NextRetry

\* What one more row says of an order.
LEMMA OneRowMore ==
  ASSUME RetrievalTypeOK, NEW p \in Payment, NEW new \in AttemptRow,
         rows' = [rows EXCEPT ![p] = Append(@, new)]
  PROVE  /\ rows' \in [Payment -> Seq(AttemptRow)]
         /\ Len(rows'[p]) = Len(rows[p]) + 1 /\ Len(rows[p]) \in Nat
         /\ Attempts(p)' = Attempts(p) \union {new}
         /\ Done(p)' = Done(p) \union {n \in {Len(rows[p]) + 1} : new.status = "done"}
         /\ \A q \in Payment : q # p => rows'[q] = rows[q]
<1> DEFINE old == rows[p]
<1>1. old \in Seq(AttemptRow) /\ Len(old) \in Nat
  BY DEF RetrievalTypeOK
<1>2. /\ rows' \in [Payment -> Seq(AttemptRow)]
      /\ rows'[p] = Append(old, new)
      /\ \A q \in Payment : q # p => rows'[q] = rows[q]
  BY <1>1 DEF RetrievalTypeOK
<1>3. /\ Len(rows'[p]) = Len(old) + 1
      /\ DOMAIN old = 1 .. Len(old) /\ DOMAIN rows'[p] = 1 .. Len(old) + 1
      /\ rows'[p][Len(old) + 1] = new
      /\ \A n \in 1 .. Len(old) : rows'[p][n] = old[n]
  BY <1>1, <1>2
<1>4. Attempts(p)' = Attempts(p) \union {new}
  <2>1. \A n \in 1 .. Len(old) + 1 : n \in 1 .. Len(old) \/ n = Len(old) + 1
    BY <1>1
  <2> QED
    BY <1>1, <1>3, <2>1 DEF Attempts
<1>5. Done(p)' = Done(p) \union {n \in {Len(rows[p]) + 1} : new.status = "done"}
  BY <1>1, <1>3 DEF Done
<1> QED
  BY <1>1, <1>2, <1>3, <1>4, <1>5

LEMMA BeginKeeps ==
  ASSUME RetrievalInv, NEW w \in Process, NEW p \in Payment, Begin(w, p), batch' \subseteq Payment
  PROVE  RetrievalInv'
<1> USE DEF RetrievalInv
<1>0. UNCHANGED <<paid, rows, failures>>
  BY DEF Begin
<1>1. \A q \in Payment :
        /\ Received(q)' <=> Received(q)
        /\ Exhausted(q)' <=> Exhausted(q)
        /\ GivenUp(q)' <=> GivenUp(q)
        /\ Done(q)' = Done(q)
        /\ \A k \in Nat : IsNext(q, k)' <=> IsNext(q, k)
  BY <1>0 DEF Received, Exhausted, GivenUp, Done, Attempts, IsNext
<1>2. CASE ~ Wanted(w, p)
  <2>1. UNCHANGED <<proc, raced, extra>>
    BY <1>2 DEF Begin
  <2>2. RetrievalTypeOK'
    BY <1>0, <2>1 DEF RetrievalTypeOK
  <2> QED
    BY <1>0, <2>1, <2>2, NothingFetched DEF SameRows
<1>3. CASE Wanted(w, p)
  <2> DEFINE k == NextCount(p)
  <2>1. k \in 1 .. Len(rows[p]) + 1
    BY NextCountIsNext DEF CountsGoOn
  <2>2. Len(rows[p]) \in Nat
    BY DEF RetrievalTypeOK
  <2>3. k \in Nat
    BY <2>1, <2>2
  <2>4. /\ proc[w] = Idle /\ proc[w].on = 0
        /\ proc' = [proc EXCEPT ![w] = [on |-> p, count |-> k]]
    BY <1>3 DEF Begin, Idle
  <2> HIDE DEF k
  <2>5. /\ proc' \in [Process -> [on : 0 .. P, count : Nat]]
        /\ proc'[w].on = p /\ proc'[w].count = k
        /\ \A v \in Process : v # w => proc'[v] = proc[v]
    BY <2>3, <2>4 DEF RetrievalTypeOK, Payment
  <2>6. raced' = IF Fetching(p) # {} THEN raced \union {p} ELSE raced
    BY <1>3 DEF Begin, Fetching
  <2>7. extra' = IF Exhausted(p) THEN extra \union {p} ELSE extra
    BY <1>3 DEF Begin
  <2>8. RetrievalTypeOK'
    BY <1>0, <2>5, <2>6, <2>7 DEF RetrievalTypeOK
  <2>9. CountsGoOn'
    <3>1. ASSUME NEW v \in Process, proc'[v].on # 0
          PROVE  proc'[v].count \in 1 .. Len(rows[proc'[v].on]) + 1
      BY <2>1, <2>5, <3>1 DEF CountsGoOn
    <3>2. \A q \in Payment : \E n \in 1 .. Len(rows[q]) + 1 : IsNext(q, n)'
      BY <1>0 DEF CountsGoOn, IsNext, Attempts
    <3> QED
      BY <1>0, <3>1, <3>2 DEF CountsGoOn
  <2>10. /\ Fetching(p)' = Fetching(p) \union {w}
         /\ \A q \in Payment : q # p => Fetching(q)' = Fetching(q)
    BY <2>4, <2>5 DEF Fetching, Payment
  <2>11. FetchesAreFresh'
    <3>1. \A q \in Payment : q # p /\ q \notin raced' =>
             /\ \A v, u \in Fetching(q)' : v = u
             /\ Fetching(q)' # {} => ~ Received(q)' /\ (q \in extra' \/ ~ Exhausted(q)')
      BY <1>1, <2>6, <2>7, <2>10 DEF FetchesAreFresh
    <3>2. p \notin raced' => Fetching(p)' = {w}
      BY <2>6, <2>10
    <3>3. ~ Received(p)' /\ (p \in extra' \/ ~ Exhausted(p)')
      BY <1>1, <1>3, <2>7 DEF Wanted
    <3> QED
      BY <3>1, <3>2, <3>3 DEF FetchesAreFresh
  <2>12. OneCheckOrOneAlert'
    BY <1>1, <2>6, <2>7 DEF OneCheckOrOneAlert
  <2> QED
    BY <2>8, <2>9, <2>11, <2>12
<1> QED
  BY <1>2, <1>3

\* A process that stops fetching leaves the rows alone.
LEMMA FailsKeeps ==
  ASSUME RetrievalInv, NEW w \in Process, Fails(w)
  PROVE  RetrievalInv'
<1> USE DEF RetrievalInv
<1>1. UNCHANGED <<paid, rows, raced, extra>>
  BY DEF Fails
<1>2. proc' = [proc EXCEPT ![w] = Idle]
  BY DEF Fails
<1>3. /\ proc' \in [Process -> [on : 0 .. P, count : Nat]]
      /\ proc'[w].on = 0
      /\ \A v \in Process : v # w => proc'[v] = proc[v]
  BY <1>2 DEF RetrievalTypeOK, Idle
<1>4. RetrievalTypeOK'
  <2>1. batch' \subseteq Payment
    BY DEF Fails, RetrievalTypeOK
  <2>2. failures' \in 0 .. MaxFailures
    BY DEF Fails, RetrievalTypeOK
  <2> QED
    BY <1>1, <1>3, <2>1, <2>2 DEF RetrievalTypeOK
<1>5. CountsGoOn'
  BY <1>1, <1>3 DEF CountsGoOn, IsNext, Attempts
<1>6. FetchesAreFresh'
  <2>1. \A q \in Payment : Fetching(q)' \subseteq Fetching(q)
    BY <1>3 DEF Fetching, Payment
  <2>2. \A q \in Payment : (Received(q)' <=> Received(q)) /\ (Exhausted(q)' <=> Exhausted(q))
    BY <1>1 DEF Received, Exhausted, Attempts
  <2> QED
    BY <1>1, <2>1, <2>2 DEF FetchesAreFresh
<1>7. OneCheckOrOneAlert'
  BY <1>1 DEF OneCheckOrOneAlert, Done, Received, GivenUp, Attempts
<1> QED
  BY <1>4, <1>5, <1>6, <1>7

\* The answer of the provider becomes a row with the count that was taken
\* before; only here can a second check appear, or an alert beside one.
LEMMA FetchedKeeps ==
  ASSUME RetrievalInv, NEW w \in Process, NEW status \in {"done", "missing"}, Fetched(w, status)
  PROVE  RetrievalInv'
<1> USE DEF RetrievalInv
<1>0. /\ proc[w].on \in Payment /\ proc[w].count \in Nat
      /\ UNCHANGED <<paid, batch, raced, extra, failures>>
  BY DEF Fetched, RetrievalTypeOK, Payment
<1>1. PICK p \in Payment, c \in Nat : p = proc[w].on /\ c = proc[w].count
  BY <1>0
<1> DEFINE new == [status |-> status, count |-> c,
                   next |-> IF status = "done" THEN "none" ELSE NextRetry(w, c)]
<1>2. new \in AttemptRow /\ new.status = status /\ new.count = c
  BY <1>1, NextRetryType DEF AttemptRow
<1>3. rows' = [rows EXCEPT ![p] = Append(@, new)] /\ proc' = [proc EXCEPT ![w] = Idle]
  BY <1>1 DEF Fetched
<1> HIDE DEF new
<1>4. /\ rows' \in [Payment -> Seq(AttemptRow)]
      /\ Len(rows'[p]) = Len(rows[p]) + 1 /\ Len(rows[p]) \in Nat
      /\ Attempts(p)' = Attempts(p) \union {new}
      /\ Done(p)' = Done(p) \union {n \in {Len(rows[p]) + 1} : new.status = "done"}
      /\ \A q \in Payment : q # p => rows'[q] = rows[q]
  BY <1>1, <1>2, <1>3, OneRowMore
<1>5. /\ proc' \in [Process -> [on : 0 .. P, count : Nat]]
      /\ proc'[w].on = 0
      /\ \A v \in Process : v # w => proc'[v] = proc[v]
  BY <1>3 DEF RetrievalTypeOK, Idle
<1>6. RetrievalTypeOK'
  BY <1>0, <1>4, <1>5 DEF RetrievalTypeOK
<1>7. \A q \in Payment : q # p =>
        /\ Received(q)' <=> Received(q)
        /\ Exhausted(q)' <=> Exhausted(q)
        /\ GivenUp(q)' <=> GivenUp(q)
        /\ Done(q)' = Done(q)
        /\ \A k \in Nat : IsNext(q, k)' <=> IsNext(q, k)
  <2>1. \A q \in Payment : q # p => Attempts(q)' = Attempts(q) /\ Done(q)' = Done(q)
    BY <1>4 DEF Attempts, Done
  <2> QED
    BY <2>1 DEF Received, Exhausted, GivenUp, IsNext
<1>8. CountsGoOn'
  <2>1. \E k \in 1 .. Len(rows'[p]) + 1 : IsNext(p, k)'
    <3>1. PICK k \in 1 .. Len(rows[p]) + 1 : IsNext(p, k)
      BY <1>1 DEF CountsGoOn
    <3>2. new.count \in 1 .. Len(rows[p]) + 1
      BY <1>1, <1>2 DEF CountsGoOn, Payment
    <3>3. \A r \in Attempts(p) : r.count \in Nat
      <4>1. \A n \in DOMAIN rows[p] : rows[p][n] \in AttemptRow
        BY DEF RetrievalTypeOK
      <4> QED
        BY <4>1 DEF Attempts, AttemptRow
    <3>4. CASE new.count < k
      <4>1. IsNext(p, k)'
        BY <1>4, <3>1, <3>4 DEF IsNext
      <4> QED
        BY <1>4, <4>1
    <3>5. CASE ~ new.count < k
      <4>1. IsNext(p, new.count + 1)'
        BY <1>4, <3>1, <3>2, <3>3, <3>5 DEF IsNext
      <4> QED
        BY <1>4, <3>2, <4>1
    <3> QED
      BY <3>4, <3>5
  <2>2. \A q \in Payment : \E k \in 1 .. Len(rows'[q]) + 1 : IsNext(q, k)'
    <3>1. \A q \in Payment : q # p => \E k \in 1 .. Len(rows'[q]) + 1 : IsNext(q, k)'
      <4>1. \A q \in Payment : Len(rows[q]) \in Nat
        BY DEF RetrievalTypeOK
      <4>2. \A q \in Payment : q # p =>
              \E k \in 1 .. Len(rows'[q]) + 1 : k \in Nat /\ IsNext(q, k)
        BY <1>4, <4>1 DEF CountsGoOn
      <4> QED
        BY <1>7, <4>2
    <3> QED
      BY <2>1, <3>1
  <2>3. ASSUME NEW v \in Process, proc'[v].on # 0
        PROVE  proc'[v].count \in 1 .. Len(rows'[proc'[v].on]) + 1
    <3>1. v # w /\ proc'[v] = proc[v] /\ proc[v].on \in Payment
      BY <1>5, <2>3 DEF RetrievalTypeOK, Payment
    <3>2. proc[v].count \in 1 .. Len(rows[proc[v].on]) + 1
      BY <2>3, <3>1 DEF CountsGoOn
    <3> QED
      BY <1>4, <3>1, <3>2
  <2> QED
    BY <2>2, <2>3 DEF CountsGoOn
<1>9. /\ \A q \in Payment : Fetching(q)' \subseteq Fetching(q)
      /\ w \in Fetching(p) /\ w \notin Fetching(p)'
  BY <1>1, <1>5 DEF Fetching, Payment
<1>10. FetchesAreFresh'
  <2>1. p \notin raced => Fetching(p)' = {}
    BY <1>9 DEF FetchesAreFresh
  <2> QED
    BY <1>0, <1>7, <1>9, <2>1 DEF FetchesAreFresh
<1>11. OneCheckOrOneAlert'
  <2>1. \A q \in Payment : q # p /\ q \notin raced =>
           /\ Cardinality(Done(q)') <= 1
           /\ (q \notin extra /\ Received(q)') => ~ GivenUp(q)'
    BY <1>7 DEF OneCheckOrOneAlert
  <2>2. ASSUME p \notin raced
        PROVE  /\ Cardinality(Done(p)') <= 1
               /\ (p \notin extra /\ Received(p)') => ~ GivenUp(p)'
    <3>1. ~ Received(p) /\ (p \in extra \/ ~ Exhausted(p))
      BY <1>1, <1>9, <2>2 DEF FetchesAreFresh
    <3>2. Done(p) = {}
      BY <3>1 DEF Done, Received, Attempts
    <3>3. Done(p)' = {} \/ Done(p)' = {Len(rows[p]) + 1}
      BY <1>4, <3>2
    <3>4. Cardinality(Done(p)') <= 1
      <4>1. Cardinality({}) = 0 /\ \A x : Cardinality({x}) = 1
        BY FS_EmptySet, FS_Singleton
      <4>2. Cardinality(Done(p)') \in {0, 1}
        BY <3>3, <4>1, Zenon
      <4> QED
        BY <4>2
    <3>5. (p \notin extra /\ Received(p)') => ~ GivenUp(p)'
      BY <1>2, <1>4, <3>1 DEF Received, GivenUp, Exhausted
    <3> QED
      BY <3>4, <3>5
  <2> QED
    BY <1>0, <2>1, <2>2 DEF OneCheckOrOneAlert
<1> QED
  BY <1>6, <1>8, <1>10, <1>11

LEMMA RetrievalStep == RetrievalInv /\ [RetrievalNext]_retrievalVars => RetrievalInv'
<1> SUFFICES ASSUME RetrievalInv, [RetrievalNext]_retrievalVars PROVE RetrievalInv'
  OBVIOUS
<1> USE DEF RetrievalInv
<1>1. ASSUME UNCHANGED <<rows, proc, raced, extra, failures>>,
             paid' \subseteq Payment, batch' \subseteq Payment
      PROVE  RetrievalInv'
  <2>1. RetrievalTypeOK'
    BY <1>1 DEF RetrievalTypeOK
  <2> QED
    BY <1>1, <2>1, NothingFetched DEF SameRows
<1>2. ASSUME NEW p \in Payment, Pay(p) PROVE RetrievalInv'
  BY <1>1, <1>2 DEF Pay, RetrievalTypeOK
<1>3. CASE List
  <2>1. batch' \subseteq Payment
    BY <1>3 DEF List, Earliest, Requiring, RetrievalTypeOK
  <2> QED
    BY <1>1, <1>3, <2>1 DEF List, RetrievalTypeOK
<1>4. ASSUME NEW p \in Payment, NEW n, DelayPasses(p, n) PROVE RetrievalInv'
  <2>1. /\ n \in DOMAIN rows[p]
        /\ rows' = [rows EXCEPT ![p] = [@ EXCEPT ![n].next = "due"]]
        /\ UNCHANGED <<paid, proc, batch, raced, extra, failures>>
    BY <1>4 DEF DelayPasses
  <2>2. rows[p] \in Seq(AttemptRow) /\ rows[p][n] \in AttemptRow
    BY <2>1 DEF RetrievalTypeOK
  <2> DEFINE due == [rows[p][n] EXCEPT !.next = "due"]
             later == [rows[p] EXCEPT ![n] = due]
  <2>3. due \in AttemptRow /\ due.status = rows[p][n].status /\ due.count = rows[p][n].count
    BY <2>2 DEF AttemptRow
  <2>4. rows' = [rows EXCEPT ![p] = later]
    BY <2>1
  <2> HIDE DEF due
  <2>5. later \in Seq(AttemptRow) /\ Len(later) = Len(rows[p])
    BY <2>1, <2>2, <2>3
  <2>6. \A m \in DOMAIN rows[p] : later[m] = IF m = n THEN due ELSE rows[p][m]
    BY <2>1, <2>2
  <2> HIDE DEF later
  <2>7. /\ rows' \in [Payment -> Seq(AttemptRow)] /\ rows'[p] = later
        /\ \A q \in Payment : q # p => rows'[q] = rows[q]
    BY <2>4, <2>5 DEF RetrievalTypeOK
  <2>8. \A q \in Payment : SameRows(q)
    BY <2>3, <2>5, <2>6, <2>7 DEF SameRows
  <2>9. RetrievalTypeOK'
    BY <2>1, <2>7 DEF RetrievalTypeOK
  <2> QED
    BY <2>1, <2>8, <2>9, NothingFetched
<1>5. ASSUME NEW h \in Requester, NEW p \in Payment, RequestBegins(h, p) PROVE RetrievalInv'
  BY <1>5, BeginKeeps DEF RequestBegins, Process, RetrievalTypeOK
<1>6. ASSUME NEW p \in Payment, WorkerBegins(p) PROVE RetrievalInv'
  BY <1>6, BeginKeeps DEF WorkerBegins, Process, RetrievalTypeOK
<1>7. CASE UNCHANGED retrievalVars
  BY <1>1, <1>7 DEF retrievalVars, RetrievalTypeOK
<1> QED
  BY <1>2, <1>3, <1>4, <1>5, <1>6, <1>7, FetchedKeeps, FailsKeeps DEF RetrievalNext

----------------------------------------------------------------------------
LEMMA RetrievalInvariant == RetrievalSpec => []RetrievalInv
BY RetrievalStarts, RetrievalStep, PTL DEF RetrievalSpec

\* Rows, counts and delays stay in the ranges of their columns, and a count is
\* always found (next_receipt_retry_count).
THEOREM RetrievalTypeCorrect == RetrievalSpec => []RetrievalTypeOK
<1>1. RetrievalInv => RetrievalTypeOK
  BY DEF RetrievalInv
<1> QED
  BY <1>1, RetrievalInvariant, PTL

\* However many processes try for an order, and die over it: it has one row with a
\* check unless two of them fetched at once, and no alert beside a check
\* unless a request went on after the last attempt (ensure_success_receipts).
THEOREM OneCheck == RetrievalSpec => []OneCheckOrOneAlert
<1>1. RetrievalInv => OneCheckOrOneAlert
  BY DEF RetrievalInv
<1> QED
  BY <1>1, RetrievalInvariant, PTL

----------------------------------------------------------------------------
\* A behaviour of the whole way of a check is one of each half: what is proved
\* of the retrieval and of the delivery holds when they are put together.
THEOREM HalvesAreKept == MessagesSpec => Spec /\ RetrievalSpec
<1>1. MessagesInit => Init /\ RetrievalInit
  BY DEF MessagesInit
<1>2. [MessagesNext]_messageVars => [Next]_vars
  BY DEF MessagesNext, Delivering, Retrieving, messageVars
<1>3. [MessagesNext]_messageVars => [RetrievalNext]_retrievalVars
  BY DEF MessagesNext, Delivering, Retrieving, messageVars
<1>4. MessagesSpec => MessagesInit /\ [][MessagesNext]_messageVars
  BY DEF MessagesSpec
<1> QED
  BY <1>1, <1>2, <1>3, <1>4, PTL DEF Spec, RetrievalSpec

=============================================================================

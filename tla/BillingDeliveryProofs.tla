------------------------ MODULE BillingDeliveryProofs ------------------------
(* Proofs about BillingDelivery, for any rows, chats, polls and faults.      *)
EXTENDS BillingDelivery, TLAPS

\* Why the record can be trusted.  A result still awaited is the only one not
\* late, the late ones have tainted their rows, and what the bot is about to
\* send of an untainted row was never shown.
Told(i) == \E m \in told : m[1] = i
Addressed(m) == m[2] \in Audience[m[1]]

AcksAreTrue ==
  /\ \A a \in acks : a.ok => Told(a.item)
  /\ \A a \in acks : a.late => a.item \in tainted
  /\ \A a \in acks : ~ a.late => bot.phase = "saving"
  /\ \A a, b \in acks : ~ a.late /\ ~ b.late => a = b
  /\ \A a \in acks :
       (~ a.ok /\ a.item \notin tainted /\ Kind[a.item] = "notice") => ~ Told(a.item)

RowsAreTrue ==
  \A i \in Item :
    /\ row[i].status = "sent" => Told(i)
    /\ (i \notin tainted /\ Told(i)) =>
         row[i].status = "sent" \/ \E a \in acks : a.item = i /\ a.ok

BatchIsFresh ==
  /\ bot.phase \in {"asleep", "asking"} => bot.batch = {}
  /\ \A m \in bot.batch : m[1] \notin tainted => m \notin told
  /\ \A m \in again : m[1] \in tainted

PollIsFresh ==
  /\ \A h \in Handler : call[h].next = 0 => call[h] = NoCall
  /\ bot.phase = "asking" =>
       \A h \in bot.on :
         /\ \A i \in call[h].work : i \notin tainted => ~ Told(i)
         /\ \A m \in call[h].reply : m[1] \notin tainted => ~ Told(m[1])

MessagesAreAddressed ==
  /\ \A m \in told \union bot.batch : Addressed(m)
  /\ \A h \in Handler : \A m \in call[h].reply : Addressed(m)

DeliveryInv ==
  /\ DeliveryTypeOK
  /\ AcksAreTrue
  /\ RowsAreTrue
  /\ BatchIsFresh
  /\ PollIsFresh
  /\ MessagesAreAddressed

----------------------------------------------------------------------------
LEMMA ItemsOfResults ==
  ASSUME NEW S, S \subseteq Results
  PROVE  {a.item : a \in S} \subseteq Item
<1>1. \A a \in S : a.item \in Item
  BY DEF Results
<1> QED
  BY <1>1

USE DeliveryAssumption

LEMMA MessageParts ==
  ASSUME NEW m \in Message
  PROVE  m[1] \in Item /\ m[2] \in Chat /\ m = <<m[1], m[2]>>
BY DEF Message

LEMMA SettledIsRow ==
  ASSUME NEW i \in Item, NEW s \in Status
  PROVE  Settled(i, s) \in Row
BY DEF Settled, Row

LEMMA MarkedIsRow ==
  ASSUME row \in [Item -> Row], NEW i \in Item, NEW s \in Status
  PROVE  Marked(i, s) \in Row
BY SettledIsRow DEF Marked, NoticeMarked, ReceiptMarked, AlertMarked

\* A mark is the new status, or a success that no failure overwrites.
LEMMA MarkedStatus ==
  ASSUME row \in [Item -> Row], NEW i \in Item, NEW s \in Status
  PROVE  \/ Marked(i, s) = Settled(i, s)
         \/ Marked(i, s) = row[i] /\ Kind[i] # "notice" /\ row[i].status = "sent" /\ s = "failed"
BY DEF Marked, NoticeMarked, ReceiptMarked, AlertMarked

LEMMA SuccessWins ==
  ASSUME row \in [Item -> Row], NEW i \in Item,
         Kind[i] # "notice", row[i].status = "sent"
  PROVE  Marked(i, "failed") = row[i]
BY DEF Marked, ReceiptMarked, AlertMarked

LEMMA DueIsNotSent ==
  ASSUME NEW kind \in {"notice", "receipt", "alert"}, NEW i \in Due(kind)
  PROVE  i \in Item /\ row[i].status # "sent"
BY DEF Due, DueNotice, DueReceipt, DueAlert

LEMMA UpdatedInType ==
  ASSUME earlier \subseteq Alerts \X Alerts, NEW S
  PROVE  Updated(S) \subseteq Alerts \X Alerts
BY DEF Updated

LEMMA TypeInit == Init => DeliveryTypeOK
BY DEF Init, DeliveryTypeOK, NoCall, Asleep, Row, Status

LEMMA TypeStep == DeliveryTypeOK /\ [Next]_vars => DeliveryTypeOK'
<1> SUFFICES ASSUME DeliveryTypeOK, [Next]_vars PROVE DeliveryTypeOK'
  OBVIOUS
<1> USE DEF DeliveryTypeOK
<1>0. Fault => faults' \in 0 .. MaxFaults
  BY DEF Fault
<1>1. ASSUME NEW i \in Item, Enqueue(i) PROVE DeliveryTypeOK'
  BY <1>1, UpdatedInType DEF Enqueue, Row, Status
<1>2. ASSUME NEW i \in Item, LeaseRunsOut(i) PROVE DeliveryTypeOK'
  <2>1. row' \in [Item -> Row]
    BY <1>2 DEF LeaseRunsOut, Row, Status
  <2> QED
    BY <1>2, <2>1 DEF LeaseRunsOut
<1>3. ASSUME NEW h \in Handler, Claim(h) PROVE DeliveryTypeOK'
  <2> DEFINE claimed == Oldest(Due(Kinds[call[h].next]))
  <2>1. claimed \subseteq Item
    BY DEF Oldest, Due
  <2>2. row' \in [Item -> Row]
    BY <1>3, SettledIsRow DEF Claim, Status
  <2>3. call' \in [Handler -> [next : 0 .. 4, work : SUBSET Item, reply : SUBSET Message]]
    BY <1>3, <2>1 DEF Claim
  <2>4. earlier' \subseteq Alerts \X Alerts
    BY <1>3, UpdatedInType DEF Claim
  <2> QED
    BY <1>3, <2>2, <2>3, <2>4 DEF Claim
<1>4. ASSUME NEW h \in Handler, NEW i \in Item, Build(h, i) PROVE DeliveryTypeOK'
  <2>1. row' \in [Item -> Row]
    BY <1>4, MarkedIsRow DEF Build, Unreachable, Status
  <2>2. {i} \X Audience[i] \subseteq Message
    BY DEF Message
  <2> QED
    BY <1>4, <2>1, <2>2 DEF Build
<1>5. ASSUME NEW h \in Handler, NEW i \in Item, BuildFails(h, i) PROVE DeliveryTypeOK'
  BY <1>5, MarkedIsRow DEF BuildFails, Fault, Status
<1>6. ASSUME NEW h \in Handler, Answer(h) PROVE DeliveryTypeOK'
  BY <1>6 DEF Answer, NoCall, Busy
<1>7. ASSUME NEW h \in Handler, ApiFails(h) PROVE DeliveryTypeOK'
  BY <1>7 DEF ApiFails, Fault, NoCall, Asleep
<1>8. ASSUME NEW a \in acks, HandleAck(a) PROVE DeliveryTypeOK'
  <2>1. a.item \in Item /\ a \in Results
    BY DEF Results
  <2>2. row' \in [Item -> Row]
    BY <1>8, <2>1, MarkedIsRow DEF HandleAck, Status
  <2>3. earlier' \subseteq Alerts \X Alerts
    BY <1>8, UpdatedInType DEF HandleAck
  <2> QED
    BY <1>8, <2>2, <2>3 DEF HandleAck, Busy
<1>9. ASSUME NEW h \in Handler, Ask(h) PROVE DeliveryTypeOK'
  <2>1. /\ call' = [call EXCEPT ![h].next = 1]
        /\ bot' = [phase |-> "asking", on |-> {h}, batch |-> {}]
        /\ UNCHANGED <<row, earlier, acks, told, again, tainted, faults>>
    BY <1>9 DEF Ask
  <2> QED
    BY <2>1
<1>10. ASSUME NEW m \in Message, NEW ok \in BOOLEAN, Post(m, ok)
       PROVE  /\ bot' \in [phase : {"asleep", "asking", "sending", "saving"},
                           on : SUBSET Handler, batch : SUBSET Message]
              /\ acks' \subseteq Results
  <2>1. m[1] \in Item
    BY MessageParts
  <2>2. Result(m[1], ok, FALSE) \in Results
    BY <2>1 DEF Result, Results
  <2>3. bot.batch \ {m} \subseteq Message
    OBVIOUS
  <2> QED
    BY <1>10, <2>2, <2>3 DEF Post, Busy
<1>11. ASSUME NEW m \in Message, Send(m) PROVE DeliveryTypeOK'
  BY <1>10, <1>11 DEF Send, Shown
<1>12. ASSUME NEW m \in Message, SendFails(m) PROVE DeliveryTypeOK'
  BY <1>0, <1>10, <1>12 DEF SendFails
<1>13. ASSUME NEW m \in Message, SendTimesOut(m) PROVE DeliveryTypeOK'
  <2>1. m[1] \in Item
    BY MessageParts
  <2>2. told' \subseteq Message /\ again' \subseteq told'
    BY <1>13 DEF SendTimesOut, Shown
  <2> QED
    BY <1>0, <1>10, <1>13, <2>1, <2>2 DEF SendTimesOut
<1>14. ASSUME Rest PROVE DeliveryTypeOK'
  BY <1>14 DEF Rest, Asleep
<1>15. ASSUME BotStops PROVE DeliveryTypeOK'
  <2>1. \A a \in acks : Result(a.item, a.ok, TRUE) \in Results /\ a.item \in Item
    BY DEF Result, Results
  <2>2. acks' \subseteq Results
    BY <1>15, <2>1 DEF BotStops
  <2>3. {a.item : a \in acks} \subseteq Item
    BY ItemsOfResults
  <2>4. tainted' = tainted \union {a.item : a \in acks}
    BY <1>15 DEF BotStops
  <2>5. tainted' \subseteq Item
    BY <2>3, <2>4
  <2> QED
    BY <1>0, <1>15, <2>2, <2>5 DEF BotStops, Asleep
<1>16. ASSUME NEW a \in acks, LoseAck(a) PROVE DeliveryTypeOK'
  BY <1>16 DEF LoseAck
<1>17. CASE UNCHANGED vars
  BY <1>17 DEF vars
<1> QED
  BY <1>1, <1>2, <1>3, <1>4, <1>5, <1>6, <1>7, <1>8, <1>9, <1>11, <1>12, <1>13, <1>14,
     <1>15, <1>16, <1>17 DEF Next, ApiStep, BotStep

\* Every reachable state is well typed.
THEOREM DeliveryTypeCorrect == Spec => []DeliveryTypeOK
BY TypeInit, TypeStep, PTL DEF Spec

----------------------------------------------------------------------------
(* The inductive invariant. *)

LEMMA InvInit == Init => DeliveryInv
BY TypeInit DEF Init, DeliveryInv, AcksAreTrue, RowsAreTrue, BatchIsFresh, PollIsFresh,
   MessagesAreAddressed, Told, NoCall, Asleep

LEMMA InvEnqueue ==
  ASSUME DeliveryInv, NEW i \in Item, Enqueue(i) \/ LeaseRunsOut(i)
  PROVE  AcksAreTrue' /\ RowsAreTrue' /\ BatchIsFresh' /\ PollIsFresh' /\ MessagesAreAddressed'
<1> USE DEF DeliveryInv
<1>1. /\ UNCHANGED <<call, bot, acks, told, again, tainted>>
      /\ \A j \in Item : row'[j].status = "sent" <=> row[j].status = "sent"
  BY DEF Enqueue, LeaseRunsOut, DeliveryTypeOK, Row, Status
<1>2. AcksAreTrue'
  BY <1>1 DEF AcksAreTrue, Told
<1>3. RowsAreTrue'
  BY <1>1 DEF RowsAreTrue, Told
<1>4. BatchIsFresh' /\ PollIsFresh' /\ MessagesAreAddressed'
  BY <1>1 DEF BatchIsFresh, PollIsFresh, MessagesAreAddressed, Told, Addressed
<1> QED
  BY <1>2, <1>3, <1>4

\* An untainted row that was told is recorded or about to be, so it is not due.
LEMMA InvClaim ==
  ASSUME DeliveryInv, NEW h \in Handler, Claim(h)
  PROVE  AcksAreTrue' /\ RowsAreTrue' /\ BatchIsFresh' /\ PollIsFresh' /\ MessagesAreAddressed'
<1> USE DEF DeliveryInv
<1> DEFINE claimed == Oldest(Due(Kinds[call[h].next]))
<1>1. /\ UNCHANGED <<bot, acks, told, again, tainted>>
      /\ call' = [call EXCEPT ![h].work = claimed, ![h].next = call[h].next + 1]
      /\ call[h].next \in 1 .. 3
  BY DEF Claim
<1>2. \A i \in claimed : i \in Item /\ row[i].status # "sent"
  <2>1. Kinds[call[h].next] \in {"notice", "receipt", "alert"}
    BY <1>1 DEF Kinds
  <2> QED
    BY <2>1, DueIsNotSent DEF Oldest
<1>3. \A i \in Item : row'[i].status = "sent" <=> row[i].status = "sent"
  BY <1>2 DEF Claim, Settled
<1>4. AcksAreTrue'
  BY <1>1 DEF AcksAreTrue, Told
<1>5. RowsAreTrue'
  BY <1>1, <1>3 DEF RowsAreTrue, Told
<1>6. BatchIsFresh'
  BY <1>1 DEF BatchIsFresh
<1>7. \A g \in Handler : /\ call'[g].reply = call[g].reply
                         /\ g # h => call'[g] = call[g]
  BY <1>1 DEF DeliveryTypeOK
<1>8. call'[h].work = claimed /\ call'[h].next # 0
  BY <1>1 DEF DeliveryTypeOK
<1>9. PollIsFresh'
  <2>1. ASSUME bot.phase = "asking", NEW i \in claimed, i \notin tainted
        PROVE  ~ Told(i)
    BY <1>2, <2>1 DEF RowsAreTrue, AcksAreTrue
  <2>2. \A g \in Handler : call'[g].next = 0 => call'[g] = NoCall
    BY <1>7, <1>8 DEF PollIsFresh
  <2>3. ASSUME bot.phase = "asking", NEW g \in bot.on
        PROVE  /\ \A i \in call'[g].work : i \notin tainted => ~ Told(i)
               /\ \A m \in call'[g].reply : m[1] \notin tainted => ~ Told(m[1])
    <3>1. g \in Handler
      BY DEF DeliveryTypeOK
    <3>2. CASE g = h
      BY <1>7, <1>8, <2>1, <2>3, <3>1, <3>2 DEF PollIsFresh
    <3>3. CASE g # h
      BY <1>7, <2>3, <3>1, <3>3 DEF PollIsFresh
    <3> QED
      BY <3>2, <3>3
  <2> QED
    BY <1>1, <2>2, <2>3 DEF PollIsFresh, Told
<1>10. MessagesAreAddressed'
  BY <1>1, <1>7 DEF MessagesAreAddressed, Addressed
<1> QED
  BY <1>4, <1>5, <1>6, <1>9, <1>10

\* A row without an audience was never told, and a claim that is still a poll's
\* own is not recorded as sent.
LEMMA InvBuild ==
  ASSUME DeliveryInv, NEW h \in Handler, NEW i \in Item, Build(h, i) \/ BuildFails(h, i)
  PROVE  AcksAreTrue' /\ RowsAreTrue' /\ BatchIsFresh' /\ PollIsFresh' /\ MessagesAreAddressed'
<1> USE DEF DeliveryInv
<1>1. UNCHANGED <<bot, acks, told, again>> /\ i \in call[h].work /\ i \in Item
  BY DEF Build, BuildFails, NextToBuild
<1>2. /\ tainted \subseteq tainted'
      /\ tainted' \subseteq tainted \union {i}
  BY DEF Build, BuildFails
<1>3. \A j \in Item : j # i => row'[j] = row[j]
  BY DEF Build, BuildFails, DeliveryTypeOK
<1>4. \/ row'[i] = row[i]
      \/ i \in tainted' /\ row'[i].status # "sent"
      \/ ~ Told(i) /\ row'[i].status # "sent"
      \/ row[i].status = "claimed" /\ row'[i].status # "sent"
  <2>1. CASE Build(h, i)
    <3>1. CASE Audience[i] = {}
      <4>1. ~ Told(i)
        BY <3>1 DEF Told, MessagesAreAddressed, Addressed
      <4>2. row'[i] = Marked(i, Unreachable(i))
        BY <2>1, <3>1 DEF Build, DeliveryTypeOK
      <4> QED
        BY <4>1, <4>2, MarkedStatus DEF Unreachable, Status, Settled, DeliveryTypeOK
    <3>2. CASE Audience[i] # {}
      BY <2>1, <3>2 DEF Build
    <3> QED
      BY <3>1, <3>2
  <2>2. CASE BuildFails(h, i)
    <3>1. row'[i] = Marked(i, "failed")
      BY <2>2 DEF BuildFails, DeliveryTypeOK
    <3>2. row[i].status = "claimed" \/ i \in tainted'
      BY <2>2 DEF BuildFails
    <3> QED
      BY <3>1, <3>2, MarkedStatus DEF Status, Settled, DeliveryTypeOK
  <2> QED
    BY <2>1, <2>2
<1>5. AcksAreTrue'
  BY <1>1, <1>2 DEF AcksAreTrue, Told
<1>6. RowsAreTrue'
  <2>1. ASSUME NEW j \in Item, j # i
        PROVE  /\ row'[j].status = "sent" => Told(j)
               /\ (j \notin tainted' /\ Told(j)) =>
                    row'[j].status = "sent" \/ \E a \in acks : a.item = j /\ a.ok
    BY <1>2, <1>3, <2>1 DEF RowsAreTrue
  <2>2. /\ row'[i].status = "sent" => Told(i)
        /\ (i \notin tainted' /\ Told(i)) =>
             row'[i].status = "sent" \/ \E a \in acks : a.item = i /\ a.ok
    BY <1>2, <1>4 DEF RowsAreTrue
  <2> QED
    BY <1>1, <2>1, <2>2 DEF RowsAreTrue, Told
<1>7. BatchIsFresh'
  BY <1>1, <1>2 DEF BatchIsFresh
<1>8. /\ \A g \in Handler : g # h => call'[g] = call[g]
      /\ call'[h].next = call[h].next
      /\ call'[h].work \subseteq call[h].work
      /\ \A m \in call'[h].reply :
           m \in call[h].reply \/ (m[1] = i /\ m[2] \in Audience[i])
  BY DEF Build, BuildFails, DeliveryTypeOK
<1>9. PollIsFresh'
  <2>1. \A g \in Handler : call'[g].next = 0 => call'[g] = NoCall
    BY <1>1, <1>8 DEF PollIsFresh, NoCall
  <2>2. ASSUME bot.phase = "asking", NEW g \in bot.on
        PROVE  /\ \A j \in call'[g].work : j \notin tainted' => ~ Told(j)
               /\ \A m \in call'[g].reply : m[1] \notin tainted' => ~ Told(m[1])
    <3>1. g \in Handler
      BY DEF DeliveryTypeOK
    <3>2. CASE g = h
      BY <1>1, <1>2, <1>8, <2>2, <3>2 DEF PollIsFresh
    <3>3. CASE g # h
      BY <1>2, <1>8, <2>2, <3>1, <3>3 DEF PollIsFresh
    <3> QED
      BY <3>2, <3>3
  <2> QED
    BY <1>1, <2>1, <2>2 DEF PollIsFresh, Told
<1>10. MessagesAreAddressed'
  BY <1>1, <1>8 DEF MessagesAreAddressed, Addressed
<1> QED
  BY <1>5, <1>6, <1>7, <1>9, <1>10

\* While the bot waits for an answer every result under way is late.
LEMMA InvAnswer ==
  ASSUME DeliveryInv, NEW h \in Handler, Answer(h)
  PROVE  AcksAreTrue' /\ RowsAreTrue' /\ BatchIsFresh' /\ PollIsFresh' /\ MessagesAreAddressed'
<1> USE DEF DeliveryInv
<1>1. /\ UNCHANGED <<row, acks, told, again, tainted>>
      /\ call' = [call EXCEPT ![h] = NoCall]
  BY DEF Answer
<1>2. \/ bot' = bot /\ ~ (bot.phase = "asking" /\ h \in bot.on)
      \/ /\ bot.phase = "asking" /\ h \in bot.on
         /\ bot' = [phase |-> "sending", on |-> {}, batch |-> call[h].reply]
  BY DEF Answer, Busy
<1>3. AcksAreTrue'
  BY <1>1, <1>2 DEF AcksAreTrue, Told
<1>4. RowsAreTrue'
  BY <1>1 DEF RowsAreTrue, Told
<1>5. BatchIsFresh'
  BY <1>1, <1>2 DEF BatchIsFresh, PollIsFresh, Told
<1>6. \A g \in Handler : call'[g] = IF g = h THEN NoCall ELSE call[g]
  BY <1>1 DEF DeliveryTypeOK
<1>7. PollIsFresh'
  <2>1. \A g \in Handler : call'[g].next = 0 => call'[g] = NoCall
    BY <1>6 DEF PollIsFresh, NoCall
  <2>2. ASSUME bot'.phase = "asking", NEW g \in bot'.on
        PROVE  /\ \A j \in call'[g].work : j \notin tainted => ~ Told(j)
               /\ \A m \in call'[g].reply : m[1] \notin tainted => ~ Told(m[1])
    <3>1. bot' = bot /\ g \in Handler
      BY <1>2, <2>2 DEF DeliveryTypeOK
    <3>2. call'[g] = NoCall \/ call'[g] = call[g]
      BY <1>6, <3>1
    <3> QED
      BY <2>2, <3>1, <3>2 DEF PollIsFresh, NoCall
  <2> QED
    BY <1>1, <2>1, <2>2 DEF PollIsFresh, Told
<1>8. MessagesAreAddressed'
  BY <1>1, <1>2, <1>6 DEF MessagesAreAddressed, Addressed, NoCall
<1> QED
  BY <1>3, <1>4, <1>5, <1>7, <1>8

LEMMA InvApiFails ==
  ASSUME DeliveryInv, NEW h \in Handler, ApiFails(h)
  PROVE  AcksAreTrue' /\ RowsAreTrue' /\ BatchIsFresh' /\ PollIsFresh' /\ MessagesAreAddressed'
<1> USE DEF DeliveryInv
<1>1. /\ UNCHANGED <<row, acks, told, again, tainted>>
      /\ call' = [call EXCEPT ![h] = NoCall]
  BY DEF ApiFails
<1>2. \/ bot' = bot
      \/ bot.phase = "asking" /\ bot' = Asleep
  BY DEF ApiFails
<1>3. AcksAreTrue'
  BY <1>1, <1>2 DEF AcksAreTrue, Told, Asleep
<1>4. RowsAreTrue'
  BY <1>1 DEF RowsAreTrue, Told
<1>5. BatchIsFresh'
  BY <1>1, <1>2 DEF BatchIsFresh, Asleep
<1>6. \A g \in Handler : call'[g] = IF g = h THEN NoCall ELSE call[g]
  BY <1>1 DEF DeliveryTypeOK
<1>7. PollIsFresh'
  <2>1. \A g \in Handler : call'[g].next = 0 => call'[g] = NoCall
    BY <1>6 DEF PollIsFresh, NoCall
  <2>2. ASSUME bot'.phase = "asking", NEW g \in bot'.on
        PROVE  /\ \A j \in call'[g].work : j \notin tainted => ~ Told(j)
               /\ \A m \in call'[g].reply : m[1] \notin tainted => ~ Told(m[1])
    <3>1. bot' = bot /\ g \in Handler
      BY <1>2, <2>2 DEF DeliveryTypeOK, Asleep
    <3>2. call'[g] = NoCall \/ call'[g] = call[g]
      BY <1>6, <3>1
    <3> QED
      BY <2>2, <3>1, <3>2 DEF PollIsFresh, NoCall
  <2> QED
    BY <1>1, <2>1, <2>2 DEF PollIsFresh, Told
<1>8. MessagesAreAddressed'
  BY <1>1, <1>2, <1>6 DEF MessagesAreAddressed, Addressed, NoCall, Asleep
<1> QED
  BY <1>3, <1>4, <1>5, <1>7, <1>8

\* A failure is recorded over a success of a notification only if its result
\* came late, and the row of a late result is tainted.
LEMMA InvHandleAck ==
  ASSUME DeliveryInv, NEW a \in acks, HandleAck(a)
  PROVE  AcksAreTrue' /\ RowsAreTrue' /\ BatchIsFresh' /\ PollIsFresh' /\ MessagesAreAddressed'
<1> USE DEF DeliveryInv
<1> DEFINE i == a.item
<1>1. /\ UNCHANGED <<call, told, again, tainted>>
      /\ acks' = acks \ {a}
      /\ bot' = IF a.late THEN bot ELSE [phase |-> "sending", on |-> {}, batch |-> bot.batch]
      /\ row' = [row EXCEPT ![i] = Marked(i, IF a.ok THEN "sent" ELSE "failed")]
  BY DEF HandleAck, Busy
<1>2. i \in Item /\ a.ok \in BOOLEAN /\ a.late \in BOOLEAN
  BY DEF DeliveryTypeOK, Results
<1>3. \A j \in Item : j # i => row'[j] = row[j]
  BY <1>1 DEF DeliveryTypeOK
<1>4. row'[i] = Marked(i, IF a.ok THEN "sent" ELSE "failed")
  BY <1>1, <1>2 DEF DeliveryTypeOK
<1>5. AcksAreTrue'
  BY <1>1, <1>2 DEF AcksAreTrue, Told
<1>6. row'[i].status = "sent" => Told(i)
  <2>1. CASE a.ok
    BY <2>1 DEF AcksAreTrue
  <2>2. CASE ~ a.ok
    <3>1. row'[i] = Settled(i, "failed") \/ row'[i] = row[i]
      BY <1>2, <1>4, <2>2, MarkedStatus DEF Status, DeliveryTypeOK
    <3> QED
      BY <1>2, <3>1 DEF Settled, RowsAreTrue
  <2> QED
    BY <2>1, <2>2
<1>7. ASSUME i \notin tainted, Told(i) PROVE row'[i].status = "sent"
  <2>1. CASE a.ok
    <3>1. row'[i] = Settled(i, "sent")
      BY <1>2, <1>4, <2>1, MarkedStatus DEF Status, DeliveryTypeOK
    <3> QED
      BY <3>1 DEF Settled
  <2>2. CASE ~ a.ok
    <3>1. ~ a.late /\ Kind[i] # "notice"
      BY <1>7, <2>2 DEF AcksAreTrue
    <3>2. ~ \E b \in acks : b.item = i /\ b.ok
      BY <1>7, <2>2, <3>1 DEF AcksAreTrue
    <3>3. row[i].status = "sent"
      BY <1>2, <1>7, <3>2 DEF RowsAreTrue
    <3>4. row'[i] = row[i]
      BY <1>2, <1>4, <2>2, <3>1, <3>3, SuccessWins DEF DeliveryTypeOK
    <3> QED
      BY <3>3, <3>4
  <2> QED
    BY <2>1, <2>2
<1>8. RowsAreTrue'
  <2>1. ASSUME NEW j \in Item, j # i
        PROVE  /\ row'[j].status = "sent" => Told(j)
               /\ (j \notin tainted /\ Told(j)) =>
                    row'[j].status = "sent" \/ \E b \in acks' : b.item = j /\ b.ok
    BY <1>1, <1>3, <2>1 DEF RowsAreTrue
  <2> QED
    BY <1>1, <1>6, <1>7, <2>1 DEF RowsAreTrue, Told
<1>9. BatchIsFresh'
  BY <1>1 DEF BatchIsFresh
<1>10. PollIsFresh'
  BY <1>1 DEF PollIsFresh, Told
<1>11. MessagesAreAddressed'
  BY <1>1 DEF MessagesAreAddressed, Addressed
<1> QED
  BY <1>5, <1>8, <1>9, <1>10, <1>11

LEMMA InvAsk ==
  ASSUME DeliveryInv, NEW h \in Handler, Ask(h)
  PROVE  AcksAreTrue' /\ RowsAreTrue' /\ BatchIsFresh' /\ PollIsFresh' /\ MessagesAreAddressed'
<1> USE DEF DeliveryInv
<1>1. /\ UNCHANGED <<row, acks, told, again, tainted>>
      /\ bot.phase = "asleep" /\ call[h].next = 0
      /\ bot' = [phase |-> "asking", on |-> {h}, batch |-> {}]
  BY DEF Ask
<1>2. /\ \A g \in Handler : g # h => call'[g] = call[g]
      /\ call'[h].next = 1 /\ call'[h].work = call[h].work /\ call'[h].reply = call[h].reply
  BY DEF Ask, DeliveryTypeOK
<1>3. call[h].work = {} /\ call[h].reply = {}
  BY <1>1 DEF PollIsFresh, NoCall
<1>4. AcksAreTrue'
  BY <1>1 DEF AcksAreTrue, Told
<1>5. RowsAreTrue'
  BY <1>1 DEF RowsAreTrue, Told
<1>6. BatchIsFresh'
  BY <1>1 DEF BatchIsFresh
<1>7. PollIsFresh'
  BY <1>1, <1>2, <1>3 DEF PollIsFresh, Told
<1>8. MessagesAreAddressed'
  BY <1>1, <1>2 DEF MessagesAreAddressed, Addressed
<1> QED
  BY <1>4, <1>5, <1>6, <1>7, <1>8

\* The bot sends with no result awaited, so whatever is on its way is late.
LEMMA InvSend ==
  ASSUME DeliveryInv, NEW m \in Message, Send(m) \/ SendFails(m) \/ SendTimesOut(m)
  PROVE  AcksAreTrue' /\ RowsAreTrue' /\ BatchIsFresh' /\ PollIsFresh' /\ MessagesAreAddressed'
<1> USE DEF DeliveryInv
<1>1. /\ UNCHANGED <<row, call>>
      /\ bot.phase = "sending" /\ m \in bot.batch
      /\ bot' = [phase |-> "saving", on |-> {}, batch |-> bot.batch \ {m}]
      /\ tainted \subseteq tainted'
      /\ told \subseteq told' /\ told' \subseteq told \union {m}
      /\ again' = again \/ (m \in told /\ again' = again \union {m})
  BY DEF Send, SendFails, SendTimesOut, NextToSend, Post, Busy, Shown
<1>2. m[1] \in Item /\ Addressed(m)
  BY <1>1, MessageParts DEF MessagesAreAddressed
<1>3. PICK ok \in BOOLEAN :
        /\ acks' = acks \union {Result(m[1], ok, FALSE)}
        /\ ok => m \in told'
        /\ ~ ok => (told' = told \/ m[1] \in tainted')
        /\ m \in told' => (ok \/ m[1] \in tainted' \/ told' = told)
  BY DEF Send, SendFails, SendTimesOut, Post, Shown
<1>4. \A a \in acks : a.item \in tainted /\ a.late
  BY <1>1 DEF AcksAreTrue
<1>5. \A j : j # m[1] => (Told(j)' <=> Told(j))
  BY <1>1 DEF Told
<1>6. m[1] \notin tainted => m \notin told
  BY <1>1 DEF BatchIsFresh
<1>7. AcksAreTrue'
  <2>1. \A a \in acks' : a.ok => Told(a.item)'
    BY <1>1, <1>3 DEF AcksAreTrue, Told, Result
  <2>2. \A a \in acks' : a.late => a.item \in tainted'
    BY <1>1, <1>3, <1>4 DEF Result
  <2>3. \A a \in acks' : ~ a.late => bot'.phase = "saving"
    BY <1>1
  <2>4. \A a, b \in acks' : ~ a.late /\ ~ b.late => a = b
    BY <1>3, <1>4
  <2>5. ASSUME NEW a \in acks', ~ a.ok, a.item \notin tainted', Kind[a.item] = "notice"
        PROVE  ~ Told(a.item)'
    <3>1. a = Result(m[1], ok, FALSE)
      BY <1>1, <1>3, <1>4, <2>5
    <3>2. a.item = m[1] /\ ~ ok
      BY <2>5, <3>1 DEF Result
    <3>3. told' = told /\ m \notin told
      BY <1>1, <1>3, <1>6, <2>5, <3>2
    <3>4. \A n \in told : n[1] = m[1] => n = m
      <4> SUFFICES ASSUME NEW n \in told, n[1] = m[1] PROVE n = m
        OBVIOUS
      <4>1. n \in Message /\ n[2] \in Audience[n[1]]
        BY DEF DeliveryTypeOK, MessagesAreAddressed, Addressed
      <4>2. n[2] = m[2]
        <5>1. n[2] \in Audience[m[1]] /\ m[2] \in Audience[m[1]] /\ Kind[m[1]] = "notice"
          BY <1>2, <2>5, <3>2, <4>1 DEF Addressed
        <5> QED
          BY <1>2, <5>1
      <4> QED
        BY <4>1, <4>2, MessageParts
    <3> QED
      BY <3>2, <3>3, <3>4 DEF Told
  <2> QED
    BY <2>1, <2>2, <2>3, <2>4, <2>5 DEF AcksAreTrue
<1>8. RowsAreTrue'
  <2>1. ASSUME NEW j \in Item
        PROVE  row[j].status = "sent" => Told(j)'
    BY <1>1 DEF RowsAreTrue, Told
  <2>2. ASSUME NEW j \in Item, j \notin tainted', Told(j)'
        PROVE  row[j].status = "sent" \/ \E a \in acks' : a.item = j /\ a.ok
    <3>1. CASE j # m[1]
      BY <1>1, <1>3, <1>5, <2>2, <3>1 DEF RowsAreTrue
    <3>2. CASE j = m[1] /\ ok
      <4>1. Result(m[1], ok, FALSE) \in acks'
        BY <1>3
      <4>2. Result(m[1], ok, FALSE).item = m[1] /\ Result(m[1], ok, FALSE).ok = ok
        BY DEF Result
      <4> QED
        BY <3>2, <4>1, <4>2
    <3>3. CASE j = m[1] /\ ~ ok
      BY <1>1, <1>3, <2>2, <3>3 DEF RowsAreTrue, Told
    <3> QED
      BY <3>1, <3>2, <3>3
  <2> QED
    BY <1>1, <2>1, <2>2 DEF RowsAreTrue
<1>9. BatchIsFresh'
  BY <1>1, <1>6 DEF BatchIsFresh
<1>10. PollIsFresh'
  BY <1>1 DEF PollIsFresh
<1>11. MessagesAreAddressed'
  BY <1>1, <1>2 DEF MessagesAreAddressed, Addressed
<1> QED
  BY <1>7, <1>8, <1>9, <1>10, <1>11

LEMMA InvRest ==
  ASSUME DeliveryInv, Rest
  PROVE  AcksAreTrue' /\ RowsAreTrue' /\ BatchIsFresh' /\ PollIsFresh' /\ MessagesAreAddressed'
<1> USE DEF DeliveryInv
<1>1. /\ UNCHANGED <<row, call, acks, told, again, tainted>>
      /\ bot.phase = "sending" /\ bot' = Asleep
  BY DEF Rest
<1>2. AcksAreTrue' /\ RowsAreTrue'
  BY <1>1 DEF AcksAreTrue, RowsAreTrue, Told
<1>3. BatchIsFresh' /\ PollIsFresh' /\ MessagesAreAddressed'
  BY <1>1 DEF BatchIsFresh, PollIsFresh, MessagesAreAddressed, Addressed, Asleep
<1> QED
  BY <1>2, <1>3

LEMMA InvBotStops ==
  ASSUME DeliveryInv, BotStops
  PROVE  AcksAreTrue' /\ RowsAreTrue' /\ BatchIsFresh' /\ PollIsFresh' /\ MessagesAreAddressed'
<1> USE DEF DeliveryInv
<1>1. /\ UNCHANGED <<row, call, told, again>>
      /\ bot' = Asleep
      /\ acks' = {Result(a.item, a.ok, TRUE) : a \in acks}
      /\ tainted' = tainted \union {a.item : a \in acks}
  BY DEF BotStops
<1>2. \A b \in acks' : \E a \in acks : b.item = a.item /\ b.ok = a.ok /\ b.late
  BY <1>1 DEF Result
<1>3. \A b \in acks' : b.late /\ b.item \in tainted'
  BY <1>1, <1>2
<1>4. \A a \in acks : a.item \in tainted'
  BY <1>1
<1>5. AcksAreTrue'
  <2>1. \A b \in acks' : b.ok => Told(b.item)'
    <3>1. \A i : Told(i)' <=> Told(i)
      BY <1>1 DEF Told
    <3>2. \A a \in acks : a.ok => Told(a.item)
      BY DEF AcksAreTrue
    <3> QED
      BY <1>2, <3>1, <3>2
  <2>2. \A b \in acks' : ~ b.late => bot'.phase = "saving"
    BY <1>3
  <2>3. \A a, b \in acks' : ~ a.late /\ ~ b.late => a = b
    BY <1>3
  <2> QED
    BY <1>3, <2>1, <2>2, <2>3 DEF AcksAreTrue
<1>6. RowsAreTrue'
  <2>1. \A i : Told(i)' <=> Told(i)
    BY <1>1 DEF Told
  <2>2. \A i \in Item : (i \notin tainted' /\ Told(i)) => row[i].status = "sent"
    BY <1>1, <1>4 DEF RowsAreTrue
  <2> QED
    BY <1>1, <2>1, <2>2 DEF RowsAreTrue
<1>7. BatchIsFresh'
  BY <1>1 DEF BatchIsFresh, Asleep
<1>8. PollIsFresh' /\ MessagesAreAddressed'
  BY <1>1 DEF PollIsFresh, MessagesAreAddressed, Addressed, Asleep
<1> QED
  BY <1>5, <1>6, <1>7, <1>8

LEMMA InvLoseAck ==
  ASSUME DeliveryInv, NEW a \in acks, LoseAck(a)
  PROVE  AcksAreTrue' /\ RowsAreTrue' /\ BatchIsFresh' /\ PollIsFresh' /\ MessagesAreAddressed'
<1> USE DEF DeliveryInv
<1>1. /\ UNCHANGED <<row, call, bot, told, again, tainted>>
      /\ a.late /\ acks' = acks \ {a}
  BY DEF LoseAck
<1>2. AcksAreTrue'
  BY <1>1 DEF AcksAreTrue, Told
<1>3. RowsAreTrue'
  BY <1>1 DEF RowsAreTrue, AcksAreTrue, Told
<1>4. BatchIsFresh' /\ PollIsFresh' /\ MessagesAreAddressed'
  BY <1>1 DEF BatchIsFresh, PollIsFresh, MessagesAreAddressed, Addressed, Told
<1> QED
  BY <1>2, <1>3, <1>4

LEMMA InvStep == DeliveryInv /\ [Next]_vars => DeliveryInv'
<1> SUFFICES ASSUME DeliveryInv, [Next]_vars PROVE DeliveryInv'
  OBVIOUS
<1>1. DeliveryTypeOK'
  BY TypeStep DEF DeliveryInv
<1>2. CASE UNCHANGED vars
  BY <1>1, <1>2 DEF vars, DeliveryInv, AcksAreTrue, RowsAreTrue, BatchIsFresh, PollIsFresh,
     MessagesAreAddressed, Addressed, Told
<1>3. CASE Next
  <2>1. AcksAreTrue' /\ RowsAreTrue' /\ BatchIsFresh' /\ PollIsFresh' /\ MessagesAreAddressed'
    BY <1>3, InvEnqueue, InvClaim, InvBuild, InvAnswer, InvApiFails, InvHandleAck, InvAsk,
       InvSend, InvRest, InvBotStops, InvLoseAck DEF Next, ApiStep, BotStep
  <2> QED
    BY <1>1, <2>1 DEF DeliveryInv
<1> QED
  BY <1>2, <1>3

LEMMA InvHolds == Spec => []DeliveryInv
BY InvInit, InvStep, PTL DEF Spec

\* With no result of a row lost, late or false, the row says sent exactly when
\* its message was shown, and nobody has seen it twice.
THEOREM RecordsAreFaithful == Spec => []RecordIsFaithful
<1>1. DeliveryInv => RecordIsFaithful
  <2> SUFFICES ASSUME DeliveryInv, NEW i \in Item, i \notin tainted,
                      \A a \in acks : a.item # i
               PROVE  /\ row[i].status = "sent" <=> ToldOf(i) # {}
                      /\ ToldOf(i) \intersect again = {}
    BY DEF RecordIsFaithful
  <2>1. ToldOf(i) # {} <=> Told(i)
    BY DEF ToldOf, Told
  <2>2. row[i].status = "sent" <=> Told(i)
    BY DEF DeliveryInv, RowsAreTrue
  <2>3. ToldOf(i) \intersect again = {}
    BY DEF DeliveryInv, BatchIsFresh, ToldOf
  <2> QED
    BY <2>1, <2>2, <2>3
<1> QED
  BY <1>1, InvHolds, PTL

\* A delivery once recorded is never forgotten, by a late failure or a later
\* claim.
THEOREM SentIsFinal == Spec => SentStays
<1> DEFINE Stays == \A i \in Item :
                      (row[i].status = "sent" /\ (Kind[i] = "notice" => i \notin tainted'))
                        => row'[i].status = "sent"
<1>1. DeliveryInv /\ DeliveryInv' /\ [Next]_vars => [Stays]_vars
  <2> SUFFICES ASSUME DeliveryInv, DeliveryInv', Next PROVE Stays
    OBVIOUS
  <2> USE DEF DeliveryInv
  <2> SUFFICES ASSUME NEW i \in Item, row[i].status = "sent",
                      Kind[i] = "notice" => i \notin tainted'
               PROVE  row'[i].status = "sent"
    OBVIOUS
  <2>1. row[i] # row'[i] =>
          \/ \E j \in Item : Enqueue(j) \/ LeaseRunsOut(j)
          \/ \E h \in Handler : Claim(h) \/ \E j \in Item : Build(h, j) \/ BuildFails(h, j)
          \/ \E a \in acks : HandleAck(a)
    BY DEF Next, ApiStep, BotStep, Answer, ApiFails, Ask, Send, SendFails, SendTimesOut, Rest,
       BotStops, LoseAck
  <2>2. ASSUME NEW j \in Item, Enqueue(j) \/ LeaseRunsOut(j) PROVE row'[i].status = "sent"
    BY <2>2 DEF Enqueue, LeaseRunsOut, DeliveryTypeOK
  <2>3. ASSUME NEW h \in Handler, Claim(h) PROVE row'[i].status = "sent"
    <3>1. i \notin Oldest(Due(Kinds[call[h].next]))
      <4>1. Kinds[call[h].next] \in {"notice", "receipt", "alert"}
        BY <2>3 DEF Claim, Kinds
      <4> QED
        BY <4>1, DueIsNotSent DEF Oldest
    <3> QED
      BY <2>3, <3>1 DEF Claim
  <2>4. Told(i)
    BY DEF RowsAreTrue
  <2>5. ASSUME NEW h \in Handler, NEW j \in Item, Build(h, j) PROVE row'[i].status = "sent"
    <3>1. Audience[i] # {}
      BY <2>4 DEF Told, MessagesAreAddressed, Addressed
    <3> QED
      BY <2>5, <3>1 DEF Build, DeliveryTypeOK
  <2>6. ASSUME NEW h \in Handler, NEW j \in Item, BuildFails(h, j) PROVE row'[i].status = "sent"
    <3>1. CASE i # j
      BY <2>6, <3>1 DEF BuildFails, DeliveryTypeOK
    <3>2. CASE i = j
      <4>1. Kind[i] # "notice"
        BY <2>6, <3>2 DEF BuildFails
      <4> QED
        BY <2>6, <3>2, <4>1, SuccessWins DEF BuildFails, DeliveryTypeOK
    <3> QED
      BY <3>1, <3>2
  <2>7. ASSUME NEW a \in acks, HandleAck(a) PROVE row'[i].status = "sent"
    <3>1. a.item \in Item
      BY DEF DeliveryTypeOK, Results
    <3>2. CASE a.item # i
      BY <2>7, <3>1, <3>2 DEF HandleAck, DeliveryTypeOK
    <3>3. CASE a.item = i /\ a.ok
      <4>1. row'[i] = Marked(i, "sent")
        BY <2>7, <3>3 DEF HandleAck, DeliveryTypeOK
      <4> QED
        BY <4>1, MarkedStatus DEF Status, Settled, DeliveryTypeOK
    <3>4. CASE a.item = i /\ ~ a.ok
      <4>1. Kind[i] # "notice"
        BY <2>4, <2>7, <3>4 DEF AcksAreTrue, HandleAck
      <4>2. row'[i] = Marked(i, "failed")
        BY <2>7, <3>4 DEF HandleAck, DeliveryTypeOK
      <4> QED
        BY <4>1, <4>2, SuccessWins DEF DeliveryTypeOK
    <3> QED
      BY <3>2, <3>3, <3>4
  <2> QED
    BY <2>1, <2>2, <2>3, <2>5, <2>6, <2>7
<1> QED
  BY <1>1, InvHolds, PTL DEF Spec, SentStays

=============================================================================

--------------------------- MODULE BillingDelivery ---------------------------
(* How billing messages reach Telegram.  Three kinds of rows are outboxes:   *)
(* the notifications of a payment's terminal status, the receipts with a     *)
(* file, and the alerts to the superadmins about a receipt that could not be *)
(* had.  The bot polls the API; the request claims due rows, builds messages *)
(* and answers; the bot sends them one by one and posts the result of each.  *)
(* A claim that is not settled in ten minutes is due again.                  *)
EXTENDS Integers, FiniteSets

CONSTANTS
  N,          \* rows are numbered in the order of creation
  Kind,       \* the kind of each row
  Audience,   \* the chats a row's message goes to; none: no chat_id is known
  Chat,
  Handler,    \* threads of the API that serve the bot's poll
  Batch,      \* the limit of a claim, 50 in the code
  MaxFaults   \* bound: what goes wrong in a behaviour

Item == 1 .. N
Kinds == <<"notice", "receipt", "alert">>    \* in the order they are claimed

ASSUME DeliveryAssumption ==
  /\ N \in Nat
  /\ Kind \in [Item -> {"notice", "receipt", "alert"}]
  /\ Audience \in [Item -> SUBSET Chat]
  /\ \A i \in Item : Kind[i] = "notice" => \A c, d \in Audience[i] : c = d
  /\ Batch \in Nat \ {0}
  /\ MaxFaults \in Nat

Alerts == {i \in Item : Kind[i] = "alert"}
Message == Item \X Chat
Result(i, ok, late) == [item |-> i, ok |-> ok, late |-> late]
Results == [item : Item, ok : BOOLEAN, late : BOOLEAN]

VARIABLES
  row,      \* the outbox tables
  earlier,  \* pairs of alerts, the first updated before the second
  call,     \* polls under way in the API, the bot's or abandoned by it
  bot,      \* the loop of the bot
  acks,     \* results on their way to the API; late: the bot waits no more
  told,     \* messages Telegram has shown
  again,    \* messages it has shown twice
  tainted,  \* rows with a result that was lost, late or false
  faults
vars == <<row, earlier, call, bot, acks, told, again, tainted, faults>>

Status == {"absent", "queued", "claimed", "sent", "failed", "skipped"}
Row == [status : Status, stale : BOOLEAN]   \* stale: claimed ten minutes ago
NoCall == [next |-> 0, work |-> {}, reply |-> {}]
Asleep == [phase |-> "asleep", on |-> {}, batch |-> {}]
Busy(phase, batch) == [phase |-> phase, on |-> {}, batch |-> batch]

DeliveryTypeOK ==
  /\ row \in [Item -> Row]
  /\ earlier \subseteq Alerts \X Alerts
  /\ call \in [Handler -> [next : 0 .. 4, work : SUBSET Item, reply : SUBSET Message]]
  /\ bot \in [phase : {"asleep", "asking", "sending", "saving"},
              on : SUBSET Handler, batch : SUBSET Message]
  /\ acks \subseteq Results
  /\ told \subseteq Message /\ again \subseteq told
  /\ tainted \subseteq Item
  /\ faults \in 0 .. MaxFaults

Init ==
  /\ row = [i \in Item |-> [status |-> "absent", stale |-> FALSE]]
  /\ earlier = {}
  /\ call = [h \in Handler |-> NoCall]
  /\ bot = Asleep
  /\ acks = {} /\ told = {} /\ again = {} /\ tainted = {} /\ faults = 0

Fault == faults < MaxFaults /\ faults' = faults + 1

----------------------------------------------------------------------------
(* The tables. *)

\* What an alert's row was last updated for, a claim or a failure, puts it
\* behind the others; rows updated in one statement share the moment.
Updated(S) ==
  LET T == S \intersect Alerts IN
    {p \in earlier : p[1] \notin T /\ p[2] \notin T} \union ((Alerts \ T) \X T)

\* A row appears: a payment reaches a terminal status, a fiscal check comes
\* with a file, an attempt to fetch one was the last allowed.
Enqueue(i) ==
  /\ row[i].status = "absent"
  /\ row' = [row EXCEPT ![i].status = "queued"]
  /\ earlier' = Updated({i})
  /\ UNCHANGED <<call, bot, acks, told, again, tainted, faults>>

LeaseRunsOut(i) ==
  /\ row[i].status = "claimed" /\ ~ row[i].stale
  /\ row' = [row EXCEPT ![i] = [status |-> "claimed", stale |-> TRUE]]
  /\ UNCHANGED <<earlier, call, bot, acks, told, again, tainted, faults>>

DueNotice(i) ==
  row[i].status = "queued" \/ (row[i].status = "claimed" /\ row[i].stale)

\* Receipts and alerts that failed are tried again, notifications are not.
\* A mutant: whatever has waited for ten minutes is due.
DueReceiptAlways(i) == row[i].status # "absent"

DueReceipt(i) ==
  row[i].status \in {"queued", "failed"} \/ (row[i].status = "claimed" /\ row[i].stale)

DueAlert(i) ==
  row[i].status \in {"queued", "failed"} \/ (row[i].status = "claimed" /\ row[i].stale)

Due(kind) ==
  {i \in Item : /\ Kind[i] = kind
                /\ CASE kind = "notice"  -> DueNotice(i)
                     [] kind = "receipt" -> DueReceipt(i)
                     [] kind = "alert"   -> DueAlert(i)}

\* A mutant: the order of creation for alerts too.
AheadByCreation(j, i) == j < i

\* ORDER BY created, id; for alerts ORDER BY updated, id.
Ahead(j, i) ==
  \/ Kind[i] # "alert" /\ j < i
  \/ Kind[i] = "alert" /\ (<<j, i>> \in earlier \/ (<<i, j>> \notin earlier /\ j < i))

\* LIMIT Batch.
Oldest(S) == {i \in S : Cardinality({j \in S : Ahead(j, i)}) < Batch}

Settled(i, status) == [status |-> status, stale |-> FALSE]

\* _mark_bot_notification looks at nothing; the marks of receipts and alerts
\* let no failure overwrite a success.
NoticeMarked(i, status) == Settled(i, status)
ReceiptMarked(i, status) ==
  IF row[i].status = "sent" /\ status = "failed" THEN row[i] ELSE Settled(i, status)

\* A mutant: the guard forgotten.
AlertMarkedAlways(i, status) == Settled(i, status)

AlertMarked(i, status) ==
  IF row[i].status = "sent" /\ status = "failed" THEN row[i] ELSE Settled(i, status)

Marked(i, status) ==
  CASE Kind[i] = "notice"  -> NoticeMarked(i, status)
    [] Kind[i] = "receipt" -> ReceiptMarked(i, status)
    [] Kind[i] = "alert"   -> AlertMarked(i, status)

----------------------------------------------------------------------------
(* The poll in the API: each kind is claimed and its rows are built, then    *)
(* the imports are processed, and only then the bot is answered.             *)

Claim(h) ==
  /\ call[h].next \in 1 .. 3 /\ call[h].work = {}
  /\ LET claimed == Oldest(Due(Kinds[call[h].next])) IN
       /\ row' = [i \in Item |-> IF i \in claimed THEN Settled(i, "claimed") ELSE row[i]]
       /\ earlier' = Updated(claimed)
       /\ call' = [call EXCEPT ![h].work = claimed, ![h].next = @ + 1]
  /\ UNCHANGED <<bot, acks, told, again, tainted, faults>>

\* Rows are built, and their messages sent, kind by kind and oldest first;
\* alerts of one poll in any order.
Before(i, j) ==
  \E k, l \in 1 .. 3 :
    /\ Kinds[k] = Kind[i] /\ Kinds[l] = Kind[j]
    /\ k < l \/ (k = l /\ Kind[i] # "alert" /\ i < j)

\* A mutant: a status the table does not have.
UnreachableBlocked(i) == IF Kind[i] = "notice" THEN "skipped" ELSE "blocked"

Unreachable(i) == IF Kind[i] = "notice" THEN "skipped" ELSE "failed"

NextToBuild(h, i) ==
  i \in call[h].work /\ \A j \in call[h].work : ~ Before(j, i)

\* A mark made here carries the moment of the claim, so it moves no alert.
Build(h, i) ==
  /\ NextToBuild(h, i)
  /\ IF Audience[i] = {}
       THEN /\ row' = [row EXCEPT ![i] = Marked(i, Unreachable(i))]
            /\ call' = [call EXCEPT ![h].work = @ \ {i}]
       ELSE /\ call' = [call EXCEPT ![h].work = @ \ {i},
                                    ![h].reply = @ \union ({i} \X Audience[i])]
            /\ UNCHANGED row
  /\ UNCHANGED <<earlier, bot, acks, told, again, tainted, faults>>

\* The screen cannot be built or the file not stored (a failure to build an alert
\* ends the poll).  A mark that comes when the claim is no longer this poll's is
\* as false as a late result.
BuildFails(h, i) ==
  /\ NextToBuild(h, i) /\ Kind[i] # "alert"
  /\ Fault
  /\ row' = [row EXCEPT ![i] = Marked(i, "failed")]
  /\ call' = [call EXCEPT ![h].work = @ \ {i}]
  /\ tainted' = IF row[i].status = "claimed" THEN tainted ELSE tainted \union {i}
  /\ UNCHANGED <<earlier, bot, acks, told, again>>

\* A bot that has stopped waiting never sees the answer.
Answer(h) ==
  /\ call[h].next = 4 /\ call[h].work = {}
  /\ call' = [call EXCEPT ![h] = NoCall]
  /\ bot' = IF bot.phase = "asking" /\ h \in bot.on
              THEN Busy("sending", call[h].reply) ELSE bot
  /\ UNCHANGED <<earlier, row, acks, told, again, tainted, faults>>

\* An exception in the poll (the processing of imports runs in it) or the
\* death of the API.  What was claimed stays claimed.
ApiFails(h) ==
  /\ call[h].next > 0
  /\ Fault
  /\ call' = [call EXCEPT ![h] = NoCall]
  /\ bot' = IF bot.phase = "asking" /\ h \in bot.on THEN Asleep ELSE bot
  /\ UNCHANGED <<earlier, row, acks, told, again, tainted>>

\* save_*_delivery_result.
HandleAck(a) ==
  /\ a \in acks
  /\ acks' = acks \ {a}
  /\ row' = [row EXCEPT ![a.item] = Marked(a.item, IF a.ok THEN "sent" ELSE "failed")]
  /\ earlier' = IF row'[a.item].status = "sent" THEN earlier ELSE Updated({a.item})
  /\ bot' = IF a.late THEN bot ELSE Busy("sending", bot.batch)
  /\ UNCHANGED <<call, told, again, tainted, faults>>

----------------------------------------------------------------------------
(* The bot. *)

\* The threads are alike, so one idle thread stands for any.
Ask(h) ==
  /\ bot.phase = "asleep" /\ call[h].next = 0
  /\ h = CHOOSE g \in Handler : call[g].next = 0
  /\ call' = [call EXCEPT ![h].next = 1]
  /\ bot' = [phase |-> "asking", on |-> {h}, batch |-> {}]
  /\ UNCHANGED <<earlier, row, acks, told, again, tainted, faults>>

\* Telegram took the message or it did not; the result is posted either way.
Shown(m) == /\ told' = told \union {m}
            /\ again' = IF m \in told THEN again \union {m} ELSE again

Post(m, ok) ==
  /\ acks' = acks \union {Result(m[1], ok, FALSE)}
  /\ bot' = Busy("saving", bot.batch \ {m})

NextToSend(m) ==
  /\ bot.phase = "sending"
  /\ m \in bot.batch /\ \A n \in bot.batch : ~ Before(n[1], m[1])

Send(m) ==
  /\ NextToSend(m)
  /\ Shown(m)
  /\ Post(m, TRUE)
  /\ UNCHANGED <<earlier, row, call, tainted, faults>>

SendFails(m) ==
  /\ NextToSend(m)
  /\ Fault
  /\ Post(m, FALSE)
  /\ UNCHANGED <<earlier, row, call, told, again, tainted>>

\* Telegram shows the message and its answer does not come: to the bot a failure.
SendTimesOut(m) ==
  /\ NextToSend(m)
  /\ Fault
  /\ Shown(m)
  /\ Post(m, FALSE)
  /\ tainted' = tainted \union {m[1]}
  /\ UNCHANGED <<earlier, row, call>>

Rest ==
  /\ bot.phase = "sending" /\ bot.batch = {}
  /\ bot' = Asleep
  /\ UNCHANGED <<earlier, row, call, acks, told, again, tainted, faults>>

\* The request timed out or the bot was restarted.  A result that cannot be
\* saved ends the loop over the batch: what was not sent waits for its lease.
BotStops ==
  /\ bot.phase # "asleep"
  /\ Fault
  /\ bot' = Asleep
  /\ acks' = {Result(a.item, a.ok, TRUE) : a \in acks}
  /\ tainted' = tainted \union {a.item : a \in acks}
  /\ UNCHANGED <<earlier, row, call, told, again>>

\* A result that never reaches the API.
LoseAck(a) ==
  /\ a \in acks /\ a.late
  /\ acks' = acks \ {a}
  /\ UNCHANGED <<earlier, row, call, bot, told, again, tainted, faults>>

----------------------------------------------------------------------------
ApiStep(h) == Claim(h) \/ (\E i \in Item : Build(h, i)) \/ Answer(h)
BotStep == (\E h \in Handler : Ask(h)) \/ (\E m \in Message : Send(m)) \/ Rest

Next ==
  \/ \E i \in Item : Enqueue(i) \/ LeaseRunsOut(i)
  \/ \E h \in Handler : ApiStep(h) \/ ApiFails(h) \/ \E i \in Item : BuildFails(h, i)
  \/ BotStep
  \/ \E m \in Message : SendFails(m) \/ SendTimesOut(m)
  \/ \E a \in acks : HandleAck(a) \/ LoseAck(a)
  \/ BotStops

Spec == Init /\ [][Next]_vars

----------------------------------------------------------------------------
ToldOf(i) == {m \in told : m[1] = i}

\* What the tables record is what happened: with no result of a row lost, late
\* or false, the row says sent exactly when its message was shown, however
\* many other requests failed, and nobody has seen it twice.
RecordIsFaithful ==
  \A i \in Item :
    (i \notin tainted /\ \A a \in acks : a.item # i) =>
      /\ row[i].status = "sent" <=> ToldOf(i) # {}
      /\ ToldOf(i) \intersect again = {}

\* A delivery once recorded is never forgotten, by a late failure or a later
\* claim; for notifications, whose mark looks at nothing, only while no result
\* of theirs went astray (billing.py, _mark_bot_notification).
SentStays ==
  [][\A i \in Item :
       (row[i].status = "sent" /\ (Kind[i] = "notice" => i \notin tainted'))
         => row'[i].status = "sent"]_vars

\* Who can be reached is told in the end, whatever failed on the way: a lost
\* answer or result costs a lease.  Not so a notification once marked failed,
\* nor a receipt behind a whole batch of older ones that fail for ever; an alert
\* that failed goes behind the others and crowds out none.
Crowd(i) == {j \in 1 .. i - 1 : /\ Kind[j] = "receipt" /\ Kind[i] = "receipt"
                                /\ Audience[j] = {}}
ReachableIsTold ==
  \A i \in Item :
    (Audience[i] # {} /\ Cardinality(Crowd(i)) < Batch) =>
      (row[i].status = "queued" ~> \/ ToldOf(i) # {}
                                   \/ Kind[i] = "notice" /\ row[i].status = "failed")

=============================================================================

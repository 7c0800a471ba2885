------------------------------ MODULE Reminders ------------------------------
(* The trainings a learner is reminded of: the table training_schedule, the  *)
(* settings it is filled from and the loop of the bot that polls for what is *)
(* due.  The bot is told of a row that is already marked sent; nothing       *)
(* serialises polls and the screens that fill the table too (the dispatch    *)
(* lock grants everything), and no index keeps a slot unique.  One learner:  *)
(* the rows of two have nothing in common.                                   *)
EXTENDS Integers, FiniteSets

CONSTANTS
  MaxClock,    \* bound: times are 0, 1, ..; now is after the clock, before the next
  Day,         \* the day of each time
  DailySlot,   \* the times the learner may choose in the settings
  PlanSlot,    \* and in the plan of a training
  Window,      \* how long before its time a training may be completed, 2 hours
  Handler,     \* threads of the API
  Copies       \* bound: rows of one kind and time

Time == 0 .. MaxClock
Kind == {"daily", "followup", "planned"}
Schedule ==                  \* the id of a row
  {k \in [kind : Kind, at : Time, copy : 1 .. Copies] :
     k.at \in IF k.kind = "daily" THEN DailySlot ELSE PlanSlot}
Closed == {"completed", "skipped", "cancelled"}

ASSUME RemindersAssumption ==
  /\ MaxClock \in Nat /\ Window \in Nat /\ Copies \in Nat /\ Handler \subseteq Nat
  /\ Day \in [Time -> Nat]
  /\ DailySlot \subseteq Time /\ PlanSlot \subseteq Time

VARIABLES
  clock,
  enabled,    \* user_reminder_schedule: the times of daily reminders
  status,     \* training_schedule
  job,        \* what each thread is doing, and what it has read for that
  bot,        \* the poll the loop waits for, the reminders it has yet to send
  shown,      \* reminders Telegram has shown
  again,      \* reminders it has shown twice
  lost,       \* reminders marked sent whose poll or loop has failed
  crowded,    \* rows inserted while another thread was about to insert its own
  snatched    \* rows written while a poll had read and not yet marked them
reminderVars == <<clock, enabled, status, bot, shown, again, lost, crowded, snatched>>

\* A request is served by the first thread that is free.
Serves(h) == job[h].pc = "free" /\ \A g \in Handler : g < h => job[g].pc # "free"

Free == [pc |-> "free", op |-> "none", now |-> 0, slots |-> {}, rows |-> {}, row |-> {}, lessons |-> {}]
Asleep == [on |-> {}, inbox |-> {}]

RemindersTypeOK ==
  /\ clock \in Time /\ enabled \subseteq DailySlot
  /\ status \in [Schedule -> {"absent", "pending", "sent"} \union Closed]
  /\ bot \in [on : SUBSET Handler, inbox : SUBSET Schedule]
  /\ shown \subseteq Schedule /\ again \subseteq shown /\ lost \subseteq Schedule
  /\ crowded \subseteq Schedule /\ snatched \subseteq Schedule

RemindersInit ==
  /\ clock = 0 /\ enabled \in SUBSET DailySlot
  /\ status = [k \in Schedule |-> "absent"]
  /\ job = [h \in Handler |-> Free]
  /\ bot = Asleep
  /\ shown = {} /\ again = {} /\ lost = {} /\ crowded = {} /\ snatched = {}

----------------------------------------------------------------------------
(* The table. *)

Open(k) == status[k] \in {"pending", "sent"}

\* A new row of a kind and a time.
Fresh(k) == /\ status[k] = "absent"
            /\ \A j \in Schedule : (j.kind = k.kind /\ j.at = k.at /\ j.copy < k.copy) => status[j] # "absent"

Written(S, new) == [k \in Schedule |-> IF k \in S THEN new ELSE status[k]]

\* A mutant: a training completed before its time is planned again.
KnownOpen(t) == \E k \in Schedule : k.kind = "daily" /\ k.at = t /\ Open(k)

Known(t) == \E k \in Schedule :
  k.kind = "daily" /\ k.at = t /\ status[k] \in {"pending", "sent", "completed", "skipped"}

\* The slots of today that are yet to come and have no row.
Missing == {t \in enabled : t > clock /\ Day[t] = Day[clock] /\ ~ Known(t)}

\* A mutant: whatever has become of them.
DueWhatever(now) == {k \in Schedule : status[k] # "absent" /\ k.at <= now}

\* A mutant: a poll that comes late finds nothing.
DueExactly(now) == {k \in Schedule : status[k] = "pending" /\ k.at = now}

Due(now) == {k \in Schedule : status[k] = "pending" /\ k.at <= now}

\* Threads that have read a slot, or a day of planned trainings, and will fill it.
Fills(g, k) ==
  \/ job[g].pc = "fill" /\ k.kind = "daily" /\ k.at \in job[g].slots
  \/ job[g].pc = "plan" /\ k.kind = job[g].op /\ \E t \in job[g].slots : Day[t] = Day[k.at]
Crowding(h, S) == {k \in S : \E g \in Handler \ {h} : Fills(g, k)}

\* The learner's own hand on a row that a poll has read and will mark.
Taken(S) == snatched \union {k \in S : \E h \in Handler : job[h].pc = "mark" /\ k \in job[h].rows}

----------------------------------------------------------------------------
(* A poll, or the summary of a lesson, whose first half is the same.         *)

\* ensure_daily: the settings and the rows are read ..
Look(h, op) ==
  job' = [job EXCEPT ![h] = [Free EXCEPT !.pc = "fill", !.op = op, !.now = clock, !.slots = Missing]]

\* The summary of a lesson looks too.
Summary(h) ==
  /\ job[h].pc = "summary" /\ Look(h, "summary")
  /\ UNCHANGED reminderVars

BotAsks(h) ==
  /\ bot = Asleep
  /\ Serves(h) /\ Look(h, "poll")
  /\ bot' = [Asleep EXCEPT !.on = {h}]
  /\ UNCHANGED <<clock, enabled, status, shown, again, lost, crowded, snatched>>

\* .. and what is missing is inserted.
Fill(h) ==
  /\ job[h].pc = "fill"
  /\ LET filled == {k \in Schedule : k.kind = "daily" /\ k.at \in job[h].slots /\ Fresh(k)} IN
       /\ \A t \in job[h].slots : \E k \in filled : k.at = t
       /\ status' = Written(filled, "pending")
       /\ crowded' = crowded \union Crowding(h, filled)
  /\ job' = [job EXCEPT ![h] = IF @.op = "poll" THEN [@ EXCEPT !.pc = "select", !.slots = {}] ELSE Free]
  /\ UNCHANGED <<clock, enabled, bot, shown, again, lost, snatched>>

\* get_due: a transaction of its own reads what is due ..
Select(h) ==
  /\ job[h].pc = "select"
  /\ job' = [job EXCEPT ![h].pc = "mark", ![h].rows = Due(job[h].now)]
  /\ UNCHANGED reminderVars

\* .. and marks it, whatever has become of it.
Mark(h) ==
  /\ job[h].pc = "mark"
  /\ status' = Written(job[h].rows, "sent")
  /\ snatched' = snatched \union {k \in job[h].rows :
                   \E g \in Handler \ {h} : job[g].pc = "mark" /\ k \in job[g].rows}
  /\ job' = [job EXCEPT ![h].pc = "answer"]
  /\ UNCHANGED <<clock, enabled, bot, shown, again, lost, crowded>>

\* A bot that has given the poll up never sees the answer.
Answer(h) ==
  /\ job[h].pc = "answer"
  /\ job' = [job EXCEPT ![h] = Free]
  /\ IF bot.on = {h} THEN bot' = [on |-> {}, inbox |-> job[h].rows] /\ UNCHANGED lost
                     ELSE lost' = lost \union job[h].rows /\ UNCHANGED bot
  /\ UNCHANGED <<clock, enabled, status, shown, again, crowded, snatched>>

\* The process dies or raises, in or after a transaction.
Dies(h) ==
  /\ job[h].pc # "free"
  /\ job' = [job EXCEPT ![h] = Free]
  /\ lost' = IF job[h].pc = "answer" THEN lost \union job[h].rows ELSE lost
  /\ bot' = IF bot.on = {h} THEN Asleep ELSE bot
  /\ UNCHANGED <<clock, enabled, status, shown, again, crowded, snatched>>

----------------------------------------------------------------------------
(* The bot. *)

Show(k) ==
  /\ k \in bot.inbox
  /\ bot' = [bot EXCEPT !.inbox = @ \ {k}]
  /\ shown' = shown \union {k}
  /\ again' = IF k \in shown THEN again \union {k} ELSE again
  /\ UNCHANGED <<clock, enabled, status, job, lost, crowded, snatched>>

\* A request that times out, a restart, or a message that Telegram refuses: the
\* exception ends the round, and the reminders after it are not sent either.
BotFails ==
  /\ bot # Asleep
  /\ bot' = Asleep
  /\ lost' = lost \union bot.inbox
  /\ UNCHANGED <<clock, enabled, status, job, shown, again, crowded, snatched>>

----------------------------------------------------------------------------
(* The learner. *)

Tick ==
  /\ clock < MaxClock
  /\ clock' = clock + 1
  /\ UNCHANGED <<enabled, status, job, bot, shown, again, lost, crowded, snatched>>

\* replace_reminder_schedule and its kin, which leave the rows alone.
Settings(times) ==
  /\ times # enabled /\ enabled' = times
  /\ UNCHANGED <<clock, status, job, bot, shown, again, lost, crowded, snatched>>

Close(k, new) ==
  /\ status' = Written({k}, new)
  /\ snatched' = Taken({k})
  /\ UNCHANGED <<clock, enabled, job, bot, shown, again, lost, crowded>>

\* The button of a reminder, however old.
Skip(k) == k \in shown /\ Close(k, "skipped")

\* is_actionable_upcoming_reminder.
Upcoming(k) == Open(k) /\ Day[k.at] = Day[clock] /\ clock < k.at /\ k.at <= clock + Window

CompleteEarly(k) == Upcoming(k) /\ Close(k, "completed")

\* save_planned_training: a followup later today, a training tomorrow.  The open
\* rows of that kind and day are read ..
Plan(h, kind, at) ==
  /\ Serves(h)
  /\ at > clock /\ Day[at] = Day[clock] + IF kind = "planned" THEN 1 ELSE 0
  /\ \E k \in Schedule : k.kind = kind /\ k.at = at /\ Fresh(k)
  /\ job' = [job EXCEPT ![h] = [Free EXCEPT !.pc = "plan", !.op = kind, !.slots = {at},
                !.rows = {k \in Schedule : Open(k) /\ k.kind = kind /\ Day[k.at] = Day[at]}]]
  /\ UNCHANGED reminderVars

\* .. and give way to the new one.
Replace(h) ==
  /\ job[h].pc = "plan"
  /\ \E k \in Schedule :
       /\ k.kind = job[h].op /\ k.at \in job[h].slots /\ Fresh(k)
       /\ status' = [Written(job[h].rows, "cancelled") EXCEPT ![k] = "pending"]
       /\ crowded' = crowded \union Crowding(h, {k})
  /\ snatched' = Taken(job[h].rows)
  /\ job' = [job EXCEPT ![h] = Free]
  /\ UNCHANGED <<clock, enabled, bot, shown, again, lost>>

=============================================================================

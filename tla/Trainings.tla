------------------------------ MODULE Trainings ------------------------------
(* How lessons begin and end: from a reminder, the menu of the bot or the    *)
(* web client, while the other client may be in the middle of an earlier one.*)
(* A start is five transactions: what is due counts as done, words are       *)
(* chosen, the active lessons are cancelled, the new one is created and the  *)
(* reminder is completed.  What happens within a lesson is LearningSession's.*)
EXTENDS Reminders

CONSTANTS
  MaxLessons,  \* bound
  MaxEvents    \* bound: what the learner does and what breaks

Lesson == 1 .. MaxLessons    \* in the order of creation

ASSUME TrainingsAssumption == MaxLessons \in Nat /\ MaxEvents \in Nat

VARIABLES
  lesson,     \* learning_session, and the client that owns each
  crossing,   \* lessons created while another start had cancelled its own
  swept,      \* lessons a start and a last answer were ending at once
  events
lessonVars == <<lesson, crossing, swept>>
vars == <<reminderVars, job, lessonVars, events>>

Client == {"bot", "web"}
LessonRow == [status : {"none", "active", "cancelled", "completed", "finished"}, on : Client]
Job == [pc : {"free", "fill", "select", "mark", "answer", "plan",
              "summary", "due", "look", "cancel", "create", "started", "claim", "finish"},
        op : {"none", "poll", "summary"} \union Kind \union Client, now : Time, slots : SUBSET Time,
        rows : SUBSET Schedule, row : SUBSET Schedule, lessons : SUBSET Lesson]

TrainingsTypeOK ==
  /\ RemindersTypeOK
  /\ job \in [Handler -> Job]
  /\ lesson \in [Lesson -> LessonRow]
  /\ crossing \subseteq Lesson /\ swept \subseteq Lesson
  /\ events \in 0 .. MaxEvents

NoLessons == [l \in Lesson |-> [status |-> "none", on |-> "bot"]]

\* The learner may be in the middle of a lesson.
Init ==
  /\ RemindersInit
  /\ lesson \in {NoLessons} \union
       {[NoLessons EXCEPT ![1] = [status |-> "active", on |-> client]] : client \in Client}
  /\ crossing = {} /\ swept = {} /\ events = 0

\* A mutant: what was begun on the web is left alone.
ActiveInBot == {l \in Lesson : lesson[l].status = "active" /\ lesson[l].on = "bot"}

\* A mutant: whatever has become of them.
Begun == {l \in Lesson : lesson[l].status # "none"}

Active == {l \in Lesson : lesson[l].status = "active"}

\* get_active_session.
Current == {l \in Active : \A m \in Active : m <= l}

\* The learner's newest lesson, whatever its state.
Newest == {l \in Lesson : lesson[l].status # "none" /\ \A m \in Lesson : m > l => lesson[m].status = "none"}
Resumable == {l \in Newest : lesson[l].status \in {"active", "completed"}}

Ended(S, new) == [l \in Lesson |-> IF l \in S THEN [lesson[l] EXCEPT !.status = new] ELSE lesson[l]]
Claimed(S, client) == [l \in Lesson |-> IF l \in S THEN [lesson[l] EXCEPT !.on = client] ELSE lesson[l]]

----------------------------------------------------------------------------
(* start_learning. *)

\* complete_due reads what is due, but for the reminder whose button this is.
Start(h, client, row) ==
  /\ Serves(h)
  /\ job' = [job EXCEPT ![h] = [Free EXCEPT !.pc = "due", !.op = client, !.now = clock, !.row = row,
                !.rows = {k \in Schedule \ row : Open(k) /\ k.at <= clock}]]
  /\ UNCHANGED <<reminderVars, lessonVars>>

\* Without words to learn the request ends here, and on the web claims the
\* lesson there is.
CompleteDue(h) ==
  /\ job[h].pc = "due"
  /\ status' = Written(job[h].rows, "completed")
  /\ snatched' = Taken(job[h].rows)
  /\ job' \in {[job EXCEPT ![h] = [@ EXCEPT !.pc = "look", !.rows = {}]],
               [job EXCEPT ![h] = IF @.op = "web" THEN [@ EXCEPT !.pc = "claim", !.rows = {}] ELSE Free]}
  /\ UNCHANGED <<clock, enabled, bot, shown, again, lost, crowded, lessonVars>>

\* cancel_active_sessions reads ..
LookActive(h) ==
  /\ job[h].pc = "look"
  /\ job' = [job EXCEPT ![h].pc = "cancel", ![h].lessons = Active]
  /\ UNCHANGED <<reminderVars, lessonVars>>

\* Threads that hold one of S as an active lesson they are about to end.
Ending(h, pc, S) == {l \in S : \E g \in Handler \ {h} : job[g].pc = pc /\ l \in job[g].lessons}

\* .. and cancels.
Cancel(h) ==
  /\ job[h].pc = "cancel"
  /\ lesson' = Ended(job[h].lessons, "cancelled")
  /\ swept' = swept \union Ending(h, "finish", job[h].lessons)
  /\ job' = [job EXCEPT ![h].pc = "create", ![h].lessons = {}]
  /\ UNCHANGED <<reminderVars, crossing>>

Create(h) ==
  /\ job[h].pc = "create"
  /\ \E l \in Lesson :
       /\ lesson[l].status = "none" /\ \A m \in Lesson : m < l => lesson[m].status # "none"
       /\ lesson' = [lesson EXCEPT ![l] = [status |-> "active", on |-> "bot"]]
       /\ crossing' = IF \E g \in Handler \ {h} : job[g].pc \in {"cancel", "create"}
                        THEN crossing \union {l} ELSE crossing
  /\ job' = [job EXCEPT ![h] = CASE @.row # {} -> [@ EXCEPT !.pc = "started"]
                                 [] @.op = "web" -> [@ EXCEPT !.pc = "claim"]
                                 [] OTHER -> Free]
  /\ UNCHANGED <<reminderVars, swept>>

Started(h) ==
  /\ job[h].pc = "started"
  /\ status' = Written(job[h].row, "completed")
  /\ snatched' = Taken(job[h].row)
  /\ job' = [job EXCEPT ![h] = Free]
  /\ UNCHANGED <<clock, enabled, bot, shown, again, lost, crowded, lessonVars>>

ClaimStarted(h) ==
  /\ job[h].pc = "claim"
  /\ lesson' = Claimed(Current, "web")
  /\ job' = [job EXCEPT ![h] = Free]
  /\ UNCHANGED <<reminderVars, crossing, swept>>

----------------------------------------------------------------------------
(* The other requests that touch the row of a lesson. *)

\* A mutant: the summary may be taken up again.
ReopenSummary ==
  /\ lesson' = Ended({l \in Newest : lesson[l].status = "completed" /\ lesson[l].on = "web"}, "card")
  /\ lesson' # lesson
  /\ UNCHANGED <<reminderVars, job, crossing, swept>>

\* A request that ends with a summary.
ThenSummary(h) == [job EXCEPT ![h] = [Free EXCEPT !.pc = "summary"]]

\* m:r in the bot; continue on the web, which starts a lesson if there is none and
\* shows the summary of a completed one, as the state of the web page does.
Resume(h, client) ==
  LET resumed == IF client = "bot" THEN Current ELSE Resumable IN
    /\ Serves(h) /\ resumed # {}
    /\ lesson' = Claimed(resumed, client)
    /\ job' = IF \E l \in resumed : lesson[l].status = "completed" THEN ThenSummary(h) ELSE job
    /\ UNCHANGED <<reminderVars, crossing, swept>>

\* The last answer of a lesson: it is read as the active one of this client ..
LastAnswer(h, client) ==
  /\ Serves(h)
  /\ \E l \in Current :
       /\ lesson[l].on = client
       /\ job' = [job EXCEPT ![h] = [Free EXCEPT !.pc = "finish", !.op = client, !.lessons = {l}]]
  /\ UNCHANGED <<reminderVars, lessonVars>>

\* .. and complete_session writes what it will; the summary follows.
Finish(h) ==
  /\ job[h].pc = "finish" /\ job' = ThenSummary(h)
  /\ lesson' = Ended(job[h].lessons, "completed")
  /\ swept' = swept \union Ending(h, "cancel", job[h].lessons)
  /\ UNCHANGED <<reminderVars, crossing>>

\* finish_completed_summary.
CloseSummary ==
  /\ lesson' = Ended({l \in Newest : lesson[l].status = "completed" /\ lesson[l].on = "web"}, "finished")
  /\ lesson' # lesson
  /\ UNCHANGED <<reminderVars, job, crossing, swept>>

----------------------------------------------------------------------------
Request(h) == CompleteDue(h) \/ LookActive(h) \/ Cancel(h) \/ Create(h) \/ Started(h)
              \/ ClaimStarted(h) \/ Finish(h)
Poll(h) == Summary(h) \/ Fill(h) \/ Select(h) \/ Mark(h) \/ Answer(h)

\* What the learner does ..
Learner ==
  \/ /\ \/ /\ Newest # {}    \* a plan is made from a lesson
           /\ \E h \in Handler, kind \in {"followup", "planned"}, at \in PlanSlot : Plan(h, kind, at)
        \/ \E k \in Schedule : Skip(k) \/ CompleteEarly(k)
        \/ \E times \in SUBSET DailySlot : Settings(times)
     /\ UNCHANGED lessonVars
  \/ \E h \in Handler :
       \/ \E client \in Client : Start(h, client, {}) \/ LastAnswer(h, client) \/ Resume(h, client)
       \/ \E k \in shown : Start(h, "bot", {k})
  \/ CloseSummary

\* .. and what goes on by itself.
Goes(h) == Request(h) \/ ((Poll(h) \/ Replace(h)) /\ UNCHANGED lessonVars)
Polled == (\E h \in Handler : BotAsks(h)) /\ UNCHANGED lessonVars
Reminded == (\E k \in Schedule : Show(k)) /\ UNCHANGED lessonVars
Passes == Tick /\ UNCHANGED lessonVars
Fails == ((\E h \in Handler : Dies(h)) \/ BotFails) /\ UNCHANGED lessonVars

Next ==
  \/ (Learner \/ Fails) /\ events < MaxEvents /\ events' = events + 1
  \/ ((\E h \in Handler : Goes(h)) \/ Polled \/ Reminded \/ Passes) /\ UNCHANGED events

Spec == Init /\ [][Next]_vars

\* The bot polls for ever and shows what it is given, a request goes on, and time
\* passes.  The learner needs do nothing, and nothing needs break.
Fairness ==
  /\ WF_vars(Passes /\ UNCHANGED events)
  /\ WF_vars(Polled /\ UNCHANGED events)
  /\ WF_vars(Reminded /\ UNCHANGED events)
  /\ \A h \in Handler : WF_vars(Goes(h) /\ UNCHANGED events)

FairSpec == Spec /\ Fairness

----------------------------------------------------------------------------
\* However many requests overlap, a learner is in one lesson, or in those that
\* starts have created while another start had cancelled what it saw.
OneLesson ==
  \A l, m \in Lesson \ crossing : (lesson[l].status = "active" /\ lesson[m].status = "active") => l = m

\* A cancelled lesson is not revived by its last answer, and a completed one not
\* cancelled by a start, unless the two were under way at once.
EndedStays ==
  [][\A l \in Lesson \ swept' :
       /\ lesson[l].status = "cancelled" => lesson'[l].status = "cancelled"
       /\ lesson[l].status \in {"completed", "finished"} => lesson'[l].status \in {"completed", "finished"}]_vars

\* A slot has one row and a day one open followup and one open planned training,
\* but for rows inserted while another thread was about to insert its own, or
\* reopened by a poll; and however polls overlap, no reminder is shown twice.
RemindedOnce ==
  /\ \A j, k \in Schedule \ crowded :
       (/\ j.kind = "daily" /\ k.kind = "daily" /\ j.at = k.at
        /\ status[j] # "absent" /\ status[k] # "absent") => j = k
  /\ \A j, k \in Schedule \ (crowded \union snatched) :
       (/\ j.kind # "daily" /\ j.kind = k.kind /\ Day[j.at] = Day[k.at]
        /\ Open(j) /\ Open(k)) => j = k
  /\ again = {}

\* What the learner has done, skipped or replaced is not due again, unless a poll
\* had read it as due before and marks it after.
ClosedStays ==
  [][\A k \in Schedule \ snatched' : status[k] \in Closed => status'[k] \in Closed]_vars

\* Again and again there is no training that is due and open and of which the
\* learner has not been told, but for those whose poll had marked them before it,
\* or the round of the bot, broke down: late is not never.
DueIsShown ==
  []<>(\A k \in Schedule : (Open(k) /\ k.at <= clock) => k \in shown \union lost)

=============================================================================

-------------------------- MODULE TrainingsProofs --------------------------
(* Proofs about Trainings, for any times, threads, rows and lessons.         *)
EXTENDS Trainings, TLAPS

USE DEF reminderVars, lessonVars

----------------------------------------------------------------------------
(* Types. *)

RowStatus == {"absent", "pending", "sent"} \union Closed

LEMMA FreeIsJob == Free \in Job
BY RemindersAssumption DEF Free, Job, Time

LEMMA WrittenType ==
  ASSUME NEW S, NEW new \in RowStatus, status \in [Schedule -> RowStatus]
  PROVE  Written(S, new) \in [Schedule -> RowStatus]
BY DEF Written

LEMMA EndedType ==
  ASSUME NEW S, NEW new \in {"cancelled", "completed", "finished"}, lesson \in [Lesson -> LessonRow]
  PROVE  Ended(S, new) \in [Lesson -> LessonRow]
BY DEF Ended, LessonRow

LEMMA ClaimedType ==
  ASSUME NEW S, NEW client \in Client, lesson \in [Lesson -> LessonRow]
  PROVE  Claimed(S, client) \in [Lesson -> LessonRow]
BY DEF Claimed, LessonRow

LEMMA TakenType ==
  ASSUME NEW S \in SUBSET Schedule, snatched \subseteq Schedule
  PROVE  Taken(S) \subseteq Schedule
BY DEF Taken

LEMMA CrowdingType ==
  ASSUME NEW h, NEW S \in SUBSET Schedule
  PROVE  Crowding(h, S) \subseteq Schedule
BY DEF Crowding

LEMMA TypeInit == Init => TrainingsTypeOK
<1> SUFFICES ASSUME Init PROVE TrainingsTypeOK
  OBVIOUS
<1>1. RemindersTypeOK
  BY RemindersAssumption DEF Init, RemindersInit, RemindersTypeOK, Asleep, Time
<1>2. job \in [Handler -> Job]
  BY FreeIsJob DEF Init, RemindersInit
<1>3. lesson \in [Lesson -> LessonRow]
  BY DEF Init, NoLessons, LessonRow, Client
<1> QED
  BY <1>1, <1>2, <1>3, TrainingsAssumption DEF Init, TrainingsTypeOK

LEMMA LookType ==
  ASSUME TrainingsTypeOK, NEW h \in Handler, NEW op \in {"poll", "summary"}, Look(h, op)
  PROVE  job' \in [Handler -> Job]
<1>1. Missing \in SUBSET Time
  BY RemindersAssumption DEF Missing, TrainingsTypeOK, RemindersTypeOK
<1>2. clock \in Time
  BY DEF TrainingsTypeOK, RemindersTypeOK
<1>3. [Free EXCEPT !.pc = "fill", !.op = op, !.now = clock, !.slots = Missing] \in Job
  BY <1>1, <1>2, FreeIsJob DEF Free, Job
<1> QED
  BY <1>3 DEF Look, TrainingsTypeOK

LEMMA JobAt ==
  ASSUME TrainingsTypeOK, NEW h \in Handler
  PROVE  /\ job[h] \in Job
         /\ job[h].rows \in SUBSET Schedule /\ job[h].row \in SUBSET Schedule
         /\ job[h].slots \in SUBSET Time /\ job[h].lessons \in SUBSET Lesson /\ job[h].now \in Time
BY DEF TrainingsTypeOK, Job

\* The requests that do no more than go on.
LEMMA PollTypes ==
  ASSUME TrainingsTypeOK, NEW h \in Handler, Poll(h) \/ Replace(h), UNCHANGED <<lessonVars, events>>
  PROVE  TrainingsTypeOK'
<1> USE DEF TrainingsTypeOK, RemindersTypeOK
<1>1. CASE Summary(h)
  <2>1. job' \in [Handler -> Job]
    BY <1>1, LookType DEF Summary
  <2> QED
    BY <1>1, <2>1 DEF Summary
<1>2. CASE Fill(h)
  <2>1. job' \in [Handler -> Job]
    <3>1. [job[h] EXCEPT !.pc = "select", !.slots = {}] \in Job
      BY JobAt DEF Job
    <3> QED
      BY <1>2, <3>1, FreeIsJob DEF Fill
  <2>2. status' \in [Schedule -> RowStatus]
    BY <1>2, WrittenType DEF Fill, RowStatus
  <2>3. crowded' \subseteq Schedule
    BY <1>2, CrowdingType DEF Fill
  <2> QED
    BY <1>2, <2>1, <2>2, <2>3 DEF Fill, RowStatus
<1>3. CASE Select(h)
  <2>1. job' \in [Handler -> Job]
    <3>1. Due(job[h].now) \in SUBSET Schedule
      BY DEF Due
    <3>2. [job[h] EXCEPT !.pc = "mark", !.rows = Due(job[h].now)] \in Job
      BY <3>1, JobAt DEF Job
    <3> QED
      BY <1>3, <3>2 DEF Select
  <2> QED
    BY <1>3, <2>1 DEF Select
<1>4. CASE Mark(h)
  <2>1. job' \in [Handler -> Job]
    <3>1. [job[h] EXCEPT !.pc = "answer"] \in Job
      BY JobAt DEF Job
    <3> QED
      BY <1>4, <3>1 DEF Mark
  <2>2. status' \in [Schedule -> RowStatus]
    BY <1>4, WrittenType DEF Mark, RowStatus
  <2>3. snatched' \subseteq Schedule
    BY <1>4 DEF Mark, Job
  <2> QED
    BY <1>4, <2>1, <2>2, <2>3 DEF Mark, RowStatus
<1>5. CASE Answer(h)
  <2>1. job' \in [Handler -> Job] /\ job[h].rows \subseteq Schedule
    BY <1>5, FreeIsJob DEF Answer, Job
  <2> QED
    BY <1>5, <2>1 DEF Answer
<1>6. CASE Replace(h)
  <2>1. PICK k \in Schedule : /\ status' = [Written(job[h].rows, "cancelled") EXCEPT ![k] = "pending"]
                              /\ crowded' = crowded \union Crowding(h, {k})
    BY <1>6 DEF Replace
  <2>2. Written(job[h].rows, "cancelled") \in [Schedule -> RowStatus]
    BY WrittenType DEF RowStatus, Closed
  <2>3. status' \in [Schedule -> RowStatus]
    BY <2>1, <2>2 DEF RowStatus
  <2>4. crowded' \subseteq Schedule
    BY <2>1, CrowdingType
  <2>5. snatched' \subseteq Schedule
    BY <1>6, TakenType, JobAt DEF Replace
  <2>6. job' \in [Handler -> Job]
    BY <1>6, FreeIsJob DEF Replace
  <2> QED
    BY <1>6, <2>3, <2>4, <2>5, <2>6 DEF Replace, RowStatus
<1> QED
  BY <1>1, <1>2, <1>3, <1>4, <1>5, <1>6 DEF Poll

LEMMA BotTypes ==
  ASSUME TrainingsTypeOK, UNCHANGED lessonVars, events' \in 0 .. MaxEvents,
         \/ \E h \in Handler : BotAsks(h) \/ Dies(h)
         \/ \E k \in Schedule : Show(k)
         \/ Tick \/ BotFails
  PROVE  TrainingsTypeOK'
<1> USE DEF TrainingsTypeOK, RemindersTypeOK
<1>1. ASSUME NEW h \in Handler, BotAsks(h) PROVE TrainingsTypeOK'
  <2>1. job' \in [Handler -> Job]
    BY <1>1, LookType DEF BotAsks
  <2> QED
    BY <1>1, <2>1 DEF BotAsks, Asleep
<1>2. ASSUME NEW h \in Handler, Dies(h) PROVE TrainingsTypeOK'
  <2>1. job' \in [Handler -> Job] /\ job[h].rows \subseteq Schedule
    BY <1>2, FreeIsJob DEF Dies, Job
  <2> QED
    BY <1>2, <2>1 DEF Dies, Asleep
<1>3. ASSUME NEW k \in Schedule, Show(k) PROVE TrainingsTypeOK'
  BY <1>3 DEF Show
<1>4. CASE Tick
  BY <1>4, RemindersAssumption DEF Tick, Time
<1>5. CASE BotFails
  BY <1>5 DEF BotFails, Asleep
<1> QED
  BY <1>1, <1>2, <1>3, <1>4, <1>5

LEMMA LearnerTypes ==
  ASSUME TrainingsTypeOK, UNCHANGED lessonVars, events' \in 0 .. MaxEvents,
         \/ \E h \in Handler, kind \in {"followup", "planned"}, at \in PlanSlot : Plan(h, kind, at)
         \/ \E k \in Schedule : Skip(k) \/ CompleteEarly(k)
         \/ \E times \in SUBSET DailySlot : Settings(times)
  PROVE  TrainingsTypeOK'
<1> USE DEF TrainingsTypeOK, RemindersTypeOK
<1>3. ASSUME NEW h \in Handler, NEW kind \in {"followup", "planned"}, NEW at \in PlanSlot, Plan(h, kind, at)
      PROVE  TrainingsTypeOK'
  <2> DEFINE open == {k \in Schedule : Open(k) /\ k.kind = kind /\ Day[k.at] = Day[at]}
  <2>1. kind \in Kind /\ at \in Time
    BY RemindersAssumption DEF Kind
  <2>2. [Free EXCEPT !.pc = "plan", !.op = kind, !.slots = {at}, !.rows = open] \in Job
    BY <2>1, FreeIsJob DEF Free, Job
  <2>3. job' \in [Handler -> Job]
    BY <1>3, <2>2 DEF Plan
  <2> QED
    BY <1>3, <2>3 DEF Plan
<1>4. ASSUME NEW k \in Schedule, NEW new \in Closed, Close(k, new) PROVE TrainingsTypeOK'
  <2>1. status' \in [Schedule -> RowStatus]
    BY <1>4, WrittenType DEF Close, RowStatus
  <2>2. snatched' \subseteq Schedule
    BY <1>4, TakenType DEF Close
  <2> QED
    BY <1>4, <2>1, <2>2 DEF Close, RowStatus
<1>5. ASSUME NEW k \in Schedule, Skip(k) \/ CompleteEarly(k) PROVE TrainingsTypeOK'
  BY <1>4, <1>5 DEF Skip, CompleteEarly, Closed
<1>6. ASSUME NEW times \in SUBSET DailySlot, Settings(times) PROVE TrainingsTypeOK'
  BY <1>6 DEF Settings
<1> QED
  BY <1>3, <1>5, <1>6

\* What each request makes of a thread, and of the rows it writes.
LEMMA RequestTypes ==
  ASSUME TrainingsTypeOK, NEW h \in Handler, Request(h), UNCHANGED events
  PROVE  TrainingsTypeOK'
<1> USE DEF TrainingsTypeOK, RemindersTypeOK
<1>1. ASSUME NEW new \in RowStatus, NEW S \in SUBSET Schedule
      PROVE  Written(S, new) \in [Schedule -> RowStatus] /\ Taken(S) \subseteq Schedule
  BY WrittenType, TakenType DEF RowStatus
<1>2. CASE CompleteDue(h)
  <2>1. /\ [job[h] EXCEPT !.pc = "look", !.rows = {}] \in Job
        /\ [job[h] EXCEPT !.pc = "claim", !.rows = {}] \in Job
    BY JobAt DEF Job
  <2>2. job' \in [Handler -> Job]
    BY <1>2, <2>1, FreeIsJob DEF CompleteDue
  <2>3. status' \in [Schedule -> RowStatus] /\ snatched' \subseteq Schedule
    BY <1>1, <1>2, JobAt DEF CompleteDue, RowStatus, Closed
  <2> QED
    BY <1>2, <2>2, <2>3 DEF CompleteDue, RowStatus
<1>3. CASE LookActive(h)
  <2>1. Active \in SUBSET Lesson
    BY DEF Active
  <2>2. [job[h] EXCEPT !.pc = "cancel", !.lessons = Active] \in Job
    BY <2>1, JobAt DEF Job
  <2>3. job' = [job EXCEPT ![h] = [job[h] EXCEPT !.pc = "cancel", !.lessons = Active]]
    BY <1>3 DEF LookActive
  <2>4. job' \in [Handler -> Job]
    BY <2>2, <2>3
  <2> QED
    BY <1>3, <2>4 DEF LookActive
<1>4. CASE Cancel(h)
  <2>1. [job[h] EXCEPT !.pc = "create", !.lessons = {}] \in Job
    BY JobAt DEF Job
  <2>2. job' = [job EXCEPT ![h] = [job[h] EXCEPT !.pc = "create", !.lessons = {}]]
    BY <1>4 DEF Cancel
  <2>3. job' \in [Handler -> Job]
    BY <2>1, <2>2
  <2>4. lesson' \in [Lesson -> LessonRow] /\ swept' \subseteq Lesson
    BY <1>4, EndedType, JobAt DEF Cancel, Ending
  <2> QED
    BY <1>4, <2>3, <2>4 DEF Cancel
<1>5. CASE Create(h)
  <2>1. [job[h] EXCEPT !.pc = "started"] \in Job /\ [job[h] EXCEPT !.pc = "claim"] \in Job
    BY JobAt DEF Job
  <2>2. job' \in [Handler -> Job]
    BY <1>5, <2>1, FreeIsJob DEF Create
  <2>3. lesson' \in [Lesson -> LessonRow] /\ crossing' \subseteq Lesson
    BY <1>5 DEF Create, LessonRow, Client
  <2> QED
    BY <1>5, <2>2, <2>3 DEF Create
<1>6. CASE Started(h)
  <2>1. status' \in [Schedule -> RowStatus] /\ snatched' \subseteq Schedule
    BY <1>1, <1>6, JobAt DEF Started, RowStatus, Closed
  <2> QED
    BY <1>6, <2>1, FreeIsJob DEF Started, RowStatus
<1>7. CASE ClaimStarted(h)
  <2>1. lesson' \in [Lesson -> LessonRow]
    BY <1>7, ClaimedType DEF ClaimStarted, Client
  <2> QED
    BY <1>7, <2>1, FreeIsJob DEF ClaimStarted
<1>8. CASE Finish(h)
  <2>1. job' \in [Handler -> Job]
    BY <1>8, FreeIsJob DEF Finish, ThenSummary, Free, Job
  <2>2. lesson' \in [Lesson -> LessonRow] /\ swept' \subseteq Lesson
    BY <1>8, EndedType, JobAt DEF Finish, Ending
  <2> QED
    BY <1>8, <2>1, <2>2 DEF Finish
<1> QED
  BY <1>2, <1>3, <1>4, <1>5, <1>6, <1>7, <1>8 DEF Request

LEMMA TapTypes ==
  ASSUME TrainingsTypeOK, events' \in 0 .. MaxEvents,
         \/ \E h \in Handler, client \in Client : Start(h, client, {}) \/ LastAnswer(h, client) \/ Resume(h, client)
         \/ \E h \in Handler, k \in shown : Start(h, "bot", {k})
         \/ CloseSummary
  PROVE  TrainingsTypeOK'
<1> USE DEF TrainingsTypeOK, RemindersTypeOK
<1>1. ASSUME NEW h \in Handler, NEW client \in Client, NEW row \in SUBSET Schedule, Start(h, client, row)
      PROVE  TrainingsTypeOK'
  <2> DEFINE due == {k \in Schedule \ row : Open(k) /\ k.at <= clock}
  <2>1. [Free EXCEPT !.pc = "due", !.op = client, !.now = clock, !.row = row, !.rows = due] \in Job
    BY FreeIsJob DEF Free, Job
  <2>2. job' \in [Handler -> Job]
    BY <1>1, <2>1 DEF Start
  <2> QED
    BY <1>1, <2>2 DEF Start
<1>2. ASSUME NEW h \in Handler, NEW client \in Client, LastAnswer(h, client) PROVE TrainingsTypeOK'
  <2>1. PICK l \in Current : job' = [job EXCEPT ![h] = [Free EXCEPT !.pc = "finish", !.op = client, !.lessons = {l}]]
    BY <1>2 DEF LastAnswer
  <2>2. l \in Lesson
    BY DEF Current, Active
  <2>3. [Free EXCEPT !.pc = "finish", !.op = client, !.lessons = {l}] \in Job
    BY <2>2, FreeIsJob DEF Free, Job
  <2>4. job' \in [Handler -> Job]
    BY <2>1, <2>3
  <2> QED
    BY <1>2, <2>4 DEF LastAnswer
<1>3. ASSUME NEW h \in Handler, NEW client \in Client, Resume(h, client) PROVE TrainingsTypeOK'
  <2>1. job' \in [Handler -> Job]
    BY <1>3, FreeIsJob DEF Resume, ThenSummary, Free, Job
  <2>2. lesson' \in [Lesson -> LessonRow]
    BY <1>3, ClaimedType DEF Resume
  <2> QED
    BY <1>3, <2>1, <2>2 DEF Resume
<1>4. CASE CloseSummary
  BY <1>4, EndedType DEF CloseSummary
<1>5. ASSUME NEW h \in Handler, NEW k \in shown, Start(h, "bot", {k}) PROVE TrainingsTypeOK'
  <2>1. {k} \in SUBSET Schedule /\ "bot" \in Client
    BY DEF Client
  <2> QED
    BY <1>1, <1>5, <2>1
<1>6. ASSUME NEW h \in Handler, NEW client \in Client, Start(h, client, {}) PROVE TrainingsTypeOK'
  BY <1>1, <1>6
<1> QED
  BY <1>2, <1>3, <1>4, <1>5, <1>6

LEMMA TypeNext == TrainingsTypeOK /\ [Next]_vars => TrainingsTypeOK'
<1> SUFFICES ASSUME TrainingsTypeOK, [Next]_vars PROVE TrainingsTypeOK'
  OBVIOUS
<1>1. ASSUME (Learner \/ Fails) /\ events < MaxEvents /\ events' = events + 1
      PROVE  TrainingsTypeOK'
  <2>1. events' \in 0 .. MaxEvents
    BY <1>1, TrainingsAssumption DEF TrainingsTypeOK
  <2> QED
    BY <1>1, <2>1, LearnerTypes, TapTypes, BotTypes DEF Learner, Fails
<1>2. ASSUME ((\E h \in Handler : Goes(h)) \/ Polled \/ Reminded \/ Passes), UNCHANGED events
      PROVE  TrainingsTypeOK'
  <2>1. events' \in 0 .. MaxEvents
    BY <1>2 DEF TrainingsTypeOK
  <2> QED
    BY <1>2, <2>1, PollTypes, RequestTypes, BotTypes DEF Goes, Polled, Reminded, Passes
<1>3. CASE UNCHANGED vars
  BY <1>3 DEF vars, TrainingsTypeOK, RemindersTypeOK
<1> QED
  BY <1>1, <1>2, <1>3 DEF Next

\* Every field keeps its type, for any number of times, threads, rows and lessons.
THEOREM TrainingsTyped == Spec => []TrainingsTypeOK
BY TypeInit, TypeNext, PTL DEF Spec

----------------------------------------------------------------------------
(* Lessons. *)

\* A start that has read the active lessons knows them all, and once it has
\* cancelled them there is none, but for those created across it.
StartsHaveSwept ==
  \A h \in Handler, l \in Lesson \ crossing :
    lesson[l].status = "active" =>
      /\ job[h].pc = "cancel" => l \in job[h].lessons
      /\ job[h].pc # "create"

\* What a request is about to end the other way has not been ended since.
EndsAreTrue ==
  \A h \in Handler, l \in Lesson \ swept :
    l \in job[h].lessons =>
      /\ job[h].pc = "cancel" => lesson[l].status \notin {"completed", "finished"}
      /\ job[h].pc = "finish" => lesson[l].status # "cancelled"

LessonsInv == OneLesson /\ StartsHaveSwept /\ EndsAreTrue

Ends == {"cancel", "create", "finish"}

EndedStay ==
  \A l \in Lesson \ swept' :
       /\ lesson[l].status = "cancelled" => lesson'[l].status = "cancelled"
       /\ lesson[l].status \in {"completed", "finished"} => lesson'[l].status \in {"completed", "finished"}

LEMMA LessonsInit == Init => LessonsInv
<1> SUFFICES ASSUME Init PROVE LessonsInv
  OBVIOUS
<1>1. \A h \in Handler : job[h].pc = "free" /\ job[h].lessons = {}
  BY DEF Init, RemindersInit, Free
<1>2. \A l, m \in Lesson : lesson[l].status = "active" /\ lesson[m].status = "active" => l = m
  <2>1. CASE lesson = NoLessons
    BY <2>1 DEF NoLessons
  <2>2. ASSUME NEW client \in Client, lesson = [NoLessons EXCEPT ![1] = [status |-> "active", on |-> client]]
        PROVE  \A l \in Lesson : lesson[l].status = "active" => l = 1
    BY <2>2 DEF NoLessons
  <2> QED
    BY <2>1, <2>2 DEF Init
<1> QED
  BY <1>1, <1>2 DEF LessonsInv, OneLesson, StartsHaveSwept, EndsAreTrue

\* A step that leaves the lessons alone, and takes no thread to where it ends one.
LEMMA LessonsLeftAlone ==
  ASSUME LessonsInv, UNCHANGED lessonVars,
         \A h \in Handler : job'[h] = job[h] \/ job'[h].pc \notin Ends
  PROVE  LessonsInv' /\ EndedStay
BY DEF LessonsInv, OneLesson, StartsHaveSwept, EndsAreTrue, EndedStay, Ends

LEMMA OthersLeaveLessons ==
  ASSUME TrainingsTypeOK, LessonsInv, UNCHANGED lessonVars, NEW h \in Handler,
         \/ Poll(h) \/ Replace(h) \/ BotAsks(h) \/ Dies(h) \/ CompleteDue(h) \/ Started(h)
         \/ \E kind, at : Plan(h, kind, at)
         \/ \E client, row : Start(h, client, row)
         \/ job' = job
  PROVE  LessonsInv' /\ EndedStay
<1>1. \A g \in Handler \ {h} : job'[g] = job[g]
  BY DEF Poll, Summary, Look, Fill, Select, Mark, Answer, BotAsks, Dies, Replace,
         CompleteDue, Started, Plan, Start, TrainingsTypeOK
<1>2. job'[h] = job[h] \/ job'[h].pc \notin Ends
  <2>1. job[h] \in Job
    BY DEF TrainingsTypeOK
  <2>2. CASE Poll(h)
    <3>1. CASE Summary(h)
      BY <3>1 DEF Summary, Look, TrainingsTypeOK, Free, Ends
    <3>2. CASE Fill(h)
      <4>1. job'[h] = [job[h] EXCEPT !.pc = "select", !.slots = {}] \/ job'[h] = Free
        <5>1. job' = [job EXCEPT ![h] = IF job[h].op = "poll" THEN [job[h] EXCEPT !.pc = "select", !.slots = {}] ELSE Free]
          BY <3>2 DEF Fill
        <5> HIDE DEF Free
        <5> QED
          BY <5>1 DEF TrainingsTypeOK
      <4>2. [job[h] EXCEPT !.pc = "select", !.slots = {}].pc = "select" /\ Free.pc = "free"
        BY <2>1 DEF Job, Free
      <4> QED
        BY <4>1, <4>2 DEF Ends
    <3>3. CASE Select(h) \/ Mark(h) \/ Answer(h)
      BY <2>1, <3>3 DEF Select, Mark, Answer, TrainingsTypeOK, Free, Job, Ends
    <3> QED
      BY <2>2, <3>1, <3>2, <3>3 DEF Poll
  <2>3. CASE BotAsks(h) \/ Dies(h)
    <3>1. CASE BotAsks(h)
      BY <3>1 DEF BotAsks, Look, TrainingsTypeOK, Free, Ends
    <3>2. CASE Dies(h)
      BY <3>2 DEF Dies, TrainingsTypeOK, Free, Ends
    <3> QED
      BY <2>3, <3>1, <3>2
  <2>6. CASE Replace(h) \/ \E kind, at : Plan(h, kind, at)
    <3>1. CASE Replace(h)
      BY <3>1 DEF Replace, TrainingsTypeOK, Free, Ends
    <3>2. CASE \E kind, at : Plan(h, kind, at)
      <4>1. job'[h].pc = "plan"
        BY <3>2 DEF Plan, TrainingsTypeOK, Free
      <4> QED
        BY <4>1 DEF Ends
    <3> QED
      BY <2>6, <3>1, <3>2
  <2>4. CASE CompleteDue(h) \/ Started(h)
    <3>1. \/ job'[h] = [job[h] EXCEPT !.pc = "look", !.rows = {}]
          \/ job'[h] = [job[h] EXCEPT !.pc = "claim", !.rows = {}]
          \/ job'[h] = Free
      <4>1. \/ job' = [job EXCEPT ![h] = [job[h] EXCEPT !.pc = "look", !.rows = {}]]
            \/ job' = [job EXCEPT ![h] = [job[h] EXCEPT !.pc = "claim", !.rows = {}]]
            \/ job' = [job EXCEPT ![h] = Free]
        BY <2>4 DEF CompleteDue, Started
      <4> QED
        BY <4>1 DEF TrainingsTypeOK
    <3>2. /\ [job[h] EXCEPT !.pc = "look", !.rows = {}].pc = "look"
          /\ [job[h] EXCEPT !.pc = "claim", !.rows = {}].pc = "claim"
          /\ Free.pc = "free"
      BY <2>1 DEF Job, Free
    <3> QED
      BY <3>1, <3>2 DEF Ends
  <2>5. CASE \E client, row : Start(h, client, row)
    BY <2>5 DEF Start, TrainingsTypeOK, Free, Ends
  <2> QED
    BY <2>2, <2>3, <2>4, <2>5, <2>6
<1> QED
  BY <1>1, <1>2, LessonsLeftAlone

LEMMA CancelKeepsLessons ==
  ASSUME TrainingsTypeOK, LessonsInv, NEW h \in Handler, LookActive(h) \/ Cancel(h)
  PROVE  LessonsInv' /\ EndedStay
<1> USE DEF TrainingsTypeOK, LessonsInv
<1>1. CASE LookActive(h)
  <2>1. /\ job' = [job EXCEPT ![h] = [job[h] EXCEPT !.pc = "cancel", !.lessons = Active]]
        /\ job[h] \in Job
    BY <1>1 DEF LookActive
  <2>2. job'[h].pc = "cancel" /\ job'[h].lessons = Active /\ \A g \in Handler \ {h} : job'[g] = job[g]
    BY <2>1 DEF Job
  <2> QED
    BY <1>1, <2>2 DEF LookActive, Active, OneLesson, StartsHaveSwept, EndsAreTrue, EndedStay
<1>2. CASE Cancel(h)
  <2>1. /\ job' = [job EXCEPT ![h] = [job[h] EXCEPT !.pc = "create", !.lessons = {}]]
        /\ job[h] \in Job
    BY <1>2 DEF Cancel
  <2>2. job'[h].pc = "create" /\ job'[h].lessons = {} /\ \A g \in Handler \ {h} : job'[g] = job[g]
    BY <2>1 DEF Job
  <2>3. \A l \in Lesson : lesson'[l].status = IF l \in job[h].lessons THEN "cancelled" ELSE lesson[l].status
    BY <1>2 DEF Cancel, Ended, LessonRow
  <2>4. \A g \in Handler \ {h}, l \in Lesson :
          l \in job[h].lessons /\ job[g].pc = "finish" /\ l \in job[g].lessons => l \in swept'
    BY <1>2 DEF Cancel, Ending
  <2>5. UNCHANGED crossing /\ swept \subseteq swept' /\ job[h].pc = "cancel"
    BY <1>2 DEF Cancel
  <2>6. OneLesson'
    BY <2>3, <2>5 DEF OneLesson
  <2>7. StartsHaveSwept'
    BY <2>2, <2>3, <2>5 DEF StartsHaveSwept
  <2>8. EndsAreTrue'
    BY <2>2, <2>3, <2>4, <2>5 DEF EndsAreTrue
  <2>9. EndedStay
    BY <2>3, <2>5 DEF EndedStay, EndsAreTrue
  <2> QED
    BY <2>6, <2>7, <2>8, <2>9
<1> QED
  BY <1>1, <1>2

LEMMA CreateKeepsLessons ==
  ASSUME TrainingsTypeOK, LessonsInv, NEW h \in Handler, Create(h)
  PROVE  LessonsInv' /\ EndedStay
<1> USE DEF TrainingsTypeOK, LessonsInv
<1>1. PICK l \in Lesson : /\ lesson[l].status = "none"
                          /\ lesson' = [lesson EXCEPT ![l] = [status |-> "active", on |-> "bot"]]
                          /\ crossing' = IF \E g \in Handler \ {h} : job[g].pc \in {"cancel", "create"}
                                           THEN crossing \union {l} ELSE crossing
  BY DEF Create
<1>2. UNCHANGED swept /\ job[h].pc = "create"
  BY DEF Create
<1>3. job'[h].pc \notin Ends /\ \A g \in Handler \ {h} : job'[g] = job[g]
  BY JobAt DEF Create, Free, Job, Ends
<1>4. \A m \in Lesson \ crossing : lesson[m].status # "active"
  BY <1>2 DEF StartsHaveSwept
<1>5. OneLesson'
  BY <1>1, <1>4 DEF OneLesson
<1>6. StartsHaveSwept'
  BY <1>1, <1>3, <1>4 DEF StartsHaveSwept, Ends
<1>7. EndsAreTrue'
  BY <1>1, <1>2, <1>3 DEF EndsAreTrue, Ends
<1>8. EndedStay
  BY <1>1, <1>2 DEF EndedStay
<1> QED
  BY <1>5, <1>6, <1>7, <1>8

LEMMA ClaimKeepsLessons ==
  ASSUME TrainingsTypeOK, LessonsInv,
         \E h \in Handler : ClaimStarted(h) \/ \E client \in Client : Resume(h, client)
  PROVE  LessonsInv' /\ EndedStay
<1> USE DEF TrainingsTypeOK, LessonsInv
<1>1. \A l \in Lesson : lesson'[l].status = lesson[l].status
  BY DEF ClaimStarted, Resume, Claimed, LessonRow
<1>2. UNCHANGED <<crossing, swept>>
  BY DEF ClaimStarted, Resume
<1>3. \A g \in Handler : job'[g] = job[g] \/ job'[g].pc \notin Ends
  BY DEF ClaimStarted, Resume, ThenSummary, Free, Ends
<1> QED
  BY <1>1, <1>2, <1>3 DEF OneLesson, StartsHaveSwept, EndsAreTrue, EndedStay, Ends

LEMMA FinishKeepsLessons ==
  ASSUME TrainingsTypeOK, LessonsInv,
         \/ \E h \in Handler : Finish(h) \/ \E client \in Client : LastAnswer(h, client)
         \/ CloseSummary
  PROVE  LessonsInv' /\ EndedStay
<1> USE DEF TrainingsTypeOK, LessonsInv
<1>1. ASSUME NEW h \in Handler, NEW client \in Client, LastAnswer(h, client)
      PROVE  LessonsInv' /\ EndedStay
  <2>1. PICK l \in Current : job' = [job EXCEPT ![h] = [Free EXCEPT !.pc = "finish", !.op = client, !.lessons = {l}]]
    BY <1>1 DEF LastAnswer
  <2>2. job'[h].pc = "finish" /\ job'[h].lessons = {l} /\ \A g \in Handler \ {h} : job'[g] = job[g]
    BY <2>1 DEF Free
  <2>3. l \in Lesson /\ lesson[l].status = "active"
    BY DEF Current, Active
  <2> QED
    BY <1>1, <2>2, <2>3 DEF LastAnswer, OneLesson, StartsHaveSwept, EndsAreTrue, EndedStay
<1>2. ASSUME NEW h \in Handler, Finish(h) PROVE LessonsInv' /\ EndedStay
  <2>1. job'[h].pc = "summary" /\ \A g \in Handler \ {h} : job'[g] = job[g]
    BY <1>2 DEF Finish, ThenSummary, Free
  <2>2. \A l \in Lesson : lesson'[l].status = IF l \in job[h].lessons THEN "completed" ELSE lesson[l].status
    BY <1>2 DEF Finish, Ended, LessonRow
  <2>3. \A g \in Handler \ {h}, l \in Lesson :
          l \in job[h].lessons /\ job[g].pc = "cancel" /\ l \in job[g].lessons => l \in swept'
    BY <1>2 DEF Finish, Ending
  <2>4. UNCHANGED crossing /\ swept \subseteq swept' /\ job[h].pc = "finish"
    BY <1>2 DEF Finish
  <2>5. OneLesson'
    BY <2>2, <2>4 DEF OneLesson
  <2>6. StartsHaveSwept'
    BY <2>1, <2>2, <2>4 DEF StartsHaveSwept
  <2>7. EndsAreTrue'
    BY <2>1, <2>2, <2>3, <2>4 DEF EndsAreTrue
  <2>8. EndedStay
    BY <2>2, <2>4 DEF EndedStay, EndsAreTrue
  <2> QED
    BY <2>5, <2>6, <2>7, <2>8
<1>3. CASE CloseSummary
  <2>1. \A l \in Lesson : \/ lesson'[l].status = lesson[l].status
                          \/ (lesson[l].status = "completed" /\ lesson'[l].status = "finished")
    <3> DEFINE closed == {l \in Newest : lesson[l].status = "completed" /\ lesson[l].on = "web"}
    <3>1. \A l \in closed : lesson[l].status = "completed"
      OBVIOUS
    <3>2. lesson' = Ended(closed, "finished")
      BY <1>3 DEF CloseSummary
    <3> HIDE DEF closed
    <3> QED
      <4>1. \A l \in Lesson : lesson[l] \in LessonRow
        BY DEF TrainingsTypeOK
      <4>2. \A l \in Lesson : lesson'[l] = IF l \in closed THEN [lesson[l] EXCEPT !.status = "finished"] ELSE lesson[l]
        BY <3>2 DEF Ended
      <4> QED
        BY <3>1, <4>1, <4>2 DEF LessonRow
  <2>2. UNCHANGED <<job, crossing, swept>>
    BY <1>3 DEF CloseSummary
  <2> QED
    BY <2>1, <2>2 DEF OneLesson, StartsHaveSwept, EndsAreTrue, EndedStay
<1> QED
  BY <1>1, <1>2, <1>3

LEMMA LessonsNext == TrainingsTypeOK /\ LessonsInv /\ [Next]_vars => LessonsInv' /\ EndedStay
<1> SUFFICES ASSUME TrainingsTypeOK, LessonsInv, [Next]_vars PROVE LessonsInv' /\ EndedStay
  OBVIOUS
<1>1. CASE Learner
  <2>1. CASE /\ \/ \E h \in Handler, kind \in {"followup", "planned"}, at \in PlanSlot : Plan(h, kind, at)
                \/ \E k \in Schedule : Skip(k) \/ CompleteEarly(k)
                \/ \E times \in SUBSET DailySlot : Settings(times)
             /\ UNCHANGED lessonVars
    <3>1. CASE \E h \in Handler, kind \in {"followup", "planned"}, at \in PlanSlot : Plan(h, kind, at)
      BY <2>1, <3>1, OthersLeaveLessons
    <3>2. CASE job' = job
      BY <2>1, <3>2, LessonsLeftAlone
    <3> QED
      BY <2>1, <3>1, <3>2 DEF Skip, CompleteEarly, Close, Settings
  <2>2. ASSUME NEW h \in Handler, NEW client, NEW row, Start(h, client, row) PROVE LessonsInv' /\ EndedStay
    <3>1. UNCHANGED lessonVars
      BY <2>2 DEF Start
    <3> QED
      BY <2>2, <3>1, OthersLeaveLessons
  <2> QED
    BY <1>1, <2>1, <2>2, ClaimKeepsLessons, FinishKeepsLessons DEF Learner
<1>2. ASSUME NEW h \in Handler, Goes(h) PROVE LessonsInv' /\ EndedStay
  <2>1. CASE CompleteDue(h) \/ Started(h)
    <3>1. UNCHANGED lessonVars
      BY <2>1 DEF CompleteDue, Started
    <3> QED
      BY <2>1, <3>1, OthersLeaveLessons
  <2> QED
    BY <1>2, <2>1, OthersLeaveLessons, CancelKeepsLessons, CreateKeepsLessons, ClaimKeepsLessons,
       FinishKeepsLessons DEF Goes, Request
<1>3. CASE Polled \/ Fails
  <2>1. CASE BotFails /\ UNCHANGED lessonVars
    BY <2>1, LessonsLeftAlone DEF BotFails
  <2> QED
    BY <1>3, <2>1, OthersLeaveLessons DEF Polled, Fails
<1>4. CASE Reminded \/ Passes
  BY <1>4, LessonsLeftAlone DEF Reminded, Passes, Show, Tick
<1>5. CASE UNCHANGED vars
  BY <1>5, LessonsLeftAlone DEF vars
<1> QED
  BY <1>1, <1>2, <1>3, <1>4, <1>5 DEF Next

\* A learner is in one lesson, or in those that starts have created across one
\* another, however many threads serve the two clients.
THEOREM OneLessonHolds == Spec => []OneLesson
<1>1. LessonsInv => OneLesson
  BY DEF LessonsInv
<1> QED
  BY <1>1, TypeInit, TypeNext, LessonsInit, LessonsNext, PTL DEF Spec

\* Neither end of a lesson is undone by a request that had read it before.
THEOREM EndedStaysEnded == Spec => EndedStays
<1>1. TrainingsTypeOK /\ LessonsInv /\ [Next]_vars => [EndedStay]_vars
  BY LessonsNext
<1>2. EndedStays <=> [][EndedStay]_vars
  BY DEF EndedStays, EndedStay
<1> QED
  BY <1>1, <1>2, TypeInit, TypeNext, LessonsInit, LessonsNext, PTL DEF Spec

----------------------------------------------------------------------------
(* Reminders. *)

Marking(h) == IF job[h].pc = "mark" THEN job[h].rows ELSE {}
Telling(h) == IF job[h].pc = "answer" THEN job[h].rows ELSE {}

\* What threads and the bot hold has been written once.
RowsExist ==
  /\ \A k \in shown \union bot.inbox : status[k] # "absent"
  /\ \A h \in Handler : \A k \in job[h].rows \union job[h].row : status[k] # "absent"

\* What a poll will mark is still pending ..
MarksAreDue == \A h \in Handler : \A k \in Marking(h) \ snatched : status[k] = "pending"

\* .. and what was marked never is ..
Told ==
  /\ \A k \in shown \union bot.inbox : status[k] # "pending"
  /\ \A h \in Handler : \A k \in Telling(h) : status[k] # "pending"

\* .. so that the poll the bot waits for brings it nothing that it has shown.
NeverTwice ==
  /\ again = {} /\ bot.inbox \intersect shown = {}
  /\ bot.on # {} => bot.inbox = {}
  /\ \A h \in Handler : bot.on = {h} => (Marking(h) \union Telling(h)) \intersect shown = {}

\* A slot that a thread is about to fill is empty but for what was inserted
\* across it, and a slot that was filled is not given up.
SlotsAreFree ==
  /\ \A h \in Handler : job[h].pc = "fill" =>
       \A k \in Schedule \ crowded : (k.kind = "daily" /\ k.at \in job[h].slots) => status[k] = "absent"
  /\ \A h \in Handler : job[h].pc = "plan" =>
       job[h].op # "daily" /\ \A k \in job[h].rows : k.kind # "daily"
  /\ \A k \in Schedule : k.kind = "daily" => status[k] # "cancelled"

\* A plan has read what it replaces, but for what was inserted or reopened since.
PlansKnow ==
  \A h \in Handler : job[h].pc = "plan" =>
    \A k \in Schedule \ (crowded \union snatched) : (Open(k) /\ Fills(h, k)) => k \in job[h].rows

OneRow ==
  \A j, k \in Schedule \ crowded :
    (/\ j.kind = "daily" /\ k.kind = "daily" /\ j.at = k.at
     /\ status[j] # "absent" /\ status[k] # "absent") => j = k

OnePlan ==
  \A j, k \in Schedule \ (crowded \union snatched) :
    (/\ j.kind # "daily" /\ j.kind = k.kind /\ Day[j.at] = Day[k.at]
     /\ Open(j) /\ Open(k)) => j = k

RemindersInv ==
  /\ RowsExist /\ MarksAreDue /\ Told /\ NeverTwice
  /\ SlotsAreFree /\ PlansKnow /\ OneRow /\ OnePlan

Polls == {"fill", "mark", "answer", "plan"}

ClosedStay == \A k \in Schedule \ snatched' : status[k] \in Closed => status'[k] \in Closed

LEMMA RemindersInitially == Init => RemindersInv
<1> SUFFICES ASSUME Init PROVE RemindersInv
  OBVIOUS
<1>1. \A h \in Handler : job[h].pc = "free" /\ job[h].rows = {} /\ job[h].row = {}
  BY DEF Init, RemindersInit, Free
<1>2. shown = {} /\ again = {} /\ bot = Asleep /\ \A k \in Schedule : status[k] = "absent"
  BY DEF Init, RemindersInit
<1>3. RowsExist /\ MarksAreDue /\ Told /\ NeverTwice
  BY <1>1, <1>2 DEF RowsExist, MarksAreDue, Told, NeverTwice, Marking, Telling, Asleep
<1>4. SlotsAreFree /\ PlansKnow /\ OneRow /\ OnePlan
  BY <1>1, <1>2 DEF SlotsAreFree, PlansKnow, OneRow, OnePlan, Open
<1> QED
  BY <1>3, <1>4 DEF RemindersInv

\* A step that opens no planned training, and takes no thread to where it plans one.
LEMMA PlansLeftAlone ==
  ASSUME PlansKnow, OnePlan, crowded \subseteq crowded', snatched \subseteq snatched',
         \A k \in Schedule \ (crowded' \union snatched') : (k.kind # "daily" /\ Open(k)') => Open(k),
         \A h \in Handler : \/ job'[h].pc # "plan"
                            \/ job'[h] = job[h] /\ job[h].op # "daily"
  PROVE  PlansKnow' /\ OnePlan'
<1>1. PlansKnow'
  <2> SUFFICES ASSUME NEW h \in Handler, job'[h].pc = "plan",
                      NEW k \in Schedule \ (crowded' \union snatched'), Open(k)', Fills(h, k)'
               PROVE  k \in job'[h].rows
    BY DEF PlansKnow
  <2>1. job'[h] = job[h] /\ job[h].op # "daily"
    OBVIOUS
  <2>2. Fills(h, k) /\ k.kind # "daily"
    BY <2>1 DEF Fills
  <2>3. Open(k)
    BY <2>2
  <2> QED
    BY <2>1, <2>2, <2>3 DEF PlansKnow
<1>2. OnePlan'
  BY DEF OnePlan
<1> QED
  BY <1>1, <1>2

\* A step that writes no row, and takes no thread into a poll.
LEMMA RowsLeftAlone ==
  ASSUME RemindersInv, UNCHANGED <<status, shown, again, crowded, snatched>>,
         bot' = bot \/ bot' = Asleep,
         \A h \in Handler : \/ job'[h] = job[h]
                            \/ /\ job'[h].pc \notin Polls
                               /\ \A k \in job'[h].rows \union job'[h].row : status[k] # "absent"
  PROVE  RemindersInv' /\ ClosedStay
<1> USE DEF RemindersInv
<1>1. \A h \in Handler : Marking(h)' \subseteq Marking(h) /\ Telling(h)' \subseteq Telling(h)
  BY DEF Marking, Telling, Polls
<1>2. RowsExist'
  BY DEF RowsExist, Asleep
<1>3. MarksAreDue'
  BY <1>1 DEF MarksAreDue
<1>4. Told' /\ NeverTwice'
  BY <1>1 DEF Told, NeverTwice, Asleep
<1>5. SlotsAreFree' /\ OneRow'
  BY DEF SlotsAreFree, OneRow, Polls
<1>6. PlansKnow' /\ OnePlan'
  BY PlansLeftAlone DEF SlotsAreFree, Open, Polls
<1> QED
  BY <1>2, <1>3, <1>4, <1>5, <1>6 DEF ClosedStay

\* A step that closes rows.
LEMMA RowsClosed ==
  ASSUME TrainingsTypeOK, RemindersInv, UNCHANGED <<bot, shown, again, crowded>>,
         NEW S \in SUBSET Schedule, NEW new \in {"completed", "skipped"},
         \A k \in S : status[k] # "absent",
         status' = Written(S, new), snatched' = Taken(S),
         \A h \in Handler : \/ job'[h] = job[h]
                            \/ /\ job'[h].pc \notin Polls
                               /\ job'[h].rows \subseteq job[h].rows /\ job'[h].row \subseteq job[h].row
  PROVE  RemindersInv' /\ ClosedStay
<1> USE DEF RemindersInv
<1>1. \A k \in Schedule : status'[k] = IF k \in S THEN new ELSE status[k]
  BY DEF Written
<1>2. \A h \in Handler : Marking(h)' \subseteq Marking(h) /\ Telling(h)' \subseteq Telling(h)
  BY DEF Marking, Telling, Polls
<1>3. snatched \subseteq snatched' /\ \A h \in Handler : \A k \in S : k \in Marking(h) => k \in snatched'
  BY DEF Taken, Marking
<1>4. /\ shown \union bot.inbox \subseteq Schedule
      /\ \A h \in Handler : job[h].rows \subseteq Schedule /\ job[h].row \subseteq Schedule
  BY JobAt DEF TrainingsTypeOK, RemindersTypeOK
<1>5. RowsExist'
  BY <1>1, <1>4 DEF RowsExist
<1>6. MarksAreDue'
  BY <1>1, <1>2, <1>3, <1>4 DEF MarksAreDue, Marking
<1>7. Told' /\ NeverTwice'
  BY <1>1, <1>2, <1>3, <1>4 DEF Told, NeverTwice, Telling
<1>8. SlotsAreFree' /\ OneRow'
  BY <1>1 DEF SlotsAreFree, OneRow, Polls
<1>9. PlansKnow' /\ OnePlan'
  BY <1>1, <1>3, PlansLeftAlone DEF SlotsAreFree, Open, Polls
<1> QED
  BY <1>1, <1>5, <1>6, <1>7, <1>8, <1>9 DEF ClosedStay, Closed

\* A step that marks no row and writes none but new ones.
LEMMA LookKeepsRows ==
  ASSUME TrainingsTypeOK, RemindersInv, NEW h \in Handler, Summary(h) \/ BotAsks(h)
  PROVE  RemindersInv' /\ ClosedStay
<1> USE DEF RemindersInv
<1>1. /\ job'[h].pc = "fill" /\ job'[h].slots = Missing /\ job'[h].rows = {} /\ job'[h].row = {}
      /\ \A g \in Handler \ {h} : job'[g] = job[g]
  BY DEF Summary, BotAsks, Look, Free, TrainingsTypeOK
<1>2. /\ UNCHANGED <<status, shown, again, crowded, snatched>>
      /\ bot' = bot \/ bot' = [on |-> {h}, inbox |-> {}]
  BY DEF Summary, BotAsks, Asleep
<1>3. \A g \in Handler : Marking(g)' \subseteq Marking(g) /\ Telling(g)' \subseteq Telling(g)
  BY <1>1 DEF Marking, Telling
<1>4. RowsExist'
  BY <1>1, <1>2 DEF RowsExist
<1>5. MarksAreDue'
  BY <1>2, <1>3 DEF MarksAreDue
<1>6. Told' /\ NeverTwice'
  <2>1. Marking(h)' = {} /\ Telling(h)' = {}
    BY <1>1 DEF Marking, Telling
  <2> QED
    BY <1>2, <1>3, <2>1 DEF Told, NeverTwice
<1>7. SlotsAreFree'
  <2>1. \A k \in Schedule : k.kind = "daily" /\ k.at \in Missing => status[k] = "absent"
    BY DEF Missing, Known, SlotsAreFree, TrainingsTypeOK, RemindersTypeOK, Closed
  <2> QED
    BY <1>1, <1>2, <2>1 DEF SlotsAreFree
<1>8. OneRow'
  BY <1>2 DEF OneRow
<1>9. PlansKnow' /\ OnePlan'
  BY <1>1, <1>2, PlansLeftAlone DEF SlotsAreFree, Open
<1> QED
  BY <1>2, <1>4, <1>5, <1>6, <1>7, <1>8, <1>9 DEF ClosedStay

LEMMA FillKeepsRows ==
  ASSUME TrainingsTypeOK, RemindersInv, NEW h \in Handler, Fill(h)
  PROVE  RemindersInv' /\ ClosedStay
<1> USE DEF RemindersInv
<1> DEFINE filled == {k \in Schedule : k.kind = "daily" /\ k.at \in job[h].slots /\ Fresh(k)}
<1>1. \A k \in Schedule : status'[k] = IF k \in filled THEN "pending" ELSE status[k]
  BY DEF Fill, Written
<1>2. \A k \in filled : status[k] = "absent"
  BY DEF Fresh
<1>3. /\ crowded' = crowded \union Crowding(h, filled)
      /\ UNCHANGED <<bot, shown, again, snatched>> /\ job[h].pc = "fill"
  BY DEF Fill
<1>4. /\ job'[h].pc \notin Polls /\ job'[h].rows \subseteq job[h].rows /\ job'[h].row \subseteq job[h].row
      /\ \A g \in Handler \ {h} : job'[g] = job[g]
  <2>1. job' = [job EXCEPT ![h] = IF job[h].op = "poll" THEN [job[h] EXCEPT !.pc = "select", !.slots = {}] ELSE Free]
    BY DEF Fill
  <2>2. LET j == [job[h] EXCEPT !.pc = "select", !.slots = {}]
        IN  j.pc = "select" /\ j.rows = job[h].rows /\ j.row = job[h].row
    BY JobAt DEF Job
  <2>3. Free.pc = "free" /\ Free.rows = {} /\ Free.row = {}
    BY DEF Free
  <2>4. \/ job'[h] = [job[h] EXCEPT !.pc = "select", !.slots = {}]
        \/ job'[h] = Free
    <3> HIDE DEF Free
    <3> QED
      BY <2>1 DEF TrainingsTypeOK
  <2>5. \A g \in Handler \ {h} : job'[g] = job[g]
    BY <2>1 DEF TrainingsTypeOK
  <2> QED
    BY <2>2, <2>3, <2>4, <2>5 DEF Polls
<1>5. \A g \in Handler : Marking(g)' \subseteq Marking(g) /\ Telling(g)' \subseteq Telling(g)
  BY <1>4 DEF Marking, Telling, Polls
<1>6. /\ shown \union bot.inbox \subseteq Schedule
      /\ \A g \in Handler : job[g].rows \subseteq Schedule /\ job[g].row \subseteq Schedule
  BY JobAt DEF TrainingsTypeOK, RemindersTypeOK
<1> HIDE DEF filled
<1>7. RowsExist'
  BY <1>1, <1>3, <1>4, <1>6 DEF RowsExist
<1>8. MarksAreDue'
  BY <1>1, <1>3, <1>5, <1>6 DEF MarksAreDue, Marking
<1>9. Told' /\ NeverTwice'
  BY <1>1, <1>2, <1>3, <1>5, <1>6 DEF Told, NeverTwice, RowsExist, Telling
<1>10. SlotsAreFree'
  <2>1. \A k \in filled : k.kind = "daily"
    BY DEF filled
  <2>2. \A g \in Handler \ {h} : \A k \in filled :
          (job[g].pc = "fill" /\ k.kind = "daily" /\ k.at \in job[g].slots) => k \in crowded'
    BY <1>3 DEF Crowding, Fills
  <2> QED
    BY <1>1, <1>3, <1>4, <2>1, <2>2 DEF SlotsAreFree, Polls
<1>11. OneRow'
  <2> SUFFICES ASSUME NEW j \in Schedule, NEW k \in Schedule, j.kind = "daily", k.kind = "daily",
                      j \notin crowded', k \notin crowded', j.at = k.at, status'[j] # "absent", status'[k] # "absent"
               PROVE  j = k
    BY DEF OneRow
  <2>1. CASE j.at \notin job[h].slots
    BY <1>1, <1>3, <2>1 DEF OneRow, filled
  <2>2. CASE j.at \in job[h].slots
    <3>1. status[j] = "absent" /\ status[k] = "absent"
      BY <1>3, <2>2 DEF SlotsAreFree
    <3>2. Fresh(j) /\ Fresh(k)
      BY <1>1, <3>1 DEF filled
    <3>3. ~ (j.copy < k.copy) /\ ~ (k.copy < j.copy)
      BY <3>1, <3>2 DEF Fresh
    <3> QED
      <4>1. \A i \in Schedule : i \in [kind : Kind, at : Time, copy : 1 .. Copies] /\ i.copy \in Int
        BY DEF Schedule
      <4>2. j.copy = k.copy
        BY <3>3, <4>1
      <4> QED
        BY <4>1, <4>2
  <2> QED
    BY <2>1, <2>2
<1>12. PlansKnow' /\ OnePlan'
  <2>1. \A k \in Schedule : (k.kind # "daily" /\ Open(k)') => Open(k)
    BY <1>1 DEF filled, Open
  <2> QED
    BY <1>3, <1>4, <2>1, PlansLeftAlone DEF SlotsAreFree, Polls
<1> QED
  BY <1>1, <1>2, <1>7, <1>8, <1>9, <1>10, <1>11, <1>12 DEF ClosedStay, Closed

\* A plan reads all that is open of its kind and day ..
LEMMA PlanKeepsRows ==
  ASSUME TrainingsTypeOK, RemindersInv, NEW h \in Handler, NEW kind \in {"followup", "planned"},
         NEW at \in PlanSlot, Plan(h, kind, at)
  PROVE  RemindersInv' /\ ClosedStay
<1> USE DEF RemindersInv
<1> DEFINE open == {k \in Schedule : Open(k) /\ k.kind = kind /\ Day[k.at] = Day[at]}
<1>1. /\ job'[h].pc = "plan" /\ job'[h].op = kind /\ job'[h].slots = {at}
      /\ job'[h].rows = open /\ job'[h].row = {}
      /\ \A g \in Handler \ {h} : job'[g] = job[g]
  BY DEF Plan, Free, TrainingsTypeOK
<1>2. UNCHANGED reminderVars
  BY DEF Plan
<1>3. \A g \in Handler : Marking(g)' \subseteq Marking(g) /\ Telling(g)' \subseteq Telling(g)
  BY <1>1 DEF Marking, Telling
<1>4. RowsExist'
  BY <1>1, <1>2 DEF RowsExist, Open
<1>5. MarksAreDue' /\ Told' /\ NeverTwice'
  BY <1>2, <1>3 DEF MarksAreDue, Told, NeverTwice
<1>6. SlotsAreFree' /\ OneRow'
  BY <1>1, <1>2 DEF SlotsAreFree, OneRow
<1>7. OnePlan'
  BY <1>2 DEF OnePlan, Open
<1>8. PlansKnow'
  <2>1. \A k \in Schedule : (Open(k) /\ Fills(h, k)') => k \in open
    BY <1>1 DEF Fills
  <2>2. \A g \in Handler \ {h}, k \in Schedule : Fills(g, k)' => Fills(g, k)
    BY <1>1 DEF Fills
  <2>3. \A k \in Schedule : Open(k)' => Open(k)
    BY <1>2 DEF Open
  <2> HIDE DEF open
  <2> QED
    BY <1>1, <1>2, <2>1, <2>2, <2>3 DEF PlansKnow
<1> QED
  BY <1>2, <1>4, <1>5, <1>6, <1>7, <1>8 DEF ClosedStay

\* .. and replaces it; whoever is about to do the same finds one row more.
LEMMA ReplaceKeepsRows ==
  ASSUME TrainingsTypeOK, RemindersInv, NEW h \in Handler, Replace(h)
  PROVE  RemindersInv' /\ ClosedStay
<1> USE DEF RemindersInv
<1>1. PICK k \in Schedule :
        /\ k.kind = job[h].op /\ k.at \in job[h].slots /\ Fresh(k)
        /\ status' = [Written(job[h].rows, "cancelled") EXCEPT ![k] = "pending"]
        /\ crowded' = crowded \union Crowding(h, {k})
  BY DEF Replace
<1>2. \A j \in Schedule : status'[j] = IF j = k THEN "pending" ELSE IF j \in job[h].rows THEN "cancelled" ELSE status[j]
  BY <1>1 DEF Written
<1>3. /\ job[h].pc = "plan" /\ job[h].op # "daily" /\ status[k] = "absent" /\ k.kind # "daily"
      /\ \A j \in job[h].rows : j.kind # "daily" /\ status[j] # "absent"
  BY <1>1 DEF Replace, Fresh, SlotsAreFree, RowsExist
<1>4. snatched' = Taken(job[h].rows) /\ UNCHANGED <<bot, shown, again>>
  BY DEF Replace
<1>5. /\ snatched \subseteq snatched' /\ crowded \subseteq crowded'
      /\ \A g \in Handler : \A j \in job[h].rows : j \in Marking(g) => j \in snatched'
  BY <1>1, <1>4 DEF Taken, Marking
<1>6. /\ job'[h].pc = "free" /\ job'[h].rows = {} /\ job'[h].row = {}
      /\ \A g \in Handler \ {h} : job'[g] = job[g]
  BY DEF Replace, Free, TrainingsTypeOK
<1>7. \A g \in Handler : Marking(g)' \subseteq Marking(g) /\ Telling(g)' \subseteq Telling(g)
  BY <1>6 DEF Marking, Telling
<1>8. /\ shown \union bot.inbox \subseteq Schedule
      /\ \A g \in Handler : job[g].rows \subseteq Schedule /\ job[g].row \subseteq Schedule
  BY JobAt DEF TrainingsTypeOK, RemindersTypeOK
<1>9. RowsExist'
  BY <1>2, <1>4, <1>6, <1>8 DEF RowsExist
<1>10. MarksAreDue'
  BY <1>2, <1>5, <1>7, <1>8 DEF MarksAreDue, Marking
<1>11. Told' /\ NeverTwice'
  BY <1>2, <1>3, <1>4, <1>7, <1>8 DEF Told, NeverTwice, RowsExist, Telling
<1>12. SlotsAreFree' /\ OneRow'
  BY <1>2, <1>3, <1>5, <1>6 DEF SlotsAreFree, OneRow
<1>13. \A j \in Schedule : (Open(j)' /\ j # k) => Open(j) /\ j \notin job[h].rows
  BY <1>2 DEF Open
<1>14. PlansKnow'
  <2>1. \A g \in Handler \ {h} : Fills(g, k) => k \in crowded'
    BY <1>1 DEF Crowding
  <2>2. \A g \in Handler \ {h}, j \in Schedule : Fills(g, j)' => Fills(g, j)
    BY <1>6 DEF Fills
  <2> QED
    BY <1>5, <1>6, <1>13, <2>1, <2>2 DEF PlansKnow
<1>15. OnePlan'
  <2>1. \A j \in Schedule : (j.kind = k.kind /\ Day[j.at] = Day[k.at]) => Fills(h, j)
    BY <1>1, <1>3 DEF Fills
  <2>2. \A j \in Schedule \ (crowded' \union snatched') :
          (j # k /\ Open(j)' /\ j.kind = k.kind) => Day[j.at] # Day[k.at]
    BY <1>3, <1>5, <1>13, <2>1 DEF PlansKnow
  <2> QED
    BY <1>5, <1>13, <2>2 DEF OnePlan
<1> QED
  BY <1>2, <1>3, <1>9, <1>10, <1>11, <1>12, <1>14, <1>15 DEF ClosedStay, Closed

LEMMA SelectKeepsRows ==
  ASSUME TrainingsTypeOK, RemindersInv, NEW h \in Handler, Select(h)
  PROVE  RemindersInv' /\ ClosedStay
<1> USE DEF RemindersInv
<1>1. /\ job'[h].pc = "mark" /\ job'[h].rows = Due(job[h].now) /\ job'[h].row = job[h].row
      /\ \A g \in Handler \ {h} : job'[g] = job[g]
  BY JobAt DEF Select, TrainingsTypeOK, Job
<1>2. \A k \in Due(job[h].now) : k \in Schedule /\ status[k] = "pending"
  BY DEF Due
<1>3. UNCHANGED <<status, bot, shown, again, crowded, snatched>>
  BY DEF Select
<1>4. Telling(h)' = {} /\ Marking(h)' = Due(job[h].now)
  BY <1>1 DEF Telling, Marking
<1>5. \A g \in Handler \ {h} : Telling(g)' = Telling(g) /\ Marking(g)' = Marking(g)
  BY <1>1 DEF Telling, Marking
<1>6. RowsExist'
  BY <1>1, <1>2, <1>3 DEF RowsExist
<1>7. MarksAreDue'
  BY <1>2, <1>3, <1>4, <1>5 DEF MarksAreDue
<1>8. Told' /\ NeverTwice'
  BY <1>2, <1>3, <1>4, <1>5 DEF Told, NeverTwice
<1>9. SlotsAreFree' /\ OneRow'
  BY <1>1, <1>3 DEF SlotsAreFree, OneRow
<1>10. PlansKnow' /\ OnePlan'
  BY <1>1, <1>3, PlansLeftAlone DEF SlotsAreFree, Open
<1> QED
  BY <1>3, <1>6, <1>7, <1>8, <1>9, <1>10 DEF ClosedStay

\* What a poll marks has been marked by no other, unless it is noted as snatched.
LEMMA MarkKeepsRows ==
  ASSUME TrainingsTypeOK, RemindersInv, NEW h \in Handler, Mark(h)
  PROVE  RemindersInv' /\ ClosedStay
<1> USE DEF RemindersInv
<1>1. /\ job[h].pc = "mark" /\ job'[h].pc = "answer"
      /\ job'[h].rows = job[h].rows /\ job'[h].row = job[h].row
      /\ \A g \in Handler \ {h} : job'[g] = job[g]
  BY JobAt DEF Mark, TrainingsTypeOK, Job
<1>2. \A k \in Schedule : status'[k] = IF k \in job[h].rows THEN "sent" ELSE status[k]
  BY DEF Mark, Written
<1>3. /\ UNCHANGED <<bot, shown, again, crowded>> /\ snatched \subseteq snatched'
      /\ \A g \in Handler \ {h} : \A k \in job[h].rows : k \in Marking(g) => k \in snatched'
  BY DEF Mark, Marking
<1>4. /\ shown \union bot.inbox \subseteq Schedule
      /\ \A g \in Handler : job[g].rows \subseteq Schedule /\ job[g].row \subseteq Schedule
  BY JobAt DEF TrainingsTypeOK, RemindersTypeOK
<1>5. Marking(h) = job[h].rows /\ Marking(h)' = {} /\ Telling(h)' = job[h].rows
  BY <1>1 DEF Marking, Telling
<1>6. \A g \in Handler \ {h} : Telling(g)' = Telling(g) /\ Marking(g)' = Marking(g)
  BY <1>1 DEF Telling, Marking
<1>7. \A k \in job[h].rows \ snatched' : status[k] = "pending"
  BY <1>3, <1>5 DEF MarksAreDue
<1>8. RowsExist'
  BY <1>1, <1>2, <1>3, <1>4 DEF RowsExist
<1>9. MarksAreDue'
  <2>1. \A g \in Handler : Marking(g) \subseteq Schedule
    BY <1>4 DEF Marking
  <2> QED
    BY <1>2, <1>3, <1>5, <1>6, <2>1 DEF MarksAreDue
<1>10. Told' /\ NeverTwice'
  BY <1>2, <1>3, <1>4, <1>5, <1>6 DEF Told, NeverTwice, Telling, Marking
<1>11. SlotsAreFree'
  <2>1. \A k \in job[h].rows : status[k] # "absent"
    BY DEF RowsExist
  <2> QED
    BY <1>1, <1>2, <1>3, <2>1 DEF SlotsAreFree
<1>12. OneRow'
  BY <1>2, <1>3 DEF OneRow, RowsExist
<1>13. PlansKnow' /\ OnePlan'
  <2>1. \A k \in Schedule \ snatched' : Open(k)' => Open(k)
    BY <1>2, <1>7 DEF Open
  <2> QED
    BY <1>1, <1>3, <2>1, PlansLeftAlone DEF SlotsAreFree
<1> QED
  BY <1>2, <1>7, <1>8, <1>9, <1>10, <1>11, <1>12, <1>13 DEF ClosedStay, Closed

LEMMA TellKeepsRows ==
  ASSUME TrainingsTypeOK, RemindersInv,
         (\E h \in Handler : Answer(h)) \/ (\E k \in Schedule : Show(k))
  PROVE  RemindersInv' /\ ClosedStay
<1> USE DEF RemindersInv
<1>1. ASSUME NEW h \in Handler, Answer(h) PROVE RemindersInv' /\ ClosedStay
  <2>1. /\ job'[h].pc = "free" /\ job'[h].rows = {} /\ job'[h].row = {} /\ Telling(h) = job[h].rows
        /\ \A g \in Handler \ {h} : job'[g] = job[g]
    BY <1>1 DEF Answer, Free, Telling, TrainingsTypeOK
  <2>2. /\ UNCHANGED <<status, shown, again, crowded, snatched>>
        /\ bot' = bot \/ (bot.on = {h} /\ bot' = [on |-> {}, inbox |-> Telling(h)])
    BY <1>1, <2>1 DEF Answer
  <2>3. Marking(h)' = {} /\ Telling(h)' = {}
    BY <2>1 DEF Marking, Telling
  <2>4. \A g \in Handler \ {h} : Telling(g)' = Telling(g) /\ Marking(g)' = Marking(g)
    BY <2>1 DEF Telling, Marking
  <2>5. RowsExist'
    BY <2>1, <2>2 DEF RowsExist
  <2>6. MarksAreDue'
    BY <2>2, <2>3, <2>4 DEF MarksAreDue
  <2>7. Told' /\ NeverTwice'
    BY <2>2, <2>3, <2>4 DEF Told, NeverTwice
  <2>8. SlotsAreFree' /\ OneRow'
    BY <2>1, <2>2 DEF SlotsAreFree, OneRow
  <2>9. PlansKnow' /\ OnePlan'
    BY <2>1, <2>2, PlansLeftAlone DEF SlotsAreFree, Open
  <2> QED
    BY <2>2, <2>5, <2>6, <2>7, <2>8, <2>9 DEF ClosedStay
<1>2. ASSUME NEW k \in Schedule, Show(k) PROVE RemindersInv' /\ ClosedStay
  <2>1. /\ k \in bot.inbox /\ bot'.inbox = bot.inbox \ {k} /\ bot'.on = bot.on /\ shown' = shown \union {k}
        /\ again' \subseteq again \union {k} /\ (k \notin shown => again' = again)
        /\ UNCHANGED <<status, job, crowded, snatched>>
    BY <1>2 DEF Show, TrainingsTypeOK, RemindersTypeOK
  <2>2. RowsExist' /\ MarksAreDue' /\ SlotsAreFree' /\ OneRow'
    BY <2>1 DEF RowsExist, MarksAreDue, SlotsAreFree, OneRow, Marking
  <2>3. Told' /\ NeverTwice'
    BY <2>1 DEF Told, NeverTwice, Telling
  <2>4. PlansKnow' /\ OnePlan'
    BY <2>1, PlansLeftAlone DEF SlotsAreFree, Open
  <2> QED
    BY <2>1, <2>2, <2>3, <2>4 DEF ClosedStay
<1> QED
  BY <1>1, <1>2

LEMMA RequestsKeepRows ==
  ASSUME TrainingsTypeOK, RemindersInv, NEW h \in Handler, Request(h)
  PROVE  RemindersInv' /\ ClosedStay
<1>1. job[h] \in Job /\ job[h].rows \in SUBSET Schedule /\ job[h].row \in SUBSET Schedule
  BY JobAt
<1>2. \A k \in job[h].rows \union job[h].row : status[k] # "absent"
  BY DEF RemindersInv, RowsExist
<1>3. Free.pc = "free" /\ Free.rows = {} /\ Free.row = {}
  BY DEF Free
<1>4. CASE CompleteDue(h)
  <2>1. \/ job' = [job EXCEPT ![h] = [job[h] EXCEPT !.pc = "look", !.rows = {}]]
        \/ job' = [job EXCEPT ![h] = [job[h] EXCEPT !.pc = "claim", !.rows = {}]]
        \/ job' = [job EXCEPT ![h] = Free]
    BY <1>4 DEF CompleteDue
  <2>2. \A j \in {[job[h] EXCEPT !.pc = "look", !.rows = {}], [job[h] EXCEPT !.pc = "claim", !.rows = {}]} :
          j.pc \notin Polls /\ j.rows = {} /\ j.row = job[h].row
    BY <1>1 DEF Job, Polls
  <2> HIDE DEF Free
  <2>3. \A g \in Handler : \/ job'[g] = job[g]
                           \/ job'[g].pc \notin Polls /\ job'[g].rows \subseteq job[g].rows /\ job'[g].row \subseteq job[g].row
    BY <1>3, <2>1, <2>2 DEF TrainingsTypeOK, Polls
  <2>4. /\ status' = Written(job[h].rows, "completed") /\ snatched' = Taken(job[h].rows)
        /\ UNCHANGED <<bot, shown, again, crowded>>
    BY <1>4 DEF CompleteDue
  <2> QED
    BY <1>1, <1>2, <2>3, <2>4, RowsClosed
<1>5. CASE Started(h)
  <2>1. \A g \in Handler : job'[g] = job[g] \/ job'[g] = Free
    BY <1>5 DEF Started, TrainingsTypeOK
  <2>2. /\ status' = Written(job[h].row, "completed") /\ snatched' = Taken(job[h].row)
        /\ UNCHANGED <<bot, shown, again, crowded>>
    BY <1>5 DEF Started
  <2> QED
    BY <1>1, <1>2, <1>3, <2>1, <2>2, RowsClosed DEF Polls
<1>6. CASE LookActive(h) \/ Cancel(h)
  <2>1. /\ job'[h].pc \notin Polls /\ job'[h].rows = job[h].rows /\ job'[h].row = job[h].row
        /\ \A g \in Handler \ {h} : job'[g] = job[g]
    BY <1>1, <1>6 DEF LookActive, Cancel, TrainingsTypeOK, Job, Polls
  <2>2. UNCHANGED reminderVars
    BY <1>6 DEF LookActive, Cancel
  <2> QED
    BY <1>2, <2>1, <2>2, RowsLeftAlone
<1>7. CASE Create(h)
  <2>1. job' = [job EXCEPT ![h] = CASE job[h].row # {} -> [job[h] EXCEPT !.pc = "started"]
                                    [] job[h].op = "web" -> [job[h] EXCEPT !.pc = "claim"]
                                    [] OTHER -> Free]
    BY <1>7 DEF Create
  <2>2. \A j \in {[job[h] EXCEPT !.pc = "started"], [job[h] EXCEPT !.pc = "claim"]} :
          j.pc \notin Polls /\ j.rows = job[h].rows /\ j.row = job[h].row
    BY <1>1 DEF Job, Polls
  <2> HIDE DEF Free
  <2>3. /\ job'[h] \in {[job[h] EXCEPT !.pc = "started"], [job[h] EXCEPT !.pc = "claim"], Free}
        /\ \A g \in Handler \ {h} : job'[g] = job[g]
    BY <2>1 DEF TrainingsTypeOK
  <2>4. UNCHANGED reminderVars
    BY <1>7 DEF Create
  <2>5. job'[h].pc \notin Polls /\ \A k \in job'[h].rows \union job'[h].row : status[k] # "absent"
    BY <1>2, <1>3, <2>2, <2>3 DEF Polls
  <2> QED
    BY <2>3, <2>4, <2>5, RowsLeftAlone
<1>8. CASE ClaimStarted(h) \/ Finish(h)
  <2>1. UNCHANGED reminderVars
    BY <1>8 DEF ClaimStarted, Finish
  <2>2. \A g \in Handler : job'[g] = job[g] \/ (job'[g].pc \notin Polls /\ job'[g].rows = {} /\ job'[g].row = {})
    BY <1>8 DEF ClaimStarted, Finish, ThenSummary, Free, Polls, TrainingsTypeOK
  <2> QED
    BY <2>1, <2>2, RowsLeftAlone
<1> QED
  BY <1>4, <1>5, <1>6, <1>7, <1>8 DEF Request

LEMMA LearnerKeepsRows ==
  ASSUME TrainingsTypeOK, RemindersInv, Learner
  PROVE  RemindersInv' /\ ClosedStay
<1>1. ASSUME NEW k \in Schedule, NEW new \in {"completed", "skipped"}, status[k] # "absent", Close(k, new)
      PROVE  RemindersInv' /\ ClosedStay
  <2>1. /\ status' = Written({k}, new) /\ snatched' = Taken({k}) /\ {k} \in SUBSET Schedule
        /\ UNCHANGED <<job, bot, shown, again, crowded>>
    BY <1>1 DEF Close
  <2> QED
    BY <1>1, <2>1, RowsClosed
<1>2. ASSUME NEW k \in Schedule, Skip(k) PROVE RemindersInv' /\ ClosedStay
  BY <1>1, <1>2 DEF Skip, RemindersInv, RowsExist
<1>3. ASSUME NEW k \in Schedule, CompleteEarly(k) PROVE RemindersInv' /\ ClosedStay
  BY <1>1, <1>3 DEF CompleteEarly, Upcoming, Open
<1>5. ASSUME NEW h \in Handler, NEW client, NEW row, \A k \in row : status[k] # "absent", Start(h, client, row)
      PROVE  RemindersInv' /\ ClosedStay
  <2> DEFINE due == {k \in Schedule \ row : Open(k) /\ k.at <= clock}
  <2>1. job' = [job EXCEPT ![h] = [Free EXCEPT !.pc = "due", !.op = client, !.now = clock, !.row = row, !.rows = due]]
    BY <1>5 DEF Start
  <2>2. \A k \in due : status[k] # "absent"
    BY DEF Open
  <2> HIDE DEF due
  <2>3. \A g \in Handler : \/ job'[g] = job[g]
                           \/ job'[g].pc \notin Polls /\ job'[g].rows = due /\ job'[g].row = row
    BY <2>1 DEF Free, Polls, TrainingsTypeOK
  <2>4. UNCHANGED reminderVars
    BY <1>5 DEF Start
  <2> QED
    BY <1>5, <2>2, <2>3, <2>4, RowsLeftAlone
<1>6. ASSUME NEW h \in Handler, NEW client \in Client, LastAnswer(h, client) PROVE RemindersInv' /\ ClosedStay
  <2>1. PICK l \in Current : job' = [job EXCEPT ![h] = [Free EXCEPT !.pc = "finish", !.op = client, !.lessons = {l}]]
    BY <1>6 DEF LastAnswer
  <2>2. \A g \in Handler : job'[g] = job[g] \/ (job'[g].pc \notin Polls /\ job'[g].rows = {} /\ job'[g].row = {})
    BY <2>1 DEF Free, Polls, TrainingsTypeOK
  <2> QED
    BY <1>6, <2>2, RowsLeftAlone DEF LastAnswer
<1>4. ASSUME NEW h \in Handler, NEW client \in Client, Resume(h, client) PROVE RemindersInv' /\ ClosedStay
  <2>1. \A g \in Handler : job'[g] = job[g] \/ (job'[g].pc \notin Polls /\ job'[g].rows = {} /\ job'[g].row = {})
    BY <1>4 DEF Resume, ThenSummary, Free, Polls, TrainingsTypeOK
  <2> QED
    BY <1>4, <2>1, RowsLeftAlone DEF Resume
<1>7. CASE (\E times \in SUBSET DailySlot : Settings(times)) \/ CloseSummary
  BY <1>7, RowsLeftAlone DEF Settings, CloseSummary
<1>8. ASSUME NEW h \in Handler, NEW k \in shown, Start(h, "bot", {k}) PROVE RemindersInv' /\ ClosedStay
  <2>1. \A j \in {k} : status[j] # "absent"
    BY DEF RemindersInv, RowsExist
  <2> QED
    BY <1>5, <1>8, <2>1
<1>9. ASSUME NEW h \in Handler, NEW client \in Client, Start(h, client, {}) PROVE RemindersInv' /\ ClosedStay
  BY <1>5, <1>9
<1> QED
  BY <1>2, <1>3, <1>4, <1>6, <1>7, <1>8, <1>9, PlanKeepsRows DEF Learner

LEMMA RemindersNext == TrainingsTypeOK /\ RemindersInv /\ [Next]_vars => RemindersInv' /\ ClosedStay
<1> SUFFICES ASSUME TrainingsTypeOK, RemindersInv, [Next]_vars PROVE RemindersInv' /\ ClosedStay
  OBVIOUS
<1>1. CASE Learner
  BY <1>1, LearnerKeepsRows
<1>2. ASSUME NEW h \in Handler, Goes(h) PROVE RemindersInv' /\ ClosedStay
  BY <1>2, RequestsKeepRows, LookKeepsRows, FillKeepsRows, SelectKeepsRows, MarkKeepsRows, TellKeepsRows,
     ReplaceKeepsRows DEF Goes, Poll
<1>3. CASE Polled
  BY <1>3, LookKeepsRows DEF Polled
<1>4. CASE Reminded
  BY <1>4, TellKeepsRows DEF Reminded
<1>5. CASE Passes
  BY <1>5, RowsLeftAlone DEF Passes, Tick
<1>6. CASE Fails
  <2>1. CASE BotFails
    BY <2>1, RowsLeftAlone DEF BotFails
  <2>2. ASSUME NEW h \in Handler, Dies(h) PROVE RemindersInv' /\ ClosedStay
    <3>1. \A g \in Handler : job'[g] = job[g] \/ (job'[g].pc \notin Polls /\ job'[g].rows = {} /\ job'[g].row = {})
      BY <2>2 DEF Dies, Free, Polls, TrainingsTypeOK
    <3>2. UNCHANGED <<status, shown, again, crowded, snatched>> /\ (bot' = bot \/ bot' = Asleep)
      BY <2>2 DEF Dies
    <3> QED
      BY <3>1, <3>2, RowsLeftAlone
  <2> QED
    BY <1>6, <2>1, <2>2 DEF Fails
<1>7. CASE UNCHANGED vars
  BY <1>7, RowsLeftAlone DEF vars
<1> QED
  BY <1>1, <1>2, <1>3, <1>4, <1>5, <1>6, <1>7 DEF Next

\* A slot has one row and a day one open training of each kind, but where threads
\* inserted or marked across one another, and no reminder is shown twice.
THEOREM RemindedOnceHolds == Spec => []RemindedOnce
<1>1. RemindersInv => RemindedOnce
  BY DEF RemindersInv, OneRow, OnePlan, NeverTwice, RemindedOnce
<1> QED
  BY <1>1, TypeInit, TypeNext, RemindersInitially, RemindersNext, PTL DEF Spec

\* A reminder that was done, skipped or replaced stays so, unless a poll had read
\* it before.
THEOREM ClosedStaysClosed == Spec => ClosedStays
<1>1. TrainingsTypeOK /\ RemindersInv /\ [Next]_vars => [ClosedStay]_vars
  BY RemindersNext
<1>2. ClosedStays <=> [][ClosedStay]_vars
  BY DEF ClosedStays, ClosedStay
<1> QED
  BY <1>1, <1>2, TypeInit, TypeNext, RemindersInitially, RemindersNext, PTL DEF Spec

============================================================================

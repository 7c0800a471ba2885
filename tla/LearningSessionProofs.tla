------------------------ MODULE LearningSessionProofs ------------------------
(* Every step of every handler keeps the rows of a lesson well typed and an   *)
(* active session at a place that exists, for any handlers, words, lessons    *)
(* and bounds: the handlers may read and write in any order.  Of one handler  *)
(* at a time, the second part proves that the lesson implements Lesson and    *)
(* that its reviews tell how the words were answered.                         *)
EXTENDS LearningSession, FiniteSetTheorems, TLAPS

\* The stages of an exercise determine it.
LEMMA ExerciseOfStage ==
  \A e \in Exercise :
    ExerciseOf(Quiz[e]) = e /\ ExerciseOf(Ready[e]) = e /\ AskedAt(Quiz[e]) = e
  BY DEF ExerciseOf, AskedAt, Exercise, Quiz, Ready

LEMMA Stages ==
  /\ QuizStage = {"quiz_en_uk", "quiz_uk_en", "quiz_gap"}
  /\ ReadyStage = {"ready_en_uk", "ready_uk_en", "ready_gap"}
  /\ \A e \in Exercise : Ready[e] \in ReadyStage /\ Quiz[e] \in QuizStage
  BY DEF QuizStage, ReadyStage, Range, Quiz, Ready, Exercise

\* A lesson has words.
LEMMA Sizes == Size \in Nat /\ Size > 0 /\ Slot = 1 .. Size /\ Chosen \in [Slot -> Word]
  BY LearningAssumption DEF LearningAssumption, Size, Slot

LEMMA FreshRowType == \A w \in Word : FreshRow(w) \in WordRow
  BY DEF FreshRow, WordRow

LEMMA PlaceType ==
  ASSUME NEW stage \in Stage, NEW queue \in Seq(Slot), NEW position \in Nat
  PROVE  /\ At(stage, queue, position) \in Place
         /\ At(stage, queue, position).stage = stage
         /\ At(stage, queue, position).queue = queue
         /\ At(stage, queue, position).position = position
  BY DEF At, Place

LEMMA NoQueue ==
  ASSUME NEW stage \in {"card", "summary"} \union ReadyStage, NEW position \in 0 .. Size
  PROVE  At(stage, <<>>, position) \in Place /\ PlaceOK(At(stage, <<>>, position))
  <1>1. stage \in Stage /\ stage \notin QuizStage
    BY Stages DEF Stage
  <1>2. <<>> \in Seq(Slot) /\ position \in Nat /\ position <= Size
    BY Sizes
  <1> DEFINE place == At(stage, <<>>, position)
  <1>3. /\ place \in Place
        /\ place.stage = stage /\ place.queue = <<>> /\ place.position = position
    BY <1>1, <1>2 DEF At, Place
  <1> HIDE DEF place
  <1>4. PlaceOK(place)
    BY <1>1, <1>2, <1>3 DEF PlaceOK
  <1> QED BY <1>3, <1>4 DEF place

LEMMA NoPlaceType == NoPlace \in Place /\ PlaceOK(NoPlace)
  BY Sizes, NoQueue DEF NoPlace

LEMMA NoProgressType == NoProgress \in Progress
  BY DEF NoProgress, Progress, MaxStage

LEMMA NoJobType == NoJob \in Job /\ JobOK(NoJob)
  <1>1. NoJob \in Job
    BY NoPlaceType, NoProgressType, FreshRowType, Sizes
    DEF NoJob, Job, Free, Interface
  <1>2. JobOK(NoJob)
    BY NoPlaceType DEF NoJob, JobOK, Sorting, Answering
  <1> QED BY <1>1, <1>2

-----------------------------------------------------------------------------
(* Reviews keep a level between 0 and MaxStage.                             *)

LEMMA Levels == 0 \in 0 .. MaxStage /\ 2 \in 0 .. MaxStage
  BY DEF MaxStage

LEMMA ProgressWith ==
  ASSUME NEW p \in Progress,
         NEW s \in {"none", "learning", "needs_work", "learned"},
         NEW k \in 0 .. MaxStage, NEW n \in 0 .. MaxStage
  PROVE  /\ [p EXCEPT !.state = s] \in Progress
         /\ [p EXCEPT !.state = s, !.streak = n] \in Progress
         /\ [p EXCEPT !.state = s, !.streak = n, !.stage = k] \in Progress
  BY DEF Progress

LEMMA NextReviewStageType == \A p \in Progress : NextReviewStage(p) \in 0 .. MaxStage
  BY DEF NextReviewStage, Level, Greater, Progress, MaxStage

LEMMA ExistingType ==
  ASSUME NEW p \in Progress
  PROVE  Existing(p) \in Progress
  BY NoProgressType, ProgressWith, Levels DEF Existing, NewProgress

LEMMA MarkedKnownType ==
  ASSUME NEW p \in Progress
  PROVE  MarkedKnown(p) \in Progress
  BY ExistingType, ProgressWith, Levels DEF MarkedKnown

LEMMA ReviewedType ==
  ASSUME NEW p \in Progress, NEW weighed \in Progress, NEW row, NEW n
  PROVE  Reviewed(p, weighed, row, n) \in Progress
  <1>1. Greater(weighed.stage - 1, 0) \in 0 .. MaxStage
    BY DEF Greater, Progress, MaxStage
  <1>2. CASE HadErrors(row, n)
    BY <1>1, <1>2, ExistingType, ProgressWith, Levels DEF Reviewed
  <1>3. CASE ~ HadErrors(row, n)
    BY <1>3, NextReviewStageType DEF Reviewed, Progress
  <1> QED BY <1>2, <1>3

LEMMA AfterWrongType ==
  ASSUME NEW p \in Progress, NEW control, NEW n
  PROVE  AfterWrong(p, control, n) \in Progress
  <1>1. Existing(p).streak \in 0 .. MaxStage
    BY ExistingType DEF Progress
  <1>2. CASE n = 1 /\ ~ control
    BY <1>2 DEF AfterWrong
  <1>3. CASE ~ (n = 1 /\ ~ control)
    BY <1>1, <1>3, ExistingType, ProgressWith, Levels DEF AfterWrong
  <1> QED BY <1>2, <1>3

-----------------------------------------------------------------------------
(* What a handler prepares.                                                 *)

LEMMA SavingKeeps ==
  ASSUME NEW j \in Job, PlaceOK(j.read), NEW place \in Place, PlaceOK(place),
         NEW then \in {"idle", "done", "refresh", "complete"}
  PROVE  Saving(j, place, then) \in Job /\ JobOK(Saving(j, place, then))
  BY DEF Saving, To, Job, JobOK, Sorting, Answering, Free

LEMMA DoneKeeps ==
  ASSUME NEW j
  PROVE  Done(j) \in Job /\ JobOK(Done(j))
  <1> DEFINE shows == [NoJob EXCEPT !.pc = "exercise", !.via = "web"]
  <1>1. shows \in Job
    BY NoJobType DEF Job, Interface
  <1>2. JobOK(shows)
    BY NoJobType DEF Job, JobOK, Sorting, Answering
  <1> QED BY <1>1, <1>2, NoJobType DEF Done

LEMMA RaisesKeeps == Raises \in Job /\ JobOK(Raises)
  BY NoJobType DEF Raises, Job, JobOK, Sorting, Answering, Free

LEMMA ServingKeeps ==
  ASSUME Sound, session.status = "active", NEW h, NEW via \in Interface
  PROVE  /\ Serving(h, via) \in Job /\ JobOK(Serving(h, via))
         /\ Serving(h, via).read = session.place
         /\ Serving(h, via).pc = "render"
  BY NoJobType
  DEF Serving, Sound, Session, Job, JobOK, Sorting, Answering, Free

\* The place after an exercise.
LEMMA LeavesQuizKeeps ==
  ASSUME NEW j \in Job, JobOK(j), QuizIsThrough(j.read),
         NEW then \in {"idle", "done", "refresh", "complete"}
  PROVE  LeavesQuiz(j, then) \in Job /\ JobOK(LeavesQuiz(j, then))
  <1>1. CASE j.read.stage = Quiz["gap"]
    BY <1>1 DEF LeavesQuiz, To, Job, JobOK, Sorting, Answering, Free
  <1>2. CASE j.read.stage # Quiz["gap"]
    <2>1. \E e \in {"en_uk", "uk_en"} : j.read.stage = Quiz[e]
      BY <1>2, Stages DEF QuizIsThrough, Quiz
    <2>2. NextReady[ExerciseOf(j.read.stage)] \in ReadyStage
      BY <2>1, ExerciseOfStage, Stages DEF NextReady, Exercise
    <2> DEFINE place == At(NextReady[ExerciseOf(j.read.stage)], <<>>, 0)
    <2>3. 0 \in 0 .. Size
      BY Sizes
    <2>4. place \in Place /\ PlaceOK(place)
      BY <2>2, <2>3, NoQueue, Zenon
    <2> QED BY <1>2, <2>4, SavingKeeps DEF LeavesQuiz, JobOK
  <1> QED BY <1>1, <1>2

\* A handler that takes a sound step keeps all of them sound.
LEMMA GoesKeeps ==
  ASSUME Sound, NEW h \in Handler, NEW j \in Job, JobOK(j), Goes(h, j)
  PROVE  job' \in [Handler -> Job] /\ \A g \in Handler : JobOK(job[g])'
  <1>1. job' = [job EXCEPT ![h] = j] /\ job \in [Handler -> Job]
        /\ \A g \in Handler : JobOK(job[g])
    BY DEF Goes, Sound
  <1>2. ASSUME NEW g \in Handler
        PROVE  JobOK(job'[g])
    BY <1>1
  <1>3. \A g \in Handler : JobOK(job[g])' <=> JobOK(job'[g])
    BY DEF JobOK, PlaceOK
  <1> QED BY <1>1, <1>2, <1>3

\* A step is sound when the handler and the rows it writes are.
LEMMA StepKeeps ==
  ASSUME Sound, NEW h \in Handler, NEW j \in Job, JobOK(j), Goes(h, j),
         session' \in Session, session'.status = "active" => PlaceOK(session'.place),
         words' \in [Slot -> WordRow], progress' \in [Word -> Progress], crashes' \in Nat
  PROVE  Sound'
  <1>1. job' \in [Handler -> Job] /\ \A g \in Handler : JobOK(job[g])'
    BY GoesKeeps
  <1>2. PlaceOK(session.place)' <=> PlaceOK(session'.place)
    BY DEF PlaceOK
  <1> QED BY <1>1, <1>2 DEF Sound

LEMMA TapKeeps ==
  ASSUME Sound, NEW h \in Handler, NEW j \in Job, JobOK(j), Goes(h, j),
         UNCHANGED <<session, words, progress, crashes>>
  PROVE  Sound'
  BY StepKeeps DEF Sound

LEMMA JobType ==
  ASSUME Sound, NEW h \in Handler
  PROVE  job[h] \in Job /\ JobOK(job[h]) /\ PlaceOK(job[h].read) /\ PlaceOK(job[h].write)
  BY DEF Sound, JobOK

\* A handler may go to another step of those that need nothing of it.
LEMMA ToKeeps ==
  ASSUME NEW j \in Job, JobOK(j),
         NEW pc \in {"refresh", "render", "finalize", "complete"}
  PROVE  To(j, pc) \in Job /\ JobOK(To(j, pc))
  BY DEF To, Job, JobOK, Sorting, Answering, Free

-----------------------------------------------------------------------------
(* The steps of a handler, one lemma for each group.                        *)

LEMMA LoadKeeps ==
  ASSUME Sound, NEW h \in Handler, Load(h)
  PROVE  Sound'
  <1> DEFINE j == job[h]
             k == [To(j, "flush") EXCEPT !.loaded = session.place]
  <1>1. j \in Job /\ JobOK(j) /\ session.place \in Place
    BY JobType DEF Sound, Session
  <1>2. k \in Job /\ JobOK(k)
    BY <1>1 DEF To, Job, JobOK, Sorting, Answering, Free
  <1>3. Goes(h, k) /\ UNCHANGED <<session, words, progress, crashes>>
    BY DEF Load
  <1> HIDE DEF j, k
  <1> QED BY <1>2, <1>3, TapKeeps

\* A save that mixes no columns writes the place that the handler prepared.
LEMMA SaveKeeps ==
  ASSUME Sound, NEW h \in Handler, Save(h), ~ session'.mixed
  PROVE  Sound'
  <1> DEFINE j == job[h]
             next == CASE j.then \in {"refresh", "complete"} -> To(j, j.then)
                       [] j.then = "done" -> Done(j)
                       [] j.then = "idle" -> NoJob
  <1>1. j \in Job /\ JobOK(j)
    BY JobType
  <1>2. next \in Job /\ JobOK(next)
    <2>1. j.then \in {"idle", "done", "refresh", "complete"}
      BY <1>1 DEF Job
    <2> QED BY <1>1, <2>1, ToKeeps, DoneKeeps, NoJobType
  <1>3. session' \in Session /\ PlaceOK(session'.place)
    <2> DEFINE place == Saved(session.place, j.loaded, j.write)
    <2>1. session' = [session EXCEPT !.place = place, !.mixed = @ \/ place # j.write]
      BY DEF Save
    <2>2. session \in Session /\ j.write \in Place /\ PlaceOK(j.write)
      BY <1>1 DEF Sound, Job, JobOK
    <2> HIDE DEF place, j
    <2>3. place = j.write
      BY <2>1, <2>2 DEF Session
    <2> QED BY <2>1, <2>2, <2>3 DEF Session
  <1>4. Goes(h, next) /\ UNCHANGED <<words, progress, crashes>>
    BY DEF Save
  <1> HIDE DEF j, next
  <1> QED BY <1>2, <1>3, <1>4, StepKeeps DEF Sound

LEMMA RefreshKeeps ==
  ASSUME Sound, NEW h \in Handler, Refresh(h)
  PROVE  Sound'
  <1> DEFINE reads == [To(job[h], "render") EXCEPT !.read = session.place]
  <1>1. ASSUME session.status = "active"
        PROVE  reads \in Job /\ JobOK(reads)
    <2> DEFINE j == To(job[h], "render")
    <2>1. j \in Job /\ JobOK(j)
      BY JobType, ToKeeps
    <2>2. j.pc = "render"
      BY JobType DEF To, Job
    <2>3. session.place \in Place /\ PlaceOK(session.place)
      BY <1>1 DEF Sound, Session
    <2> HIDE DEF j
    <2>4. [j EXCEPT !.read = session.place] \in Job
      BY <2>1, <2>3 DEF Job
    <2>5. JobOK([j EXCEPT !.read = session.place])
      BY <2>1, <2>3, <2>2 DEF Job, JobOK, Sorting, Answering
    <2> QED BY <2>4, <2>5 DEF j
  <1>2. \E j \in Job : JobOK(j) /\ Goes(h, j)
    BY <1>1, RaisesKeeps, DoneKeeps DEF Refresh
  <1> QED BY <1>2, TapKeeps DEF Refresh

LEMMA RenderKeeps ==
  ASSUME Sound, NEW h \in Handler, Render(h)
  PROVE  Sound'
  <1> DEFINE j == job[h]
  <1>1. j \in Job /\ JobOK(j) /\ PlaceOK(j.read)
    BY JobType
  <1>2. \E k \in Job : JobOK(k) /\ Goes(h, k)
    <2>1. CASE j.read.stage = "card" /\ j.read.position >= Size
      <3> DEFINE k == Saving(j, At(Ready["en_uk"], <<>>, 0), "done")
      <3>1. Ready["en_uk"] \in ReadyStage /\ 0 \in 0 .. Size
        BY Stages, Sizes DEF Exercise
      <3>2. /\ At(Ready["en_uk"], <<>>, 0) \in Place
            /\ PlaceOK(At(Ready["en_uk"], <<>>, 0))
        BY <3>1, NoQueue, Zenon
      <3>3. k \in Job /\ JobOK(k)
        BY <1>1, <3>2, SavingKeeps
      <3>4. Goes(h, k)
        BY <2>1, Stages DEF Render, QuizIsThrough
      <3> QED BY <3>3, <3>4
    <2>2. CASE j.read.stage # "card" \/ ~ j.read.position >= Size
      <3>1. CASE j.read.stage \in QuizStage /\ ~ j.user
        BY <2>2, <3>1, RaisesKeeps, Stages DEF Render
      <3>2. CASE QuizIsThrough(j.read) /\ j.user
        BY <1>1, <2>2, <3>2, LeavesQuizKeeps, Stages DEF Render, QuizIsThrough
      <3>3. CASE ~ (j.read.stage \in QuizStage /\ ~ j.user)
                 /\ ~ (QuizIsThrough(j.read) /\ j.user)
        BY <2>2, <3>3, DoneKeeps DEF Render
      <3> QED BY <3>1, <3>2, <3>3
    <2> QED BY <2>1, <2>2
  <1> QED BY <1>2, TapKeeps DEF Render

LEMMA ShowExerciseKeeps ==
  ASSUME Sound, NEW h \in Handler, ShowExercise(h)
  PROVE  Sound'
  <1> DEFINE reads == [job[h] EXCEPT !.read = session.place]
  <1>1. CASE session.status = "active" /\ QuizIsThrough(session.place)
    <2>1. reads \in Job /\ JobOK(reads) /\ reads.read = session.place
      <3>1. /\ job[h] \in Job /\ JobOK(job[h]) /\ job[h].pc = "exercise"
            /\ session.place \in Place /\ PlaceOK(session.place)
        BY <1>1, JobType DEF ShowExercise, Sound, Session
      <3> HIDE DEF reads
      <3>2. reads = [job[h] EXCEPT !.read = session.place]
        BY DEF reads
      <3> QED BY <3>1, <3>2 DEF Job, JobOK, Sorting, Answering
    <2>2. LeavesQuiz(reads, "idle") \in Job /\ JobOK(LeavesQuiz(reads, "idle"))
      BY <1>1, <2>1, LeavesQuizKeeps
    <2>3. Goes(h, LeavesQuiz(reads, "idle")) /\ UNCHANGED <<session, words, progress, crashes>>
      BY <1>1 DEF ShowExercise
    <2> HIDE DEF reads
    <2> QED BY <2>2, <2>3, TapKeeps
  <1>2. CASE ~ (session.status = "active" /\ QuizIsThrough(session.place))
    BY <1>2, NoJobType, TapKeeps DEF ShowExercise
  <1> QED BY <1>1, <1>2

-----------------------------------------------------------------------------
(* Cards.                                                                   *)

\* What a tap on a card may save.
LEMMA CardSavingKeeps ==
  ASSUME NEW j \in Job, PlaceOK(j.read), NEW position \in 0 .. Size,
         NEW stage \in {"card"} \union ReadyStage, NEW then \in {"done", "refresh"}
  PROVE  /\ Saving(j, At(stage, <<>>, position), then) \in Job
         /\ JobOK(Saving(j, At(stage, <<>>, position), then))
  <1> DEFINE place == At(stage, <<>>, position)
  <1>1. place \in Place /\ PlaceOK(place)
    BY NoQueue, Zenon
  <1> HIDE DEF place
  <1>2. Saving(j, place, then) \in Job /\ JobOK(Saving(j, place, then))
    BY <1>1, SavingKeeps
  <1> QED BY <1>2 DEF place

LEMMA GoesOnKeeps ==
  ASSUME NEW j \in Job, JobOK(j), j.read.position < Size
  PROVE  GoesOn(j) \in Job /\ JobOK(GoesOn(j))
  <1>1. j.read.position + 1 \in 0 .. Size /\ PlaceOK(j.read)
    BY Sizes DEF Job, Place, JobOK
  <1> QED BY <1>1, CardSavingKeeps DEF GoesOn

LEMMA CardBackKeeps ==
  ASSUME Sound, NEW h \in Handler, NEW via \in Interface, NEW i \in Slot,
         CardBack(h, via, i)
  PROVE  Sound'
  <1> DEFINE j == Serving(h, via)
             k == [j EXCEPT !.user = FALSE]
             position == Greater(session.place.position - 1, 0)
  <1>1. j \in Job /\ JobOK(j)
    BY ServingKeeps DEF CardBack, TapsCard, IsServed
  <1>2. k \in Job /\ PlaceOK(k.read)
    BY <1>1 DEF Job, JobOK
  <1>3. position \in 0 .. Size
    BY Sizes DEF CardBack, IsCurrentCard, Greater, Sound, Session, Place
  <1>4. /\ Goes(h, Saving(k, At("card", <<>>, position), "refresh"))
        /\ UNCHANGED <<session, words, progress, crashes>>
    BY DEF CardBack
  <1> HIDE DEF j, k, position
  <1> QED BY <1>2, <1>3, <1>4, CardSavingKeeps, TapKeeps

LEMMA CardQuizKeeps ==
  ASSUME Sound, NEW h \in Handler, NEW via \in Interface, NEW i \in Slot,
         CardQuiz(h, via, i)
  PROVE  Sound'
  <1> DEFINE j == Serving(h, via)
             stage == Ready["en_uk"]
  <1>1. j \in Job /\ PlaceOK(j.read)
    BY ServingKeeps DEF CardQuiz, TapsCard, IsServed, JobOK
  <1>2. stage \in ReadyStage /\ Size \in 0 .. Size
    BY Stages, Sizes DEF Exercise
  <1>3. /\ Goes(h, Saving(j, At(stage, <<>>, Size), "done"))
        /\ UNCHANGED <<session, words, progress, crashes>>
    BY DEF CardQuiz
  <1> HIDE DEF j, stage
  <1> QED BY <1>1, <1>2, <1>3, CardSavingKeeps, TapKeeps

LEMMA CardSortedKeeps ==
  ASSUME Sound, NEW h \in Handler, NEW via \in Interface, NEW i \in Slot,
         NEW status \in {"next", "known"}, CardSorted(h, via, i, status)
  PROVE  Sound'
  <1> DEFINE j == Serving(h, via)
             k == [To(j, "mark") EXCEPT !.user = FALSE, !.slot = i,
                     !.card = status, !.word = words[i],
                     !.seen = {words[n].word : n \in Slot}]
  <1>1. j \in Job /\ JobOK(j) /\ j.read = session.place
    BY ServingKeeps DEF CardSorted, TapsCard, IsServed
  <1>2. session.place.position < Size
    BY DEF CardSorted, IsCurrentCard
  <1>3. words[i] \in WordRow /\ {words[n].word : n \in Slot} \in SUBSET Word
    BY DEF Sound, WordRow
  <1>4. i \in Nat
    BY Sizes
  <1>5. Goes(h, k) /\ UNCHANGED <<session, words, progress, crashes>>
    BY DEF CardSorted
  <1> HIDE DEF j
  <1>6. k \in Job
    BY <1>1, <1>3, <1>4 DEF To, Job
  <1>7. JobOK(k)
    BY <1>1, <1>2 DEF To, Job, JobOK, Sorting, Answering
  <1> HIDE DEF k
  <1> QED BY <1>5, <1>6, <1>7, TapKeeps

LEMMA IgnoredCardKeeps ==
  ASSUME Sound, NEW h \in Handler, NEW via \in Interface, NEW i \in Slot,
         IgnoredCard(h, via, i)
  PROVE  Sound'
  BY ServingKeeps, TapKeeps DEF IgnoredCard, TapsCard, IsServed

LEMMA SortedRowType ==
  ASSUME NEW row \in WordRow, NEW status \in {"pending", "next", "known"}
  PROVE  [row EXCEPT !.card = status] \in WordRow
  BY DEF WordRow

LEMMA MarkKeeps ==
  ASSUME Sound, NEW h \in Handler, Mark(h)
  PROVE  Sound'
  <1> DEFINE j == job[h]
  <1>1. j \in Job /\ JobOK(j) /\ j.slot \in Slot /\ j.read.position < Size
    BY JobType DEF Mark, JobOK, Sorting
  <1>2. words' \in [Slot -> WordRow]
    <2> DEFINE row == [words[j.slot] EXCEPT !.card = j.card]
    <2>1. row \in WordRow
      <3>1. words[j.slot] \in WordRow /\ j.card \in {"pending", "next", "known"}
        BY <1>1 DEF Sound, Job
      <3> HIDE DEF j
      <3> QED BY <3>1, SortedRowType
    <2>2. words' = [words EXCEPT ![j.slot] = row]
      BY DEF Mark
    <2> QED BY <2>1, <2>2 DEF Sound
  <1>3. To(j, "know") \in Job /\ JobOK(To(j, "know"))
    BY <1>1 DEF To, Job, JobOK, Sorting, Answering
  <1>4. \E k \in Job : JobOK(k) /\ Goes(h, k)
    BY <1>1, <1>3, GoesOnKeeps DEF Mark
  <1> QED BY <1>2, <1>4, StepKeeps DEF Mark, Sound

LEMMA KnowKeeps ==
  ASSUME Sound, NEW h \in Handler, Know(h)
  PROVE  Sound'
  <1> DEFINE j == job[h]
  <1>1. j \in Job /\ JobOK(j) /\ j.slot \in Slot /\ j.read.position < Size
    BY JobType DEF Know, JobOK, Sorting
  <1>2. progress' \in [Word -> Progress]
    BY <1>1, MarkedKnownType DEF Know, Sound
  <1>3. To(j, "choose") \in Job /\ JobOK(To(j, "choose"))
    BY <1>1 DEF To, Job, JobOK, Sorting, Answering
  <1>4. \E k \in Job : JobOK(k) /\ Goes(h, k)
    BY <1>1, <1>3, GoesOnKeeps DEF Know
  <1> QED BY <1>2, <1>4, StepKeeps DEF Know, Sound

LEMMA ChooseKeeps ==
  ASSUME Sound, NEW h \in Handler, Choose(h)
  PROVE  Sound'
  <1> DEFINE j == job[h]
  <1>1. /\ j \in Job /\ JobOK(j) /\ j.pc = "choose"
        /\ UNCHANGED <<session, words, crashes>>
    BY JobType DEF Choose
  <1>2. ASSUME NEW w \in Word, progress' = [progress EXCEPT ![w] = Existing(@)],
               Goes(h, [To(j, "replace") EXCEPT !.word = FreshRow(w)])
        PROVE  Sound'
    <2> DEFINE k == [To(j, "replace") EXCEPT !.word = FreshRow(w)]
    <2>1. progress' \in [Word -> Progress]
      BY <1>2, ExistingType DEF Sound
    <2>2. k \in Job /\ JobOK(k)
      <3>1. FreshRow(w) \in WordRow
        BY FreshRowType
      <3> HIDE DEF j
      <3> QED BY <1>1, <3>1 DEF To, Job, JobOK, Sorting, Answering
    <2>3. Goes(h, k)
      BY <1>2
    <2> HIDE DEF k, j
    <2> QED BY <1>1, <2>1, <2>2, <2>3, StepKeeps DEF Sound
  <1>3. CASE UNCHANGED progress /\ Goes(h, GoesOn(j))
    <2>1. j.read.position < Size
      BY <1>1 DEF JobOK, Sorting
    <2> QED BY <1>1, <1>3, <2>1, GoesOnKeeps, TapKeeps
  <1> QED BY <1>2, <1>3 DEF Choose

LEMMA ReplaceKeeps ==
  ASSUME Sound, NEW h \in Handler, Replace(h)
  PROVE  Sound'
  <1> DEFINE j == job[h]
             position == j.read.position
  <1>1. j \in Job /\ JobOK(j) /\ PlaceOK(j.read) /\ position < Size
    BY JobType DEF Replace, JobOK, Sorting
  <1>2. position \in 0 .. Size /\ j.word \in WordRow
    BY <1>1, Sizes DEF Job, Place
  <1>3. words' \in [Slot -> WordRow]
    BY <1>2 DEF Replace, Sound
  <1>4. \E k \in Job : JobOK(k) /\ Goes(h, k)
    BY <1>1, <1>2, CardSavingKeeps DEF Replace
  <1> QED BY <1>3, <1>4, StepKeeps DEF Replace, Sound

-----------------------------------------------------------------------------
(* Ready, and answers.                                                      *)

LEMMA ShowKeeps ==
  ASSUME Sound, NEW h \in Handler, NEW via \in Interface, Show(h, via)
  PROVE  Sound'
  BY ServingKeeps, DoneKeeps, TapKeeps DEF Show, IsServed

LEMMA ReadyYesKeeps ==
  ASSUME Sound, NEW h \in Handler, NEW via \in Interface, NEW e \in Exercise,
         ReadyYes(h, via, e)
  PROVE  Sound'
  <1> DEFINE j == Serving(h, via)
  <1>1. j \in Job /\ JobOK(j) /\ j.read = session.place
    BY ServingKeeps DEF ReadyYes, IsServed
  <1>2. CASE session.place.stage = Ready[e]
    <2>1. j.read.stage \in ReadyStage
      BY <1>1, <1>2, Stages
    <2>2. Goes(h, To(j, "start")) /\ UNCHANGED <<session, words, progress, crashes>>
      BY <1>2 DEF ReadyYes
    <2> HIDE DEF j
    <2>3. To(j, "start") \in Job /\ JobOK(To(j, "start"))
      BY <1>1, <2>1 DEF To, Job, JobOK, Sorting, Answering
    <2> QED BY <2>2, <2>3, TapKeeps
  <1>3. CASE session.place.stage # Ready[e]
    BY <1>1, <1>3, TapKeeps DEF ReadyYes
  <1> QED BY <1>2, <1>3

\* A shuffled set is a sequence of its elements.
LEMMA ShuffledType ==
  ASSUME NEW S \in SUBSET Slot, NEW queue \in Shuffled(S)
  PROVE  queue \in Seq(Slot)
  <1>1. IsFiniteSet(Slot)
    BY Sizes, FS_Interval
  <1>2. Cardinality(S) \in Nat
    BY <1>1, FS_Subset, FS_CardinalityType
  <1>3. queue \in [1 .. Cardinality(S) -> S]
    BY DEF Shuffled, Bijection, Injection, Surjection, IsInjective
  <1> QED BY <1>2, <1>3

LEMMA StartQuizKeeps ==
  ASSUME Sound, NEW h \in Handler, StartQuiz(h)
  PROVE  Sound'
  <1> DEFINE j == job[h]
             k == [j EXCEPT !.user = TRUE]
             e == ExerciseOf(j.read.stage)
  <1>1. j \in Job /\ JobOK(j) /\ j.read.stage \in ReadyStage
    BY JobType DEF StartQuiz, JobOK
  <1>2. k \in Job /\ PlaceOK(k.read)
    BY <1>1 DEF Job, JobOK
  <1>3. Quiz[e] \in QuizStage /\ Quiz[e] \in Stage
    <2>1. \E x \in Exercise : j.read.stage = Ready[x]
      BY <1>1, Stages DEF Ready, Exercise
    <2>2. e \in Exercise
      BY <2>1, ExerciseOfStage
    <2> QED BY <2>2, Stages DEF Stage
  <1>4. PICK queue \in Shuffled(AskedWords) :
          Goes(h, Saving(k, At(Quiz[e], queue, 0), "refresh"))
    BY DEF StartQuiz
  <1>5. queue \in Seq(Slot)
    BY ShuffledType DEF AskedWords
  <1> DEFINE place == At(Quiz[e], queue, 0)
  <1>6. place \in Place /\ PlaceOK(place)
    <2>1. place \in Place /\ place.stage = Quiz[e] /\ place.queue = queue
          /\ place.position = 0
      BY <1>3, <1>5 DEF At, Place
    <2> HIDE DEF place
    <2> QED BY <1>3, <1>5, <2>1 DEF PlaceOK
  <1>7. UNCHANGED <<session, words, progress, crashes>>
    BY DEF StartQuiz
  <1> HIDE DEF place, k
  <1>8. Saving(k, place, "refresh") \in Job /\ JobOK(Saving(k, place, "refresh"))
    BY <1>2, <1>6, SavingKeeps
  <1>9. Goes(h, Saving(k, place, "refresh"))
    BY <1>4 DEF place
  <1> QED BY <1>7, <1>8, <1>9, TapKeeps

LEMMA AnswerTapKeeps ==
  ASSUME Sound, NEW h \in Handler, NEW via \in Interface, NEW i \in Slot,
         NEW right \in BOOLEAN, AnswerTap(h, via, i, right)
  PROVE  Sound'
  <1> DEFINE j == Serving(h, via)
             asked == [To(j, "answer") EXCEPT !.slot = i, !.right = right]
             stale == [To(j, "refresh") EXCEPT !.user = FALSE]
  <1>1. j \in Job /\ JobOK(j) /\ j.read = session.place
    BY ServingKeeps DEF AnswerTap, IsServed
  <1>2. session.place \in Place /\ PlaceOK(session.place)
    BY DEF AnswerTap, IsServed, Sound, Session
  <1>3. Goes(h, IF IsAsked(session.place, i) THEN asked ELSE stale)
        /\ UNCHANGED <<session, words, progress, crashes>>
    BY DEF AnswerTap
  <1> HIDE DEF j
  <1>4. ASSUME IsAsked(session.place, i)
        PROVE  asked \in Job /\ JobOK(asked)
    <2>1. session.place.position < Len(session.place.queue)
      BY <1>4 DEF IsAsked
    <2>2. session.place.stage \in QuizStage
      <3>1. session.place.queue # <<>>
        BY <1>2, <2>1 DEF Place
      <3> QED BY <1>2, <3>1 DEF PlaceOK
    <2>3. i \in Nat
      BY Sizes
    <2>4. asked \in Job
      BY <1>1, <2>3 DEF To, Job
    <2>5. JobOK(asked)
      BY <1>1, <2>1, <2>2 DEF To, Job, JobOK, Sorting, Answering
    <2> QED BY <2>4, <2>5
  <1>5. stale \in Job /\ JobOK(stale)
    BY <1>1 DEF To, Job, JobOK, Sorting, Answering, Free
  <1> HIDE DEF asked, stale
  <1> QED BY <1>3, <1>4, <1>5, TapKeeps

LEMMA ReadWordKeeps ==
  ASSUME Sound, NEW h \in Handler, ReadWord(h)
  PROVE  Sound'
  <1> DEFINE j == job[h]
             row == words[j.slot]
             k == [To(j, "record") EXCEPT !.word = row]
  <1>1. /\ j \in Job /\ JobOK(j) /\ j.slot \in Slot
        /\ j.read.stage \in QuizStage /\ j.read.position < Len(j.read.queue)
    BY JobType DEF ReadWord, JobOK, Answering
  <1>2. row \in WordRow
    BY <1>1 DEF Sound
  <1>3. Goes(h, k) /\ UNCHANGED <<session, words, progress, crashes>>
    BY DEF ReadWord
  <1> HIDE DEF j, row
  <1>4. k \in Job
    BY <1>1, <1>2 DEF To, Job
  <1>5. JobOK(k)
    BY <1>1, <1>2 DEF To, Job, JobOK, Sorting, Answering
  <1> HIDE DEF k
  <1> QED BY <1>3, <1>4, <1>5, TapKeeps

\* The queue grows by a wrong answer, and the position stays within it.
LEMMA AnsweredKeeps ==
  ASSUME NEW j \in Job, JobOK(j), j.slot \in Slot,
         j.read.stage \in QuizStage, j.read.position < Len(j.read.queue)
  PROVE  Answered(j) \in Job /\ JobOK(Answered(j))
  <1> DEFINE queue == IF j.right THEN j.read.queue ELSE Append(j.read.queue, j.slot)
             place == At(j.read.stage, queue, j.read.position + 1)
  <1>1. j.read \in Place /\ PlaceOK(j.read)
    BY DEF Job, JobOK
  <1>2. queue \in Seq(Slot) /\ Len(queue) >= Len(j.read.queue)
    BY <1>1 DEF Place
  <1>3. Len(j.read.queue) \in Nat /\ j.read.position \in Nat /\ j.read.stage \in Stage
    BY <1>1 DEF Place
  <1> HIDE DEF queue
  <1>4. /\ place \in Place
        /\ place.stage = j.read.stage /\ place.queue = queue
        /\ place.position = j.read.position + 1
    BY <1>2, <1>3 DEF At, Place
  <1> HIDE DEF place
  <1>5. PlaceOK(place)
    BY <1>2, <1>3, <1>4 DEF PlaceOK
  <1>6. Saving(j, place, "done") \in Job /\ JobOK(Saving(j, place, "done"))
    BY <1>1, <1>4, <1>5, SavingKeeps
  <1> QED BY <1>6 DEF Answered, place, queue

LEMMA RecordKeeps ==
  ASSUME Sound, NEW h \in Handler, Record(h)
  PROVE  Sound'
  <1> DEFINE j == job[h]
             e == AskedAt(j.read.stage)
             row == words[j.slot]
             new == [row EXCEPT !.attempts[e] = Attempt(j), !.correct[e] = j.right]
  <1>1. /\ j \in Job /\ JobOK(j) /\ j.slot \in Slot
        /\ j.read.stage \in QuizStage /\ j.read.position < Len(j.read.queue)
    BY JobType DEF Record, JobOK, Answering
  <1>2. e \in Exercise
    <2>1. \E x \in Exercise : j.read.stage = Quiz[x]
      BY <1>1, Stages DEF Quiz, Exercise
    <2> QED BY <2>1, ExerciseOfStage
  <1>3. row \in WordRow /\ j.word \in WordRow /\ j.right \in BOOLEAN
    BY <1>1 DEF Sound, Job
  <1>4. Attempt(j) \in Nat
    BY <1>2, <1>3 DEF Attempt, WordRow
  <1>5. words' \in [Slot -> WordRow]
    <2>1. words' = [words EXCEPT ![j.slot].attempts[e] = Attempt(j),
                                 ![j.slot].correct[e] = j.right]
      BY DEF Record
    <2>2. words' = [words EXCEPT ![j.slot] = new]
      BY <1>1, <2>1 DEF Sound
    <2> HIDE DEF j, e, row
    <2>3. new \in WordRow
      BY <1>2, <1>3, <1>4 DEF WordRow
    <2> HIDE DEF new
    <2> QED BY <2>2, <2>3 DEF Sound
  <1>6. To(j, "weigh") \in Job /\ JobOK(To(j, "weigh"))
    BY <1>1 DEF To, Job, JobOK, Sorting, Answering
  <1>7. \E k \in Job : JobOK(k) /\ Goes(h, k)
    BY <1>1, <1>6, AnsweredKeeps DEF Record
  <1> QED BY <1>5, <1>7, StepKeeps DEF Record, Sound

LEMMA WeighKeeps ==
  ASSUME Sound, NEW h \in Handler, Weigh(h)
  PROVE  Sound'
  <1> DEFINE j == job[h]
             weighed == progress[j.word.word]
             k(control) == [To(j, "review") EXCEPT !.weighed = weighed, !.control = control]
  <1>1. /\ j \in Job /\ JobOK(j) /\ j.slot \in Slot
        /\ j.read.stage \in QuizStage /\ j.read.position < Len(j.read.queue)
    BY JobType DEF Weigh, JobOK, Answering
  <1>2. weighed \in Progress
    BY <1>1 DEF Sound, Job, WordRow
  <1>3. PICK control \in BOOLEAN : Goes(h, k(control))
    BY DEF Weigh
  <1>4. UNCHANGED <<session, words, progress, crashes>>
    BY DEF Weigh
  <1> HIDE DEF j, weighed
  <1>5. k(control) \in Job
    BY <1>1, <1>2 DEF To, Job
  <1>6. JobOK(k(control))
    BY <1>1, <1>2 DEF To, Job, JobOK, Sorting, Answering
  <1> HIDE DEF k
  <1> QED BY <1>3, <1>4, <1>5, <1>6, TapKeeps

LEMMA ReviewKeeps ==
  ASSUME Sound, NEW h \in Handler, Review(h)
  PROVE  Sound'
  <1> DEFINE j == job[h]
             w == j.word.word
             new == IF j.right THEN Reviewed(progress[w], j.weighed, j.word, Attempt(j))
                    ELSE AfterWrong(progress[w], j.control, Attempt(j))
  <1>1. /\ j \in Job /\ JobOK(j) /\ j.slot \in Slot
        /\ j.read.stage \in QuizStage /\ j.read.position < Len(j.read.queue)
    BY JobType DEF Review, JobOK, Answering
  <1>2. w \in Word /\ j.weighed \in Progress
    BY <1>1 DEF Job, WordRow
  <1>3. progress[w] \in Progress
    BY <1>2 DEF Sound
  <1>4. new \in Progress
    BY <1>2, <1>3, ReviewedType, AfterWrongType
  <1>5. progress' = [progress EXCEPT ![w] = new]
    BY DEF Review
  <1>6. progress' \in [Word -> Progress]
    BY <1>4, <1>5 DEF Sound
  <1>7. Answered(j) \in Job /\ JobOK(Answered(j)) /\ Goes(h, Answered(j))
    BY <1>1, AnsweredKeeps DEF Review
  <1> QED BY <1>6, <1>7, StepKeeps DEF Review, Sound

-----------------------------------------------------------------------------
(* Completion, and what befalls a lesson.                                   *)

LEMMA FinalizeKeeps ==
  ASSUME Sound, NEW h \in Handler, Finalize(h)
  PROVE  Sound'
  <1> DEFINE lost == {i \in Slot : words[i].correct["gap"]
                                   /\ progress[words[i].word].state = "none"}
             row(w) == words[CHOOSE i \in lost : words[i].word = w]
             new(w) == IF session.kind = "regular" /\ w \in {words[i].word : i \in lost}
                       THEN Reviewed(progress[w], progress[w], row(w),
                                     Greater(row(w).attempts["gap"], 1))
                       ELSE progress[w]
  <1>1. progress' = [w \in Word |-> new(w)]
    BY DEF Finalize
  <1>2. ASSUME NEW w \in Word
        PROVE  new(w) \in Progress
    <2>1. progress[w] \in Progress
      BY DEF Sound
    <2>2. Reviewed(progress[w], progress[w], row(w), Greater(row(w).attempts["gap"], 1))
            \in Progress
      <3> HIDE DEF row
      <3> QED BY <2>1, ReviewedType
    <2> QED BY <2>1, <2>2
  <1>3. progress' \in [Word -> Progress]
    <2> HIDE DEF new
    <2> QED BY <1>1, <1>2
  <1>4. LET k == Saving(job[h], At("summary", <<>>, 0), "complete")
        IN k \in Job /\ JobOK(k) /\ Goes(h, k)
    <2>1. 0 \in 0 .. Size
      BY Sizes
    <2>2. At("summary", <<>>, 0) \in Place /\ PlaceOK(At("summary", <<>>, 0))
      BY <2>1, NoQueue, Zenon
    <2> QED BY <2>2, JobType, SavingKeeps DEF Finalize
  <1> QED BY <1>3, <1>4, StepKeeps DEF Finalize, Sound

LEMMA CompleteKeeps ==
  ASSUME Sound, NEW h \in Handler, Complete(h)
  PROVE  Sound'
  <1>1. session' \in Session /\ session'.status = "completed"
    BY DEF Complete, Sound, Session, Place, Stage
  <1> QED BY <1>1, NoJobType, StepKeeps DEF Complete, Sound

LEMMA CrashKeeps ==
  ASSUME Sound, NEW h \in Handler, Crash(h)
  PROVE  Sound'
  BY NoJobType, StepKeeps DEF Crash, Sound

\* The session moves, and no handler.
LEMMA SessionKeeps ==
  ASSUME Sound, session' \in Session, session'.status # "active",
         UNCHANGED <<words, progress, job, crashes>>
  PROVE  Sound'
  <1>1. \A g \in Handler : JobOK(job[g])' <=> JobOK(job[g])
    BY DEF JobOK, PlaceOK
  <1> QED BY <1>1 DEF Sound

LEMMA FinishSummaryKeeps ==
  ASSUME Sound, NEW h \in Handler, FinishSummary(h)
  PROVE  Sound'
  <1>1. session' \in Session /\ session'.status # "active"
    BY DEF FinishSummary, Sound, Session, Place, Stage
  <1> QED BY <1>1, SessionKeeps DEF FinishSummary

LEMMA RestartKeeps ==
  ASSUME Sound, NEW h \in Handler, Restart(h)
  PROVE  Sound'
  <1>1. session' \in Session /\ session'.status # "active"
    BY DEF Restart, Sound, Session
  <1> QED BY <1>1, SessionKeeps DEF Restart

-----------------------------------------------------------------------------
LEMMA TypeInit == Init => Sound
  <1> SUFFICES ASSUME Init PROVE Sound
    OBVIOUS
  <1>1. session \in Session /\ PlaceOK(session.place)
    BY NoPlaceType DEF Init, Session
  <1>2. words \in [Slot -> WordRow]
    BY Sizes, FreshRowType DEF Init
  <1>3. progress \in [Word -> Progress]
    BY LearningAssumption DEF Init, LearningAssumption
  <1>4. job \in [Handler -> Job] /\ \A h \in Handler : JobOK(job[h])
    BY NoJobType DEF Init
  <1> QED BY <1>1, <1>2, <1>3, <1>4 DEF Init, Sound

LEMMA TypeNext ==
  ASSUME Sound, [Next]_vars, ~ session'.mixed
  PROVE  Sound'
  <1>1. CASE Next
    <2> PICK h \in Handler : \/ Step(h)
                             \/ \E via \in Interface : Tap(h, via)
                             \/ FinishSummary(h) \/ Restart(h) \/ Crash(h)
      BY <1>1 DEF Next
    <2>1. CASE Step(h)
      BY <2>1, LoadKeeps, SaveKeeps, RefreshKeeps, RenderKeeps, ShowExerciseKeeps, MarkKeeps,
         KnowKeeps, ChooseKeeps, ReplaceKeeps, StartQuizKeeps, ReadWordKeeps, RecordKeeps,
         WeighKeeps, ReviewKeeps, FinalizeKeeps, CompleteKeeps
      DEF Step
    <2>2. ASSUME NEW via \in Interface, Tap(h, via)
          PROVE  Sound'
      <3>1. CASE Show(h, via)
        BY <3>1, ShowKeeps
      <3>2. ASSUME NEW i \in Slot, TapOnCard(h, via, i)
            PROVE  Sound'
        BY <3>2, IgnoredCardKeeps, CardBackKeeps, CardQuizKeeps, CardSortedKeeps
        DEF TapOnCard
      <3>3. ASSUME NEW e \in Exercise, ReadyYes(h, via, e)
            PROVE  Sound'
        BY <3>3, ReadyYesKeeps
      <3>4. ASSUME NEW i \in Slot, NEW right \in BOOLEAN, AnswerTap(h, via, i, right)
            PROVE  Sound'
        BY <3>4, AnswerTapKeeps
      <3> QED BY <2>2, <3>1, <3>2, <3>3, <3>4 DEF Tap
    <2>3. CASE FinishSummary(h) \/ Restart(h) \/ Crash(h)
      BY <2>3, FinishSummaryKeeps, RestartKeeps, CrashKeeps
    <2> QED BY <2>1, <2>2, <2>3
  <1>2. CASE UNCHANGED vars
    BY <1>2 DEF vars, Sound, JobOK, PlaceOK
  <1> QED BY <1>1, <1>2

\* Only a save mixes columns, and what is mixed stays so.
LEMMA OnlySaveMixes ==
  ASSUME "mixed" \in DOMAIN session, [Next]_vars
  PROVE  \/ "mixed" \in DOMAIN session' /\ session'.mixed = session.mixed
         \/ \E h \in Handler : Save(h)
  <1>1. ASSUME NEW h \in Handler, Step(h)
        PROVE  UNCHANGED session \/ Save(h) \/ Complete(h)
    BY <1>1 DEF Step, Load, Refresh, Render, ShowExercise, Mark, Know, Choose, Replace, StartQuiz,
                ReadWord, Record, Weigh, Review, Finalize
  <1>2. ASSUME NEW h \in Handler, NEW via \in Interface, Tap(h, via)
        PROVE  UNCHANGED session
    BY <1>2 DEF Tap, TapOnCard, Show, IgnoredCard, CardBack, CardQuiz, CardSorted, ReadyYes, AnswerTap
  <1>3. ASSUME NEW h \in Handler, FinishSummary(h) \/ Restart(h) \/ Crash(h) \/ Complete(h)
        PROVE  "mixed" \in DOMAIN session' /\ session'.mixed = session.mixed
    BY <1>3 DEF FinishSummary, Restart, Crash, Complete
  <1> QED BY <1>1, <1>2, <1>3 DEF Next, vars

LEMMA MixedStays ==
  ASSUME "mixed" \in DOMAIN session, session.mixed \in BOOLEAN, [Next]_vars
  PROVE  /\ "mixed" \in DOMAIN session' /\ session'.mixed \in BOOLEAN
         /\ session.mixed => session'.mixed
  <1>1. ASSUME NEW h \in Handler, Save(h)
        PROVE  "mixed" \in DOMAIN session' /\ session'.mixed \in BOOLEAN /\ (session.mixed => session'.mixed)
    <2> DEFINE place == Saved(session.place, job[h].loaded, job[h].write)
    <2>1. session' = [session EXCEPT !.place = place, !.mixed = @ \/ place # job[h].write]
      BY <1>1 DEF Save
    <2> HIDE DEF place
    <2> QED BY <2>1
  <1> QED BY <1>1, OnlySaveMixes

\* Whatever the handlers interleave and wherever requests die, the rows of the
\* lesson are well typed and an active session is at a card or a question that
\* exists, as long as no save has kept a column of another's.
THEOREM LearningTypeCorrect == Spec => []LearningTypeOK
  <1> DEFINE Typed == /\ "mixed" \in DOMAIN session /\ session.mixed \in BOOLEAN
                      /\ LearningTypeOK
  <1>1. Init => Typed
    BY TypeInit DEF LearningTypeOK, Init
  <1>2. Typed /\ [Next]_vars => Typed'
    BY TypeNext, MixedStays DEF LearningTypeOK
  <1>3. Typed => LearningTypeOK
    OBVIOUS
  <1> QED BY <1>1, <1>2, <1>3, PTL DEF Spec

-----------------------------------------------------------------------------
(* One handler, whose cards are served at the card stage only.  What it has   *)
(* read is still there when it writes, so that each save takes the lesson on  *)
(* as Lesson does, and each word is answered and reviewed as the rows tell.   *)

Alone == (\A g, h \in Handler : g = h) /\ LateCards = FALSE

LeftAt(place) ==
  CASE place.stage \in ReadyStage -> AskedWords
    [] place.stage \in QuizStage  -> LeftInQueue(place)
    [] OTHER                      -> {}

\* What the level of a word may be before the lesson raises it.
Base(w) == Greater(Level(Before[w]), 2)

\* The review of the word in slot i tells how it was answered.
Tells(i) ==
  progress[words[i].word].state \in
    IF \E e \in Exercise : words[i].attempts[e] > 1 THEN {"needs_work"}
    ELSE {"learning", "learned"}

Holding == Sorting \union Answering
             \union {"start", "save", "flush", "render", "finalize"}

\* What is about to be saved follows from what was read.
PlacesNext(j) ==
  \/ j.read.stage = "card" /\ j.write.stage \in {"card", Ready["en_uk"]}
  \/ \E e \in Exercise : /\ j.read.stage = Ready[e] /\ j.write.stage = Quiz[e]
                         /\ LeftInQueue(j.write) = AskedWords
  \/ \E e \in {"en_uk", "uk_en"} :
       /\ j.read.stage = Quiz[e] /\ QuizIsThrough(j.read)
       /\ j.write.stage = NextReady[e]
  \/ j.read.stage = Quiz["gap"] /\ QuizIsThrough(j.read) /\ j.write.stage = "summary"
  \/ \E e \in Exercise :
       /\ j.read.stage = Quiz[e] /\ j.write.stage = Quiz[e]
       /\ j.slot \in LeftInQueue(j.read)
       /\ \/ LeftInQueue(j.write) = LeftInQueue(j.read)
          \/ /\ LeftInQueue(j.write) = LeftInQueue(j.read) \ {j.slot}
             /\ words[j.slot].correct[e]
             /\ session.kind = "regular" /\ e = "gap" => Tells(j.slot)

SavesNext(j) == PlacesNext(j) /\ (j.then = "complete" => j.write.stage = "summary")

\* The answer is in the row; of a wrong one, or of the last exercise, the review
\* is under way.
Recorded(j) ==
  LET e == AskedAt(j.read.stage)
  IN /\ words[j.slot] = [j.word EXCEPT !.attempts[e] = Attempt(j), !.correct[e] = j.right]
     /\ session.kind = "regular" /\ (j.right => e = "gap")
     /\ e = "gap" /\ Attempt(j) = 1 => Level(progress[j.word.word]) <= Base(j.word.word)

Follows(j) ==
  /\ j.pc \notin Free => session.status = "active"
  /\ j.pc \in Holding => j.read = session.place
  /\ j.pc \in Sorting => session.place.stage = "card" /\ j.seen = {words[i].word : i \in Slot}
  /\ j.pc \in Answering => IsAsked(j.read, j.slot)
  /\ j.pc = "record" => j.word = words[j.slot]
  /\ j.pc \in {"weigh", "review"} => Recorded(j)
  /\ j.pc = "review" => j.weighed = progress[j.word.word]
  /\ j.pc = "replace" => \E w \in Word \ j.seen :
                           j.word = FreshRow(w) /\ progress[w].state # "none"
  /\ j.pc \in {"save", "flush"} => SavesNext(j)
  /\ j.pc = "flush" => j.loaded = session.place
  /\ j.pc = "finalize" => j.read.stage = Quiz["gap"] /\ QuizIsThrough(j.read)
  /\ j.pc = "complete" => session.place.stage = "summary"

\* Words differ, are assigned, and rise with the answer that is their first.
WordsSound ==
  /\ \A i, k \in Slot : words[i].word = words[k].word => i = k
  /\ \A i \in Slot : progress[words[i].word].state # "none"
  /\ \A i \in Slot : words[i].attempts["gap"] = 0 =>
       Level(progress[words[i].word]) <= Base(words[i].word)
  /\ RisesOnce

CardsFirst ==
  session.place.stage = "card" =>
    /\ \A i \in Slot, e \in Exercise : words[i].attempts[e] = 0 /\ ~ words[i].correct[e]
    /\ \A w \in Word : Level(progress[w]) <= Base(w)

AnsweredTell ==
  /\ session.kind = "regular" /\ session.place.stage = Quiz["gap"] =>
       \A i \in AskedWords \ LeftInQueue(session.place) : Tells(i)
  /\ ReviewMatchesAnswers

LessonInv ==
  /\ WordsSound /\ CardsFirst /\ AnsweredTell
  /\ \A h \in Handler : Follows(job[h])

\* Of the words left in a queue, the one answered right is done with, unless it
\* comes again; one answered wrong is asked again at the end.
LEMMA LeftAnswered ==
  ASSUME NEW place \in Place, NEW i \in Slot, IsAsked(place, i)
  PROVE  /\ i \in LeftInQueue(place)
         /\ LeftInQueue(At(place.stage, place.queue, place.position + 1))
              \in {LeftInQueue(place), LeftInQueue(place) \ {i}}
         /\ LeftInQueue(At(place.stage, Append(place.queue, i), place.position + 1)) = LeftInQueue(place)
  <1> DEFINE q == place.queue
             n == Len(q)
             p == place.position
             rest == {q[k] : k \in p + 2 .. n}
  <1>1. /\ q \in Seq(Slot) /\ n \in Nat /\ p \in Nat /\ p < n /\ q[p + 1] = i /\ place.stage \in Stage
    BY DEF Place, IsAsked
  <1>2. LeftInQueue(place) = rest \union {i}
    <2>1. p + 1 .. n = (p + 2 .. n) \union {p + 1}
      BY <1>1
    <2> QED BY <1>1, <2>1 DEF LeftInQueue
  <1>3. LeftInQueue(At(place.stage, q, p + 1)) = rest
    <2>1. p + 1 + 1 = p + 2
      BY <1>1
    <2> QED BY <2>1 DEF LeftInQueue, At
  <1>4. LeftInQueue(At(place.stage, Append(q, i), p + 1)) = rest \union {i}
    <2> DEFINE longer == Append(q, i)
    <2>1. /\ Len(longer) = n + 1 /\ longer[n + 1] = i
          /\ \A k \in p + 2 .. n : longer[k] = q[k]
      BY <1>1
    <2>2. p + 2 .. n + 1 = (p + 2 .. n) \union {n + 1} /\ p + 1 + 1 = p + 2
      BY <1>1
    <2> HIDE DEF longer, q, p, n
    <2>3. LeftInQueue(At(place.stage, longer, p + 1)) = {longer[k] : k \in p + 2 .. n + 1}
      BY <2>1, <2>2 DEF LeftInQueue, At
    <2>4. {longer[k] : k \in p + 2 .. n + 1} = {q[k] : k \in p + 2 .. n} \union {i}
      BY <2>1, <2>2
    <2> QED BY <2>3, <2>4 DEF longer
  <1> QED BY <1>2, <1>3, <1>4

LEMMA LeftThrough ==
  ASSUME NEW place \in Place, QuizIsThrough(place)
  PROVE  LeftInQueue(place) = {}
  <1>1. place.position \in Nat /\ Len(place.queue) \in Nat /\ place.position >= Len(place.queue)
    BY DEF Place, QuizIsThrough
  <1>2. place.position + 1 .. Len(place.queue) = {}
    BY <1>1
  <1> QED BY <1>2 DEF LeftInQueue

LEMMA LeftShuffled ==
  ASSUME NEW S \in SUBSET Slot, NEW queue \in Shuffled(S), NEW stage
  PROVE  LeftInQueue(At(stage, queue, 0)) = S
  <1>0. IsFiniteSet(Slot)
    BY Sizes, FS_Interval
  <1>1. Cardinality(S) \in Nat
    BY <1>0, FS_Subset, FS_CardinalityType
  <1>2. /\ queue \in [1 .. Cardinality(S) -> S]
        /\ \A i \in S : \E k \in 1 .. Cardinality(S) : queue[k] = i
    BY DEF Shuffled, Bijection, Injection, Surjection
  <1>3. Len(queue) = Cardinality(S)
    BY <1>1, <1>2
  <1>4. LeftInQueue(At(stage, queue, 0)) = {queue[k] : k \in 1 .. Cardinality(S)}
    BY <1>3 DEF LeftInQueue, At
  <1> QED BY <1>2, <1>4

\* Where a handler is after a step, field by field.
LEMMA GoesTo ==
  ASSUME Sound, NEW h \in Handler, NEW j, Goes(h, j)
  PROVE  job'[h] = j
  BY DEF Sound, Goes

LEMMA ToFields ==
  ASSUME NEW j \in Job, NEW pc
  PROVE  LET k == To(j, pc)
         IN k.pc = pc /\ k.read = j.read /\ k.slot = j.slot /\ k.right = j.right /\ k.word = j.word
            /\ k.seen = j.seen /\ k.weighed = j.weighed /\ k.write = j.write /\ k.then = j.then
  BY DEF To, Job

LEMMA SavingFields ==
  ASSUME NEW j \in Job, NEW place, NEW then
  PROVE  LET k == Saving(j, place, then)
         IN k.pc = "save" /\ k.read = j.read /\ k.slot = j.slot /\ k.right = j.right
            /\ k.write = place /\ k.then = then
  BY DEF Saving, To, Job

LEMMA DoneFields ==
  ASSUME NEW j
  PROVE  Done(j).pc \in {"idle", "exercise"} /\ NoJob.pc = "idle" /\ Raises.pc = "failed"
  BY DEF Done, Raises, NoJob

LEMMA ServingFields ==
  ASSUME NEW h, NEW via
  PROVE  Serving(h, via).pc = "render" /\ Serving(h, via).read = session.place
  BY DEF Serving, NoJob

LEMMA PlaceFields ==
  ASSUME NEW stage, NEW queue, NEW position
  PROVE  LET place == At(stage, queue, position)
         IN place.stage = stage /\ place.queue = queue /\ place.position = position
  BY DEF At

-----------------------------------------------------------------------------
(* Steps that change a handler only.                                        *)

\* The lesson as the others see it.
Rest == WordsSound /\ CardsFirst /\ AnsweredTell

LEMMA RestFrame ==
  ASSUME Rest, UNCHANGED <<session, words, progress>>
  PROVE  Rest'
  BY DEF Rest, WordsSound, CardsFirst, AnsweredTell, RisesOnce, ReviewMatchesAnswers, AskedWords, Tells, Base,
         LeftInQueue

LEMMA OneFollows ==
  ASSUME Alone, Rest', NEW h \in Handler, Follows(job[h])'
  PROVE  LessonInv'
  <1>1. \A g \in Handler : Follows(job[g])'
    BY DEF Alone
  <1> QED BY <1>1 DEF LessonInv, Rest

\* A handler that rests, shows, or has just read the session.
LEMMA LightStep ==
  ASSUME Alone, LessonInv, NEW h \in Handler, UNCHANGED <<session, words, progress>>,
         \/ job'[h].pc \in Free
         \/ /\ session.status = "active"
            /\ \/ job'[h].pc \in {"exercise", "refresh"}
               \/ job'[h].pc \in {"render", "start"} /\ job'[h].read = session.place
  PROVE  LessonInv'
  <1>1. Follows(job[h])'
    BY DEF Follows, Free, Holding, Sorting, Answering
  <1> QED BY <1>1, RestFrame, OneFollows DEF LessonInv, Rest

\* A handler that is about to save.
LEMMA SaveBegins ==
  ASSUME Alone, LessonInv, NEW h \in Handler, UNCHANGED <<session, words, progress>>,
         session.status = "active", job'[h].pc = "save", job'[h].read = session.place, SavesNext(job[h])'
  PROVE  LessonInv'
  <1>1. Follows(job[h])'
    BY DEF Follows, Free, Holding, Sorting, Answering
  <1> QED BY <1>1, RestFrame, OneFollows DEF LessonInv, Rest

LEMMA Present ==
  ASSUME Sound, LessonInv, NEW h \in Handler
  PROVE  /\ job[h] \in Job /\ Follows(job[h])
         /\ session.place \in Place /\ session \in Session
         /\ job[h].pc \notin Free => session.status = "active"
         /\ job[h].pc \in Holding => job[h].read = session.place
  BY DEF Sound, LessonInv, Follows, Session

LEMMA TapsOnly ==
  ASSUME Alone, Sound, LessonInv, NEW h \in Handler, NEW via \in Interface,
         \/ Show(h, via)
         \/ \E i \in Slot : IgnoredCard(h, via, i)
         \/ \E e \in Exercise : ReadyYes(h, via, e)
  PROVE  LessonInv'
  <1> DEFINE j == Serving(h, via)
  <1>1. j \in Job /\ j.pc = "render" /\ j.read = session.place /\ session.status = "active"
    BY ServingKeeps DEF Show, IgnoredCard, ReadyYes, TapsCard, IsServed
  <1>2. To(j, "start").pc = "start" /\ To(j, "start").read = session.place
    BY <1>1, ToFields
  <1>3. Goes(h, j) \/ Goes(h, Done(j)) \/ Goes(h, To(j, "start"))
    BY DEF Show, IgnoredCard, ReadyYes
  <1>4. UNCHANGED <<session, words, progress>>
    BY DEF Show, IgnoredCard, ReadyYes
  <1> HIDE DEF j
  <1>5. Done(j).pc \in {"idle", "exercise"}
    BY DoneFields
  <1>6. job'[h] \in {j, Done(j), To(j, "start")}
    BY <1>3, GoesTo
  <1> QED BY <1>1, <1>2, <1>4, <1>5, <1>6, LightStep DEF Free

LEMMA LeavesQuizStep ==
  ASSUME Alone, Sound, LessonInv, NEW h \in Handler, UNCHANGED <<session, words, progress>>,
         session.status = "active", NEW j \in Job, j.read = session.place, QuizIsThrough(j.read),
         NEW then, then # "complete",
         Goes(h, LeavesQuiz(j, then))
  PROVE  LessonInv'
  <1>1. job'[h] = LeavesQuiz(j, then)
    BY GoesTo
  <1>2. CASE j.read.stage = Quiz["gap"]
    <2>1. job'[h].pc = "finalize" /\ job'[h].read = session.place
      BY <1>1, <1>2, ToFields DEF LeavesQuiz
    <2>2. Follows(job[h])'
      BY <1>2, <2>1 DEF Follows, QuizIsThrough, Free, Holding, Sorting, Answering
    <2> QED BY <2>2, RestFrame, OneFollows DEF LessonInv, Rest
  <1>3. CASE j.read.stage # Quiz["gap"]
    <2>1. PICK e \in {"en_uk", "uk_en"} : j.read.stage = Quiz[e]
      BY <1>3, Stages DEF QuizIsThrough, Quiz
    <2>2. ExerciseOf(j.read.stage) = e
      BY <2>1, ExerciseOfStage DEF Exercise
    <2> DEFINE place == At(NextReady[e], <<>>, 0)
    <2>3. job'[h] = Saving(j, place, then) /\ place.stage = NextReady[e]
      BY <1>1, <1>3, <2>2, PlaceFields DEF LeavesQuiz
    <2> HIDE DEF place
    <2>4. /\ job'[h].pc = "save" /\ job'[h].read = session.place /\ job'[h].then # "complete"
          /\ job'[h].write.stage = NextReady[e]
      BY <2>3, SavingFields
    <2>5. SavesNext(job[h])'
      BY <2>1, <2>4 DEF SavesNext, PlacesNext, QuizIsThrough
    <2> QED BY <2>4, <2>5, SaveBegins
  <1> QED BY <1>2, <1>3

LEMMA RenderLesson ==
  ASSUME Alone, Sound, LessonInv, NEW h \in Handler, Render(h)
  PROVE  LessonInv'
  <1> DEFINE j == job[h]
  <1>1. /\ j \in Job /\ session.status = "active" /\ j.read = session.place
        /\ UNCHANGED <<session, words, progress>>
    BY Present DEF Render, Holding, Free
  <1>2. CASE j.read.stage = "card" /\ j.read.position >= Size
    <2>1. Goes(h, Saving(j, At(Ready["en_uk"], <<>>, 0), "done"))
      BY <1>2, Stages DEF Render, QuizIsThrough
    <2>2. /\ job'[h].pc = "save" /\ job'[h].read = j.read /\ job'[h].then = "done"
          /\ job'[h].write.stage = Ready["en_uk"]
      BY <1>1, <2>1, GoesTo, SavingFields, PlaceFields
    <2>3. SavesNext(job[h])'
      BY <1>2, <2>2 DEF SavesNext, PlacesNext
    <2> QED BY <1>1, <2>2, <2>3, SaveBegins
  <1>3. CASE ~ (j.read.stage = "card" /\ j.read.position >= Size)
    <2>1. CASE j.read.stage \in QuizStage /\ ~ j.user
      <3>1. Goes(h, Raises)
        BY <1>3, <2>1, Stages DEF Render
      <3>2. job'[h].pc \in Free
        BY <3>1, GoesTo, DoneFields DEF Free
      <3> QED BY <1>1, <3>2, LightStep
    <2>2. CASE QuizIsThrough(j.read) /\ j.user
      <3>1. Goes(h, LeavesQuiz(j, "done"))
        BY <1>3, <2>2, Stages DEF Render, QuizIsThrough
      <3> QED BY <1>1, <2>2, <3>1, LeavesQuizStep
    <2>3. CASE ~ (j.read.stage \in QuizStage /\ ~ j.user) /\ ~ (QuizIsThrough(j.read) /\ j.user)
      <3>1. Goes(h, Done(j))
        BY <1>3, <2>3 DEF Render
      <3>2. job'[h].pc \in {"idle", "exercise"}
        BY <3>1, GoesTo, DoneFields
      <3> QED BY <1>1, <3>2, LightStep DEF Free
    <2> QED BY <2>1, <2>2, <2>3
  <1> QED BY <1>2, <1>3

LEMMA RefreshLesson ==
  ASSUME Alone, Sound, LessonInv, NEW h \in Handler, Refresh(h)
  PROVE  LessonInv'
  <1>1. job[h] \in Job /\ session.status = "active" /\ UNCHANGED <<session, words, progress>>
    BY Present DEF Refresh, Free
  <1>2. job'[h] = [To(job[h], "render") EXCEPT !.read = session.place]
    BY <1>1, GoesTo DEF Refresh
  <1>3. job'[h].pc = "render" /\ job'[h].read = session.place
    BY <1>1, <1>2 DEF To, Job
  <1> QED BY <1>1, <1>3, LightStep

LEMMA ShowExerciseLesson ==
  ASSUME Alone, Sound, LessonInv, NEW h \in Handler, ShowExercise(h)
  PROVE  LessonInv'
  <1> DEFINE j == [job[h] EXCEPT !.read = session.place]
  <1>1. /\ j \in Job /\ j.read = session.place /\ session.status = "active"
        /\ UNCHANGED <<session, words, progress>>
    BY Present DEF ShowExercise, Free, Job
  <1>2. CASE QuizIsThrough(session.place)
    <2>1. Goes(h, LeavesQuiz(j, "idle"))
      BY <1>1, <1>2 DEF ShowExercise
    <2> HIDE DEF j
    <2> QED BY <1>1, <1>2, <2>1, LeavesQuizStep
  <1>3. CASE ~ QuizIsThrough(session.place)
    <2>1. job'[h].pc \in Free
      BY <1>3, GoesTo, DoneFields DEF ShowExercise, Free
    <2> QED BY <1>1, <2>1, LightStep
  <1> QED BY <1>2, <1>3

LEMMA CardsLesson ==
  ASSUME Alone, Sound, LessonInv, NEW h \in Handler, NEW via \in Interface, NEW i \in Slot,
         CardBack(h, via, i) \/ CardQuiz(h, via, i)
  PROVE  LessonInv'
  <1>1. /\ session.status = "active" /\ session.place.stage = "card" /\ UNCHANGED <<session, words, progress>>
    BY DEF Alone, CardBack, CardQuiz, TapsCard, IsServed
  <1> DEFINE j == Serving(h, via)
             k == [j EXCEPT !.user = FALSE]
  <1>2. j \in Job /\ j.read = session.place
    BY <1>1, ServingKeeps
  <1>3. k \in Job /\ k.read = session.place
    BY <1>2 DEF Job
  <1>4. PICK n, stage, position, then :
          /\ n \in {j, k} /\ stage \in {"card", Ready["en_uk"]}
          /\ then # "complete" /\ Goes(h, Saving(n, At(stage, <<>>, position), then))
    BY DEF CardBack, CardQuiz
  <1> HIDE DEF j, k
  <1>5. /\ job'[h].pc = "save" /\ job'[h].read = session.place /\ job'[h].then # "complete"
        /\ job'[h].write.stage = stage
    BY <1>2, <1>3, <1>4, GoesTo, SavingFields, PlaceFields
  <1>6. SavesNext(job[h])'
    BY <1>1, <1>4, <1>5 DEF SavesNext, PlacesNext
  <1> QED BY <1>1, <1>5, <1>6, SaveBegins

LEMMA CardSortedLesson ==
  ASSUME Alone, Sound, LessonInv, NEW h \in Handler, NEW via \in Interface, NEW i \in Slot,
         NEW status \in {"next", "known"}, CardSorted(h, via, i, status)
  PROVE  LessonInv'
  <1>1. /\ session.status = "active" /\ session.place.stage = "card" /\ UNCHANGED <<session, words, progress>>
    BY DEF Alone, CardSorted, TapsCard, IsServed
  <1> DEFINE j == Serving(h, via)
             k == [To(j, "mark") EXCEPT !.user = FALSE, !.slot = i, !.card = status, !.word = words[i],
                                        !.seen = {words[n].word : n \in Slot}]
  <1>2. j \in Job /\ j.read = session.place
    BY <1>1, ServingKeeps
  <1>3. job'[h] = k
    BY GoesTo DEF CardSorted
  <1> HIDE DEF j
  <1>4. k.pc = "mark" /\ k.read = session.place /\ k.seen = {words[n].word : n \in Slot}
    BY <1>2 DEF To, Job
  <1> HIDE DEF k
  <1>5. Follows(job[h])'
    BY <1>1, <1>3, <1>4 DEF Follows, Free, Holding, Sorting, Answering
  <1> QED BY <1>1, <1>5, RestFrame, OneFollows DEF LessonInv, Rest

LEMMA StartQuizLesson ==
  ASSUME Alone, Sound, LessonInv, NEW h \in Handler, StartQuiz(h)
  PROVE  LessonInv'
  <1> DEFINE j == [job[h] EXCEPT !.user = TRUE]
  <1>1. /\ job[h] \in Job /\ JobOK(job[h]) /\ session.status = "active"
        /\ job[h].read = session.place /\ UNCHANGED <<session, words, progress>>
    BY Present, JobType DEF StartQuiz, Holding, Free
  <1>2. j \in Job /\ j.read = session.place
    BY <1>1 DEF Job
  <1>3. PICK e \in Exercise : session.place.stage = Ready[e]
    BY <1>1, Stages DEF StartQuiz, JobOK, Ready, Exercise
  <1>4. ExerciseOf(job[h].read.stage) = e
    BY <1>1, <1>3, ExerciseOfStage
  <1>5. PICK queue \in Shuffled(AskedWords) : Goes(h, Saving(j, At(Quiz[e], queue, 0), "refresh"))
    BY <1>4 DEF StartQuiz
  <1> HIDE DEF j
  <1> DEFINE place == At(Quiz[e], queue, 0)
  <1>6. AskedWords \in SUBSET Slot
    BY DEF AskedWords
  <1>7. place.stage = Quiz[e] /\ LeftInQueue(place) = AskedWords
    BY <1>6, LeftShuffled, PlaceFields
  <1> HIDE DEF place
  <1>8. /\ job'[h].pc = "save" /\ job'[h].read = session.place /\ job'[h].write = place
        /\ job'[h].then = "refresh"
    BY <1>2, <1>5, GoesTo, SavingFields DEF place
  <1>9. AskedWords' = AskedWords
    BY <1>1 DEF AskedWords
  <1>10. LeftInQueue(job[h].write)' = LeftInQueue(place)
    BY <1>8 DEF LeftInQueue
  <1>11. SavesNext(job[h])'
    BY <1>3, <1>7, <1>8, <1>9, <1>10 DEF SavesNext, PlacesNext
  <1> QED BY <1>1, <1>8, <1>11, SaveBegins

LEMMA CrashLesson ==
  ASSUME Alone, Sound, LessonInv, NEW h \in Handler, Crash(h)
  PROVE  LessonInv'
  <1>1. job'[h].pc \in Free /\ UNCHANGED <<session, words, progress>>
    BY GoesTo, DoneFields DEF Crash, Free
  <1> QED BY <1>1, LightStep

LEMMA AnswerTapLesson ==
  ASSUME Alone, Sound, LessonInv, NEW h \in Handler, NEW via \in Interface, NEW i \in Slot,
         NEW right \in BOOLEAN, AnswerTap(h, via, i, right)
  PROVE  LessonInv'
  <1> DEFINE j == Serving(h, via)
             asked == [To(j, "answer") EXCEPT !.slot = i, !.right = right]
             stale == [To(j, "refresh") EXCEPT !.user = FALSE]
  <1>1. session.status = "active" /\ UNCHANGED <<session, words, progress>>
    BY DEF AnswerTap, IsServed
  <1>2. j \in Job /\ j.read = session.place
    BY <1>1, ServingKeeps
  <1>3. job'[h] = IF IsAsked(session.place, i) THEN asked ELSE stale
    BY GoesTo DEF AnswerTap
  <1> HIDE DEF j
  <1>4. /\ asked.pc = "answer" /\ asked.read = session.place /\ asked.slot = i
        /\ stale.pc = "refresh"
    BY <1>2 DEF To, Job
  <1> HIDE DEF asked, stale
  <1>5. CASE ~ IsAsked(session.place, i)
    BY <1>1, <1>3, <1>4, <1>5, LightStep
  <1>6. CASE IsAsked(session.place, i)
    <2>1. Follows(job[h])'
      BY <1>1, <1>3, <1>4, <1>6 DEF Follows, IsAsked, Free, Holding, Sorting, Answering
    <2> QED BY <1>1, <2>1, RestFrame, OneFollows DEF LessonInv, Rest
  <1> QED BY <1>5, <1>6

-----------------------------------------------------------------------------
(* What reviews do to a state and a level.                                  *)

LEMMA LevelType ==
  ASSUME NEW p \in Progress
  PROVE  Level(p) \in Nat /\ p.stage \in Nat /\ p.stage <= Level(p)
  BY DEF Level, Greater, Progress, MaxStage

LEMMA BaseType == \A w \in Word : Base(w) \in Nat /\ 2 <= Base(w)
  BY LearningAssumption, LevelType DEF LearningAssumption, Base, Greater

LEMMA ExistingLevel ==
  ASSUME NEW p \in Progress
  PROVE  Existing(p).state # "none" /\ Level(Existing(p)) <= Level(p)
  <1>1. CASE p.state = "none"
    <2>1. Existing(p) = NewProgress /\ NewProgress.state = "learning"
      BY <1>1 DEF Existing, NewProgress, NoProgress
    <2>2. Level(NewProgress) = 0
      BY DEF NewProgress, NoProgress, Level, Greater
    <2> QED BY <2>1, <2>2, LevelType
  <1>2. CASE p.state # "none"
    BY <1>2, LevelType DEF Existing
  <1> QED BY <1>1, <1>2

LEMMA MarkedKnownLevel ==
  ASSUME NEW p \in Progress
  PROVE  /\ MarkedKnown(p).state # "none"
         /\ Level(MarkedKnown(p)) <= Greater(Level(p), 2)
  <1> DEFINE q == Existing(p)
  <1>1. q \in Progress /\ Level(q) <= Level(p) /\ q.stage <= Level(q)
    BY ExistingType, ExistingLevel, LevelType
  <1>2. MarkedKnown(p) = [q EXCEPT !.state = "learned", !.streak = 2]
    BY DEF MarkedKnown
  <1> HIDE DEF q
  <1>3. MarkedKnown(p).state = "learned" /\ MarkedKnown(p).stage = q.stage /\ MarkedKnown(p).streak = 2
    BY <1>1, <1>2 DEF Progress
  <1>4. Level(MarkedKnown(p)) = Greater(q.stage, 2)
    BY <1>3 DEF Level
  <1>5. q.stage \in Nat /\ Level(q) \in Nat /\ Level(p) \in Nat
    BY <1>1, LevelType
  <1> QED BY <1>1, <1>3, <1>4, <1>5 DEF Greater

LEMMA AfterWrongLevel ==
  ASSUME NEW p \in Progress, p.state # "none", NEW control, NEW n
  PROVE  AfterWrong(p, control, n).state # "none" /\ Level(AfterWrong(p, control, n)) <= Level(p)
  <1>1. CASE n = 1 /\ ~ control
    BY <1>1, LevelType DEF AfterWrong
  <1>2. CASE ~ (n = 1 /\ ~ control)
    <2>1. AfterWrong(p, control, n) = [p EXCEPT !.state = "needs_work", !.streak = IF control THEN 0 ELSE @]
      BY <1>2 DEF AfterWrong, Existing
    <2>2. LET q == AfterWrong(p, control, n)
          IN q.state = "needs_work" /\ q.stage = p.stage /\ q.streak \in {0, p.streak}
      BY <2>1 DEF Progress
    <2> QED BY <2>2, LevelType DEF Level, Greater, Progress, MaxStage
  <1> QED BY <1>1, <1>2

LEMMA ReviewedLevel ==
  ASSUME NEW p \in Progress, p.state # "none", NEW row, NEW n
  PROVE  LET q == Reviewed(p, p, row, n)
         IN /\ q.state \in IF HadErrors(row, n) THEN {"needs_work"} ELSE {"learning", "learned"}
            /\ HadErrors(row, n) => Level(q) <= Level(p)
            /\ Level(q) <= Level(p) + 1
  <1> DEFINE q == Reviewed(p, p, row, n)
  <1>1. CASE HadErrors(row, n)
    <2>1. q = [p EXCEPT !.state = "needs_work", !.streak = 0, !.stage = Greater(p.stage - 1, 0)]
      BY <1>1 DEF Reviewed, Existing
    <2>2. q.state = "needs_work" /\ q.streak = 0 /\ q.stage = Greater(p.stage - 1, 0)
      BY <2>1 DEF Progress
    <2> HIDE DEF q
    <2>3. Level(q) = Greater(Greater(p.stage - 1, 0), 0)
      BY <2>2 DEF Level
    <2>4. Level(q) <= Level(p)
      BY <2>3, LevelType DEF Greater
    <2>5. Level(q) <= Level(p) + 1
      BY <2>3, <2>4, LevelType DEF Greater
    <2> QED BY <1>1, <2>2, <2>4, <2>5 DEF q
  <1>2. CASE ~ HadErrors(row, n)
    <2> DEFINE stage == NextReviewStage(p)
    <2>1. q = [state |-> IF stage = MaxStage THEN "learned" ELSE "learning", stage |-> stage, streak |-> stage]
      BY <1>2 DEF Reviewed
    <2>2. stage \in Nat /\ stage <= Level(p) + 1
      BY NextReviewStageType, LevelType DEF NextReviewStage, MaxStage
    <2>3. q.state \in {"learning", "learned"} /\ Level(q) = stage
      BY <2>1, <2>2 DEF Level, Greater
    <2> QED BY <1>2, <2>2, <2>3
  <1> QED BY <1>1, <1>2

-----------------------------------------------------------------------------
(* Steps that write: the session,                                           *)

LEMMA StageNames ==
  /\ \A e \in Exercise : Quiz[e] # "card" /\ Ready[e] # "card"
                         /\ Quiz[e] \notin {"summary", "completed"} /\ Ready[e] \notin {"summary", "completed"}
  /\ \A e, x \in Exercise : Quiz[e] # Ready[x] /\ (Quiz[e] = Quiz[x] => e = x) /\ (Ready[e] = Ready[x] => e = x)
  /\ NextReady["en_uk"] = Ready["uk_en"] /\ NextReady["uk_en"] = Ready["gap"]
  BY DEF Exercise, Quiz, Ready, NextReady

\* What is saved, of a lesson that stands where it was read.
LEMMA SaveRest ==
  ASSUME Sound, Rest, NEW j \in Job, SavesNext(j), j.read = session.place,
         session' = [session EXCEPT !.place = j.write], UNCHANGED <<words, progress>>
  PROVE  Rest'
  <1>1. session \in Session /\ session'.place = j.write /\ session'.kind = session.kind
    BY DEF Sound, Session
  <1>2. WordsSound'
    BY DEF Rest, WordsSound, RisesOnce, Base
  <1>3. CardsFirst'
    <2>1. session'.place.stage = "card" => session.place.stage = "card"
      BY <1>1, StageNames DEF SavesNext, PlacesNext, Exercise
    <2> QED BY <2>1 DEF Rest, CardsFirst, Base
  <1>4. ReviewMatchesAnswers'
    <2>1. CASE j.write.stage = "summary"
      <3>1. session.place.stage = Quiz["gap"] /\ QuizIsThrough(session.place) /\ session.place \in Place
        BY <1>1, <2>1, StageNames DEF SavesNext, PlacesNext, Exercise, Session
      <3>2. session.kind = "regular" => \A i \in AskedWords : Tells(i)
        BY <3>1, LeftThrough DEF Rest, AnsweredTell
      <3> QED BY <1>1, <3>2 DEF ReviewMatchesAnswers, Tells, AskedWords
    <2>2. CASE j.write.stage # "summary"
      BY <1>1, <2>2, StageNames DEF SavesNext, PlacesNext, ReviewMatchesAnswers, Exercise
    <2> QED BY <2>1, <2>2
  <1>5. ASSUME session.kind = "regular", session'.place.stage = Quiz["gap"],
               NEW i \in AskedWords \ LeftInQueue(j.write)
        PROVE  Tells(i)
    <2>1. CASE j.read.stage = Quiz["gap"]
      <3>1. i \in AskedWords \ LeftInQueue(j.read) => Tells(i)
        BY <1>1, <1>5, <2>1 DEF Rest, AnsweredTell
      <3>2. \/ LeftInQueue(j.write) = LeftInQueue(j.read)
            \/ LeftInQueue(j.write) = LeftInQueue(j.read) \ {j.slot} /\ Tells(j.slot)
        BY <1>1, <1>5, <2>1, StageNames DEF SavesNext, PlacesNext, Exercise
      <3> QED BY <1>5, <3>1, <3>2
    <2>2. CASE j.read.stage # Quiz["gap"]
      <3>1. LeftInQueue(j.write) = AskedWords
        BY <1>1, <1>5, <2>2, StageNames DEF SavesNext, PlacesNext, Exercise
      <3> QED BY <1>5, <3>1
    <2> QED BY <2>1, <2>2
  <1>6. AnsweredTell'
    <2>1. AskedWords' = AskedWords /\ LeftInQueue(session.place)' = LeftInQueue(j.write)
          /\ \A i \in Slot : Tells(i)' <=> Tells(i)
      BY <1>1 DEF AskedWords, LeftInQueue, Tells
    <2>2. AskedWords \subseteq Slot
      BY DEF AskedWords
    <2> QED BY <1>1, <1>4, <1>5, <2>1, <2>2 DEF AnsweredTell
  <1> QED BY <1>2, <1>3, <1>6 DEF Rest

\* What is about to be saved is still so when the row has been loaded.
LEMMA LoadLesson ==
  ASSUME Alone, Sound, LessonInv, NEW h \in Handler, Load(h)
  PROVE  LessonInv'
  <1> PICK j : j = job[h]
    OBVIOUS
  <1>1. /\ j \in Job /\ SavesNext(j) /\ j.read = session.place /\ session.status = "active"
    BY Present DEF Load, Follows, Holding, Free
  <1>2. UNCHANGED <<session, words, progress>>
    BY DEF Load
  <1>3. job'[h] = [To(j, "flush") EXCEPT !.loaded = session.place]
    BY GoesTo DEF Load
  <1>4. /\ job'[h].pc = "flush" /\ job'[h].loaded = session.place
        /\ job'[h].read = j.read /\ job'[h].write = j.write
        /\ job'[h].slot = j.slot /\ job'[h].then = j.then
    BY <1>1, <1>3 DEF To, Job
  <1>5. /\ LeftInQueue(job[h].write)' = LeftInQueue(j.write)
        /\ LeftInQueue(job[h].read)' = LeftInQueue(j.read)
        /\ (QuizIsThrough(job[h].read)' <=> QuizIsThrough(j.read))
        /\ (Tells(job[h].slot)' <=> Tells(j.slot)) /\ AskedWords' = AskedWords
    BY <1>2, <1>4 DEF LeftInQueue, QuizIsThrough, Tells, AskedWords
  <1>6. SavesNext(job[h])'
    BY <1>1, <1>2, <1>4, <1>5 DEF SavesNext, PlacesNext
  <1>7. Follows(job[h])'
    BY <1>1, <1>2, <1>4, <1>6 DEF Follows, Free, Holding, Sorting, Answering
  <1> QED BY <1>2, <1>7, RestFrame, OneFollows DEF LessonInv, Rest

\* The row that a handler writes is still the one that it has loaded.
LEMMA SavesWhole ==
  ASSUME Sound, LessonInv, NEW h \in Handler, Save(h), ~ session.mixed
  PROVE  session' = [session EXCEPT !.place = job[h].write]
  <1>1. /\ job[h].write \in Place /\ job[h].loaded = session.place
        /\ session \in Session
    BY Present DEF Save, Follows, Job
  <1>2. Saved(session.place, job[h].loaded, job[h].write) = job[h].write
    BY <1>1 DEF Saved, Column, At, Place
  <1> QED BY <1>1, <1>2 DEF Save, Session

LEMMA SaveLesson ==
  ASSUME Alone, Sound, LessonInv, NEW h \in Handler, Save(h), ~ session.mixed
  PROVE  LessonInv'
  <1> DEFINE j == job[h]
  <1>1. /\ j \in Job /\ SavesNext(j) /\ j.read = session.place /\ session.status = "active"
        /\ session \in Session
    BY Present DEF Save, Follows, Holding, Free
  <1>2. session' = [session EXCEPT !.place = j.write] /\ UNCHANGED <<words, progress>>
    BY SavesWhole DEF Save
  <1>3. Rest'
    BY <1>1, <1>2, SaveRest DEF LessonInv, Rest
  <1>4. \/ job'[h].pc \in {"refresh", "idle", "exercise"}
        \/ job'[h].pc = "complete" /\ j.then = "complete"
    <2>1. j.then \in {"idle", "done", "refresh", "complete"}
      BY <1>1 DEF Job
    <2>2. job'[h] = CASE j.then \in {"refresh", "complete"} -> To(j, j.then)
                      [] j.then = "done" -> Done(j)
                      [] j.then = "idle" -> NoJob
      BY GoesTo DEF Save
    <2>3. To(j, j.then).pc = j.then /\ Done(j).pc \in {"idle", "exercise"} /\ NoJob.pc = "idle"
      BY <1>1, ToFields, DoneFields
    <2> HIDE DEF j
    <2> QED BY <2>1, <2>2, <2>3
  <1>5. session'.status = "active" /\ session'.place = j.write
    BY <1>1, <1>2 DEF Session
  <1>6. j.then = "complete" => j.write.stage = "summary"
    BY <1>1 DEF SavesNext
  <1>7. Follows(job[h])'
    BY <1>4, <1>5, <1>6 DEF Follows, Free, Holding, Sorting, Answering
  <1> QED BY <1>3, <1>7, OneFollows

\* Every word of the lesson is assigned, and none has lost its review.
LEMMA FinalizeFrame ==
  ASSUME Sound, LessonInv, NEW h \in Handler, Finalize(h)
  PROVE  UNCHANGED <<session, words, progress>>
  <1>1. progress \in [Word -> Progress]
    BY DEF Sound
  <1>2. \A i \in Slot : progress[words[i].word].state # "none"
    BY DEF LessonInv, WordsSound
  <1>3. progress' = [w \in Word |-> progress[w]]
    BY <1>2 DEF Finalize
  <1> QED BY <1>1, <1>3 DEF Finalize

LEMMA FinalizeLesson ==
  ASSUME Alone, Sound, LessonInv, NEW h \in Handler, Finalize(h)
  PROVE  LessonInv'
  <1>1. UNCHANGED <<session, words, progress>>
    BY FinalizeFrame
  <1>2. /\ job[h] \in Job /\ job[h].read = session.place /\ session.status = "active"
        /\ job[h].read.stage = Quiz["gap"] /\ QuizIsThrough(job[h].read)
    BY Present DEF Finalize, Follows, Holding, Free
  <1> DEFINE place == At("summary", <<>>, 0)
  <1>3. job'[h] = Saving(job[h], place, "complete") /\ place.stage = "summary"
    BY GoesTo, PlaceFields DEF Finalize
  <1> HIDE DEF place
  <1>4. job'[h].pc = "save" /\ job'[h].read = session.place /\ job'[h].write.stage = "summary"
    BY <1>2, <1>3, SavingFields
  <1>5. SavesNext(job[h])'
    BY <1>2, <1>4 DEF SavesNext, PlacesNext, QuizIsThrough
  <1> QED BY <1>1, <1>2, <1>4, <1>5, SaveBegins

\* A lesson that is over, or given up, stays as it is.
LEMMA OverRest ==
  ASSUME LessonInv, UNCHANGED <<words, progress>>, session'.kind = session.kind,
         \/ session'.place = session.place
         \/ session.place.stage \in {"summary", "completed"} /\ session'.place.stage \in {"completed", "finished"}
  PROVE  Rest'
  <1>1. WordsSound' /\ CardsFirst'
    BY DEF LessonInv, WordsSound, CardsFirst, RisesOnce, Base
  <1>2. AnsweredTell'
    <2>1. CASE session'.place = session.place
      BY <2>1 DEF LessonInv, AnsweredTell, ReviewMatchesAnswers, Tells, AskedWords, LeftInQueue
    <2>2. CASE session.place.stage \in {"summary", "completed"} /\ session'.place.stage \in {"completed", "finished"}
      <3>1. session'.place.stage # Quiz["gap"]
        BY <2>2 DEF Quiz
      <3> QED BY <2>2, <3>1 DEF LessonInv, AnsweredTell, ReviewMatchesAnswers, AskedWords
    <2> QED BY <2>1, <2>2
  <1> QED BY <1>1, <1>2 DEF Rest

LEMMA OverLesson ==
  ASSUME Alone, Sound, LessonInv, NEW h \in Handler, Complete(h) \/ FinishSummary(h) \/ Restart(h)
  PROVE  LessonInv'
  <1>1. session \in Session /\ session.place \in Place
    BY Present
  <1>2. job'[h].pc \in Free
    BY GoesTo, DoneFields DEF Complete, FinishSummary, Restart, IsServed, Free
  <1>3. Complete(h) => session.place.stage = "summary"
    BY Present DEF Complete, Follows
  <1>4. Rest'
    <2>1. session'.kind = session.kind /\ UNCHANGED <<words, progress>>
      BY <1>1 DEF Complete, FinishSummary, Restart, Session
    <2>2. CASE Complete(h) \/ FinishSummary(h)
      <3>1. CASE Complete(h)
        <4>1. session'.place.stage = "completed"
          BY <1>1, <3>1 DEF Complete, Session, Place
        <4> QED BY <1>3, <2>1, <3>1, <4>1, OverRest
      <3>2. CASE FinishSummary(h)
        <4>1. session.place.stage \in {"summary", "completed"} /\ session'.place.stage = "finished"
          BY <1>1, <3>2 DEF FinishSummary, Session, Place
        <4> QED BY <2>1, <4>1, OverRest
      <3> QED BY <2>2, <3>1, <3>2
    <2>3. CASE Restart(h)
      <3>1. session'.place = session.place
        BY <1>1, <2>3 DEF Restart, Session
      <3> QED BY <2>1, <3>1, OverRest
    <2> QED BY <2>2, <2>3
  <1>5. Follows(job[h])'
    BY <1>2 DEF Follows, Free, Holding, Sorting, Answering
  <1> QED BY <1>4, <1>5, OneFollows

-----------------------------------------------------------------------------
(* the cards,                                                               *)

\* While the cards are shown, nothing is answered yet.
LEMMA CardRest ==
  ASSUME Sound', session.place.stage = "card", UNCHANGED session,
         \A i, k \in Slot : words'[i].word = words'[k].word => i = k,
         \A i \in Slot : progress'[words'[i].word].state # "none",
         \A i \in Slot, e \in Exercise : words'[i].attempts[e] = 0 /\ ~ words'[i].correct[e],
         \A w \in Word : Level(progress'[w]) <= Base(w)
  PROVE  Rest'
  <1>1. \A w \in Word : Level(progress'[w]) \in Nat
    BY LevelType DEF Sound
  <1>2. \A i \in Slot : words'[i].word \in Word
    BY DEF Sound, WordRow
  <1>3. RisesOnce'
    BY <1>1, BaseType DEF RisesOnce, Base
  <1>4. WordsSound'
    BY <1>2, <1>3 DEF WordsSound, Base
  <1>5. CardsFirst'
    BY DEF CardsFirst, Base
  <1>6. AnsweredTell'
    BY StageNames DEF AnsweredTell, ReviewMatchesAnswers, Exercise
  <1> QED BY <1>4, <1>5, <1>6 DEF Rest

\* Sorting ends with the session at a card, or at its end.
LEMMA CardSaves ==
  ASSUME Alone, LessonInv, NEW h \in Handler, NEW j \in Job, j.read = session.place,
         session.status = "active", session.place.stage = "card", UNCHANGED session, Rest',
         NEW position, job'[h] = Saving(j, At("card", <<>>, position), "refresh")
  PROVE  LessonInv'
  <1>1. /\ job'[h].pc = "save" /\ job'[h].read = session.place /\ job'[h].then = "refresh"
        /\ job'[h].write.stage = "card"
    BY SavingFields, PlaceFields
  <1>2. SavesNext(job[h])'
    BY <1>1 DEF SavesNext, PlacesNext
  <1>3. Follows(job[h])'
    BY <1>1, <1>2 DEF Follows, Free, Holding, Sorting, Answering
  <1> QED BY <1>3, OneFollows

LEMMA SortingNow ==
  ASSUME Sound, LessonInv, NEW h \in Handler, job[h].pc \in Sorting
  PROVE  /\ job[h] \in Job /\ job[h].slot \in Slot /\ job[h].word \in WordRow
         /\ session.status = "active" /\ session.place.stage = "card" /\ job[h].read = session.place
         /\ job[h].seen = {words[i].word : i \in Slot}
         /\ words \in [Slot -> WordRow] /\ progress \in [Word -> Progress]
         /\ WordsSound /\ CardsFirst
  BY Present, JobType DEF Follows, Holding, Free, Sorting, JobOK, Job, Sound, LessonInv

LEMMA MarkLesson ==
  ASSUME Alone, Sound, LessonInv, NEW h \in Handler, Mark(h)
  PROVE  LessonInv'
  <1> DEFINE j == job[h]
  <1>1. /\ j \in Job /\ j.slot \in Slot /\ session.status = "active" /\ session.place.stage = "card"
        /\ j.read = session.place /\ j.seen = {words[i].word : i \in Slot}
        /\ words \in [Slot -> WordRow] /\ WordsSound /\ CardsFirst
    BY SortingNow DEF Mark, Sorting
  <1>2. /\ \A i \in Slot : /\ words'[i].word = words[i].word /\ words'[i].attempts = words[i].attempts
                           /\ words'[i].correct = words[i].correct
        /\ UNCHANGED <<session, progress>>
    BY <1>1 DEF Mark, WordRow
  <1>3. Rest'
    BY <1>1, <1>2, MarkKeeps, CardRest DEF WordsSound, CardsFirst
  <1>4. job'[h] \in {To(j, "know"), GoesOn(j)}
    BY GoesTo DEF Mark
  <1>5. CASE job'[h] = To(j, "know")
    <2>1. job'[h].pc = "know" /\ job'[h].read = j.read /\ job'[h].seen = j.seen
      BY <1>1, <1>5, ToFields
    <2>2. {words[i].word : i \in Slot}' = {words[i].word : i \in Slot}
      BY <1>2
    <2>3. Follows(job[h])'
      BY <1>1, <1>2, <2>1, <2>2 DEF Follows, Free, Holding, Sorting, Answering
    <2> QED BY <1>3, <2>3, OneFollows
  <1>6. CASE job'[h] = GoesOn(j)
    BY <1>1, <1>2, <1>3, <1>6, CardSaves DEF GoesOn
  <1> QED BY <1>4, <1>5, <1>6

LEMMA KnowLesson ==
  ASSUME Alone, Sound, LessonInv, NEW h \in Handler, Know(h)
  PROVE  LessonInv'
  <1> DEFINE j == job[h]
             w == j.word.word
  <1>1. /\ j \in Job /\ j.word \in WordRow /\ session.status = "active" /\ session.place.stage = "card"
        /\ j.read = session.place /\ j.seen = {words[i].word : i \in Slot}
        /\ progress \in [Word -> Progress] /\ words \in [Slot -> WordRow]
        /\ WordsSound /\ CardsFirst
    BY SortingNow DEF Know, Sorting
  <1>2. w \in Word /\ progress' = [progress EXCEPT ![w] = MarkedKnown(progress[w])] /\ UNCHANGED <<session, words>>
    BY <1>1 DEF Know, WordRow
  <1>3. job'[h] \in {To(j, "choose"), GoesOn(j)}
    BY GoesTo DEF Know
  <1> HIDE DEF w
  <1>4. \A x \in Word : progress'[x] = IF x = w THEN MarkedKnown(progress[w]) ELSE progress[x]
    BY <1>1, <1>2
  <1>5. \A x \in Word : Level(progress'[x]) <= Base(x)
    <2>1. Level(progress[w]) \in Nat /\ Base(w) \in Nat /\ 2 <= Base(w) /\ Level(progress[w]) <= Base(w)
      BY <1>1, <1>2, LevelType, BaseType DEF CardsFirst
    <2>2. Level(MarkedKnown(progress[w])) <= Greater(Level(progress[w]), 2)
      BY <1>1, <1>2, MarkedKnownLevel
    <2>3. Level(MarkedKnown(progress[w])) \in Nat
      BY <1>1, <1>2, MarkedKnownType, LevelType
    <2>4. Level(MarkedKnown(progress[w])) <= Base(w)
      BY <2>1, <2>2, <2>3 DEF Greater
    <2> QED BY <1>1, <1>4, <2>4 DEF CardsFirst
  <1>6. \A i \in Slot : progress'[words[i].word].state # "none"
    <2>1. MarkedKnown(progress[w]).state # "none"
      BY <1>1, <1>2, MarkedKnownLevel
    <2>2. \A i \in Slot : words[i].word \in Word
      BY <1>1 DEF WordRow
    <2> QED BY <1>1, <1>4, <2>1, <2>2 DEF WordsSound
  <1>7. Rest'
    BY <1>1, <1>2, <1>5, <1>6, KnowKeeps, CardRest DEF WordsSound, CardsFirst
  <1>8. CASE job'[h] = To(j, "choose")
    <2>1. job'[h].pc = "choose" /\ job'[h].read = j.read /\ job'[h].seen = j.seen
      BY <1>1, <1>8, ToFields
    <2>2. Follows(job[h])'
      BY <1>1, <1>2, <2>1 DEF Follows, Free, Holding, Sorting, Answering
    <2> QED BY <1>7, <2>2, OneFollows
  <1>9. CASE job'[h] = GoesOn(j)
    BY <1>1, <1>2, <1>7, <1>9, CardSaves DEF GoesOn
  <1> QED BY <1>3, <1>8, <1>9

\* The word that is chosen instead of a known one is not among those of the
\* lesson.
LEMMA ChooseLesson ==
  ASSUME Alone, Sound, LessonInv, NEW h \in Handler, Choose(h)
  PROVE  LessonInv'
  <1> DEFINE j == job[h]
  <1>1. /\ j \in Job /\ j.slot \in Slot /\ session.status = "active" /\ session.place.stage = "card"
        /\ j.read = session.place /\ j.seen = {words[i].word : i \in Slot}
        /\ progress \in [Word -> Progress] /\ words \in [Slot -> WordRow]
        /\ WordsSound /\ CardsFirst /\ UNCHANGED <<session, words>>
    BY SortingNow DEF Choose, Sorting
  <1>2. ASSUME NEW w \in Word \ j.seen,
               progress' = [progress EXCEPT ![w] = Existing(progress[w])],
               Goes(h, [To(j, "replace") EXCEPT !.word = FreshRow(w)])
        PROVE  LessonInv'
    <2>1. \A x \in Word : progress'[x] = IF x = w THEN Existing(progress[w]) ELSE progress[x]
      BY <1>1, <1>2
    <2>2. \A i \in Slot : words[i].word \in Word
      BY <1>1 DEF WordRow
    <2>3. Existing(progress[w]).state # "none" /\ Level(Existing(progress[w])) <= Level(progress[w])
      BY <1>1, ExistingLevel
    <2>4. \A x \in Word : Level(progress'[x]) <= Base(x)
      <3>1. /\ Level(progress[w]) \in Nat /\ Base(w) \in Nat /\ Level(progress[w]) <= Base(w)
            /\ Level(Existing(progress[w])) \in Nat
        BY <1>1, LevelType, BaseType, ExistingType DEF CardsFirst
      <3>2. Level(Existing(progress[w])) <= Base(w)
        BY <2>3, <3>1
      <3> QED BY <1>1, <2>1, <3>2 DEF CardsFirst
    <2>5. job'[h] = [To(j, "replace") EXCEPT !.word = FreshRow(w)]
      BY <1>2, GoesTo
    <2> HIDE DEF j
    <2>6. \A i \in Slot : progress'[words[i].word].state # "none"
      BY <1>1, <2>1, <2>2, <2>3 DEF WordsSound
    <2>7. Rest'
      BY <1>1, <2>4, <2>6, ChooseKeeps, CardRest DEF WordsSound, CardsFirst
    <2>8. /\ job'[h].pc = "replace" /\ job'[h].read = j.read /\ job'[h].seen = j.seen
          /\ job'[h].word = FreshRow(w)
      BY <1>1, <2>5 DEF To, Job
    <2>9. progress'[w].state # "none"
      BY <2>1, <2>3
    <2>10. Follows(job[h])'
      BY <1>1, <1>2, <2>8, <2>9 DEF Follows, Free, Holding, Sorting, Answering
    <2> QED BY <2>7, <2>10, OneFollows
  <1>3. CASE UNCHANGED progress /\ Goes(h, GoesOn(j))
    <2>1. Rest'
      BY <1>1, <1>3, RestFrame DEF LessonInv, Rest
    <2>2. job'[h] = GoesOn(j)
      BY <1>3, GoesTo
    <2> QED BY <1>1, <2>1, <2>2, CardSaves DEF GoesOn
  <1> QED BY <1>2, <1>3 DEF Choose

LEMMA ReplaceLesson ==
  ASSUME Alone, Sound, LessonInv, NEW h \in Handler, Replace(h)
  PROVE  LessonInv'
  <1> DEFINE j == job[h]
  <1>1. /\ j \in Job /\ j.slot \in Slot /\ session.status = "active" /\ session.place.stage = "card"
        /\ j.read = session.place /\ j.seen = {words[i].word : i \in Slot}
        /\ progress \in [Word -> Progress] /\ words \in [Slot -> WordRow]
        /\ WordsSound /\ CardsFirst /\ UNCHANGED <<session, progress>>
    BY SortingNow DEF Replace, Sorting
  <1>2. PICK w \in Word \ j.seen : j.word = FreshRow(w) /\ progress[w].state # "none"
    BY Present DEF Replace, Follows
  <1>3. \A i \in Slot : words'[i] = IF i = j.slot THEN FreshRow(w) ELSE words[i]
    BY <1>1, <1>2 DEF Replace
  <1>4. /\ FreshRow(w).word = w
        /\ \A e \in Exercise : FreshRow(w).attempts[e] = 0 /\ ~ FreshRow(w).correct[e]
    BY DEF FreshRow
  <1>5. \A i \in Slot : words[i].word # w /\ words[i].word \in Word
    BY <1>1, <1>2 DEF WordRow
  <1>6. job'[h] = Saving(j, At("card", <<>>, j.read.position), "refresh")
    BY GoesTo DEF Replace
  <1> HIDE DEF j
  <1>7. \A i, k \in Slot : words'[i].word = words'[k].word => i = k
    BY <1>1, <1>3, <1>4, <1>5 DEF WordsSound
  <1>8. \A i \in Slot : progress[words'[i].word].state # "none"
    BY <1>1, <1>2, <1>3, <1>4 DEF WordsSound
  <1>9. \A i \in Slot, e \in Exercise : words'[i].attempts[e] = 0 /\ ~ words'[i].correct[e]
    BY <1>1, <1>3, <1>4 DEF CardsFirst
  <1>10. Rest'
    BY <1>1, <1>7, <1>8, <1>9, ReplaceKeeps, CardRest DEF CardsFirst
  <1> QED BY <1>1, <1>6, <1>10, CardSaves

-----------------------------------------------------------------------------
(* the answers,                                                             *)

LEMMA QuizOf ==
  ASSUME NEW place, place.stage \in QuizStage
  PROVE  \E e \in Exercise : place.stage = Quiz[e] /\ AskedAt(place.stage) = e
  <1>1. PICK e \in Exercise : place.stage = Quiz[e]
    BY Stages DEF Quiz, Exercise
  <1> QED BY <1>1, ExerciseOfStage

LEMMA AnsweringNow ==
  ASSUME Sound, LessonInv, NEW h \in Handler, job[h].pc \in Answering
  PROVE  /\ job[h] \in Job /\ job[h].slot \in Slot /\ job[h].word \in WordRow /\ job[h].right \in BOOLEAN
         /\ session.status = "active" /\ job[h].read = session.place /\ session.place \in Place
         /\ session.place.stage \in QuizStage /\ IsAsked(session.place, job[h].slot)
         /\ job[h].slot \in LeftInQueue(session.place)
         /\ words \in [Slot -> WordRow] /\ progress \in [Word -> Progress]
         /\ WordsSound /\ RisesOnce /\ AnsweredTell
  <1>1. /\ job[h] \in Job /\ job[h].slot \in Slot /\ job[h].word \in WordRow /\ job[h].right \in BOOLEAN
        /\ session.status = "active" /\ job[h].read = session.place /\ session.place \in Place
        /\ session.place.stage \in QuizStage /\ IsAsked(session.place, job[h].slot)
    BY Present, JobType DEF Follows, Holding, Free, Answering, JobOK, Job
  <1> QED BY <1>1, LeftAnswered DEF Sound, LessonInv, WordsSound

\* The answer that was recorded, and reviewed if it had to be, goes to the queue.
LEMMA AnsweredSaves ==
  ASSUME NEW h \in Handler, NEW j \in Job, NEW e \in Exercise, j.read.stage = Quiz[e], j.slot \in Slot,
         IsAsked(j.read, j.slot), job'[h] = Answered(j), session'.status = "active", j.read = session'.place,
         j.right => words'[j.slot].correct[e],
         j.right /\ session'.kind = "regular" /\ e = "gap" =>
           progress'[words'[j.slot].word].state \in
             IF \E x \in Exercise : words'[j.slot].attempts[x] > 1 THEN {"needs_work"}
             ELSE {"learning", "learned"}
  PROVE  Follows(job[h])'
  <1> DEFINE queue == IF j.right THEN j.read.queue ELSE Append(j.read.queue, j.slot)
             place == At(j.read.stage, queue, j.read.position + 1)
  <1>1. j.read \in Place /\ j.right \in BOOLEAN
    BY DEF Job
  <1>2. /\ j.slot \in LeftInQueue(j.read) /\ place.stage = Quiz[e]
        /\ \/ LeftInQueue(place) = LeftInQueue(j.read)
           \/ j.right /\ LeftInQueue(place) = LeftInQueue(j.read) \ {j.slot}
    BY <1>1, LeftAnswered, PlaceFields
  <1>3. job'[h] = Saving(j, place, "done")
    BY DEF Answered
  <1> HIDE DEF place
  <1>4. /\ job'[h].pc = "save" /\ job'[h].read = j.read /\ job'[h].write = place
        /\ job'[h].slot = j.slot /\ job'[h].then = "done"
    BY <1>3, SavingFields
  <1>5. LeftInQueue(job[h].write)' = LeftInQueue(place) /\ LeftInQueue(job[h].read)' = LeftInQueue(j.read)
    BY <1>4 DEF LeftInQueue
  <1>6. SavesNext(job[h])'
    BY <1>2, <1>4, <1>5 DEF SavesNext, PlacesNext, Tells
  <1> QED BY <1>4, <1>6 DEF Follows, Free, Holding, Sorting, Answering

LEMMA ReadWordLesson ==
  ASSUME Alone, Sound, LessonInv, NEW h \in Handler, ReadWord(h)
  PROVE  LessonInv'
  <1> DEFINE j == job[h]
             row == words[j.slot]
             k == [To(j, "record") EXCEPT !.word = row]
  <1>1. /\ j \in Job /\ session.status = "active" /\ j.read = session.place
        /\ IsAsked(session.place, j.slot) /\ UNCHANGED <<session, words, progress>>
    BY AnsweringNow DEF ReadWord, Answering
  <1>2. job'[h] = k
    BY GoesTo DEF ReadWord
  <1> HIDE DEF row
  <1>3. k.pc = "record" /\ k.read = j.read /\ k.slot = j.slot /\ k.word = row
    BY <1>1 DEF To, Job
  <1> HIDE DEF k
  <1>4. Follows(job[h])'
    BY <1>1, <1>2, <1>3 DEF Follows, IsAsked, Free, Holding, Sorting, Answering, row
  <1> QED BY <1>1, <1>4, RestFrame, OneFollows DEF LessonInv, Rest

LEMMA WeighLesson ==
  ASSUME Alone, Sound, LessonInv, NEW h \in Handler, Weigh(h)
  PROVE  LessonInv'
  <1> DEFINE j == job[h]
             weighed == progress[j.word.word]
  <1>1. /\ j \in Job /\ session.status = "active" /\ j.read = session.place
        /\ IsAsked(session.place, j.slot) /\ UNCHANGED <<session, words, progress>>
    BY AnsweringNow DEF Weigh, Answering
  <1>2. Recorded(j)
    BY DEF LessonInv, Follows, Weigh
  <1>3. PICK control \in BOOLEAN : job'[h] = [To(j, "review") EXCEPT !.weighed = weighed, !.control = control]
    BY GoesTo DEF Weigh
  <1> HIDE DEF weighed
  <1>4. /\ job'[h].pc = "review" /\ job'[h].read = j.read /\ job'[h].slot = j.slot
        /\ job'[h].word = j.word /\ job'[h].right = j.right /\ job'[h].weighed = weighed
    BY <1>1, <1>3 DEF To, Job
  <1>5. Recorded(job[h])'
    BY <1>1, <1>2, <1>4 DEF Recorded, Attempt, Base
  <1>6. Follows(job[h])'
    BY <1>1, <1>4, <1>5 DEF Follows, IsAsked, Free, Holding, Sorting, Answering, weighed
  <1> QED BY <1>1, <1>6, RestFrame, OneFollows DEF LessonInv, Rest

\* The row of the answer is written from the row that was read.
Writes(j, e) ==
  /\ j.word = words[j.slot] /\ Attempt(j) = words[j.slot].attempts[e] + 1
  /\ words[j.slot].attempts[e] \in Nat
  /\ \A i \in Slot \ {j.slot} : words'[i] = words[i]
  /\ words'[j.slot] = [j.word EXCEPT !.attempts[e] = Attempt(j), !.correct[e] = j.right]
  /\ \A i \in Slot : words'[i].word = words[i].word /\ words'[i].card = words[i].card
  /\ \A x \in Exercise : /\ words'[j.slot].attempts[x] = IF x = e THEN Attempt(j) ELSE words[j.slot].attempts[x]
                         /\ words'[j.slot].correct[x] = IF x = e THEN j.right ELSE words[j.slot].correct[x]
  /\ UNCHANGED <<session, progress>>

LEMMA RecordedRow ==
  ASSUME Sound, LessonInv, NEW h \in Handler, Record(h), NEW j, j = job[h],
         NEW e \in Exercise, AskedAt(j.read.stage) = e
  PROVE  Writes(j, e)
  <1>0. j.slot \in Slot
    BY AnsweringNow DEF Record, Answering
  <1>1. /\ j.slot \in Slot /\ words \in [Slot -> WordRow] /\ j.word = words[j.slot]
    BY AnsweringNow DEF Record, Answering, LessonInv, Follows
  <1> DEFINE row == words[j.slot]
             n == Attempt(j)
             new == [row EXCEPT !.attempts[e] = n, !.correct[e] = j.right]
  <1>2. row \in WordRow /\ row.attempts[e] \in Nat /\ n = row.attempts[e] + 1
    BY <1>1 DEF WordRow, Attempt
  <1>3. words' = [words EXCEPT ![j.slot].attempts[e] = n, ![j.slot].correct[e] = j.right]
    BY DEF Record
  <1>4. words' = [words EXCEPT ![j.slot] = new]
    <2> HIDE DEF n
    <2>1. words \in [Slot -> WordRow]
      BY <1>1
    <2>2. [words EXCEPT ![j.slot].attempts[e] = n, ![j.slot].correct[e] = j.right] = [words EXCEPT ![j.slot] = new]
      BY <1>0, <2>1
    <2> QED BY <1>3, <2>2
  <1> HIDE DEF row, n
  <1>5. /\ new.word = row.word /\ new.card = row.card
        /\ \A x \in Exercise : /\ new.attempts[x] = IF x = e THEN n ELSE row.attempts[x]
                               /\ new.correct[x] = IF x = e THEN j.right ELSE row.correct[x]
    BY <1>2 DEF WordRow
  <1>6. new = [j.word EXCEPT !.attempts[e] = Attempt(j), !.correct[e] = j.right]
    BY <1>1 DEF row, n
  <1> HIDE DEF new
  <1>7. words'[j.slot] = new /\ \A i \in Slot \ {j.slot} : words'[i] = words[i]
    BY <1>1, <1>4
  <1>8. \A i \in Slot : words'[i].word = words[i].word /\ words'[i].card = words[i].card
    BY <1>5, <1>7 DEF row
  <1>9. UNCHANGED <<session, progress>>
    BY DEF Record
  <1>10. /\ row = words[j.slot] /\ n = Attempt(j)
    BY DEF row, n
  <1> QED BY <1>1, <1>2, <1>5, <1>6, <1>7, <1>8, <1>9, <1>10 DEF Writes

LEMMA RecordRest ==
  ASSUME Sound, LessonInv, NEW h \in Handler, Record(h)
  PROVE  Rest'
  <1> PICK j : j = job[h]
    OBVIOUS
  <1>1. /\ j \in Job /\ j.slot \in Slot /\ j.read = session.place /\ session.place.stage \in QuizStage
        /\ j.slot \in LeftInQueue(session.place) /\ words \in [Slot -> WordRow]
        /\ WordsSound /\ RisesOnce /\ AnsweredTell
    BY AnsweringNow DEF Record, Answering
  <1>2. PICK e \in Exercise : session.place.stage = Quiz[e] /\ AskedAt(j.read.stage) = e
    BY <1>1, QuizOf
  <1>3. Writes(j, e)
    BY <1>2, RecordedRow
  <1>4. ASSUME NEW i \in Slot, words'[i].attempts["gap"] = 0
        PROVE  words[i].attempts["gap"] = 0
    <2>1. CASE i = j.slot
      <3>1. words'[i].attempts["gap"] = IF e = "gap" THEN words[i].attempts[e] + 1 ELSE words[i].attempts["gap"]
        BY <1>3, <2>1 DEF Writes, Exercise
      <3>2. words[i].attempts[e] \in Nat
        BY <1>3, <2>1 DEF Writes
      <3> QED BY <1>4, <3>1, <3>2
    <2>2. CASE i # j.slot
      BY <1>3, <1>4, <2>2 DEF Writes
    <2> QED BY <2>1, <2>2
  <1>5. WordsSound'
    BY <1>1, <1>3, <1>4 DEF Writes, WordsSound, RisesOnce, Base
  <1>6. CardsFirst'
    <2>1. session'.place.stage # "card"
      BY <1>2, <1>3, StageNames DEF Writes
    <2> QED BY <2>1 DEF CardsFirst
  <1>7. \A i \in Slot \ {j.slot} : Tells(i)' <=> Tells(i)
    BY <1>3 DEF Writes, Tells
  <1>8. AskedWords' = AskedWords /\ LeftInQueue(session.place)' = LeftInQueue(session.place)
        /\ AskedWords \subseteq Slot
    BY <1>3 DEF Writes, AskedWords, LeftInQueue
  <1>9. ReviewMatchesAnswers'
    BY <1>2, <1>3, StageNames DEF Writes, ReviewMatchesAnswers
  <1>10. AnsweredTell'
    BY <1>1, <1>3, <1>7, <1>8, <1>9 DEF Writes, AnsweredTell
  <1> QED BY <1>5, <1>6, <1>10 DEF Rest

LEMMA RecordLesson ==
  ASSUME Alone, Sound, LessonInv, NEW h \in Handler, Record(h)
  PROVE  LessonInv'
  <1> PICK j : j = job[h]
    OBVIOUS
  <1>1. /\ j \in Job /\ j.slot \in Slot /\ j.read = session.place /\ session.place.stage \in QuizStage
        /\ IsAsked(session.place, j.slot) /\ session.status = "active" /\ words \in [Slot -> WordRow]
        /\ j.right \in BOOLEAN /\ WordsSound
    BY AnsweringNow DEF Record, Answering
  <1>2. PICK e \in Exercise : session.place.stage = Quiz[e] /\ AskedAt(j.read.stage) = e
    BY <1>1, QuizOf
  <1>3. Writes(j, e)
    BY <1>2, RecordedRow
  <1>4. Rest'
    BY RecordRest
  <1>5. job'[h] = IF session.kind = "regular" /\ (e = "gap" \/ ~ j.right) THEN To(j, "weigh") ELSE Answered(j)
    BY <1>2, GoesTo DEF Record
  <1>6. CASE session.kind = "regular" /\ (e = "gap" \/ ~ j.right)
    <2>1. /\ job'[h].pc = "weigh" /\ job'[h].read = j.read /\ job'[h].slot = j.slot
          /\ job'[h].word = j.word /\ job'[h].right = j.right
      BY <1>1, <1>5, <1>6, ToFields
    <2>2. e = "gap" /\ Attempt(j) = 1 => Level(progress[j.word.word]) <= Base(j.word.word)
      BY <1>1, <1>3 DEF Writes, WordsSound
    <2>3. Recorded(job[h])'
      BY <1>1, <1>2, <1>3, <1>6, <2>1, <2>2 DEF Writes, Recorded, Attempt, Base
    <2>4. Follows(job[h])'
      BY <1>1, <1>3, <2>1, <2>3 DEF Writes, Follows, IsAsked, Free, Holding, Sorting, Answering
    <2> QED BY <1>4, <2>4, OneFollows
  <1>7. CASE ~ (session.kind = "regular" /\ (e = "gap" \/ ~ j.right))
    <2>1. Follows(job[h])'
      <3>1. /\ session'.status = "active" /\ j.read = session'.place /\ j.read.stage = Quiz[e]
            /\ IsAsked(j.read, j.slot) /\ job'[h] = Answered(j)
            /\ j.right => words'[j.slot].correct[e]
            /\ ~ (j.right /\ session'.kind = "regular" /\ e = "gap")
        BY <1>1, <1>2, <1>3, <1>5, <1>7 DEF Writes
      <3> QED BY <1>1, <3>1, AnsweredSaves
    <2> QED BY <1>4, <2>1, OneFollows
  <1> QED BY <1>6, <1>7

\* The review of the answer: what it makes of the assignment.
Weighs(j, e, new) ==
  /\ j.weighed = progress[words[j.slot].word]
  /\ new = IF j.right THEN Reviewed(j.weighed, j.weighed, j.word, Attempt(j))
           ELSE AfterWrong(j.weighed, j.control, Attempt(j))
  /\ Attempt(j) \in Nat /\ 1 <= Attempt(j)
  /\ \A x \in Exercise : words[j.slot].attempts[x] = IF x = e THEN Attempt(j) ELSE j.word.attempts[x]
  /\ words[j.slot].correct[e] = j.right
  /\ session.kind = "regular" /\ (j.right => e = "gap")
  /\ e = "gap" /\ Attempt(j) = 1 => Level(j.weighed) <= Base(words[j.slot].word)
  /\ \A i \in Slot \ {j.slot} : progress'[words[i].word] = progress[words[i].word]
  /\ \A w \in Word \ {words[j.slot].word} : progress'[w] = progress[w]
  /\ progress'[words[j.slot].word] = new
  /\ UNCHANGED <<session, words>>

LEMMA ReviewedRow ==
  ASSUME Sound, LessonInv, NEW h \in Handler, Review(h), NEW j, j = job[h],
         NEW e \in Exercise, AskedAt(j.read.stage) = e
  PROVE  \E new : Weighs(j, e, new)
  <1> DEFINE w == j.word.word
             n == Attempt(j)
             new == IF j.right THEN Reviewed(progress[w], j.weighed, j.word, n)
                    ELSE AfterWrong(progress[w], j.control, n)
             row == [j.word EXCEPT !.attempts[e] = n, !.correct[e] = j.right]
  <1>1. /\ j.slot \in Slot /\ words \in [Slot -> WordRow] /\ progress \in [Word -> Progress]
        /\ j.word \in WordRow /\ j.right \in BOOLEAN
        /\ \A i, k \in Slot : words[i].word = words[k].word => i = k
    BY AnsweringNow DEF Review, Answering, WordsSound
  <1>2. /\ words[j.slot] = row /\ j.weighed = progress[w]
        /\ session.kind = "regular" /\ (j.right => e = "gap")
        /\ e = "gap" /\ n = 1 => Level(progress[w]) <= Base(w)
    BY DEF LessonInv, Follows, Review, Recorded
  <1>3. n \in Nat /\ 1 <= n /\ w \in Word
    <2>1. j.word.attempts[e] \in Nat
      BY <1>1 DEF WordRow
    <2> QED BY <1>1, <2>1 DEF Attempt, WordRow
  <1>4. progress' = [progress EXCEPT ![w] = new] /\ UNCHANGED <<session, words>>
    BY DEF Review
  <1> HIDE DEF n
  <1>5. /\ row.word = w
        /\ \A x \in Exercise : row.attempts[x] = IF x = e THEN n ELSE j.word.attempts[x]
        /\ row.correct[e] = j.right
    BY <1>1, <1>3 DEF WordRow
  <1> HIDE DEF row, w, new
  <1>6. words[j.slot].word = w
    BY <1>2, <1>5
  <1>7. \A x \in Word : progress'[x] = IF x = w THEN new ELSE progress[x]
    BY <1>1, <1>4
  <1>8. \A i \in Slot \ {j.slot} : words[i].word \in Word \ {w}
    BY <1>1, <1>6 DEF WordRow
  <1>9. /\ progress'[words[j.slot].word] = new
        /\ \A x \in Word \ {words[j.slot].word} : progress'[x] = progress[x]
        /\ \A i \in Slot \ {j.slot} : progress'[words[i].word] = progress[words[i].word]
    BY <1>3, <1>6, <1>7, <1>8
  <1>10. new = IF j.right THEN Reviewed(j.weighed, j.weighed, j.word, Attempt(j))
               ELSE AfterWrong(j.weighed, j.control, Attempt(j))
    BY <1>2 DEF new, n
  <1>11. n = Attempt(j)
    BY DEF n
  <1>12. Weighs(j, e, new)
    BY <1>2, <1>3, <1>4, <1>5, <1>6, <1>9, <1>10, <1>11 DEF Weighs
  <1> QED BY <1>12

\* A wrong answer leaves the level where it is, or lowers it; a right one raises
\* it by one, and not at all after an error.
LEMMA WeighedLevel ==
  ASSUME Sound, LessonInv, NEW h \in Handler, Review(h), NEW j, j = job[h],
         NEW e \in Exercise, NEW new, Weighs(j, e, new)
  PROVE  /\ new.state # "none"
         /\ ~ j.right => Level(new) <= Level(j.weighed)
         /\ Level(new) <= 1 + Base(words[j.slot].word)
         /\ j.right => new.state \in IF \E x \in Exercise : words[j.slot].attempts[x] > 1
                                     THEN {"needs_work"} ELSE {"learning", "learned"}
  <1> DEFINE w == words[j.slot].word
             n == Attempt(j)
             old == j.weighed
  <1>1. /\ j.slot \in Slot /\ words[j.slot] \in WordRow /\ old \in Progress /\ w \in Word
        /\ old.state # "none" /\ Level(old) <= 1 + Base(w) /\ j.right \in BOOLEAN
    <2>1. /\ j.slot \in Slot /\ words \in [Slot -> WordRow] /\ progress \in [Word -> Progress]
          /\ j.right \in BOOLEAN /\ WordsSound /\ RisesOnce
      BY AnsweringNow DEF Review, Answering
    <2>2. words[j.slot] \in WordRow /\ w \in Word
      BY <2>1 DEF WordRow
    <2>3. old = progress[w]
      BY DEF Weighs
    <2>4. old.state # "none"
      BY <2>1, <2>3 DEF WordsSound
    <2>5. Level(old) <= 1 + Base(w)
      BY <2>1, <2>2, <2>3 DEF RisesOnce, Base
    <2> QED BY <2>1, <2>2, <2>3, <2>4, <2>5
  <1>2. Level(old) \in Nat /\ Base(w) \in Nat
    BY <1>1, LevelType, BaseType
  <1>3. CASE ~ j.right
    <2>1. new = AfterWrong(old, j.control, n)
      BY <1>3 DEF Weighs
    <2>2. Level(new) \in Nat
      BY <1>1, <2>1, AfterWrongType, LevelType
    <2> HIDE DEF n, old, w
    <2>3. new.state # "none" /\ Level(new) <= Level(old)
      BY <1>1, <2>1, AfterWrongLevel
    <2>4. Level(new) <= 1 + Base(w)
      BY <1>1, <1>2, <2>2, <2>3
    <2> QED BY <1>3, <2>3, <2>4 DEF old, w
  <1>4. CASE j.right
    <2>1. new = Reviewed(old, old, j.word, n)
      BY <1>4 DEF Weighs
    <2>2. Level(new) \in Nat
      BY <1>1, <2>1, ReviewedType, LevelType
    <2>3. HadErrors(j.word, n) <=> \E x \in Exercise : words[j.slot].attempts[x] > 1
      <3>1. \A x \in Exercise : words[j.slot].attempts[x] = IF x = "gap" THEN n ELSE j.word.attempts[x]
        BY <1>4 DEF Weighs
      <3>2. /\ words[j.slot].attempts["gap"] = n
            /\ words[j.slot].attempts["en_uk"] = j.word.attempts["en_uk"]
            /\ words[j.slot].attempts["uk_en"] = j.word.attempts["uk_en"]
        BY <3>1 DEF Exercise
      <3> QED BY <3>2 DEF HadErrors, Exercise
    <2>4. ~ HadErrors(j.word, n) => Level(old) <= Base(w)
      <3>1. HadErrors(j.word, n) \/ n = 1
        BY DEF HadErrors, Weighs
      <3> QED BY <1>4, <3>1 DEF Weighs
    <2> HIDE DEF n, old, w
    <2>5. /\ new.state \in IF HadErrors(j.word, n) THEN {"needs_work"} ELSE {"learning", "learned"}
          /\ HadErrors(j.word, n) => Level(new) <= Level(old)
          /\ Level(new) <= Level(old) + 1
      BY <1>1, <2>1, ReviewedLevel
    <2>6. Level(new) <= 1 + Base(w)
      BY <1>1, <1>2, <2>2, <2>4, <2>5
    <2> QED BY <1>4, <2>3, <2>5, <2>6 DEF w
  <1> QED BY <1>1, <1>3, <1>4

LEMMA ReviewLesson ==
  ASSUME Alone, Sound, LessonInv, NEW h \in Handler, Review(h)
  PROVE  LessonInv'
  <1> PICK j : j = job[h]
    OBVIOUS
  <1>1. /\ j \in Job /\ j.slot \in Slot /\ j.read = session.place /\ session.place.stage \in QuizStage
        /\ IsAsked(session.place, j.slot) /\ j.slot \in LeftInQueue(session.place)
        /\ session.status = "active" /\ words \in [Slot -> WordRow] /\ j.right \in BOOLEAN
        /\ WordsSound /\ RisesOnce /\ AnsweredTell
    BY AnsweringNow DEF Review, Answering
  <1>2. PICK e \in Exercise : session.place.stage = Quiz[e] /\ AskedAt(j.read.stage) = e
    BY <1>1, QuizOf
  <1>3. PICK new : Weighs(j, e, new)
    BY <1>2, ReviewedRow
  <1>4. /\ new.state # "none"
        /\ ~ j.right => Level(new) <= Level(j.weighed)
        /\ Level(new) <= 1 + Base(words[j.slot].word)
        /\ j.right => new.state \in IF \E x \in Exercise : words[j.slot].attempts[x] > 1
                                    THEN {"needs_work"} ELSE {"learning", "learned"}
    BY <1>3, WeighedLevel
  <1>5. UNCHANGED <<session, words>>
    BY <1>3 DEF Weighs
  <1>6. RisesOnce'
    BY <1>1, <1>3, <1>4 DEF RisesOnce, Weighs, Base
  <1>7. \A i \in Slot : progress'[words[i].word].state # "none"
    BY <1>1, <1>3, <1>4 DEF WordsSound, Weighs
  <1>8. ASSUME NEW i \in Slot, words[i].attempts["gap"] = 0
        PROVE  Level(progress'[words[i].word]) <= Base(words[i].word)
    <2>1. CASE i = j.slot
      <3>1. e # "gap"
        BY <1>3, <1>8, <2>1 DEF Weighs, Exercise
      <3>2. progress'[words[i].word] = new /\ Level(new) <= Level(progress[words[i].word])
        BY <1>1, <1>3, <1>4, <2>1, <3>1 DEF Weighs
      <3>3. Level(progress[words[i].word]) <= Base(words[i].word)
        BY <1>1, <1>8 DEF WordsSound
      <3>4. /\ Level(new) \in Nat /\ Level(progress[words[i].word]) \in Nat /\ Base(words[i].word) \in Nat
        <4>1. words[i].word \in Word
          BY <1>1 DEF WordRow
        <4>2. progress[words[i].word] \in Progress /\ progress'[words[i].word] \in Progress
          BY <4>1, ReviewKeeps DEF Sound
        <4> QED BY <3>2, <4>1, <4>2, LevelType, BaseType
      <3> QED BY <3>2, <3>3, <3>4
    <2>2. CASE i # j.slot
      BY <1>1, <1>3, <1>8, <2>2 DEF WordsSound, Weighs
    <2> QED BY <2>1, <2>2
  <1>9. WordsSound'
    BY <1>1, <1>5, <1>6, <1>7, <1>8 DEF WordsSound, Base
  <1>10. CardsFirst'
    <2>1. session'.place.stage # "card"
      BY <1>2, <1>5, StageNames
    <2> QED BY <2>1 DEF CardsFirst
  <1>11. AnsweredTell'
    <2>1. \A i \in Slot \ {j.slot} : Tells(i)' <=> Tells(i)
      BY <1>3 DEF Tells, Weighs
    <2>2. AskedWords' = AskedWords /\ LeftInQueue(session.place)' = LeftInQueue(session.place)
          /\ AskedWords \subseteq Slot
      BY <1>5 DEF AskedWords, LeftInQueue
    <2>3. ReviewMatchesAnswers'
      BY <1>2, <1>5, StageNames DEF ReviewMatchesAnswers
    <2> QED BY <1>1, <1>5, <2>1, <2>2, <2>3 DEF AnsweredTell
  <1>12. Rest'
    BY <1>9, <1>10, <1>11 DEF Rest
  <1>13. Follows(job[h])'
    <2>1. job'[h] = Answered(j)
      BY GoesTo DEF Review
    <2>2. /\ session'.status = "active" /\ j.read = session'.place /\ j.read.stage = Quiz[e]
          /\ IsAsked(j.read, j.slot)
      BY <1>1, <1>2, <1>5
    <2>3. j.right => words'[j.slot].correct[e]
      BY <1>3, <1>5 DEF Weighs
    <2>4. j.right => progress'[words'[j.slot].word].state \in
                       IF \E x \in Exercise : words'[j.slot].attempts[x] > 1 THEN {"needs_work"}
                       ELSE {"learning", "learned"}
      BY <1>3, <1>4, <1>5 DEF Weighs
    <2> QED BY <1>1, <2>1, <2>2, <2>3, <2>4, AnsweredSaves
  <1> QED BY <1>12, <1>13, OneFollows

-----------------------------------------------------------------------------
(* and so always.                                                           *)

LEMMA LessonInit == Init => LessonInv
  <1> SUFFICES ASSUME Init PROVE LessonInv
    OBVIOUS
  <1>1. /\ session.place = NoPlace /\ session.status = "active" /\ progress = Before
        /\ \A i \in Slot : words[i] = FreshRow(Chosen[i])
        /\ \A h \in Handler : job[h] = NoJob
    BY DEF Init
  <1>2. \A i \in Slot : /\ words[i].word = Chosen[i]
                        /\ \A e \in Exercise : words[i].attempts[e] = 0 /\ ~ words[i].correct[e]
    <2>1. \A w : /\ FreshRow(w).word = w
                 /\ \A e \in Exercise : FreshRow(w).attempts[e] = 0 /\ ~ FreshRow(w).correct[e]
      BY DEF FreshRow
    <2> QED BY <1>1, <2>1
  <1>3. /\ \A i, k \in Slot : Chosen[i] = Chosen[k] => i = k
        /\ \A i \in Slot : Chosen[i] \in Word /\ Before[Chosen[i]].state # "none"
    BY Sizes, LearningAssumption DEF LearningAssumption, IsInjective, Range
  <1>4. \A w \in Word : Level(Before[w]) \in Nat /\ Level(Before[w]) <= Base(w)
    BY LearningAssumption, LevelType DEF LearningAssumption, Base, Greater
  <1>5. RisesOnce
    BY <1>1, <1>4, BaseType DEF RisesOnce, Base
  <1>6. WordsSound
    BY <1>1, <1>2, <1>3, <1>4, <1>5 DEF WordsSound
  <1>7. CardsFirst
    BY <1>1, <1>2, <1>4 DEF CardsFirst
  <1>8. session.place.stage = "card"
    BY <1>1 DEF NoPlace, At
  <1>9. AnsweredTell
    BY <1>8, StageNames DEF AnsweredTell, ReviewMatchesAnswers, Exercise
  <1>10. NoJob.pc = "idle"
    BY DoneFields
  <1>11. \A h \in Handler : Follows(job[h])
    BY <1>1, <1>10 DEF Follows, Free, Holding, Sorting, Answering
  <1> QED BY <1>6, <1>7, <1>9, <1>11 DEF LessonInv

LEMMA LessonStep ==
  ASSUME Alone, Sound, LessonInv, [Next]_vars, ~ session.mixed
  PROVE  LessonInv'
  <1>1. CASE Next
    <2> PICK h \in Handler : \/ Step(h)
                             \/ \E via \in Interface : Tap(h, via)
                             \/ FinishSummary(h) \/ Restart(h) \/ Crash(h)
      BY <1>1 DEF Next
    <2>1. CASE Step(h)
      BY <2>1, LoadLesson, SaveLesson, RefreshLesson, RenderLesson, ShowExerciseLesson, MarkLesson,
         KnowLesson, ChooseLesson, ReplaceLesson, StartQuizLesson, ReadWordLesson, RecordLesson,
         WeighLesson, ReviewLesson, FinalizeLesson, OverLesson
      DEF Step
    <2>2. ASSUME NEW via \in Interface, Tap(h, via)
          PROVE  LessonInv'
      <3>1. CASE Show(h, via)
        BY <3>1, TapsOnly
      <3>2. ASSUME NEW i \in Slot, TapOnCard(h, via, i)
            PROVE  LessonInv'
        BY <3>2, TapsOnly, CardsLesson, CardSortedLesson DEF TapOnCard
      <3>3. ASSUME NEW e \in Exercise, ReadyYes(h, via, e)
            PROVE  LessonInv'
        BY <3>3, TapsOnly
      <3>4. ASSUME NEW i \in Slot, NEW right \in BOOLEAN, AnswerTap(h, via, i, right)
            PROVE  LessonInv'
        BY <3>4, AnswerTapLesson
      <3> QED BY <2>2, <3>1, <3>2, <3>3, <3>4 DEF Tap
    <2>3. CASE FinishSummary(h) \/ Restart(h) \/ Crash(h)
      BY <2>3, OverLesson, CrashLesson
    <2> QED BY <2>1, <2>2, <2>3
  <1>2. CASE UNCHANGED vars
    <2>1. UNCHANGED <<session, words, progress, job>>
      BY <1>2 DEF vars
    <2>2. Rest'
      BY <2>1, RestFrame DEF LessonInv, Rest
    <2>3. \A h \in Handler : Follows(job[h])'
      <3> SUFFICES ASSUME NEW h \in Handler PROVE Follows(job[h])'
        OBVIOUS
      <3>1. Follows(job[h])
        BY DEF LessonInv
      <3>2. AskedWords' = AskedWords
        BY <2>1 DEF AskedWords
      <3>3. \A i : Tells(i)' <=> Tells(i)
        BY <2>1 DEF Tells
      <3>4. LeftInQueue(job[h].write)' = LeftInQueue(job[h].write) /\ LeftInQueue(job[h].read)' = LeftInQueue(job[h].read)
        BY <2>1 DEF LeftInQueue
      <3>5. (session' = session) /\ (words' = words) /\ (progress' = progress) /\ (job' = job)
        BY <2>1
      <3>6. Tells(job[h].slot)' <=> Tells(job[h].slot)
        BY <3>5 DEF Tells
      <3>7. QuizIsThrough(job[h].read)' <=> QuizIsThrough(job[h].read)
        BY <3>5 DEF QuizIsThrough
      <3>8. SavesNext(job[h])' <=> SavesNext(job[h])
        BY <3>2, <3>4, <3>5, <3>6, <3>7 DEF SavesNext, PlacesNext
      <3>9. Recorded(job[h])' <=> Recorded(job[h])
        BY <3>5 DEF Recorded, Attempt, Base
      <3>10. IsAsked(job[h].read, job[h].slot)' <=> IsAsked(job[h].read, job[h].slot)
        BY <3>5 DEF IsAsked
      <3> QED BY <3>1, <3>5, <3>7, <3>8, <3>9, <3>10 DEF Follows
    <2> QED BY <2>2, <2>3 DEF LessonInv, Rest
  <1> QED BY <1>1, <1>2

LEMMA LessonAlways ==
  ASSUME Alone
  PROVE  Spec => [](Sound /\ LessonInv /\ ~ session.mixed)
  <1>1. Init => Sound /\ LessonInv /\ ~ session.mixed
    BY TypeInit, LessonInit DEF Init
  <1>2. ASSUME Sound, LessonInv, ~ session.mixed, [Next]_vars
        PROVE  (Sound /\ LessonInv /\ ~ session.mixed)'
    <2>1. session \in Session
      BY <1>2 DEF Sound
    <2>2. ASSUME NEW h \in Handler, Save(h)
          PROVE  session'.mixed = session.mixed
      BY <1>2, <2>1, <2>2, SavesWhole DEF Session
    <2>3. ~ session'.mixed
      BY <1>2, <2>1, <2>2, OnlySaveMixes DEF Session
    <2> QED BY <1>2, <2>3, TypeNext, LessonStep
  <1> QED BY <1>1, <1>2, PTL DEF Spec

\* One handler at a time and cards tapped at the card stage only: at the summary
\* the reviews tell how the words were answered, wherever requests died.
THEOREM ReviewsMatch ==
  ASSUME Alone
  PROVE  Spec => []ReviewMatchesAnswers
  <1>1. LessonInv => ReviewMatchesAnswers
    BY DEF LessonInv, AnsweredTell
  <1> QED BY <1>1, LessonAlways, PTL

\* One handler at a time and cards tapped at the card stage only: a lesson raises
\* the level of a word once, also when the request that reviewed it died and the
\* word was asked again.
THEOREM RiseOnce ==
  ASSUME Alone
  PROVE  Spec => []RisesOnce
  <1>1. LessonInv => RisesOnce
    BY DEF LessonInv, WordsSound
  <1> QED BY <1>1, LessonAlways, PTL

-----------------------------------------------------------------------------
(* The lesson implements Lesson: what the learner is asked changes with the   *)
(* cards, with an answer, and with what is saved of the session.              *)

RightNow == [e \in Exercise |-> {i \in Slot : words[i].correct[e]}]

LessonTakes == [L!Next]_(L!vars)

SameView == UNCHANGED <<Phase, AskedWords, ToAsk, RightNow>>

\* How a place of a lesson that is not given up is seen.
Views ==
  session.status # "cancelled" =>
    /\ session.place.stage = "card" => Phase = "cards" /\ ToAsk = {}
    /\ \A e \in Exercise : session.place.stage = Ready[e] => Phase = e /\ ToAsk = AskedWords
    /\ \A e \in Exercise : session.place.stage = Quiz[e] => Phase = e /\ ToAsk = LeftInQueue(session.place)
    /\ session.place.stage \in {"summary", "completed", "finished"} => Phase = "over" /\ ToAsk = {}

LEMMA PlacesSeen == Views /\ Views'
  <1>1. \A e \in Exercise : /\ Ready[e] \in ReadyStage /\ Quiz[e] \in QuizStage
                            /\ Ready[e] \notin QuizStage /\ Quiz[e] \notin ReadyStage
                            /\ ExerciseOf(Ready[e]) = e /\ ExerciseOf(Quiz[e]) = e
                            /\ Ready[e] # "card" /\ Quiz[e] # "card"
    BY Stages, ExerciseOfStage, StageNames DEF Ready, Quiz, Exercise
  <1>2. /\ "card" \notin ReadyStage \union QuizStage /\ "summary" \notin ReadyStage \union QuizStage
        /\ "completed" \notin ReadyStage \union QuizStage /\ "finished" \notin ReadyStage \union QuizStage
    BY Stages
  <1>3. Views
    BY <1>1, <1>2 DEF Views, Phase, ToAsk
  <1>4. Views'
    BY <1>1, <1>2 DEF Views, Phase, ToAsk
  <1> QED BY <1>3, <1>4

LEMMA SameTakes ==
  ASSUME SameView
  PROVE  LessonTakes
  BY DEF SameView, LessonTakes, L!vars, RightNow

LEMMA UntouchedTakes ==
  ASSUME UNCHANGED <<session, words>>
  PROVE  LessonTakes
  <1>1. SameView
    BY DEF SameView, Phase, ToAsk, AskedWords, LeftInQueue, RightNow
  <1> QED BY <1>1, SameTakes

\* What is left to ask, of all that is known and that was answered right.
LEMMA AskedAre ==
  /\ AskedWords \subseteq Slot /\ L!ToAsk = AskedWords
  /\ L!Exercise = Exercise /\ RightNow \in [Exercise -> SUBSET Slot]
  /\ \A e \in Exercise, i \in Slot : i \in RightNow[e] <=> words[i].correct[e]
  BY DEF AskedWords, L!ToAsk, L!Exercise, Exercise, RightNow

LEMMA SaveTakes ==
  ASSUME Sound, LessonInv, NEW h \in Handler, Save(h), ~ session.mixed
  PROVE  LessonTakes
  <1> DEFINE j == job[h]
  <1>1. /\ j \in Job /\ SavesNext(j) /\ j.read = session.place /\ session.status = "active"
        /\ session \in Session /\ session.place \in Place
    BY Present DEF Save, Follows, Holding, Free
  <1>2. session'.place = j.write /\ session'.status = "active" /\ words' = words
    BY <1>1, SavesWhole DEF Save, Session
  <1>3. AskedWords' = AskedWords /\ RightNow' = RightNow /\ LeftInQueue(session.place)' = LeftInQueue(j.write)
    BY <1>2 DEF AskedWords, RightNow, LeftInQueue
  <1> HIDE DEF j
  <1>4. CASE j.read.stage = "card" /\ j.write.stage = "card"
    <2>1. SameView
      BY <1>1, <1>2, <1>3, <1>4, PlacesSeen DEF SameView, Views
    <2> QED BY <2>1, SameTakes
  <1>5. CASE j.read.stage = "card" /\ j.write.stage = Ready["en_uk"]
    <2>1. Phase = "cards" /\ Phase' = "en_uk" /\ ToAsk' = AskedWords
      BY <1>1, <1>2, <1>3, <1>5, PlacesSeen DEF Views, Exercise
    <2>2. L!BeginExercises
      BY <1>3, <2>1, AskedAre DEF L!BeginExercises, RightNow
    <2> QED BY <2>2 DEF LessonTakes, L!Next
  <1>6. ASSUME NEW e \in Exercise, j.read.stage = Ready[e], j.write.stage = Quiz[e],
               LeftInQueue(j.write) = AskedWords
        PROVE  LessonTakes
    <2>1. SameView
      BY <1>1, <1>2, <1>3, <1>6, PlacesSeen DEF SameView, Views
    <2> QED BY <2>1, SameTakes
  <1>7. ASSUME NEW e \in {"en_uk", "uk_en"}, j.read.stage = Quiz[e], QuizIsThrough(j.read),
               j.write.stage = NextReady[e]
        PROVE  LessonTakes
    <2>1. L!Following[e] \in Exercise /\ NextReady[e] = Ready[L!Following[e]] /\ e \in Exercise
      BY DEF L!Following, NextReady, Ready, Exercise
    <2>2. Phase = e /\ ToAsk = {} /\ Phase' = L!Following[e] /\ ToAsk' = AskedWords
      BY <1>1, <1>2, <1>3, <1>7, <2>1, LeftThrough, PlacesSeen DEF Views
    <2>3. L!NextExercise
      BY <1>3, <2>2, AskedAre DEF L!NextExercise, RightNow
    <2> QED BY <2>3 DEF LessonTakes, L!Next
  <1>8. ASSUME NEW e \in Exercise, j.read.stage = Quiz[e], j.write.stage = Quiz[e]
        PROVE  Phase = e /\ ToAsk = LeftInQueue(j.read) /\ Phase' = e /\ ToAsk' = LeftInQueue(j.write)
    BY <1>1, <1>2, <1>3, <1>8, PlacesSeen DEF Views
  <1>9. ASSUME NEW e \in Exercise, j.read.stage = Quiz[e], j.write.stage = Quiz[e],
               LeftInQueue(j.write) = LeftInQueue(j.read)
        PROVE  LessonTakes
    <2>1. SameView
      BY <1>3, <1>8, <1>9 DEF SameView
    <2> QED BY <2>1, SameTakes
  <1>10. ASSUME NEW e \in Exercise, j.read.stage = Quiz[e], j.write.stage = Quiz[e],
                j.slot \in LeftInQueue(j.read),
                LeftInQueue(j.write) = LeftInQueue(j.read) \ {j.slot}, words[j.slot].correct[e]
         PROVE  LessonTakes
    <2>1. j.slot \in Slot
      <3>1. LeftInQueue(session.place) \subseteq Slot
        BY <1>1 DEF LeftInQueue, Place
      <3> QED BY <1>1, <1>10, <3>1
    <2>2. j.slot \in RightNow[e]
      BY <1>10, <2>1, AskedAre
    <2>3. L!DoneWith(j.slot)
      BY <1>3, <1>8, <1>10, <2>2, AskedAre DEF L!DoneWith, RightNow
    <2> QED BY <2>1, <2>3 DEF LessonTakes, L!Next
  <1>11. CASE /\ j.read.stage = Quiz["gap"] /\ QuizIsThrough(j.read)
              /\ j.write.stage = "summary"
    <2>1. Phase = "gap" /\ ToAsk = {} /\ Phase' = "over" /\ ToAsk' = {}
      BY <1>1, <1>2, <1>11, LeftThrough, PlacesSeen DEF Views, Exercise
    <2>2. L!Finish
      BY <1>3, <2>1 DEF L!Finish, RightNow
    <2> QED BY <2>2 DEF LessonTakes, L!Next
  <1> QED BY <1>1, <1>4, <1>5, <1>6, <1>7, <1>9, <1>10, <1>11 DEF SavesNext, PlacesNext

LEMMA MarkTakes ==
  ASSUME Sound, LessonInv, NEW h \in Handler, Mark(h)
  PROVE  LessonTakes
  <1> PICK i : i = job[h].slot
    OBVIOUS
  <1>1. /\ i \in Slot /\ session.status = "active" /\ session.place.stage = "card"
        /\ words \in [Slot -> WordRow]
    BY SortingNow DEF Mark, Sorting
  <1>2. /\ \A k \in Slot : words'[k].correct = words[k].correct
        /\ \A k \in Slot \ {i} : words'[k] = words[k]
        /\ UNCHANGED session
    BY <1>1 DEF Mark, WordRow
  <1>3. RightNow' = RightNow
    BY <1>2 DEF RightNow
  <1>4. Phase = "cards" /\ Phase' = "cards" /\ ToAsk = {} /\ ToAsk' = {}
    BY <1>1, <1>2, PlacesSeen DEF Views
  <1>5. (Slot \ AskedWords)' \in {(Slot \ AskedWords) \union {i}, (Slot \ AskedWords) \ {i}}
    <2>1. \A k \in Slot \ {i} : k \in AskedWords' <=> k \in AskedWords
      BY <1>2 DEF AskedWords
    <2> QED BY <1>1, <2>1
  <1>6. L!SortCard(i)
    BY <1>3, <1>4, <1>5 DEF L!SortCard, RightNow
  <1> QED BY <1>1, <1>6 DEF LessonTakes, L!Next

LEMMA ReplaceTakes ==
  ASSUME Sound, LessonInv, NEW h \in Handler, Replace(h)
  PROVE  LessonTakes
  <1> PICK i : i = job[h].slot
    OBVIOUS
  <1>1. /\ i \in Slot /\ session.status = "active" /\ session.place.stage = "card"
        /\ words \in [Slot -> WordRow] /\ CardsFirst /\ UNCHANGED session
    BY SortingNow DEF Replace, Sorting
  <1>2. PICK w : job[h].word = FreshRow(w)
    BY Present DEF Replace, Follows
  <1>3. \A k \in Slot : words'[k] = IF k = i THEN FreshRow(w) ELSE words[k]
    BY <1>1, <1>2 DEF Replace
  <1>4. \A e \in Exercise : ~ FreshRow(w).correct[e]
    BY DEF FreshRow
  <1>5. \A k \in Slot, e \in Exercise : ~ words'[k].correct[e] /\ ~ words[k].correct[e]
    BY <1>1, <1>3, <1>4 DEF CardsFirst
  <1>6. RightNow' = RightNow
    BY <1>5 DEF RightNow
  <1>7. Phase = "cards" /\ Phase' = "cards" /\ ToAsk = {} /\ ToAsk' = {}
    BY <1>1, PlacesSeen DEF Views
  <1>8. (Slot \ AskedWords)' \in {(Slot \ AskedWords) \union {i}, (Slot \ AskedWords) \ {i}}
    <2>1. \A k \in Slot \ {i} : k \in AskedWords' <=> k \in AskedWords
      BY <1>3 DEF AskedWords
    <2> QED BY <1>1, <2>1
  <1>9. L!SortCard(i)
    BY <1>6, <1>7, <1>8 DEF L!SortCard, RightNow
  <1> QED BY <1>1, <1>9 DEF LessonTakes, L!Next

LEMMA RecordTakes ==
  ASSUME Sound, LessonInv, NEW h \in Handler, Record(h)
  PROVE  LessonTakes
  <1> PICK j : j = job[h]
    OBVIOUS
  <1>1. /\ j.slot \in Slot /\ j.read = session.place /\ session.place.stage \in QuizStage
        /\ j.slot \in LeftInQueue(session.place) /\ session.status = "active" /\ j.right \in BOOLEAN
    BY AnsweringNow DEF Record, Answering
  <1>2. PICK e \in Exercise : session.place.stage = Quiz[e] /\ AskedAt(j.read.stage) = e
    BY <1>1, QuizOf
  <1>3. Writes(j, e)
    BY <1>2, RecordedRow
  <1>4. AskedWords' = AskedWords /\ UNCHANGED session
    BY <1>3 DEF Writes, AskedWords
  <1>5. Phase = e /\ Phase' = e /\ ToAsk = LeftInQueue(session.place) /\ ToAsk' = LeftInQueue(session.place)
    <2>1. LeftInQueue(session.place)' = LeftInQueue(session.place)
      BY <1>4 DEF LeftInQueue
    <2> QED BY <1>1, <1>2, <1>4, <2>1, PlacesSeen DEF Views
  <1> DEFINE s == {i \in Slot : words'[i].correct[e]}
  <1>6. s \in {RightNow[e] \union {j.slot}, RightNow[e] \ {j.slot}}
    <2>1. \A i \in Slot \ {j.slot} : i \in s <=> i \in RightNow[e]
      BY <1>3, AskedAre DEF Writes
    <2>2. RightNow[e] \subseteq Slot
      BY AskedAre
    <2> QED BY <1>1, <2>1, <2>2
  <1>7. RightNow' = [RightNow EXCEPT ![e] = s]
    <2>1. \A x \in Exercise \ {e} : {i \in Slot : words'[i].correct[x]} = {i \in Slot : words[i].correct[x]}
      <3>1. \A x \in Exercise \ {e} : words'[j.slot].correct[x] = words[j.slot].correct[x]
        BY <1>3 DEF Writes
      <3>2. \A i \in Slot \ {j.slot} : words'[i] = words[i]
        BY <1>3 DEF Writes
      <3>3. \A x \in Exercise \ {e}, i \in Slot : words'[i].correct[x] = words[i].correct[x]
        BY <3>1, <3>2
      <3> QED BY <3>3
    <2> QED BY <2>1 DEF RightNow
  <1> HIDE DEF s
  <1>8. L!Answer(j.slot)
    BY <1>1, <1>4, <1>5, <1>6, <1>7, AskedAre DEF L!Answer, RightNow
  <1> QED BY <1>1, <1>8 DEF LessonTakes, L!Next

LEMMA OverTakes ==
  ASSUME Sound, LessonInv, NEW h \in Handler, Complete(h) \/ FinishSummary(h) \/ Restart(h)
  PROVE  LessonTakes
  <1>1. session \in Session /\ session.place \in Place /\ words' = words
    BY Present DEF Complete, FinishSummary, Restart
  <1>2. AskedWords' = AskedWords /\ RightNow' = RightNow
    BY <1>1 DEF AskedWords, RightNow
  <1>3. CASE Complete(h) \/ FinishSummary(h)
    <2>1. Complete(h) => session.place.stage = "summary" /\ session.status = "active"
      BY Present DEF Complete, Follows, Free
    <2>2. /\ session.place.stage \in {"summary", "completed"} /\ session.status # "cancelled"
          /\ session'.place.stage \in {"completed", "finished"} /\ session'.status # "cancelled"
      <3>1. CASE Complete(h)
        BY <1>1, <2>1, <3>1 DEF Complete, Session, Place
      <3>2. CASE FinishSummary(h)
        BY <1>1, <3>2 DEF FinishSummary, Session, Place
      <3> QED BY <1>3, <3>1, <3>2
    <2>3. Phase = "over" /\ ToAsk = {} /\ Phase' = "over" /\ ToAsk' = {}
      BY <2>2, PlacesSeen DEF Views
    <2> QED BY <1>2, <2>3, SameTakes DEF SameView
  <1>4. CASE Restart(h)
    <2>1. session'.status = "cancelled" /\ session'.place = session.place
      BY <1>1, <1>4 DEF Restart, Session
    <2>2. Phase' = "cancelled"
      BY <2>1 DEF Phase
    <2>3. ToAsk' = ToAsk
      BY <1>2, <2>1 DEF ToAsk, LeftInQueue
    <2>4. L!Cancel
      BY <1>2, <2>2, <2>3 DEF L!Cancel, RightNow
    <2> QED BY <2>4 DEF LessonTakes, L!Next
  <1> QED BY <1>3, <1>4

LEMMA LessonStarts == Init => L!Init
  <1> SUFFICES ASSUME Init PROVE L!Init
    OBVIOUS
  <1>1. /\ session.place.stage = "card" /\ session.status = "active"
        /\ \A i \in Slot : words[i] = FreshRow(Chosen[i])
    BY DEF Init, NoPlace, At
  <1>2. \A w : FreshRow(w).card = "pending" /\ \A e \in Exercise : ~ FreshRow(w).correct[e]
    BY DEF FreshRow
  <1>3. Phase = "cards" /\ ToAsk = {}
    BY <1>1, PlacesSeen DEF Views
  <1>4. Slot \ AskedWords = {}
    BY <1>1, <1>2 DEF AskedWords
  <1>5. RightNow = [e \in Exercise |-> {}]
    BY <1>1, <1>2 DEF RightNow
  <1> QED BY <1>3, <1>4, <1>5, AskedAre DEF L!Init, RightNow

LEMMA LessonGoesOn ==
  ASSUME Alone, Sound, LessonInv, [Next]_vars, ~ session.mixed
  PROVE  LessonTakes
  <1>1. CASE Next
    <2> PICK h \in Handler : \/ Step(h)
                             \/ \E via \in Interface : Tap(h, via)
                             \/ FinishSummary(h) \/ Restart(h) \/ Crash(h)
      BY <1>1 DEF Next
    <2>1. CASE Save(h) \/ Mark(h) \/ Replace(h) \/ Record(h)
      BY <2>1, SaveTakes, MarkTakes, ReplaceTakes, RecordTakes
    <2>2. CASE Complete(h) \/ FinishSummary(h) \/ Restart(h)
      BY <2>2, OverTakes
    <2>3. CASE \/ Load(h) \/ Refresh(h) \/ Render(h) \/ ShowExercise(h)
               \/ Know(h) \/ Choose(h) \/ StartQuiz(h)
               \/ ReadWord(h) \/ Weigh(h) \/ Review(h) \/ Finalize(h) \/ Crash(h)
      BY <2>3, UntouchedTakes DEF Load, Refresh, Render, ShowExercise, Know, Choose, StartQuiz, ReadWord,
                                  Weigh, Review, Finalize, Crash
    <2>4. ASSUME NEW via \in Interface, Tap(h, via)
          PROVE  LessonTakes
      BY <2>4, UntouchedTakes
      DEF Tap, TapOnCard, Show, IgnoredCard, CardBack, CardQuiz, CardSorted, ReadyYes, AnswerTap
    <2> QED BY <2>1, <2>2, <2>3, <2>4 DEF Step
  <1>2. CASE UNCHANGED vars
    BY <1>2, UntouchedTakes DEF vars
  <1> QED BY <1>1, <1>2

\* One handler at a time and cards tapped at the card stage only: the session
\* and its words implement Lesson, so that every word that is not put aside is
\* asked in all three exercises, and again until its last answer was right,
\* wherever between its transactions a request dies.
THEOREM LessonImplemented ==
  ASSUME Alone
  PROVE  Spec => LessonKept
  <1>1. Sound /\ LessonInv /\ ~ session.mixed /\ [Next]_vars => LessonTakes
    BY LessonGoesOn
  <1> QED BY <1>1, LessonStarts, LessonAlways, PTL DEF Spec, LessonTakes, LessonKept, L!Spec

=============================================================================

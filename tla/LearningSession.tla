---------------------------- MODULE LearningSession ----------------------------
(* One lesson of a learner: cards, then the exercises en_uk, uk_en and gap,  *)
(* then the summary.  The lesson is a learning_session row with its           *)
(* learning_session_word rows; every tap, from the bot or the web client, is  *)
(* served by a handler that reads the row once and then runs a transaction    *)
(* per call of a repository.  What the lesson teaches goes to the assignment  *)
(* of each word (user_word_assignment), which schedules its next review.      *)
EXTENDS Integers, Sequences, FiniteSets, Functions

CONSTANTS
  Handler,      \* threads of app-api that serve this learner
  Word,         \* dictionary words
  Chosen,       \* the words the lesson starts with, in order
  Before,       \* their assignments when it starts
  LateCards,    \* whether a card may be tapped after the cards were left
  MaxWrong,     \* bound, by exercise, on the attempts before a wrong answer
  MaxCrashes    \* bound on the requests that die half-way

Size == Len(Chosen)
Slot == 1 .. Size
Exercise == {"en_uk", "uk_en", "gap"}
Interface == {"bot", "web"}
MaxStage == 5                              \* len(SRS_REVIEW_INTERVAL_DAYS)

\* An assignment; "none" is a word without one.
Progress == [state: {"none", "learning", "needs_work", "learned"},
             stage: 0 .. MaxStage, streak: 0 .. MaxStage]

ASSUME LearningAssumption ==
  /\ Chosen \in Seq(Word) /\ Chosen # <<>> /\ IsInjective(Chosen)
  /\ Before \in [Word -> Progress]
  /\ \A w \in Range(Chosen) : Before[w].state # "none"
  /\ LateCards \in BOOLEAN
  /\ MaxWrong \in [Exercise -> Nat] /\ MaxCrashes \in Nat

VARIABLES
  session,    \* the learning_session row
  words,      \* its learning_session_word rows, in item_order
  progress,   \* user_word_assignment, by word
  job,        \* what each handler is at
  crashes

vars == <<session, words, progress, job, crashes>>

-----------------------------------------------------------------------------
(* Stages.                                                                  *)

Ready == [en_uk |-> "ready_en_uk", uk_en |-> "ready_uk_en", gap |-> "ready_gap"]
Quiz == [en_uk |-> "quiz_en_uk", uk_en |-> "quiz_uk_en", gap |-> "quiz_gap"]
NextReady == [en_uk |-> "ready_uk_en", uk_en |-> "ready_gap"]

ReadyStage == Range(Ready)
QuizStage == Range(Quiz)
Stage == {"card", "summary", "completed", "finished"} \union ReadyStage \union QuizStage

ExerciseOf(stage) == CHOOSE e \in Exercise : stage \in {Ready[e], Quiz[e]}

\* build_quiz_payload asks to fill the gap at whatever other stage.
AskedAt(stage) ==
  IF stage \in {Quiz["en_uk"], Quiz["uk_en"]} THEN ExerciseOf(stage) ELSE "gap"

\* Rows.  Positions count from 0, as in the code.
Place == [stage: Stage, queue: Seq(Slot), position: Nat]
At(stage, queue, position) ==
  [stage |-> stage, queue |-> queue, position |-> position]

Session == [status: {"active", "completed", "cancelled"},
            kind: {"regular", "followup"}, place: Place,
            mixed: BOOLEAN]    \* auxiliary: a save has kept a column of another's

WordRow == [word: Word, card: {"pending", "next", "known"},
            attempts: [Exercise -> Nat], correct: [Exercise -> BOOLEAN]]

FreshRow(w) == [word |-> w, card |-> "pending",
                attempts |-> [e \in Exercise |-> 0],
                correct |-> [e \in Exercise |-> FALSE]]

\* A handler: the row it has read, the tap it serves, the update it prepares.
Free == {"idle", "failed"}
Job == [pc: Free \union {"mark", "know", "choose", "replace", "start", "answer",
                         "record", "weigh", "review", "save", "flush", "refresh",
                         "render", "exercise", "finalize", "complete"},
        via: Interface,        \* who asked
        user: BOOLEAN,         \* the row carries the user's id
        read: Place,           \* the row as read
        slot: Nat,             \* the word tapped
        card: {"next", "known"}, right: BOOLEAN,    \* the tap
        word: WordRow, seen: SUBSET Word,           \* read later
        weighed: Progress, control: BOOLEAN,
        write: Place, loaded: Place,
        then: {"idle", "done", "refresh", "complete"}]

-----------------------------------------------------------------------------
(* Reviews (progress.py).                                                   *)

NoProgress == [state |-> "none", stage |-> 0, streak |-> 0]
NewProgress == [NoProgress EXCEPT !.state = "learning"]

Greater(a, b) == IF a > b THEN a ELSE b
Level(p) == Greater(p.stage, p.streak)
NextReviewStage(p) == IF Level(p) < MaxStage THEN Level(p) + 1 ELSE MaxStage

\* is_due_control_review; whether next_review_at has passed is left to the clock.
MayBeControlReview(p) == p.state \in {"learning", "needs_work"}

\* A mutant: the second exercise forgotten.
HadErrorsNotUkEn(row, gapAttempts) == row.attempts["en_uk"] > 1 \/ gapAttempts > 1

HadErrors(row, gapAttempts) ==
  row.attempts["en_uk"] > 1 \/ row.attempts["uk_en"] > 1 \/ gapAttempts > 1

\* LearningProgressRepository.update: the row is created when it is missing.
Existing(p) == IF p.state = "none" THEN NewProgress ELSE p

MarkedKnown(p) == [Existing(p) EXCEPT !.state = "learned", !.streak = 2]

\* build_regular_session_word_progress_update, from the progress that was read.
Reviewed(p, weighed, row, gapAttempts) ==
  IF HadErrors(row, gapAttempts)
  THEN [Existing(p) EXCEPT !.state = "needs_work", !.streak = 0,
                           !.stage = Greater(weighed.stage - 1, 0)]
  ELSE LET stage == NextReviewStage(weighed)
       IN [state |-> IF stage = MaxStage THEN "learned" ELSE "learning",
           stage |-> stage, streak |-> stage]

\* build_wrong_quiz_answer_progress_update.
AfterWrong(p, control, attempts) ==
  IF attempts = 1 /\ ~ control THEN p
  ELSE [Existing(p) EXCEPT !.state = "needs_work", !.streak = IF control THEN 0 ELSE @]

-----------------------------------------------------------------------------
NoPlace == At("card", <<>>, 0)
NoJob == [pc |-> "idle", via |-> "bot", user |-> FALSE, read |-> NoPlace,
          slot |-> 0, card |-> "next", right |-> FALSE,
          word |-> FreshRow(Chosen[1]), seen |-> {},
          weighed |-> NoProgress, control |-> FALSE,
          write |-> NoPlace, loaded |-> NoPlace, then |-> "idle"]

Init ==
  /\ session \in [status: {"active"}, kind: {"regular", "followup"}, place: {NoPlace},
                  mixed: {FALSE}]
  /\ words = [i \in Slot |-> FreshRow(Chosen[i])]
  /\ progress = Before
  /\ job = [h \in Handler |-> NoJob]
  /\ crashes = 0

-----------------------------------------------------------------------------
(* Steps of a handler.                                                      *)

Goes(h, j) == job' = [job EXCEPT ![h] = j]
To(j, pc) == [j EXCEPT !.pc = pc]

\* update_session_state comes next, and after it the step named.
Saving(j, place, then) == [To(j, "save") EXCEPT !.write = place, !.then = then]

\* The bot sends the screen; a web handler reads the session once more for the
\* state it returns (_session_state).
Done(j) == IF j.via = "bot" THEN NoJob ELSE [NoJob EXCEPT !.pc = "exercise", !.via = "web"]

\* The handler raises: a row from get_active_session names no user.
Raises == [NoJob EXCEPT !.pc = "failed"]

\* A tap is served when the user's newest session is active (get_active_session);
\* the bot attaches the user's id to the row.
Serving(h, via) ==
  [NoJob EXCEPT !.pc = "render", !.via = via, !.user = (via = "bot"),
                !.read = session.place]

IsServed(h) == job[h].pc \in Free /\ session.status = "active"

\* update_session_state loads the row, and its commit updates the columns that
\* have changed since: of the others it keeps what is there by then.
Load(h) ==
  /\ job[h].pc = "save"
  /\ Goes(h, [To(job[h], "flush") EXCEPT !.loaded = session.place])
  /\ UNCHANGED <<session, words, progress, crashes>>

Column(now, loaded, write) == IF write # loaded THEN write ELSE now

Saved(now, loaded, write) ==
  At(Column(now.stage, loaded.stage, write.stage),
     Column(now.queue, loaded.queue, write.queue),
     Column(now.position, loaded.position, write.position))

Save(h) ==
  LET place == Saved(session.place, job[h].loaded, job[h].write)
  IN /\ job[h].pc = "flush"
     /\ session' = [session EXCEPT !.place = place, !.mixed = @ \/ place # job[h].write]
     /\ Goes(h, CASE job[h].then \in {"refresh", "complete"} -> To(job[h], job[h].then)
                  [] job[h].then = "done" -> Done(job[h])
                  [] job[h].then = "idle" -> NoJob)
     /\ UNCHANGED <<words, progress, crashes>>

Refresh(h) ==
  /\ job[h].pc = "refresh"
  /\ Goes(h, IF session.status = "active"
             THEN [To(job[h], "render") EXCEPT !.read = session.place]
             ELSE IF job[h].user THEN Raises ELSE Done(job[h]))
  /\ UNCHANGED <<session, words, progress, crashes>>

QuizIsThrough(place) ==
  place.stage \in QuizStage /\ place.position >= Len(place.queue)

\* The end of an exercise: the next one is offered, or the lesson completed.
LeavesQuiz(j, then) ==
  IF j.read.stage = Quiz["gap"] THEN To(j, "finalize")
  ELSE Saving(j, At(NextReady[ExerciseOf(j.read.stage)], <<>>, 0), then)

\* render_session_screen on the row that was read.
Render(h) ==
  LET j == job[h]
  IN /\ j.pc = "render"
     /\ Goes(h, CASE j.read.stage = "card" /\ j.read.position >= Size ->
                       Saving(j, At(Ready["en_uk"], <<>>, 0), "done")
                  [] j.read.stage \in QuizStage /\ ~ j.user -> Raises
                  [] QuizIsThrough(j.read) /\ j.user -> LeavesQuiz(j, "done")
                  [] OTHER -> Done(j))
     /\ UNCHANGED <<session, words, progress, crashes>>

\* _exercise: the state a web handler returns.
ShowExercise(h) ==
  /\ job[h].pc = "exercise"
  /\ Goes(h, IF session.status = "active" /\ QuizIsThrough(session.place)
             THEN LeavesQuiz([job[h] EXCEPT !.read = session.place], "idle")
             ELSE NoJob)
  /\ UNCHANGED <<session, words, progress, crashes>>

-----------------------------------------------------------------------------
(* Taps that only show the session: "next", resume, a web page that loads.  *)

Show(h, via) ==
  /\ IsServed(h)
  /\ Goes(h, IF via = "bot" THEN Serving(h, via) ELSE Done(Serving(h, via)))
  /\ UNCHANGED <<session, words, progress, crashes>>

-----------------------------------------------------------------------------
(* Cards (card_action_service.py).                                          *)

\* Any card may be tapped whose place is the position of the session, of
\* whichever stage; the row of the word and the list of words are read next.
IsCurrentCard(i) == session.place.position < Size /\ i = session.place.position + 1

TapsCard(h) == IsServed(h) /\ (LateCards \/ session.place.stage = "card")

IgnoredCard(h, via, i) ==
  /\ TapsCard(h) /\ ~ IsCurrentCard(i)
  /\ Goes(h, Serving(h, via))
  /\ UNCHANGED <<session, words, progress, crashes>>

\* A mutant: back from the first card.
CardBackUnbounded(h, via, i) ==
  /\ TapsCard(h) /\ IsCurrentCard(i)
  /\ Goes(h, Saving([Serving(h, via) EXCEPT !.user = FALSE],
                    At("card", <<>>, session.place.position - 1), "refresh"))
  /\ UNCHANGED <<session, words, progress, crashes>>

CardBack(h, via, i) ==
  /\ TapsCard(h) /\ IsCurrentCard(i)
  /\ Goes(h, Saving([Serving(h, via) EXCEPT !.user = FALSE],
                    At("card", <<>>, Greater(session.place.position - 1, 0)), "refresh"))
  /\ UNCHANGED <<session, words, progress, crashes>>

CardQuiz(h, via, i) ==
  /\ TapsCard(h) /\ IsCurrentCard(i)
  /\ Goes(h, Saving(Serving(h, via), At(Ready["en_uk"], <<>>, Size), "done"))
  /\ UNCHANGED <<session, words, progress, crashes>>

CardSorted(h, via, i, status) ==
  /\ TapsCard(h) /\ IsCurrentCard(i)
  /\ Goes(h, [To(Serving(h, via), "mark") EXCEPT !.user = FALSE, !.slot = i,
                 !.card = status, !.word = words[i],
                 !.seen = {words[k].word : k \in Slot}])
  /\ UNCHANGED <<session, words, progress, crashes>>

GoesOn(j) == Saving(j, At("card", <<>>, j.read.position + 1), "refresh")

Mark(h) ==
  /\ job[h].pc = "mark"
  /\ words' = [words EXCEPT ![job[h].slot].card = job[h].card]
  /\ Goes(h, IF job[h].card = "known" THEN To(job[h], "know") ELSE GoesOn(job[h]))
  /\ UNCHANGED <<session, progress, crashes>>

Know(h) ==
  /\ job[h].pc = "know"
  /\ progress' = [progress EXCEPT ![job[h].word.word] = MarkedKnown(@)]
  /\ Goes(h, IF session.kind = "regular" THEN To(job[h], "choose") ELSE GoesOn(job[h]))
  /\ UNCHANGED <<session, words, crashes>>

\* select_next_lesson_word, for which an unknown word may be too recent and which
\* assigns a fresh one.
Choose(h) ==
  /\ job[h].pc = "choose"
  /\ \/ \E w \in Word \ job[h].seen :
          /\ progress[w].state # "learned"
          /\ progress' = [progress EXCEPT ![w] = Existing(@)]
          /\ Goes(h, [To(job[h], "replace") EXCEPT !.word = FreshRow(w)])
     \/ UNCHANGED progress /\ Goes(h, GoesOn(job[h]))
  /\ UNCHANGED <<session, words, crashes>>

\* replace_session_word.
Replace(h) ==
  /\ job[h].pc = "replace"
  /\ words' = [words EXCEPT ![job[h].slot] = job[h].word]
  /\ Goes(h, Saving(job[h], At("card", <<>>, job[h].read.position), "refresh"))
  /\ UNCHANGED <<session, progress, crashes>>

-----------------------------------------------------------------------------
(* "Ready?" (ready_action_service.py, start_next_stage).                    *)

ReadyYes(h, via, e) ==
  /\ IsServed(h)
  /\ Goes(h, IF session.place.stage = Ready[e] THEN To(Serving(h, via), "start")
             ELSE Serving(h, via))
  /\ UNCHANGED <<session, words, progress, crashes>>

Shuffled(S) == Bijection(1 .. Cardinality(S), S)

AskedWords == {i \in Slot : words[i].card # "known"}

StartQuiz(h) ==
  LET e == ExerciseOf(job[h].read.stage)
  IN /\ job[h].pc = "start"
     /\ \E queue \in Shuffled(AskedWords) :
          Goes(h, Saving([job[h] EXCEPT !.user = TRUE], At(Quiz[e], queue, 0), "refresh"))
     /\ UNCHANGED <<session, words, progress, crashes>>

-----------------------------------------------------------------------------
(* Answers (handle_answer).                                                 *)

IsAsked(place, i) ==
  place.position < Len(place.queue) /\ place.queue[place.position + 1] = i

AnswerTap(h, via, i, right) ==
  /\ IsServed(h)
  /\ IsAsked(session.place, i) /\ ~ right =>
       LET e == AskedAt(session.place.stage)
       IN words[i].attempts[e] < MaxWrong[e]
  /\ Goes(h, IF IsAsked(session.place, i)
             THEN [To(Serving(h, via), "answer") EXCEPT !.slot = i, !.right = right]
             ELSE [To(Serving(h, via), "refresh") EXCEPT !.user = FALSE])
  /\ UNCHANGED <<session, words, progress, crashes>>

ReadWord(h) ==
  /\ job[h].pc = "answer"
  /\ Goes(h, [To(job[h], "record") EXCEPT !.word = words[job[h].slot]])
  /\ UNCHANGED <<session, words, progress, crashes>>

\* A mutant: a wrong answer is not asked again.
AnsweredOnce(j) ==
  Saving(j, At(j.read.stage, j.read.queue, j.read.position + 1), "done")

\* A wrong answer puts the word at the end of the queue.
Answered(j) ==
  Saving(j, At(j.read.stage,
               IF j.right THEN j.read.queue ELSE Append(j.read.queue, j.slot),
               j.read.position + 1), "done")

\* A mutant: the attempt is counted in the queue instead of the row.
AttemptInQueue(j) ==
  Cardinality({k \in 1 .. j.read.position + 1 : j.read.queue[k] = j.slot})

Attempt(j) == j.word.attempts[AskedAt(j.read.stage)] + 1

\* record_answer and update_exercise_result.
Record(h) ==
  LET j == job[h]  e == AskedAt(j.read.stage)
  IN /\ j.pc = "record"
     /\ words' = [words EXCEPT ![j.slot].attempts[e] = Attempt(j),
                               ![j.slot].correct[e] = j.right]
     /\ Goes(h, IF session.kind = "regular" /\ (e = "gap" \/ ~ j.right)
                THEN To(j, "weigh") ELSE Answered(j))
     /\ UNCHANGED <<session, progress, crashes>>

Weigh(h) ==
  LET weighed == progress[job[h].word.word]
  IN /\ job[h].pc = "weigh"
     /\ \E control \in BOOLEAN :
          /\ control => MayBeControlReview(weighed)
          /\ Goes(h, [To(job[h], "review") EXCEPT !.weighed = weighed, !.control = control])
     /\ UNCHANGED <<session, words, progress, crashes>>

Review(h) ==
  LET j == job[h]
  IN /\ j.pc = "review"
     /\ progress' = [progress EXCEPT ![j.word.word] =
          IF j.right THEN Reviewed(@, j.weighed, j.word, Attempt(j))
          ELSE AfterWrong(@, j.control, Attempt(j))]
     /\ Goes(h, Answered(j))
     /\ UNCHANGED <<session, words, crashes>>

-----------------------------------------------------------------------------
(* Completion (session_completion_service.py).                              *)

\* A word answered right whose review was lost is reviewed now; then the summary
\* is saved.
Finalize(h) ==
  LET lost == {i \in Slot : words[i].correct["gap"] /\ progress[words[i].word].state = "none"}
      row(w) == words[CHOOSE i \in lost : words[i].word = w]
  IN /\ job[h].pc = "finalize"
     /\ progress' = [w \in Word |->
          IF session.kind = "regular" /\ w \in {words[i].word : i \in lost}
          THEN Reviewed(progress[w], progress[w], row(w), Greater(row(w).attempts["gap"], 1))
          ELSE progress[w]]
     /\ Goes(h, Saving(job[h], At("summary", <<>>, 0), "complete"))
     /\ UNCHANGED <<session, words, crashes>>

\* A mutant: the status is forgotten.
CompleteStage(h) ==
  /\ job[h].pc = "complete"
  /\ session' = [session EXCEPT !.place.stage = "completed"]
  /\ Goes(h, NoJob)
  /\ UNCHANGED <<words, progress, crashes>>

Complete(h) ==
  /\ job[h].pc = "complete"
  /\ session' = [session EXCEPT !.status = "completed", !.place.stage = "completed"]
  /\ Goes(h, NoJob)
  /\ UNCHANGED <<words, progress, crashes>>

\* finish_completed_summary, of a web client that closes the summary.
FinishSummary(h) ==
  /\ job[h].pc \in Free
  /\ session.status = "completed" /\ session.place.stage \in {"summary", "completed"}
  /\ session' = [session EXCEPT !.place.stage = "finished"]
  /\ UNCHANGED <<words, progress, job, crashes>>

\* cancel_active_sessions, when the learner starts another lesson.
Restart(h) ==
  /\ IsServed(h)
  /\ session' = [session EXCEPT !.status = "cancelled"]
  /\ UNCHANGED <<words, progress, job, crashes>>

\* The request dies between two transactions.
Crash(h) ==
  /\ job[h].pc \notin Free
  /\ crashes < MaxCrashes /\ crashes' = crashes + 1
  /\ Goes(h, NoJob)
  /\ UNCHANGED <<session, words, progress>>

-----------------------------------------------------------------------------
Step(h) ==
  \/ Load(h) \/ Save(h) \/ Refresh(h) \/ Render(h) \/ ShowExercise(h)
  \/ Mark(h) \/ Know(h) \/ Choose(h) \/ Replace(h) \/ StartQuiz(h)
  \/ ReadWord(h) \/ Record(h) \/ Weigh(h) \/ Review(h)
  \/ Finalize(h) \/ Complete(h)

TapOnCard(h, via, i) ==
  \/ IgnoredCard(h, via, i) \/ CardBack(h, via, i) \/ CardQuiz(h, via, i)
  \/ \E status \in {"next", "known"} : CardSorted(h, via, i, status)

Tap(h, via) ==
  \/ Show(h, via)
  \/ \E i \in Slot : TapOnCard(h, via, i)
  \/ \E e \in Exercise : ReadyYes(h, via, e)
  \/ \E i \in Slot, right \in BOOLEAN : AnswerTap(h, via, i, right)

Next ==
  \E h \in Handler :
    \/ Step(h)
    \/ \E via \in Interface : Tap(h, via)
    \/ FinishSummary(h) \/ Restart(h) \/ Crash(h)

Spec == Init /\ [][Next]_vars

-----------------------------------------------------------------------------
(* Properties.                                                              *)

PlaceOK(place) ==
  /\ place.stage \in QuizStage => place.position <= Len(place.queue)
  /\ place.stage \notin QuizStage => place.queue = <<>> /\ place.position <= Size

Sorting == {"mark", "know", "choose", "replace"}
Answering == {"answer", "record", "weigh", "review"}

JobOK(j) ==
  /\ PlaceOK(j.read) /\ PlaceOK(j.write)
  /\ j.pc \in Sorting \union Answering => j.slot \in Slot
  /\ j.pc \in Sorting => j.read.position < Size
  /\ j.pc \in Answering =>
       j.read.stage \in QuizStage /\ j.read.position < Len(j.read.queue)
  /\ j.pc = "start" => j.read.stage \in ReadyStage

Sound ==
  /\ session \in Session
  /\ session.status = "active" => PlaceOK(session.place)
  /\ words \in [Slot -> WordRow]
  /\ progress \in [Word -> Progress]
  /\ job \in [Handler -> Job] /\ \A h \in Handler : JobOK(job[h])
  /\ crashes \in Nat

\* The rows are well typed, and no handler, however late it writes what it has
\* read, leaves an active session at a position outside of its cards or its
\* queue: every screen of client_learning indexes by it.  Nothing is said of a
\* lesson once a save has met a row that another had changed since it was
\* loaded, and has kept a column of it.
LearningTypeOK == session.mixed \/ Sound

\* The lesson as Lesson sees it: a word still to be asked is one in the queue.
Phase ==
  LET stage == session.place.stage
  IN IF session.status = "cancelled" THEN "cancelled"
     ELSE CASE stage = "card" -> "cards"
            [] stage \in ReadyStage \union QuizStage -> ExerciseOf(stage)
            [] OTHER -> "over"

LeftInQueue(place) ==
  {place.queue[k] : k \in place.position + 1 .. Len(place.queue)}

ToAsk ==
  LET place == session.place
  IN CASE place.stage \in ReadyStage -> AskedWords
       [] place.stage \in QuizStage -> LeftInQueue(place)
       [] OTHER -> {}

L == INSTANCE Lesson WITH
       phase <- Phase, known <- Slot \ AskedWords, todo <- ToAsk,
       right <- [e \in Exercise |-> {i \in Slot : words[i].correct[e]}]

\* Every word that is not put aside is asked in all three exercises, and again
\* until its last answer was right, before the lesson is over: a request that
\* dies between the answer, the review and the queue loses no word, although
\* the row is written back from a read made three transactions earlier.
LessonKept == L!Spec

\* At the summary the review of a word tells how it was answered: the words with
\* a second attempt somewhere need work, and only they, also when the request
\* that reviewed them died and the answer was given again.
ReviewMatchesAnswers ==
  session.kind = "regular" /\ session.place.stage \in {"summary", "completed"} =>
    \A i \in AskedWords :
      progress[words[i].word].state \in
        IF \E e \in Exercise : words[i].attempts[e] > 1 THEN {"needs_work"}
        ELSE {"learning", "learned"}

\* A lesson raises the level of a word once.  (Marked as known it has level 2,
\* and may be asked after all when the learner goes back to its card.)
RisesOnce ==
  \A w \in Word : Level(progress[w]) <= 1 + Greater(Level(Before[w]), 2)

\* What the tests say of a button of an earlier screen: the answer to a question
\* that is no longer asked is ignored, and the screen is shown again.  (Of the
\* bot's taps only such an answer renders a quiz from a row without the user.)
StaleAnswerIsIgnored ==
  [][\A h \in Handler :
       job[h].pc = "render" /\ job[h].via = "bot" => job'[h].pc # "failed"]_vars

=============================================================================

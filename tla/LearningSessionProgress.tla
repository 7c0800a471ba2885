------------------------ MODULE LearningSessionProgress ------------------------
(* The fairness under which a lesson comes to its summary: requests go on, and *)
(* the learner, whatever else is tapped, keeps choosing what leads forward.   *)
EXTENDS LearningSession

StartsQuiz(h) == \E i \in Slot : CardQuiz(h, "bot", i)

SaysYes(h) ==
  \E e \in Exercise : session.place.stage = Ready[e] /\ ReadyYes(h, "bot", e)

AnswersRight(h) ==
  \E i \in Slot : IsAsked(session.place, i) /\ AnswerTap(h, "bot", i, TRUE)

Forward(h) ==
  /\ WF_vars(Step(h))
  /\ SF_vars(StartsQuiz(h)) /\ SF_vars(SaysYes(h))
  /\ SF_vars(AnswersRight(h)) /\ SF_vars(Show(h, "bot"))

FairSpec == Spec /\ \A h \in Handler : Forward(h)

\* The request that wrote the summary died before it ended the lesson.
LeftAtSummary ==
  /\ crashes > 0
  /\ session.status = "active" /\ session.place.stage = "summary"
  /\ \A h \in Handler : job[h].pc # "complete"

\* A lesson that is not abandoned ends, as a row no longer active: requests that
\* raise or die, cards turned back and words put at the end of the queue leave
\* no stage from which the learner cannot go on.  The one exception is a request
\* that dies between the two transactions of complete_session, which leaves an
\* active lesson at its summary.
LessonEnds == <>(session.status # "active" \/ LeftAtSummary)

=============================================================================

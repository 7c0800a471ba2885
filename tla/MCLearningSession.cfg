CONSTANTS
  a = a
  b = b
  c = c
  Handler = {h1}
  Word = {a, b, c}
  Chosen <- TwoWords
  Before <- MixedProgress
  LateCards = FALSE
  MaxWrong <- LateErrors
  MaxCrashes = 1
SPECIFICATION FairSpec
INVARIANTS LearningTypeOK ReviewMatchesAnswers RisesOnce
PROPERTIES LessonKept LessonEnds
CHECK_DEADLOCK FALSE

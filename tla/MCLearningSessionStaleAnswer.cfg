CONSTANTS
  a = a
  b = b
  c = c
  Handler = {h1}
  Word = {a, b, c}
  Chosen <- TwoWords
  Before <- MixedProgress
  LateCards = FALSE
  MaxWrong <- LateErrors
  MaxCrashes = 0
SPECIFICATION Spec
PROPERTY StaleAnswerIsIgnored
CHECK_DEADLOCK FALSE

SPECIFICATION FairSpec
CONSTANTS
  MaxClock = 2
  Day <- Days
  DailySlot = {1}
  PlanSlot = {1,2}
  Window = 1
  Handler = {1, 2}
  Copies = 2
  MaxLessons = 3
  MaxEvents = 2
INVARIANTS TrainingsTypeOK OneLesson RemindedOnce
PROPERTIES EndedStays ClosedStays DueIsShown
CHECK_DEADLOCK FALSE

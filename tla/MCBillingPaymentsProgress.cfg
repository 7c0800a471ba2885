SPECIFICATION ProgressSpec
CONSTANTS
  p1 = p1
  h1 = h1
  Recon = recon
  NoPayment = NoPayment
  NoStatus = NoStatus
  Never = Never
  Payment <- OnePayment
  Instant = {}
  Handler <- OneHandler
  Outcome <- FewOutcomes
  MaxClock = 1
  TicksPerDay = 1
  RecheckWindow = 1
  RecheckInterval = 1
  RecheckTick = 0
PROPERTIES
  CaptureIsNoticed
  SuccessIsHonouredToday

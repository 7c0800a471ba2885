SPECIFICATION RaceSpec
CONSTANTS
  p1 = p1
  h1 = h1
  h2 = h2
  Recon = recon
  NoPayment = NoPayment
  NoStatus = NoStatus
  Never = Never
  Payment <- OnePayment
  Instant = {}
  Handler <- TwoHandlers
  Outcome <- FewOutcomes
  MaxClock = 0
  TicksPerDay = 1
  RecheckWindow = 1
  RecheckInterval = 1
  RecheckTick = 0
SYMMETRY Handlers
INVARIANTS
  BillingTypeOK
  NotifiedOnlyTheTruth
  NewsIsTrue
  LedgerAgreesUnlessRaced
  TerminalIsNotified
PROPERTIES
  KeepsPromise

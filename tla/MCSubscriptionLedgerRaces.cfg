SPECIFICATION RaceSpec
CONSTANTS
  p1 = p1
  p2 = p2
  w1 = w1
  w2 = w2
  NoPayment = NoPayment
  Never = Never
  Payment <- TwoPayments
  Handler = {w1, w2}
  Background = {w1, w2}
  Offer = {"premium", "premium_plus"}
  Months = {1}
  AdminPlans = {"free"}
  MaxClock = 1
SYMMETRY Alike
INVARIANTS
  LedgerTypeOK
  GrantsAreSound
  RowMirrorsLedger
PROPERTIES
  PurchaseIsFinal
  NeverFreeBeforePeriodEnd
CHECK_DEADLOCK FALSE

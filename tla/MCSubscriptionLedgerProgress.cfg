SPECIFICATION OrderedSpec
CONSTANTS
  p1 = p1
  p2 = p2
  w1 = w1
  w2 = w2
  NoPayment = NoPayment
  Never = Never
  Payment <- TwoPayments
  Handler = {w1}
  Background = {w2}
  Offer = {"premium"}
  Months = {1}
  AdminPlans = {}
  MaxClock = 2
PROPERTIES
  PaidPlanIsProjected
CHECK_DEADLOCK FALSE

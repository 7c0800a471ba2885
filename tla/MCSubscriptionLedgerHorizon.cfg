SPECIFICATION Spec
CONSTANTS
  p1 = p1
  p2 = p2
  p3 = p3
  w1 = w1
  w2 = w2
  NoPayment = NoPayment
  Never = Never
  Payment <- ThreePayments
  Handler = {w1}
  Background = {w1}
  Offer = {"premium", "premium_plus"}
  Months = {1}
  AdminPlans = {}
  MaxClock = 1
SYMMETRY Alike
PROPERTIES
  RenewalStartsAtHorizon

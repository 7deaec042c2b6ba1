\* A Stripe charge for a draft that already has an order: is it booked?
CONSTANTS
  p1 = p1
  p2 = p2
  d1 = d1
  d2 = d2
  r1 = r1
  e1 = e1
  e2 = e2
  Product = {p1, p2}
  Draft = {d1, d2}
  Lines <- MCLines
  CashProduct = {p1}
  Request = {r1}
  Event = {e1, e2}
  StartStock = 1
  MaxEdits = 1
SPECIFICATION Spec
INVARIANTS
  FulfilledChargeIsBooked
CHECK_DEADLOCK FALSE

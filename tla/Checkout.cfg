\* Two drafts compete for the only piece of a product.
CONSTANTS
  p1 = p1
  p2 = p2
  d1 = d1
  d2 = d2
  r1 = r1
  e1 = e1
  e2 = e2
  Product = {p1, p2}
  Draft = {d1, d2}
  Lines <- MCLines
  CashProduct = {p1}
  Request = {r1}
  Event = {e1, e2}
  StartStock = 1
  MaxEdits = 1
SPECIFICATION LiveSpec
INVARIANTS
  StockConserved
  ChargesAreSettled
  PaidOnce
PROPERTIES
  ChargesAreAnswered
CHECK_DEADLOCK FALSE

SPECIFICATION Spec
CONSTANTS
  o1 = o1  o2 = o2  r1 = r1  r2 = r2  r3 = r3  shirt = shirt  shoes = shoes
  w1 = w1  w2 = w2
  Orders = {o1}
  Refs = {r1, r2}
  OrderOf <- SingleOrderOf
  Products = {shirt}
  Items <- SingleItems
  InitStock <- SingleStock
  Foreign = {}
  Events <- SingleEvents
  MaxInflight = 1
  MaxAttempts = 1
  Faults = {"agent", "api"}
  MaxFaults = 1
  Workers = {w1}
  NoEvent = NoEvent
  MaxCopies = 2
  Agents = {a1}
  NoOrder = NoOrder
  NoRef = NoRef
  Staff = {s1}
  NoTask = NoTask
INVARIANTS SettledOncePerPayment ReceiptAtMostOnce PaidIsBacked DeductedOnceUnlessRelinked NoMoneyLost
CHECK_DEADLOCK FALSE

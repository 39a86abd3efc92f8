SPECIFICATION FairSpec
CONSTANTS
  o1 = o1  o2 = o2  r1 = r1  r2 = r2  r3 = r3  shirt = shirt  shoes = shoes
  w1 = w1  w2 = w2
  Orders = {o1}
  Refs = {r1, r3}
  OrderOf <- ForeignOrderOf
  Products = {shirt}
  Items <- SingleItems
  InitStock <- LiveStock
  Foreign = {r3}
  Events <- ForeignEvents
  MaxInflight = 1
  MaxAttempts = 2
  Faults = {"api", "agent", "reply"}
  MaxFaults = 2
  Workers = {w1}
  NoEvent = NoEvent
  MaxCopies = 2
  Agents = {a1}
  NoOrder = NoOrder
  NoRef = NoRef
  Staff = {}
  NoTask = NoTask
 
PROPERTIES ChargeHandled 
CHECK_DEADLOCK FALSE

SPECIFICATION Spec
CONSTANTS
  o1 = o1  o2 = o2  r1 = r1  r2 = r2  r3 = r3  shirt = shirt  shoes = shoes
  w1 = w1  w2 = w2
  Orders = {o1, o2}
  Refs = {r1, r2}
  OrderOf <- RivalOrderOf
  Products = {shirt, shoes}
  Items <- RivalItems
  InitStock <- RivalStock
  Foreign = {}
  Events <- RivalEvents
  MaxInflight = 1
  MaxAttempts = 1
  Faults = {"crash", "db", "reply"}
  MaxFaults = 1
  Workers = {w1, w2}
  NoEvent = NoEvent
  MaxCopies = 2
  Agents = {a1}
  NoOrder = NoOrder
  NoRef = NoRef
  Staff = {}
  NoTask = NoTask
SYMMETRY WorkerSymmetry
 
PROPERTY ImplementsSettlement
CHECK_DEADLOCK FALSE

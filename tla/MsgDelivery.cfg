SPECIFICATION Spec
CONSTANTS
  ann = ann  bob = bob  m1 = m1  m2 = m2  e1 = e1  e2 = e2  e3 = e3  v1 = v1  v2 = v2  v3 = v3
  Customers = {ann}
  Msgs = {m1, m2}
  From <- SameSender
  Kind <- TextAndMedia
  Convs = {v1, v2}
  NoConv = NoConv
  Nobody = Nobody
  Available = 1
  Envelopes = {e1, e2, e3}
  Carries <- ApartAndStatus
  Posts = {p1, p2}
  MaxTries = 2
  Faults = {"api", "again"}
  MaxFaults = 1
  NoEvent = NoEvent
  NoEnvelope = NoEnvelope
  Slots = {s1}
  NoMsg = NoMsg
SYMMETRY PostSymmetry
INVARIANTS ProcessedIsQueued AnsweredOnce
CHECK_DEADLOCK FALSE

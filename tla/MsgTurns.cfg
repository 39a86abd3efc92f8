SPECIFICATION FairSpec
CONSTANTS
  ann = ann  bob = bob  m1 = m1  m2 = m2  e1 = e1  e2 = e2  e3 = e3  v1 = v1  v2 = v2  v3 = v3
  Customers = {ann}
  Msgs = {m1, m2}
  From <- SameSender
  Kind <- AllText
  Convs = {v1, v2, v3}
  NoConv = NoConv
  Nobody = Nobody
  Available = 2
  Envelopes = {e1, e2}
  Carries <- Apart
  Posts = {p1}
  MaxTries = 2
  Faults = {"api", "turn", "record", "crash", "evict", "pause"}
  MaxFaults = 1
  NoEvent = NoEvent
  NoEnvelope = NoEnvelope
  Slots = {s1}
  NoMsg = NoMsg
INVARIANTS TypeOK HandedOverIsQueued OneOpenEscalation 
PROPERTY MessageHandled
CHECK_DEADLOCK FALSE

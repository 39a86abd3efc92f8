SPECIFICATION Spec
CONSTANTS
  Photos = {p1, p2, p3, p4}
  MaxBatch = 3
  Faults = {"db", "restart", "abort"}
  MaxFaults = 2
  Tabs = {t1, t2}
  Overlap = FALSE
SYMMETRY PhotoSymmetry
INVARIANTS OnlyReviewedPublished 
PROPERTY ImplementsReview
CHECK_DEADLOCK FALSE

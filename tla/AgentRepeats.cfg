\* The comment in agent.ts: a repeated reply is never sent without a hand-over.
CONSTANTS
  m1 = m1
  m2 = m2
  Msgs = {m1, m2}
  Kind <- MCKind
  Hits <- MCHits
  Workers = 1
  MaxTries = 2
  MaxRounds = 2
  Attempts = 2
  Batches <- MCBatches
  Texts <- MCTexts
  Marks <- MCMarks
  HandOverText <- MCHandOver
  FallbackText <- MCFallback
  LoopText <- MCLoop
  Units = {1, 2}
  Available = 2
  Faults = {}
  MaxFaults = 0
SPECIFICATION Spec
INVARIANT RepeatsEscalate
CHECK_DEADLOCK FALSE

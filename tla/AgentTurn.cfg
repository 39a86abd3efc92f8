\* Two messages of one conversation, a text and a voice note.
CONSTANTS
  m1 = m1
  m2 = m2
  Msgs = {m1, m2}
  Kind <- MCKind
  Hits <- MCHits
  Workers = 1
  MaxTries = 2
  MaxRounds = 2
  Attempts = 2
  Batches <- MCBatches
  Texts <- MCTexts
  Marks <- MCMarks
  HandOverText <- MCHandOver
  FallbackText <- MCFallback
  LoopText <- MCLoop
  Units = {1, 2}
  Available = 2
  Faults = {"llm", "refused", "turn", "crash"}
  MaxFaults = 1
SPECIFICATION FairSpec
INVARIANTS CallsAnswered  NeverSilent NoLoop
PROPERTY TurnEnds
CHECK_DEADLOCK FALSE

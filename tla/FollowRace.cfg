SPECIFICATION FairSpec
CONSTANTS
  Chats = {c1}
  Scans = {s1, s2}
  FirstDelay = 1
  SecondDelay = 1
  MaxAttempts = 2
  QuietStart = 2
  QuietEnd = 1
  Day = 3
  MaxLag = 0
  MaxDeeds = 3
  Faults = {"send", "crash"}
  MaxFaults = 1
  NoChat = NoChat
INVARIANTS NudgedOnce CapHolds
PROPERTIES SilentInQuietHours  
CHECK_DEADLOCK FALSE

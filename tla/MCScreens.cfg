SPECIFICATION SFairSpec
CONSTANTS
  s1 = s1
  s2 = s2
  Tool = {1, 2, 3}
  utf16 <- TwoSwapped
  SessionID = {s1}
  Conn = {c1}
  EventId = {e1}
  Input <- ThreeTools
  Unfit = {u}
  DoneDuration = 1
  StaleFactor = 1
  StaleFloor = 1
  StaleMinSamples = 1
  MaxIntervals = 0
  MaxSeenEventIDs = 0
  MaxTime = 1
  MaxRestarts = 1
  WaitingTooLong = 1
  Second = 1
INVARIANTS
  HeadlineIsMostUrgent
  ScreensAgree
PROPERTIES
  ScreensConverge

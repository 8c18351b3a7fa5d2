SPECIFICATION EFairSpec
CONSTANTS
  Tool = {1}
  utf16 <- OneTool
  Source = 1
  SessionID = {s1}
  Conn = {c1}
  EventId = {1}
  Unfit = {u}
  Input = {}
  DoneDuration = 1
  StaleFactor = 0
  StaleFloor = 0
  StaleMinSamples = 1
  MaxIntervals = 0
  MaxSeenEventIDs = 0
  MaxTime = 1
  MaxRestarts = 1
  MaxHooks = 1
  WaitingTooLong = 2
  Second = 2
INVARIANTS
  LightIsHonest
PROPERTIES
  AgentIsNeverHeldUp
  AskingReachesScreens
  CalmReachesScreens

SPECIFICATION PSpec
CONSTANTS
  Tool = {claude}
  Source = claude
  Unfit = {u}
  SessionID = {s1}
  EventId = {1, 2, 3}
  DoneDuration = 1
  StaleFactor = 0
  StaleFloor = 0
  StaleMinSamples = 1
  MaxIntervals = 1
  MaxSeenEventIDs = 1
  MaxTime = 2
  MaxRestarts = 0
  MaxHooks = 2
INVARIANTS
  PTypeOK
  LightIsHonest
  EveryHookIsAccepted
  EveryHookCounts

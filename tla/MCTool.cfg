SPECIFICATION SSpec
CONSTANTS
  s1 = s1
  s2 = s2
  Tool = {1}
  utf16 <- OneTool
  SessionID = {s1, s2}
  Conn = {c1, c2}
  EventId = {e1}
  Input <- TwoSessions
  Unfit = {u}
  DoneDuration = 1
  StaleFactor = 1
  StaleFloor = 1
  StaleMinSamples = 1
  MaxIntervals = 0
  MaxSeenEventIDs = 0
  MaxTime = 3
  MaxRestarts = 1
  WaitingTooLong = 1
  Second = 2
SYMMETRY Symmetric
INVARIANTS
  STypeOK
  WaitingTooLongFollowsSince
  AnswerIsOneMoment
PROPERTIES
  SnapshotsNeverGoBack

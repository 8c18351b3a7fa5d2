SPECIFICATION HSpec
CONSTANTS
  Tool = {claude}
  SessionID = {s1}
  EventId = {e1, e2, e3}
  DoneDuration = 2
  StaleFactor = 1
  StaleFloor = 1
  StaleMinSamples = 1
  MaxIntervals = 1
  MaxSeenEventIDs = 4
  MaxTime = 2
  MaxRestarts = 0
  MaxLog = 4
SYMMETRY Symmetric
PROPERTY
  LingeringStateStaysVisible

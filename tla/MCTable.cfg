SPECIFICATION FairSpec
CONSTANTS
  Tool = {claude}
  SessionID = {s1, s2}
  EventId = {e1, e2}
  DoneDuration = 1
  StaleFactor = 1
  StaleFloor = 1
  StaleMinSamples = 1
  MaxIntervals = 1
  MaxSeenEventIDs = 1
  MaxTime = 2
  MaxRestarts = 1
INVARIANTS
  DatesOrdered
PROPERTIES
  UpdatedAtCoversEveryChange
  NothingOverdueAfterACall
  GoneOnlyWhenEnded
  DoneIsEphemeral
  EndedIsForgotten

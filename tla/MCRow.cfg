SPECIFICATION HSpec
CONSTANTS
  Tool = {claude}
  SessionID = {s1}
  EventId = {e1, e2, e3}
  DoneDuration = 2
  StaleFactor = 2
  StaleFloor = 1
  StaleMinSamples = 2
  MaxIntervals = 3
  MaxSeenEventIDs = 2
  MaxTime = 8
  MaxRestarts = 1
  MaxLog = 4
SYMMETRY Symmetric
INVARIANTS
  TypeOK
  DoneWindow
  DedupMemory
  RecentRepeatIsNoOp
PROPERTIES
  TimeOnlyDecays
  AlarmsAreExplicit
  ImplementsLifecycle
  StaleOnlyWhenSilent

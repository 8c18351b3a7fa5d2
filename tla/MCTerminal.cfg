SPECIFICATION CFairSpec
CONSTANTS
  utf16 <- OneTool
  Token = {t1, t2}
  Server = {s1}
  Answer <- TwoAnswers
  NoAgents <- Nothing
  Interval = 1
  Timeout = 2
  Second = 1
INVARIANTS
  CTypeOK
  TerminalSaysWhatItHeard
  PrintsOnlyChanges
PROPERTIES
  TerminalIsADisplay
  TerminalConverges
  InterruptIsHeeded

SPECIFICATION TFairSpec
CONSTANTS
  utf16 <- OneTool
  Token = {t1, t2, t3}
  Server = {s1}
  Answer <- ThreeAnswers
  NoAgents <- Nothing
  Timeout = 1
  Second = 1
INVARIANTS
  TTypeOK
  TitleAndMenuAgree
PROPERTIES
  TrayIsADisplay
  TrayConverges

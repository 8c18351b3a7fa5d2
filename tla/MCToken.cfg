SPECIFICATION TokenSpec
CONSTANTS
  Token = {t1, t2, t3}
  Server = {s1, s2, s3}
INVARIANTS
  TokenIsShared

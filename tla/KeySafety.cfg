CONSTANTS
  MaxDraws = 12
  MaxLosses = 2
  MaxRepeats = 2
SPECIFICATION FairSpec
INVARIANTS
  TypeOK
  QuietAgreed
PROPERTY KeysSettle
CHECK_DEADLOCK FALSE

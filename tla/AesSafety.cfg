CONSTANTS
  t1 = t1
  t2 = t2
  Thread = {t1, t2}
  Key <- MCKey
  Block <- MCBlock
  MaxKeys = 2
SPECIFICATION Spec
INVARIANTS
  TypeOK
  TablesReady
  KnownAnswers
  ReverseTablesInvert
PROPERTY AesImplementsFips

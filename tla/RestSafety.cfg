CONSTANTS
  Request = {r1, r2}
  MaxStarts = 2
SPECIFICATION FairSpec
INVARIANTS
  TypeOK
  HandlersHaveServer
  StoppedIsOff
  ZeroMeansOpen
  StopCloses
  BindFailExact
PROPERTIES
  LoneRequestReported
  RequestsReplied
  CallsReturn
CHECK_DEADLOCK FALSE

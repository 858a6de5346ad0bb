CONSTANTS
  Request = {r1}
  MaxStarts = 1
SPECIFICATION Spec
PROPERTIES
  ClosedBeforeDestroyed
CHECK_DEADLOCK FALSE

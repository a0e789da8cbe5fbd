CONSTANTS
  f1 = f1
  f2 = f2
  Fingers <- MCFingers
  MAX_EVENT_COUNT = 2
  ErrLimit = 0
  StackSize = 2
  MaxFaults = 1
  MaxTouchCount = 3
SYMMETRY FingerSymmetry
SPECIFICATION Spec
INVARIANTS
  TypeOK
  
  
  
  PendingEventsLeadToSensor

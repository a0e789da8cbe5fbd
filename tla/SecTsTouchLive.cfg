CONSTANTS
  f1 = f1
  f2 = f2
  Fingers <- MCOneFinger
  MAX_EVENT_COUNT = 1
  ErrLimit = 0
  StackSize = 2
  MaxFaults = 1
  MaxTouchCount = 1
SPECIFICATION FairSpec
PROPERTIES
  InterruptComesBack
  
  ResetLiftsContacts

CONSTANTS
  Opens = {o1, o2}
  Buffers = {b1, b2}
  NoBuffer = NoBuffer
SPECIFICATION FairSpec
INVARIANTS
  TypeOK
  AloneReportIsOwned
  UsersOfFreedAreKnown
PROPERTIES
  TouchComesUp
CHECK_DEADLOCK FALSE

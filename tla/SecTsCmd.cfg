CONSTANTS
  u1 = u1
  u2 = u2
  Users <- MCUsers
  Requests <- MCAllRequests
SYMMETRY UserSymmetry
CONSTRAINT PairsOfEachWay
SPECIFICATION Spec
INVARIANTS
  TypeOK
  AnswersFit
  RunningIsExplained
  BusyIsExplained
  

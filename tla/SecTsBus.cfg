CONSTANTS
  f1 = f1
  f2 = f2
  Files <- MCFiles
  Others <- MCOthers
  Registers = {"events", "report"}
  Values = {0, 1}
  NoValue = NoValue
  Events = "events"
  lv1cmd = "report"
  OtherRequests <- MCRequests
  RetryCnt = 2
  Chunks = 2
SPECIFICATION MCSpec
INVARIANTS
  OnlyOthersIntrude
PROPERTIES
  CallsActAtOnce
  CallsEnd

CONSTANTS
  u1 = u1
  u2 = u2
  Users <- MCUsers
SPECIFICATION FairSpec
INVARIANTS
  TypeOK
  MaskedWhileOwed
PROPERTIES
  MaskIsLostByRaceOnly
  CallsReturn

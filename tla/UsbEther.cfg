CONSTANTS
  UDCs = {u1, u2}
  NoUDC = NoUDC
  Setup = Setup
SPECIFICATION FairSpec
INVARIANTS
  OnlyWholeIsBound
  

  

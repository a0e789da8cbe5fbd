CONSTANTS
  Systems <- MCSystems
  Names <- MCNames
  Secrets <- MCSecrets
  Parts <- MCParts
  Complete <- MCComplete
  Versions = {1, 2}
  Targets = {"esp", "disk"}
  Requests <- MCRequests
  Limit = 2
  None = None
  Torn = Torn
SPECIFICATION Spec
INVARIANTS
  EveryEntryBoots
  OnlyNamedFilesRemain
  
PROPERTY
  MenuSwitchesAtOnce

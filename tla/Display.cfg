CONSTANTS
  NoSequence = NoSequence
  Trees <- MCTrees
  MaxProbes = 2
  Callers <- MCCallers
  Brightnesses <- MCBrightnesses
SPECIFICATION Spec
INVARIANTS
  TypeOK
  CommandsAreTheTree
  
  
  RemovedLeavesNothing
  LastBrightnessWins

CONSTANTS
  Images <- MCImages
  Header <- MCHeader
  Factory = "factory"
  BuiltIn = "builtin"
  Files <- MCFiles
  PagesPerSector = 2
  Pages = 3
  MaxFaults = 1
  MaxCuts = 0
SPECIFICATION Spec
PROPERTY
  PageFailureStops

SPECIFICATION Spec
CONSTANTS
  KEY_MAX = 3
  MaxLevel = 3
  Values <- MCValues
INVARIANTS
  ListIsWellFormed
  SearchesAgree
PROPERTIES
  CallsKeepTheirPromise
  FreeRangeEnds
  ImplementsMap

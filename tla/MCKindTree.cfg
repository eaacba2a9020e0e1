SPECIFICATION MCSpec
CONSTANTS
  Keys = {0, 1, 2}
  MaxLen = 3
  NodeNames = {n}
  NsNames = {a}
  PodNames = {p}
  NoName = NoName
  MaxChanges = 2
  MaxRows = 6
  MaxFaults = 1
INVARIANTS
  NoMissedPair
  EachElementOnce
  SuccessMeansTree
  TwoCollectionsClean
PROPERTIES
  Terminates
  RowsConverge
CHECK_DEADLOCK FALSE

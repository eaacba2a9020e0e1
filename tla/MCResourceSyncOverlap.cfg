SPECIFICATION Spec
CONSTANTS
  Names = {a}
  Syncs = {s1, s2}
  MaxInt32 = 2
  MaxChanges = 3
  MaxRows = 6
  MaxFails = 1
  MaxTaskFails = 1
  NoRow = NoRow
INVARIANTS
  OneRowPerName
  SuccessMeansMirrored
  SyncingHasWorker
SYMMETRY Symmetry

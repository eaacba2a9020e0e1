SPECIFICATION Spec
CONSTANTS
  Tasks = {t1, t2}
  Updates = {u1, u2}
  MaxVer = 4
  MaxFaults = 1
  MaxReqs = 3
  MaxOthers = 1
INVARIANTS AcknowledgedKept RefusedStaysOut RowTellsTruth
SYMMETRY Symmetry
CHECK_DEADLOCK FALSE

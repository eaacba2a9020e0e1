SPECIFICATION FairSpec
CONSTANTS
  Names = {a}
  Syncs = {s1, s2}
  MaxInt32 = 10
  MaxChanges = 2
  MaxRows = 4
  MaxFails = 0
  MaxTaskFails = 1
  NoRow = NoRow
PROPERTIES Converges EventsResume

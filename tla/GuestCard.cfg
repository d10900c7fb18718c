SPECIFICATION Spec
CONSTANTS
  Device = {d1}
  Snapshot = {s1, s2}
  None = None
  Action = {"update", "skip", "restore"}
  Moving = {"working"}
  MaxScans = 2
  MaxChanges = 1
  MaxCalls = 2
INVARIANTS RebuildIsOwed
PROPERTIES ConfirmationIsExact UpdateIsOfShownScan

SPECIFICATION Spec
CONSTANTS
  MaxPolls = 2
INVARIANT PossibleSnapshotIsShown
CHECK_DEADLOCK FALSE

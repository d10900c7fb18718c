SPECIFICATION Spec
CONSTANTS
  MaxPolls = 2
INVARIANT InterruptionRetains
CHECK_DEADLOCK FALSE

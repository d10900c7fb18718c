SPECIFICATION Spec
CONSTANTS
    Number = 2
    Pkgs = {p1}
    MaxVersion = 1
    MaxEvents = 1
    Requests <- UpdateAndHealth
INVARIANTS
    InterruptedMeansBroken
CHECK_DEADLOCK FALSE

SPECIFICATION Spec
CONSTANTS
    Number = 2
    Pkgs = {p1}
    MaxVersion = 1
    MaxEvents = 1
    Requests <- ManyRequests
INVARIANTS
    MutationTold
    EvidenceWasSeen
    InterruptedIsPositive
PROPERTIES
    VerdictWhileRunning
    MutationsSerial
    ImplementsRequest
    HelperEnds
\* Every request has been made and the guest has nothing left to do.
CHECK_DEADLOCK FALSE

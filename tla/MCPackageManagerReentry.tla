----------------------- MODULE MCPackageManagerReentry -----------------------
(* One LXC, its calls as in normal use, and a listener that starts work.   *)
EXTENDS PackageManagerReentry

CONSTANTS t1, v1

OneVmid   == [t \in Target |-> v1]
ScanCalls == [t \in Target |-> {"scan", "health"}]
=============================================================================

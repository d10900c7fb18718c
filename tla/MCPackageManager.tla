-------------------------- MODULE MCPackageManager --------------------------
(* Instances of PackageManager: one LXC exercised by every call, and one   *)
(* VMID seen under two node keys that competes with another LXC for one    *)
(* slot.                                                                   *)
EXTENDS PackageManager, TLC

CONSTANTS t1, t2, t3, v1, v2

OneVmid  == [t \in Target |-> v1]
TwoVmids == [t \in Target |-> IF t = t3 THEN v2 ELSE v1]

EveryCall == [t \in Target |-> Call]
PeerCalls == [t \in Target |-> CASE t = t1 -> {"scan", "service"}
                                 [] t = t2 -> {"scan", "restore"}
                                 [] t = t3 -> {"scan"}]

Symmetry == Permutations(Attempt)
=============================================================================

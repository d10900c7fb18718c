---------------------------- MODULE MCYoloFollow ----------------------------
(* An instance of YoloFollow: one LXC updated by the Easy Update service,  *)
(* with one follow, next to every other call that may come in between.     *)
EXTENDS YoloFollow

OneVmid   == [t \in Target |-> CHOOSE v \in Vmid : TRUE]
YoloCalls == [t \in Target |-> {"scan", "service", "cleanup", "health", "restore"}]
=============================================================================

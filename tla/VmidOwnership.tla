--------------------------- MODULE VmidOwnership ---------------------------
(***************************************************************************)
(* What the package manager promises about one VMID, whatever node keys it *)
(* is known under: it is worked on by one attempt at a time, ownership     *)
(* passes directly from a finished mutation to its Health check, and a     *)
(* Restore keeps every new attempt out from its acceptance to its release. *)
(* Only a Health check, which mutates nothing, may still be ending while a *)
(* Restore is being accepted.  Different VMIDs move independently, so one  *)
(* step (a coordinator refresh) may move several.                          *)
(***************************************************************************)
CONSTANTS Vmid

VARIABLES work,      \* [Vmid -> the kind of attempt that owns it, or "none"]
          reserved   \* [Vmid -> BOOLEAN], a Restore owns it

vars == <<work, reserved>>

Work     == {"none", "scan", "update", "cleanup", "health"}
Mutation == {"update", "cleanup"}

TypeOK == work \in [Vmid -> Work] /\ reserved \in [Vmid -> BOOLEAN]

Init == /\ work = [v \in Vmid |-> "none"]
        /\ reserved = [v \in Vmid |-> FALSE]

Accept(v)  == /\ work[v] = "none" /\ ~reserved[v]
              /\ work'[v] # "none" /\ ~reserved'[v]
HandOff(v) == /\ work[v] \in Mutation /\ work'[v] = "health"
              /\ ~reserved[v] /\ ~reserved'[v]
Reserve(v) == /\ work[v] \in {"none", "health"} /\ ~reserved[v]
              /\ work'[v] = work[v] /\ reserved'[v]
Release(v) == /\ work'[v] \in {work[v], "none"}
              /\ reserved'[v] => reserved[v]

Next == /\ work' \in [Vmid -> Work] /\ reserved' \in [Vmid -> BOOLEAN]
        /\ \A v \in Vmid : Accept(v) \/ HandOff(v) \/ Reserve(v) \/ Release(v)

Spec == Init /\ [][Next]_vars
=============================================================================

-------------------------- MODULE MutationAttempt --------------------------
(***************************************************************************)
(* The life of an Update or Autoremove, as the record of its target shows  *)
(* it (packages/manager.py).  It is the level on which the package manager *)
(* deals with an attempt and the level that the attempt's own steps, with  *)
(* its safety snapshot, have to keep to: APT is reached over a complete    *)
(* snapshot or by an explicit choice to go without, an attempt that was    *)
(* interrupted at any point before its observation is a failure, and only  *)
(* one that went all the way is a success.                                 *)
(***************************************************************************)
VARIABLES stage,  \* where the attempt is, or what the record says of the last
          skip    \* the attempt under way goes without a safety snapshot

vars == <<stage, skip>>

Working == {"slot", "plan", "snapshot", "mutate", "delete", "observe"}
Settled == {"absent", "success", "failed"}

TypeOK == stage \in Working \cup Settled /\ skip \in BOOLEAN

Init == stage = "absent" /\ skip = FALSE

Settles(result) == stage' = result /\ skip' = FALSE

Accept == /\ stage \in Settled
          /\ stage' = "slot" /\ skip' \in BOOLEAN

(* The next step of an attempt that meets no error.                        *)
After(s) == CASE s = "slot" -> "plan"
              [] s = "plan" -> IF skip THEN "mutate" ELSE "snapshot"
              [] s = "snapshot" -> "mutate"
              [] s = "mutate" -> IF skip THEN "observe" ELSE "delete"
              [] s = "delete" -> "observe"

Advance == /\ stage \in Working \ {"observe"}
           /\ stage' = After(stage) /\ UNCHANGED skip

(* An error or an interruption; a mutation that may have begun and was not *)
(* seen through is not a success, and after the observation began nothing  *)
(* turns the success into a failure.                                       *)
Fail == stage \in Working \ {"observe"} /\ Settles("failed")

Succeed == stage = "observe" /\ Settles("success")

(* The target is pruned, or a reload builds a new manager.                 *)
Forget == Settles("absent")

Next == Accept \/ Advance \/ Fail \/ Succeed \/ Forget

Spec == Init /\ [][Next]_vars
=============================================================================

----------------------- MODULE PackageManagerReentry -----------------------
(***************************************************************************)
(* PackageManager with a state listener that may also start work from the  *)
(* publication in the middle of accepting a Scan.  async_start_scan checks *)
(* its guards, then drops the old cleanup evidence through                 *)
(* _invalidate_cleanup, whose _on_state_change runs every listener, and    *)
(* only then puts its own RUNNING record in place.  The finish callbacks   *)
(* defend themselves against such a listener; this module asks what the    *)
(* acceptance does.                                                        *)
(***************************************************************************)
EXTENDS PackageManager

VARIABLE accepting   \* the target whose async_start_scan is inside the publication

reentryVars == <<vars, accepting>>

ReentryInit == Init /\ accepting = None

(* async_start_scan up to and including _invalidate_cleanup. *)
EnterScan(t) ==
  /\ accepting = None /\ MayCall
  /\ upstream[t] = "running" /\ Idle(t) /\ evidence[t] # "none"
  /\ fenced'    = fenced \ {t}
  /\ viewed'    = [viewed EXCEPT ![t] = "none"]
  /\ evidence'  = [evidence EXCEPT ![t] = "none"]
  /\ accepting' = t
  /\ UNCHANGED <<record, plan, restore, task, frame, upstream, unloaded, held, outdated>>

(* The rest of it: the RUNNING record and the task, with no second look.   *)
CommitScan(a) ==
  /\ accepting # None /\ ~Live(a)
  /\ record' = [record EXCEPT !["scan"][accepting] = a]
  /\ plan'   = [plan EXCEPT ![accepting] = NoPlan]
  /\ task'   = [task EXCEPT ![a] = NewTask("scan", accepting, "slot", FALSE, FALSE)]
  /\ accepting' = None
  /\ UNCHANGED <<viewed, evidence, fenced, restore, frame, upstream, unloaded,
                 held, outdated>>

ReentryNext ==
  \/ accepting = None /\ Next /\ UNCHANGED accepting
  \/ accepting # None /\ (\E t \in Target : Start(t)) /\ UNCHANGED accepting
  \/ \E t \in Target : EnterScan(t)
  \/ \E a \in Attempt : CommitScan(a)

ReentrySpec == ReentryInit /\ [][ReentryNext]_reentryVars

(* "At most one scan per VMID within a config entry" (ARCHITECTURE.md,     *)
(* Concurrency): no two Scan tasks at work have targets of the same VMID.  *)
OneScanPerVmid ==
  \A a, b \in Attempt :
    /\ Active(a) /\ task[a].kind = "scan"
    /\ Active(b) /\ task[b].kind = "scan"
    /\ task[b].target \in Peers(task[a].target)
    => a = b
=============================================================================

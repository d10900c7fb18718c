--------------------------- MODULE SafetySnapshot ---------------------------
(***************************************************************************)
(* One accepted Update or Autoremove and its temporary safety snapshot:    *)
(* _async_run_update / _async_run_autoremove (packages/manager.py) over    *)
(* packages/snapshots.py.                                                  *)
(*                                                                         *)
(* Four parties move independently: the background task on the event loop, *)
(* the executor thread that performs a create or delete call for it, the   *)
(* PVE tasks those calls start, and the APT run the helper performs on the *)
(* guest.  Cancelling the task stops none of the others: a call already on *)
(* a thread goes on, and so do the PVE task and APT.                       *)
(*                                                                         *)
(* An outcome carries the snapshot's name exactly when it says retained or *)
(* uncertain, so the name itself is not modelled.                          *)
(***************************************************************************)
EXTENDS Naturals

CONSTANTS
  MaxPolls        \* _TASK_MAX_POLLS

ASSUME PollsAssumption == MaxPolls \in Nat \ {0}

VARIABLES
  (* The background task. *)
  skip,           \* own_record.snapshot_skipped
  phase,          \* the await it is suspended in
  polls,          \* polls of the current PVE task that found it running
  submitted,      \* snapshot_submitted, set from the executor thread
  ready,          \* snapshot_ready
  mutating,       \* mutation_started
  kept,           \* the SUCCESS outcome's snapshot_retained and snapshot_cleanup_failed
  cancelled,      \* task.cancel() was called, CancelledError not yet delivered
  own,            \* the record is still this attempt's (it was not pruned)
  report,         \* the outcome made visible to the operator
  (* The executor thread, PVE and the guest. *)
  job,            \* the create or delete call handed to the executor
  snap,           \* the safety snapshot, as PVE lists it
  pve,            \* the PVE task of the current call
  apt,            \* the mutation on the guest, see MutationRequest
  told,           \* what the transport answered for it
  (* History that only properties read. *)
  alive,          \* the guest passed the liveness check
  unmarked        \* interrupted between the thread's start and on_submit

taskVars == <<skip, phase, polls, submitted, ready, mutating, kept, cancelled,
              own, report>>
vars == <<taskVars, job, snap, pve, apt, told, alive, unmarked>>

Phase == {"plan", "list", "create", "poll", "relist", "confirm", "mutate", "live",
          "delete", "pollDelete", "confirmDelete", "observe", "ended"}
Job   == {"none", "queued", "taken", "marked", "upid", "error", "cancelled"}
Snap  == {"absent", "partial", "complete"}
Pve   == {"none", "creating", "deleting", "ok", "failed"}

(* The request for the mutation, and all that is assumed of it.            *)
Request == INSTANCE MutationRequest

Outcome  == {"none", "success", "plan_failed", "snapshot_failed", "liveness_failed"}
              \cup Request!Failures
Report   == [outcome : Outcome, retained : BOOLEAN, uncertain : BOOLEAN, visible : BOOLEAN]
NoReport == [outcome |-> "none", retained |-> FALSE, uncertain |-> FALSE, visible |-> FALSE]

Init ==
  /\ skip \in BOOLEAN
  /\ phase = "plan" /\ polls = 0
  /\ submitted = FALSE /\ ready = FALSE /\ mutating = FALSE /\ kept = FALSE
  /\ cancelled = FALSE /\ own = TRUE /\ report = NoReport
  /\ job = "none" /\ snap = "absent" /\ pve = "none" /\ Request!Init
  /\ alive = FALSE /\ unmarked = FALSE

-----------------------------------------------------------------------------
(***************************************************************************)
(* The background task.  A step resumes it from the await named by phase.  *)
(***************************************************************************)
Resumes(p) == phase = p /\ ~cancelled

Ended(outcome, retained, uncertain) ==
  /\ phase' = "ended"
  /\ report' = [outcome |-> outcome, retained |-> retained,
                uncertain |-> uncertain, visible |-> own]

(* except SnapshotError: nothing was mutated yet. *)
SnapshotFailed(may_exist) == Ended("snapshot_failed", FALSE, may_exist)

Plan ==
  /\ Resumes("plan")
  /\ \/ /\ phase' = (IF skip THEN "mutate" ELSE "list")
        /\ mutating' = skip
        /\ IF skip THEN Request!Send ELSE UNCHANGED <<apt, told>>
        /\ UNCHANGED report
     \/ /\ Ended("plan_failed", FALSE, FALSE)
        /\ UNCHANGED <<mutating, apt, told>>
  /\ UNCHANGED <<kept, skip, polls, submitted, ready, cancelled, own, job, snap, pve,
                 alive, unmarked>>

(* The listing that warns about older snapshots; then the create call.     *)
List ==
  /\ Resumes("list")
  /\ \/ phase' = "create" /\ job' = "queued" /\ UNCHANGED report
     \/ SnapshotFailed(FALSE) /\ UNCHANGED job
  /\ UNCHANGED <<kept, skip, polls, submitted, ready, mutating, cancelled, own, snap,
                 pve, apt, told, alive, unmarked>>

(* The create call returned: a usable UPID, or anything else.              *)
Created ==
  /\ Resumes("create") /\ job \in {"upid", "error"}
  /\ IF job = "upid" THEN phase' = "poll" /\ polls' = 0 /\ UNCHANGED report
                     ELSE SnapshotFailed(TRUE) /\ UNCHANGED polls
  /\ job' = "none"
  /\ UNCHANGED <<kept, skip, submitted, ready, mutating, cancelled, own, snap, pve, apt, told,
                 alive, unmarked>>

OutOfPolls == polls + 1 = MaxPolls

(* Mutant of NextPoll: a task seen running is given its polls once more. *)
NextPollRenewed == IF polls + 2 = MaxPolls THEN 0 ELSE polls + 1

NextPoll == polls + 1

(* _async_wait_for_task on the create task.  A status that cannot be read, *)
(* or makes no sense, ends the wait as well.                               *)
Poll ==
  /\ Resumes("poll")
  /\ \/ /\ pve = "creating" /\ ~OutOfPolls
        /\ polls' = NextPoll /\ UNCHANGED <<phase, report>>
     \/ /\ pve = "creating" /\ OutOfPolls /\ SnapshotFailed(TRUE) /\ UNCHANGED polls
     \/ /\ pve = "ok" /\ phase' = "confirm" /\ UNCHANGED <<polls, report>>
     \/ /\ pve = "failed" /\ phase' = "relist" /\ UNCHANGED <<polls, report>>
     \/ /\ SnapshotFailed(TRUE) /\ UNCHANGED polls
  /\ UNCHANGED <<kept, skip, submitted, ready, mutating, cancelled, own, job, snap, pve,
                 apt, told, alive, unmarked>>

(* The create task stopped with an error: only a listing that works and    *)
(* lacks the name proves that nothing was left behind.                     *)
Relist ==
  /\ Resumes("relist")
  /\ \/ SnapshotFailed(snap # "absent")
     \/ SnapshotFailed(TRUE)
  /\ UNCHANGED <<kept, skip, polls, submitted, ready, mutating, cancelled, own, job, snap,
                 pve, apt, told, alive, unmarked>>

(* Mutant of IsComplete: any row with the name will do. *)
IsPresent == snap # "absent"

(* snapshot_is_complete: exactly one row, and no snapstate. *)
IsComplete == snap = "complete"

Confirm ==
  /\ Resumes("confirm")
  /\ \/ /\ IsComplete
        /\ phase' = "mutate" /\ ready' = TRUE /\ mutating' = TRUE
        /\ Request!Send
        /\ UNCHANGED report
     \/ SnapshotFailed(TRUE) /\ UNCHANGED <<ready, mutating, apt, told>>
  /\ UNCHANGED <<kept, skip, polls, submitted, cancelled, own, job, snap, pve, alive, unmarked>>

(* The transport's answer: the mutation went well, or the error ends the   *)
(* attempt with the outcome it carries.                                    *)
Mutate ==
  /\ Resumes("mutate")
  /\ \/ Request!Tell("mutated") /\ phase' = "live" /\ UNCHANGED report
     \/ \E o \in Request!Failures : Request!Tell(o) /\ Ended(o, ready, FALSE)
  /\ UNCHANGED <<kept, skip, polls, submitted, ready, mutating, cancelled, own, job, snap,
                 pve, alive, unmarked>>

(* _async_require_liveness, then the delete call or the observation.       *)
Liveness(ok) ==
  /\ Resumes("live")
  /\ IF ok
       THEN /\ phase' = (IF skip THEN "observe" ELSE "delete")
            /\ job' = (IF skip THEN job ELSE "queued")
            /\ UNCHANGED report
       ELSE Ended("liveness_failed", ready, FALSE) /\ UNCHANGED job
  /\ alive' = ok
  /\ UNCHANGED <<kept, skip, polls, submitted, ready, mutating, cancelled, own, snap, pve,
                 apt, told, unmarked>>

(* async_delete_snapshot: whatever fails, the update stays a SUCCESS with  *)
(* its cleanup failed.                                                     *)
Observing(failed) == phase' = "observe" /\ kept' = failed /\ UNCHANGED polls

Deleted ==
  /\ Resumes("delete") /\ job \in {"upid", "error"}
  /\ IF job = "upid" THEN phase' = "pollDelete" /\ polls' = 0 /\ UNCHANGED kept
                     ELSE Observing(TRUE)
  /\ job' = "none"
  /\ UNCHANGED <<skip, submitted, ready, mutating, cancelled, own, report, snap,
                 pve, apt, told, alive, unmarked>>

PollDelete ==
  /\ Resumes("pollDelete")
  /\ \/ pve = "deleting" /\ ~OutOfPolls /\ polls' = NextPoll /\ UNCHANGED <<phase, kept>>
     \/ pve = "deleting" /\ OutOfPolls /\ Observing(TRUE)
     \/ pve = "ok" /\ phase' = "confirmDelete" /\ UNCHANGED <<polls, kept>>
     \/ Observing(TRUE)
  /\ UNCHANGED <<skip, submitted, ready, mutating, cancelled, own, report, job, snap,
                 pve, apt, told, alive, unmarked>>

ConfirmDelete ==
  /\ Resumes("confirmDelete")
  /\ \/ snap = "absent" /\ Observing(FALSE)
     \/ Observing(TRUE)
  /\ UNCHANGED <<skip, submitted, ready, mutating, cancelled, own, report, job, snap,
                 pve, apt, told, alive, unmarked>>

(* The observation of what autoremove would do; it cannot change the result. *)
Observe ==
  /\ Resumes("observe")
  /\ Ended("success", kept, FALSE)
  /\ UNCHANGED <<kept, skip, polls, submitted, ready, mutating, cancelled, own, job, snap,
                 pve, apt, told, alive, unmarked>>

(* except Exception and except CancelledError build the same outcome.      *)
(* Mutant of InterruptedOutcome: only an answered mutation counts. *)
AnsweredOutcome == IF phase \in {"live", "delete", "pollDelete", "confirmDelete"}
                     THEN "mutation_uncertain"
                     ELSE IF phase = "plan" THEN "plan_failed" ELSE "snapshot_failed"

(* Mutant of InterruptedOutcome: once cleaning up, the mutation counts. *)
CleaningOutcome == IF phase \in {"delete", "pollDelete", "confirmDelete"} THEN "success"
                   ELSE IF mutating THEN "mutation_uncertain"
                   ELSE IF phase = "plan" THEN "plan_failed" ELSE "snapshot_failed"

InterruptedOutcome == IF mutating THEN "mutation_uncertain"
                      ELSE IF phase = "plan" THEN "plan_failed" ELSE "snapshot_failed"

Unexpected ==
  /\ phase \in {"plan", "list", "mutate", "live"} /\ ~cancelled
  /\ Ended(InterruptedOutcome, ready, submitted /\ ~ready)
  /\ UNCHANGED <<kept, skip, polls, submitted, ready, mutating, cancelled, own, job, snap,
                 pve, apt, told, alive, unmarked>>

(***************************************************************************)
(* Cancellation: prune drops the record first, unload leaves it.  It is    *)
(* delivered at the task's next turn, and by then a call still waiting for *)
(* a thread has been withdrawn; the outcome of a pruned attempt goes to    *)
(* the operator as a notification.                                         *)
(***************************************************************************)
Cancel(pruned) ==
  /\ phase # "ended" /\ ~cancelled
  /\ cancelled' = TRUE
  /\ own' = (own /\ ~pruned)
  /\ UNCHANGED <<kept, skip, phase, polls, submitted, ready, mutating, report, job, snap,
                 pve, apt, told, alive, unmarked>>

(* Mutant of Shown: what a pruned attempt left behind is not told. *)
ShownIfOwned == own

Shown == TRUE

Deliver ==
  /\ cancelled /\ phase # "ended"
  /\ phase' = "ended"
  /\ report' =
       IF phase = "observe"
         THEN [outcome |-> "success", retained |-> kept, uncertain |-> FALSE,
               visible |-> Shown]
         ELSE [outcome |-> InterruptedOutcome, retained |-> ready,
               uncertain |-> submitted /\ ~ready, visible |-> Shown]
  /\ job' = (IF job = "queued" THEN "cancelled" ELSE job)
  /\ unmarked' = (phase = "create" /\ job = "taken")
  /\ UNCHANGED <<kept, skip, polls, submitted, ready, mutating, cancelled, own, snap, pve,
                 apt, told, alive>>

-----------------------------------------------------------------------------
(***************************************************************************)
(* The executor thread.  It serves a call even when nobody waits for it.   *)
(***************************************************************************)
Creates == ~mutating

Take ==
  /\ job = "queued"
  /\ job' = "taken"
  /\ UNCHANGED <<taskVars, snap, pve, apt, told, alive, unmarked>>

(* _submit calls on_submit before it enters the native call. *)
Mark ==
  /\ job = "taken"
  /\ job' = "marked"
  /\ submitted' = (submitted \/ Creates)
  /\ UNCHANGED <<kept, skip, phase, polls, ready, mutating, cancelled, own, report, snap,
                 pve, apt, told, alive, unmarked>>

(* The call reaches PVE or not, and is answered with a task or not.        *)
Submit ==
  /\ job = "marked"
  /\ \/ /\ job' \in {"upid", "error"}
        /\ pve' = (IF Creates THEN "creating" ELSE "deleting")
        /\ snap' = "partial"
     \/ job' = "error" /\ UNCHANGED <<pve, snap>>
  /\ UNCHANGED <<taskVars, apt, told, alive, unmarked>>

(***************************************************************************)
(* PVE and the guest.                                                      *)
(***************************************************************************)
PveEnds ==
  /\ \/ pve = "creating" /\ pve' = "ok" /\ snap' \in {"partial", "complete"}
     \/ pve = "creating" /\ pve' = "failed" /\ snap' \in {"absent", "partial"}
     \/ pve = "deleting" /\ pve' = "ok" /\ snap' = "absent"
     \/ pve = "deleting" /\ pve' = "failed" /\ snap' \in {"partial", "complete"}
  /\ UNCHANGED <<taskVars, job, apt, told, alive, unmarked>>

AptStep ==
  /\ Request!AptStep
  /\ UNCHANGED <<taskVars, job, snap, pve, alive, unmarked>>

-----------------------------------------------------------------------------
TaskStep == \/ Plan \/ List \/ Created \/ Poll \/ Relist \/ Confirm \/ Mutate
            \/ \E ok \in BOOLEAN : Liveness(ok)
            \/ Deleted \/ PollDelete \/ ConfirmDelete \/ Observe
            \/ Unexpected \/ Deliver

ThreadStep == Take \/ Mark \/ Submit

Next == TaskStep \/ ThreadStep \/ PveEnds \/ AptStep \/ \E pruned \in BOOLEAN : Cancel(pruned)

Spec == Init /\ [][Next]_vars

(* The event loop resumes a task whose await is over and threads get on;   *)
(* a PVE task and APT may hang for ever.                                   *)
FairSpec == Spec /\ WF_vars(TaskStep) /\ WF_vars(ThreadStep)

-----------------------------------------------------------------------------
(* Type correctness. *)
TypeOK ==
  /\ skip \in BOOLEAN /\ phase \in Phase /\ polls \in 0 .. MaxPolls - 1
  /\ submitted \in BOOLEAN /\ ready \in BOOLEAN /\ mutating \in BOOLEAN
  /\ kept \in BOOLEAN /\ cancelled \in BOOLEAN /\ own \in BOOLEAN
  /\ report \in Report
  /\ job \in Job /\ snap \in Snap /\ pve \in Pve /\ Request!TypeOK
  /\ alive \in BOOLEAN /\ unmarked \in BOOLEAN

(* Unless the operator chose to go without, APT never runs while its       *)
(* complete safety snapshot is not there, also when the attempt that asked *)
(* for it has been interrupted or has given up waiting; and the snapshot   *)
(* is only ever deleted after APT went well and the guest answered.        *)
MutationIsCovered ==
  ~skip /\ mutating => \/ snap = "complete"
                       \/ apt = "good" /\ alive

(* However an attempt ends, a safety snapshot that exists, or may still    *)
(* come to exist, is reported to the operator, with the one exception of   *)
(* an interruption that overtakes the thread's on_submit mark.             *)
MayExist == snap # "absent" \/ pve = "creating" \/ job \in {"taken", "marked"}

NoSilentSnapshot ==
  phase = "ended" /\ MayExist /\ ~unmarked =>
    report.visible /\ (report.retained \/ report.uncertain)

(* An outcome that denies the mutation, or calls it a success, is true of  *)
(* what APT really did.                                                    *)
OutcomeIsTrue ==
  phase = "ended" =>
    /\ report.outcome \in {"plan_failed", "snapshot_failed"} => apt = "none"
    /\ report.outcome \in Request!Refusals => apt \in {"sent", "bad"}
    /\ report.outcome = "success" => apt = "good" /\ alive

(* However often it polls, is cancelled or meets an error, the attempt     *)
(* lives the life that the package manager deals with.                     *)
StageOf(p) ==
  CASE p = "plan" -> "plan"
    [] p \in {"list", "create", "poll", "relist", "confirm"} -> "snapshot"
    [] p \in {"mutate", "live"} -> "mutate"
    [] p \in {"delete", "pollDelete", "confirmDelete"} -> "delete"
    [] p = "observe" -> "observe"
    [] p = "ended" -> IF report.outcome = "success" THEN "success" ELSE "failed"

Stage == IF own THEN StageOf(phase) ELSE "absent"

Attempt == INSTANCE MutationAttempt WITH
  stage <- Stage,
  skip  <- skip /\ own /\ phase # "ended"

ImplementsAttempt == Stage = "plan" /\ [][Attempt!Next]_(Attempt!vars)

(* Every attempt ends, even when the PVE task it polls or APT never does.  *)
AttemptEnds == <>(phase = "ended")

(***************************************************************************)
(* What the repository says, and the code does not quite keep.             *)
(***************************************************************************)
(* "Mark the precise point at which the native POST call is entered"       *)
(* (packages/snapshots.py), for "a possibly retained safety snapshot still *)
(* requires an operator-visible result" (packages/manager.py).             *)
PossibleSnapshotIsShown ==
  phase = "ended" /\ MayExist =>
    report.visible /\ (report.retained \/ report.uncertain)

(* "Interruption retains the safety snapshot and reports its exact name    *)
(* when known ... no automatic safety snapshot deletion on these paths"    *)
(* (ARCHITECTURE.md, Mutation, liveness, and retention).                   *)
InterruptionRetains ==
  report.outcome = "mutation_uncertain" /\ report.retained => snap = "complete"
=============================================================================

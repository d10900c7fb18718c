--------------------------- MODULE PackageManager ---------------------------
(***************************************************************************)
(* The package subsystem of one config entry: packages/manager.py.         *)
(*                                                                         *)
(* A PackageManager owns, per target (node, vmid), four kinds of attempt:  *)
(* Scan, Update, Autoremove ("cleanup") and Health.  All of its state is   *)
(* in memory and is touched from one event loop, so a callback is one      *)
(* action and a background task is one action per stretch between awaits.  *)
(*                                                                         *)
(* Modelled by identity: an attempt is owned through "is own_record", the  *)
(* object put in the record when it was accepted.  Here the record of an   *)
(* accepted attempt IS the attempt's identifier, taken from the finite set *)
(* Attempt and free again when its task has ended: as an object's identity *)
(* it is distinct from that of every other live attempt, and nothing more. *)
(* The handle in _tasks, _update_tasks, ... is present exactly while the   *)
(* record is that attempt and its task is alive, so it has no variable.    *)
(***************************************************************************)
EXTENDS Naturals, FiniteSets

CONSTANTS
  Target,           \* the (node, vmid) keys
  Vmid,             \* the VMIDs
  VmidOf,           \* the VMID of each target
  Attempt,          \* identities of live attempts (bounds how many are alive)
  None,
  ScanSlots,        \* _MAX_GLOBAL_SCANS
  UpdateSlots,      \* the capacity of _update_slot
  ReentrantPoints,  \* publications at which a state listener may start work
  Calls,            \* the calls made on each target (bounds an instance)
  Observed          \* the statuses a refresh may find (bounds an instance)

Kind       == {"scan", "update", "cleanup", "health"}
Mutation   == {"update", "cleanup"}
Settled    == {"absent", "never", "success", "failed", "completed"}
Phase      == {"idle", "slot", "read", "plan", "snapshot", "mutate", "delete",
               "observe", "claimed", "check"}
Upstream   == {"absent", "stopped", "running"}
Cleanup    == {"none", "empty", "removable"}
Call       == Kind \cup {"card", "service", "button", "restore"}
Reservation == {"none", "claimed", "submitted", "uncertain"}

ASSUME DomainAssumption ==
  /\ VmidOf \in [Target -> Vmid]
  /\ Attempt \cap Settled = {}
  /\ None \notin Attempt \cup Target
  /\ ReentrantPoints \subseteq {"claimed", "published"}
  /\ Calls \in [Target -> SUBSET Call]
  /\ Observed \subseteq Upstream
  /\ ScanSlots \in Nat \ {0}
  /\ UpdateSlots \in Nat \ {0}

VARIABLES
  record,     \* [Kind -> [Target -> outcome or the RUNNING attempt]]
  plan,       \* the result of the SUCCESS scan record
  viewed,     \* _viewed_tokens
  evidence,   \* _cleanup_evidence
  fenced,     \* _fenced_evidence
  restore,    \* _restore_reserved, with how far its Restore task has come
  task,       \* the background tasks, by attempt
  frame,      \* the _finish_update/_finish_cleanup call on the stack, if any
  upstream,   \* the coordinator's current data
  unloaded,   \* the config entry was unloaded: this manager is abandoned
  (*************************************************************************)
  (* The operator, and history that only properties read.                  *)
  (*************************************************************************)
  held,       \* the scan attempt whose plan a card last showed
  outdated    \* kinds of evidence an outdated attempt has published

managerVars  == <<record, plan, viewed, evidence, fenced, restore>>
vars == <<managerVars, task, frame, upstream, unloaded, held, outdated>>

(* A remembered scan token or attempt is only ever compared with that of    *)
(* the current SUCCESS record: all that is kept is whether it is that one.  *)
Token  == {"none", "current", "old"}
Aged(tok) == IF tok = "current" THEN "old" ELSE tok

(* pending: the plan is not empty.  confirmed is history: the operator     *)
(* approved this very plan, or asked for whatever plan is current.         *)
Plan   == [pending : BOOLEAN, reviewed : BOOLEAN, confirmed : BOOLEAN]
NoPlan == [pending |-> FALSE, reviewed |-> FALSE, confirmed |-> FALSE]

IdleTask == [kind |-> "none", target |-> None, phase |-> "idle",
             cancelled |-> FALSE, skip |-> FALSE, confirmed |-> FALSE,
             outdated |-> FALSE]
Task == [kind : Kind \cup {"none"}, target : Target \cup {None}, phase : Phase,
         cancelled : BOOLEAN, skip : BOOLEAN, confirmed : BOOLEAN,
         outdated : BOOLEAN]

NoFrame == [point |-> "idle", attempt |-> None, claim |-> None]
Frame   == [point : {"idle", "claimed", "published"},
            attempt : Attempt \cup {None}, claim : Attempt \cup {None}]

-----------------------------------------------------------------------------
Peers(t)      == {u \in Target : VmidOf[u] = VmidOf[t]}
Running(k, t) == record[k][t] \in Attempt
Live(a)       == task[a].phase # "idle"
Active(a)     == Live(a) /\ ~task[a].cancelled
(* "is own_record" *)
Owns(a)       == /\ task[a].kind \in Kind
                 /\ task[a].target \in Target
                 /\ record[task[a].kind][task[a].target] = a
Reserved(t)   == \E u \in Peers(t) : restore[u] # "none"

(* Mutant of Idle: only the exact (node, vmid) key is looked at. *)
IdleExactKey(t) == ~Reserved(t) /\ \A k \in Kind : ~Running(k, t)

(* Mutant of Idle: the Restore reservation is not looked at. *)
IdleUnreserved(t) == \A u \in Peers(t), k \in Kind : ~Running(k, u)

(* The guards every start shares: no Restore and nothing RUNNING on the VMID. *)
Idle(t) == /\ ~Reserved(t)
           /\ \A u \in Peers(t), k \in Kind : ~Running(k, u)

(* The loop runs nothing else while _finish_* is on the stack, except what  *)
(* a listener starts from inside one of its publications.                   *)
Quiet   == frame.point = "idle"
(* Mutant of MayCall: entities of an unloaded entry still call the manager. *)
MayCallUnloaded == Quiet \/ frame.point \in ReentrantPoints
MayCall == ~unloaded /\ (Quiet \/ frame.point \in ReentrantPoints)

NewTask(k, t, phase, skip, ok) ==
  [kind |-> k, target |-> t, phase |-> phase, cancelled |-> FALSE,
   skip |-> skip, confirmed |-> ok, outdated |-> FALSE]

GoTo(a, phase) == task' = [task EXCEPT ![a].phase = phase]

-----------------------------------------------------------------------------
Init ==
  /\ record    = [k \in Kind |-> [t \in Target |-> "absent"]]
  /\ plan      = [t \in Target |-> NoPlan]
  /\ viewed    = [t \in Target |-> "none"]
  /\ evidence  = [t \in Target |-> "none"]
  /\ fenced    = {}
  /\ restore   = [t \in Target |-> "none"]
  /\ task      = [a \in Attempt |-> IdleTask]
  /\ frame     = NoFrame
  /\ upstream \in [Target -> Observed]
  /\ unloaded  = FALSE
  /\ held      = [t \in Target |-> "none"]
  /\ outdated  = {}

(***************************************************************************)
(* Accepting an attempt.                                                   *)
(***************************************************************************)
StartScan(t, a) ==
  /\ MayCall /\ ~Live(a)
  /\ upstream[t] = "running" /\ Idle(t)
  /\ fenced'   = fenced \ {t}
  /\ viewed'   = [viewed EXCEPT ![t] = "none"]
  /\ evidence' = [evidence EXCEPT ![t] = "none"]
  /\ record'   = [record EXCEPT !["scan"][t] = a]
  /\ plan'     = [plan EXCEPT ![t] = NoPlan]
  /\ task'     = [task EXCEPT ![a] = NewTask("scan", t, "slot", FALSE, FALSE)]
  /\ UNCHANGED <<restore, frame, upstream, unloaded, held, outdated>>

(* What acceptance of an Update changes; ok is history, see Plan. *)
AcceptUpdate(t, a, skip, ok) ==
  /\ viewed'   = [viewed EXCEPT ![t] = "none"]
  /\ evidence' = [evidence EXCEPT ![t] = "none"]
  /\ record'   = [record EXCEPT !["health"][t] = "absent",
                                !["scan"][t]   = "never",
                                !["update"][t] = a]
  /\ plan'     = [plan EXCEPT ![t] = NoPlan]
  /\ task'     = [task EXCEPT ![a] = NewTask("update", t, "slot", skip, ok)]
  /\ UNCHANGED <<fenced, restore, frame, upstream, unloaded, held, outdated>>

Reviewable(t) == record["scan"][t] = "success" /\ plan[t].pending

(* The Update button. *)
StartUpdate(t, a, skip) ==
  /\ MayCall /\ ~Live(a)
  /\ upstream[t] = "running" /\ Idle(t)
  /\ Reviewable(t) /\ plan[t].reviewed
  /\ AcceptUpdate(t, a, skip, plan[t].confirmed)

(* async_start_autoremove itself: it knows nothing of the entry's life. *)
AcceptAutoremove(t, a) ==
  /\ ~Live(a)
  /\ upstream[t] = "running" /\ Idle(t)
  /\ evidence[t] = "removable"
  /\ evidence' = [evidence EXCEPT ![t] = "none"]
  /\ record'   = [record EXCEPT !["health"][t] = "absent", !["cleanup"][t] = a]
  /\ task'     = [task EXCEPT ![a] = NewTask("cleanup", t, "slot", FALSE, FALSE)]
  /\ UNCHANGED <<plan, viewed, fenced, restore, frame, upstream, unloaded,
                 held, outdated>>

StartAutoremove(t, a) == MayCall /\ AcceptAutoremove(t, a)

StartHealth(t, a) ==
  /\ MayCall /\ ~Live(a)
  /\ upstream[t] = "running" /\ Idle(t)
  /\ record' = [record EXCEPT !["health"][t] = a]
  /\ task'   = [task EXCEPT ![a] = NewTask("health", t, "check", FALSE, FALSE)]
  /\ UNCHANGED <<plan, viewed, evidence, fenced, restore, frame, upstream,
                 unloaded, held, outdated>>

(* The task cannot be created: its claim replaced the record, and goes.    *)
HealthNotStarted(t) ==
  /\ MayCall /\ upstream[t] = "running" /\ Idle(t)
  /\ record' = [record EXCEPT !["health"][t] = "absent"]
  /\ UNCHANGED <<plan, viewed, evidence, fenced, restore, task, frame, upstream,
                 unloaded, held, outdated>>

-----------------------------------------------------------------------------
(***************************************************************************)
(* The two semaphores.  A scan holds its slot until it settles; an Update  *)
(* or Autoremove gives its slot back before the final observation.         *)
(***************************************************************************)
ScanHolders   == {a \in Attempt : task[a].phase \in {"read"} \/
                    (task[a].phase = "observe" /\ task[a].kind = "scan")}
(* Mutant of UpdateHolders: a waiter already counts as a holder. *)
UpdateHoldersWaiting == {a \in Attempt :
  \/ task[a].phase \in {"plan", "snapshot", "mutate", "delete"}
  \/ task[a].phase = "slot" /\ task[a].kind \in Mutation}

UpdateHolders == {a \in Attempt :
                    task[a].phase \in {"plan", "snapshot", "mutate", "delete"}}

AcquireScanSlot(a) ==
  /\ Quiet /\ Active(a) /\ task[a].phase = "slot" /\ task[a].kind = "scan"
  /\ Cardinality(ScanHolders) < ScanSlots
  /\ GoTo(a, "read")
  /\ UNCHANGED <<managerVars, frame, upstream, unloaded, held, outdated>>

AcquireUpdateSlot(a) ==
  /\ Quiet /\ Active(a) /\ task[a].phase = "slot" /\ task[a].kind \in Mutation
  /\ Cardinality(UpdateHolders) < UpdateSlots
  /\ GoTo(a, "plan")
  /\ UNCHANGED <<managerVars, frame, upstream, unloaded, held, outdated>>

-----------------------------------------------------------------------------
(***************************************************************************)
(* Publishing.  seen is what the attempt observed: "none" stands for an    *)
(* observation that failed, or whose presentation failed.                  *)
(***************************************************************************)
(* Mutant of Publishable: the fence is forgotten. *)
PublishableUnfenced(t, seen) == seen

Publishable(t, seen) == IF t \in fenced THEN "none" ELSE seen

PublishCleanup(a, t, seen) ==
  /\ evidence' = [evidence EXCEPT ![t] = Publishable(t, seen)]
  /\ outdated' = IF task[a].outdated /\ Publishable(t, seen) # "none"
                   THEN outdated \cup {"cleanup"} ELSE outdated

EndTask(a) == task' = [task EXCEPT ![a] = IdleTask]

(* _async_run_scan, the authoritative read; a failure settles the record.  *)
ScanRead(a) ==
  /\ Quiet /\ Active(a) /\ task[a].phase = "read"
  /\ GoTo(a, "observe")
  /\ UNCHANGED <<managerVars, frame, upstream, unloaded, held, outdated>>

ScanFailed(a) ==
  /\ Quiet /\ Active(a) /\ task[a].phase = "read"
  /\ LET t == task[a].target IN
       record' = IF Owns(a) THEN [record EXCEPT !["scan"][t] = "failed"] ELSE record
  /\ EndTask(a)
  /\ UNCHANGED <<plan, viewed, evidence, fenced, restore, frame, upstream,
                 unloaded, held, outdated>>

(* SUCCESS brings a new token, so every remembered one is now an old one. *)
ScanDone(a, seen, pending) ==
  /\ Quiet /\ Active(a) /\ task[a].phase = "observe" /\ task[a].kind = "scan"
  /\ LET t == task[a].target IN
       IF Owns(a)
         THEN /\ evidence' = [evidence EXCEPT ![t] = Publishable(t, seen)]
              /\ record' = [record EXCEPT !["scan"][t] = "success"]
              /\ plan' = [plan EXCEPT ![t] =
                   [pending |-> pending, reviewed |-> FALSE, confirmed |-> FALSE]]
              /\ viewed' = [viewed EXCEPT ![t] = Aged(@)]
              /\ held' = [held EXCEPT ![t] = Aged(@)]
              /\ outdated' = IF task[a].outdated
                               THEN outdated \cup {"scan"} ELSE outdated
         ELSE UNCHANGED <<evidence, record, plan, viewed, held, outdated>>
  /\ EndTask(a)
  /\ UNCHANGED <<fenced, restore, frame, upstream, unloaded>>

-----------------------------------------------------------------------------
(***************************************************************************)
(* The accepted Update or Autoremove.  Each step may instead fail; Active  *)
(* tasks only, since a cancelled one next sees CancelledError.             *)
(***************************************************************************)
MutationStep(a) ==
  /\ Quiet /\ Active(a)
  /\ \/ /\ task[a].phase = "plan"     \* fresh plan equals the accepted one
        /\ GoTo(a, IF task[a].skip THEN "mutate" ELSE "snapshot")
     \/ /\ task[a].phase = "snapshot" \* the safety snapshot is complete
        /\ GoTo(a, "mutate")
     \/ /\ task[a].phase = "mutate" /\ ~task[a].skip
        /\ GoTo(a, "delete")          \* mutated, sane and alive
     \/ /\ \/ task[a].phase = "mutate" /\ task[a].skip
           \/ task[a].phase = "delete" \* deleted, or reported as retained
        /\ IF Owns(a) THEN GoTo(a, "observe") ELSE EndTask(a)
  /\ UNCHANGED <<managerVars, frame, upstream, unloaded, held, outdated>>

(* A typed or unexpected error before SUCCESS.  Autoremove also publishes  *)
(* an unknown observation, whoever owns the record by then.                *)
MutationFailed(a) ==
  /\ Quiet /\ Active(a) /\ task[a].phase \in {"plan", "snapshot", "mutate"}
  /\ LET t == task[a].target
         k == task[a].kind
     IN /\ evidence' = IF k = "cleanup" THEN [evidence EXCEPT ![t] = "none"]
                                        ELSE evidence
        /\ record' = IF Owns(a) THEN [record EXCEPT ![k][t] = "failed"] ELSE record
  /\ EndTask(a)
  /\ UNCHANGED <<plan, viewed, fenced, restore, frame, upstream, unloaded,
                 held, outdated>>

HealthClaimBlocked(t) ==
  \/ Reserved(t)
  \/ \E u \in Peers(t) : Running("scan", u) \/ Running("health", u)

(***************************************************************************)
(* The final observation, then _finish_update/_finish_cleanup as far as    *)
(* the Health claim: it lands before the SUCCESS that listeners react to.  *)
(* When no claim may be made the record is simply settled.                 *)
(***************************************************************************)
MutationDone(a, seen, h) ==
  /\ Quiet /\ Active(a) /\ task[a].phase = "observe" /\ task[a].kind \in Mutation
  /\ LET t == task[a].target
         k == task[a].kind
     IN /\ PublishCleanup(a, t, seen)
        /\ IF Owns(a) /\ ~HealthClaimBlocked(t)
             THEN /\ ~Live(h)
                  /\ record' = [record EXCEPT !["health"][t] = h]
                  /\ task'   = [task EXCEPT
                                  ![h] = NewTask("health", t, "claimed", FALSE, FALSE)]
                  /\ frame'  = [point |-> "claimed", attempt |-> a, claim |-> h]
             ELSE /\ record' = IF Owns(a) THEN [record EXCEPT ![k][t] = "success"]
                                          ELSE record
                  /\ EndTask(a)
                  /\ UNCHANGED frame
  /\ UNCHANGED <<plan, viewed, fenced, restore, upstream, unloaded, held>>

PublishSuccess ==
  /\ frame.point = "claimed"
  /\ LET a == frame.attempt IN
       record' = [record EXCEPT ![task[a].kind][task[a].target] = "success"]
  /\ frame' = [frame EXCEPT !.point = "published"]
  /\ UNCHANGED <<plan, viewed, evidence, fenced, restore, task, upstream,
                 unloaded, held, outdated>>

(* Mutant of StartClaimedHealth: a claim that cannot start stays RUNNING. *)
StartClaimedHealthKept(started) ==
  /\ frame.point = "published"
  /\ task' = [task EXCEPT ![frame.attempt] = IdleTask,
                          ![frame.claim] = IF started THEN [@ EXCEPT !.phase = "check"]
                                                      ELSE IdleTask]
  /\ frame' = NoFrame
  /\ UNCHANGED <<managerVars, upstream, unloaded, held, outdated>>

(* _start_claimed_health_task; creating the task may itself fail. *)
StartClaimedHealth(started) ==
  /\ frame.point = "published"
  /\ LET a == frame.attempt
         h == frame.claim
         t == task[h].target
     IN IF Owns(h) /\ started
          THEN /\ task' = [task EXCEPT ![a] = IdleTask, ![h].phase = "check"]
               /\ UNCHANGED record
          ELSE /\ task' = [task EXCEPT ![a] = IdleTask, ![h] = IdleTask]
               /\ record' = IF Owns(h) THEN [record EXCEPT !["health"][t] = "absent"]
                                       ELSE record
  /\ frame' = NoFrame
  /\ UNCHANGED <<plan, viewed, evidence, fenced, restore, upstream, unloaded,
                 held, outdated>>

HealthDone(a) ==
  /\ Quiet /\ Active(a) /\ task[a].phase = "check"
  /\ LET t == task[a].target IN
       IF Owns(a)
         THEN /\ record' = [record EXCEPT !["health"][t] = "completed"]
              /\ outdated' = IF task[a].outdated
                               THEN outdated \cup {"health"} ELSE outdated
         ELSE UNCHANGED <<record, outdated>>
  /\ EndTask(a)
  /\ UNCHANGED <<plan, viewed, evidence, fenced, restore, frame, upstream,
                 unloaded, held>>

(* Mutant of CancelDelivered: whoever owns the record, it is settled. *)
CancelDeliveredUnowned(a) ==
  /\ Quiet /\ Live(a) /\ task[a].cancelled
  /\ LET t == task[a].target
         k == task[a].kind
     IN IF k \in Mutation
          THEN /\ record' = [record EXCEPT ![k][t] =
                    IF task[a].phase = "observe" THEN "success" ELSE "failed"]
               /\ evidence' = IF k = "cleanup" \/ task[a].phase = "observe"
                                THEN [evidence EXCEPT ![t] = "none"] ELSE evidence
          ELSE UNCHANGED <<record, evidence>>
  /\ EndTask(a)
  /\ UNCHANGED <<plan, viewed, fenced, restore, frame, upstream, unloaded,
                 held, outdated>>

(***************************************************************************)
(* CancelledError reaches the task.  Scan and Health publish nothing; a    *)
(* mutation settles the record it still owns and claims no Health.         *)
(***************************************************************************)
CancelDelivered(a) ==
  /\ Quiet /\ Live(a) /\ task[a].cancelled
  /\ LET t == task[a].target
         k == task[a].kind
     IN IF Owns(a) /\ k \in Mutation
          THEN /\ record' = [record EXCEPT ![k][t] =
                    IF task[a].phase = "observe" THEN "success" ELSE "failed"]
               /\ evidence' = IF k = "cleanup" \/ task[a].phase = "observe"
                                THEN [evidence EXCEPT ![t] = "none"] ELSE evidence
          ELSE UNCHANGED <<record, evidence>>
  /\ EndTask(a)
  /\ UNCHANGED <<plan, viewed, fenced, restore, frame, upstream, unloaded,
                 held, outdated>>

-----------------------------------------------------------------------------
(***************************************************************************)
(* Review.                                                                 *)
(***************************************************************************)
(* A card shows the scan sensor's attributes, its attempt's time included. *)
ShowPlan(t) ==
  /\ MayCall /\ record["scan"][t] = "success"
  /\ held' = [held EXCEPT ![t] = "current"]
  /\ UNCHANGED <<managerVars, task, frame, upstream, unloaded, outdated>>

(* The Review button. *)
MarkViewed(t) ==
  /\ MayCall /\ Reviewable(t)
  /\ viewed' = [viewed EXCEPT ![t] = "current"]
  /\ UNCHANGED <<record, plan, evidence, fenced, restore, task, frame, upstream,
                 unloaded, held, outdated>>

(* What a confirmed review changes. *)
MarkReviewed(t, ok) ==
  /\ plan'   = [plan EXCEPT ![t].reviewed = TRUE, ![t].confirmed = @ \/ ok]
  /\ viewed' = [viewed EXCEPT ![t] = "none"]
  /\ UNCHANGED <<record, evidence, fenced, restore, task, frame, upstream,
                 unloaded, held, outdated>>

(* The Approve button: confirm_review with the token of the last Review. *)
ConfirmReview(t) ==
  /\ MayCall /\ viewed[t] = "current" /\ Reviewable(t)
  /\ MarkReviewed(t, viewed[t] = "current")

(* Mutant of Names: the scan attempt a card names is not looked at. *)
NamesAny(t, named) == TRUE

(* expected_scan_attempt, when there is one, is the current scan's. *)
Names(t, named) == named => held[t] = "current"

(***************************************************************************)
(* Easy Update confirms and starts in one call: the plan a card names by   *)
(* its scan attempt or, unnamed, whatever plan is current.  Its own checks *)
(* look at the exact key only; when the start then refuses because of      *)
(* another key of the VMID, the confirmation stays.                        *)
(***************************************************************************)
EasyUpdate(t, a, skip, named) ==
  /\ MayCall /\ upstream[t] = "running" /\ Reviewable(t)
  /\ Names(t, named)
  /\ restore[t] = "none" /\ \A k \in Kind \ {"scan"} : ~Running(k, t)
  /\ IF Idle(t)
       THEN ~Live(a) /\ AcceptUpdate(t, a, skip, ~named \/ held[t] = "current")
       ELSE MarkReviewed(t, ~named \/ held[t] = "current")

-----------------------------------------------------------------------------
(***************************************************************************)
(* Restore's three calls, in the order its task makes them.                *)
(***************************************************************************)
(* Mutant of BeginRestore: only the exact key's records are looked at. *)
BeginRestoreExactKey(t) ==
  /\ MayCall /\ upstream[t] # "absent" /\ ~Reserved(t)
  /\ \A k \in {"scan", "update", "cleanup"} : ~Running(k, t)
  /\ restore' = [restore EXCEPT ![t] = "claimed"]
  /\ UNCHANGED <<record, plan, viewed, evidence, fenced, task, frame, upstream,
                 unloaded, held, outdated>>

BeginRestore(t) ==
  /\ MayCall /\ upstream[t] # "absent"
  /\ ~Reserved(t)
  /\ \A u \in Peers(t), k \in {"scan", "update", "cleanup"} : ~Running(k, u)
  /\ restore' = [restore EXCEPT ![t] = "claimed"]
  /\ UNCHANGED <<record, plan, viewed, evidence, fenced, task, frame, upstream,
                 unloaded, held, outdated>>

(* _invalidate_health cancels the handle of the Health record it discards. *)
HealthHandles(S) == {a \in Attempt : /\ Live(a) /\ Owns(a)
                                     /\ task[a].kind = "health"
                                     /\ task[a].target \in S}

InvalidateRestoreTarget(t) ==
  /\ Quiet /\ restore[t] = "claimed"
  /\ restore'  = [restore EXCEPT ![t] = "submitted"]
  /\ fenced'   = fenced \cup {t}
  /\ record'   = [record EXCEPT !["scan"][t] = "absent", !["health"][t] = "absent"]
  /\ plan'     = [plan EXCEPT ![t] = NoPlan]
  /\ viewed'   = [viewed EXCEPT ![t] = "none"]
  /\ evidence' = [evidence EXCEPT ![t] = "none"]
  /\ task' = [a \in Attempt |->
       [task[a] EXCEPT !.cancelled = @ \/ a \in HealthHandles({t}),
                       !.outdated  = @ \/ task[a].target = t]]
  /\ UNCHANGED <<frame, upstream, unloaded, held, outdated>>

(* Released on NOT_STARTED, SUCCESS and FAILED; kept for good otherwise. *)
EndRestore(t) ==
  /\ Quiet /\ restore[t] \in {"claimed", "submitted"}
  /\ restore' = [restore EXCEPT ![t] = "none"]
  /\ UNCHANGED <<record, plan, viewed, evidence, fenced, task, frame, upstream,
                 unloaded, held, outdated>>

RestoreUncertain(t) ==
  /\ Quiet /\ restore[t] = "submitted"
  /\ restore' = [restore EXCEPT ![t] = "uncertain"]
  /\ UNCHANGED <<record, plan, viewed, evidence, fenced, task, frame, upstream,
                 unloaded, held, outdated>>

-----------------------------------------------------------------------------
(***************************************************************************)
(* One coordinator refresh: async_prune, then async_invalidate_non_running *)
(* on the same observation, then the observation becomes current data.     *)
(***************************************************************************)
Known(t) == \/ record["scan"][t] # "absent" \/ record["health"][t] # "absent"
            \/ Running("update", t) \/ Running("cleanup", t)
            \/ evidence[t] # "none" \/ viewed[t] # "none"

Refresh(seen) ==
  /\ ~unloaded /\ Quiet
  /\ LET gone   == {t \in Target : seen[t] = "absent"}
         halted == {t \in Target : seen[t] = "stopped" /\ Known(t)}
         off    == gone \cup halted
         Drops(k, t) == t \in gone \/ (t \in halted /\ k \in {"scan", "health"})
     IN /\ record'   = [k \in Kind |-> [t \in Target |->
                          IF Drops(k, t) THEN "absent" ELSE record[k][t]]]
        /\ plan'     = [t \in Target |-> IF t \in off THEN NoPlan ELSE plan[t]]
        /\ viewed'   = [t \in Target |-> IF t \in off THEN "none" ELSE viewed[t]]
        /\ evidence' = [t \in Target |-> IF t \in off THEN "none" ELSE evidence[t]]
        /\ fenced'   = (fenced \ gone) \cup halted
        /\ task' = [a \in Attempt |-> IF ~Live(a) THEN task[a] ELSE
             [task[a] EXCEPT
                !.cancelled = @ \/ (Owns(a) /\ Drops(task[a].kind, task[a].target)),
                !.outdated  = @ \/ seen[task[a].target] # "running"]]
  /\ upstream' = seen
  /\ UNCHANGED <<restore, frame, unloaded, held, outdated>>

(* The entry's background tasks are all cancelled; the manager is dropped, *)
(* and a reload builds a new one once they have ended.                     *)
Unload ==
  /\ ~unloaded /\ Quiet
  /\ unloaded' = TRUE
  /\ task' = [a \in Attempt |-> [task[a] EXCEPT !.cancelled = Live(a)]]
  /\ UNCHANGED <<managerVars, frame, upstream, held, outdated>>

Reload ==
  /\ unloaded /\ \A a \in Attempt : ~Live(a)
  /\ record'    = [k \in Kind |-> [t \in Target |-> "absent"]]
  /\ plan'      = [t \in Target |-> NoPlan]
  /\ viewed'    = [t \in Target |-> "none"]
  /\ evidence'  = [t \in Target |-> "none"]
  /\ fenced'    = {}
  /\ restore'   = [t \in Target |-> "none"]
  /\ unloaded'  = FALSE
  /\ UNCHANGED <<task, frame, upstream, held, outdated>>

-----------------------------------------------------------------------------
TaskStep(a) ==
  \/ AcquireScanSlot(a) \/ AcquireUpdateSlot(a)
  \/ ScanRead(a) \/ ScanFailed(a)
  \/ \E seen \in Cleanup, pending \in BOOLEAN : ScanDone(a, seen, pending)
  \/ MutationStep(a) \/ MutationFailed(a)
  \/ \E seen \in Cleanup, h \in Attempt : MutationDone(a, seen, h)
  \/ HealthDone(a) \/ CancelDelivered(a)

FinishStep == PublishSuccess \/ \E started \in BOOLEAN : StartClaimedHealth(started)

Start(t) == \E a \in Attempt :
  \/ "scan" \in Calls[t] /\ StartScan(t, a)
  \/ "update" \in Calls[t] /\ \E skip \in BOOLEAN : StartUpdate(t, a, skip)
  \/ "cleanup" \in Calls[t] /\ StartAutoremove(t, a)
  \/ "health" \in Calls[t] /\ (StartHealth(t, a) \/ HealthNotStarted(t))
  \/ \E skip \in BOOLEAN, named \in BOOLEAN :
       (IF named THEN "card" ELSE "service") \in Calls[t] /\ EasyUpdate(t, a, skip, named)

Review(t) ==
  \/ "card" \in Calls[t] /\ ShowPlan(t)
  \/ "button" \in Calls[t] /\ (MarkViewed(t) \/ ConfirmReview(t))

RestoreStep(t) ==
  \/ "restore" \in Calls[t] /\ BeginRestore(t)
  \/ InvalidateRestoreTarget(t) \/ EndRestore(t) \/ RestoreUncertain(t)

Next ==
  \/ \E a \in Attempt : TaskStep(a)
  \/ FinishStep
  \/ \E t \in Target : Start(t) \/ Review(t) \/ RestoreStep(t)
  \/ \E seen \in [Target -> Observed] : Refresh(seen)
  \/ Unload \/ Reload

Spec == Init /\ [][Next]_vars

(***************************************************************************)
(* Fairness: the event loop runs ready callbacks in order, asyncio's       *)
(* semaphores wake their waiters in order, and every transport, executor   *)
(* and polling step has a deadline, so a task that can go on again and     *)
(* again does go on.  No call, refresh, unload or Restore step is fair.    *)
(***************************************************************************)
Fairness == /\ \A a \in Attempt : SF_vars(TaskStep(a))
            /\ WF_vars(FinishStep)

FairSpec == Spec /\ Fairness

-----------------------------------------------------------------------------
(* Type correctness of the whole state. *)
TypeOK ==
  /\ record \in [Kind -> [Target -> Settled \cup Attempt]]
  /\ plan \in [Target -> Plan]
  /\ viewed \in [Target -> Token]
  /\ evidence \in [Target -> Cleanup]
  /\ fenced \subseteq Target
  /\ restore \in [Target -> Reservation]
  /\ task \in [Attempt -> Task]
  /\ frame \in Frame
  /\ upstream \in [Target -> Upstream]
  /\ unloaded \in BOOLEAN
  /\ held \in [Target -> Token]
  /\ outdated \subseteq {"scan", "cleanup", "health"}

(* Whatever node keys a VMID is known under, no two of its Scan, Update,   *)
(* Autoremove and Health records are RUNNING together, except a mutation   *)
(* and the Health check it is handing over to; a reserved VMID has one     *)
(* Restore and, besides it, at most a Health check.                        *)
VmidExclusion ==
  \A t \in Target : \A u \in Peers(t) :
    /\ \A k, l \in Kind : Running(k, t) /\ Running(l, u) =>
         \/ k = l /\ t = u
         \/ /\ frame.point = "claimed"
            /\ {record[k][t], record[l][u]} \subseteq {frame.attempt, frame.claim}
    /\ restore[t] # "none" =>
         /\ \A k \in Kind \ {"health"} : ~Running(k, u)
         /\ restore[u] # "none" => t = u

(* Exclusion of the work itself, not of its records: cancellation reaches  *)
(* a task only at its next await, yet of the tasks still working on a VMID *)
(* there is never more than one, and none mutates while a Restore owns it. *)
Working(a) == Active(a) /\ task[a].phase # "claimed" /\ a # frame.attempt

OneWorker ==
  \A a, b \in Attempt :
    /\ Working(a) /\ Working(b) /\ task[b].target \in Peers(task[a].target)
         => a = b
    /\ Working(a) /\ task[a].kind \in Mutation => ~Reserved(task[a].target)

(* A RUNNING record blocks its VMID for every later call, so until the     *)
(* entry is unloaded there is a live task that will settle it.             *)
RunningIsWorkedOn ==
  ~unloaded => \A k \in Kind, t \in Target : Running(k, t) =>
    LET a == record[k][t] IN
      Active(a) /\ task[a].kind = k /\ task[a].target = t

(* No Scan result, cleanup evidence or Health verdict is ever published by *)
(* an attempt that was under way when its guest was seen stopped or gone,  *)
(* or when a Restore was submitted for it.                                 *)
NothingOutdated == outdated = {}

(* The plan an Update runs is the plan the operator approved: shown by     *)
(* Review and approved by its token, or named by its scan attempt from a   *)
(* card, and never one that a later scan put in its place.                 *)
ConfirmedPlanOnly ==
  /\ \A t \in Target : plan[t].reviewed => plan[t].confirmed
  /\ \A a \in Attempt : Active(a) /\ task[a].kind = "update" => task[a].confirmed

(* Once the entry is unloaded no task begins in the abandoned manager: in  *)
(* particular no Health check follows the mutations it interrupts.         *)
UnloadStartsNothing ==
  [][unloaded => \A a \in Attempt : Live(a)' => Live(a)]_vars

(* Every accepted attempt comes to an end, whatever it waits for.          *)
AttemptsEnd == \A a \in Attempt : Live(a) ~> ~Live(a)

(* Each record of an Update or Autoremove shows the life of one attempt at *)
(* a time: a task that lost its record to a prune or to a later attempt    *)
(* neither settles it nor moves it on.                                     *)
StageOf(k, t) == IF Running(k, t) THEN task[record[k][t]].phase ELSE record[k][t]
SkipOf(k, t)  == Running(k, t) /\ task[record[k][t]].skip

Life(k, t) == INSTANCE MutationAttempt WITH stage <- StageOf(k, t), skip <- SkipOf(k, t)

ImplementsAttempts ==
  /\ \A k \in Mutation, t \in Target : Life(k, t)!Init
  /\ [][\A k \in Mutation, t \in Target : [Life(k, t)!Next]_(Life(k, t)!vars)]_vars

(* The manager implements VmidOwnership.                                   *)
WorkOf(v) ==
  IF frame.point = "claimed" /\ VmidOf[task[frame.attempt].target] = v
    THEN task[frame.attempt].kind
    ELSE IF \E k \in Kind, t \in Target : VmidOf[t] = v /\ Running(k, t)
           THEN CHOOSE k \in Kind : \E t \in Target : VmidOf[t] = v /\ Running(k, t)
           ELSE "none"

Ownership == INSTANCE VmidOwnership WITH
  work     <- [v \in Vmid |-> WorkOf(v)],
  reserved <- [v \in Vmid |-> \E t \in Target : VmidOf[t] = v /\ restore[t] # "none"]

ImplementsOwnership == Ownership!Spec
=============================================================================

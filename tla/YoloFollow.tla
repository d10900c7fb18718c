----------------------------- MODULE YoloFollow -----------------------------
(***************************************************************************)
(* Easy Update with autoremove ("YOLO"), composed with the package manager *)
(* it follows: easy_update.py and the listeners of coordinator.py.         *)
(*                                                                         *)
(* An accepted Easy Update may leave one task behind that waits until the  *)
(* manager's state lets Autoremove start or rules it out.  It sleeps on an *)
(* asyncio.Event that every publication of the manager and every refresh   *)
(* sets, so each action of PackageManager is taken here together with what *)
(* it publishes.                                                           *)
(***************************************************************************)
EXTENDS PackageManager

CONSTANTS Follow,   \* the follows that may be alive at once (bounds an instance)
          MayFail   \* whether refreshes may fail (bounds an instance)

ASSUME FollowAssumption == /\ MayFail \in BOOLEAN
                           /\ \A t \in Target : "cleanup" \in Calls[t]

VARIABLES
  follow,     \* the tasks of async_start_post_update_autoremove
  current     \* coordinator.last_update_success

yoloVars == <<vars, follow, current>>

(* own: the target's Update record still has this follow's last_attempt.   *)
IdleFollow == [target |-> None, wake |-> FALSE, own |-> FALSE]
FollowTask == [target : Target \cup {None}, wake : BOOLEAN, own : BOOLEAN]

Waiting(f)  == follow[f].target # None
Sleeping(f) == Waiting(f) /\ ~follow[f].wake

YoloInit == /\ Init
            /\ follow = [f \in Follow |-> IdleFollow]
            /\ current = TRUE

-----------------------------------------------------------------------------
(***************************************************************************)
(* Publications.  A record keeps its last_attempt only while it settles.   *)
(***************************************************************************)
SameAttempt(t) ==
  \/ record'["update"][t] = record["update"][t]
  \/ Running("update", t) /\ record'["update"][t] \in {"success", "failed"}

Told(f, published) ==
  IF Waiting(f)
    THEN [follow[f] EXCEPT !.wake = @ \/ published,
                           !.own  = @ /\ SameAttempt(follow[f].target)]
    ELSE follow[f]

(* async_update_listeners, if the step that is taken calls it. *)
Notify(published) == follow' = [f \in Follow |-> Told(f, published)]

(* A step of the manager, and whether it ends in _on_state_change. *)
Publishes(published) == Notify(published) /\ UNCHANGED current

-----------------------------------------------------------------------------
(***************************************************************************)
(* decide().                                                               *)
(***************************************************************************)
(* Acceptance drops the evidence, so that none is older than the attempt.  *)
Removable(t) == /\ record["update"][t] = "success"
                /\ evidence[t] = "removable" /\ restore[t] = "none"

Busy(t) == \E k \in {"health", "scan", "cleanup"} : Running(k, t)

(* Mutants of Waits: it also waits for evidence to appear; for a Restore   *)
(* to give the guest back.                                                 *)
WaitsForEvidence(f) == LET t == follow[f].target IN
  /\ current /\ follow[f].own
  /\ Running("update", t) \/ evidence[t] # "removable" \/ (Removable(t) /\ Busy(t))
WaitsForRestore(f) == LET t == follow[f].target IN
  /\ current /\ follow[f].own
  /\ Running("update", t) \/ restore[t] # "none" \/ (Removable(t) /\ Busy(t))

Waits(f) == LET t == follow[f].target IN
  /\ current /\ follow[f].own
  /\ Running("update", t) \/ (Removable(t) /\ Busy(t))

(* Mutant of Starts: the Update record is not compared with the attempt. *)
StartsForAny(f) == LET t == follow[f].target IN
  current /\ Removable(t) /\ ~Busy(t) /\ upstream[t] = "running"

Starts(f) == LET t == follow[f].target IN
  /\ current /\ follow[f].own
  /\ Removable(t) /\ ~Busy(t) /\ upstream[t] = "running"

(* Event.clear, decide, and back to Event.wait. *)
FollowWaits(f) ==
  /\ Quiet /\ Waiting(f) /\ follow[f].wake /\ Waits(f)
  /\ follow' = [follow EXCEPT ![f].wake = FALSE]
  /\ UNCHANGED <<vars, current>>

End(f) == follow' = [follow EXCEPT ![f] = IdleFollow]

FollowStops(f) ==
  /\ Quiet /\ Waiting(f) /\ follow[f].wake /\ ~Waits(f) /\ ~Starts(f)
  /\ End(f)
  /\ UNCHANGED <<vars, current>>

(* async_start_autoremove has the last word; its refusal is logged. *)
FollowStarts(f) ==
  /\ Quiet /\ Waiting(f) /\ follow[f].wake /\ Starts(f)
  /\ LET t == follow[f].target IN
       /\ IF Idle(t) THEN \E a \in Attempt : AcceptAutoremove(t, a)
                     ELSE UNCHANGED vars
       /\ follow' = [g \in Follow |-> IF g = f THEN IdleFollow ELSE Told(g, Idle(t))]
  /\ UNCHANGED current

(* AUTOREMOVE_OBSERVATION_SECONDS have passed. *)
FollowTimesOut(f) ==
  /\ Quiet /\ Waiting(f)
  /\ End(f)
  /\ UNCHANGED <<vars, current>>

-----------------------------------------------------------------------------
(***************************************************************************)
(* The manager's steps.                                                    *)
(***************************************************************************)
(* hubinet_ops.easy_update: what was accepted may be followed at once.  An *)
(* entity is unavailable, and each service refuses, on failed refreshes.   *)
EasyUpdateCall(t, a, skip) ==
  /\ current /\ EasyUpdate(t, a, skip, FALSE)
  /\ \/ Publishes(TRUE)
     \/ /\ Idle(t)
        /\ \E f \in Follow :
             /\ ~Waiting(f)
             /\ follow' = [g \in Follow |->
                  IF g = f THEN [target |-> t, wake |-> FALSE, own |-> TRUE]
                           ELSE Told(g, TRUE)]
        /\ UNCHANGED current

(* The Update button, its Review and a card's call accept an Update just   *)
(* as an unfollowed service call does, which stands for them.              *)
YoloStart(t) == \E a \in Attempt :
  \/ /\ current
     /\ \/ "scan" \in Calls[t] /\ StartScan(t, a)
        \/ "cleanup" \in Calls[t] /\ StartAutoremove(t, a)
        \/ "health" \in Calls[t] /\ (StartHealth(t, a) \/ HealthNotStarted(t))
     /\ Publishes(TRUE)
  \/ "service" \in Calls[t] /\ \E skip \in BOOLEAN : EasyUpdateCall(t, a, skip)

YoloRestoreStep(t) ==
  \/ /\ \/ "restore" \in Calls[t] /\ current /\ BeginRestore(t)
        \/ InvalidateRestoreTarget(t) \/ EndRestore(t)
     /\ Publishes(TRUE)
  \/ RestoreUncertain(t) /\ Publishes(FALSE)

(* An attempt publishes what it settles, if the record is still its own.   *)
YoloTaskStep(a) ==
  \/ /\ AcquireScanSlot(a) \/ AcquireUpdateSlot(a) \/ ScanRead(a) \/ MutationStep(a)
     /\ Publishes(FALSE)
  \/ /\ ScanFailed(a) \/ MutationFailed(a) \/ HealthDone(a)
        \/ \E seen \in Cleanup, pending \in BOOLEAN : ScanDone(a, seen, pending)
     /\ Publishes(Owns(a))
  \/ CancelDelivered(a) /\ Publishes(Owns(a) /\ task[a].kind \in Mutation)
  \/ \E seen \in Cleanup, h \in Attempt :
       /\ MutationDone(a, seen, h)
       /\ Publishes(Owns(a) \/ Publishable(task[a].target, seen) # "none")

YoloFinishStep ==
  \/ PublishSuccess /\ Publishes(TRUE)
  \/ \E started \in BOOLEAN :
       StartClaimedHealth(started) /\ Publishes(Owns(frame.claim) /\ ~started)

(* A refresh tells its listeners when it succeeds and when it first fails. *)
YoloRefresh == \E seen \in [Target -> Observed] :
  Refresh(seen) /\ current' = TRUE /\ Notify(TRUE)

RefreshFails ==
  /\ MayFail /\ ~unloaded /\ Quiet /\ current
  /\ UNCHANGED vars
  /\ current' = FALSE /\ Notify(TRUE)

(* Mutant of YoloUnload: a follow outlives the entry it belongs to. *)
YoloUnloadFollowed == Unload /\ Publishes(FALSE)

(* A follow is one of the entry's background tasks. *)
YoloUnload == Unload /\ follow' = [f \in Follow |-> IdleFollow] /\ UNCHANGED current

(* An entry is set up by a refresh that succeeds. *)
YoloReload == Reload /\ Notify(FALSE) /\ current' = TRUE

-----------------------------------------------------------------------------
FollowStep(f) == FollowWaits(f) \/ FollowStops(f) \/ FollowStarts(f)

YoloNext ==
  \/ \E a \in Attempt : YoloTaskStep(a)
  \/ YoloFinishStep
  \/ \E t \in Target : YoloStart(t) \/ YoloRestoreStep(t)
  \/ YoloRefresh \/ RefreshFails \/ YoloUnload \/ YoloReload
  \/ \E f \in Follow : FollowStep(f) \/ FollowTimesOut(f)

YoloSpec == YoloInit /\ [][YoloNext]_yoloVars

(***************************************************************************)
(* As in PackageManager; and a follow that is woken again and again comes  *)
(* to its decision.  Its deadline is not fair: nothing relies on it.       *)
(***************************************************************************)
YoloFairSpec ==
  /\ YoloSpec
  /\ \A a \in Attempt : SF_yoloVars(YoloTaskStep(a))
  /\ WF_yoloVars(YoloFinishStep)
  /\ \A f \in Follow : /\ SF_yoloVars(FollowStops(f) \/ FollowStarts(f))
                       /\ WF_yoloVars(FollowWaits(f))

-----------------------------------------------------------------------------
(* No lost wake-up: a follow that sleeps does so while something of its    *)
(* target is RUNNING, so that the publication of its end is still to come. *)
SleepHasCause ==
  Quiet => \A f \in Follow : Sleeping(f) =>
    \E k \in Kind : Running(k, follow[f].target)

(* An Autoremove that a follow starts comes after the very Update that was *)
(* followed: it succeeded, no other was accepted since, and nothing else   *)
(* works on the target any more, the Health check of that Update included. *)
FollowTakesTurn ==
  [][\A f \in Follow, a \in Attempt : LET t == follow[f].target IN
       /\ Waiting(f) /\ ~Live(a) /\ follow'[f] = IdleFollow
       /\ task'[a].kind = "cleanup" /\ task'[a].target = t
       => /\ record["update"][t] = "success" /\ follow[f].own
          /\ \A b \in Attempt : Active(b) => task[b].target # t]_yoloVars

(* A follow does nothing to the manager that a call could not do: it never *)
(* acts in an entry that was unloaded, nor past a guard of the manager.    *)
ImplementsManager == Spec

(* A follow ends before its deadline, whatever happens to its guest, as    *)
(* soon as what it waits for has come to an end.                           *)
FollowEnds == \A f \in Follow : Waiting(f) ~> ~Waiting(f)
=============================================================================

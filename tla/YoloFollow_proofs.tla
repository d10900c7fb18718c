------------------------- MODULE YoloFollow_proofs --------------------------
(***************************************************************************)
(* Proofs about YoloFollow, for every set of targets, attempts, calls and  *)
(* follows.                                                                *)
(***************************************************************************)
EXTENDS YoloFollow, PackageManager_proofs

FollowTypes == follow \in [Follow -> FollowTask] /\ current \in BOOLEAN

(* An idle attempt says nothing of the task it was.                        *)
IdleIsBlank == \A a \in Attempt : ~Live(a) => task[a].kind = "none"

(* A follow is the entry's, and dies with it.                              *)
UnloadedFollows == unloaded => \A f \in Follow : ~Waiting(f)

(* SleepHasCause does not wait for the loop to be idle.                    *)
SleepCaused == \A f \in Follow : Sleeping(f) =>
                 \E k \in Kind : Running(k, follow[f].target)

YoloInv == FollowTypes /\ UnloadedFollows /\ SleepCaused

-----------------------------------------------------------------------------
(* What a publication leaves of a follow.                                  *)
LEMMA Heard ==
  ASSUME FollowTypes, NEW p \in BOOLEAN, Notify(p)
  PROVE  /\ follow' \in [Follow -> FollowTask]
         /\ \A f \in Follow : /\ follow'[f].target = follow[f].target
                              /\ Waiting(f)' <=> Waiting(f)
                              /\ Sleeping(f)' => Sleeping(f) /\ ~p
<1>1. ASSUME NEW f \in Follow
      PROVE  /\ Told(f, p) \in FollowTask
             /\ Told(f, p).target = follow[f].target
             /\ Waiting(f) => Told(f, p).wake = (follow[f].wake \/ p)
             /\ ~Waiting(f) => Told(f, p) = follow[f]
  <2>1. follow[f] \in FollowTask
    BY DEF FollowTypes
  <2>2. SameAttempt(follow[f].target) \in BOOLEAN
    BY DEF SameAttempt
  <2> QED
    BY <2>1, <2>2 DEF Told, FollowTask
<1>2. follow' = [f \in Follow |-> Told(f, p)]
  BY DEF Notify
<1> QED
  BY <1>1, <1>2 DEF Waiting, Sleeping

(* A follow that sleeps on after a step had a cause before it; one that    *)
(* the step could not wake has it still.                                   *)
LEMMA Hearing ==
  ASSUME YoloInv, NEW p \in BOOLEAN, Notify(p),
         p \/ record' = record, unloaded' => unloaded, current' \in BOOLEAN
  PROVE  YoloInv'
<1>1. FollowTypes'
  BY Heard DEF YoloInv, FollowTypes
<1>2. UnloadedFollows'
  BY Heard DEF YoloInv, UnloadedFollows
<1>3. SleepCaused'
  BY Heard DEF YoloInv, SleepCaused, Running
<1> QED
  BY <1>1, <1>2, <1>3 DEF YoloInv

(* The same of a follow's own steps, which tell nobody.                    *)
LEMMA Deciding ==
  ASSUME YoloInv, NEW f \in Follow, NEW r \in FollowTask,
         follow' = [follow EXCEPT ![f] = r],
         r = IdleFollow \/ (r.target = follow[f].target /\ Waits(f)),
         record' = record, unloaded' = unloaded, UNCHANGED current
  PROVE  YoloInv'
<1>1. FollowTypes'
  BY DEF YoloInv, FollowTypes
<1>2. UnloadedFollows'
  BY DEF YoloInv, FollowTypes, UnloadedFollows, Waiting, IdleFollow
<1>3. SleepCaused'
  BY DEF YoloInv, FollowTypes, SleepCaused, Sleeping, Waiting, IdleFollow, Waits, Busy, Running, Kind
<1> QED
  BY <1>1, <1>2, <1>3 DEF YoloInv

LEMMA YoloInitInv == YoloInit => Init /\ YoloInv
BY DEF YoloInit, YoloInv, FollowTypes, FollowTask, UnloadedFollows, SleepCaused,
       Sleeping, Waiting, IdleFollow

-----------------------------------------------------------------------------
(***************************************************************************)
(* The manager's steps, and what each of them publishes.                   *)
(***************************************************************************)
LEMMA TaskTells ==
  ASSUME YoloInv, NEW a \in Attempt, YoloTaskStep(a)
  PROVE  TaskStep(a) /\ YoloInv'
<1>1. CASE /\ AcquireScanSlot(a) \/ AcquireUpdateSlot(a) \/ ScanRead(a) \/ MutationStep(a)
           /\ Publishes(FALSE)
  <2>1. UNCHANGED <<record, unloaded, current>> /\ Notify(FALSE)
    BY <1>1 DEF AcquireScanSlot, AcquireUpdateSlot, ScanRead, MutationStep, managerVars, Publishes
  <2> QED
    BY <1>1, <2>1, Hearing DEF TaskStep, YoloInv, FollowTypes
<1>2. CASE /\ \/ ScanFailed(a) \/ MutationFailed(a) \/ HealthDone(a)
              \/ \E seen \in Cleanup, pending \in BOOLEAN : ScanDone(a, seen, pending)
           /\ Publishes(Owns(a))
  <2>1. /\ UNCHANGED <<unloaded, current>> /\ Notify(Owns(a)) /\ Owns(a) \in BOOLEAN
        /\ Owns(a) \/ record' = record
    BY <1>2 DEF ScanFailed, MutationFailed, HealthDone, ScanDone, Publishes, Owns
  <2> QED
    BY <1>2, <2>1, Hearing DEF TaskStep, YoloInv, FollowTypes
<1>3. CASE CancelDelivered(a) /\ Publishes(Owns(a) /\ task[a].kind \in Mutation)
  <2>1. /\ UNCHANGED <<unloaded, current>> /\ Notify(Owns(a) /\ task[a].kind \in Mutation)
        /\ (Owns(a) /\ task[a].kind \in Mutation) \/ record' = record
    BY <1>3 DEF CancelDelivered, Publishes
  <2> QED
    BY <1>3, <2>1, Hearing DEF TaskStep, YoloInv, FollowTypes
<1>4. ASSUME NEW seen \in Cleanup, NEW h \in Attempt, MutationDone(a, seen, h),
             Publishes(Owns(a) \/ Publishable(task[a].target, seen) # "none")
      PROVE  TaskStep(a) /\ YoloInv'
  <2>1. /\ UNCHANGED <<unloaded, current>>
        /\ Notify(Owns(a) \/ Publishable(task[a].target, seen) # "none")
        /\ Owns(a) \/ record' = record
    BY <1>4 DEF MutationDone, Publishes
  <2> QED
    BY <1>4, <2>1, Hearing DEF TaskStep, YoloInv, FollowTypes
<1> QED
  BY <1>1, <1>2, <1>3, <1>4 DEF YoloTaskStep

LEMMA FinishTells ==
  ASSUME YoloInv, YoloFinishStep
  PROVE  FinishStep /\ YoloInv'
<1>1. CASE PublishSuccess /\ Publishes(TRUE)
  BY <1>1, Hearing DEF PublishSuccess, Publishes, FinishStep, YoloInv, FollowTypes
<1>2. ASSUME NEW started \in BOOLEAN, StartClaimedHealth(started),
             Publishes(Owns(frame.claim) /\ ~started)
      PROVE  FinishStep /\ YoloInv'
  <2>1. /\ UNCHANGED <<unloaded, current>> /\ Notify(Owns(frame.claim) /\ ~started)
        /\ (Owns(frame.claim) /\ ~started) \/ record' = record
    BY <1>2 DEF StartClaimedHealth, Publishes
  <2> QED
    BY <1>2, <2>1, Hearing DEF FinishStep, YoloInv, FollowTypes
<1> QED
  BY <1>1, <1>2 DEF YoloFinishStep

(* An accepted Easy Update may leave a follow behind, which its own record *)
(* is a cause to sleep for.                                                *)
LEMMA EasyUpdateTells ==
  ASSUME Inv, YoloInv, NEW t \in Target, NEW a \in Attempt, NEW skip \in BOOLEAN,
         EasyUpdateCall(t, a, skip)
  PROVE  EasyUpdate(t, a, skip, FALSE) /\ YoloInv'
<1>1. EasyUpdate(t, a, skip, FALSE) /\ UNCHANGED <<unloaded, current>> /\ ~unloaded
  BY DEF EasyUpdateCall, EasyUpdate, AcceptUpdate, MarkReviewed, MayCall, Publishes
<1>2. CASE Publishes(TRUE)
  BY <1>1, <1>2, Hearing DEF Publishes, YoloInv, FollowTypes
<1>3. ASSUME Idle(t), NEW f \in Follow, ~Waiting(f),
             follow' = [g \in Follow |->
               IF g = f THEN [target |-> t, wake |-> FALSE, own |-> TRUE] ELSE Told(g, TRUE)]
      PROVE  YoloInv'
  <2>1. record'["update"][t] = a
    BY <1>1, <1>3 DEF EasyUpdate, AcceptUpdate, Inv, TypeOK, Kind
  <2>2. \A g \in Follow : /\ Told(g, TRUE) \in FollowTask
                          /\ Waiting(g) => Told(g, TRUE).wake
                          /\ ~Waiting(g) => Told(g, TRUE) = follow[g]
    <3> SUFFICES ASSUME NEW g \in Follow
                 PROVE  /\ Told(g, TRUE) \in FollowTask
                        /\ Waiting(g) => Told(g, TRUE).wake
                        /\ ~Waiting(g) => Told(g, TRUE) = follow[g]
      OBVIOUS
    <3>1. follow[g] \in FollowTask /\ SameAttempt(follow[g].target) \in BOOLEAN
      BY DEF YoloInv, FollowTypes, SameAttempt
    <3> QED
      BY <3>1 DEF Told, FollowTask
  <2>3. FollowTypes'
    BY <1>1, <1>3, <2>2 DEF YoloInv, FollowTypes, FollowTask
  <2>4. UnloadedFollows'
    BY <1>1 DEF UnloadedFollows
  <2>5. ASSUME NEW g \in Follow, Sleeping(g)' PROVE \E k \in Kind : Running(k, follow[g].target)'
    <3>1. CASE g = f
      <4>1. follow'[g].target = t /\ "update" \in Kind
        BY <1>3, <3>1 DEF Kind
      <4> QED
        BY <2>1, <4>1 DEF Running
    <3>2. CASE g # f
      BY <1>3, <2>2, <2>5, <3>2 DEF Sleeping, Waiting
    <3> QED
      BY <3>1, <3>2
  <2> QED
    BY <2>3, <2>4, <2>5 DEF YoloInv, SleepCaused
<1> QED
  BY <1>1, <1>2, <1>3 DEF EasyUpdateCall

LEMMA StartTells ==
  ASSUME Inv, YoloInv, NEW t \in Target, YoloStart(t)
  PROVE  Start(t) /\ YoloInv'
<1>1. PICK a \in Attempt :
  \/ /\ current
     /\ \/ "scan" \in Calls[t] /\ StartScan(t, a)
        \/ "cleanup" \in Calls[t] /\ StartAutoremove(t, a)
        \/ "health" \in Calls[t] /\ (StartHealth(t, a) \/ HealthNotStarted(t))
     /\ Publishes(TRUE)
  \/ "service" \in Calls[t] /\ \E skip \in BOOLEAN : EasyUpdateCall(t, a, skip)
  BY DEF YoloStart
<1>2. ASSUME NEW skip \in BOOLEAN, "service" \in Calls[t], EasyUpdateCall(t, a, skip)
      PROVE  Start(t) /\ YoloInv'
  <2>1. EasyUpdate(t, a, skip, FALSE) /\ YoloInv'
    BY <1>2, EasyUpdateTells
  <2>2. (IF FALSE THEN "card" ELSE "service") \in Calls[t]
    BY <1>2
  <2> QED
    BY <2>1, <2>2 DEF Start
<1>3. CASE "scan" \in Calls[t] /\ StartScan(t, a) /\ Publishes(TRUE)
  BY <1>3, Hearing DEF Start, StartScan, Publishes, YoloInv, FollowTypes
<1>4. CASE "cleanup" \in Calls[t] /\ StartAutoremove(t, a) /\ Publishes(TRUE)
  BY <1>4, Hearing DEF Start, StartAutoremove, AcceptAutoremove, Publishes, YoloInv, FollowTypes
<1>5. CASE "health" \in Calls[t] /\ StartHealth(t, a) /\ Publishes(TRUE)
  BY <1>5, Hearing DEF Start, StartHealth, Publishes, YoloInv, FollowTypes
<1>6. CASE "health" \in Calls[t] /\ HealthNotStarted(t) /\ Publishes(TRUE)
  BY <1>6, Hearing DEF Start, HealthNotStarted, Publishes, YoloInv, FollowTypes
<1> QED
  BY <1>1, <1>2, <1>3, <1>4, <1>5, <1>6

LEMMA RestoreTells ==
  ASSUME YoloInv, NEW t \in Target, YoloRestoreStep(t)
  PROVE  RestoreStep(t) /\ YoloInv'
<1>1. CASE /\ \/ "restore" \in Calls[t] /\ current /\ BeginRestore(t)
              \/ InvalidateRestoreTarget(t) \/ EndRestore(t)
           /\ Publishes(TRUE)
  <2>1. UNCHANGED <<unloaded, current>> /\ Notify(TRUE)
    BY <1>1 DEF BeginRestore, InvalidateRestoreTarget, EndRestore, Publishes
  <2> QED
    BY <1>1, <2>1, Hearing DEF RestoreStep, YoloInv, FollowTypes
<1>2. CASE RestoreUncertain(t) /\ Publishes(FALSE)
  BY <1>2, Hearing DEF RestoreStep, RestoreUncertain, Publishes, YoloInv, FollowTypes
<1> QED
  BY <1>1, <1>2 DEF YoloRestoreStep

LEMMA LifeTells ==
  ASSUME YoloInv, YoloRefresh \/ RefreshFails \/ YoloUnload \/ YoloReload
  PROVE  [Next]_vars /\ YoloInv'
<1>1. CASE YoloRefresh
  <2>1. PICK seen \in [Target -> Observed] : Refresh(seen) /\ current' = TRUE /\ Notify(TRUE)
    BY <1>1 DEF YoloRefresh
  <2>2. UNCHANGED unloaded
    BY <2>1 DEF Refresh
  <2> QED
    BY <2>1, <2>2, Hearing DEF Next
<1>2. CASE RefreshFails
  BY <1>2, Hearing DEF RefreshFails, vars, managerVars
<1>3. CASE YoloUnload
  <2>1. Unload /\ follow' = [f \in Follow |-> IdleFollow] /\ UNCHANGED current
    BY <1>3 DEF YoloUnload
  <2>2. IdleFollow \in FollowTask /\ IdleFollow.target = None
    BY DEF IdleFollow, FollowTask
  <2>3. \A f \in Follow : follow'[f].target = None
    BY <2>1, <2>2
  <2> QED
    BY <2>1, <2>2, <2>3 DEF Next, YoloInv, FollowTypes, UnloadedFollows, SleepCaused, Sleeping, Waiting
<1>4. CASE YoloReload
  <2>1. Reload /\ Notify(FALSE) /\ current' = TRUE /\ unloaded /\ unloaded' = FALSE
    BY <1>4 DEF YoloReload, Reload
  <2>2. /\ follow' \in [Follow -> FollowTask]
        /\ \A f \in Follow : ~Waiting(f)'
    BY <2>1, Heard DEF YoloInv, UnloadedFollows
  <2> QED
    BY <2>1, <2>2 DEF Next, YoloInv, FollowTypes, UnloadedFollows, SleepCaused, Sleeping
<1> QED
  BY <1>1, <1>2, <1>3, <1>4

(* A follow that starts Autoremove is of a loaded entry, so that it calls  *)
(* what the Autoremove button may call.                                    *)
LEMMA FollowTells ==
  ASSUME YoloInv, NEW f \in Follow, FollowStep(f) \/ FollowTimesOut(f)
  PROVE  [Next]_vars /\ YoloInv'
<1>1. IdleFollow \in FollowTask /\ follow[f] \in FollowTask
  BY DEF IdleFollow, FollowTask, YoloInv, FollowTypes
<1>2. CASE FollowWaits(f)
  <2>1. follow' = [follow EXCEPT ![f] = [follow[f] EXCEPT !.wake = FALSE]]
    BY <1>2 DEF FollowWaits
  <2>2. [follow[f] EXCEPT !.wake = FALSE] \in FollowTask
    BY <1>1 DEF FollowTask
  <2>3. [follow[f] EXCEPT !.wake = FALSE].target = follow[f].target
    BY <1>1 DEF FollowTask
  <2> HIDE DEF FollowTask
  <2>4. UNCHANGED <<record, unloaded, current>> /\ UNCHANGED vars /\ Waits(f)
    BY <1>2 DEF FollowWaits, vars, managerVars
  <2> QED
    BY <2>1, <2>2, <2>3, <2>4, Deciding
<1>3. CASE FollowStops(f) \/ FollowTimesOut(f)
  BY <1>1, <1>3, Deciding DEF FollowStops, FollowTimesOut, End, vars, managerVars
<1>4. CASE FollowStarts(f)
  <2> DEFINE t == follow[f].target
  <2>1. /\ Waiting(f) /\ Quiet /\ UNCHANGED current
        /\ IF Idle(t) THEN \E a \in Attempt : AcceptAutoremove(t, a) ELSE UNCHANGED vars
        /\ follow' = [g \in Follow |-> IF g = f THEN IdleFollow ELSE Told(g, Idle(t))]
    BY <1>4 DEF FollowStarts
  <2>2. t \in Target /\ ~unloaded
    BY <1>1, <2>1 DEF Waiting, FollowTask, YoloInv, UnloadedFollows
  <2>3. [Next]_vars /\ UNCHANGED unloaded /\ (Idle(t) \/ record' = record)
    <3>1. ASSUME NEW a \in Attempt, AcceptAutoremove(t, a) PROVE Next /\ UNCHANGED unloaded
      <4>1. Start(t)
        BY <2>1, <2>2, <3>1, FollowAssumption DEF Start, StartAutoremove, MayCall
      <4> QED
        BY <2>2, <3>1, <4>1 DEF Next, AcceptAutoremove
    <3> QED
      BY <2>1, <3>1 DEF vars, managerVars
  <2>4. ASSUME NEW g \in Follow
        PROVE  /\ Told(g, Idle(t)) \in FollowTask
               /\ Told(g, Idle(t)).target = follow[g].target
               /\ Waiting(g) => Told(g, Idle(t)).wake = (follow[g].wake \/ Idle(t))
    <3>1. follow[g] \in FollowTask /\ SameAttempt(follow[g].target) \in BOOLEAN /\ Idle(t) \in BOOLEAN
      BY DEF YoloInv, FollowTypes, SameAttempt, Idle
    <3> QED
      BY <3>1 DEF Told, FollowTask
  <2>5. FollowTypes' /\ UnloadedFollows'
    BY <1>1, <2>1, <2>2, <2>3, <2>4 DEF YoloInv, FollowTypes, UnloadedFollows
  <2>6. ASSUME NEW g \in Follow, Sleeping(g)' PROVE \E k \in Kind : Running(k, follow[g].target)'
    <3>1. g # f
      BY <2>1, <2>6 DEF Sleeping, Waiting, IdleFollow
    <3>2. follow'[g].target = follow[g].target /\ Sleeping(g) /\ ~Idle(t)
      BY <2>1, <2>4, <2>6, <3>1 DEF Sleeping, Waiting
    <3> QED
      BY <2>3, <3>2 DEF YoloInv, SleepCaused, Running
  <2> QED
    BY <2>3, <2>5, <2>6 DEF YoloInv, SleepCaused
<1> QED
  BY <1>2, <1>3, <1>4 DEF FollowStep

(* Every step is one that the manager may take on its own, or none of its. *)
LEMMA YoloStep == Inv /\ YoloInv /\ [YoloNext]_yoloVars => [Next]_vars /\ YoloInv'
<1> SUFFICES ASSUME Inv, YoloInv, [YoloNext]_yoloVars PROVE [Next]_vars /\ YoloInv'
  OBVIOUS
<1>1. CASE UNCHANGED yoloVars
  BY <1>1 DEF yoloVars, vars, managerVars, YoloInv, FollowTypes, UnloadedFollows, SleepCaused,
              Sleeping, Waiting, Running
<1>2. CASE \E a \in Attempt : YoloTaskStep(a)
  BY <1>2, TaskTells DEF Next
<1>3. CASE YoloFinishStep
  BY <1>3, FinishTells DEF Next
<1>4. CASE \E t \in Target : YoloStart(t) \/ YoloRestoreStep(t)
  BY <1>4, StartTells, RestoreTells DEF Next
<1>5. CASE YoloRefresh \/ RefreshFails \/ YoloUnload \/ YoloReload
  BY <1>5, LifeTells
<1>6. CASE \E f \in Follow : FollowStep(f) \/ FollowTimesOut(f)
  BY <1>6, FollowTells
<1> QED
  BY <1>1, <1>2, <1>3, <1>4, <1>5, <1>6 DEF YoloNext

LEMMA YoloInvariance == YoloSpec => []Inv /\ []YoloInv
<1>1. YoloInit => Inv /\ YoloInv
  BY YoloInitInv, InitInv
<1>2. Inv /\ YoloInv /\ [YoloNext]_yoloVars => Inv' /\ YoloInv'
  BY YoloStep, NextInv
<1> QED
  BY <1>1, <1>2, PTL DEF YoloSpec

(* The composition with the follow does nothing to the manager that its    *)
(* other callers could not do: each of its steps is the manager's own, or  *)
(* leaves the manager alone (easy_update.py calls only what buttons call). *)
THEOREM FollowIsACaller == YoloSpec => ImplementsManager
<1>1. YoloInit => Init
  BY YoloInitInv
<1>2. Inv /\ YoloInv /\ [YoloNext]_yoloVars => [Next]_vars
  BY YoloStep
<1> QED
  BY <1>1, <1>2, YoloInvariance, PTL DEF YoloSpec, ImplementsManager, Spec

(* So nothing that the manager guarantees its callers is lost when follows *)
(* are among them: one worker per VMID and none beside a Restore, records  *)
(* that someone settles, nothing published that is outdated, and no plan   *)
(* installed that was not confirmed.                                       *)
THEOREM FollowsBreakNothing ==
  YoloSpec => [](/\ VmidExclusion /\ OneWorker /\ RunningIsWorkedOn
                 /\ NothingOutdated /\ ConfirmedPlanOnly /\ WaitsForHolders)
BY FollowIsACaller, Exclusion, Serialized, NoOrphanRecord, NoOutdatedResult,
   PlansConfirmed, WaitsOnlyForHolders, PTL DEF ImplementsManager

(* The wake-up that a sleeping follow waits for is never lost: something   *)
(* of its target is RUNNING, whose end will be published.                  *)
THEOREM NoLostWakeUp == YoloSpec => []SleepHasCause
<1>1. YoloInv => SleepHasCause
  BY DEF YoloInv, SleepCaused, SleepHasCause
<1> QED
  BY <1>1, YoloInvariance, PTL

-----------------------------------------------------------------------------
(* A task that ends leaves its attempt blank, and only a start fills it.   *)
LEMMA NextBlank ==
  ASSUME Inv, IdleIsBlank, [Next]_vars
  PROVE  IdleIsBlank'
<1>0. task \in [Attempt -> Task]
  BY DEF Inv, TypeOK
<1>1. ASSUME NEW a \in Attempt, task' = [task EXCEPT ![a] = IdleTask] PROVE IdleIsBlank'
  BY <1>0, <1>1 DEF IdleIsBlank, Live, IdleTask
<1>2. ASSUME NEW a \in Attempt, NEW phase \in Phase \ {"idle"}, Live(a), GoTo(a, phase)
      PROVE  IdleIsBlank'
  <2>1. task[a] \in Task /\ task' = [task EXCEPT ![a] = [task[a] EXCEPT !.phase = phase]]
    BY <1>0, <1>2 DEF GoTo
  <2>2. [task[a] EXCEPT !.phase = phase].phase # "idle"
    BY <1>2, <2>1 DEF Task
  <2> QED
    BY <1>0, <2>1, <2>2 DEF IdleIsBlank, Live
<1>3. ASSUME NEW a \in Attempt, NEW k, NEW t, NEW phase \in Phase \ {"idle"}, NEW skip, NEW ok,
             task' = [task EXCEPT ![a] = NewTask(k, t, phase, skip, ok)]
      PROVE  IdleIsBlank'
  BY <1>0, <1>3 DEF IdleIsBlank, Live, NewTask
<1>4. CASE task' = task
  BY <1>4 DEF IdleIsBlank, Live
<1>5. CASE \E a \in Attempt : TaskStep(a)
  <2>1. PICK a \in Attempt : TaskStep(a)
    BY <1>5
  <2>2. CASE AcquireScanSlot(a) \/ AcquireUpdateSlot(a) \/ ScanRead(a) \/ MutationStep(a)
    <3>1. Live(a) /\ {"read", "plan", "snapshot", "mutate", "delete", "observe"} \subseteq Phase \ {"idle"}
      BY <2>2 DEF AcquireScanSlot, AcquireUpdateSlot, ScanRead, MutationStep, Active, Phase
    <3> QED
      BY <1>1, <1>2, <2>2, <3>1 DEF AcquireScanSlot, AcquireUpdateSlot, ScanRead, MutationStep, EndTask
  <2>3. CASE \/ ScanFailed(a) \/ MutationFailed(a) \/ HealthDone(a) \/ CancelDelivered(a)
             \/ \E seen \in Cleanup, pending \in BOOLEAN : ScanDone(a, seen, pending)
    BY <1>1, <2>3 DEF ScanFailed, MutationFailed, HealthDone, CancelDelivered, ScanDone, EndTask
  <2>4. ASSUME NEW seen \in Cleanup, NEW h \in Attempt, MutationDone(a, seen, h) PROVE IdleIsBlank'
    <3>1. "claimed" \in Phase \ {"idle"}
      BY DEF Phase
    <3> QED
      BY <1>1, <1>3, <2>4, <3>1 DEF MutationDone, EndTask
  <2> QED
    BY <2>1, <2>2, <2>3, <2>4 DEF TaskStep
<1>6. CASE FinishStep
  <2>1. CASE PublishSuccess
    BY <1>4, <2>1 DEF PublishSuccess
  <2>2. ASSUME NEW started \in BOOLEAN, StartClaimedHealth(started) PROVE IdleIsBlank'
    <3>1. frame.claim \in Attempt /\ task[frame.claim] \in Task /\ frame.attempt \in Attempt
          /\ frame.claim # frame.attempt
      BY <1>0, <2>2 DEF StartClaimedHealth, Inv, FrameFits
    <3>2. task' = [task EXCEPT ![frame.attempt] = IdleTask, ![frame.claim].phase = "check"]
            \/ task' = [task EXCEPT ![frame.attempt] = IdleTask, ![frame.claim] = IdleTask]
      BY <2>2 DEF StartClaimedHealth
    <3>3. \A b \in Attempt : \/ task'[b] = IdleTask
                             \/ task'[b] = task[b]
                             \/ task'[b].phase = "check"
      BY <1>0, <3>1, <3>2 DEF Task
    <3> QED
      BY <3>3 DEF IdleIsBlank, Live, IdleTask
  <2> QED
    BY <1>6, <2>1, <2>2 DEF FinishStep
<1>7. ASSUME NEW t \in Target, Start(t) PROVE IdleIsBlank'
  <2>1. {"slot", "check"} \subseteq Phase \ {"idle"}
    BY DEF Phase
  <2>2. ASSUME NEW a \in Attempt,
               StartScan(t, a) \/ StartAutoremove(t, a) \/ StartHealth(t, a)
        PROVE  IdleIsBlank'
    <3>1. CASE StartScan(t, a)
      BY <1>3, <2>1, <3>1 DEF StartScan
    <3>2. CASE StartAutoremove(t, a)
      BY <1>3, <2>1, <3>2 DEF StartAutoremove, AcceptAutoremove
    <3>3. CASE StartHealth(t, a)
      BY <1>3, <2>1, <3>3 DEF StartHealth
    <3> QED
      BY <2>2, <3>1, <3>2, <3>3
  <2>3. ASSUME NEW a \in Attempt, NEW skip, NEW ok, AcceptUpdate(t, a, skip, ok)
        PROVE  IdleIsBlank'
    BY <1>3, <2>1, <2>3 DEF AcceptUpdate
  <2>4. ASSUME NEW a \in Attempt, NEW skip, StartUpdate(t, a, skip) PROVE IdleIsBlank'
    BY <2>3, <2>4 DEF StartUpdate
  <2>5. ASSUME NEW a \in Attempt, NEW skip, NEW named, EasyUpdate(t, a, skip, named)
        PROVE  IdleIsBlank'
    BY <1>4, <2>3, <2>5 DEF EasyUpdate, MarkReviewed
  <2>6. ASSUME HealthNotStarted(t) PROVE IdleIsBlank'
    BY <1>4, <2>6 DEF HealthNotStarted
  <2> QED
    BY <1>7, <2>2, <2>4, <2>5, <2>6 DEF Start
<1>8. ASSUME NEW t \in Target, Review(t) PROVE IdleIsBlank'
  BY <1>4, <1>8 DEF Review, ShowPlan, MarkViewed, ConfirmReview, MarkReviewed
<1>9. ASSUME \A b \in Attempt : task'[b].phase = task[b].phase /\ task'[b].kind = task[b].kind
      PROVE  IdleIsBlank'
  BY <1>9 DEF IdleIsBlank, Live
<1>10. ASSUME NEW t \in Target, RestoreStep(t) PROVE IdleIsBlank'
  <2>1. CASE InvalidateRestoreTarget(t)
    <3>1. \A b \in Attempt : task'[b].phase = task[b].phase /\ task'[b].kind = task[b].kind
      BY <1>0, <2>1 DEF InvalidateRestoreTarget, Task
    <3> QED
      BY <1>9, <3>1
  <2> QED
    BY <1>4, <1>10, <2>1 DEF RestoreStep, BeginRestore, EndRestore, RestoreUncertain
<1>11. ASSUME NEW seen \in [Target -> Observed], Refresh(seen) PROVE IdleIsBlank'
  <2>1. ASSUME NEW b \in Attempt
        PROVE  task'[b].phase = task[b].phase /\ task'[b].kind = task[b].kind
    <3> DEFINE gone   == {t \in Target : seen[t] = "absent"}
               halted == {t \in Target : seen[t] = "stopped" /\ Known(t)}
               Drops(k, t) == t \in gone \/ (t \in halted /\ k \in {"scan", "health"})
               c == task[b].cancelled \/ (Owns(b) /\ Drops(task[b].kind, task[b].target))
               o == task[b].outdated \/ seen[task[b].target] # "running"
    <3>1. task'[b] = IF ~Live(b) THEN task[b]
                     ELSE [task[b] EXCEPT !.cancelled = c, !.outdated = o]
      BY <1>11 DEF Refresh
    <3> HIDE DEF c, o
    <3> QED
      BY <1>0, <3>1 DEF Task
  <2> QED
    BY <1>9, <2>1
<1>12. CASE Unload
  <2>1. ASSUME NEW b \in Attempt
        PROVE  task'[b].phase = task[b].phase /\ task'[b].kind = task[b].kind
    <3>1. task'[b] = [task[b] EXCEPT !.cancelled = Live(b)] /\ task[b] \in Task
      BY <1>0, <1>12 DEF Unload
    <3> QED
      BY <3>1 DEF Task
  <2> QED
    BY <1>9, <2>1
<1>13. CASE Reload \/ UNCHANGED vars
  BY <1>4, <1>13 DEF Reload, vars
<1> QED
  BY <1>5, <1>6, <1>7, <1>8, <1>10, <1>11, <1>12, <1>13 DEF Next

LEMMA BlankInvariance == YoloSpec => []IdleIsBlank
<1>1. YoloInit => IdleIsBlank
  BY DEF YoloInit, Init, IdleIsBlank, IdleTask
<1>2. Inv /\ YoloInv /\ IdleIsBlank /\ [YoloNext]_yoloVars => IdleIsBlank'
  BY YoloStep, NextBlank
<1> QED
  BY <1>1, <1>2, YoloInvariance, PTL DEF YoloSpec

(* Told keeps a follow of its target: only an end makes it idle.           *)
LEMMA ToldIsNoEnd ==
  ASSUME YoloInv, NEW f \in Follow, Waiting(f), NEW p \in BOOLEAN, Told(f, p) = IdleFollow
  PROVE  FALSE
<1>1. follow[f] \in FollowTask /\ SameAttempt(follow[f].target) \in BOOLEAN
  BY DEF YoloInv, FollowTypes, SameAttempt
<1>2. Told(f, p).target = follow[f].target
  BY <1>1 DEF Told, FollowTask
<1> QED
  BY <1>2 DEF Waiting, IdleFollow

(* A step that ends a follow is one of the follow's, or the entry's end.   *)
LEMMA FollowEnding ==
  ASSUME YoloInv, YoloNext, NEW f \in Follow, Waiting(f), follow'[f] = IdleFollow
  PROVE  FollowStarts(f) \/ UNCHANGED vars \/ Unload
<1>1. \A p \in BOOLEAN : ~Notify(p)
  BY ToldIsNoEnd DEF Notify
<1>2. \A p \in BOOLEAN : ~Publishes(p)
  BY <1>1 DEF Publishes
<1>3. ~\E a \in Attempt : YoloTaskStep(a)
  <2>1. \A a \in Attempt : ~Publishes(Owns(a)) /\ ~Publishes(Owns(a) /\ task[a].kind \in Mutation)
    BY <1>2 DEF Owns
  <2>2. \A a \in Attempt, s \in Cleanup : ~Publishes(Owns(a) \/ Publishable(task[a].target, s) # "none")
    BY <1>2
  <2> QED
    BY <1>2, <2>1, <2>2 DEF YoloTaskStep
<1>4. ~YoloFinishStep
  <2>1. \A s : ~Publishes(Owns(frame.claim) /\ ~s)
    BY <1>2
  <2> QED
    BY <1>2, <2>1 DEF YoloFinishStep
<1>5. \A t \in Target : ~YoloRestoreStep(t)
  BY <1>2 DEF YoloRestoreStep
<1>6. \A t \in Target : ~YoloStart(t)
  <2>1. \A t \in Target, a \in Attempt, skip \in BOOLEAN : ~EasyUpdateCall(t, a, skip)
    BY <1>2, ToldIsNoEnd DEF EasyUpdateCall
  <2> QED
    BY <1>2, <2>1 DEF YoloStart
<1>7. ~YoloRefresh /\ ~RefreshFails /\ ~YoloReload
  BY <1>1 DEF YoloRefresh, RefreshFails, YoloReload
<1>8. CASE YoloUnload
  BY <1>8 DEF YoloUnload
<1>9. ASSUME NEW g \in Follow, FollowStep(g) \/ FollowTimesOut(g)
      PROVE  FollowStarts(f) \/ UNCHANGED vars
  <2>1. CASE FollowStarts(g) /\ g # f
    <3>1. Idle(follow[g].target) \in BOOLEAN
      BY DEF Idle
    <3>2. follow'[f] = Told(f, Idle(follow[g].target))
      BY <2>1 DEF FollowStarts
    <3> QED
      BY <3>1, <3>2, ToldIsNoEnd
  <2> QED
    BY <1>9, <2>1 DEF FollowStep, FollowWaits, FollowStops, FollowTimesOut
<1> QED
  BY <1>3, <1>4, <1>5, <1>6, <1>7, <1>8, <1>9 DEF YoloNext

(* An Autoremove that a follow starts is that of the Update it followed,   *)
(* on a target on which nothing else is at work (easy_update.py decide and *)
(* the guards of async_start_autoremove).                                  *)
THEOREM FollowsItsTurn == YoloSpec => FollowTakesTurn
<1> DEFINE Turn == \A f \in Follow, a \in Attempt : LET t == follow[f].target IN
       /\ Waiting(f) /\ ~Live(a) /\ follow'[f] = IdleFollow
       /\ task'[a].kind = "cleanup" /\ task'[a].target = t
       => /\ record["update"][t] = "success" /\ follow[f].own
          /\ \A b \in Attempt : Active(b) => task[b].target # t
<1>1. Inv /\ YoloInv /\ IdleIsBlank /\ [YoloNext]_yoloVars => [Turn]_yoloVars
  <2> SUFFICES ASSUME Inv, YoloInv, IdleIsBlank, YoloNext, NEW f \in Follow, NEW a \in Attempt,
                      Waiting(f), ~Live(a), follow'[f] = IdleFollow,
                      task'[a].kind = "cleanup", task'[a].target = follow[f].target
               PROVE  /\ record["update"][follow[f].target] = "success" /\ follow[f].own
                      /\ \A b \in Attempt : Active(b) => task[b].target # follow[f].target
    OBVIOUS
  <2>1. task'[a] # task[a] /\ task[a].kind = "none"
    BY DEF IdleIsBlank
  <2>2. FollowStarts(f)
    <3>1. ~UNCHANGED vars
      BY <2>1 DEF vars
    <3>2. ~Unload
      <4>1. Unload => task'[a].kind = task[a].kind
        <5>1. task \in [Attempt -> Task]
          BY DEF Inv, TypeOK
        <5> QED
          BY <5>1 DEF Unload, Task
      <4> QED
        BY <2>1, <4>1
    <3> QED
      BY <3>1, <3>2, FollowEnding
  <2>3. follow[f].target \in Target
    BY DEF YoloInv, FollowTypes, FollowTask, Waiting
  <2>4. Idle(follow[f].target)
    BY <2>1, <2>2 DEF FollowStarts, vars
  <2>5. record["update"][follow[f].target] = "success" /\ follow[f].own
    BY <2>2 DEF FollowStarts, Starts, Removable
  <2> QED
    BY <2>3, <2>4, <2>5, IdleTarget
<1> QED
  BY <1>1, YoloInvariance, BlankInvariance, PTL DEF YoloSpec, FollowTakesTurn
=============================================================================

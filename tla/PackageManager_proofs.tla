----------------------- MODULE PackageManager_proofs -----------------------
(***************************************************************************)
(* Proofs about PackageManager, for every set of targets, VMIDs, attempts, *)
(* calls and re-entrant publications and every number of slots: its safety *)
(* invariants, that no semaphore is overdrawn, that each step of a task    *)
(* brings it nearer to its end, and that whoever waits for a slot waits    *)
(* for tasks that can go on.                                               *)
(***************************************************************************)
EXTENDS PackageManager, FiniteSetTheorems, TLAPS

(***************************************************************************)
(* The inductive invariant.  Exclusion is a fact about records, the work   *)
(* is done by tasks: the invariant ties the two together, in both          *)
(* directions, and says what the finish call on the stack adds.            *)
(***************************************************************************)
(* An idle attempt is no task's; a live one is of a kind its phase fits.   *)
TasksFit ==
  \A a \in Attempt : Live(a) =>
    /\ task[a].kind \in Kind /\ task[a].target \in Target
    /\ task[a].phase = "read" => task[a].kind = "scan"
    /\ task[a].phase \in {"plan", "snapshot", "mutate", "delete"}
         => task[a].kind \in Mutation
    /\ task[a].phase \in {"check", "claimed"} => task[a].kind = "health"
    /\ task[a].phase = "claimed" => a = frame.claim

(* A task that has not been cancelled owns the record of its target.       *)
TasksOwn ==
  \A a \in Attempt : Active(a) =>
    Owns(a) \/ (frame.point = "published" /\ a = frame.attempt)

FrameFits ==
  IF frame.point = "idle" THEN frame.attempt = None /\ frame.claim = None
  ELSE /\ ~unloaded
       /\ frame.attempt \in Attempt /\ frame.claim \in Attempt
       /\ Active(frame.attempt) /\ task[frame.attempt].kind \in Mutation
       /\ task[frame.attempt].phase = "observe"
       /\ Active(frame.claim) /\ task[frame.claim].phase = "claimed"
       /\ task[frame.claim].target = task[frame.attempt].target
       /\ Owns(frame.claim)
       /\ frame.point = "claimed" => Owns(frame.attempt)

(* Only mutations outlive a stop of their guest, and those are fenced.     *)
OutdatedIsFenced ==
  \A a \in Attempt : Active(a) /\ task[a].outdated =>
    task[a].kind \in Mutation /\ task[a].target \in fenced

UnloadedIsQuiet == unloaded => \A a \in Attempt : ~Active(a)

Inv == /\ TypeOK
       /\ TasksFit
       /\ TasksOwn
       /\ RunningIsWorkedOn
       /\ FrameFits
       /\ VmidExclusion
       /\ OutdatedIsFenced
       /\ NothingOutdated
       /\ UnloadedIsQuiet

-----------------------------------------------------------------------------
LEMMA InitInv == Init => Inv
<1> SUFFICES ASSUME Init PROVE Inv
  OBVIOUS
<1> USE DomainAssumption DEF Init
<1>1. TypeOK
  BY DEF TypeOK, Kind, Settled, Plan, NoPlan, Token, Cleanup, Reservation, Task,
         IdleTask, Phase, Frame, NoFrame, Upstream
<1>2. TasksFit /\ TasksOwn /\ OutdatedIsFenced /\ UnloadedIsQuiet
  BY DEF TasksFit, TasksOwn, OutdatedIsFenced, UnloadedIsQuiet, Active, Live, IdleTask
<1>3. RunningIsWorkedOn
  BY DEF RunningIsWorkedOn, Running, Settled
<1>4. FrameFits
  BY DEF FrameFits, NoFrame
<1>5. VmidExclusion
  BY DEF VmidExclusion, Running, Settled, Peers
<1>6. NothingOutdated
  BY DEF NothingOutdated
<1>7. QED
  BY <1>1, <1>2, <1>3, <1>4, <1>5, <1>6 DEF Inv

(* Nothing works on, or for, a target whose VMID is idle.                  *)
LEMMA IdleTarget ==
  ASSUME Inv, NEW t \in Target, Idle(t)
  PROVE  \A b \in Attempt : Active(b) => task[b].target # t
<1> SUFFICES ASSUME NEW b \in Attempt, Active(b), task[b].target = t
             PROVE  FALSE
  OBVIOUS
<1>1. CASE Owns(b)
  BY <1>1 DEF Owns, Idle, Running, Peers
<1>2. CASE frame.point = "published" /\ b = frame.attempt
  <2>1. Owns(frame.claim) /\ task[frame.claim].target = t /\ frame.claim \in Attempt
    BY <1>2 DEF Inv, FrameFits
  <2>2. QED
    BY <2>1 DEF Owns, Idle, Running, Peers
<1>3. QED
  BY <1>1, <1>2 DEF Inv, TasksOwn

(* What the four starts have in common: a fresh task that owns its record, *)
(* on an idle VMID, while nothing else of the VMID but settled records     *)
(* changes.                                                                *)
LEMMA AcceptInv ==
  ASSUME Inv, NEW t \in Target, NEW a \in Attempt, NEW k \in Kind,
         MayCall, ~Live(a), Idle(t),
         TypeOK',
         \A l \in Kind, u \in Target :
           \/ l = k /\ u = t /\ record'[l][u] = a
           \/ ~(l = k /\ u = t) /\ record'[l][u] = record[l][u]
           \/ ~(l = k /\ u = t) /\ u = t /\ record'[l][u] \in Settled,
         \A b \in Attempt \ {a} : task'[b] = task[b],
         task'[a].kind = k, task'[a].target = t, ~task'[a].cancelled,
         ~task'[a].outdated,
         task'[a].phase = IF k = "health" THEN "check" ELSE "slot",
         fenced \ {t} \subseteq fenced',
         UNCHANGED <<restore, frame, unloaded, outdated>>
  PROVE  Inv'
<1> USE DomainAssumption DEF Inv
<1>a. a # frame.attempt /\ a # frame.claim /\ ~unloaded
  BY DEF FrameFits, Active, Live, MayCall
<1>b. \A b \in Attempt : Active(b) => task[b].target # t
  BY IdleTarget
<1>c. \A b \in Attempt \ {a} : Active(b) /\ Owns(b) => Owns(b)'
  BY <1>b DEF Owns
<1>2. TasksFit'
  BY DEF TasksFit, Live, Mutation
<1>3. TasksOwn'
  BY <1>c DEF TasksOwn, Active, Live, Owns
<1>4. RunningIsWorkedOn'
  BY <1>a DEF RunningIsWorkedOn, Running, Active, Live
<1>5. FrameFits'
  BY <1>a, <1>c DEF FrameFits, Active, Live, Owns
<1>6. VmidExclusion'
  BY DEF VmidExclusion, Idle, Reserved, Running, Peers
<1>7. OutdatedIsFenced'
  BY <1>b DEF OutdatedIsFenced, Active, Live
<1>8. NothingOutdated' /\ UnloadedIsQuiet'
  BY <1>a DEF NothingOutdated, UnloadedIsQuiet
<1>9. QED
  BY <1>2, <1>3, <1>4, <1>5, <1>6, <1>7, <1>8

LEMMA StartScanInv ==
  ASSUME Inv, NEW t \in Target, NEW a \in Attempt, StartScan(t, a)
  PROVE  Inv'
<1>1. TypeOK'
  BY DEF Inv, StartScan, NewTask, TypeOK, Kind, Settled, Plan, NoPlan, Token,
         Cleanup, Task, Phase
<1>2. MayCall /\ ~Live(a) /\ Idle(t)
  BY DEF StartScan
<1>3. QED
  BY <1>1, <1>2, AcceptInv DEF Inv, TypeOK, StartScan, NewTask, Kind, Settled

LEMMA AcceptUpdateInv ==
  ASSUME Inv, NEW t \in Target, NEW a \in Attempt, NEW skip \in BOOLEAN,
         NEW ok \in BOOLEAN,
         MayCall, ~Live(a), Idle(t), AcceptUpdate(t, a, skip, ok)
  PROVE  Inv'
<1>1. TypeOK'
  BY DEF Inv, AcceptUpdate, NewTask, TypeOK, Kind, Settled, Plan, NoPlan, Token,
         Cleanup, Task, Phase
<1>2. QED
  BY <1>1, AcceptInv DEF Inv, TypeOK, AcceptUpdate, NewTask, Kind, Settled

LEMMA StartAutoremoveInv ==
  ASSUME Inv, NEW t \in Target, NEW a \in Attempt, StartAutoremove(t, a)
  PROVE  Inv'
<1>1. TypeOK'
  BY DEF Inv, StartAutoremove, AcceptAutoremove, NewTask, TypeOK, Kind, Settled, Cleanup, Task, Phase
<1>2. MayCall /\ ~Live(a) /\ Idle(t)
  BY DEF StartAutoremove, AcceptAutoremove
<1>3. QED
  BY <1>1, <1>2, AcceptInv DEF Inv, TypeOK, StartAutoremove, AcceptAutoremove, NewTask, Kind, Settled

LEMMA StartHealthInv ==
  ASSUME Inv, NEW t \in Target, NEW a \in Attempt, StartHealth(t, a)
  PROVE  Inv'
<1>1. TypeOK'
  BY DEF Inv, StartHealth, NewTask, TypeOK, Kind, Settled, Task, Phase
<1>2. MayCall /\ ~Live(a) /\ Idle(t)
  BY DEF StartHealth
<1>3. QED
  BY <1>1, <1>2, AcceptInv DEF Inv, TypeOK, StartHealth, NewTask, Kind, Settled

-----------------------------------------------------------------------------
(* A step of one task that changes its phase within its kind, and no more. *)
LEMMA AdvanceInv ==
  ASSUME Inv, NEW a \in Attempt, NEW phase \in Phase \ {"idle", "claimed"},
         Quiet, Active(a), task[a].phase # "claimed", GoTo(a, phase),
         phase = "read" => task[a].kind = "scan",
         phase \in {"plan", "snapshot", "mutate", "delete"} => task[a].kind \in Mutation,
         phase = "check" => task[a].kind = "health",
         UNCHANGED <<managerVars, frame, upstream, unloaded, held, outdated>>
  PROVE  Inv'
<1> USE DEF Inv, managerVars
<1>1. TypeOK'
  <2>1. task \in [Attempt -> Task]
    BY DEF TypeOK
  <2>2. [task[a] EXCEPT !.phase = phase] \in Task
    BY <2>1 DEF Task
  <2>3. task' \in [Attempt -> Task]
    BY <2>1, <2>2 DEF GoTo
  <2>4. QED
    BY <2>3 DEF TypeOK
<1>2. \A b \in Attempt :
        /\ b # a => task'[b] = task[b]
        /\ task'[b].kind = task[b].kind /\ task'[b].target = task[b].target
        /\ task'[b].cancelled = task[b].cancelled
        /\ task'[b].outdated = task[b].outdated
        /\ Live(b)' = Live(b) /\ Active(b)' = Active(b) /\ Owns(b)' = Owns(b)
  BY DEF TypeOK, GoTo, Task, Live, Active, Owns
<1>3. task'[a].phase = phase
  BY DEF TypeOK, GoTo, Task
<1>4. TasksFit'
  BY <1>2, <1>3 DEF TasksFit, Active
<1>5. TasksOwn' /\ OutdatedIsFenced' /\ NothingOutdated' /\ UnloadedIsQuiet'
  BY <1>2 DEF TasksOwn, OutdatedIsFenced, NothingOutdated, UnloadedIsQuiet
<1>6. RunningIsWorkedOn'
  BY <1>2 DEF RunningIsWorkedOn, Running
<1>7. FrameFits'
  BY <1>2 DEF FrameFits, Quiet
<1>8. VmidExclusion'
  BY DEF VmidExclusion, Running, Peers
<1>9. QED
  BY <1>1, <1>4, <1>5, <1>6, <1>7, <1>8

(* A task ends; if it owns its record, the record is settled.              *)
LEMMA SettleInv ==
  ASSUME Inv, NEW a \in Attempt, Quiet, Live(a), TypeOK',
         EndTask(a),
         task[a].kind \in Kind, task[a].target \in Target,
         \A l \in Kind, u \in Target :
           \/ record'[l][u] = record[l][u] /\ (Owns(a) /\ ~unloaded =>
                                               ~(l = task[a].kind /\ u = task[a].target))
           \/ /\ Owns(a) /\ l = task[a].kind /\ u = task[a].target
              /\ record'[l][u] \in Settled,
         outdated' = outdated,
         UNCHANGED <<fenced, restore, frame, unloaded>>
  PROVE  Inv'
<1> USE DomainAssumption DEF Inv
<1>1. /\ \A b \in Attempt \ {a} : task'[b] = task[b]
      /\ task'[a] = IdleTask
  BY DEF EndTask, TypeOK
<1>2. ~Live(a)' /\ ~Active(a)'
  BY <1>1 DEF Live, Active, IdleTask
<1>3. \A b \in Attempt \ {a} : Live(b)' = Live(b) /\ Active(b)' = Active(b)
  BY <1>1 DEF Live, Active
<1>4. \A b \in Attempt \ {a} : Owns(b) => Owns(b)'
  BY <1>1 DEF Owns
<1>5. \A l \in Kind, u \in Target : Running(l, u)' =>
        /\ record'[l][u] = record[l][u] /\ Running(l, u)
        /\ ~unloaded => record[l][u] # a
  BY DEF Running, Owns, RunningIsWorkedOn
<1>6. TasksFit'
  BY <1>1, <1>2, <1>3 DEF TasksFit
<1>7. TasksOwn'
  BY <1>2, <1>3, <1>4 DEF TasksOwn
<1>8. RunningIsWorkedOn'
  BY <1>1, <1>3, <1>5 DEF RunningIsWorkedOn, Running
<1>9. FrameFits'
  BY DEF FrameFits, Quiet
<1>10. VmidExclusion'
  BY <1>5 DEF VmidExclusion, Peers
<1>11. OutdatedIsFenced' /\ NothingOutdated' /\ UnloadedIsQuiet'
  BY <1>1, <1>2, <1>3 DEF OutdatedIsFenced, NothingOutdated, UnloadedIsQuiet
<1>12. QED
  BY <1>6, <1>7, <1>8, <1>9, <1>10, <1>11

-----------------------------------------------------------------------------
LEMMA AcquireInv ==
  ASSUME Inv, NEW a \in Attempt, AcquireScanSlot(a) \/ AcquireUpdateSlot(a)
  PROVE  Inv'
<1>1. CASE AcquireScanSlot(a)
  BY <1>1, AdvanceInv DEF AcquireScanSlot, Phase, Mutation
<1>2. CASE AcquireUpdateSlot(a)
  BY <1>2, AdvanceInv DEF AcquireUpdateSlot, Phase
<1>3. QED
  BY <1>1, <1>2

LEMMA ScanReadInv ==
  ASSUME Inv, NEW a \in Attempt, ScanRead(a)
  PROVE  Inv'
BY AdvanceInv DEF ScanRead, Phase, Mutation

LEMMA ScanFailedInv ==
  ASSUME Inv, NEW a \in Attempt, ScanFailed(a)
  PROVE  Inv'
<1>1. task[a].kind = "scan" /\ task[a].target \in Target /\ Live(a)
  BY DEF Inv, TasksFit, ScanFailed, Active
<1>2. TypeOK'
  BY <1>1 DEF Inv, TypeOK, ScanFailed, EndTask, IdleTask, Task, Kind, Settled, Phase
<1>3. QED
  BY <1>1, <1>2, SettleInv DEF Inv, TypeOK, ScanFailed, Owns, Kind, Settled

LEMMA ScanDoneInv ==
  ASSUME Inv, NEW a \in Attempt, NEW seen \in Cleanup, NEW pending \in BOOLEAN,
         ScanDone(a, seen, pending)
  PROVE  Inv'
<1>1. task[a].kind = "scan" /\ task[a].target \in Target /\ Live(a)
  BY DEF Inv, TasksFit, ScanDone, Active
<1>2. ~task[a].outdated
  BY <1>1 DEF Inv, OutdatedIsFenced, ScanDone, Mutation
<1>3. TypeOK'
  <2>1. task' \in [Attempt -> Task]
    BY DEF Inv, TypeOK, ScanDone, EndTask, IdleTask, Task, Phase
  <2>2. record' \in [Kind -> [Target -> Settled \cup Attempt]]
    BY <1>1 DEF Inv, TypeOK, ScanDone, Kind, Settled
  <2>3. plan' \in [Target -> Plan] /\ evidence' \in [Target -> Cleanup]
    <3>1. Publishable(task[a].target, seen) \in Cleanup
      BY DEF Publishable, Cleanup
    <3>2. [pending |-> pending, reviewed |-> FALSE, confirmed |-> FALSE] \in Plan
      BY DEF Plan
    <3>3. plan \in [Target -> Plan] /\ evidence \in [Target -> Cleanup]
      BY DEF Inv, TypeOK
    <3>4. CASE Owns(a)
      BY <1>1, <3>1, <3>2, <3>3, <3>4 DEF ScanDone
    <3>5. CASE ~Owns(a)
      BY <3>3, <3>5 DEF ScanDone
    <3>6. QED
      BY <3>4, <3>5
  <2>31. viewed' \in [Target -> Token] /\ held' \in [Target -> Token]
    <3>1. \A tok \in Token : Aged(tok) \in Token
      BY DEF Aged, Token
    <3>2. viewed \in [Target -> Token] /\ held \in [Target -> Token]
      BY DEF Inv, TypeOK
    <3>3. CASE Owns(a)
      <4>1. /\ viewed' = [viewed EXCEPT ![task[a].target] = Aged(viewed[task[a].target])]
            /\ held' = [held EXCEPT ![task[a].target] = Aged(held[task[a].target])]
        BY <3>3 DEF ScanDone
      <4>2. QED
        BY <1>1, <3>1, <3>2, <4>1
    <3>4. CASE ~Owns(a)
      BY <3>2, <3>4 DEF ScanDone
    <3>5. QED
      BY <3>3, <3>4
  <2>4. QED
    BY <1>2, <2>1, <2>2, <2>3, <2>31 DEF Inv, TypeOK, ScanDone
<1>4. outdated' = outdated
  BY <1>2 DEF ScanDone
<1>5. QED
  BY <1>1, <1>3, <1>4, SettleInv DEF Inv, TypeOK, ScanDone, Owns, Kind, Settled

LEMMA MutationStepInv ==
  ASSUME Inv, NEW a \in Attempt, MutationStep(a)
  PROVE  Inv'
<1>1. task[a].phase \in {"plan", "snapshot", "mutate", "delete"} /\ Quiet /\ Active(a)
  BY DEF MutationStep
<1>2. task[a].kind \in Mutation /\ task[a].target \in Target /\ Live(a)
  BY <1>1 DEF Inv, TasksFit, Active
<1>3. CASE \E phase \in {"snapshot", "mutate", "delete", "observe"} : GoTo(a, phase)
  <2>1. PICK phase \in {"snapshot", "mutate", "delete", "observe"} : GoTo(a, phase)
    BY <1>3
  <2>2. QED
    BY <1>1, <1>2, <2>1, AdvanceInv DEF MutationStep, Phase
<1>4. CASE ~Owns(a) /\ EndTask(a)
  <2>1. TypeOK'
    BY <1>4 DEF Inv, TypeOK, managerVars, MutationStep, EndTask, IdleTask, Task, Phase
  <2>2. QED
    BY <1>1, <1>2, <1>4, <2>1, SettleInv DEF MutationStep, managerVars, Mutation, Kind
<1>5. QED
  BY <1>3, <1>4 DEF MutationStep

LEMMA MutationFailedInv ==
  ASSUME Inv, NEW a \in Attempt, MutationFailed(a)
  PROVE  Inv'
<1>1. task[a].kind \in Mutation /\ task[a].target \in Target /\ Live(a)
  BY DEF Inv, TasksFit, MutationFailed, Active
<1>2. TypeOK'
  BY <1>1 DEF Inv, TypeOK, MutationFailed, EndTask, IdleTask, Task, Kind, Settled,
              Phase, Mutation, Cleanup
<1>3. QED
  BY <1>1, <1>2, SettleInv
  DEF Inv, TypeOK, MutationFailed, Owns, Kind, Settled, Mutation

LEMMA HealthDoneInv ==
  ASSUME Inv, NEW a \in Attempt, HealthDone(a)
  PROVE  Inv'
<1>1. task[a].kind = "health" /\ task[a].target \in Target /\ Live(a)
  BY DEF Inv, TasksFit, HealthDone, Active
<1>2. ~task[a].outdated
  BY <1>1 DEF Inv, OutdatedIsFenced, HealthDone, Mutation
<1>3. TypeOK'
  <2>1. task' \in [Attempt -> Task]
    BY DEF Inv, TypeOK, HealthDone, EndTask, IdleTask, Task, Phase
  <2>2. record' \in [Kind -> [Target -> Settled \cup Attempt]]
    BY <1>1 DEF Inv, TypeOK, HealthDone, Kind, Settled
  <2>3. QED
    BY <1>2, <2>1, <2>2 DEF Inv, TypeOK, HealthDone
<1>4. outdated' = outdated
  BY <1>2 DEF HealthDone
<1>5. QED
  BY <1>1, <1>3, <1>4, SettleInv DEF Inv, TypeOK, HealthDone, Owns, Kind, Settled

LEMMA CancelDeliveredInv ==
  ASSUME Inv, NEW a \in Attempt, CancelDelivered(a)
  PROVE  Inv'
<1>1. task[a].kind \in Kind /\ task[a].target \in Target /\ Live(a)
  BY DEF Inv, TasksFit, CancelDelivered
<1>2. TypeOK'
  <2>1. task' \in [Attempt -> Task]
    BY DEF Inv, TypeOK, CancelDelivered, EndTask, IdleTask, Task, Phase
  <2>2. /\ record' \in [Kind -> [Target -> Settled \cup Attempt]]
        /\ evidence' \in [Target -> Cleanup]
    BY <1>1 DEF Inv, TypeOK, CancelDelivered, Kind, Mutation, Settled, Cleanup
  <2>3. QED
    BY <2>1, <2>2 DEF Inv, TypeOK, CancelDelivered
<1>3. Owns(a) => unloaded
  BY <1>1 DEF Inv, RunningIsWorkedOn, Running, Owns, Active, CancelDelivered
<1>4. QED
  BY <1>1, <1>2, <1>3, SettleInv
  DEF Inv, TypeOK, CancelDelivered, Owns, Kind, Settled, Mutation

-----------------------------------------------------------------------------
(* The finish call: claim Health, publish SUCCESS, start the claimed task. *)
LEMMA MutationDoneInv ==
  ASSUME Inv, NEW a \in Attempt, NEW seen \in Cleanup, NEW h \in Attempt,
         MutationDone(a, seen, h)
  PROVE  Inv'
<1> DEFINE t == task[a].target
           k == task[a].kind
<1> USE DomainAssumption
<1>1. /\ k \in Mutation /\ k \in Kind /\ t \in Target /\ Quiet /\ Active(a) /\ Live(a)
      /\ task[a].phase = "observe" /\ Owns(a) /\ Running(k, t)
      /\ ~unloaded
  BY DEF Inv, TasksFit, TasksOwn, MutationDone, Active, Quiet, Owns, Running, Mutation,
         Kind, UnloadedIsQuiet
<1>2. outdated' = outdated
  BY <1>1 DEF Inv, OutdatedIsFenced, MutationDone, PublishCleanup, Publishable
<1>3. evidence' \in [Target -> Cleanup]
  BY <1>1 DEF Inv, TypeOK, MutationDone, PublishCleanup, Publishable, Cleanup
<1>4. CASE HealthClaimBlocked(t)
  <2>1. record' = [record EXCEPT ![k][t] = "success"] /\ EndTask(a) /\ UNCHANGED frame
    BY <1>1, <1>4 DEF MutationDone
  <2>2. TypeOK'
    BY <1>1, <1>2, <1>3, <2>1 DEF Inv, TypeOK, MutationDone, EndTask, IdleTask, Task,
       Kind, Settled, Phase
  <2>3. QED
    BY <1>1, <1>2, <2>1, <2>2, SettleInv DEF Inv, TypeOK, MutationDone, Kind, Settled
<1>5. CASE ~HealthClaimBlocked(t)
  <2>1. /\ ~Live(h) /\ h # a
        /\ record' = [record EXCEPT !["health"][t] = h]
        /\ task' = [task EXCEPT ![h] = NewTask("health", t, "claimed", FALSE, FALSE)]
        /\ frame' = [point |-> "claimed", attempt |-> a, claim |-> h]
        /\ UNCHANGED <<plan, viewed, fenced, restore, upstream, unloaded, held>>
    BY <1>1, <1>5 DEF MutationDone
  <2>2. TypeOK'
    <3>1. task' \in [Attempt -> Task]
      BY <1>1, <2>1 DEF Inv, TypeOK, Task, NewTask, Kind, Phase
    <3>2. record' \in [Kind -> [Target -> Settled \cup Attempt]]
      BY <1>1, <2>1 DEF Inv, TypeOK, Kind
    <3>3. QED
      BY <1>2, <1>3, <2>1, <3>1, <3>2 DEF Inv, TypeOK, Frame
  <2>3. /\ \A l \in Kind, u \in Target :
             record'[l][u] = IF l = "health" /\ u = t THEN h ELSE record[l][u]
        /\ \A b \in Attempt \ {h} : task'[b] = task[b]
        /\ task'[h] = NewTask("health", t, "claimed", FALSE, FALSE)
    BY <1>1, <2>1 DEF Inv, TypeOK, Kind
  <2>4. ~Running("health", t)
    BY <1>1, <1>5 DEF HealthClaimBlocked, Peers
  <2>5. \A b \in Attempt \ {h} : /\ Live(b)' = Live(b) /\ Active(b)' = Active(b)
                                 /\ Owns(b) => Owns(b)'
    BY <2>3, <2>4 DEF Live, Active, Owns, Running
  <2>6. /\ Live(h)' /\ Active(h)' /\ Owns(h)' /\ task'[h].kind = "health"
        /\ task'[h].target = t /\ task'[h].phase = "claimed" /\ ~task'[h].outdated
    BY <1>1, <2>3 DEF Live, Active, Owns, NewTask, Kind
  <2>70. /\ frame.point = "idle" /\ frame'.point = "claimed"
         /\ frame'.attempt = a /\ frame'.claim = h
    BY <1>1, <2>1 DEF Quiet
  <2>71. TasksFit'
    <3>1. \A b \in Attempt \ {h} : Live(b) => task[b].phase # "claimed"
      BY <2>70 DEF Inv, TasksFit, FrameFits
    <3>2. ASSUME NEW b \in Attempt, b # h, Live(b)
          PROVE  /\ task[b].kind \in Kind /\ task[b].target \in Target
                 /\ task[b].phase = "read" => task[b].kind = "scan"
                 /\ task[b].phase \in {"plan", "snapshot", "mutate", "delete"}
                      => task[b].kind \in Mutation
                 /\ task[b].phase = "check" => task[b].kind = "health"
                 /\ task[b].phase # "claimed"
      BY <3>1, <3>2 DEF Inv, TasksFit
    <3>3. \A b \in Attempt : b # h => Live(b)' = Live(b) /\ task'[b] = task[b]
      BY <2>3, <2>5
    <3>4. "health" \in Kind
      BY DEF Kind
    <3>5. QED
      BY <1>1, <2>6, <2>70, <3>2, <3>3, <3>4 DEF TasksFit
  <2>72. TasksOwn'
    BY <1>1, <2>1, <2>5, <2>6 DEF Inv, TasksOwn, Quiet
  <2>73. OutdatedIsFenced' /\ NothingOutdated' /\ UnloadedIsQuiet'
    <3>1. \A b \in Attempt : b # h =>
            Active(b)' = Active(b) /\ task'[b] = task[b]
      BY <2>3, <2>5
    <3>2. fenced' = fenced /\ unloaded' = unloaded
      BY <2>1
    <3>3. OutdatedIsFenced'
      BY <2>6, <3>1, <3>2 DEF Inv, OutdatedIsFenced
    <3>4. NothingOutdated' /\ UnloadedIsQuiet'
      BY <1>1, <1>2, <3>2 DEF Inv, NothingOutdated, UnloadedIsQuiet
    <3>5. QED
      BY <3>3, <3>4
  <2>8. RunningIsWorkedOn'
    <3>1. ASSUME NEW l \in Kind, NEW u \in Target, NEW b \in Attempt, b = record'[l][u]
          PROVE  Active(b)' /\ task'[b].kind = l /\ task'[b].target = u
      <4>1. CASE l = "health" /\ u = t
        BY <2>3, <2>6, <3>1, <4>1
      <4>2. CASE ~(l = "health" /\ u = t)
        <5>1. b = record[l][u]
          BY <2>3, <3>1, <4>2
        <5>2. Active(b) /\ task[b].kind = l /\ task[b].target = u
          BY <1>1, <5>1 DEF Inv, RunningIsWorkedOn, Running
        <5>3. b \in Attempt \ {h}
          BY <2>1, <5>2 DEF Active
        <5>4. QED
          BY <2>3, <2>5, <5>2, <5>3
      <4>3. QED
        BY <4>1, <4>2
    <3>2. QED
      BY <3>1 DEF RunningIsWorkedOn, Running
  <2>9. FrameFits'
    BY <1>1, <2>1, <2>3, <2>5, <2>6 DEF FrameFits
  <2>10. VmidExclusion'
    <3>1. \A u \in Peers(t), l \in Kind : Running(l, u) => l = k /\ u = t
      BY <1>1, <1>5 DEF Inv, VmidExclusion, Quiet
    <3>2. ~Reserved(t)
      BY <1>5 DEF HealthClaimBlocked
    <3>3. record[k][t] = a
      BY <1>1 DEF Owns
    <3> SUFFICES ASSUME NEW u1 \in Target, NEW u2 \in Target, VmidOf[u2] = VmidOf[u1]
        PROVE /\ \A l1, l2 \in Kind : Running(l1, u1)' /\ Running(l2, u2)' =>
                   \/ l1 = l2 /\ u1 = u2
                   \/ {record'[l1][u1], record'[l2][u2]} \subseteq {a, h}
              /\ restore[u1] # "none" =>
                   /\ \A l \in Kind \ {"health"} : ~Running(l, u2)'
                   /\ restore[u2] # "none" => u1 = u2
      BY <2>1 DEF VmidExclusion, Peers
    <3>4. CASE u1 \in Peers(t)
      <4>1. \A l \in Kind, u \in {u1, u2} : Running(l, u)' => record'[l][u] \in {a, h}
        BY <2>3, <3>1, <3>3, <3>4 DEF Running, Peers
      <4>2. restore[u1] = "none"
        BY <3>2, <3>4 DEF Reserved, Peers
      <4>3. QED
        BY <4>1, <4>2
    <3>5. CASE u1 \notin Peers(t)
      <4>1. u1 # t /\ u2 # t
        BY <1>1, <3>5 DEF Peers
      <4>2. \A l \in Kind, u \in {u1, u2} : record'[l][u] = record[l][u]
        BY <2>3, <4>1
      <4>3. QED
        BY <1>1, <4>2 DEF Inv, VmidExclusion, Running, Peers, Quiet
    <3>6. QED
      BY <3>4, <3>5
  <2>11. QED
    BY <2>2, <2>71, <2>72, <2>73, <2>8, <2>9, <2>10 DEF Inv
<1>6. QED
  BY <1>4, <1>5

LEMMA PublishSuccessInv ==
  ASSUME Inv, PublishSuccess
  PROVE  Inv'
<1> DEFINE a == frame.attempt
           h == frame.claim
           t == task[a].target
           k == task[a].kind
<1> USE DomainAssumption DEF Inv
<1>1. /\ a \in Attempt /\ h \in Attempt /\ k \in Mutation /\ k \in Kind /\ t \in Target
      /\ ~unloaded /\ Owns(a) /\ Owns(h) /\ Active(a) /\ Active(h) /\ frame.point = "claimed"
      /\ task[h].kind = "health" /\ task[h].target = t
  BY DEF PublishSuccess, FrameFits, TasksFit, Active, Mutation, Kind
<1>2. /\ record' = [record EXCEPT ![k][t] = "success"]
      /\ frame' = [frame EXCEPT !.point = "published"]
      /\ UNCHANGED <<plan, viewed, evidence, fenced, restore, task, upstream,
                     unloaded, held, outdated>>
  BY DEF PublishSuccess
<1>3. TypeOK'
  BY <1>1, <1>2 DEF TypeOK, Kind, Settled, Frame
<1>4. /\ frame'.point = "published" /\ frame'.attempt = a /\ frame'.claim = h
      /\ \A l \in Kind, u \in Target :
           record'[l][u] = IF l = k /\ u = t THEN "success" ELSE record[l][u]
  BY <1>1, <1>2 DEF TypeOK, Frame
<1>5. \A b \in Attempt : /\ Live(b)' = Live(b) /\ Active(b)' = Active(b)
                         /\ Owns(b) /\ b # a => Owns(b)'
  BY <1>1, <1>2, <1>4 DEF Live, Active, Owns
<1>6. TasksFit' /\ TasksOwn' /\ OutdatedIsFenced' /\ NothingOutdated' /\ UnloadedIsQuiet'
  BY <1>1, <1>2, <1>4, <1>5
  DEF TasksFit, TasksOwn, OutdatedIsFenced, NothingOutdated, UnloadedIsQuiet
<1>7. \A l \in Kind, u \in Target :
        Running(l, u)' => Running(l, u) /\ record'[l][u] = record[l][u] /\ ~(l = k /\ u = t)
  BY <1>4 DEF Running, Settled
<1>8. RunningIsWorkedOn'
  BY <1>2, <1>5, <1>7 DEF RunningIsWorkedOn, Running
<1>9. FrameFits'
  BY <1>1, <1>2, <1>4, <1>5 DEF FrameFits, Mutation
<1>10. VmidExclusion'
  <2>1. \A u \in Target, l \in Kind : Running(l, u) /\ record[l][u] = a => l = k /\ u = t
    BY <1>1 DEF RunningIsWorkedOn
  <2>2. \A u \in Target, l \in Kind :
          Running(l, u) /\ record[l][u] = h => l = "health" /\ u = t
    BY <1>1 DEF RunningIsWorkedOn
  <2>3. QED
    BY <1>2, <1>4, <1>7, <2>1, <2>2 DEF VmidExclusion, Peers
<1>11. QED
  BY <1>3, <1>6, <1>8, <1>9, <1>10

LEMMA StartClaimedHealthInv ==
  ASSUME Inv, NEW started \in BOOLEAN, StartClaimedHealth(started)
  PROVE  Inv'
<1> USE DomainAssumption
<1>0. PICK a \in Attempt, h \in Attempt, t \in Target :
        a = frame.attempt /\ h = frame.claim /\ t = task[h].target
  BY DEF Inv, StartClaimedHealth, FrameFits, TasksFit, Active
<1>1. /\ a \in Attempt /\ h \in Attempt /\ h # a /\ t \in Target
      /\ ~unloaded /\ Active(a) /\ Active(h) /\ Owns(h) /\ frame.point = "published"
      /\ task[h].kind = "health" /\ task[a].target = t /\ task[a].kind \in Mutation
      /\ record["health"][t] = h /\ task[h].phase = "claimed"
  BY <1>0 DEF Inv, StartClaimedHealth, FrameFits, TasksFit, Active, Owns, Mutation
<1>2. /\ frame' = NoFrame /\ frame'.point = "idle" /\ frame'.attempt = None
      /\ frame'.claim = None
      /\ UNCHANGED <<plan, viewed, evidence, fenced, restore, upstream, unloaded,
                     held, outdated>>
  BY DEF StartClaimedHealth, NoFrame
<1>3. ~Owns(a)
  BY <1>1 DEF Inv, VmidExclusion, Owns, Running, Peers, Mutation, Kind
<1>4. frame' \in Frame
  BY <1>2 DEF NoFrame, Frame
<1>5. \A l \in Kind, u \in Target : \A b \in Attempt : b = record[l][u] =>
        b # a /\ Active(b) /\ task[b].kind = l /\ task[b].target = u
  BY <1>1, <1>3 DEF Inv, RunningIsWorkedOn, Running, Owns
<1>6. \A b \in Attempt : Active(b) /\ b # a => Owns(b)
  BY <1>0 DEF Inv, TasksOwn
<1>7. \A b \in Attempt : Live(b) /\ b # h => task[b].phase # "claimed"
  BY <1>0 DEF Inv, TasksFit
<1>8. CASE started
  <2>1. /\ task' = [task EXCEPT ![a] = IdleTask, ![h].phase = "check"]
        /\ record' = record
    BY <1>0, <1>1, <1>8 DEF StartClaimedHealth
  <2>2. /\ \A b \in Attempt \ {a, h} : task'[b] = task[b]
        /\ task'[a] = IdleTask
        /\ task'[h] = [task[h] EXCEPT !.phase = "check"]
    BY <1>1, <2>1 DEF Inv, TypeOK
  <2>3. task[h] \in Task /\ [task[h] EXCEPT !.phase = "check"] \in Task /\ IdleTask \in Task
    <3>1. task[h] \in Task
      BY <1>1 DEF Inv, TypeOK
    <3>2. IdleTask \in Task
      BY DEF Task, IdleTask, Phase
    <3>3. QED
      BY <3>1, <3>2 DEF Task, Phase
  <2>4. task' \in [Attempt -> Task]
    BY <1>1, <2>1, <2>3 DEF Inv, TypeOK
  <2>5. TypeOK'
    BY <1>2, <1>4, <2>1, <2>4 DEF Inv, TypeOK
  <2>6. /\ task'[h].phase = "check" /\ task'[h].kind = "health" /\ task'[h].target = t
        /\ task'[h].cancelled = task[h].cancelled /\ task'[h].outdated = task[h].outdated
    <3>1. task \in [Attempt -> Task]
      BY DEF Inv, TypeOK
    <3>2. /\ task'[h].phase = "check" /\ task'[h].kind = task[h].kind
          /\ task'[h].target = task[h].target
          /\ task'[h].cancelled = task[h].cancelled
          /\ task'[h].outdated = task[h].outdated
      BY <1>1, <2>1, <3>1 DEF Task
    <3>3. task[h].kind = "health" /\ task[h].target = t
      BY <1>0, <1>1
    <3>4. QED
      BY <3>2, <3>3
  <2>7. /\ ~Live(a)' /\ ~Active(a)' /\ Live(h)' /\ Active(h)' /\ Owns(h)'
        /\ \A b \in Attempt \ {a, h} : /\ Live(b)' = Live(b) /\ Active(b)' = Active(b)
                                       /\ Owns(b)' = Owns(b)
    <3>1. ~Live(a)' /\ ~Active(a)'
      BY <2>2 DEF Live, Active, IdleTask
    <3>2. Live(h)' /\ Active(h)'
      BY <1>1, <2>6 DEF Live, Active
    <3>3. Owns(h)'
      BY <1>1, <2>1, <2>6 DEF Owns
    <3>4. \A b \in Attempt \ {a, h} : /\ Live(b)' = Live(b) /\ Active(b)' = Active(b)
                                     /\ Owns(b)' = Owns(b)
      BY <2>1, <2>2 DEF Live, Active, Owns
    <3>5. QED
      BY <3>1, <3>2, <3>3, <3>4
  <2>8. TasksFit'
    <3>1. "health" \in Kind
      BY DEF Kind
    <3>2. \A b \in Attempt \ {a, h} : Live(b) => task[b].phase # "claimed"
      BY <1>7
    <3>3. ASSUME NEW b \in Attempt, b # a, b # h, Live(b)
          PROVE  /\ task[b].kind \in Kind /\ task[b].target \in Target
                 /\ task[b].phase = "read" => task[b].kind = "scan"
                 /\ task[b].phase \in {"plan", "snapshot", "mutate", "delete"}
                      => task[b].kind \in Mutation
                 /\ task[b].phase = "check" => task[b].kind = "health"
                 /\ task[b].phase # "claimed"
      BY <3>2, <3>3 DEF Inv, TasksFit
    <3>4. \A b \in Attempt : b # a /\ b # h => Live(b)' = Live(b) /\ task'[b] = task[b]
      BY <2>2, <2>7
    <3>5. ~Live(a)'
      BY <2>7
    <3>6. QED
      BY <1>1, <2>6, <3>1, <3>3, <3>4, <3>5 DEF TasksFit
  <2>9. TasksOwn' /\ FrameFits'
    BY <1>2, <1>6, <2>7 DEF TasksOwn, FrameFits
  <2>10. RunningIsWorkedOn'
    <3>1. ASSUME NEW l \in Kind, NEW u \in Target, NEW b \in Attempt, b = record'[l][u]
          PROVE  Active(b)' /\ task'[b].kind = l /\ task'[b].target = u
      <4>1. b # a /\ Active(b) /\ task[b].kind = l /\ task[b].target = u
        BY <1>5, <2>1, <3>1
      <4>2. CASE b = h
        <5>1. l = "health" /\ u = t
          BY <1>0, <1>1, <4>1, <4>2
        <5>2. Active(h)' /\ task'[h].kind = l /\ task'[h].target = u
          BY <2>6, <2>7, <5>1
        <5>3. QED
          BY <4>2, <5>2 DEF Active, Live
      <4>3. CASE b # h
        BY <2>2, <2>7, <4>1, <4>3
      <4>4. QED
        BY <4>2, <4>3
    <3>2. QED
      BY <3>1 DEF RunningIsWorkedOn, Running
  <2>11. OutdatedIsFenced' /\ NothingOutdated' /\ UnloadedIsQuiet'
    <3>1. OutdatedIsFenced'
      <4>1. ~task[h].outdated
        BY <1>1 DEF Inv, OutdatedIsFenced, Mutation
      <4>2. fenced' = fenced
        BY <1>2
      <4>3. QED
        BY <2>2, <2>6, <2>7, <4>1, <4>2 DEF Inv, OutdatedIsFenced
    <3>2. NothingOutdated' /\ UnloadedIsQuiet'
      BY <1>1, <1>2 DEF Inv, NothingOutdated, UnloadedIsQuiet
    <3>3. QED
      BY <3>1, <3>2
  <2>12. VmidExclusion'
    BY <1>1, <1>2, <2>1 DEF Inv, VmidExclusion, Running, Peers
  <2>13. QED
    BY <2>5, <2>8, <2>9, <2>10, <2>11, <2>12 DEF Inv
<1>9. CASE ~started
  <2>1. /\ task' = [task EXCEPT ![a] = IdleTask, ![h] = IdleTask]
        /\ record' = [record EXCEPT !["health"][t] = "absent"]
    BY <1>0, <1>1, <1>9 DEF StartClaimedHealth
  <2>2. /\ \A b \in Attempt \ {a, h} : task'[b] = task[b]
        /\ task'[a] = IdleTask /\ task'[h] = IdleTask
        /\ \A l \in Kind, u \in Target :
             record'[l][u] = IF l = "health" /\ u = t THEN "absent" ELSE record[l][u]
    BY <1>1, <2>1 DEF Inv, TypeOK
  <2>3. task' \in [Attempt -> Task]
    BY <1>1, <2>1 DEF Inv, TypeOK, Task, IdleTask, Phase
  <2>4. record' \in [Kind -> [Target -> Settled \cup Attempt]]
    BY <1>1, <2>1 DEF Inv, TypeOK, Kind, Settled
  <2>5. TypeOK'
    BY <1>2, <1>4, <2>3, <2>4 DEF Inv, TypeOK
  <2>6. /\ \A b \in {a, h} : ~Live(b)' /\ ~Active(b)'
        /\ \A b \in Attempt \ {a, h} : Live(b)' = Live(b) /\ Active(b)' = Active(b)
    BY <1>1, <2>2 DEF Live, Active, IdleTask
  <2>7. \A b \in Attempt \ {a, h} : Owns(b) => Owns(b)'
    BY <1>1, <2>2 DEF Owns
  <2>8. TasksFit' /\ FrameFits'
    BY <1>1, <1>2, <1>7, <2>2, <2>6 DEF Inv, TasksFit, FrameFits
  <2>9. TasksOwn'
    BY <1>6, <2>6, <2>7 DEF TasksOwn
  <2>10. \A l \in Kind, u \in Target : Running(l, u)' =>
           Running(l, u) /\ record'[l][u] = record[l][u] /\ ~(l = "health" /\ u = t)
    BY <2>2 DEF Running, Settled
  <2>11. RunningIsWorkedOn'
    <3>1. ASSUME NEW l \in Kind, NEW u \in Target, NEW b \in Attempt, b = record'[l][u]
          PROVE  Active(b)' /\ task'[b].kind = l /\ task'[b].target = u
      <4>1. b = record[l][u] /\ ~(l = "health" /\ u = t)
        BY <2>10, <3>1 DEF Running
      <4>2. b \notin {a, h} /\ Active(b) /\ task[b].kind = l /\ task[b].target = u
        BY <1>1, <1>5, <4>1
      <4>3. QED
        BY <2>2, <2>6, <4>2
    <3>2. QED
      BY <3>1 DEF RunningIsWorkedOn, Running
  <2>12. OutdatedIsFenced' /\ NothingOutdated' /\ UnloadedIsQuiet'
    BY <1>1, <1>2, <2>2, <2>6
    DEF Inv, OutdatedIsFenced, NothingOutdated, UnloadedIsQuiet
  <2>13. VmidExclusion'
    BY <1>1, <1>2, <2>10 DEF Inv, VmidExclusion, Peers
  <2>14. QED
    BY <2>5, <2>8, <2>9, <2>11, <2>12, <2>13 DEF Inv
<1>10. QED
  BY <1>8, <1>9

-----------------------------------------------------------------------------
(* Steps that leave records, tasks, fences and reservations alone.         *)
LEMMA ReviewInv ==
  ASSUME Inv, TypeOK',
         UNCHANGED <<record, fenced, restore, task, frame, unloaded, outdated>>
  PROVE  Inv'
<1> USE DEF Inv
<1>1. TasksFit' /\ TasksOwn' /\ FrameFits'
  BY DEF TasksFit, TasksOwn, FrameFits, Live, Active, Owns
<1>2. RunningIsWorkedOn' /\ OutdatedIsFenced' /\ NothingOutdated' /\ UnloadedIsQuiet'
  BY DEF RunningIsWorkedOn, OutdatedIsFenced, NothingOutdated, UnloadedIsQuiet,
         Running, Live, Active
<1>3. VmidExclusion'
  BY DEF VmidExclusion, Running, Peers
<1>4. QED
  BY <1>1, <1>2, <1>3

LEMMA MarkReviewedInv ==
  ASSUME Inv, NEW t \in Target, NEW ok \in BOOLEAN, MarkReviewed(t, ok)
  PROVE  Inv'
<1>1. plan \in [Target -> Plan] /\ plan[t] \in Plan
  BY DEF Inv, TypeOK
<1> DEFINE p == [plan[t] EXCEPT !.reviewed = TRUE, !.confirmed = plan[t].confirmed \/ ok]
<1>2. p \in Plan
  BY <1>1 DEF Plan
<1>3. plan' = [plan EXCEPT ![t] = p]
  BY <1>1 DEF MarkReviewed, Plan
<1> HIDE DEF p
<1>4. plan' \in [Target -> Plan]
  BY <1>1, <1>2, <1>3
<1>5. TypeOK'
  BY <1>4 DEF Inv, TypeOK, MarkReviewed, Token
<1>6. QED
  BY <1>5, ReviewInv DEF MarkReviewed

LEMMA HealthNotStartedInv ==
  ASSUME Inv, NEW t \in Target, HealthNotStarted(t)
  PROVE  Inv'
<1> USE DomainAssumption
<1>1. record \in [Kind -> [Target -> Settled \cup Attempt]] /\ Kind # {} /\ "health" \in Kind
  BY DEF Inv, TypeOK, Kind
<1>2. ~Running("health", t)
  BY <1>1 DEF HealthNotStarted, Idle, Peers
<1>3. \A k \in Kind, u \in Target :
        /\ record'[k][u] = record[k][u] \/ (k = "health" /\ u = t)
        /\ record'["health"][t] = "absent" /\ "absent" \notin Attempt
  BY <1>1 DEF HealthNotStarted, Settled
<1>4. \A k \in Kind, u \in Target : Running(k, u)' = Running(k, u)
  BY <1>2, <1>3 DEF Running
<1>5. \A a \in Attempt : Owns(a)' = Owns(a)
  BY <1>2, <1>3 DEF Owns, Running, HealthNotStarted
<1>6. TypeOK'
  BY <1>1 DEF HealthNotStarted, Inv, TypeOK, Settled, Kind
<1> USE DEF Inv, HealthNotStarted
<1>7. TasksFit' /\ TasksOwn'
  BY <1>5 DEF TasksFit, TasksOwn, Live, Active
<1>8. FrameFits'
  BY <1>5 DEF FrameFits, Live, Active
<1>9. RunningIsWorkedOn' /\ OutdatedIsFenced' /\ NothingOutdated' /\ UnloadedIsQuiet'
  BY <1>2, <1>3, <1>4 DEF RunningIsWorkedOn, OutdatedIsFenced, NothingOutdated, UnloadedIsQuiet,
         Running, Live, Active
<1>10. VmidExclusion'
  <2>1. \A k \in Kind, u \in Target : Running(k, u) => record'[k][u] = record[k][u]
    BY <1>2, <1>3
  <2>2. restore' = restore /\ frame' = frame
    OBVIOUS
  <2>3. VmidExclusion
    OBVIOUS
  <2> HIDE DEF Inv, HealthNotStarted
  <2> QED
    BY <1>4, <2>1, <2>2, <2>3 DEF VmidExclusion, Peers
<1> QED
  BY <1>6, <1>7, <1>8, <1>9, <1>10

LEMMA ReviewStepInv ==
  ASSUME Inv, NEW t \in Target, Review(t)
  PROVE  Inv'
<1>1. CASE ShowPlan(t)
  <2>1. TypeOK'
    BY <1>1 DEF Inv, TypeOK, ShowPlan, managerVars, Token
  <2>2. QED
    BY <1>1, <2>1, ReviewInv DEF ShowPlan, managerVars
<1>2. CASE MarkViewed(t)
  <2>1. TypeOK'
    BY <1>2 DEF Inv, TypeOK, MarkViewed, Token
  <2>2. QED
    BY <1>2, <2>1, ReviewInv DEF MarkViewed
<1>3. CASE ConfirmReview(t)
  BY <1>3, MarkReviewedInv DEF ConfirmReview
<1>4. QED
  BY <1>1, <1>2, <1>3 DEF Review

LEMMA EasyUpdateInv ==
  ASSUME Inv, NEW t \in Target, NEW a \in Attempt, NEW skip \in BOOLEAN,
         NEW named \in BOOLEAN, EasyUpdate(t, a, skip, named)
  PROVE  Inv'
<1> DEFINE ok == ~named \/ held[t] = "current"
<1>1. ok \in BOOLEAN /\ MayCall
  BY DEF EasyUpdate
<1>2. CASE Idle(t)
  BY <1>1, <1>2, AcceptUpdateInv DEF EasyUpdate
<1>3. CASE ~Idle(t)
  BY <1>1, <1>3, MarkReviewedInv DEF EasyUpdate
<1>4. QED
  BY <1>2, <1>3

LEMMA ReserveInv ==
  ASSUME Inv, NEW t \in Target, BeginRestore(t) \/ EndRestore(t) \/ RestoreUncertain(t)
  PROVE  Inv'
<1> USE DomainAssumption DEF Inv
<1>1. /\ UNCHANGED <<record, plan, viewed, evidence, fenced, task, frame, upstream,
                     unloaded, held, outdated>>
      /\ restore' \in [Target -> Reservation]
      /\ \A u \in Target : u # t => restore'[u] = restore[u]
  BY DEF BeginRestore, EndRestore, RestoreUncertain, TypeOK, Reservation
<1>2. TypeOK'
  BY <1>1 DEF TypeOK
<1>3. TasksFit' /\ TasksOwn' /\ FrameFits'
  BY <1>1 DEF TasksFit, TasksOwn, FrameFits, Live, Active, Owns
<1>4. RunningIsWorkedOn' /\ OutdatedIsFenced' /\ NothingOutdated' /\ UnloadedIsQuiet'
  BY <1>1 DEF RunningIsWorkedOn, OutdatedIsFenced, NothingOutdated, UnloadedIsQuiet,
              Running, Live, Active
<1>5. VmidExclusion'
  <2>1. CASE restore[t] = "none"
    <3>1. BeginRestore(t)
      BY <2>1 DEF EndRestore, RestoreUncertain
    <3>2. /\ \A u \in Peers(t) : restore[u] = "none"
          /\ \A u \in Peers(t), k \in Kind \ {"health"} : ~Running(k, u)
      BY <3>1 DEF BeginRestore, Reserved, Kind
    <3>3. QED
      BY <1>1, <3>2 DEF VmidExclusion, Peers, Running
  <2>2. CASE restore[t] # "none"
    BY <1>1, <2>2 DEF VmidExclusion, Peers, Running
  <2>3. QED
    BY <2>1, <2>2
<1>6. QED
  BY <1>2, <1>3, <1>4, <1>5

(* What Refresh and InvalidateRestoreTarget have in common: some records   *)
(* are discarded, and the tasks that own them are cancelled.               *)
LEMMA DiscardInv ==
  ASSUME Inv, TypeOK', Quiet,
         NEW D \in SUBSET (Kind \X Target),
         \A k \in Kind, u \in Target :
           record'[k][u] = IF <<k, u>> \in D THEN "absent" ELSE record[k][u],
         \A b \in Attempt :
           /\ task'[b].kind = task[b].kind /\ task'[b].target = task[b].target
           /\ task'[b].phase = task[b].phase
           /\ Active(b) => (task'[b].cancelled <=>
                               <<task[b].kind, task[b].target>> \in D)
           /\ Live(b) /\ task[b].cancelled => task'[b].cancelled,
         \A t \in Target : restore'[t] # "none" => restore[t] # "none",
         OutdatedIsFenced',
         UNCHANGED <<frame, unloaded, outdated>>
  PROVE  Inv'
<1> USE DomainAssumption DEF Inv
<1>1. frame.point = "idle" /\ frame'.point = "idle"
  BY DEF Quiet
<1>2. \A b \in Attempt : Live(b)' = Live(b)
  BY DEF Live
<1>3. \A b \in Attempt : Active(b)' =>
        Active(b) /\ <<task[b].kind, task[b].target>> \notin D
  BY <1>2 DEF Active, Live
<1>4. \A b \in Attempt : Active(b)' => Owns(b)'
  <2> SUFFICES ASSUME NEW b \in Attempt, Active(b)' PROVE Owns(b)'
    OBVIOUS
  <2>1. Owns(b) /\ <<task[b].kind, task[b].target>> \notin D
    BY <1>1, <1>3 DEF TasksOwn
  <2>2. QED
    BY <2>1 DEF Owns
<1>5. \A k \in Kind, u \in Target : Running(k, u)' =>
        Running(k, u) /\ record'[k][u] = record[k][u] /\ <<k, u>> \notin D
  BY DEF Running, Settled
<1>6. TasksFit'
  <2>1. \A b \in Attempt : /\ task'[b].kind = task[b].kind
                           /\ task'[b].target = task[b].target
                           /\ task'[b].phase = task[b].phase
    OBVIOUS
  <2>2. QED
    BY <2>1 DEF TasksFit, Live
<1>7. TasksOwn'
  BY <1>4 DEF TasksOwn
<1>8. RunningIsWorkedOn'
  <2> SUFFICES ASSUME ~unloaded PROVE RunningIsWorkedOn'
    BY DEF RunningIsWorkedOn
  <2>1. ASSUME NEW k \in Kind, NEW u \in Target, NEW b \in Attempt, b = record'[k][u]
        PROVE  Active(b)' /\ task'[b].kind = k /\ task'[b].target = u
    <3>1. b = record[k][u] /\ Running(k, u) /\ <<k, u>> \notin D
      BY <1>5, <2>1 DEF Running
    <3>2. Active(b) /\ task[b].kind = k /\ task[b].target = u
      BY <3>1 DEF RunningIsWorkedOn
    <3>3. ~task'[b].cancelled
      BY <3>1, <3>2
    <3>4. QED
      BY <3>2, <3>3 DEF Active, Live
  <2>2. QED
    BY <2>1 DEF RunningIsWorkedOn, Running
<1>9. FrameFits'
  BY <1>1 DEF FrameFits
<1>10. VmidExclusion'
  <2> SUFFICES ASSUME NEW t \in Target, NEW u \in Peers(t)
               PROVE  /\ \A k, l \in Kind : Running(k, t)' /\ Running(l, u)' => k = l /\ t = u
                      /\ restore'[t] # "none" =>
                           /\ \A k \in Kind \ {"health"} : ~Running(k, u)'
                           /\ restore'[u] # "none" => t = u
    BY DEF VmidExclusion, Peers
  <2>1. u \in Target /\ u \in Peers(t)
    BY DEF Peers
  <2>2. \A k, l \in Kind : Running(k, t) /\ Running(l, u) => k = l /\ t = u
    BY <1>1, <2>1 DEF VmidExclusion
  <2>3. restore[t] # "none" => /\ \A k \in Kind \ {"health"} : ~Running(k, u)
                               /\ restore[u] # "none" => t = u
    BY <2>1 DEF VmidExclusion
  <2>4. QED
    BY <1>5, <2>1, <2>2, <2>3
<1>11. NothingOutdated' /\ UnloadedIsQuiet'
  BY <1>3 DEF NothingOutdated, UnloadedIsQuiet
<1>12. QED
  BY <1>6, <1>7, <1>8, <1>9, <1>10, <1>11

(* Invalidating a Restore's target marks tasks and leaves them otherwise.  *)
LEMMA InvalidatedTask ==
  ASSUME Inv, NEW t \in Target, InvalidateRestoreTarget(t), NEW b \in Attempt
  PROVE  /\ task'[b] \in Task
         /\ task'[b].kind = task[b].kind /\ task'[b].target = task[b].target
         /\ task'[b].phase = task[b].phase
         /\ task'[b].cancelled = (task[b].cancelled \/ b \in HealthHandles({t}))
         /\ task'[b].outdated = (task[b].outdated \/ task[b].target = t)
<1> DEFINE c == task[b].cancelled \/ b \in HealthHandles({t})
           o == task[b].outdated \/ task[b].target = t
<1>1. task'[b] = [task[b] EXCEPT !.cancelled = c, !.outdated = o]
  BY DEF InvalidateRestoreTarget
<1>2. task[b] \in Task /\ c \in BOOLEAN /\ o \in BOOLEAN
  BY DEF Inv, TypeOK
<1> HIDE DEF c, o
<1>3. /\ task'[b] \in Task
      /\ task'[b].kind = task[b].kind /\ task'[b].target = task[b].target
      /\ task'[b].phase = task[b].phase
      /\ task'[b].cancelled = c /\ task'[b].outdated = o
  BY <1>1, <1>2 DEF Task
<1>4. QED
  BY <1>3 DEF c, o

LEMMA InvalidateRestoreTargetInv ==
  ASSUME Inv, NEW t \in Target, InvalidateRestoreTarget(t)
  PROVE  Inv'
<1> DEFINE D == {<<"scan", t>>, <<"health", t>>}
<1> USE DomainAssumption
<1>1. /\ Quiet /\ restore[t] = "claimed"
      /\ restore' = [restore EXCEPT ![t] = "submitted"]
      /\ fenced' = fenced \cup {t}
      /\ record' = [record EXCEPT !["scan"][t] = "absent", !["health"][t] = "absent"]
      /\ plan' = [plan EXCEPT ![t] = NoPlan]
      /\ viewed' = [viewed EXCEPT ![t] = "none"]
      /\ evidence' = [evidence EXCEPT ![t] = "none"]
      /\ UNCHANGED <<frame, upstream, unloaded, held, outdated>>
  BY DEF InvalidateRestoreTarget
<1>2. \A b \in Attempt :
        /\ task'[b] \in Task
        /\ task'[b].kind = task[b].kind /\ task'[b].target = task[b].target
        /\ task'[b].phase = task[b].phase
        /\ task'[b].cancelled = (task[b].cancelled \/ b \in HealthHandles({t}))
        /\ task'[b].outdated = (task[b].outdated \/ task[b].target = t)
  BY InvalidatedTask
<1>5. TypeOK'
  <2>1. task' \in [Attempt -> Task]
    BY <1>2 DEF InvalidateRestoreTarget
  <2>2. /\ restore' \in [Target -> Reservation] /\ fenced' \subseteq Target
        /\ viewed' \in [Target -> Token] /\ evidence' \in [Target -> Cleanup]
    BY <1>1 DEF Inv, TypeOK, Reservation, Token, Cleanup
  <2>3. record' \in [Kind -> [Target -> Settled \cup Attempt]]
    BY <1>1 DEF Inv, TypeOK, Kind, Settled
  <2>4. plan' \in [Target -> Plan]
    BY <1>1 DEF Inv, TypeOK, Plan, NoPlan
  <2>5. QED
    BY <1>1, <2>1, <2>2, <2>3, <2>4 DEF Inv, TypeOK
<1>6. \A b \in Attempt : Active(b) => Owns(b)
  BY <1>1 DEF Inv, TasksOwn, Quiet
<1>7. \A b \in Attempt : Active(b) => /\ task[b].kind \in Kind
                                      /\ task[b].target = t => task[b].kind = "health"
  BY <1>1, <1>6 DEF Inv, VmidExclusion, Owns, Running, Peers
<1>8. \A b \in Attempt : Active(b) =>
        (b \in HealthHandles({t}) <=> <<task[b].kind, task[b].target>> \in D)
  BY <1>6, <1>7 DEF HealthHandles, Active
<1>9. \A b \in Attempt : Active(b) =>
        ~task[b].cancelled /\ (task'[b].cancelled <=>
                                 <<task[b].kind, task[b].target>> \in D)
  BY <1>2, <1>8 DEF Active
<1>10. OutdatedIsFenced'
  <2> SUFFICES ASSUME NEW b \in Attempt, Active(b)', task'[b].outdated
               PROVE  task[b].kind \in Mutation /\ task[b].target \in fenced'
    BY <1>2 DEF OutdatedIsFenced
  <2>1. Active(b) /\ <<task[b].kind, task[b].target>> \notin D
    BY <1>2, <1>9 DEF Active, Live
  <2>2. task[b].target # t
    BY <1>7, <2>1
  <2>3. QED
    BY <1>1, <1>2, <2>1, <2>2 DEF Inv, OutdatedIsFenced
<1>11. ASSUME NEW k \in Kind, NEW u \in Target
       PROVE  record'[k][u] = IF <<k, u>> \in D THEN "absent" ELSE record[k][u]
  BY <1>1 DEF Inv, TypeOK, Kind
<1>12. D \in SUBSET (Kind \X Target)
  BY DEF Kind
<1>13. /\ \A u \in Target : restore'[u] # "none" => restore[u] # "none"
       /\ \A b \in Attempt : Live(b) /\ task[b].cancelled => task'[b].cancelled
  BY <1>1, <1>2 DEF Inv, TypeOK
<1> HIDE DEF D
<1>14. QED
  BY <1>1, <1>2, <1>5, <1>9, <1>10, <1>11, <1>12, <1>13, DiscardInv

LEMMA RefreshInv ==
  ASSUME Inv, NEW seen \in [Target -> Observed], Refresh(seen)
  PROVE  Inv'
<1> DEFINE gone   == {t \in Target : seen[t] = "absent"}
           halted == {t \in Target : seen[t] = "stopped" /\ Known(t)}
           off    == gone \cup halted
           Drops(k, t) == t \in gone \/ (t \in halted /\ k \in {"scan", "health"})
           D      == {p \in Kind \X Target : Drops(p[1], p[2])}
<1> USE DomainAssumption
<1>1. /\ Quiet /\ ~unloaded /\ upstream' = seen
      /\ record' = [k \in Kind |-> [t \in Target |->
                      IF Drops(k, t) THEN "absent" ELSE record[k][t]]]
      /\ plan' = [t \in Target |-> IF t \in off THEN NoPlan ELSE plan[t]]
      /\ viewed' = [t \in Target |-> IF t \in off THEN "none" ELSE viewed[t]]
      /\ evidence' = [t \in Target |-> IF t \in off THEN "none" ELSE evidence[t]]
      /\ fenced' = (fenced \ gone) \cup halted
      /\ UNCHANGED <<restore, frame, unloaded, held, outdated>>
  BY DEF Refresh
<1>2. ASSUME NEW b \in Attempt
      PROVE  /\ task'[b] \in Task
             /\ task'[b].kind = task[b].kind /\ task'[b].target = task[b].target
             /\ task'[b].phase = task[b].phase
             /\ Live(b) =>
                  /\ task'[b].cancelled <=>
                       (task[b].cancelled \/ (Owns(b) /\ Drops(task[b].kind, task[b].target)))
                  /\ task'[b].outdated <=>
                       (task[b].outdated \/ seen[task[b].target] # "running")
  <2> DEFINE c == task[b].cancelled \/ (Owns(b) /\ Drops(task[b].kind, task[b].target))
             o == task[b].outdated \/ seen[task[b].target] # "running"
  <2>1. task'[b] = IF ~Live(b) THEN task[b]
                   ELSE [task[b] EXCEPT !.cancelled = c, !.outdated = o]
    BY DEF Refresh
  <2>2. task[b] \in Task /\ c \in BOOLEAN /\ o \in BOOLEAN
    BY DEF Inv, TypeOK
  <2> HIDE DEF c, o
  <2>3. CASE Live(b)
    <3>1. /\ task'[b] \in Task
          /\ task'[b].kind = task[b].kind /\ task'[b].target = task[b].target
          /\ task'[b].phase = task[b].phase
          /\ task'[b].cancelled = c /\ task'[b].outdated = o
      BY <2>1, <2>2, <2>3 DEF Task
    <3>2. QED
      BY <3>1 DEF c, o
  <2>4. CASE ~Live(b)
    BY <2>1, <2>2, <2>4
  <2>5. QED
    BY <2>3, <2>4
<1>3. TypeOK'
  <2>1. task' \in [Attempt -> Task]
    BY <1>2 DEF Refresh
  <2>2. record' \in [Kind -> [Target -> Settled \cup Attempt]]
    BY <1>1 DEF Inv, TypeOK, Settled
  <2>3. plan' \in [Target -> Plan]
    BY <1>1 DEF Inv, TypeOK, Plan, NoPlan
  <2>4. viewed' \in [Target -> Token] /\ evidence' \in [Target -> Cleanup]
    BY <1>1 DEF Inv, TypeOK, Token, Cleanup
  <2>5. fenced' \subseteq Target /\ upstream' \in [Target -> Upstream]
    BY <1>1 DEF Inv, TypeOK
  <2>6. QED
    BY <1>1, <2>1, <2>2, <2>3, <2>4, <2>5 DEF Inv, TypeOK
<1>4. \A b \in Attempt : Active(b) => Owns(b) /\ Live(b) /\ ~task[b].cancelled
  BY <1>1 DEF Inv, TasksOwn, Quiet, Active
<1>5. \A b \in Attempt : Active(b) =>
        /\ task[b].kind \in Kind /\ task[b].target \in Target
        /\ task'[b].cancelled <=> Drops(task[b].kind, task[b].target)
  BY <1>2, <1>4 DEF Owns
<1>6. \A b \in Attempt : Active(b) =>
        (task'[b].cancelled <=> <<task[b].kind, task[b].target>> \in D)
  BY <1>5
<1>7. \A b \in Attempt : Live(b) /\ task[b].cancelled => task'[b].cancelled
  BY <1>2
<1>8. OutdatedIsFenced'
  <2> SUFFICES ASSUME NEW b \in Attempt, Active(b)', task'[b].outdated
               PROVE  task[b].kind \in Mutation /\ task[b].target \in fenced'
    BY <1>2 DEF OutdatedIsFenced
  <2>1. Active(b) /\ ~Drops(task[b].kind, task[b].target)
    BY <1>2, <1>4, <1>5 DEF Active, Live
  <2>2. /\ task[b].target \in Target /\ task[b].target \notin gone
        /\ task[b].target \in halted => task[b].kind \in Mutation
    BY <1>5, <2>1 DEF Mutation, Kind
  <2>3. Known(task[b].target)
    BY <1>4, <2>1 DEF Known, Owns, Running, Kind, Settled
  <2>4. CASE task[b].outdated
    BY <1>1, <2>1, <2>2, <2>4 DEF Inv, OutdatedIsFenced
  <2>5. CASE seen[task[b].target] # "running"
    BY <1>1, <2>2, <2>3, <2>5 DEF Upstream
  <2>6. QED
    BY <1>2, <1>4, <2>1, <2>4, <2>5
<1>9. ASSUME NEW k \in Kind, NEW u \in Target
      PROVE  record'[k][u] = IF <<k, u>> \in D THEN "absent" ELSE record[k][u]
  BY <1>1
<1>10. D \in SUBSET (Kind \X Target)
  OBVIOUS
<1> HIDE DEF D
<1>11. QED
  BY <1>1, <1>2, <1>3, <1>6, <1>7, <1>8, <1>9, <1>10, DiscardInv

LEMMA UnloadInv ==
  ASSUME Inv, Unload
  PROVE  Inv'
<1> USE DEF Inv
<1>1. /\ Quiet /\ unloaded' = TRUE
      /\ UNCHANGED <<record, plan, viewed, evidence, fenced, restore, frame, upstream,
                     held, outdated>>
  BY DEF Unload, managerVars
<1>2. \A b \in Attempt :
        /\ task'[b] \in Task
        /\ task'[b].kind = task[b].kind /\ task'[b].target = task[b].target
        /\ task'[b].phase = task[b].phase /\ (task'[b].cancelled <=> Live(b))
  BY DEF Unload, TypeOK, Task, Live
<1>3. TypeOK'
  BY <1>1, <1>2 DEF TypeOK, Unload
<1>4. \A b \in Attempt : Live(b)' = Live(b) /\ ~Active(b)'
  BY <1>2 DEF Live, Active
<1>5. TasksFit'
  BY <1>1, <1>2 DEF TasksFit, Live
<1>6. TasksOwn' /\ OutdatedIsFenced' /\ UnloadedIsQuiet'
  BY <1>4 DEF TasksOwn, OutdatedIsFenced, UnloadedIsQuiet
<1>7. RunningIsWorkedOn' /\ FrameFits' /\ NothingOutdated'
  BY <1>1 DEF RunningIsWorkedOn, FrameFits, NothingOutdated, Quiet
<1>8. VmidExclusion'
  BY <1>1 DEF VmidExclusion, Running, Peers
<1>9. QED
  BY <1>3, <1>5, <1>6, <1>7, <1>8

LEMMA ReloadInv ==
  ASSUME Inv, Reload
  PROVE  Inv'
<1> USE DomainAssumption DEF Inv, Reload
<1>1. TypeOK'
  BY DEF TypeOK, Settled, Plan, NoPlan, Token, Cleanup, Reservation
<1>2. \A b \in Attempt : ~Live(b)' /\ ~Active(b)'
  BY DEF Live, Active
<1>3. TasksFit' /\ TasksOwn' /\ OutdatedIsFenced' /\ UnloadedIsQuiet'
  BY <1>2 DEF TasksFit, TasksOwn, OutdatedIsFenced, UnloadedIsQuiet
<1>4. \A k \in Kind, t \in Target : ~Running(k, t)'
  BY DEF Running, Settled
<1>5. RunningIsWorkedOn'
  BY <1>4 DEF RunningIsWorkedOn
<1>6. FrameFits' /\ NothingOutdated'
  BY DEF FrameFits, NothingOutdated
<1>7. VmidExclusion'
  BY <1>4 DEF VmidExclusion, Peers
<1>8. QED
  BY <1>1, <1>3, <1>5, <1>6, <1>7

-----------------------------------------------------------------------------
LEMMA TaskStepInv ==
  ASSUME Inv, NEW a \in Attempt, TaskStep(a)
  PROVE  Inv'
<1>1. CASE AcquireScanSlot(a) \/ AcquireUpdateSlot(a)
  BY <1>1, AcquireInv
<1>2. CASE ScanRead(a)
  BY <1>2, ScanReadInv
<1>3. CASE ScanFailed(a)
  BY <1>3, ScanFailedInv
<1>4. CASE \E seen \in Cleanup, pending \in BOOLEAN : ScanDone(a, seen, pending)
  BY <1>4, ScanDoneInv
<1>5. CASE MutationStep(a)
  BY <1>5, MutationStepInv
<1>6. CASE MutationFailed(a)
  BY <1>6, MutationFailedInv
<1>7. CASE \E seen \in Cleanup, h \in Attempt : MutationDone(a, seen, h)
  BY <1>7, MutationDoneInv
<1>8. CASE HealthDone(a)
  BY <1>8, HealthDoneInv
<1>9. CASE CancelDelivered(a)
  BY <1>9, CancelDeliveredInv
<1>10. QED
  BY <1>1, <1>2, <1>3, <1>4, <1>5, <1>6, <1>7, <1>8, <1>9 DEF TaskStep

LEMMA StartInv ==
  ASSUME Inv, NEW t \in Target, Start(t)
  PROVE  Inv'
<1>1. PICK a \in Attempt :
        \/ StartScan(t, a) \/ StartAutoremove(t, a) \/ StartHealth(t, a)
        \/ HealthNotStarted(t)
        \/ \E skip \in BOOLEAN : StartUpdate(t, a, skip)
        \/ \E skip \in BOOLEAN, named \in BOOLEAN : EasyUpdate(t, a, skip, named)
  BY DEF Start
<1>2. ASSUME NEW skip \in BOOLEAN, StartUpdate(t, a, skip) PROVE Inv'
  <2>1. plan[t].confirmed \in BOOLEAN
    BY DEF Inv, TypeOK, Plan
  <2>2. QED
    BY <1>2, <2>1, AcceptUpdateInv DEF StartUpdate
<1>3. QED
  BY <1>1, <1>2, StartScanInv, StartAutoremoveInv, StartHealthInv,
     HealthNotStartedInv, EasyUpdateInv

LEMMA NextInv == Inv /\ [Next]_vars => Inv'
<1> SUFFICES ASSUME Inv, [Next]_vars PROVE Inv'
  OBVIOUS
<1>1. CASE \E a \in Attempt : TaskStep(a)
  BY <1>1, TaskStepInv
<1>2. CASE FinishStep
  BY <1>2, PublishSuccessInv, StartClaimedHealthInv DEF FinishStep
<1>3. ASSUME NEW t \in Target, Start(t) \/ Review(t) PROVE Inv'
  BY <1>3, StartInv, ReviewStepInv
<1>4. ASSUME NEW t \in Target, RestoreStep(t) PROVE Inv'
  BY <1>4, ReserveInv, InvalidateRestoreTargetInv DEF RestoreStep
<1>5. CASE \E seen \in [Target -> Observed] : Refresh(seen)
  BY <1>5, RefreshInv
<1>6. CASE Unload \/ Reload
  BY <1>6, UnloadInv, ReloadInv
<1>7. CASE UNCHANGED vars
  <2>1. UNCHANGED <<record, plan, viewed, evidence, fenced, restore, task, frame,
                    upstream, unloaded, held, outdated>>
    BY <1>7 DEF vars, managerVars
  <2>2. TypeOK'
    BY <2>1 DEF Inv, TypeOK
  <2>3. QED
    BY <2>1, <2>2, ReviewInv
<1>8. QED
  BY <1>1, <1>2, <1>3, <1>4, <1>5, <1>6, <1>7 DEF Next

LEMMA Invariance == Spec => []Inv
<1>1. Init => Inv
  BY InitInv
<1>2. Inv /\ [Next]_vars => Inv'
  BY NextInv
<1>3. QED
  BY <1>1, <1>2, PTL DEF Spec

(* Every reachable state is of its types: a RUNNING record names a live    *)
(* attempt's identity, a reservation is one of Restore's stages.           *)
THEOREM TypeCorrect == Spec => []TypeOK
<1>1. Inv => TypeOK
  BY DEF Inv
<1>2. QED
  BY <1>1, Invariance, PTL

(* Per-VMID exclusion of the RUNNING records and of Restore's reservation, *)
(* across every node key of the VMID, as _vmid_has_running_operation,      *)
(* _restore_reserved and the early Health claim are meant to keep it.      *)
THEOREM Exclusion == Spec => []VmidExclusion
<1>1. Inv => VmidExclusion
  BY DEF Inv
<1>2. QED
  BY <1>1, Invariance, PTL

(* No record stays RUNNING without a task that will settle it.             *)
THEOREM NoOrphanRecord == Spec => []RunningIsWorkedOn
<1>1. Inv => RunningIsWorkedOn
  BY DEF Inv
<1>2. QED
  BY <1>1, Invariance, PTL

(* No result observed across a stop, a disappearance or a Restore of the   *)
(* guest is ever published.                                                *)
THEOREM NoOutdatedResult == Spec => []NothingOutdated
<1>1. Inv => NothingOutdated
  BY DEF Inv
<1>2. QED
  BY <1>1, Invariance, PTL

(* A VMID never has two tasks at work, and none that mutates under a       *)
(* Restore: what holds of the records holds of the work.                   *)
THEOREM Serialized == Spec => []OneWorker
<1>1. ASSUME Inv PROVE OneWorker
  <2> USE <1>1 DEF Inv
  <2>1. \A a \in Attempt : Working(a) =>
          /\ Owns(a) /\ a # frame.claim /\ a # frame.attempt
          /\ task[a].kind \in Kind /\ task[a].target \in Target
          /\ Running(task[a].kind, task[a].target)
    <3> SUFFICES ASSUME NEW a \in Attempt, Working(a)
                 PROVE  /\ Owns(a) /\ a # frame.claim /\ a # frame.attempt
                        /\ task[a].kind \in Kind /\ task[a].target \in Target
                        /\ Running(task[a].kind, task[a].target)
      OBVIOUS
    <3>1. Owns(a) /\ a # frame.attempt /\ task[a].phase # "claimed"
      BY DEF Working, TasksOwn
    <3>2. a # frame.claim
      BY <3>1, DomainAssumption DEF FrameFits
    <3>3. QED
      BY <3>1, <3>2 DEF Owns, Running
  <2>2. ASSUME NEW a \in Attempt, NEW b \in Attempt, Working(a), Working(b),
               task[b].target \in Peers(task[a].target)
        PROVE  a = b
    BY <2>1, <2>2 DEF VmidExclusion, Owns
  <2>3. ASSUME NEW a \in Attempt, Working(a), task[a].kind \in Mutation
        PROVE  ~Reserved(task[a].target)
    <3>1. \A u \in Peers(task[a].target) : task[a].target \in Peers(u) /\ u \in Target
      BY <2>1, <2>3 DEF Peers
    <3>2. QED
      BY <2>1, <2>3, <3>1 DEF VmidExclusion, Reserved, Mutation
  <2>4. QED
    BY <2>2, <2>3 DEF OneWorker
<1>2. QED
  BY <1>1, Invariance, PTL

-----------------------------------------------------------------------------
(* Under Inv, a manager that was unloaded has only cancelled tasks and no  *)
(* finish call on its stack, so all they can do is to settle and end.      *)
LEMMA UnloadedStep ==
  ASSUME Inv, Next, unloaded, NEW b \in Attempt, Live(b)'
  PROVE  Live(b)
<1> USE DomainAssumption
<1>1. (\A a \in Attempt : ~Active(a)) /\ Quiet
  BY DEF Inv, UnloadedIsQuiet, FrameFits, Quiet
<1>2. CASE \E a \in Attempt : TaskStep(a)
  <2>1. PICK a \in Attempt : TaskStep(a)
    BY <1>2
  <2>2. CancelDelivered(a)
    BY <1>1, <2>1 DEF TaskStep, AcquireScanSlot, AcquireUpdateSlot, ScanRead, ScanFailed,
       ScanDone, MutationStep, MutationFailed, MutationDone, HealthDone
  <2>3. task' = [task EXCEPT ![a] = IdleTask]
    BY <2>2 DEF CancelDelivered, EndTask
  <2>4. QED
    BY <2>3 DEF Inv, TypeOK, Live, IdleTask
<1>3. CASE FinishStep
  BY <1>1, <1>3 DEF FinishStep, PublishSuccess, StartClaimedHealth, Quiet
<1>4. ASSUME NEW t \in Target, Start(t) \/ Review(t) PROVE Live(b)
  BY <1>4 DEF Start, StartScan, StartUpdate, StartAutoremove, AcceptAutoremove, StartHealth,
              HealthNotStarted, EasyUpdate,
              Review, ShowPlan, MarkViewed, ConfirmReview, MayCall
<1>5. ASSUME NEW t \in Target, RestoreStep(t) PROVE Live(b)
  <2>1. CASE InvalidateRestoreTarget(t)
    <3>1. task'[b].phase = task[b].phase
      BY <2>1, InvalidatedTask
    <3>2. QED
      BY <3>1 DEF Live
  <2>2. CASE BeginRestore(t) \/ EndRestore(t) \/ RestoreUncertain(t)
    BY <2>2 DEF BeginRestore, EndRestore, RestoreUncertain, Live
  <2>3. QED
    BY <1>5, <2>1, <2>2 DEF RestoreStep
<1>6. CASE \E seen \in [Target -> Observed] : Refresh(seen)
  BY <1>6 DEF Refresh
<1>7. CASE Unload \/ Reload
  BY <1>7 DEF Unload, Reload, Live
<1>8. QED
  BY <1>2, <1>3, <1>4, <1>5, <1>6, <1>7 DEF Next

(* No task, a Health check least of all, begins in an unloaded manager.    *)
THEOREM UnloadIsFinal == Spec => UnloadStartsNothing
<1>1. Inv /\ [Next]_vars => [unloaded => \A a \in Attempt : Live(a)' => Live(a)]_vars
  BY UnloadedStep
<1>2. QED
  BY <1>1, Invariance, PTL DEF Spec, UnloadStartsNothing

-----------------------------------------------------------------------------
(* A step after which the plan of each target is the one before or was not *)
(* reviewed, and after which no Update works that did not before, confirms *)
(* nothing that was not.                                                   *)
LEMMA StillConfirmed ==
  ASSUME ConfirmedPlanOnly,
         \A u \in Target : plan'[u] = plan[u] \/ ~plan'[u].reviewed,
         \A b \in Attempt : Active(b)' /\ task'[b].kind = "update" =>
           Active(b) /\ task[b].kind = "update" /\ task'[b].confirmed = task[b].confirmed
  PROVE  ConfirmedPlanOnly'
BY DEF ConfirmedPlanOnly

LEMMA StillWorking ==
  ASSUME Inv, ConfirmedPlanOnly, plan' = plan,
         \A b \in Attempt :
           \/ task'[b] = task[b]
           \/ task'[b].phase = "idle"
           \/ task'[b].kind = "health"
           \/ \E phase \in Phase : Active(b) /\ task'[b] = [task[b] EXCEPT !.phase = phase]
  PROVE  ConfirmedPlanOnly'
<1>1. \A b \in Attempt, phase \in Phase :
        LET e == [task[b] EXCEPT !.phase = phase] IN
        e.kind = task[b].kind /\ e.confirmed = task[b].confirmed
  BY DEF Inv, TypeOK, Task
<1> QED
  BY <1>1, StillConfirmed DEF Active, Live

LEMMA TaskStepConfirms ==
  ASSUME Inv, ConfirmedPlanOnly, NEW a \in Attempt, TaskStep(a)
  PROVE  ConfirmedPlanOnly'
<1>0. task \in [Attempt -> Task] /\ plan \in [Target -> Plan]
  BY DEF Inv, TypeOK
<1>1. CASE EndTask(a) /\ plan' = plan
  BY <1>0, <1>1, StillWorking DEF EndTask, IdleTask
<1>2. ASSUME NEW phase \in Phase, Active(a), GoTo(a, phase), plan' = plan
      PROVE  ConfirmedPlanOnly'
  BY <1>0, <1>2, StillWorking DEF GoTo
<1>3. CASE \E seen \in Cleanup, pending \in BOOLEAN : ScanDone(a, seen, pending)
  <2>1. task' = [task EXCEPT ![a] = IdleTask]
    BY <1>3 DEF ScanDone, EndTask
  <2>2. \A u \in Target : plan'[u] = plan[u] \/ ~plan'[u].reviewed
    BY <1>0, <1>3 DEF ScanDone
  <2> QED
    BY <1>0, <2>1, <2>2, StillConfirmed DEF Active, Live, IdleTask
<1>4. CASE \E seen \in Cleanup, h \in Attempt : MutationDone(a, seen, h)
  <2>1. PICK seen \in Cleanup, h \in Attempt : MutationDone(a, seen, h)
    BY <1>4
  <2>2. CASE task' = [task EXCEPT ![h] =
                        NewTask("health", task[a].target, "claimed", FALSE, FALSE)]
    BY <1>0, <2>1, <2>2, StillWorking DEF MutationDone, NewTask
  <2> QED
    BY <1>1, <2>1, <2>2 DEF MutationDone
<1>5. CASE AcquireScanSlot(a) \/ AcquireUpdateSlot(a) \/ ScanRead(a)
  <2>1. \E phase \in Phase : Active(a) /\ GoTo(a, phase) /\ plan' = plan
    BY <1>5 DEF AcquireScanSlot, AcquireUpdateSlot, ScanRead, managerVars, Phase
  <2> QED
    BY <1>2, <2>1
<1>6. CASE MutationStep(a)
  <2>1. (\E phase \in Phase : Active(a) /\ GoTo(a, phase)) \/ EndTask(a)
    BY <1>6 DEF MutationStep, Phase
  <2> QED
    BY <1>1, <1>2, <1>6, <2>1 DEF MutationStep, managerVars
<1> QED
  BY <1>1, <1>3, <1>4, <1>5, <1>6
  DEF TaskStep, ScanFailed, MutationFailed, HealthDone, CancelDelivered

(* An Update is accepted with a plan that is approved there and then.      *)
LEMMA AcceptConfirms ==
  ASSUME Inv, ConfirmedPlanOnly, NEW t \in Target, NEW a \in Attempt, NEW skip,
         AcceptUpdate(t, a, skip, TRUE)
  PROVE  ConfirmedPlanOnly'
<1>1. task \in [Attempt -> Task] /\ plan \in [Target -> Plan]
  BY DEF Inv, TypeOK
<1>2. \A u \in Target : plan'[u] = plan[u] \/ ~plan'[u].reviewed
  BY <1>1 DEF AcceptUpdate, NoPlan
<1>3. task'[a].confirmed /\ \A b \in Attempt \ {a} : task'[b] = task[b]
  BY <1>1 DEF AcceptUpdate, NewTask
<1> QED
  BY <1>2, <1>3 DEF ConfirmedPlanOnly, Active, Live

LEMMA ReviewedConfirms ==
  ASSUME Inv, ConfirmedPlanOnly, NEW t \in Target, MarkReviewed(t, TRUE)
  PROVE  ConfirmedPlanOnly'
<1>1. plan'[t].confirmed /\ \A u \in Target \ {t} : plan'[u] = plan[u]
  BY DEF Inv, TypeOK, Plan, MarkReviewed
<1> QED
  BY <1>1 DEF ConfirmedPlanOnly, MarkReviewed, Active, Live

LEMMA StartConfirms ==
  ASSUME Inv, ConfirmedPlanOnly, NEW t \in Target, Start(t)
  PROVE  ConfirmedPlanOnly'
<1>0. task \in [Attempt -> Task] /\ plan \in [Target -> Plan]
  BY DEF Inv, TypeOK
<1>1. PICK a \in Attempt :
        \/ StartScan(t, a) \/ StartAutoremove(t, a) \/ StartHealth(t, a)
        \/ HealthNotStarted(t)
        \/ \E skip \in BOOLEAN : StartUpdate(t, a, skip)
        \/ \E skip \in BOOLEAN, named \in BOOLEAN : EasyUpdate(t, a, skip, named)
  BY DEF Start
<1>2. ASSUME \A u \in Target : plan'[u] = plan[u] \/ plan'[u] = NoPlan,
             task'[a].kind # "update", \A b \in Attempt \ {a} : task'[b] = task[b]
      PROVE  ConfirmedPlanOnly'
  BY <1>2, StillConfirmed DEF NoPlan, Active, Live
<1>3. CASE StartScan(t, a)
  BY <1>0, <1>2, <1>3 DEF StartScan, NewTask
<1>4. CASE StartAutoremove(t, a)
  BY <1>0, <1>2, <1>4 DEF StartAutoremove, AcceptAutoremove, NewTask
<1>5. CASE StartHealth(t, a)
  BY <1>0, <1>2, <1>5 DEF StartHealth, NewTask
<1>6. ASSUME NEW skip \in BOOLEAN, StartUpdate(t, a, skip) PROVE ConfirmedPlanOnly'
  <2>1. plan[t].confirmed = TRUE
    BY <1>0, <1>6 DEF StartUpdate, ConfirmedPlanOnly, Plan
  <2> QED
    BY <1>6, <2>1, AcceptConfirms DEF StartUpdate
<1>7. ASSUME NEW skip \in BOOLEAN, NEW named \in BOOLEAN, EasyUpdate(t, a, skip, named)
      PROVE  ConfirmedPlanOnly'
  <2>1. (~named \/ held[t] = "current") = TRUE
    BY <1>7 DEF EasyUpdate, Names
  <2> QED
    BY <1>7, <2>1, AcceptConfirms, ReviewedConfirms DEF EasyUpdate
<1>8. CASE HealthNotStarted(t)
  BY <1>8, StillConfirmed DEF HealthNotStarted, Active, Live
<1> QED
  BY <1>1, <1>3, <1>4, <1>5, <1>6, <1>7, <1>8

LEMMA NextConfirms == Inv /\ ConfirmedPlanOnly /\ [Next]_vars => ConfirmedPlanOnly'
<1> SUFFICES ASSUME Inv, ConfirmedPlanOnly, [Next]_vars PROVE ConfirmedPlanOnly'
  OBVIOUS
<1>0. task \in [Attempt -> Task] /\ plan \in [Target -> Plan]
  BY DEF Inv, TypeOK
<1>1. CASE \E a \in Attempt : TaskStep(a)
  BY <1>1, TaskStepConfirms
<1>2. CASE FinishStep
  <2>1. CASE PublishSuccess
    BY <2>1, StillWorking DEF PublishSuccess
  <2>2. ASSUME NEW started \in BOOLEAN, StartClaimedHealth(started) PROVE ConfirmedPlanOnly'
    <3>1. /\ frame.attempt \in Attempt /\ frame.claim \in Attempt /\ Active(frame.claim)
          /\ frame.claim # frame.attempt
      BY <2>2 DEF Inv, FrameFits, StartClaimedHealth
    <3>2. \A b \in Attempt :
            \/ task'[b] = task[b] \/ task'[b] = IdleTask
            \/ Active(b) /\ task'[b] = [task[b] EXCEPT !.phase = "check"]
      BY <1>0, <2>2, <3>1 DEF StartClaimedHealth
    <3> QED
      BY <2>2, <3>2, StillWorking DEF StartClaimedHealth, IdleTask, Phase
  <2> QED
    BY <1>2, <2>1, <2>2 DEF FinishStep
<1>3. ASSUME NEW t \in Target, Start(t) PROVE ConfirmedPlanOnly'
  BY <1>3, StartConfirms
<1>4. ASSUME NEW t \in Target, Review(t) PROVE ConfirmedPlanOnly'
  <2>1. CASE ConfirmReview(t)
    <3>1. (viewed[t] = "current") = TRUE
      BY <2>1 DEF ConfirmReview
    <3> QED
      BY <2>1, <3>1, ReviewedConfirms DEF ConfirmReview
  <2>2. CASE ShowPlan(t) \/ MarkViewed(t)
    BY <2>2, StillWorking DEF ShowPlan, MarkViewed, managerVars
  <2> QED
    BY <1>4, <2>1, <2>2 DEF Review
<1>5. ASSUME NEW t \in Target, RestoreStep(t) PROVE ConfirmedPlanOnly'
  <2>1. CASE InvalidateRestoreTarget(t)
    <3>1. \A b \in Attempt : /\ task'[b].kind = task[b].kind /\ task'[b].phase = task[b].phase
                             /\ task'[b].confirmed = task[b].confirmed
                             /\ ~task'[b].cancelled => ~task[b].cancelled
      BY <1>0, <2>1 DEF InvalidateRestoreTarget, Task
    <3>2. \A u \in Target : plan'[u] = plan[u] \/ plan'[u] = NoPlan
      BY <1>0, <2>1 DEF InvalidateRestoreTarget
    <3> QED
      BY <3>1, <3>2, StillConfirmed DEF NoPlan, Active, Live
  <2> QED
    BY <1>5, <2>1, StillWorking DEF RestoreStep, BeginRestore, EndRestore, RestoreUncertain
<1>6. ASSUME NEW seen \in [Target -> Observed], Refresh(seen) PROVE ConfirmedPlanOnly'
  <2>1. \A b \in Attempt : /\ task'[b].kind = task[b].kind /\ task'[b].phase = task[b].phase
                           /\ task'[b].confirmed = task[b].confirmed
                           /\ ~task'[b].cancelled => ~task[b].cancelled
    BY <1>0, <1>6 DEF Refresh, Task
  <2>2. \A u \in Target : plan'[u] = plan[u] \/ plan'[u] = NoPlan
    BY <1>0, <1>6 DEF Refresh
  <2> QED
    BY <2>1, <2>2, StillConfirmed DEF NoPlan, Active, Live
<1>7. CASE Unload
  <2>1. \A b \in Attempt : /\ task'[b].kind = task[b].kind /\ task'[b].phase = task[b].phase
                           /\ task'[b].cancelled = Live(b)
    BY <1>0, <1>7 DEF Unload, Task
  <2> QED
    BY <1>7, <2>1, StillConfirmed DEF Unload, managerVars, Active, Live
<1>8. CASE Reload
  BY <1>0, <1>8, StillConfirmed DEF Reload, NoPlan, Active, Live
<1>9. CASE UNCHANGED vars
  BY <1>9, StillWorking DEF vars, managerVars
<1> QED
  BY <1>1, <1>2, <1>3, <1>4, <1>5, <1>6, <1>7, <1>8, <1>9 DEF Next

(* The plan an Update runs is one the operator approved: by the token of   *)
(* the Review, or by the scan attempt of the card it was shown on.         *)
THEOREM PlansConfirmed == Spec => []ConfirmedPlanOnly
<1>1. Init => ConfirmedPlanOnly
  BY DEF Init, ConfirmedPlanOnly, NoPlan, Active, Live, IdleTask
<1> QED
  BY <1>1, NextConfirms, Invariance, PTL DEF Spec

-----------------------------------------------------------------------------
(***************************************************************************)
(* What AttemptsEnd rests on, short of fairness: a distance to the end     *)
(* that every step of a task shortens and no other step lengthens, and,    *)
(* for whoever waits at a semaphore, a holder that can go on.              *)
(***************************************************************************)
(* How a task may go on.                                                   *)
Edges == {<<"slot", "read">>, <<"slot", "plan">>, <<"read", "observe">>,
          <<"plan", "snapshot">>, <<"plan", "mutate">>, <<"snapshot", "mutate">>,
          <<"mutate", "delete">>, <<"mutate", "observe">>, <<"delete", "observe">>,
          <<"claimed", "check">>}

Stays(b)  == task'[b].kind = task[b].kind /\ task'[b].phase = task[b].phase
Begins(b) == /\ ~Live(b)
             /\ \/ task'[b].kind = "health" /\ task'[b].phase \in {"check", "claimed"}
                \/ task'[b].kind # "health" /\ task'[b].phase = "slot"
GoesOn(b) == task'[b].kind = task[b].kind /\ <<task[b].phase, task'[b].phase>> \in Edges
Changes(b) == ~Live(b)' \/ Stays(b) \/ Begins(b) \/ GoesOn(b)

LEMMA EndsChange ==
  ASSUME Inv, NEW a \in Attempt, EndTask(a), NEW b \in Attempt
  PROVE  Changes(b) /\ ~Live(a)'
BY DEF Inv, TypeOK, EndTask, Changes, Stays, Live, IdleTask

LEMMA GoToChange ==
  ASSUME Inv, NEW a \in Attempt, NEW p, GoTo(a, p), <<task[a].phase, p>> \in Edges,
         NEW b \in Attempt
  PROVE  Changes(b) /\ GoesOn(a)
BY DEF Inv, TypeOK, Task, GoTo, Changes, Stays, GoesOn

(* A step of a task ends it, takes it on, or claims its Health check.      *)
LEMMA TaskChange ==
  ASSUME Inv, NEW a \in Attempt, TaskStep(a), NEW b \in Attempt
  PROVE  /\ Changes(b)
         /\ \/ (~Live(a)' \/ GoesOn(a)) /\ frame' = frame
            \/ /\ task[a].phase = "observe" /\ Stays(a) /\ Live(a)
               /\ frame'.point = "claimed" /\ frame'.attempt = a
         /\ Live(a) /\ frame.point = "idle" /\ frame.attempt # a
<1>1. Live(a) /\ Quiet /\ frame.attempt # a
  <2>1. Live(a) /\ Quiet
    BY DEF TaskStep, AcquireScanSlot, AcquireUpdateSlot, ScanRead, ScanFailed, ScanDone,
           MutationStep, MutationFailed, MutationDone, HealthDone, CancelDelivered, Active
  <2> QED
    BY <2>1, DomainAssumption DEF Inv, FrameFits, Quiet
<1>2. CASE EndTask(a) /\ frame' = frame
  BY <1>1, <1>2, EndsChange DEF Quiet
<1>3. ASSUME NEW p, GoTo(a, p), <<task[a].phase, p>> \in Edges, frame' = frame
      PROVE  /\ Changes(b) /\ GoesOn(a) /\ frame' = frame
             /\ Live(a) /\ frame.point = "idle" /\ frame.attempt # a
  BY <1>1, <1>3, GoToChange DEF Quiet
<1>4. CASE AcquireScanSlot(a) \/ AcquireUpdateSlot(a) \/ ScanRead(a)
  BY <1>3, <1>4 DEF AcquireScanSlot, AcquireUpdateSlot, ScanRead, Edges
<1>5. CASE MutationStep(a)
  BY <1>2, <1>3, <1>5 DEF MutationStep, Edges
<1>6. ASSUME NEW seen \in Cleanup, NEW h \in Attempt, MutationDone(a, seen, h),
             task' = [task EXCEPT ![h] = NewTask("health", task[a].target, "claimed", FALSE, FALSE)],
             frame' = [point |-> "claimed", attempt |-> a, claim |-> h], ~Live(h)
      PROVE  /\ Changes(b)
             /\ task[a].phase = "observe" /\ Stays(a) /\ Live(a)
             /\ frame'.point = "claimed" /\ frame'.attempt = a
  BY <1>1, <1>6 DEF Inv, TypeOK, MutationDone, NewTask, Changes, Stays, Begins, Live
<1>7. CASE \E seen \in Cleanup, h \in Attempt : MutationDone(a, seen, h)
  BY <1>1, <1>2, <1>6, <1>7 DEF MutationDone, Quiet
<1> QED
  BY <1>2, <1>4, <1>5, <1>7
  DEF TaskStep, ScanFailed, ScanDone, MutationFailed, HealthDone, CancelDelivered

(* The finish call on the stack: it publishes, and ends what it began.     *)
LEMMA FinishChange ==
  ASSUME Inv, FinishStep, NEW b \in Attempt
  PROVE  /\ Changes(b)
         /\ \/ /\ task' = task /\ frame.point = "claimed"
               /\ frame' = [frame EXCEPT !.point = "published"]
            \/ frame' = NoFrame /\ task'[frame.attempt].phase = "idle"
         /\ frame.attempt \in Attempt /\ Live(frame.attempt) /\ task[frame.attempt].phase = "observe"
<1>0. /\ task \in [Attempt -> Task] /\ frame.attempt \in Attempt /\ frame.claim \in Attempt
      /\ Live(frame.attempt) /\ task[frame.attempt].phase = "observe"
      /\ task[frame.claim].phase = "claimed"
  BY DEF Inv, TypeOK, FrameFits, FinishStep, PublishSuccess, StartClaimedHealth, Active
<1>1. CASE PublishSuccess
  BY <1>0, <1>1 DEF PublishSuccess, Changes, Stays
<1>2. ASSUME NEW started \in BOOLEAN, StartClaimedHealth(started)
      PROVE  frame' = NoFrame /\ task'[frame.attempt].phase = "idle" /\ Changes(b)
  <2> DEFINE a == frame.attempt
             h == frame.claim
  <2>1. a # h
    BY <1>0
  <2>2. CASE task' = [task EXCEPT ![a] = IdleTask, ![h].phase = "check"]
    <3>1. task'[a] = IdleTask /\ task'[h] = [task[h] EXCEPT !.phase = "check"]
          /\ \A c \in Attempt \ {a, h} : task'[c] = task[c]
      BY <1>0, <2>1, <2>2
    <3>2. GoesOn(h)
      <4>1. task[h] \in Task
        BY <1>0
      <4>2. task'[h].kind = task[h].kind /\ task'[h].phase = "check"
        BY <3>1, <4>1 DEF Task
      <4> QED
        BY <1>0, <4>2 DEF GoesOn, Edges
    <3> QED
      BY <1>2, <3>1, <3>2 DEF StartClaimedHealth, Changes, Stays, Live, IdleTask
  <2>3. CASE task' = [task EXCEPT ![a] = IdleTask, ![h] = IdleTask]
    <3>1. task'[a] = IdleTask /\ task'[h] = IdleTask
          /\ \A c \in Attempt \ {a, h} : task'[c] = task[c]
      BY <1>0, <2>1, <2>3
    <3> QED
      BY <1>2, <3>1 DEF StartClaimedHealth, Changes, Stays, Live, IdleTask
  <2> QED
    BY <1>2, <2>2, <2>3 DEF StartClaimedHealth
<1> QED
  BY <1>0, <1>1, <1>2 DEF FinishStep

(* A call begins a task; anything else only marks tasks.                   *)
LEMMA OtherChange ==
  ASSUME Inv, [Next]_vars, ~FinishStep, \A a \in Attempt : ~TaskStep(a), NEW b \in Attempt
  PROVE  (Stays(b) \/ Begins(b)) /\ frame' = frame
<1>0. task \in [Attempt -> Task]
  BY DEF Inv, TypeOK
<1>1. ASSUME NEW t \in Target, Start(t) PROVE (Stays(b) \/ Begins(b)) /\ frame' = frame
  <2>1. PICK a \in Attempt :
          \/ StartScan(t, a) \/ StartAutoremove(t, a) \/ StartHealth(t, a)
          \/ HealthNotStarted(t)
          \/ \E skip \in BOOLEAN : StartUpdate(t, a, skip)
          \/ \E skip \in BOOLEAN, named \in BOOLEAN : EasyUpdate(t, a, skip, named)
    BY <1>1 DEF Start
  <2>2. ASSUME NEW k \in Kind \ {"health"}, NEW skip, NEW ok, ~Live(a),
               task' = [task EXCEPT ![a] = NewTask(k, t, "slot", skip, ok)]
        PROVE  Stays(b) \/ Begins(b)
    BY <1>0, <2>2 DEF NewTask, Stays, Begins
  <2>3. CASE StartScan(t, a)
    BY <2>2, <2>3 DEF StartScan, Kind
  <2>4. CASE StartAutoremove(t, a)
    BY <2>2, <2>4 DEF StartAutoremove, AcceptAutoremove, Kind
  <2>5. CASE StartHealth(t, a)
    BY <1>0, <2>5 DEF StartHealth, NewTask, Stays, Begins
  <2>6. ASSUME NEW skip \in BOOLEAN, StartUpdate(t, a, skip)
        PROVE  (Stays(b) \/ Begins(b)) /\ frame' = frame
    BY <2>2, <2>6 DEF StartUpdate, AcceptUpdate, Kind
  <2>7. ASSUME NEW skip \in BOOLEAN, NEW named \in BOOLEAN, EasyUpdate(t, a, skip, named)
        PROVE  (Stays(b) \/ Begins(b)) /\ frame' = frame
    <3>1. CASE Idle(t)
      BY <2>2, <2>7, <3>1 DEF EasyUpdate, AcceptUpdate, Kind
    <3>2. CASE ~Idle(t)
      BY <2>7, <3>2 DEF EasyUpdate, MarkReviewed, Stays
    <3> QED
      BY <3>1, <3>2
  <2>8. CASE HealthNotStarted(t)
    BY <2>8 DEF HealthNotStarted, Stays
  <2> QED
    BY <2>1, <2>3, <2>4, <2>5, <2>6, <2>7, <2>8
<1>2. ASSUME NEW t \in Target, RestoreStep(t) PROVE Stays(b) /\ frame' = frame
  <2>1. CASE InvalidateRestoreTarget(t)
    BY <1>0, <2>1 DEF InvalidateRestoreTarget, Stays, Task
  <2> QED
    BY <1>2, <2>1 DEF RestoreStep, BeginRestore, EndRestore, RestoreUncertain, Stays
<1>3. ASSUME NEW seen \in [Target -> Observed], Refresh(seen) PROVE Stays(b) /\ frame' = frame
  BY <1>0, <1>3 DEF Refresh, Stays, Task
<1>4. CASE Unload \/ Reload
  BY <1>0, <1>4 DEF Unload, Reload, Stays, Task
<1>5. ASSUME NEW t \in Target, Review(t) PROVE Stays(b) /\ frame' = frame
  BY <1>5 DEF Review, ShowPlan, MarkViewed, ConfirmReview, MarkReviewed, Stays
<1> QED
  BY <1>1, <1>2, <1>3, <1>4, <1>5 DEF Next, vars, Stays

(* The steps a task has left, at most; the observation of a mutation is    *)
(* followed by two steps of the finish call.                               *)
StepsLeft(a) ==
  IF ~Live(a) THEN 0
  ELSE IF a = frame.attempt /\ frame.point = "claimed" THEN 2
  ELSE IF a = frame.attempt /\ frame.point = "published" THEN 1
  ELSE CASE task[a].phase = "slot" -> 8 [] task[a].phase = "plan" -> 7
         [] task[a].phase = "snapshot" -> 6 [] task[a].phase = "mutate" -> 5
         [] task[a].phase \in {"delete", "read"} -> 4 [] task[a].phase = "observe" -> 3
         [] task[a].phase = "claimed" -> 2 [] OTHER -> 1

Nearer(a) == StepsLeft(a)' < StepsLeft(a)
Ahead(a)  == StepsLeft(a)' <= StepsLeft(a)

LEMMA StepsAre == \A a : StepsLeft(a) \in 0 .. 8 /\ (StepsLeft(a) > 0 <=> Live(a))
BY DEF StepsLeft

(* A change of a task that is not in the finish call, before or after.     *)
LEMMA ChangeAhead ==
  ASSUME NEW b \in Attempt, Live(b), Changes(b), b # frame.attempt, b # frame'.attempt
  PROVE  Ahead(b) /\ (~Live(b)' \/ GoesOn(b) => Nearer(b))
BY DEF Changes, Stays, Begins, GoesOn, Edges, Ahead, Nearer, StepsLeft, Live

(* And of the one that is.                                                 *)
LEMMA FramedAhead ==
  ASSUME Inv, NEW b \in Attempt, b = frame.attempt, frame' = frame, Stays(b)
  PROVE  Ahead(b)
BY DEF Stays, Ahead, StepsLeft, Live

LEMMA TaskNearer ==
  ASSUME Inv, NEW a \in Attempt, TaskStep(a)
  PROVE  Nearer(a) /\ \A b \in Attempt : Live(b) => Ahead(b)
<1>1. Live(a) /\ frame.point = "idle" /\ \A b \in Attempt : frame.attempt # b
  BY TaskChange, DomainAssumption DEF Inv, FrameFits
<1>2. CASE (~Live(a)' \/ GoesOn(a)) /\ frame' = frame
  <2>1. \A b \in Attempt : Changes(b)
    BY TaskChange
  <2>2. \A b \in Attempt : Live(b) =>
          Ahead(b) /\ (~Live(b)' \/ GoesOn(b) => Nearer(b))
    BY <1>1, <1>2, <2>1, ChangeAhead
  <2> QED
    BY <1>1, <1>2, <2>2
<1>3. CASE /\ task[a].phase = "observe" /\ Stays(a) /\ Live(a)
           /\ frame'.point = "claimed" /\ frame'.attempt = a
  <2>1. StepsLeft(a) = 3 /\ StepsLeft(a)' = 2
    BY <1>1, <1>3 DEF StepsLeft, Stays, Live
  <2>2. \A b \in Attempt \ {a} : Live(b) => Ahead(b)
    BY <1>1, <1>3, TaskChange, ChangeAhead
  <2> QED
    BY <2>1, <2>2 DEF Nearer, Ahead
<1>4. \/ (~Live(a)' \/ GoesOn(a)) /\ frame' = frame
      \/ /\ task[a].phase = "observe" /\ Stays(a) /\ Live(a)
         /\ frame'.point = "claimed" /\ frame'.attempt = a
  BY TaskChange
<1> QED
  BY <1>2, <1>3, <1>4

LEMMA FinishNearer ==
  ASSUME Inv, FinishStep, NEW a \in Attempt, a = frame.attempt
  PROVE  Nearer(a) /\ \A b \in Attempt : Live(b) => Ahead(b)
<1>1. /\ Live(a) /\ \A b \in Attempt : Changes(b)
      /\ \/ /\ task' = task /\ frame.point = "claimed"
            /\ frame' = [frame EXCEPT !.point = "published"]
         \/ frame' = NoFrame /\ task'[a].phase = "idle"
  BY FinishChange
<1>2. frame \in Frame
  BY DEF Inv, TypeOK
<1>3. CASE /\ task' = task /\ frame.point = "claimed"
           /\ frame' = [frame EXCEPT !.point = "published"]
  <2>1. frame'.attempt = a /\ frame'.point = "published"
    BY <1>2, <1>3 DEF Frame
  <2>2. StepsLeft(a) = 2 /\ StepsLeft(a)' = 1
    BY <1>1, <1>3, <2>1 DEF StepsLeft, Live
  <2>3. \A b \in Attempt \ {a} : Live(b) => Ahead(b)
    BY <1>1, <2>1, ChangeAhead
  <2> QED
    BY <2>2, <2>3 DEF Nearer, Ahead
<1>4. CASE frame' = NoFrame /\ task'[a].phase = "idle"
  <2>1. StepsLeft(a) > 0 /\ StepsLeft(a)' = 0
    BY <1>1, <1>4, StepsAre DEF StepsLeft, Live
  <2>2. \A b \in Attempt \ {a} : Live(b) => Ahead(b)
    BY <1>1, <1>4, DomainAssumption, ChangeAhead DEF NoFrame
  <2>3. StepsLeft(a)' < StepsLeft(a) /\ StepsLeft(a)' <= StepsLeft(a)
    BY <2>1, StepsAre
  <2> QED
    BY <2>2, <2>3 DEF Nearer, Ahead
<1> QED
  BY <1>1, <1>3, <1>4

LEMMA OtherAhead ==
  ASSUME Inv, [Next]_vars, ~FinishStep, \A a \in Attempt : ~TaskStep(a),
         NEW b \in Attempt, Live(b)
  PROVE  Ahead(b)
<1>1. Stays(b) /\ frame' = frame
  BY OtherChange DEF Begins
<1>2. CASE b = frame.attempt
  BY <1>1, <1>2, FramedAhead
<1>3. CASE b # frame.attempt
  BY <1>1, <1>3, ChangeAhead DEF Changes
<1> QED
  BY <1>2, <1>3

(* Every step of a task brings it nearer to its end, every step of the     *)
(* finish call the mutation it settles, and no step of anyone, no call,    *)
(* refresh, Restore or unload, takes a live task farther from its end.     *)
THEOREM AttemptNearer ==
  Spec => [][\A a \in Attempt :
               /\ TaskStep(a) => Nearer(a)
               /\ FinishStep /\ a = frame.attempt => Nearer(a)
               /\ Live(a) => Ahead(a)]_vars
<1>1. Inv /\ [Next]_vars => \A a \in Attempt :
        /\ TaskStep(a) => Nearer(a)
        /\ FinishStep /\ a = frame.attempt => Nearer(a)
        /\ Live(a) => Ahead(a)
  <2> SUFFICES ASSUME Inv, [Next]_vars, NEW a \in Attempt
               PROVE  /\ TaskStep(a) => Nearer(a)
                      /\ FinishStep /\ a = frame.attempt => Nearer(a)
                      /\ Live(a) => Ahead(a)
    OBVIOUS
  <2>1. TaskStep(a) => Nearer(a)
    BY TaskNearer
  <2>2. FinishStep /\ a = frame.attempt => Nearer(a)
    BY FinishNearer
  <2>3. ASSUME Live(a) PROVE Ahead(a)
    <3>1. CASE FinishStep
      <4>1. frame.attempt \in Attempt
        BY <3>1, FinishChange
      <4> QED
        BY <2>3, <3>1, <4>1, FinishNearer
    <3>2. CASE \E c \in Attempt : TaskStep(c)
      BY <2>3, <3>2, TaskNearer
    <3> QED
      BY <2>3, <3>1, <3>2, OtherAhead
  <2> QED
    BY <2>1, <2>2, <2>3
<1> QED
  BY <1>1, Invariance, PTL DEF Spec

(* A Health task waits at no semaphore and for no observation.             *)
HealthOnlyChecks ==
  \A a \in Attempt : Live(a) /\ task[a].kind = "health"
                       => task[a].phase \in {"claimed", "check"}

LEMMA AnyChange == ASSUME Inv, [Next]_vars, NEW b \in Attempt PROVE Changes(b)
BY TaskChange, FinishChange, OtherChange DEF Changes

LEMMA HealthInvariance == Spec => []HealthOnlyChecks
<1>1. Init => HealthOnlyChecks
  BY DEF Init, HealthOnlyChecks, Live, IdleTask
<1>2. Inv /\ HealthOnlyChecks /\ [Next]_vars => HealthOnlyChecks'
  <2> SUFFICES ASSUME Inv, HealthOnlyChecks, [Next]_vars, NEW a \in Attempt
               PROVE  task'[a].phase # "idle" /\ task'[a].kind = "health"
                        => task'[a].phase \in {"claimed", "check"}
    BY DEF HealthOnlyChecks, Live
  <2>1. Changes(a)
    BY AnyChange
  <2> QED
    BY <2>1 DEF Changes, Stays, Begins, GoesOn, Edges, HealthOnlyChecks, Live
<1> QED
  BY <1>1, <1>2, Invariance, PTL DEF Spec

(* The guard of TaskStep(a): a cancelled task sees CancelledError, a slot  *)
(* must be free, and a Health claim takes an identity that is not in use.  *)
CanGo(a) ==
  /\ Quiet /\ Live(a)
  /\ \/ task[a].cancelled
     \/ task[a].phase \in {"read", "plan", "snapshot", "mutate", "delete", "check"}
     \/ /\ task[a].phase = "slot" /\ task[a].kind = "scan"
        /\ Cardinality(ScanHolders) < ScanSlots
     \/ /\ task[a].phase = "slot" /\ task[a].kind \in Mutation
        /\ Cardinality(UpdateHolders) < UpdateSlots
     \/ /\ task[a].phase = "observe"
        /\ \/ task[a].kind = "scan"
           \/ ~Owns(a) \/ HealthClaimBlocked(task[a].target)
           \/ \E h \in Attempt : ~Live(h)

Holders(a) == IF task[a].kind = "scan" THEN ScanHolders ELSE UpdateHolders

(* Whoever cannot go on is in the queue of a semaphore, and every task     *)
(* that holds it can, is nearer to its end, and waits for no other: the    *)
(* tasks of an entry never wait in a circle, across both semaphores.       *)
WaitsForHolders ==
  Quiet /\ (\E h \in Attempt : ~Live(h)) =>
    \A a \in Attempt : Live(a) =>
      \/ CanGo(a)
      \/ /\ task[a].phase = "slot" /\ Holders(a) # {}
         /\ \A b \in Holders(a) : CanGo(b) /\ StepsLeft(b) < StepsLeft(a)

THEOREM WaitsOnlyForHolders == Spec => []WaitsForHolders
<1>1. Inv /\ HealthOnlyChecks => WaitsForHolders
  <2> SUFFICES ASSUME Inv, HealthOnlyChecks, Quiet, NEW h \in Attempt, ~Live(h),
                      NEW a \in Attempt, Live(a), ~CanGo(a)
               PROVE  /\ task[a].phase = "slot" /\ Holders(a) # {}
                      /\ \A b \in Holders(a) : CanGo(b) /\ StepsLeft(b) < StepsLeft(a)
    BY DEF WaitsForHolders
  <2>1. /\ task[a].phase \in Phase /\ task[a].kind \in Kind
        /\ frame.attempt = None /\ frame.claim = None /\ a # None
    BY DomainAssumption DEF Inv, TypeOK, Task, TasksFit, FrameFits, Quiet
  <2>2. task[a].phase = "slot" /\ task[a].kind \in {"scan", "update", "cleanup"}
    BY <2>1 DEF CanGo, Phase, Kind, Inv, TasksFit, HealthOnlyChecks, Live
  <2>3. Cardinality({}) = 0
    BY FS_EmptySet
  <2>4. Holders(a) # {}
    <3>1. CASE task[a].kind = "scan"
      BY <2>2, <2>3, <3>1, DomainAssumption DEF CanGo, Holders
    <3>2. CASE task[a].kind # "scan"
      <4>1. ~(Cardinality(UpdateHolders) < UpdateSlots)
        BY <2>2, <3>2 DEF CanGo, Mutation
      <4> QED
        BY <2>3, <3>2, <4>1, DomainAssumption DEF Holders
    <3> QED
      BY <3>1, <3>2
  <2>5. ASSUME NEW b \in Holders(a)
        PROVE  /\ b \in Attempt
               /\ \/ task[b].phase \in {"read", "plan", "snapshot", "mutate", "delete"}
                  \/ task[b].phase = "observe" /\ task[b].kind = "scan"
    BY <2>5 DEF Holders, ScanHolders, UpdateHolders
  <2>6. ASSUME NEW b \in Holders(a) PROVE CanGo(b)
    BY <2>5, <2>6 DEF CanGo, Live
  <2>7. StepsLeft(a) = 8
    BY <2>1, <2>2 DEF StepsLeft, Live
  <2>8. ASSUME NEW b \in Holders(a) PROVE StepsLeft(b) < 8
    BY <2>1, <2>5, <2>8, DomainAssumption DEF StepsLeft, Live
  <2> QED
    BY <2>2, <2>4, <2>6, <2>7, <2>8
<1> QED
  BY <1>1, Invariance, HealthInvariance, PTL

-----------------------------------------------------------------------------
(***************************************************************************)
(* The slots: a semaphore is never held by more tasks than it admits.      *)
(***************************************************************************)
SlotsKept == /\ Cardinality(ScanHolders) <= ScanSlots
             /\ Cardinality(UpdateHolders) <= UpdateSlots

(* A task leaves the queue of a semaphore by acquiring it, or at its end.  *)
LEMMA LeavesQueue ==
  ASSUME Inv, [Next]_vars, NEW b \in Attempt,
         task[b].phase = "slot", task'[b].phase \notin {"slot", "idle"}
  PROVE  \/ AcquireScanSlot(b) /\ task'[b].phase = "read"
         \/ AcquireUpdateSlot(b) /\ task'[b].phase = "plan"
<1>0. task \in [Attempt -> Task]
  BY DEF Inv, TypeOK
<1>1. ASSUME NEW a \in Attempt, TaskStep(a)
      PROVE  \/ AcquireScanSlot(b) /\ task'[b].phase = "read"
             \/ AcquireUpdateSlot(b) /\ task'[b].phase = "plan"
  <2>1. \A p : GoTo(a, p) => IF b = a THEN task'[b].phase = p ELSE task'[b] = task[b]
    BY <1>0 DEF GoTo, Task
  <2>2. EndTask(a) => task'[b] \in {task[b], IdleTask}
    BY <1>0 DEF EndTask
  <2>3. CASE AcquireScanSlot(a) \/ AcquireUpdateSlot(a)
    BY <2>1, <2>3 DEF AcquireScanSlot, AcquireUpdateSlot
  <2>4. CASE ScanRead(a) \/ MutationStep(a)
    BY <2>1, <2>2, <2>4 DEF ScanRead, MutationStep, IdleTask
  <2>5. CASE \E seen \in Cleanup, h \in Attempt : MutationDone(a, seen, h)
    <3>1. PICK seen \in Cleanup, h \in Attempt : MutationDone(a, seen, h)
      BY <2>5
    <3>2. \/ /\ ~Live(h)
             /\ task' = [task EXCEPT
                  ![h] = NewTask("health", task[a].target, "claimed", FALSE, FALSE)]
          \/ EndTask(a)
      BY <3>1 DEF MutationDone
    <3>3. ~Live(h) => b # h
      BY DEF Live
    <3>4. task'[b] \in {task[b], IdleTask}
      BY <1>0, <2>2, <3>2, <3>3
    <3> QED
      BY <3>4 DEF IdleTask
  <2>6. CASE EndTask(a)
    BY <2>2, <2>6 DEF IdleTask
  <2>7. \/ \E seen \in Cleanup, h \in Attempt : MutationDone(a, seen, h)
        \/ AcquireScanSlot(a) \/ AcquireUpdateSlot(a) \/ ScanRead(a) \/ MutationStep(a)
        \/ EndTask(a)
    BY <1>1 DEF TaskStep, ScanFailed, ScanDone, MutationFailed, HealthDone, CancelDelivered
  <2> QED
    BY <2>3, <2>4, <2>5, <2>6, <2>7
<1>2. CASE FinishStep
  <2>1. Stays(b) \/ task'[b].phase = "idle" \/ task[b].phase = "claimed"
    <3>1. CASE PublishSuccess
      BY <3>1 DEF PublishSuccess, Stays
    <3>2. ASSUME NEW started \in BOOLEAN, StartClaimedHealth(started)
          PROVE  task'[b] \in {task[b], IdleTask} \/ task[b].phase = "claimed"
      <4>1. task[frame.claim].phase = "claimed"
        BY <3>2 DEF Inv, FrameFits, StartClaimedHealth
      <4> QED
        BY <1>0, <3>2, <4>1 DEF StartClaimedHealth
    <3> QED
      BY <1>2, <3>1, <3>2 DEF FinishStep, Stays, IdleTask
  <2> QED
    BY <2>1 DEF Stays
<1>3. CASE ~FinishStep /\ \A a \in Attempt : ~TaskStep(a)
  BY <1>3, OtherChange DEF Stays, Begins, Live
<1> QED
  BY <1>1, <1>2, <1>3

(* And it holds the slot no longer once it has left those phases.          *)
LEMMA BecomesHolder ==
  ASSUME Inv, HealthOnlyChecks, [Next]_vars, NEW b \in Attempt
  PROVE  /\ b \in ScanHolders' => b \in ScanHolders \/ AcquireScanSlot(b)
         /\ b \in UpdateHolders' => b \in UpdateHolders \/ AcquireUpdateSlot(b)
<1>1. Changes(b)
  BY AnyChange
<1>2. task[b].phase = "slot" =>
        \/ task'[b].phase \in {"slot", "idle"}
        \/ AcquireScanSlot(b) /\ task'[b].phase = "read"
        \/ AcquireUpdateSlot(b) /\ task'[b].phase = "plan"
  BY LeavesQueue
<1>3. /\ task[b].phase \in {"plan", "mutate", "delete", "snapshot"} => task[b].kind \in Mutation
      /\ task[b].phase = "read" => task[b].kind = "scan"
  BY DEF Inv, TasksFit, Live
<1> QED
  BY <1>1, <1>2, <1>3
  DEF Changes, Stays, Begins, GoesOn, Edges, ScanHolders, UpdateHolders, Live, Mutation

LEMMA OneMore ==
  ASSUME IsFiniteSet(Attempt), NEW S, NEW T, NEW n \in Nat,
         S \subseteq Attempt, T \subseteq Attempt, Cardinality(S) <= n,
         \A b \in T : b \in S \/ (Cardinality(S) < n /\ \A c \in T : c \in S \/ c = b)
  PROVE  Cardinality(T) <= n
<1>1. IsFiniteSet(S) /\ IsFiniteSet(T) /\ Cardinality(S) \in Nat /\ Cardinality(T) \in Nat
  BY FS_Subset, FS_CardinalityType
<1>2. CASE T \subseteq S
  BY <1>1, <1>2, FS_Subset
<1>3. ASSUME NEW b \in T, b \notin S PROVE Cardinality(T) <= n
  <2>1. T \subseteq S \cup {b} /\ Cardinality(S) < n
    BY <1>3
  <2>2. IsFiniteSet(S \cup {b}) /\ Cardinality(S \cup {b}) = Cardinality(S) + 1
    BY <1>1, <1>3, FS_AddElement
  <2>3. Cardinality(T) <= Cardinality(S \cup {b})
    BY <2>1, <2>2, FS_Subset
  <2> QED
    BY <1>1, <2>1, <2>2, <2>3
<1> QED
  BY <1>2, <1>3

(* No more Scans are read, and no more Updates and Autoremoves worked on,  *)
(* than _MAX_GLOBAL_SCANS and the update semaphore admit, whatever fails,  *)
(* is cancelled, pruned, or left behind by an unload.                      *)
THEOREM SlotsAreKept ==
  ASSUME IsFiniteSet(Attempt)
  PROVE  Spec => []SlotsKept
<1>1. Init => SlotsKept
  <2> SUFFICES ASSUME Init PROVE SlotsKept
    OBVIOUS
  <2>1. ScanHolders = {} /\ UpdateHolders = {}
    BY DEF Init, IdleTask, ScanHolders, UpdateHolders
  <2> QED
    BY <2>1, FS_EmptySet, DomainAssumption DEF SlotsKept
<1>2. Inv /\ HealthOnlyChecks /\ SlotsKept /\ [Next]_vars => SlotsKept'
  <2> SUFFICES ASSUME Inv, HealthOnlyChecks, SlotsKept, [Next]_vars PROVE SlotsKept'
    OBVIOUS
  <2>0. task \in [Attempt -> Task] /\ ScanSlots \in Nat /\ UpdateSlots \in Nat
    BY DomainAssumption DEF Inv, TypeOK
  <2>1. ASSUME NEW a \in Attempt, AcquireScanSlot(a) \/ AcquireUpdateSlot(a),
               NEW b \in Attempt \ {a}
        PROVE  task'[b] = task[b]
    BY <2>0, <2>1 DEF AcquireScanSlot, AcquireUpdateSlot, GoTo
  <2>2. Cardinality(ScanHolders') <= ScanSlots
    <3>1. \A b \in ScanHolders' : \/ b \in ScanHolders
                                  \/ /\ Cardinality(ScanHolders) < ScanSlots
                                     /\ \A c \in ScanHolders' : c \in ScanHolders \/ c = b
      BY <2>1, BecomesHolder DEF ScanHolders, AcquireScanSlot
    <3>2. ScanHolders \subseteq Attempt /\ ScanHolders' \subseteq Attempt
      BY DEF ScanHolders
    <3> QED
      BY <2>0, <3>1, <3>2, OneMore DEF SlotsKept
  <2>3. Cardinality(UpdateHolders') <= UpdateSlots
    <3>1. \A b \in UpdateHolders' : \/ b \in UpdateHolders
                                    \/ /\ Cardinality(UpdateHolders) < UpdateSlots
                                       /\ \A c \in UpdateHolders' : c \in UpdateHolders \/ c = b
      BY <2>1, BecomesHolder DEF UpdateHolders, AcquireUpdateSlot
    <3>2. UpdateHolders \subseteq Attempt /\ UpdateHolders' \subseteq Attempt
      BY DEF UpdateHolders
    <3> QED
      BY <2>0, <3>1, <3>2, OneMore DEF SlotsKept
  <2> QED
    BY <2>2, <2>3 DEF SlotsKept
<1> QED
  BY <1>1, <1>2, Invariance, HealthInvariance, PTL DEF Spec
=============================================================================

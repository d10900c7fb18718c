------------------------ MODULE VmidOwnership_proofs ------------------------
(***************************************************************************)
(* PackageManager implements VmidOwnership and MutationAttempt: proofs,    *)
(* for every set of targets, VMIDs and attempts and every re-entrant       *)
(* publication.  Each step of the manager is, per VMID, one step of the    *)
(* abstract owner or a stutter, and per record of an Update or Autoremove, *)
(* one step of the life of an attempt or a stutter.                        *)
(***************************************************************************)
EXTENDS PackageManager_proofs

WorkedOn(v) == frame.point = "claimed" /\ VmidOf[task[frame.attempt].target] = v
Held(v)     == \E t \in Target : VmidOf[t] = v /\ restore[t] # "none"

(* While a finish call is about to publish, its VMID is that mutation's;   *)
(* otherwise a VMID belongs to the one kind that is RUNNING on it.         *)
LEMMA WorkIs ==
  ASSUME Inv, NEW v \in Vmid
  PROVE  /\ WorkedOn(v) => WorkOf(v) = task[frame.attempt].kind /\ WorkOf(v) \in Mutation /\ ~Held(v)
         /\ ~WorkedOn(v) =>
              \A k \in Kind, t \in Target : VmidOf[t] = v /\ Running(k, t) => WorkOf(v) = k
         /\ ~WorkedOn(v) /\ (\A k \in Kind, t \in Target : VmidOf[t] = v => ~Running(k, t))
              => WorkOf(v) = "none"
<1> USE DomainAssumption DEF Inv
<1>1. CASE WorkedOn(v)
  <2>1. WorkOf(v) = task[frame.attempt].kind
    BY <1>1 DEF WorkOf, WorkedOn
  <2>2. /\ frame.attempt \in Attempt /\ Owns(frame.attempt) /\ task[frame.attempt].kind \in Mutation
    BY <1>1 DEF WorkedOn, FrameFits
  <2>3. ~Held(v)
    BY <1>1, <2>2 DEF WorkedOn, Held, VmidExclusion, Owns, Running, Peers, Mutation
  <2> QED
    BY <1>1, <2>1, <2>2, <2>3
<1>2. CASE ~WorkedOn(v)
  <2> DEFINE W(k) == \E t \in Target : VmidOf[t] = v /\ Running(k, t)
  <2>1. WorkOf(v) = IF \E k \in Kind : W(k) THEN CHOOSE k \in Kind : W(k) ELSE "none"
    BY <1>2 DEF WorkOf, WorkedOn
  <2>2. ASSUME NEW k \in Kind, NEW l \in Kind, W(k), W(l) PROVE k = l
    <3>1. PICK t \in Target : VmidOf[t] = v /\ Running(k, t)
      BY <2>2
    <3>2. PICK u \in Target : VmidOf[u] = v /\ Running(l, u)
      BY <2>2
    <3>3. \/ k = l
          \/ frame.point = "claimed" /\ {record[k][t], record[l][u]} \subseteq {frame.attempt, frame.claim}
      BY <3>1, <3>2 DEF VmidExclusion, Peers
    <3>4. ASSUME frame.point = "claimed", record[k][t] \in {frame.attempt, frame.claim} PROVE FALSE
      <4>1. task[record[k][t]].target = t
        BY <3>1, <3>4 DEF RunningIsWorkedOn, FrameFits
      <4>2. task[frame.claim].target = task[frame.attempt].target
        BY <3>4 DEF FrameFits
      <4> QED
        BY <1>2, <3>1, <3>4, <4>1, <4>2 DEF WorkedOn
    <3> QED
      BY <3>3, <3>4
  <2>3. (\E k \in Kind : W(k)) => WorkOf(v) \in Kind /\ W(WorkOf(v))
    BY <2>1
  <2> QED
    BY <1>2, <2>1, <2>2, <2>3
<1> QED
  BY <1>1, <1>2

(* The same of the state a step leads to.                                  *)
WorkFacts == \A v \in Vmid :
  /\ WorkOf(v) \in Kind \cup {"none"}
  /\ WorkedOn(v) => WorkOf(v) = task[frame.attempt].kind
  /\ ~WorkedOn(v) =>
       \A k \in Kind, t \in Target : VmidOf[t] = v /\ Running(k, t) => WorkOf(v) = k
  /\ ~WorkedOn(v) /\ (\A k \in Kind, t \in Target : VmidOf[t] = v => ~Running(k, t))
       => WorkOf(v) = "none"

LEMMA WorkKnown == Inv => WorkFacts
BY WorkIs DEF WorkFacts, Mutation, Kind

LEMMA NextWork ==
  ASSUME Inv'
  PROVE  WorkFacts'
BY WorkKnown, PTL

(* The abstract steps of one VMID, in the manager's own terms.             *)
Releases(v) == WorkOf(v)' \in {WorkOf(v), "none"} /\ (Held(v)' => Held(v))
Accepts(v)  == WorkOf(v) = "none" /\ ~Held(v) /\ WorkOf(v)' # "none" /\ ~Held(v)'
HandsOff(v) == WorkOf(v) \in Mutation /\ WorkOf(v)' = "health" /\ ~Held(v) /\ ~Held(v)'
Reserves(v) == WorkOf(v) \in {"none", "health"} /\ ~Held(v) /\ WorkOf(v)' = WorkOf(v) /\ Held(v)'

Moves == \A v \in Vmid : Accepts(v) \/ HandsOff(v) \/ Reserves(v) \/ Releases(v)

LEMMA MovesAre ==
  ASSUME Inv, Inv', Moves
  PROVE  Ownership!Next
<1> DEFINE work == [v \in Vmid |-> WorkOf(v)]
           reserved == [v \in Vmid |-> Held(v)]
<1>1. \A v \in Vmid : WorkOf(v)' \in Ownership!Work
  BY NextWork DEF Ownership!Work, Kind, WorkFacts
<1> QED
  BY <1>1 DEF Ownership!Next, Ownership!Accept, Ownership!HandOff, Ownership!Reserve,
      Ownership!Release, Ownership!Mutation, Mutation, Moves, Releases, Accepts, HandsOff, Reserves, Held

(* A step that starts nothing, claims nothing and reserves nothing.        *)
LEMMA Settling ==
  ASSUME Inv, Inv',
         \A k \in Kind, t \in Target : Running(k, t)' => Running(k, t),
         \A t \in Target : restore'[t] # "none" => restore[t] # "none",
         frame.point # "claimed" => frame'.point # "claimed",
         frame.point = "claimed" => frame' = frame /\ task'[frame.attempt] = task[frame.attempt]
  PROVE  \A v \in Vmid : Releases(v)
<1> SUFFICES ASSUME NEW v \in Vmid PROVE Releases(v)
  OBVIOUS
<1>1. WorkFacts'
  BY NextWork
<1>2. Held(v)' => Held(v)
  BY DEF Held
<1>3. WorkedOn(v)' <=> WorkedOn(v)
  BY DEF WorkedOn
<1>4. CASE WorkedOn(v)
  <2>1. frame' = frame /\ task'[frame.attempt].kind = task[frame.attempt].kind
    BY <1>4 DEF WorkedOn
  <2> QED
    BY <1>1, <1>2, <1>3, <1>4, <2>1, WorkIs DEF WorkFacts, Releases
<1>5. CASE ~WorkedOn(v)
  <2>1. CASE \E k \in Kind, t \in Target : VmidOf[t] = v /\ Running(k, t)'
    BY <1>1, <1>2, <1>3, <1>5, <2>1, WorkIs DEF WorkFacts, Releases
  <2>2. CASE ~\E k \in Kind, t \in Target : VmidOf[t] = v /\ Running(k, t)'
    BY <1>1, <1>2, <1>3, <1>5, <2>2 DEF WorkFacts, Releases
  <2> QED
    BY <2>1, <2>2
<1> QED
  BY <1>4, <1>5

(* A start: a fresh attempt on a VMID on which nothing is RUNNING.         *)
LEMMA Starting ==
  ASSUME Inv, Inv', NEW t \in Target, NEW k \in Kind, NEW a \in Attempt,
         Idle(t), ~Live(a), record'[k][t] = a,
         \A l \in Kind, u \in Target : Running(l, u)' => Running(l, u) \/ (l = k /\ u = t),
         \A b \in Attempt \ {a} : task'[b] = task[b],
         UNCHANGED <<restore, frame>>
  PROVE  Moves
<1> USE DomainAssumption
<1>1. WorkFacts' /\ WorkFacts
  BY NextWork, WorkKnown
<1>2. frame.point = "claimed" => /\ frame.attempt # a /\ frame.attempt \in Attempt
                                 /\ Owns(frame.attempt) /\ VmidOf[task[frame.attempt].target] # VmidOf[t]
  BY DEF Inv, FrameFits, Active, Live, Owns, Idle, Running, Peers
<1>3. \A v \in Vmid : (Held(v)' <=> Held(v)) /\ (WorkedOn(v)' <=> WorkedOn(v))
  BY <1>2 DEF Held, WorkedOn
<1>4. Accepts(VmidOf[t])
  <2>1. ~WorkedOn(VmidOf[t]) /\ ~Held(VmidOf[t]) /\ VmidOf[t] \in Vmid
    BY <1>2 DEF WorkedOn, Held, Idle, Reserved, Peers
  <2>2. \A l \in Kind, u \in Target : VmidOf[u] = VmidOf[t] => ~Running(l, u)
    BY DEF Idle, Peers
  <2>3. Running(k, t)' /\ k # "none"
    BY DEF Running, Kind
  <2> QED
    BY <1>1, <1>3, <2>1, <2>2, <2>3 DEF WorkFacts, Accepts
<1>5. ASSUME NEW v \in Vmid, v # VmidOf[t] PROVE Releases(v)
  <2>1. CASE WorkedOn(v)
    <3>1. frame' = frame /\ task'[frame.attempt] = task[frame.attempt]
      BY <1>2, <2>1 DEF WorkedOn
    <3> QED
      BY <1>1, <1>3, <1>5, <2>1, <3>1 DEF WorkFacts, Releases
  <2>2. CASE ~WorkedOn(v)
    <3>1. \A l \in Kind, u \in Target : VmidOf[u] = v /\ Running(l, u)' => Running(l, u)
      BY <1>5
    <3> QED
      BY <1>1, <1>3, <1>5, <2>2, <3>1 DEF WorkFacts, Releases
  <2> QED
    BY <2>1, <2>2
<1> QED
  BY <1>4, <1>5 DEF Moves

(* A step that leaves the records alone, or only settles some.             *)
LEMMA QuietSettling ==
  ASSUME Inv, Inv', Quiet, frame' = frame,
         \A k \in Kind, t \in Target : Running(k, t)' => Running(k, t),
         \A t \in Target : restore'[t] # "none" => restore[t] # "none"
  PROVE  Moves
BY Settling DEF Quiet, Moves

(* A finished mutation claims the Health of its VMID.                      *)
LEMMA ClaimMoves ==
  ASSUME Inv, Inv', NEW a \in Attempt, NEW seen \in Cleanup, NEW h \in Attempt,
         MutationDone(a, seen, h)
  PROVE  Moves
<1> USE DomainAssumption
<1>0. /\ record \in [Kind -> [Target -> Settled \cup Attempt]] /\ task \in [Attempt -> Task]
      /\ task[a].target \in Target /\ task[a].kind \in Mutation /\ Quiet /\ Active(a)
  BY DEF Inv, TypeOK, TasksFit, MutationDone, Active
<1>1. CASE ~(Owns(a) /\ ~HealthClaimBlocked(task[a].target))
  <2>1. record' = record \/ record' = [record EXCEPT ![task[a].kind][task[a].target] = "success"]
    BY <1>1 DEF MutationDone
  <2>2. \A k \in Kind, t \in Target : Running(k, t)' => Running(k, t)
    BY <1>0, <2>1 DEF Running, Settled, Mutation, Kind
  <2> QED
    BY <1>0, <1>1, <2>2, QuietSettling DEF MutationDone
<1>2. CASE Owns(a) /\ ~HealthClaimBlocked(task[a].target)
  <2> DEFINE t == task[a].target
  <2> PICK w \in Vmid : w = VmidOf[t]
    BY <1>0
  <2>1. /\ ~Live(h) /\ frame' = [point |-> "claimed", attempt |-> a, claim |-> h]
        /\ record' = [record EXCEPT !["health"][t] = h]
        /\ task' = [task EXCEPT ![h] = NewTask("health", t, "claimed", FALSE, FALSE)]
        /\ restore' = restore
    BY <1>2 DEF MutationDone
  <2>2. a # h /\ task'[a] = task[a]
    BY <1>0, <2>1 DEF Active
  <2>3. WorkFacts /\ WorkFacts' /\ \A v \in Vmid : ~WorkedOn(v) /\ (Held(v)' <=> Held(v))
    BY <1>0, <2>1, NextWork, WorkKnown DEF WorkedOn, Quiet, Held
  <2>4. \A v \in Vmid : WorkedOn(v)' <=> v = w
    BY <1>0, <2>1, <2>2 DEF WorkedOn
  <2>5. Releases(w)
    <3>1. WorkOf(w) = task[a].kind
      BY <1>0, <1>2, <2>3 DEF WorkFacts, Owns, Running
    <3>2. WorkOf(w)' = task'[frame'.attempt].kind
      BY <1>0, <2>3, <2>4 DEF WorkFacts
    <3> QED
      BY <1>0, <2>1, <2>2, <2>3, <3>1, <3>2 DEF Releases
  <2>6. ASSUME NEW v \in Vmid, v # w PROVE Releases(v)
    <3>1. \A l \in Kind, u \in Target : VmidOf[u] = v /\ Running(l, u)' => Running(l, u)
      BY <1>0, <2>1, <2>6 DEF Running, Kind
    <3> QED
      BY <2>3, <2>4, <2>6, <3>1 DEF WorkFacts, Releases
  <2> QED
    BY <2>5, <2>6 DEF Moves
<1> QED
  BY <1>1, <1>2

LEMMA TaskMoves ==
  ASSUME Inv, Inv', NEW a \in Attempt, TaskStep(a)
  PROVE  Moves
<1> USE DomainAssumption
<1>0. /\ record \in [Kind -> [Target -> Settled \cup Attempt]]
      /\ Live(a) => task[a].target \in Target /\ task[a].kind \in Kind
  BY DEF Inv, TypeOK, TasksFit
<1>1. CASE record' = record /\ UNCHANGED <<frame, restore>> /\ Quiet
  BY <1>1, QuietSettling DEF Running
<1>2. CASE \E seen \in Cleanup, h \in Attempt : MutationDone(a, seen, h)
  BY <1>2, ClaimMoves
<1>3. ASSUME NEW k \in Kind, NEW t \in Target, NEW r \in Settled,
             record' = [record EXCEPT ![k][t] = r], UNCHANGED <<frame, restore>>, Quiet
      PROVE  Moves
  <2>1. \A l \in Kind, u \in Target : Running(l, u)' => Running(l, u)
    BY <1>0, <1>3 DEF Running
  <2> QED
    BY <1>3, <2>1, QuietSettling
<1>4. CASE ScanFailed(a)
  BY <1>0, <1>1, <1>3, <1>4 DEF ScanFailed, Active, Kind, Settled
<1>5. CASE \E seen \in Cleanup, pending \in BOOLEAN : ScanDone(a, seen, pending)
  BY <1>0, <1>1, <1>3, <1>5 DEF ScanDone, Active, Kind, Settled
<1>6. CASE MutationFailed(a)
  BY <1>0, <1>1, <1>3, <1>6 DEF MutationFailed, Active, Kind, Settled
<1>7. CASE HealthDone(a)
  BY <1>0, <1>1, <1>3, <1>7 DEF HealthDone, Active, Kind, Settled
<1>8. CASE CancelDelivered(a)
  BY <1>0, <1>1, <1>3, <1>8 DEF CancelDelivered, Kind, Settled
<1>9. CASE AcquireScanSlot(a) \/ AcquireUpdateSlot(a) \/ ScanRead(a) \/ MutationStep(a)
  BY <1>1, <1>9 DEF AcquireScanSlot, AcquireUpdateSlot, ScanRead, MutationStep, managerVars
<1> QED
  BY <1>2, <1>4, <1>5, <1>6, <1>7, <1>8, <1>9 DEF TaskStep

(* The record is settled and the VMID passes to the Health check.          *)
LEMMA PublishMoves ==
  ASSUME Inv, Inv', PublishSuccess
  PROVE  Moves
<1> USE DomainAssumption
<1> DEFINE a == frame.attempt
           h == frame.claim
           t == task[a].target
<1>1. /\ a \in Attempt /\ h \in Attempt /\ task[a].kind \in Mutation /\ Owns(a) /\ Owns(h)
      /\ task[h].target = t /\ task[h].kind = "health" /\ t \in Target
      /\ record \in [Kind -> [Target -> Settled \cup Attempt]] /\ frame \in Frame
  BY DEF PublishSuccess, Inv, FrameFits, TasksFit, TypeOK, Active, Owns
<1>2. /\ record' = [record EXCEPT ![task[a].kind][t] = "success"]
      /\ frame.point = "claimed" /\ frame'.point = "published" /\ UNCHANGED <<restore, task>>
  BY <1>1 DEF PublishSuccess, Frame
<1> PICK w \in Vmid : w = VmidOf[t]
  BY <1>1
<1>3. /\ WorkFacts /\ WorkFacts'
      /\ \A v \in Vmid : ~WorkedOn(v)' /\ (Held(v)' <=> Held(v)) /\ (WorkedOn(v) <=> v = w)
  BY <1>1, <1>2, NextWork, WorkKnown DEF WorkedOn, Held
<1>4. HandsOff(w)
  <2>0. record'["health"][t] = record["health"][t] /\ record["health"][t] = h
    BY <1>1, <1>2 DEF Owns, Mutation, Kind
  <2>1. "health" \in Kind /\ t \in Target /\ VmidOf[t] = w /\ record'["health"][t] \in Attempt
    BY <1>1, <2>0 DEF Kind
  <2>2. WorkOf(w)' = "health"
    BY <1>3, <2>1 DEF WorkFacts, Running
  <2> QED
    BY <1>1, <1>3, <2>2, WorkIs DEF HandsOff
<1>5. ASSUME NEW v \in Vmid, v # w PROVE Releases(v)
  <2>1. \A l \in Kind, u \in Target : VmidOf[u] = v /\ Running(l, u)' => Running(l, u)
    BY <1>1, <1>2, <1>5 DEF Running, Settled, Kind, Mutation
  <2> QED
    BY <1>3, <1>5, <2>1 DEF WorkFacts, Releases
<1> QED
  BY <1>4, <1>5 DEF Moves

LEMMA ClaimedMoves ==
  ASSUME Inv, Inv', NEW started \in BOOLEAN, StartClaimedHealth(started)
  PROVE  Moves
<1> USE DomainAssumption
<1>1. /\ frame.point = "published" /\ frame'.point = "idle" /\ restore' = restore
      /\ record \in [Kind -> [Target -> Settled \cup Attempt]]
  BY DEF StartClaimedHealth, NoFrame, Inv, TypeOK
<1>2. \A k \in Kind, t \in Target : Running(k, t)' => Running(k, t)
  BY <1>1 DEF StartClaimedHealth, Running, Settled, Kind, Owns
<1> QED
  BY <1>1, <1>2, Settling DEF Moves

LEMMA StartMoves ==
  ASSUME Inv, Inv', NEW t \in Target, Start(t)
  PROVE  Moves
<1> USE DomainAssumption
<1>0. task \in [Attempt -> Task] /\ record \in [Kind -> [Target -> Settled \cup Attempt]]
  BY DEF Inv, TypeOK
<1>1. PICK a \in Attempt :
        \/ StartScan(t, a) \/ StartAutoremove(t, a) \/ StartHealth(t, a)
        \/ HealthNotStarted(t)
        \/ \E skip \in BOOLEAN : StartUpdate(t, a, skip)
        \/ \E skip \in BOOLEAN, named \in BOOLEAN : EasyUpdate(t, a, skip, named)
  BY DEF Start
<1>2. ASSUME NEW k \in Kind, Idle(t), ~Live(a),
             record' = [record EXCEPT ![k][t] = a]
               \/ record' = [record EXCEPT !["health"][t] = "absent", ![k][t] = a]
               \/ record' = [record EXCEPT !["health"][t] = "absent", !["scan"][t] = "never",
                                           ![k][t] = a],
             \A b \in Attempt \ {a} : task'[b] = task[b],
             UNCHANGED <<restore, frame>>
      PROVE  Moves
  <2>1. /\ record'[k][t] = a
        /\ \A l \in Kind, u \in Target :
             Running(l, u)' => Running(l, u) \/ (l = k /\ u = t)
    BY <1>0, <1>2 DEF Running, Settled, Kind
  <2> QED
    BY <1>2, <2>1, Starting
<1>3. CASE StartScan(t, a)
  BY <1>0, <1>2, <1>3 DEF StartScan, Kind
<1>4. CASE StartAutoremove(t, a)
  BY <1>0, <1>2, <1>4 DEF StartAutoremove, AcceptAutoremove, Kind
<1>5. CASE StartHealth(t, a)
  BY <1>0, <1>2, <1>5 DEF StartHealth, Kind
<1>6. ASSUME NEW skip, NEW ok, Idle(t), ~Live(a), AcceptUpdate(t, a, skip, ok) PROVE Moves
  BY <1>0, <1>2, <1>6 DEF AcceptUpdate, Kind
<1>7. ASSUME NEW ok, MarkReviewed(t, ok) PROVE Moves
  BY <1>7, Settling DEF MarkReviewed, Running, Moves
<1>8. CASE HealthNotStarted(t)
  <2>1. \A k \in Kind, u \in Target : Running(k, u)' => Running(k, u)
    BY <1>0, <1>8 DEF HealthNotStarted, Running, Settled, Kind
  <2> QED
    BY <1>8, <2>1, Settling DEF HealthNotStarted, Moves
<1> QED
  BY <1>1, <1>3, <1>4, <1>5, <1>6, <1>7, <1>8 DEF StartUpdate, EasyUpdate

(* A Restore is accepted on a VMID that at most a Health check works on.   *)
LEMMA ReserveMoves ==
  ASSUME Inv, Inv', NEW t \in Target, BeginRestore(t)
  PROVE  Moves
<1> USE DomainAssumption
<1>1. /\ restore' = [restore EXCEPT ![t] = "claimed"] /\ restore \in [Target -> Reservation]
      /\ UNCHANGED <<record, task, frame>>
  BY DEF BeginRestore, Inv, TypeOK
<1>2. \A v \in Vmid : WorkOf(v)' = WorkOf(v)
  BY <1>1 DEF WorkOf, Running
<1>3. Reserves(VmidOf[t])
  <2>1. ~Held(VmidOf[t]) /\ Held(VmidOf[t])'
    BY <1>1 DEF Held, BeginRestore, Reserved, Peers
  <2>2. ~WorkedOn(VmidOf[t])
    BY DEF WorkedOn, Inv, FrameFits, Owns, Running, Peers, Mutation, BeginRestore
  <2>3. WorkOf(VmidOf[t]) \in {"none", "health"}
    <3>1. \A k \in Kind, u \in Target : VmidOf[u] = VmidOf[t] /\ Running(k, u) => k = "health"
      BY DEF BeginRestore, Peers, Kind
    <3> QED
      BY <2>2, <3>1, WorkKnown DEF WorkFacts
  <2> QED
    BY <1>2, <2>1, <2>3 DEF Reserves
<1>4. ASSUME NEW v \in Vmid, v # VmidOf[t] PROVE Releases(v)
  BY <1>1, <1>2, <1>4 DEF Held, Releases
<1> QED
  BY <1>3, <1>4 DEF Moves

LEMMA NextMoves ==
  ASSUME Inv, Inv', Next
  PROVE  Moves
<1> USE DomainAssumption
<1>1. CASE \E a \in Attempt : TaskStep(a)
  BY <1>1, TaskMoves
<1>2. CASE FinishStep
  BY <1>2, PublishMoves, ClaimedMoves DEF FinishStep
<1>3. ASSUME NEW t \in Target, Start(t) PROVE Moves
  BY <1>3, StartMoves
<1>4. ASSUME NEW t \in Target, Review(t) PROVE Moves
  BY <1>4, Settling
  DEF Review, ShowPlan, MarkViewed, ConfirmReview, MarkReviewed, managerVars, Running, Moves
<1>5. ASSUME NEW t \in Target, RestoreStep(t) PROVE Moves
  <2>1. CASE InvalidateRestoreTarget(t)
    BY <2>1, QuietSettling DEF InvalidateRestoreTarget, Running, Inv, TypeOK, Settled, Kind
  <2>2. CASE EndRestore(t) \/ RestoreUncertain(t)
    BY <2>2, QuietSettling DEF EndRestore, RestoreUncertain, Running, Inv, TypeOK
  <2> QED
    BY <1>5, <2>1, <2>2, ReserveMoves DEF RestoreStep
<1>6. ASSUME NEW seen \in [Target -> Observed], Refresh(seen) PROVE Moves
  <2>1. \A k \in Kind, t \in Target : record'[k][t] \in {"absent", record[k][t]}
    BY <1>6 DEF Refresh
  <2> QED
    BY <1>6, <2>1, QuietSettling DEF Refresh, Running, Settled
<1>7. CASE Unload
  BY <1>7, QuietSettling DEF Unload, managerVars, Running
<1>8. CASE Reload
  <2>1. Quiet
    BY <1>8 DEF Reload, Inv, FrameFits, Quiet
  <2> QED
    BY <1>8, <2>1, QuietSettling DEF Reload, Running, Settled
<1> QED
  BY <1>1, <1>2, <1>3, <1>4, <1>5, <1>6, <1>7, <1>8 DEF Next

(* The manager is an implementation of VmidOwnership: per VMID, one owner  *)
(* at a time, and every change of owner one that it allows.                *)
THEOREM Implements == Spec => ImplementsOwnership
<1>1. Init => Ownership!Init
  <2> SUFFICES ASSUME Init PROVE Ownership!Init
    OBVIOUS
  <2>1. \A v \in Vmid : WorkOf(v) = "none" /\ ~Held(v)
    BY DomainAssumption DEF Init, WorkOf, Held, NoFrame, Running, Settled
  <2> QED
    BY <2>1 DEF Ownership!Init, Held
<1>2. Inv /\ [Next]_vars => [Ownership!Next]_(Ownership!vars)
  <2> SUFFICES ASSUME Inv, [Next]_vars PROVE [Ownership!Next]_(Ownership!vars)
    OBVIOUS
  <2>1. Inv'
    BY NextInv
  <2>2. CASE Next
    BY <2>1, <2>2, NextMoves, MovesAre
  <2>3. CASE UNCHANGED vars
    BY <2>3 DEF vars, managerVars, Ownership!vars, WorkOf, Running
  <2> QED
    BY <2>2, <2>3
<1> QED
  BY <1>1, <1>2, Invariance, PTL DEF Spec, ImplementsOwnership, Ownership!Spec

-----------------------------------------------------------------------------
(***************************************************************************)
(* Each record of an Update or Autoremove implements MutationAttempt.      *)
(***************************************************************************)
(* A RUNNING mutation has its live task, in an unloaded manager as well.   *)
RecordFits(k, t) ==
  IF Running(k, t)
    THEN LET a == record[k][t] IN Live(a) /\ task[a].kind = k /\ task[a].target = t
    ELSE record[k][t] \in {"absent", "success", "failed"}

RecordsFit == \A k \in Mutation, t \in Target : RecordFits(k, t)

(* What a step may do to the life of the attempt in one record.            *)
LifeStep(k, t) ==
  \/ StageOf(k, t)' = StageOf(k, t) /\ SkipOf(k, t)' = SkipOf(k, t)
  \/ ~Running(k, t) /\ StageOf(k, t)' = "slot" /\ SkipOf(k, t)' \in BOOLEAN
  \/ /\ StageOf(k, t) \in Life(k, t)!Working \ {"observe"}
     /\ \/ StageOf(k, t)' = Life(k, t)!After(StageOf(k, t)) /\ SkipOf(k, t)' = SkipOf(k, t)
        \/ StageOf(k, t)' = "failed" /\ SkipOf(k, t)' = FALSE
  \/ StageOf(k, t) = "observe" /\ StageOf(k, t)' = "success" /\ SkipOf(k, t)' = FALSE
  \/ StageOf(k, t)' = "absent" /\ SkipOf(k, t)' = FALSE

LEMMA LifeSteps ==
  ASSUME NEW k \in Mutation, NEW t \in Target, RecordFits(k, t), LifeStep(k, t)
  PROVE  [Life(k, t)!Next]_(Life(k, t)!vars)
BY DEF LifeStep, RecordFits, Life!Next, Life!Accept, Life!Advance, Life!Fail, Life!Succeed,
       Life!Forget, Life!Settles, Life!Settled, Life!vars, StageOf

(* A settled record.                                                       *)
LEMMA SettledLife ==
  ASSUME NEW k \in Mutation, NEW t \in Target, NEW r \in Settled, record'[k][t] = r
  PROVE  ~Running(k, t)' /\ StageOf(k, t)' = r /\ SkipOf(k, t)' = FALSE
BY DomainAssumption DEF Running, StageOf, SkipOf

(* A record that keeps what it says, of a task that stays where it is.     *)
LEMMA SameLife ==
  ASSUME NEW k \in Mutation, NEW t \in Target, record'[k][t] = record[k][t],
         Running(k, t) => /\ task'[record[k][t]].phase = task[record[k][t]].phase
                          /\ task'[record[k][t]].skip = task[record[k][t]].skip
                          /\ task'[record[k][t]].kind = task[record[k][t]].kind
                          /\ task'[record[k][t]].target = task[record[k][t]].target
  PROVE  LifeStep(k, t) /\ (RecordFits(k, t) => RecordFits(k, t)')
BY DEF LifeStep, StageOf, SkipOf, Running, RecordFits, Live

(* A task that does not own the record leaves it as it is.                 *)
LEMMA OthersTask ==
  ASSUME Inv, NEW k \in Mutation, NEW t \in Target, RecordFits(k, t),
         NEW a \in Attempt, TaskStep(a), record[k][t] # a
  PROVE  LifeStep(k, t) /\ RecordFits(k, t)'
<1> USE DomainAssumption
<1>0. /\ record \in [Kind -> [Target -> Settled \cup Attempt]] /\ task \in [Attempt -> Task]
      /\ Live(a) => task[a].target \in Target /\ task[a].kind \in Kind
      /\ k # "health" /\ k # "scan" /\ k \in Kind
  BY DEF Inv, TypeOK, TasksFit, Mutation, Kind
<1>1. record'[k][t] = record[k][t]
  <2>0. ASSUME NEW r, Live(a), Owns(a), record' = [record EXCEPT ![task[a].kind][task[a].target] = r]
        PROVE  record'[k][t] = record[k][t]
    <3>1. task[a].kind # k \/ task[a].target # t
      BY <2>0 DEF Owns
    <3> QED
      BY <1>0, <2>0, <3>1
  <2>1. ASSUME NEW seen \in Cleanup, NEW h \in Attempt, MutationDone(a, seen, h)
        PROVE  record'[k][t] = record[k][t]
    <3>1. \/ record' = record
          \/ record' = [record EXCEPT !["health"][task[a].target] = h]
          \/ Owns(a) /\ record' = [record EXCEPT ![task[a].kind][task[a].target] = "success"]
      BY <2>1 DEF MutationDone
    <3> QED
      BY <1>0, <2>0, <2>1, <3>1 DEF MutationDone, Active
  <2>2. CASE CancelDelivered(a)
    <3>1. \/ record' = record
          \/ Owns(a) /\ \E r \in Settled :
               record' = [record EXCEPT ![task[a].kind][task[a].target] = r]
      BY <2>2 DEF CancelDelivered, Settled
    <3> QED
      BY <1>0, <2>0, <2>2, <3>1 DEF CancelDelivered
  <2>3. CASE ScanFailed(a) \/ HealthDone(a) \/ MutationFailed(a)
             \/ \E seen \in Cleanup, pending \in BOOLEAN : ScanDone(a, seen, pending)
    <3>1. /\ Live(a)
          /\ \/ record' = record
             \/ Owns(a) /\ \E l \in {task[a].kind, "scan", "health"}, r \in Settled :
                  record' = [record EXCEPT ![l][task[a].target] = r]
      BY <2>3 DEF ScanFailed, HealthDone, MutationFailed, ScanDone, Active, Settled
    <3> QED
      BY <1>0, <2>0, <3>1
  <2>4. CASE AcquireScanSlot(a) \/ AcquireUpdateSlot(a) \/ ScanRead(a) \/ MutationStep(a)
    BY <2>4 DEF AcquireScanSlot, AcquireUpdateSlot, ScanRead, MutationStep, managerVars
  <2> QED
    BY <2>1, <2>2, <2>3, <2>4 DEF TaskStep
<1>2. ASSUME NEW b \in Attempt, b # a, Live(b) PROVE task'[b] = task[b]
  <2>1. CASE \E seen \in Cleanup, h \in Attempt : MutationDone(a, seen, h)
    BY <1>0, <1>2, <2>1 DEF MutationDone, EndTask
  <2>2. CASE ~\E seen \in Cleanup, h \in Attempt : MutationDone(a, seen, h)
    BY <1>0, <1>2, <2>2
    DEF TaskStep, AcquireScanSlot, AcquireUpdateSlot, ScanRead, ScanFailed, ScanDone, MutationStep,
        MutationFailed, HealthDone, CancelDelivered, EndTask, GoTo
  <2> QED
    BY <2>1, <2>2
<1>3. Running(k, t) => task'[record[k][t]] = task[record[k][t]]
  BY <1>2 DEF RecordFits, Running
<1> QED
  BY <1>1, <1>3, SameLife

(* The task that owns the record moves it on or settles it.                *)
LEMMA OwnTask ==
  ASSUME Inv, NEW k \in Mutation, NEW t \in Target, RecordFits(k, t),
         NEW a \in Attempt, TaskStep(a), record[k][t] = a
  PROVE  LifeStep(k, t) /\ RecordFits(k, t)'
<1> USE DomainAssumption DEF Life!Working
<1>0. /\ record \in [Kind -> [Target -> Settled \cup Attempt]] /\ task \in [Attempt -> Task]
      /\ Live(a) /\ task[a].kind = k /\ task[a].target = t /\ Owns(a)
      /\ k # "health" /\ k # "scan" /\ k \in Kind /\ k # "none"
      /\ StageOf(k, t) = task[a].phase
  BY DEF Inv, TypeOK, RecordFits, Running, Mutation, Kind, Owns, StageOf
<1>1. ASSUME NEW r \in {"failed", "success", "absent"}, record' = [record EXCEPT ![k][t] = r],
             \/ r = "absent"
             \/ r = "success" /\ task[a].phase = "observe"
             \/ r = "failed" /\ task[a].phase \in Life(k, t)!Working \ {"observe"}
      PROVE  LifeStep(k, t) /\ RecordFits(k, t)'
  <2>1. record'[k][t] = r
    BY <1>0, <1>1
  <2> QED
    BY <1>0, <1>1, <2>1, SettledLife DEF LifeStep, RecordFits, Settled
<1>2. ASSUME NEW p, task' = [task EXCEPT ![a].phase = p], record' = record, p # "idle",
             /\ task[a].phase \in Life(k, t)!Working \ {"observe"}
             /\ p = Life(k, t)!After(task[a].phase)
      PROVE  LifeStep(k, t) /\ RecordFits(k, t)'
  <2>1. /\ task'[a].phase = p /\ task'[a].skip = task[a].skip
        /\ task'[a].kind = k /\ task'[a].target = t
    BY <1>0, <1>2 DEF Task
  <2> QED
    BY <1>0, <1>2, <2>1 DEF LifeStep, RecordFits, Running, StageOf, SkipOf, Live
<1>3. CASE AcquireUpdateSlot(a)
  BY <1>0, <1>2, <1>3 DEF AcquireUpdateSlot, GoTo, managerVars, Life!After
<1>4. CASE MutationStep(a)
  <2>1. SkipOf(k, t) = task[a].skip
    BY <1>0 DEF SkipOf, Running, Task
  <2> QED
    BY <1>0, <1>2, <1>4, <2>1 DEF MutationStep, GoTo, managerVars, Life!After
<1>5. CASE MutationFailed(a)
  BY <1>0, <1>1, <1>5 DEF MutationFailed
<1>6. ASSUME NEW seen \in Cleanup, NEW h \in Attempt, MutationDone(a, seen, h)
      PROVE  LifeStep(k, t) /\ RecordFits(k, t)'
  <2>1. CASE HealthClaimBlocked(t)
    BY <1>0, <1>1, <1>6, <2>1 DEF MutationDone
  <2>2. CASE ~HealthClaimBlocked(t)
    <3>1. record'[k][t] = a /\ task'[a] = task[a]
      BY <1>0, <1>6, <2>2 DEF MutationDone
    <3> QED
      BY <1>0, <3>1, SameLife
  <2> QED
    BY <2>1, <2>2
<1>7. CASE CancelDelivered(a)
  <2>1. task[a].phase \in Life(k, t)!Working
    BY <1>0 DEF Inv, TypeOK, TasksFit, Task, Phase, Live, Mutation
  <2> QED
    BY <1>0, <1>1, <1>7, <2>1 DEF CancelDelivered
<1>8. ~(ScanRead(a) \/ ScanFailed(a) \/ HealthDone(a) \/ AcquireScanSlot(a))
  BY <1>0 DEF ScanRead, ScanFailed, HealthDone, AcquireScanSlot, Inv, TasksFit, Active
<1>9. ASSUME NEW seen \in Cleanup, NEW pending \in BOOLEAN, ScanDone(a, seen, pending) PROVE FALSE
  BY <1>0, <1>9 DEF ScanDone
<1> QED
  BY <1>3, <1>4, <1>5, <1>6, <1>7, <1>8, <1>9 DEF TaskStep

LEMMA FinishLife ==
  ASSUME Inv, NEW k \in Mutation, NEW t \in Target, RecordFits(k, t), FinishStep
  PROVE  LifeStep(k, t) /\ RecordFits(k, t)'
<1> USE DomainAssumption
<1>0. /\ record \in [Kind -> [Target -> Settled \cup Attempt]] /\ task \in [Attempt -> Task]
      /\ frame \in Frame /\ k # "health" /\ k \in Kind
      /\ frame.attempt \in Attempt /\ frame.claim \in Attempt
      /\ task[frame.attempt].kind \in Kind /\ task[frame.attempt].target \in Target
      /\ Live(frame.attempt) /\ task[frame.attempt].phase = "observe"
      /\ Live(frame.claim) /\ task[frame.claim].kind = "health"
  BY DEF Inv, TypeOK, FrameFits, TasksFit, FinishStep, PublishSuccess, StartClaimedHealth, Active,
         Mutation, Kind
<1>1. CASE PublishSuccess
  <2> DEFINE a == frame.attempt
  <2>1. task' = task /\ record' = [record EXCEPT ![task[a].kind][task[a].target] = "success"] /\ Owns(a)
    BY <1>1 DEF PublishSuccess, Inv, FrameFits
  <2>2. CASE task[a].kind = k /\ task[a].target = t
    <3>1. record'[k][t] = "success" /\ record[k][t] = a
      BY <1>0, <2>1, <2>2 DEF Owns
    <3>2. StageOf(k, t) = "observe"
      BY <1>0, <3>1 DEF StageOf, Running
    <3> QED
      BY <3>1, <3>2, SettledLife DEF LifeStep, RecordFits, Settled
  <2>3. CASE ~(task[a].kind = k /\ task[a].target = t)
    <3>1. record'[k][t] = record[k][t]
      BY <1>0, <2>1, <2>3
    <3> QED
      BY <2>1, <3>1, SameLife
  <2> QED
    BY <2>2, <2>3
<1>2. ASSUME NEW started \in BOOLEAN, StartClaimedHealth(started)
      PROVE  LifeStep(k, t) /\ RecordFits(k, t)'
  <2>1. record'[k][t] = record[k][t]
    BY <1>0, <1>2 DEF StartClaimedHealth
  <2>2. ASSUME NEW b \in Attempt, b # frame.attempt, b # frame.claim PROVE task'[b] = task[b]
    BY <1>0, <1>2, <2>2 DEF StartClaimedHealth
  <2>3. Running(k, t) => record[k][t] # frame.claim
    BY <1>0 DEF RecordFits
  <2>4. Running(k, t) => record[k][t] # frame.attempt
    <3> SUFFICES ASSUME record[k][t] = frame.attempt, Running(k, t) PROVE FALSE
      OBVIOUS
    <3>1. frame.point = "published" /\ Owns(frame.claim) /\ task[frame.claim].target = t
      BY <1>2 DEF StartClaimedHealth, Inv, FrameFits, RecordFits
    <3>2. Running("health", t) /\ t \in Peers(t)
      BY <1>0, <3>1 DEF Owns, Running, Peers
    <3>3. \A l \in Kind, m \in Kind : Running(l, t) /\ Running(m, t) => l = m
      BY <3>1, <3>2 DEF Inv, VmidExclusion
    <3> QED
      BY <1>0, <3>2, <3>3 DEF Kind
  <2> QED
    BY <2>1, <2>2, <2>3, <2>4, SameLife DEF Running
<1> QED
  BY <1>1, <1>2 DEF FinishStep

(* A start: a blank attempt in the record of its target.                   *)
LEMMA StartLife ==
  ASSUME Inv, NEW k \in Mutation, NEW t \in Target, RecordFits(k, t), NEW u \in Target, Start(u)
  PROVE  LifeStep(k, t) /\ RecordFits(k, t)'
<1> USE DomainAssumption
<1>0. /\ record \in [Kind -> [Target -> Settled \cup Attempt]] /\ task \in [Attempt -> Task]
      /\ k # "health" /\ k # "scan" /\ k \in Kind
  BY DEF Inv, TypeOK, Mutation, Kind
<1>1. PICK a \in Attempt :
        \/ StartScan(u, a) \/ StartAutoremove(u, a) \/ StartHealth(u, a)
        \/ HealthNotStarted(u)
        \/ \E skip \in BOOLEAN : StartUpdate(u, a, skip)
        \/ \E skip \in BOOLEAN, named \in BOOLEAN : EasyUpdate(u, a, skip, named)
  BY DEF Start
<1>2. ASSUME NEW l \in Kind, NEW phase, NEW skip \in BOOLEAN, NEW ok, ~Live(a), Idle(u),
             task' = [task EXCEPT ![a] = NewTask(l, u, phase, skip, ok)],
             l \in Mutation => phase = "slot",
             record'[l][u] = a,
             \A m \in Mutation, w \in Target : ~(m = l /\ w = u) => record'[m][w] = record[m][w]
      PROVE  LifeStep(k, t) /\ RecordFits(k, t)'
  <2>1. CASE l = k /\ u = t
    <3>1. ~Running(k, t)
      BY <1>0, <1>2, <2>1 DEF Idle, Peers
    <3>2. Running(k, t)' /\ task'[a] = NewTask(k, t, "slot", skip, ok) /\ record'[k][t] = a
      BY <1>0, <1>2, <2>1 DEF Running
    <3> QED
      BY <3>1, <3>2 DEF LifeStep, RecordFits, StageOf, SkipOf, NewTask, Live
  <2>2. CASE ~(l = k /\ u = t)
    <3>1. record'[k][t] = record[k][t]
      BY <1>2, <2>2
    <3>2. Running(k, t) => task'[record[k][t]] = task[record[k][t]]
      BY <1>0, <1>2 DEF RecordFits, Running
    <3> QED
      BY <3>1, <3>2, SameLife
  <2> QED
    BY <2>1, <2>2
<1>3. CASE StartScan(u, a)
  BY <1>0, <1>2, <1>3 DEF StartScan, Mutation, Kind
<1>4. CASE StartAutoremove(u, a)
  BY <1>0, <1>2, <1>4 DEF StartAutoremove, AcceptAutoremove, Mutation, Kind
<1>5. CASE StartHealth(u, a)
  BY <1>0, <1>2, <1>5 DEF StartHealth, Mutation, Kind
<1>6. ASSUME NEW skip \in BOOLEAN, NEW ok, ~Live(a), Idle(u), AcceptUpdate(u, a, skip, ok)
      PROVE  LifeStep(k, t) /\ RecordFits(k, t)'
  BY <1>0, <1>2, <1>6 DEF AcceptUpdate, Mutation, Kind
<1>7. ASSUME NEW ok, MarkReviewed(u, ok) PROVE LifeStep(k, t) /\ RecordFits(k, t)'
  BY <1>7, SameLife DEF MarkReviewed
<1>8. CASE HealthNotStarted(u)
  BY <1>0, <1>8, SameLife DEF HealthNotStarted
<1> QED
  BY <1>1, <1>3, <1>4, <1>5, <1>6, <1>7, <1>8 DEF StartUpdate, EasyUpdate

(* A task that a refresh or a Restore marks stays where it is.             *)
LEMMA Marked ==
  ASSUME NEW v \in Task, NEW c \in BOOLEAN, NEW o \in BOOLEAN
  PROVE  LET w == [v EXCEPT !.cancelled = c, !.outdated = o]
         IN  w.phase = v.phase /\ w.skip = v.skip /\ w.kind = v.kind /\ w.target = v.target
BY DEF Task

(* A refresh drops a record or leaves it, and no step but the task's own   *)
(* moves its task.                                                         *)
LEMMA OtherLife ==
  ASSUME Inv, NEW k \in Mutation, NEW t \in Target, RecordFits(k, t),
         \/ \E u \in Target : Review(u) \/ RestoreStep(u)
         \/ \E seen \in [Target -> Observed] : Refresh(seen)
         \/ Unload \/ Reload \/ UNCHANGED vars
  PROVE  LifeStep(k, t) /\ RecordFits(k, t)'
<1> USE DomainAssumption
<1>0. /\ record \in [Kind -> [Target -> Settled \cup Attempt]] /\ task \in [Attempt -> Task]
      /\ k # "health" /\ k # "scan" /\ k \in Kind
  BY DEF Inv, TypeOK, Mutation, Kind
<1>1. CASE record' = record /\ task' = task
  BY <1>1, SameLife
<1>2. CASE \E u \in Target : Review(u)
  BY <1>1, <1>2 DEF Review, ShowPlan, MarkViewed, ConfirmReview, MarkReviewed, managerVars
<1>3. ASSUME NEW u \in Target, RestoreStep(u) PROVE LifeStep(k, t) /\ RecordFits(k, t)'
  <2>1. CASE InvalidateRestoreTarget(u)
    <3>1. record'[k][t] = record[k][t]
      BY <1>0, <2>1 DEF InvalidateRestoreTarget
    <3>2. ASSUME NEW b \in Attempt
          PROVE  /\ task'[b].phase = task[b].phase /\ task'[b].skip = task[b].skip
                 /\ task'[b].kind = task[b].kind /\ task'[b].target = task[b].target
      <4> DEFINE c == task[b].cancelled \/ b \in HealthHandles({u})
                 o == task[b].outdated \/ task[b].target = u
      <4>1. task'[b] = [task[b] EXCEPT !.cancelled = c, !.outdated = o]
        BY <2>1 DEF InvalidateRestoreTarget
      <4>2. task[b] \in Task /\ c \in BOOLEAN /\ o \in BOOLEAN
        BY <1>0
      <4> HIDE DEF c, o
      <4> QED
        BY <4>1, <4>2, Marked
    <3> QED
      BY <3>1, <3>2, SameLife DEF Running
  <2> QED
    BY <1>1, <1>3, <2>1 DEF RestoreStep, BeginRestore, EndRestore, RestoreUncertain
<1>4. ASSUME NEW seen \in [Target -> Observed], Refresh(seen)
      PROVE  LifeStep(k, t) /\ RecordFits(k, t)'
  <2>1. record'[k][t] \in {"absent", record[k][t]}
    BY <1>0, <1>4 DEF Refresh
  <2>2. CASE record'[k][t] = "absent"
    BY <2>2, SettledLife DEF LifeStep, RecordFits, Settled
  <2>3. CASE record'[k][t] = record[k][t]
    <3>1. ASSUME NEW b \in Attempt
          PROVE  /\ task'[b].phase = task[b].phase /\ task'[b].skip = task[b].skip
                 /\ task'[b].kind = task[b].kind /\ task'[b].target = task[b].target
      <4> DEFINE gone   == {w \in Target : seen[w] = "absent"}
                 halted == {w \in Target : seen[w] = "stopped" /\ Known(w)}
                 Drops(l, w) == w \in gone \/ (w \in halted /\ l \in {"scan", "health"})
                 c == task[b].cancelled \/ (Owns(b) /\ Drops(task[b].kind, task[b].target))
                 o == task[b].outdated \/ seen[task[b].target] # "running"
      <4>1. Live(b) => task'[b] = [task[b] EXCEPT !.cancelled = c, !.outdated = o]
        BY <1>4, Zenon DEF Refresh
      <4>2. ~Live(b) => task'[b] = task[b]
        BY <1>4 DEF Refresh
      <4>3. task[b] \in Task /\ c \in BOOLEAN /\ o \in BOOLEAN
        BY <1>0
      <4> HIDE DEF gone, halted, Drops, c, o
      <4>4. CASE Live(b)
        <5>1. task'[b] = [task[b] EXCEPT !.cancelled = c, !.outdated = o]
          BY <4>1, <4>4, Zenon
        <5> QED
          BY <4>3, <5>1, Marked
      <4> QED
        BY <4>2, <4>4
    <3> QED
      BY <2>3, <3>1, SameLife DEF Running
  <2> QED
    BY <2>1, <2>2, <2>3
<1>5. CASE Unload
  <2>1. \A b \in Attempt : /\ task'[b].phase = task[b].phase /\ task'[b].skip = task[b].skip
                           /\ task'[b].kind = task[b].kind /\ task'[b].target = task[b].target
    BY <1>0, <1>5 DEF Unload, Task
  <2> QED
    BY <1>5, <2>1, SameLife DEF Unload, managerVars, Running
<1>6. CASE Reload
  <2>1. record'[k][t] = "absent"
    BY <1>0, <1>6 DEF Reload
  <2> QED
    BY <2>1, SettledLife DEF LifeStep, RecordFits, Settled
<1>7. CASE UNCHANGED vars
  BY <1>1, <1>7 DEF vars, managerVars
<1> QED
  BY <1>2, <1>3, <1>4, <1>5, <1>6, <1>7

LEMMA NextLife ==
  ASSUME Inv, NEW k \in Mutation, NEW t \in Target, RecordFits(k, t), [Next]_vars
  PROVE  LifeStep(k, t) /\ RecordFits(k, t)'
BY OthersTask, OwnTask, FinishLife, StartLife, OtherLife DEF Next

(* The record of every target, for Update and for Autoremove, lives the    *)
(* life of one attempt at a time, whatever becomes of the tasks that a     *)
(* prune, a reload or a later attempt has parted from it.                  *)
THEOREM LivesImplemented == Spec => ImplementsAttempts
<1>1. Init => RecordsFit /\ \A k \in Mutation, t \in Target : Life(k, t)!Init
  BY DomainAssumption
  DEF Init, RecordsFit, RecordFits, Running, Mutation, Kind, Settled, Life!Init, StageOf, SkipOf
<1>2. Inv /\ RecordsFit /\ [Next]_vars => RecordsFit'
  BY NextLife DEF RecordsFit
<1>3. Inv /\ RecordsFit /\ [Next]_vars =>
        \A k \in Mutation, t \in Target : [Life(k, t)!Next]_(Life(k, t)!vars)
  BY NextLife, LifeSteps DEF RecordsFit
<1> QED
  BY <1>1, <1>2, <1>3, Invariance, PTL DEF Spec, ImplementsAttempts
=============================================================================

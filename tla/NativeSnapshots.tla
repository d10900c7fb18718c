-------------------------- MODULE NativeSnapshots --------------------------
(***************************************************************************)
(* The operator's native snapshot operations on one LXC: Create            *)
(* (button.py), Restore and Delete (snapshot_restore.py) over the PVE      *)
(* adapter snapshots.py, with the snapshot selector (select.py).           *)
(*                                                                         *)
(* The package manager is seen as VmidOwnership promises it: who owns the  *)
(* guest and whether a Restore has reserved it.  An operation is a         *)
(* coroutine; the call it makes runs on an executor thread, the PVE task   *)
(* that call starts runs on the host, and neither stops with the coroutine.*)
(***************************************************************************)
EXTENDS Naturals

CONSTANTS
  Op,         \* the operations that may be under way at once
  KindOf,     \* [Op -> "create", "restore" or "delete"]
  Name,       \* snapshot names
  Created,    \* the name a native Create uses
  Owned,      \* names of safety snapshots ("hubinet-preupd-")
  NoName,
  MaxTries,   \* _MAX_OBSERVATION_ATTEMPTS
  Packages,   \* the package attempts made (bounds an instance)
  Together    \* the operations one behaviour may mix (bounds an instance)

ASSUME SnapshotAssumption ==
  /\ KindOf \in [Op -> {"create", "restore", "delete"}]
  /\ Created \in Name \ Owned
  /\ Owned \subseteq Name
  /\ NoName \notin Name
  /\ MaxTries \in Nat \ {0}
  /\ Packages \subseteq {"scan", "update", "health"}
  /\ Together \subseteq SUBSET Op

VARIABLES
  (* Each operation. *)
  phase,      \* the await its coroutine is in
  target,     \* the snapshot it acts on
  tries,      \* reads of its PVE task that failed
  told,       \* the result published for it
  call,       \* its POST or DELETE on the executor, and the answer
  pve,        \* its PVE task
  (* The guest, the selector and the package manager. *)
  snap,       \* [Name -> how PVE lists the snapshot]
  choice,     \* the selector's selected_snapshot
  work,       \* the package attempt that owns the guest
  own,        \* that attempt's safety snapshot, once complete
  reserved,   \* _restore_reserved
  truth,      \* a Scan's result is held as current
  epoch,      \* the config entry's life
  retired,    \* the Creates of an earlier coordinator, after its unload
  (* History that only properties read. *)
  used,       \* names given to safety snapshots so far
  rolled      \* a rollback has run since the last Scan began

opVars      == <<phase, target, tries, told>>
hostVars    == <<call, pve, snap>>
packageVars == <<work, own, reserved, truth, used>>
life        == <<epoch, retired>>
vars == <<opVars, hostVars, choice, packageVars, life, rolled>>

Kind  == {"create", "restore", "delete"}
Phase == {"idle", "validate", "submit", "observe", "cancelled"}
Told  == {"none", "not_started", "success", "failed", "uncertain"}
(* refused is a 4xx; timeout is 408; lost is any other failure, or a UPID   *)
(* that is not one.                                                         *)
Answer == {"upid", "refused", "timeout", "lost"}
CallState == {"none", "queued", "taken"} \cup Answer
Pve   == {"none", "running", "ok", "failed"}
Snap  == {"absent", "partial", "complete"}
Work  == {"none", "scan", "update", "health"}

Restores == {o \in Op : KindOf[o] = "restore"}

Init ==
  /\ phase  = [o \in Op |-> "idle"]
  /\ target = [o \in Op |-> NoName]
  /\ tries  = [o \in Op |-> 0]
  /\ told   = [o \in Op |-> "none"]
  /\ call   = [o \in Op |-> "none"]
  /\ pve    = [o \in Op |-> "none"]
  /\ snap = [n \in Name |-> IF n \in Owned \cup {Created} THEN "absent" ELSE "complete"]
  /\ choice = NoName
  /\ work = "none" /\ own = NoName /\ reserved = FALSE /\ truth = FALSE
  /\ epoch = "loaded" /\ retired = {}
  /\ used = {} /\ rolled = FALSE

-----------------------------------------------------------------------------
(* A new press reuses an operation all of whose parts are at rest.         *)
Free(o) == phase[o] = "idle" /\ call[o] \notin {"queued", "taken"} /\ pve[o] # "running"

(* snapshot_create_is_running: the Create task of the coordinator's entity, *)
(* not its POST.                                                           *)
CreateRunning == \E o \in Op \ retired : KindOf[o] = "create" /\ phase[o] = "observe"

(* button.py's PARALLEL_UPDATES = 1: while a Create's POST is in flight its *)
(* press holds the platform's semaphore, and other presses wait, but for   *)
(* those of the platform that a reload sets up, with one of its own.       *)
CanPress == /\ epoch # "unloaded"
            /\ \A o \in Op \ retired : ~(KindOf[o] = "create" /\ phase[o] = "submit")

Publish(o, result) ==
  /\ phase' = [phase EXCEPT ![o] = "idle"]
  /\ told'  = [told EXCEPT ![o] = result]

Await(o, p) == phase' = [phase EXCEPT ![o] = p] /\ UNCHANGED told

Begin(o, p, n, c) ==
  /\ phase'  = [phase EXCEPT ![o] = p]
  /\ target' = [target EXCEPT ![o] = n]
  /\ tries'  = [tries EXCEPT ![o] = 0]
  /\ told'   = [told EXCEPT ![o] = "none"]
  /\ call'   = [call EXCEPT ![o] = c]
  /\ pve'    = [pve EXCEPT ![o] = "none"]
  /\ retired' = retired \ {o}

(***************************************************************************)
(* The presses.                                                            *)
(***************************************************************************)
PressCreate(o) ==
  /\ CanPress /\ KindOf[o] = "create" /\ Free(o) /\ ~CreateRunning
  /\ Begin(o, "submit", Created, "queued")
  /\ UNCHANGED <<snap, choice, packageVars, epoch, rolled>>

(* Mutant of Restorable: begin_restore does not look at attempts. *)
RestorableAnyway == ~reserved

(* begin_restore: a Health check does not keep a Restore out. *)
Restorable == ~reserved /\ work \in {"none", "health"}

(* Acceptance reserves the guest and consumes the choice. *)
PressRestore(o) ==
  /\ CanPress /\ KindOf[o] = "restore" /\ Free(o)
  /\ ~CreateRunning /\ choice # NoName /\ Restorable
  /\ reserved' = TRUE
  /\ choice' = NoName
  /\ Begin(o, "validate", choice, "none")
  /\ UNCHANGED <<snap, work, own, truth, used, epoch, rolled>>

(* Mutant of PackageConflict: package attempts are not looked at. *)
NoPackageConflict(n) == FALSE

PackageConflict(n) == n \in Owned /\ work = "update"

PressDelete(o) ==
  /\ CanPress /\ KindOf[o] = "delete" /\ Free(o)
  /\ ~CreateRunning /\ choice # NoName /\ ~PackageConflict(choice)
  /\ choice' = NoName
  /\ Begin(o, "validate", choice, "none")
  /\ UNCHANGED <<snap, packageVars, epoch, rolled>>

-----------------------------------------------------------------------------
(***************************************************************************)
(* The coroutines.                                                         *)
(***************************************************************************)
(* Mutant of Invalidated: the Scan's result stays current. *)
StillCurrent == truth

(* What invalidate_restore_target leaves of the Scan's result. *)
Invalidated == FALSE

(* Mutants of Releases: only a Restore that was submitted gives the guest  *)
(* back; or every Restore does.                                            *)
ReleasesSubmitted(result) == result \in {"success", "failed"}
ReleasesAlways(result) == TRUE

Releases(result) == result # "uncertain"

(* The end of a Restore or Delete: an uncertain Restore keeps the guest.   *)
Finish(o, result) ==
  /\ Publish(o, result)
  /\ reserved' = (reserved /\ ~(KindOf[o] = "restore" /\ Releases(result)))

(* Fresh listing, the second look at Create and package attempts, and then *)
(* for a Restore the invalidation of package truth; no await in between.   *)
(* A listing may fail; one that works shows the target or not.             *)
Validate(o) ==
  /\ phase[o] = "validate"
  /\ \/ /\ snap[target[o]] = "complete" /\ ~CreateRunning
        /\ KindOf[o] = "delete" => ~PackageConflict(target[o])
        /\ Await(o, "submit")
        /\ call' = [call EXCEPT ![o] = "queued"]
        /\ IF KindOf[o] = "restore"
             THEN /\ truth' = Invalidated
                  /\ work' = IF work = "health" THEN "none" ELSE work
             ELSE UNCHANGED <<truth, work>>
        /\ UNCHANGED reserved
     \/ Finish(o, "not_started") /\ UNCHANGED <<call, truth, work>>
  /\ UNCHANGED <<target, tries, pve, snap, choice, own, used, life, rolled>>

(* Mutant of Refused: a request that timed out is taken for a refusal. *)
RefusedOrTimedOut(answer) == answer \in {"refused", "timeout"}

(* 400 <= status < 500, except 408. *)
Refused(answer) == answer = "refused"

(* The POST or DELETE returned.  A Create that brings no usable task ends  *)
(* with the button's own error; it makes no claim.                         *)
Answered(o) ==
  /\ phase[o] = "submit" /\ call[o] \in Answer
  /\ \/ call[o] = "upid" /\ Await(o, "observe") /\ UNCHANGED <<call, reserved>>
     \/ /\ call[o] # "upid"
        /\ call' = [call EXCEPT ![o] = "none"]
        /\ IF KindOf[o] = "create"
             THEN Publish(o, "uncertain") /\ UNCHANGED reserved
             ELSE Finish(o, IF Refused(call[o]) THEN "not_started" ELSE "uncertain")
  /\ UNCHANGED <<target, tries, pve, snap, choice, work, own, truth, used, life,
                 rolled>>

Terminal(o) == {r \in {"success", "failed"} : pve[o] = IF r = "success" THEN "ok" ELSE "failed"}

(* Mutant of Results: the wait for the task has no deadline. *)
ResultsWithoutDeadline(o) == Terminal(o)

(* What _observe_task may return: the end of the task, or, at the deadline *)
(* or on a status that is not one, that it is not known.                   *)
Results(o) == Terminal(o) \cup {"uncertain"}

Observe(o) ==
  /\ phase[o] = "observe"
  /\ \E result \in Results(o) : Finish(o, result)
  /\ call' = [call EXCEPT ![o] = "none"]
  /\ UNCHANGED <<target, tries, pve, snap, choice, work, own, truth, used, life,
                 rolled>>

TriesAgain(o) == tries[o] + 1 < MaxTries

(* A failed read is tried again while attempts remain. *)
ReadFails(o) ==
  /\ phase[o] = "observe"
  /\ IF TriesAgain(o)
       THEN /\ tries' = [tries EXCEPT ![o] = @ + 1]
            /\ UNCHANGED <<phase, told, call, reserved>>
       ELSE /\ Finish(o, "uncertain")
            /\ call' = [call EXCEPT ![o] = "none"]
            /\ UNCHANGED tries
  /\ UNCHANGED <<target, pve, snap, choice, work, own, truth, used, life, rolled>>

(* Mutant of Interrupted: only an answered call counts as submitted. *)
InterruptedUnanswered(o) == IF call[o] \in Answer THEN "uncertain" ELSE "not_started"

(* submission_may_have_started is set before the call is handed over. *)
Interrupted(o) == IF call[o] = "none" THEN "not_started" ELSE "uncertain"

(* CancelledError reaches a coroutine; a call no thread has taken yet is   *)
(* withdrawn.  The reservation belongs to a manager nobody uses any more.  *)
Deliver(o) ==
  /\ phase[o] = "cancelled"
  /\ Publish(o, Interrupted(o))
  /\ call' = [call EXCEPT ![o] = IF @ = "taken" THEN "taken" ELSE "none"]
  /\ UNCHANGED <<target, tries, pve, snap, choice, packageVars, life, rolled>>

-----------------------------------------------------------------------------
(***************************************************************************)
(* Executor threads and PVE.  PVE runs one task on a guest at a time; a    *)
(* task that finds it locked, or its snapshot missing, fails.              *)
(***************************************************************************)
Take(o) ==
  /\ call[o] = "queued"
  /\ call' = [call EXCEPT ![o] = "taken"]
  /\ UNCHANGED <<opVars, pve, snap, choice, packageVars, life, rolled>>

Locked == \E o \in Op : pve[o] = "running"

Runs(o) == ~Locked /\ snap[target[o]] = (IF KindOf[o] = "create" THEN "absent" ELSE "complete")

(* An answer that nobody waits for is dropped. *)
Answers(o, A) == \E a \in A :
  call' = [call EXCEPT ![o] = IF phase[o] = "idle" THEN "none" ELSE a]

Request(o) ==
  /\ call[o] = "taken"
  /\ \/ Answers(o, Answer \ {"upid"}) /\ UNCHANGED <<pve, snap, rolled>>
     \/ /\ Answers(o, Answer \ {"refused"})
        /\ pve' = [pve EXCEPT ![o] = IF Runs(o) THEN "running" ELSE "failed"]
        /\ snap' = IF Runs(o) /\ KindOf[o] # "restore"
                     THEN [snap EXCEPT ![target[o]] = "partial"] ELSE snap
        /\ rolled' = (rolled \/ (Runs(o) /\ KindOf[o] = "restore"))
  /\ UNCHANGED <<opVars, choice, packageVars, life>>

PveEnds(o) ==
  /\ pve[o] = "running"
  /\ \E ok \in BOOLEAN, left \in Snap :
       /\ pve' = [pve EXCEPT ![o] = IF ok THEN "ok" ELSE "failed"]
       /\ left \in CASE KindOf[o] = "restore" -> {snap[target[o]]}
                     [] KindOf[o] = "create" -> IF ok THEN {"complete"} ELSE {"absent", "partial"}
                     [] KindOf[o] = "delete" -> IF ok THEN {"absent"} ELSE {"partial", "complete"}
       /\ snap' = [snap EXCEPT ![target[o]] = left]
  /\ rolled' = (rolled \/ KindOf[o] = "restore")
  /\ UNCHANGED <<opVars, call, choice, packageVars, life>>

-----------------------------------------------------------------------------
(***************************************************************************)
(* The selector offers what its last poll listed, so an option may be gone *)
(* when it is acted on: here it is chosen at the time of that poll.        *)
(***************************************************************************)
Select(n) ==
  /\ epoch # "unloaded" /\ snap[n] = "complete"
  /\ choice' = n
  /\ UNCHANGED <<opVars, hostVars, packageVars, life, rolled>>

(* A poll finds the chosen snapshot gone, or the listing fails. *)
Deselect ==
  /\ choice # NoName
  /\ choice' = NoName
  /\ UNCHANGED <<opVars, hostVars, packageVars, life, rolled>>

(***************************************************************************)
(* Package attempts, as far as snapshots can tell.                         *)
(***************************************************************************)
StartPackage(k) ==
  /\ epoch # "unloaded" /\ work = "none" /\ ~reserved
  /\ work' = k
  /\ truth' = (truth /\ k = "health")
  /\ rolled' = IF k = "scan" THEN \E o \in Restores : pve[o] = "running" ELSE rolled
  /\ UNCHANGED <<opVars, hostVars, choice, own, reserved, used, life>>

(* An Update's complete safety snapshot, under a name of its own. *)
OwnSnapshot(n) ==
  /\ work = "update" /\ own = NoName /\ n \in Owned \ used /\ ~Locked
  /\ snap' = [snap EXCEPT ![n] = "complete"]
  /\ own' = n /\ used' = used \cup {n}
  /\ UNCHANGED <<opVars, call, pve, choice, work, reserved, truth, life, rolled>>

(* The attempt settles or is pruned; its snapshot is deleted or retained.  *)
EndPackage(retained) ==
  /\ work # "none" /\ epoch # "unloaded"
  /\ work' = "none" /\ own' = NoName
  /\ truth' = (truth \/ work = "scan")
  /\ snap' = IF own # NoName /\ ~retained /\ ~Locked
               THEN [snap EXCEPT ![own] = "absent"] ELSE snap
  /\ UNCHANGED <<opVars, call, pve, choice, reserved, used, life, rolled>>

(***************************************************************************)
(* Unload cancels the entry's background tasks; a Create's POST belongs to *)
(* its press and is not one of them.  One reload is enough to see what a   *)
(* new manager does not know.                                              *)
(***************************************************************************)
Unload ==
  /\ epoch = "loaded"
  /\ epoch' = "unloaded"
  /\ phase' = [o \in Op |-> IF phase[o] = "idle" \/ (KindOf[o] = "create" /\ phase[o] = "submit")
                              THEN phase[o] ELSE "cancelled"]
  /\ retired' = {o \in Op : KindOf[o] = "create" /\ phase[o] = "submit"}
  /\ work' = "none" /\ own' = NoName
  /\ UNCHANGED <<target, tries, told, hostVars, choice, reserved, truth, used, rolled>>

Reload ==
  /\ epoch = "unloaded" /\ \A o \in Op : phase[o] # "cancelled"
  /\ epoch' = "reloaded"
  /\ reserved' = FALSE /\ truth' = FALSE
  /\ choice' = NoName
  /\ UNCHANGED <<opVars, hostVars, work, own, retired, used, rolled>>

-----------------------------------------------------------------------------
(* Which operations one behaviour has seen pressed so far: a bound.        *)
Mixes(o) == \E S \in Together :
  o \in S /\ \A p \in Op : target[p] # NoName => p \in S

Press(o)    == Mixes(o) /\ (PressCreate(o) \/ PressRestore(o) \/ PressDelete(o))
TaskStep(o) == Validate(o) \/ Answered(o) \/ Observe(o) \/ Deliver(o)
ThreadStep(o) == Take(o) \/ Request(o)

Next ==
  \/ \E o \in Op : Press(o) \/ TaskStep(o) \/ ReadFails(o) \/ ThreadStep(o) \/ PveEnds(o)
  \/ Deselect \/ \E n \in Name : Select(n)
  \/ \E k \in Packages : StartPackage(k)
  \/ \E n \in Name : OwnSnapshot(n)
  \/ \E retained \in BOOLEAN : EndPackage(retained)
  \/ Unload \/ Reload

Spec == Init /\ [][Next]_vars

(* The loop resumes a coroutine whose await is over, an observation ends at *)
(* its deadline and a request at the HTTP client's timeout.  PVE owes      *)
(* nothing, and no read has to fail.                                       *)
FairSpec == Spec /\ \A o \in Op : WF_vars(TaskStep(o)) /\ WF_vars(ThreadStep(o))

-----------------------------------------------------------------------------
(* Type correctness. *)
TypeOK ==
  /\ phase \in [Op -> Phase] /\ target \in [Op -> Name \cup {NoName}]
  /\ tries \in [Op -> 0 .. MaxTries - 1] /\ told \in [Op -> Told]
  /\ call \in [Op -> CallState] /\ pve \in [Op -> Pve]
  /\ snap \in [Name -> Snap]
  /\ choice \in Name \cup {NoName}
  /\ work \in Work /\ own \in Owned \cup {NoName}
  /\ reserved \in BOOLEAN /\ truth \in BOOLEAN
  /\ epoch \in {"loaded", "unloaded", "reloaded"} /\ retired \subseteq Op
  /\ used \subseteq Owned /\ rolled \in BOOLEAN

(* While a rollback of Hubinet's is on its way to PVE or running there,    *)
(* whatever became of the Restore that asked for it, the guest is reserved *)
(* and no Scan or Update owns it; a reload forgets this, which             *)
(* ARCHITECTURE.md accepts.                                                *)
PackagesKeepOut ==
  epoch = "loaded" => \A o \in Restores :
    call[o] \in {"queued", "taken"} \/ pve[o] = "running"
      => reserved /\ work \notin {"scan", "update"}

(* A Scan's result held as current was read after the last rollback.       *)
TruthIsCurrent == epoch = "loaded" /\ truth => ~rolled

(* A published result is true of PVE, then and later: nothing began, the   *)
(* task succeeded, the task failed.                                        *)
ResultIsTrue == \A o \in Op :
  /\ told[o] = "not_started" => call[o] \notin {"queued", "taken"} /\ pve[o] = "none"
  /\ told[o] = "success" => pve[o] = "ok"
  /\ told[o] = "failed" => pve[o] = "failed"

(* The safety snapshot of an Update under way is never taken from it.      *)
OwnSnapshotKept == own # NoName => snap[own] = "complete"

(* A reservation belongs to a Restore that is under way or was published   *)
(* as uncertain: it is never left behind by one that is over.              *)
NoStrandedReservation ==
  epoch # "unloaded" /\ reserved =>
    \E o \in Restores : phase[o] # "idle" \/ told[o] = "uncertain"

(* Every operation comes to a published result, even if PVE never ends.    *)
OperationsEnd == \A o \in Op : phase[o] # "idle" ~> phase[o] = "idle"

(* Restore keeps to the protocol of the package manager's promise.         *)
Ownership == INSTANCE VmidOwnership WITH
  Vmid <- {"guest"},
  work <- [v \in {"guest"} |-> work],
  reserved <- [v \in {"guest"} |-> reserved]

ImplementsOwnership == Ownership!Spec
=============================================================================

----------------------- MODULE NativeSnapshots_proofs -----------------------
(***************************************************************************)
(* Proofs about NativeSnapshots: type correctness and its safety           *)
(* invariants, that Restore implements VmidOwnership, and that each step   *)
(* of an operation brings it nearer to its end, for any number of          *)
(* concurrent operations and any names.                                    *)
(***************************************************************************)
EXTENDS NativeSnapshots, TLAPS

(* Something of the operation may still reach the guest.                   *)
Asked(o)   == call[o] \in {"queued", "taken"} \/ pve[o] = "running"
Engaged(o) == phase[o] # "idle" \/ Asked(o)

(* Where a coroutine is tells what its call and its PVE task may be, and a *)
(* published result what they are from then on.                            *)
FitsAt(o) ==
  /\ phase[o] = "idle" => call[o] \in {"none", "taken"}
  /\ phase[o] = "validate" => call[o] = "none" /\ pve[o] = "none" /\ KindOf[o] # "create"
  /\ phase[o] = "submit" => call[o] # "none"
  /\ phase[o] = "observe" => call[o] = "upid"
  /\ phase[o] = "cancelled" /\ call[o] = "none" => pve[o] = "none"
  /\ phase[o] = "cancelled" => epoch = "unloaded"
  /\ call[o] \in {"queued", "taken", "refused"} => pve[o] = "none"
  /\ phase[o] # "idle" => told[o] = "none"
  /\ told[o] = "not_started" => call[o] = "none" /\ pve[o] = "none"
  /\ told[o] = "success" => pve[o] = "ok"
  /\ told[o] = "failed" => pve[o] = "failed"
  /\ told[o] \in {"success", "failed"} => call[o] = "none"

Fits == \A o \in Op : FitsAt(o)

(* Until the entry is unloaded, the one Restore that may still reach the   *)
(* guest has it reserved, and no Scan or Update owns a reserved guest.     *)
Keeps ==
  epoch = "loaded" =>
    /\ \A o \in Restores : Engaged(o) => reserved
    /\ \A o, p \in Restores : Engaged(o) /\ Engaged(p) => o = p
    /\ reserved => work \notin {"scan", "update"}

(* A Scan's result, and a Scan under way, is younger than every rollback.  *)
Current ==
  epoch = "loaded" =>
    /\ truth \/ work = "scan" => ~rolled
    /\ \A o \in Restores : Asked(o) => ~truth

(* A name not yet given to a safety snapshot has never been listed, chosen *)
(* or acted on; the one of the Update under way is no Delete's target.     *)
Fresh ==
  /\ \A n \in Owned \ used :
       snap[n] = "absent" /\ choice # n /\ \A o \in Op : target[o] # n
  /\ own # NoName =>
       /\ work = "update" /\ own \in used /\ snap[own] = "complete"
       /\ \A o \in Op : KindOf[o] # "restore" => target[o] # own
  /\ \A o \in Op : KindOf[o] = "create" => target[o] \in {Created, NoName}
  /\ \A o \in Op : phase[o] # "idle" \/ Asked(o) => target[o] \in Name

(* The two parts of TypeOK: the flags, and everything else.                *)
Flags == reserved \in BOOLEAN /\ truth \in BOOLEAN /\ rolled \in BOOLEAN

Values ==
  /\ phase \in [Op -> Phase] /\ target \in [Op -> Name \cup {NoName}]
  /\ tries \in [Op -> 0 .. MaxTries - 1] /\ told \in [Op -> Told]
  /\ call \in [Op -> CallState] /\ pve \in [Op -> Pve]
  /\ snap \in [Name -> Snap]
  /\ choice \in Name \cup {NoName}
  /\ work \in Work /\ own \in Owned \cup {NoName}
  /\ epoch \in {"loaded", "unloaded", "reloaded"} /\ retired \subseteq Op
  /\ used \subseteq Owned

IInv == Flags /\ Values /\ Fits /\ Keeps /\ Current /\ Fresh /\ NoStrandedReservation

USE SnapshotAssumption DEF life, Phase, Told, Answer, CallState, Pve, Snap, Work, Restores

(* The invariant holds initially. *)
LEMMA InitIInv == Init => IInv
<1> SUFFICES ASSUME Init PROVE IInv OBVIOUS
<1> USE DEF Init
<1>1. Flags BY Zenon DEF Flags
<1>2. Values BY DEF Values
<1>3. Fits BY DEF Fits, FitsAt
<1>4. Keeps /\ Current /\ NoStrandedReservation
  BY DEF Keeps, Current, Engaged, Asked, NoStrandedReservation
<1>5. Fresh BY DEF Fresh, Asked
<1>6. QED BY <1>1, <1>2, <1>3, <1>4, <1>5 DEF IInv

(* A press. *)
LEMMA PressKeeps ==
  ASSUME NEW o \in Op, IInv, Press(o)
  PROVE  IInv'
<1> USE DEF Begin, Free, CanPress, packageVars
<1>1. CASE PressCreate(o)
  <2> USE <1>1 DEF PressCreate
  <2>1. Flags' BY Zenon DEF IInv, Flags
  <2>2. Values' BY DEF IInv, Values
  <2>3. Fits' BY DEF IInv, Values, Fits, FitsAt
  <2>4. Keeps' BY DEF IInv, Values, Keeps, Engaged, Asked, Fits, FitsAt
  <2>5. Current' BY DEF IInv, Values, Keeps, Current, Engaged, Asked
  <2>6. Fresh' BY DEF IInv, Values, Fresh, Asked
  <2>7. NoStrandedReservation' BY DEF IInv, Values, Fits, FitsAt, NoStrandedReservation
  <2>8. QED BY <2>1, <2>2, <2>3, <2>4, <2>5, <2>6, <2>7 DEF IInv
<1>2. CASE PressRestore(o)
  <2> USE <1>2 DEF PressRestore, Restorable
  <2>1. Flags' BY Zenon DEF IInv, Flags
  <2>2. Values' BY DEF IInv, Values
  <2>3. Fits' BY DEF IInv, Values, Fits, FitsAt
  <2>4. Keeps' BY DEF IInv, Values, Keeps, Engaged, Asked, Fits, FitsAt
  <2>5. Current' BY DEF IInv, Values, Keeps, Current, Engaged, Asked
  <2>6. Fresh' BY DEF IInv, Values, Fresh, Asked
  <2>7. NoStrandedReservation' BY DEF IInv, Values, Fits, FitsAt, NoStrandedReservation
  <2>8. QED BY <2>1, <2>2, <2>3, <2>4, <2>5, <2>6, <2>7 DEF IInv
<1>3. CASE PressDelete(o)
  <2> USE <1>3 DEF PressDelete, PackageConflict
  <2>1. Flags' BY Zenon DEF IInv, Flags
  <2>2. Values' BY DEF IInv, Values
  <2>3. Fits' BY DEF IInv, Values, Fits, FitsAt
  <2>4. Keeps' BY DEF IInv, Values, Keeps, Engaged, Asked, Fits, FitsAt
  <2>5. Current' BY DEF IInv, Values, Keeps, Current, Engaged, Asked
  <2>6. Fresh' BY DEF IInv, Values, Fresh, Asked
  <2>7. NoStrandedReservation' BY DEF IInv, Values, Fits, FitsAt, NoStrandedReservation
  <2>8. QED BY <2>1, <2>2, <2>3, <2>4, <2>5, <2>6, <2>7 DEF IInv
<1>4. Press(o) => PressCreate(o) \/ PressRestore(o) \/ PressDelete(o)
  BY Zenon DEF Press
<1>5. QED BY <1>1, <1>2, <1>3, <1>4

(* What the end of an operation leaves, with the reservation as a formula. *)
Gives(o, result) ==
  /\ Publish(o, result)
  /\ reserved' <=> reserved /\ ~(KindOf[o] = "restore" /\ result # "uncertain")

LEMMA FinishSays ==
  ASSUME Flags, NEW o \in Op, NEW result \in Told, Finish(o, result)
  PROVE  Gives(o, result)
BY Zenon DEF Finish, Gives, Flags, Releases

(* What a step of o's coroutine may do to phases, results and reservation. *)
Stays == phase' = phase /\ told' = told
Moves(o) == told' = told /\ \E x \in Phase \ {"idle"} : phase' = [phase EXCEPT ![o] = x]
Says(o) == \E r \in Told :
  /\ phase' = [phase EXCEPT ![o] = "idle"]
  /\ told' = [told EXCEPT ![o] = r]
  /\ KindOf[o] = "restore" /\ r # "uncertain" => ~reserved'

Tells(o) ==
  /\ epoch' = epoch /\ reserved' \in BOOLEAN /\ (reserved' => reserved)
  /\ Stays \/ Moves(o) \/ Says(o)

LEMMA TellsKeeps ==
  ASSUME NEW o \in Op, Values, NoStrandedReservation, Tells(o)
  PROVE  NoStrandedReservation'
<1> SUFFICES ASSUME epoch # "unloaded", reserved'
             PROVE  \E p \in Restores : phase'[p] # "idle" \/ told'[p] = "uncertain"
  BY DEF NoStrandedReservation, Tells
<1>1. PICK p \in Restores : phase[p] # "idle" \/ told[p] = "uncertain"
  BY Zenon DEF NoStrandedReservation, Tells
<1>2. phase \in [Op -> Phase] /\ told \in [Op -> Told]
  BY Zenon DEF Values
<1>3. CASE Stays
  BY <1>1, <1>3 DEF Stays
<1>4. CASE Moves(o)
  BY <1>1, <1>2, <1>4 DEF Moves
<1>5. CASE Says(o)
  <2>1. PICK r \in Told :
          /\ phase' = [phase EXCEPT ![o] = "idle"]
          /\ told' = [told EXCEPT ![o] = r]
          /\ KindOf[o] = "restore" /\ r # "uncertain" => ~reserved'
    BY <1>5 DEF Says
  <2>2. QED BY <1>1, <1>2, <2>1
<1>6. QED BY <1>3, <1>4, <1>5 DEF Tells

(* A step of an operation's coroutine. *)
LEMMA TaskKeeps ==
  ASSUME NEW o \in Op, IInv, TaskStep(o) \/ ReadFails(o)
  PROVE  IInv'
<1> USE DEF Await, Publish, packageVars
<1>1. CASE Validate(o)
  <2> USE <1>1 DEF Validate, Invalidated, PackageConflict
  <2>1. Flags' BY Zenon DEF IInv, Flags, Finish, Releases
  <2>2. Values'
    BY FinishSays DEF IInv, Gives, Values
  <2>3. Fits'
    BY FinishSays DEF IInv, Gives, Values, Fits, FitsAt
  <2>4. Keeps'
    BY FinishSays DEF IInv, Gives, Values, Keeps, Engaged, Asked, Fits, FitsAt
  <2>5. Current'
    BY FinishSays DEF IInv, Gives, Values, Keeps, Current, Engaged, Asked
  <2>6. Fresh'
    BY FinishSays DEF IInv, Gives, Values, Fresh, Asked
  <2>7. NoStrandedReservation'
    <3>1. \/ Gives(o, "not_started") \/ Gives(o, "uncertain")
          \/ \E r \in Told : Gives(o, r)
          \/ \E x \in Phase \ {"idle"} : Await(o, x) /\ reserved' = reserved
          \/ phase' = phase /\ told' = told /\ reserved' = reserved
      BY FinishSays DEF IInv
    <3>2. Tells(o) BY <2>1, <3>1 DEF IInv, Gives, Tells, Stays, Moves, Says, Flags
    <3>3. QED BY <3>2, TellsKeeps DEF IInv
  <2>8. QED BY <2>1, <2>2, <2>3, <2>4, <2>5, <2>6, <2>7 DEF IInv
<1>2. CASE Answered(o)
  <2> USE <1>2 DEF Answered, Refused
  <2>1. Flags' BY Zenon DEF IInv, Flags, Finish, Releases
  <2>2. Values'
    BY FinishSays DEF IInv, Gives, Values
  <2>3. Fits'
    BY FinishSays DEF IInv, Gives, Values, Fits, FitsAt
  <2>4. Keeps'
    BY FinishSays DEF IInv, Gives, Values, Keeps, Engaged, Asked, Fits, FitsAt
  <2>5. Current'
    BY FinishSays DEF IInv, Gives, Values, Keeps, Current, Engaged, Asked
  <2>6. Fresh'
    BY FinishSays DEF IInv, Gives, Values, Fresh, Asked
  <2>7. NoStrandedReservation'
    <3>1. \/ Gives(o, "not_started") \/ Gives(o, "uncertain")
          \/ Publish(o, "uncertain") /\ reserved' = reserved /\ KindOf[o] = "create"
          \/ \E x \in Phase \ {"idle"} : Await(o, x) /\ reserved' = reserved
          \/ phase' = phase /\ told' = told /\ reserved' = reserved
      BY FinishSays DEF IInv
    <3>2. Tells(o) BY <2>1, <3>1 DEF IInv, Gives, Tells, Stays, Moves, Says, Flags
    <3>3. QED BY <3>2, TellsKeeps DEF IInv
  <2>8. QED BY <2>1, <2>2, <2>3, <2>4, <2>5, <2>6, <2>7 DEF IInv
<1>3. CASE Observe(o)
  <2> USE <1>3 DEF Observe, Results, Terminal
  <2>1. Flags' BY Zenon DEF IInv, Flags, Finish, Releases
  <2>2. Values'
    BY FinishSays DEF IInv, Gives, Values
  <2>3. Fits'
    BY FinishSays DEF IInv, Gives, Values, Fits, FitsAt
  <2>4. Keeps'
    BY FinishSays DEF IInv, Gives, Values, Keeps, Engaged, Asked, Fits, FitsAt
  <2>5. Current'
    BY FinishSays DEF IInv, Gives, Values, Keeps, Current, Engaged, Asked
  <2>6. Fresh'
    BY FinishSays DEF IInv, Gives, Values, Fresh, Asked
  <2>7. NoStrandedReservation'
    BY FinishSays DEF IInv, Gives, Values, Fits, FitsAt, NoStrandedReservation
  <2>8. QED BY <2>1, <2>2, <2>3, <2>4, <2>5, <2>6, <2>7 DEF IInv
<1>4. CASE ReadFails(o)
  <2> USE <1>4 DEF ReadFails, TriesAgain
  <2>1. Flags' BY Zenon DEF IInv, Flags, Finish, Releases
  <2>2. Values'
    BY FinishSays DEF IInv, Gives, Values
  <2>3. Fits'
    BY FinishSays DEF IInv, Gives, Values, Fits, FitsAt
  <2>4. Keeps'
    BY FinishSays DEF IInv, Gives, Values, Keeps, Engaged, Asked, Fits, FitsAt
  <2>5. Current'
    BY FinishSays DEF IInv, Gives, Values, Keeps, Current, Engaged, Asked
  <2>6. Fresh'
    BY FinishSays DEF IInv, Gives, Values, Fresh, Asked
  <2>7. NoStrandedReservation'
    <3>1. \/ Gives(o, "not_started") \/ Gives(o, "uncertain")
          \/ \E r \in Told : Gives(o, r)
          \/ \E x \in Phase \ {"idle"} : Await(o, x) /\ reserved' = reserved
          \/ phase' = phase /\ told' = told /\ reserved' = reserved
      BY FinishSays DEF IInv
    <3>2. Tells(o) BY <2>1, <3>1 DEF IInv, Gives, Tells, Stays, Moves, Says, Flags
    <3>3. QED BY <3>2, TellsKeeps DEF IInv
  <2>8. QED BY <2>1, <2>2, <2>3, <2>4, <2>5, <2>6, <2>7 DEF IInv
<1>5. CASE Deliver(o)
  <2> USE <1>5 DEF Deliver, Interrupted
  <2>1. Flags' BY Zenon DEF IInv, Flags
  <2>2. Values' BY DEF IInv, Values
  <2>3. Fits' BY DEF IInv, Values, Fits, FitsAt
  <2>4. Keeps' BY DEF IInv, Values, Keeps, Engaged, Asked, Fits, FitsAt
  <2>5. Current' BY DEF IInv, Values, Keeps, Current, Engaged, Asked
  <2>6. Fresh' BY DEF IInv, Values, Fresh, Asked
  <2>7. NoStrandedReservation' BY DEF IInv, Values, Fits, FitsAt, NoStrandedReservation
  <2>8. QED BY <2>1, <2>2, <2>3, <2>4, <2>5, <2>6, <2>7 DEF IInv
<1>6. QED BY <1>1, <1>2, <1>3, <1>4, <1>5 DEF TaskStep

(* A step of an executor thread or of PVE. *)
LEMMA HostKeeps ==
  ASSUME NEW o \in Op, IInv, ThreadStep(o) \/ PveEnds(o)
  PROVE  IInv'
<1> USE DEF opVars, packageVars
<1>1. CASE Take(o)
  <2> USE <1>1 DEF Take
  <2>1. Flags' BY Zenon DEF IInv, Flags
  <2>2. Values' BY DEF IInv, Values
  <2>3. Fits' BY DEF IInv, Values, Fits, FitsAt
  <2>4. Keeps' BY DEF IInv, Values, Keeps, Engaged, Asked, Fits, FitsAt
  <2>5. Current' BY DEF IInv, Values, Keeps, Current, Engaged, Asked
  <2>6. Fresh' BY DEF IInv, Values, Fresh, Asked
  <2>7. NoStrandedReservation' BY DEF IInv, Values, Fits, FitsAt, NoStrandedReservation
  <2>8. QED BY <2>1, <2>2, <2>3, <2>4, <2>5, <2>6, <2>7 DEF IInv
<1>2. CASE Request(o)
  <2> USE <1>2 DEF Request, Answers, Runs, Locked
  <2>0. rolled' => rolled \/ KindOf[o] = "restore" BY Zenon DEF Request
  <2>1. Flags' BY Zenon DEF IInv, Flags
  <2>2. Values' BY DEF IInv, Values
  <2>3. Fits' BY DEF IInv, Values, Fits, FitsAt
  <2>4. Keeps' BY DEF IInv, Values, Keeps, Engaged, Asked, Fits, FitsAt
  <2>5. Current' BY <2>0 DEF IInv, Values, Keeps, Current, Engaged, Asked
  <2>6. Fresh' BY DEF IInv, Values, Fresh, Asked
  <2>7. NoStrandedReservation' BY DEF IInv, Values, Fits, FitsAt, NoStrandedReservation
  <2>8. QED BY <2>1, <2>2, <2>3, <2>4, <2>5, <2>6, <2>7 DEF IInv
<1>3. CASE PveEnds(o)
  <2> USE <1>3 DEF PveEnds
  <2>1. Flags' BY Zenon DEF IInv, Flags
  <2>2. Values'
    <3>1. PICK ok \in BOOLEAN, left \in Snap :
            /\ pve' = [pve EXCEPT ![o] = IF ok THEN "ok" ELSE "failed"]
            /\ snap' = [snap EXCEPT ![target[o]] = left]
      BY Zenon
    <3>2. pve' \in [Op -> Pve] /\ snap' \in [Name -> Snap]
      BY <3>1 DEF IInv, Values
    <3>3. QED BY <3>2 DEF IInv, Values
  <2>3. Fits' BY DEF IInv, Values, Fits, FitsAt
  <2>4. Keeps' BY DEF IInv, Values, Keeps, Engaged, Asked, Fits, FitsAt
  <2>5. Current'
    <3>1. /\ pve[o] = "running" /\ call' = call
          /\ truth' = truth /\ work' = work /\ epoch' = epoch
          /\ rolled' => rolled \/ KindOf[o] = "restore"
      BY Zenon DEF packageVars
    <3>2. \A p \in Op : pve'[p] = "running" => pve[p] = "running"
      BY DEF IInv, Values
    <3>3. QED BY <3>1, <3>2 DEF IInv, Keeps, Current, Engaged, Asked
  <2>6. Fresh' BY DEF IInv, Values, Fresh, Asked
  <2>7. NoStrandedReservation' BY DEF IInv, Values, Fits, FitsAt, NoStrandedReservation
  <2>8. QED BY <2>1, <2>2, <2>3, <2>4, <2>5, <2>6, <2>7 DEF IInv
<1>4. QED BY <1>1, <1>2, <1>3 DEF ThreadStep

(* A choice is made. *)
LEMMA SelectKeeps ==
  ASSUME IInv, NEW n \in Name, Select(n)
  PROVE  IInv'
<1> USE DEF opVars, hostVars, packageVars, Select
<1>1. Flags' BY Zenon DEF IInv, Flags
<1>2. Values' BY DEF IInv, Values
<1>3. Fits' BY DEF IInv, Values, Fits, FitsAt
<1>4. Keeps' BY DEF IInv, Values, Keeps, Engaged, Asked, Fits, FitsAt
<1>5. Current' BY DEF IInv, Values, Keeps, Current, Engaged, Asked
<1>6. Fresh' BY DEF IInv, Values, Fresh, Asked
<1>7. NoStrandedReservation' BY DEF IInv, Values, Fits, FitsAt, NoStrandedReservation
<1>8. QED BY <1>1, <1>2, <1>3, <1>4, <1>5, <1>6, <1>7 DEF IInv

(* A choice is withdrawn. *)
LEMMA DeselectKeeps ==
  ASSUME IInv, Deselect
  PROVE  IInv'
<1> USE DEF opVars, hostVars, packageVars, Deselect
<1>1. Flags' BY Zenon DEF IInv, Flags
<1>2. Values' BY DEF IInv, Values
<1>3. Fits' BY DEF IInv, Values, Fits, FitsAt
<1>4. Keeps' BY DEF IInv, Values, Keeps, Engaged, Asked, Fits, FitsAt
<1>5. Current' BY DEF IInv, Values, Keeps, Current, Engaged, Asked
<1>6. Fresh' BY DEF IInv, Values, Fresh, Asked
<1>7. NoStrandedReservation' BY DEF IInv, Values, Fits, FitsAt, NoStrandedReservation
<1>8. QED BY <1>1, <1>2, <1>3, <1>4, <1>5, <1>6, <1>7 DEF IInv

(* A package attempt is accepted. *)
LEMMA StartPackageKeeps ==
  ASSUME IInv, NEW k \in Packages, StartPackage(k)
  PROVE  IInv'
<1> USE DEF opVars, hostVars, packageVars, StartPackage
<1>1. Flags' BY Zenon DEF IInv, Flags
<1>2. Values' BY DEF IInv, Values
<1>3. Fits' BY DEF IInv, Values, Fits, FitsAt
<1>4. Keeps' BY DEF IInv, Values, Keeps, Engaged, Asked, Fits, FitsAt
<1>5. Current' BY DEF IInv, Values, Keeps, Current, Engaged, Asked
<1>6. Fresh' BY DEF IInv, Values, Fresh, Asked
<1>7. NoStrandedReservation' BY DEF IInv, Values, Fits, FitsAt, NoStrandedReservation
<1>8. QED BY <1>1, <1>2, <1>3, <1>4, <1>5, <1>6, <1>7 DEF IInv

(* An Update has its safety snapshot. *)
LEMMA OwnSnapshotKeeps ==
  ASSUME IInv, NEW n \in Name, OwnSnapshot(n)
  PROVE  IInv'
<1> USE DEF opVars, hostVars, packageVars, OwnSnapshot, Locked
<1>1. Flags' BY Zenon DEF IInv, Flags
<1>2. Values' BY DEF IInv, Values
<1>3. Fits' BY DEF IInv, Values, Fits, FitsAt
<1>4. Keeps' BY DEF IInv, Values, Keeps, Engaged, Asked, Fits, FitsAt
<1>5. Current' BY DEF IInv, Values, Keeps, Current, Engaged, Asked
<1>6. Fresh' BY DEF IInv, Values, Fresh, Asked
<1>7. NoStrandedReservation' BY DEF IInv, Values, Fits, FitsAt, NoStrandedReservation
<1>8. QED BY <1>1, <1>2, <1>3, <1>4, <1>5, <1>6, <1>7 DEF IInv

(* A package attempt ends. *)
LEMMA EndPackageKeeps ==
  ASSUME IInv, NEW retained \in BOOLEAN, EndPackage(retained)
  PROVE  IInv'
<1> USE DEF opVars, hostVars, packageVars, EndPackage, Locked
<1>1. Flags' BY Zenon DEF IInv, Flags
<1>2. Values' BY DEF IInv, Values
<1>3. Fits' BY DEF IInv, Values, Fits, FitsAt
<1>4. Keeps' BY DEF IInv, Values, Keeps, Engaged, Asked, Fits, FitsAt
<1>5. Current' BY DEF IInv, Values, Keeps, Current, Engaged, Asked
<1>6. Fresh' BY DEF IInv, Values, Fresh, Asked
<1>7. NoStrandedReservation' BY DEF IInv, Values, Fits, FitsAt, NoStrandedReservation
<1>8. QED BY <1>1, <1>2, <1>3, <1>4, <1>5, <1>6, <1>7 DEF IInv

(* The entry is unloaded. *)
LEMMA UnloadKeeps ==
  ASSUME IInv, Unload
  PROVE  IInv'
<1> USE DEF opVars, hostVars, packageVars, Unload
<1>1. Flags' BY Zenon DEF IInv, Flags
<1>2. Values' BY DEF IInv, Values
<1>3. Fits' BY DEF IInv, Values, Fits, FitsAt
<1>4. Keeps' BY DEF IInv, Values, Keeps, Engaged, Asked, Fits, FitsAt
<1>5. Current' BY DEF IInv, Values, Keeps, Current, Engaged, Asked
<1>6. Fresh' BY DEF IInv, Values, Fresh, Asked
<1>7. NoStrandedReservation' BY DEF IInv, Values, Fits, FitsAt, NoStrandedReservation
<1>8. QED BY <1>1, <1>2, <1>3, <1>4, <1>5, <1>6, <1>7 DEF IInv

(* A new manager takes over. *)
LEMMA ReloadKeeps ==
  ASSUME IInv, Reload
  PROVE  IInv'
<1> USE DEF opVars, hostVars, packageVars, Reload
<1>1. Flags' BY Zenon DEF IInv, Flags
<1>2. Values' BY DEF IInv, Values
<1>3. Fits' BY DEF IInv, Values, Fits, FitsAt
<1>4. Keeps' BY DEF IInv, Values, Keeps, Engaged, Asked, Fits, FitsAt
<1>5. Current' BY DEF IInv, Values, Keeps, Current, Engaged, Asked
<1>6. Fresh' BY DEF IInv, Values, Fresh, Asked
<1>7. NoStrandedReservation' BY DEF IInv, Values, Fits, FitsAt, NoStrandedReservation
<1>8. QED BY <1>1, <1>2, <1>3, <1>4, <1>5, <1>6, <1>7 DEF IInv

(* The invariant is inductive. *)
LEMMA Inductive == Spec => []IInv
<1>1. IInv /\ [Next]_vars => IInv'
  <2> SUFFICES ASSUME IInv, [Next]_vars PROVE IInv'
    OBVIOUS
  <2>1. ASSUME NEW o \in Op, Press(o) \/ TaskStep(o) \/ ReadFails(o) \/ ThreadStep(o) \/ PveEnds(o)
        PROVE  IInv'
    BY <2>1, PressKeeps, TaskKeeps, HostKeeps
  <2>2. CASE Deselect \/ \E n \in Name : Select(n) BY <2>2, DeselectKeeps, SelectKeeps
  <2>3. CASE \E k \in Packages : StartPackage(k) BY <2>3, StartPackageKeeps
  <2>4. CASE \E n \in Name : OwnSnapshot(n) BY <2>4, OwnSnapshotKeeps
  <2>5. CASE \E retained \in BOOLEAN : EndPackage(retained) BY <2>5, EndPackageKeeps
  <2>6. CASE Unload \/ Reload BY <2>6, UnloadKeeps, ReloadKeeps
  <2>7. CASE UNCHANGED vars
    BY <2>7 DEF vars, opVars, hostVars, packageVars, IInv, Flags, Values, Fits, FitsAt,
       Keeps, Current, Fresh, Engaged, Asked, NoStrandedReservation
  <2>8. QED BY <2>1, <2>2, <2>3, <2>4, <2>5, <2>6, <2>7 DEF Next
<1>2. QED BY InitIInv, <1>1, PTL DEF Spec

(* Type correctness, for any number of operations and names. *)
THEOREM OperationTypes == Spec => []TypeOK
<1>1. IInv => TypeOK BY DEF IInv, Flags, Values, TypeOK
<1>2. QED BY <1>1, Inductive, PTL

(* While a rollback may still reach the guest, whatever became of the      *)
(* Restore that asked for it, no Scan or Update owns the guest.            *)
THEOREM RollbackIsExclusive == Spec => []PackagesKeepOut
<1>1. IInv => PackagesKeepOut BY DEF IInv, Keeps, Engaged, Asked, PackagesKeepOut
<1>2. QED BY <1>1, Inductive, PTL

(* A Scan's result held as current is younger than every rollback.         *)
THEOREM NoTruthFromBefore == Spec => []TruthIsCurrent
<1>1. IInv => TruthIsCurrent BY DEF IInv, Current, TruthIsCurrent
<1>2. QED BY <1>1, Inductive, PTL

(* What Create, Restore and Delete publish stays true of the host.         *)
THEOREM TrueResult == Spec => []ResultIsTrue
<1>1. IInv => ResultIsTrue BY DEF IInv, Fits, FitsAt, ResultIsTrue
<1>2. QED BY <1>1, Inductive, PTL

(* Delete never takes the safety snapshot of an Update under way.          *)
THEOREM SafetySnapshotKept == Spec => []OwnSnapshotKept
<1>1. IInv => OwnSnapshotKept BY DEF IInv, Fresh, OwnSnapshotKept
<1>2. QED BY <1>1, Inductive, PTL

(* No Restore that is over, and known to be, keeps the guest reserved.     *)
THEOREM GuestIsGivenBack == Spec => []NoStrandedReservation
<1>1. IInv => NoStrandedReservation BY DEF IInv
<1>2. QED BY <1>1, Inductive, PTL

-----------------------------------------------------------------------------
(* What a step may do to the owner and the reservation of the guest.       *)
OwnershipStep ==
  /\ work' \in Work /\ reserved' \in BOOLEAN
  /\ \/ work = "none" /\ ~reserved /\ work' # "none" /\ ~reserved'
     \/ work \in {"none", "health"} /\ ~reserved /\ work' = work /\ reserved'
     \/ work' \in {work, "none"} /\ (reserved' => reserved)

LEMMA StepOwnership == IInv /\ IInv' /\ [Next]_vars => OwnershipStep
<1> SUFFICES ASSUME IInv, IInv', [Next]_vars PROVE OwnershipStep
  OBVIOUS
<1> USE DEF OwnershipStep
<1>1. work' \in Work /\ reserved' \in BOOLEAN BY Zenon DEF IInv, Flags, Values
<1>2. ASSUME NEW o \in Op, Press(o) PROVE OwnershipStep
  BY <1>1, <1>2 DEF Press, PressCreate, PressRestore, PressDelete, Restorable, packageVars
<1>3. ASSUME NEW o \in Op, TaskStep(o) \/ ReadFails(o) PROVE OwnershipStep
  <2>1. \A result \in Told : Finish(o, result) => (reserved' => reserved)
    BY FinishSays DEF IInv, Gives
  <2>2. QED
    BY <1>1, <1>3, <2>1
    DEF TaskStep, Validate, Answered, Observe, Results, Terminal, ReadFails, Deliver, packageVars
<1>4. ASSUME NEW o \in Op, ThreadStep(o) \/ PveEnds(o) PROVE OwnershipStep
  BY <1>1, <1>4 DEF ThreadStep, Take, Request, PveEnds, packageVars
<1>5. CASE Deselect \/ Reload \/ Unload \/ UNCHANGED vars
  BY <1>1, <1>5 DEF Deselect, Reload, Unload, vars, packageVars
<1>6. CASE \E n \in Name : Select(n) \/ OwnSnapshot(n)
  BY <1>1, <1>6 DEF Select, OwnSnapshot, packageVars
<1>7. CASE \E k \in Packages : StartPackage(k) BY <1>1, <1>7 DEF StartPackage
<1>8. CASE \E retained \in BOOLEAN : EndPackage(retained) BY <1>1, <1>8 DEF EndPackage
<1>9. QED BY <1>2, <1>3, <1>4, <1>5, <1>6, <1>7, <1>8 DEF Next

(* Whatever is pressed, answered, lost or interrupted, Restore keeps to    *)
(* the promise of VmidOwnership: the guest is accepted, reserved, handed   *)
(* over and given back only as it says.                                    *)
THEOREM RestoreImplementsOwnership == Spec => ImplementsOwnership
<1>1. Init => Ownership!Init BY DEF Init, Ownership!Init
<1>2. OwnershipStep => Ownership!Next
  BY DEF OwnershipStep, Ownership!Next, Ownership!Accept, Ownership!Reserve,
         Ownership!Release, Ownership!Work
<1>3. [Next]_vars /\ IInv /\ IInv' => [Ownership!Next]_(Ownership!vars)
  BY <1>2, StepOwnership
<1>4. QED BY <1>1, <1>3, Inductive, PTL DEF Spec, ImplementsOwnership, Ownership!Spec

-----------------------------------------------------------------------------
(***************************************************************************)
(* What OperationsEnd rests on, short of fairness: a distance to the end   *)
(* that every step of an operation shortens and no other step lengthens,   *)
(* and a step of its own that is always there to take.                     *)
(***************************************************************************)
(* The steps a coroutine has left, at most, and those of its call.         *)
StepsLeft(o) ==
  CASE phase[o] = "validate"  -> MaxTries + 3
    [] phase[o] = "submit"    -> MaxTries + 2
    [] phase[o] = "observe"   -> MaxTries + 1 - tries[o]
    [] phase[o] = "cancelled" -> 1
    [] OTHER -> 0

CallLeft(o) == IF call[o] = "queued" THEN 2 ELSE IF call[o] = "taken" THEN 1 ELSE 0

(* The coroutine comes first: handing over a call is a step forward.       *)
Nearer(o) == \/ StepsLeft(o)' < StepsLeft(o)
             \/ StepsLeft(o)' = StepsLeft(o) /\ CallLeft(o)' < CallLeft(o)

Ahead(o) == Nearer(o) \/ (StepsLeft(o)' = StepsLeft(o) /\ CallLeft(o)' = CallLeft(o))

(* Both are numbers of steps, before and after any step.                   *)
InRange == \A o \in Op : StepsLeft(o) \in Nat /\ CallLeft(o) \in Nat
                         /\ (phase[o] # "idle" => StepsLeft(o) > 0)

LEMMA Ranges == Values => InRange
BY DEF Values, InRange, StepsLeft, CallLeft

(* What the operation itself does.                                         *)
LEMMA OwnNearer ==
  ASSUME NEW o \in Op, IInv, phase[o] # "idle", TaskStep(o) \/ ReadFails(o) \/ ThreadStep(o)
  PROVE  Nearer(o)
<1> USE DEF Nearer, StepsLeft, CallLeft, Values, IInv
<1>0. \A result \in Told : Finish(o, result) => phase' = [phase EXCEPT ![o] = "idle"]
  BY DEF Finish, Publish
<1>1. CASE phase'[o] = "idle"
  BY <1>1
<1>2. CASE Validate(o)
  BY <1>0, <1>1, <1>2 DEF Validate, Await
<1>3. CASE Answered(o)
  BY <1>0, <1>1, <1>3 DEF Answered, Await, Publish
<1>4. CASE Observe(o)
  BY <1>0, <1>1, <1>4 DEF Observe, Results, Terminal
<1>5. CASE Deliver(o)
  BY <1>1, <1>5 DEF Deliver, Publish
<1>6. CASE ReadFails(o)
  BY <1>0, <1>1, <1>6 DEF ReadFails, TriesAgain
<1>7. CASE ThreadStep(o)
  BY <1>7 DEF ThreadStep, Take, Request, Answers, opVars
<1> QED
  BY <1>2, <1>3, <1>4, <1>5, <1>6, <1>7 DEF TaskStep

(* Any other step leaves its coroutine and its call alone, or cancels it.  *)
LEMMA OthersAhead ==
  ASSUME NEW o \in Op, IInv, phase[o] # "idle", [Next]_vars,
         ~(TaskStep(o) \/ ReadFails(o) \/ ThreadStep(o))
  PROVE  Ahead(o)
<1> USE DEF Values, IInv, opVars, hostVars
<1>1. CASE phase'[o] = phase[o] /\ tries'[o] = tries[o] /\ call'[o] = call[o]
  BY <1>1 DEF Ahead, StepsLeft, CallLeft
<1>2. ASSUME NEW p \in Op, Press(p) \/ TaskStep(p) \/ ReadFails(p) \/ ThreadStep(p) \/ PveEnds(p)
      PROVE  phase'[o] = phase[o] /\ tries'[o] = tries[o] /\ call'[o] = call[o]
  <2>1. CASE Press(p)
    BY <2>1 DEF Press, PressCreate, PressRestore, PressDelete, Begin, Free
  <2>2. CASE TaskStep(p) \/ ReadFails(p)
    <3>1. \A result \in Told : Finish(p, result) => phase' = [phase EXCEPT ![p] = "idle"]
      BY DEF Finish, Publish
    <3> QED
      BY <2>2, <3>1 DEF TaskStep, Validate, Answered, Observe, Results, Terminal, Deliver, ReadFails,
                        Await, Publish
  <2>3. CASE ThreadStep(p) \/ PveEnds(p)
    BY <2>3 DEF ThreadStep, Take, Request, Answers, PveEnds
  <2> QED
    BY <1>2, <2>1, <2>2, <2>3
<1>3. CASE Unload
  BY <1>3 DEF Unload, Ahead, Nearer, StepsLeft, CallLeft
<1>4. CASE Deselect \/ (\E n \in Name : Select(n) \/ OwnSnapshot(n)) \/ Reload \/ UNCHANGED vars
  BY <1>1, <1>4 DEF Deselect, Select, OwnSnapshot, Reload, vars
<1>5. CASE (\E k \in Packages : StartPackage(k)) \/ \E retained \in BOOLEAN : EndPackage(retained)
  BY <1>1, <1>5 DEF StartPackage, EndPackage
<1> QED
  BY <1>1, <1>2, <1>3, <1>4, <1>5 DEF Next

(* Every step of a Create, Restore or Delete brings it nearer to a         *)
(* published result, a failed read of its task included, and nothing takes *)
(* it back: for any number of reads and of operations under way.           *)
THEOREM OperationNearer ==
  Spec => /\ []InRange
          /\ [][\A o \in Op : phase[o] # "idle" =>
                  /\ TaskStep(o) \/ ReadFails(o) \/ ThreadStep(o) => Nearer(o)
                  /\ Ahead(o)]_vars
<1>1. IInv /\ [Next]_vars =>
        \A o \in Op : phase[o] # "idle" =>
               /\ TaskStep(o) \/ ReadFails(o) \/ ThreadStep(o) => Nearer(o)
               /\ Ahead(o)
  BY OwnNearer, OthersAhead DEF Ahead
<1>2. IInv => InRange
  BY Ranges DEF IInv
<1> QED
  BY <1>1, <1>2, Inductive, PTL DEF Spec

(* And it never waits for an answer nobody will give: only the await of    *)
(* its call can hold it, and then a thread has the call, or will take it.  *)
THEOREM CallIsServed ==
  Spec => []\A o \in Op :
    phase[o] = "submit" => call[o] \in Answer \cup {"queued", "taken"}
<1>1. IInv => \A o \in Op :
        phase[o] = "submit" => call[o] \in Answer \cup {"queued", "taken"}
  BY DEF IInv, Values, Fits, FitsAt
<1> QED
  BY <1>1, Inductive, PTL
=============================================================================

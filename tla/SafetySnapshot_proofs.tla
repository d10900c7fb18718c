------------------------ MODULE SafetySnapshot_proofs ------------------------
(***************************************************************************)
(* Proofs about SafetySnapshot: type correctness and its three safety      *)
(* invariants, that it is the MutationAttempt the manager deals with, and  *)
(* that it comes nearer to its end, for every number of polls.             *)
(***************************************************************************)
EXTENDS SafetySnapshot, TLAPS

(* Neither a thread nor PVE will touch the snapshot any more.              *)
Idle == job \in {"none", "upid", "error", "cancelled"} /\ pve \notin {"creating", "deleting"}

(* The mutation went well: from here on the snapshot may be deleted.       *)
Good == apt = "good" /\ alive

(* Where the task is suspended tells what the other parties may be doing.  *)
PhaseFits ==
  /\ phase \in {"plan", "list"} =>
       job = "none" /\ pve = "none" /\ snap = "absent" /\ apt = "none"
       /\ ~mutating /\ ~ready /\ ~submitted
  /\ phase \in {"create", "poll", "relist", "confirm"} =>
       ~skip /\ ~mutating /\ ~ready /\ apt = "none"
  /\ phase = "create" =>
       /\ job \in {"queued", "taken", "marked", "upid", "error"}
       /\ job \in {"queued", "taken"} => snap = "absent" /\ pve = "none"
       /\ job \in {"marked", "upid", "error"} => submitted
  /\ phase \in {"poll", "relist", "confirm"} => job = "none" /\ submitted
  /\ phase = "relist" => pve = "failed"
  /\ phase = "confirm" => pve = "ok"
  /\ phase \in {"mutate", "live"} => job = "none" /\ mutating /\ Idle
  /\ phase \in {"plan", "list", "create", "poll", "relist", "confirm", "mutate", "live"} =>
       ~alive
  /\ phase \in {"plan", "list", "create", "poll", "relist", "confirm", "mutate"} =>
       told = "none"
  /\ phase = "live" => apt = "good"
  /\ phase \in {"delete", "pollDelete", "confirmDelete"} => ~skip /\ mutating /\ Good
  /\ phase = "delete" => job \in {"queued", "taken", "marked", "upid", "error"}
  /\ phase \in {"pollDelete", "confirmDelete"} => job = "none"
  /\ phase = "confirmDelete" => pve = "ok"
  /\ phase = "observe" => mutating /\ Good /\ (~kept => Idle /\ snap = "absent")
  /\ phase = "list" => ~skip

(* What holds wherever the task is.                                        *)
Deleting ==
  /\ mutating => pve # "creating"
  /\ pve = "deleting" => mutating /\ Good
  /\ mutating /\ job \in {"queued", "taken", "marked"} => Good
  /\ skip => job = "none" /\ pve = "none" /\ snap = "absent"
  /\ mutating /\ ~skip => ready
  /\ ~mutating => apt = "none"
  /\ report.outcome \in Request!Refusals => told = report.outcome

(* What an ended attempt reported, with the parties it can still meet.     *)
Told ==
  /\ ~cancelled => own
  /\ phase = "ended" /\ ~unmarked =>
       \/ report.visible /\ (report.retained \/ report.uncertain)
       \/ Idle /\ snap = "absent"

(* The two parts of TypeOK: the flags, and everything else.                *)
Flags ==
  /\ skip \in BOOLEAN /\ submitted \in BOOLEAN /\ ready \in BOOLEAN
  /\ mutating \in BOOLEAN /\ kept \in BOOLEAN /\ cancelled \in BOOLEAN
  /\ own \in BOOLEAN /\ alive \in BOOLEAN /\ unmarked \in BOOLEAN

Values ==
  /\ phase \in Phase /\ polls \in 0 .. MaxPolls - 1 /\ report \in Report
  /\ job \in Job /\ snap \in Snap /\ pve \in Pve /\ Request!TypeOK

Facts == Values /\ PhaseFits /\ Deleting /\ Told /\ MutationIsCovered /\ OutcomeIsTrue

IInv == Flags /\ Facts

USE DEF Phase, Job, Snap, Pve, Outcome, Report, NoReport, Request!TypeOK, Request!Apt,
        Request!Told, Request!Failures, Request!Refusals

(* The invariant holds initially. *)
LEMMA InitIInv == Init => IInv
<1>1. Init => Flags BY Zenon DEF Init, Flags
<1>2. Init => Facts
  BY PollsAssumption, SMT
  DEF Init, Request!Init, Facts, Values, PhaseFits, Deleting, Told, MutationIsCovered, OutcomeIsTrue,
      Idle, Good
<1>3. QED BY <1>1, <1>2 DEF IInv

(* What Ended makes of the report. *)
Says(outcome, retained, uncertain) ==
  /\ phase' = "ended" /\ report' \in Report /\ report'.outcome = outcome
  /\ report'.retained <=> retained
  /\ report'.uncertain <=> uncertain
  /\ report'.visible <=> own

(* An attempt that ends says what Ended is given. *)
LEMMA EndedSays ==
  ASSUME Flags, NEW o \in Outcome, NEW r \in BOOLEAN, NEW u \in BOOLEAN, Ended(o, r, u)
  PROVE  Says(o, r, u)
BY SMT DEF Ended, Says, Flags

(* Every step of the background task keeps the flags Boolean. *)
LEMMA TaskFlags ==
  ASSUME Flags, TaskStep
  PROVE  Flags'
<1> USE DEF Flags, taskVars, Resumes, Ended, SnapshotFailed
<1>1. CASE Plan BY <1>1, Zenon DEF Plan
<1>2. CASE List BY <1>2, Zenon DEF List
<1>3. CASE Created BY <1>3, Zenon DEF Created
<1>4. CASE Poll BY <1>4, Zenon DEF Poll, OutOfPolls, NextPoll
<1>5. CASE Relist BY <1>5, Zenon DEF Relist
<1>6. CASE Confirm BY <1>6, Zenon DEF Confirm, IsComplete
<1>7. CASE Mutate BY <1>7, Zenon DEF Mutate
<1>8. ASSUME NEW ok \in BOOLEAN, Liveness(ok) PROVE Flags'
  BY <1>8, Zenon DEF Liveness
<1>9. CASE Deleted BY <1>9, Zenon DEF Deleted, Observing
<1>10. CASE PollDelete BY <1>10, Zenon DEF PollDelete, OutOfPolls, NextPoll, Observing
<1>11. CASE ConfirmDelete BY <1>11, Zenon DEF ConfirmDelete, Observing
<1>12. CASE Observe BY <1>12, Zenon DEF Observe
<1>13. CASE Unexpected BY <1>13, Zenon DEF Unexpected, InterruptedOutcome
<1>14. CASE Deliver BY <1>14, Zenon DEF Deliver, InterruptedOutcome, Shown
<1>15. QED
  BY <1>1, <1>2, <1>3, <1>4, <1>5, <1>6, <1>7, <1>8, <1>9, <1>10, <1>11, <1>12,
     <1>13, <1>14 DEF TaskStep

(* So do the thread, PVE, APT and a cancellation. *)
LEMMA OtherFlags ==
  ASSUME Flags, ThreadStep \/ PveEnds \/ AptStep \/ \E pruned \in BOOLEAN : Cancel(pruned)
  PROVE  Flags'
<1> USE DEF Flags, taskVars
<1>1. CASE Take BY <1>1, Zenon DEF Take
<1>2. CASE Mark BY <1>2, Zenon DEF Mark, Creates
<1>3. CASE Submit BY <1>3, Zenon DEF Submit, Creates
<1>4. CASE PveEnds BY <1>4, Zenon DEF PveEnds
<1>5. CASE AptStep BY <1>5, Zenon DEF AptStep
<1>6. ASSUME NEW pruned \in BOOLEAN, Cancel(pruned) PROVE Flags'
  BY <1>6, Zenon DEF Cancel
<1>7. QED
  BY <1>1, <1>2, <1>3, <1>4, <1>5, <1>6 DEF ThreadStep

(* Every step of the background task keeps the rest of the invariant. *)
LEMMA TaskKeeps ==
  ASSUME IInv, TaskStep
  PROVE  Facts'
<1> USE PollsAssumption DEF IInv, Flags, Facts, Values, PhaseFits, Deleting, Told, MutationIsCovered,
        OutcomeIsTrue, Idle, Good, taskVars, Resumes, Says
<1>1. CASE Plan
  <2>1. CASE Says("plan_failed", FALSE, FALSE) /\ UNCHANGED <<mutating, apt, told>>
    BY <1>1, <2>1, SMT DEF Plan
  <2>2. CASE UNCHANGED report /\ skip /\ mutating' /\ phase' = "mutate" /\ Request!Send
    <3>1. Resumes("plan") /\ UNCHANGED <<skip, polls, submitted, ready, kept, cancelled, own,
                                       job, snap, pve, alive, unmarked>>
      BY <1>1, Zenon DEF Plan
    <3>2. QED BY <2>2, <3>1, SMT DEF Request!Send
  <2>3. CASE UNCHANGED <<report, apt, told>> /\ ~skip /\ ~mutating' /\ phase' = "list"
    BY <1>1, <2>3, SMT DEF Plan
  <2>4. CASE skip
    BY <1>1, <2>1, <2>2, <2>4, EndedSays, Zenon DEF Plan, Flags
  <2>5. CASE ~skip
    <3>1. skip = FALSE
      BY <2>5, Zenon DEF Flags
    <3>2. QED BY <1>1, <2>1, <2>3, <2>5, <3>1, EndedSays, Zenon DEF Plan
  <2>6. QED BY <2>4, <2>5
<1>2. CASE List
  <2>1. CASE phase' = "create" /\ job' = "queued" /\ UNCHANGED report
    BY <1>2, <2>1, SMT DEF List
  <2>2. CASE Says("snapshot_failed", FALSE, FALSE) /\ UNCHANGED job
    BY <1>2, <2>2, SMT DEF List
  <2>3. QED BY <1>2, <2>1, <2>2, EndedSays, Zenon DEF List, SnapshotFailed
<1>3. CASE Created
  <2>1. CASE phase' = "poll" /\ polls' = 0 /\ UNCHANGED report
    BY <1>3, <2>1, SMT DEF Created
  <2>2. CASE Says("snapshot_failed", FALSE, TRUE) /\ UNCHANGED polls
    BY <1>3, <2>2, SMT DEF Created
  <2>3. QED BY <1>3, <2>1, <2>2, EndedSays, Zenon DEF Created, SnapshotFailed
<1>4. CASE Poll
  <2>1. CASE polls' = NextPoll /\ ~OutOfPolls /\ UNCHANGED <<phase, report>>
    BY <1>4, <2>1, SMT DEF Poll, OutOfPolls, NextPoll
  <2>2. CASE pve = "ok" /\ phase' = "confirm" /\ UNCHANGED <<polls, report>>
    BY <1>4, <2>2, SMT DEF Poll
  <2>3. CASE pve = "failed" /\ phase' = "relist" /\ UNCHANGED <<polls, report>>
    BY <1>4, <2>3, SMT DEF Poll
  <2>4. CASE Says("snapshot_failed", FALSE, TRUE) /\ UNCHANGED polls
    BY <1>4, <2>4, SMT DEF Poll
  <2>5. QED BY <1>4, <2>1, <2>2, <2>3, <2>4, EndedSays, Zenon DEF Poll, SnapshotFailed
<1>5. CASE Relist
  <2>1. /\ Says("snapshot_failed", FALSE, report'.uncertain)
        /\ report'.uncertain \/ snap = "absent"
    BY <1>5, EndedSays, Zenon DEF Relist, SnapshotFailed
  <2>2. QED BY <1>5, <2>1, SMT DEF Relist
<1>6. CASE Confirm
  <2>1. CASE /\ IsComplete /\ phase' = "mutate" /\ ready' /\ mutating' /\ Request!Send
             /\ UNCHANGED report
    <3>1. Resumes("confirm") /\ UNCHANGED <<skip, polls, submitted, kept, cancelled, own, job,
                                          snap, pve, alive, unmarked>>
      BY <1>6, Zenon DEF Confirm
    <3>2. QED BY <2>1, <3>1, SMT DEF IsComplete, Request!Send
  <2>2. CASE Says("snapshot_failed", FALSE, TRUE) /\ UNCHANGED <<ready, mutating, apt, told>>
    BY <1>6, <2>2, SMT DEF Confirm
  <2>3. QED BY <1>6, <2>1, <2>2, EndedSays, Zenon DEF Confirm, SnapshotFailed
<1>7. CASE Mutate
  <2> USE DEF Request!Tell, Request!Allowed
  <2>1. CASE Request!Tell("mutated") /\ phase' = "live" /\ UNCHANGED report
    BY <1>7, <2>1, SMT DEF Mutate
  <2>2. ASSUME NEW o \in Request!Failures, Request!Tell(o), Ended(o, ready, FALSE)
        PROVE Facts'
    <3>1. o \in Outcome /\ ready \in BOOLEAN
      <4>1. o \in Outcome BY SMT
      <4>2. QED BY <4>1, Zenon DEF Flags
    <3>2. Says(o, ready, FALSE)
      <4> HIDE DEF Outcome, Says
      <4>1. QED BY <2>2, <3>1, EndedSays, Zenon
    <3>3. QED BY <1>7, <2>2, <3>2, SMT DEF Mutate
  <2>3. QED BY <1>7, <2>1, <2>2, Zenon DEF Mutate
<1>8. ASSUME NEW ok \in BOOLEAN, Liveness(ok) PROVE Facts'
  <2>1. CASE ok /\ alive' /\ skip /\ phase' = "observe" /\ UNCHANGED <<job, report>>
    BY <1>8, <2>1, SMT DEF Liveness
  <2>2. CASE ok /\ alive' /\ ~skip /\ phase' = "delete" /\ job' = "queued" /\ UNCHANGED report
    BY <1>8, <2>2, SMT DEF Liveness
  <2>3. CASE ~ok /\ ~alive' /\ Says("liveness_failed", ready, FALSE) /\ UNCHANGED job
    BY <1>8, <2>3, SMT DEF Liveness
  <2>4. CASE Ended("liveness_failed", ready, FALSE)
    <3>1. "liveness_failed" \in Outcome /\ ready \in BOOLEAN
      <4>1. "liveness_failed" \in Outcome BY SMT
      <4>2. QED BY <4>1, Zenon DEF Flags
    <3>2. Says("liveness_failed", ready, FALSE)
      <4> HIDE DEF Outcome, Says
      <4>1. QED BY <2>4, <3>1, EndedSays, Zenon
    <3>3. QED BY <1>8, <2>1, <2>2, <2>3, <3>2, Zenon DEF Liveness
  <2>5. CASE ~Ended("liveness_failed", ready, FALSE)
    BY <1>8, <2>1, <2>2, <2>5, Zenon DEF Liveness
  <2>6. QED BY <2>4, <2>5
<1>9. CASE Deleted BY <1>9, SMT DEF Deleted, Observing
<1>10. CASE PollDelete BY <1>10, SMT DEF PollDelete, OutOfPolls, NextPoll, Observing
<1>11. CASE ConfirmDelete BY <1>11, SMT DEF ConfirmDelete, Observing
<1>12. CASE Observe
  <2>1. Ended("success", kept, FALSE) => Says("success", kept, FALSE)
    <3>1. "success" \in Outcome BY SMT
    <3>2. kept \in BOOLEAN BY Zenon DEF Flags
    <3> HIDE DEF Outcome, Says
    <3>3. QED BY <3>1, <3>2, EndedSays, Zenon
  <2>2. QED BY <1>12, <2>1, SMT DEF Observe
<1>13. CASE Unexpected BY <1>13, SMT DEF Unexpected, InterruptedOutcome, Ended
<1>14. CASE Deliver
  <2>1. /\ report'.visible
        /\ phase # "observe" => report'.retained <=> ready
        /\ phase # "observe" => report'.uncertain <=> submitted /\ ~ready
        /\ phase = "observe" => report'.retained <=> kept
    BY <1>14, SMT DEF Deliver, Shown
  <2>2. unmarked' <=> phase = "create" /\ job = "taken"
    BY <1>14, Zenon DEF Deliver
  <2>3. Told'
    BY <1>14, <2>1, <2>2, SMT DEF Deliver
  <2>4. QED BY <1>14, <2>3, SMT DEF Deliver, InterruptedOutcome, Shown
<1>15. QED
  BY <1>1, <1>2, <1>3, <1>4, <1>5, <1>6, <1>7, <1>8, <1>9, <1>10, <1>11, <1>12,
     <1>13, <1>14 DEF TaskStep

(* So do the thread, PVE, APT and a cancellation. *)
LEMMA OthersKeep ==
  ASSUME IInv, ThreadStep \/ PveEnds \/ AptStep \/ \E pruned \in BOOLEAN : Cancel(pruned)
  PROVE  Facts'
<1> USE DEF IInv, Flags, Facts, Values, PhaseFits, Deleting, Told, MutationIsCovered,
        OutcomeIsTrue, Idle, Good, taskVars
<1>1. CASE Take BY <1>1, SMT DEF Take
<1>2. CASE Mark BY <1>2, SMT DEF Mark, Creates
<1>3. CASE Submit BY <1>3, SMT DEF Submit, Creates
<1>4. CASE PveEnds BY <1>4, SMT DEF PveEnds
<1>5. CASE AptStep BY <1>5, SMT DEF AptStep, Request!AptStep
<1>6. ASSUME NEW pruned \in BOOLEAN, Cancel(pruned) PROVE Facts'
  BY <1>6, SMT DEF Cancel
<1>7. QED
  BY <1>1, <1>2, <1>3, <1>4, <1>5, <1>6 DEF ThreadStep

(* The invariant is inductive. *)
LEMMA Inductive == Spec => []IInv
<1>1. IInv /\ [Next]_vars => IInv'
  <2> SUFFICES ASSUME IInv, [Next]_vars PROVE IInv'
    OBVIOUS
  <2>1. CASE Next BY <2>1, TaskFlags, OtherFlags, TaskKeeps, OthersKeep DEF Next, IInv
  <2>2. CASE UNCHANGED vars
    BY <2>2 DEF vars, taskVars, IInv, Flags, Facts, Values, PhaseFits, Deleting, Told,
       MutationIsCovered, OutcomeIsTrue, Idle, Good
  <2>3. QED BY <2>1, <2>2
<1>2. QED BY InitIInv, <1>1, PTL DEF Spec

(* Type correctness. *)
THEOREM SnapshotTypes == Spec => []TypeOK
<1>1. IInv => TypeOK BY DEF IInv, Facts, Flags, Values, TypeOK
<1>2. QED BY <1>1, Inductive, PTL

(* APT never runs without the complete safety snapshot, whoever is still   *)
(* waiting for it, and only a good mutation lets the snapshot go.          *)
THEOREM Covered == Spec => []MutationIsCovered
<1>1. IInv => MutationIsCovered BY DEF IInv, Facts
<1>2. QED BY <1>1, Inductive, PTL

(* No ended attempt leaves a snapshot behind that nobody is told of, but   *)
(* for an interruption that overtakes on_submit.                           *)
THEOREM NothingSilent == Spec => []NoSilentSnapshot
<1>1. IInv => NoSilentSnapshot BY DEF IInv, Facts, Told, NoSilentSnapshot, MayExist, Idle
<1>2. QED BY <1>1, Inductive, PTL

(* What an outcome says of the mutation is what APT did.                   *)
THEOREM TrueOutcome == Spec => []OutcomeIsTrue
<1>1. IInv => OutcomeIsTrue BY DEF IInv, Facts
<1>2. QED BY <1>1, Inductive, PTL

-----------------------------------------------------------------------------
(***************************************************************************)
(* The attempt lives the life the package manager deals with.              *)
(***************************************************************************)
Bare == skip /\ own /\ phase # "ended"

(* What a step may do to the life of the attempt.                          *)
LifeStep ==
  \/ Stage' = Stage /\ (Bare' <=> Bare)
  \/ /\ Stage \in Attempt!Working \ {"observe"} /\ Stage' = Attempt!After(Stage)
     /\ Bare' <=> Bare
  \/ Stage \in Attempt!Working \ {"observe"} /\ Stage' = "failed" /\ ~Bare'
  \/ Stage = "observe" /\ Stage' = "success" /\ ~Bare'
  \/ Stage' = "absent" /\ ~Bare'

LEMMA LifeSteps ==
  ASSUME LifeStep
  PROVE  [Attempt!Next]_(Attempt!vars)
BY DEF LifeStep, Bare, Attempt!Next, Attempt!Advance, Attempt!Fail, Attempt!Succeed, Attempt!Forget,
       Attempt!Settles, Attempt!vars

(* An attempt that ends, other than well, failed.                          *)
LEMMA EndsLife ==
  ASSUME own, Stage \in Attempt!Working \ {"observe"}, own',
         phase' = "ended", report'.outcome # "success"
  PROVE  LifeStep
BY DEF LifeStep, Bare, Stage, StageOf

LEMMA EndedLife ==
  ASSUME own, Stage \in Attempt!Working \ {"observe"}, own', NEW o, NEW r, NEW u, Ended(o, r, u),
         o # "success"
  PROVE  LifeStep
BY EndsLife DEF Ended

LEMMA TaskLife ==
  ASSUME IInv, TaskStep
  PROVE  LifeStep
<1> USE DEF Resumes, Attempt!Working, taskVars
<1>0. IInv /\ ~cancelled => own
  BY Zenon DEF IInv, Facts, Told
<1>1. CASE Plan
  <2>1. own /\ own' = own /\ skip' = skip /\ phase = "plan"
    BY <1>0, <1>1, Zenon DEF Plan
  <2>2. CASE Ended("plan_failed", FALSE, FALSE)
    BY <2>1, <2>2, EndedLife DEF Stage, StageOf
  <2>3. CASE phase' = IF skip THEN "mutate" ELSE "list"
    BY <2>1, <2>3 DEF Stage, StageOf, LifeStep, Bare, Attempt!After
  <2> QED
    BY <1>1, <2>2, <2>3 DEF Plan
<1>2. CASE List \/ Created \/ Poll \/ Relist \/ Confirm
  <2>1. own /\ own' = own /\ skip' = skip
    BY <1>0, <1>2, Zenon DEF List, Created, Poll, Relist, Confirm
  <2>2. phase \in {"list", "create", "poll", "relist", "confirm"}
    BY <1>2 DEF List, Created, Poll, Relist, Confirm
  <2>3. CASE \E u \in BOOLEAN : SnapshotFailed(u)
    BY <2>1, <2>2, <2>3, EndedLife DEF Stage, StageOf, SnapshotFailed
  <2>4. CASE phase' \in {"create", "poll", "relist", "confirm"}
    BY <2>1, <2>2, <2>4 DEF Stage, StageOf, LifeStep, Bare
  <2>5. CASE phase = "confirm" /\ phase' = "mutate"
    BY <2>1, <2>5 DEF Stage, StageOf, LifeStep, Bare, Attempt!After
  <2> QED
    BY <1>2, <2>3, <2>4, <2>5 DEF List, Created, Poll, Relist, Confirm
<1>3. CASE Mutate
  <2>1. own /\ own' = own /\ skip' = skip /\ phase = "mutate"
    BY <1>0, <1>3, Zenon DEF Mutate
  <2>2. ASSUME NEW o \in Request!Failures, Ended(o, ready, FALSE) PROVE LifeStep
    BY <2>1, <2>2, EndedLife DEF Stage, StageOf
  <2>3. CASE phase' = "live"
    BY <2>1, <2>3 DEF Stage, StageOf, LifeStep, Bare
  <2> QED
    BY <1>3, <2>2, <2>3 DEF Mutate
<1>4. ASSUME NEW ok \in BOOLEAN, Liveness(ok) PROVE LifeStep
  <2>1. own /\ own' = own /\ skip' = skip /\ phase = "live"
    BY <1>0, <1>4, Zenon DEF Liveness
  <2>2. CASE Ended("liveness_failed", ready, FALSE)
    BY <2>1, <2>2, EndedLife DEF Stage, StageOf
  <2>3. CASE phase' = IF skip THEN "observe" ELSE "delete"
    BY <2>1, <2>3 DEF Stage, StageOf, LifeStep, Bare, Attempt!After
  <2> QED
    BY <1>4, <2>2, <2>3 DEF Liveness
<1>5. CASE Deleted \/ PollDelete \/ ConfirmDelete
  <2>1. own /\ own' = own /\ skip' = skip
    BY <1>0, <1>5, Zenon DEF Deleted, PollDelete, ConfirmDelete
  <2>2. phase \in {"delete", "pollDelete", "confirmDelete"}
    BY <1>5 DEF Deleted, PollDelete, ConfirmDelete
  <2>3. phase' \in {"pollDelete", "confirmDelete", "observe"}
    BY <1>5, <2>2 DEF Deleted, PollDelete, ConfirmDelete, Observing
  <2> QED
    BY <2>1, <2>2, <2>3 DEF Stage, StageOf, LifeStep, Bare, Attempt!After
<1>6. CASE Observe
  <2>1. own /\ own' = own /\ phase = "observe"
    BY <1>0, <1>6, Zenon DEF Observe
  <2>2. phase' = "ended" /\ report'.outcome = "success"
    BY <1>6 DEF Observe, Ended
  <2> QED
    BY <2>1, <2>2 DEF Stage, StageOf, LifeStep, Bare
<1>7. CASE Unexpected
  <2>1. own /\ own' = own /\ phase \in {"plan", "list", "mutate", "live"}
    BY <1>0, <1>7, Zenon DEF Unexpected
  <2>2. phase' = "ended" /\ report'.outcome = InterruptedOutcome
    BY <1>7 DEF Unexpected, Ended
  <2> QED
    BY <2>1, <2>2, EndsLife DEF Stage, StageOf, InterruptedOutcome
<1>8. CASE Deliver
  <2>1. own' = own /\ skip' = skip /\ phase' = "ended" /\ phase \in Phase \ {"ended"}
    BY <1>8 DEF Deliver, IInv, Facts, Values
  <2>2. CASE ~own
    BY <2>1, <2>2 DEF Stage, LifeStep, Bare
  <2>3. CASE own /\ phase = "observe"
    <3>1. report'.outcome = "success"
      BY <1>8, <2>3 DEF Deliver
    <3> QED
      BY <2>1, <2>3, <3>1 DEF Stage, StageOf, LifeStep, Bare
  <2>4. CASE own /\ phase # "observe"
    <3>1. report'.outcome # "success"
      BY <1>8, <2>4 DEF Deliver, InterruptedOutcome
    <3> QED
      BY <2>1, <2>4, <3>1, EndsLife DEF Stage, StageOf
  <2> QED
    BY <2>2, <2>3, <2>4
<1> QED
  BY <1>1, <1>2, <1>3, <1>4, <1>5, <1>6, <1>7, <1>8 DEF TaskStep

LEMMA OtherLife ==
  ASSUME IInv, ThreadStep \/ PveEnds \/ AptStep \/ (\E pruned \in BOOLEAN : Cancel(pruned))
               \/ UNCHANGED vars
  PROVE  LifeStep
<1>1. CASE UNCHANGED <<own, phase, report, skip>>
  BY <1>1 DEF Stage, StageOf, LifeStep, Bare
<1>2. ASSUME NEW pruned \in BOOLEAN, Cancel(pruned) PROVE LifeStep
  <2>1. own' = own \/ ~own'
    BY <1>2, Zenon DEF Cancel, IInv, Flags
  <2>2. UNCHANGED <<phase, report, skip>>
    BY <1>2 DEF Cancel
  <2> QED
    BY <1>1, <2>1, <2>2 DEF Stage, LifeStep, Bare
<1>3. CASE ThreadStep \/ PveEnds \/ AptStep \/ UNCHANGED vars
  BY <1>1, <1>3, Zenon DEF ThreadStep, Take, Mark, Submit, PveEnds, AptStep, taskVars, vars
<1> QED
  BY <1>2, <1>3

(* However it polls, errs or is interrupted, an Update or Autoremove lives *)
(* the life that the package manager deals with, for any number of polls.  *)
THEOREM AttemptImplemented == Spec => ImplementsAttempt
<1>1. Init => Stage = "plan"
  BY DEF Init, Stage, StageOf
<1>2. IInv /\ [Next]_vars => [Attempt!Next]_(Attempt!vars)
  BY TaskLife, OtherLife, LifeSteps DEF Next
<1> QED
  BY <1>1, <1>2, Inductive, PTL DEF Spec, ImplementsAttempt

-----------------------------------------------------------------------------
(***************************************************************************)
(* What AttemptEnds rests on, short of fairness: a distance to the end     *)
(* that every step of the task and of the thread shortens and no other     *)
(* step lengthens, and one of the two that can always go on.               *)
(***************************************************************************)
(* The steps the task has left, at most.                                   *)
StepsLeft ==
  CASE phase = "plan"          -> 2 * MaxPolls + 11
    [] phase = "list"          -> 2 * MaxPolls + 10
    [] phase = "create"        -> 2 * MaxPolls + 9
    [] phase = "poll"          -> 2 * MaxPolls + 8 - polls
    [] phase \in {"relist", "confirm"} -> MaxPolls + 7
    [] phase = "mutate"        -> MaxPolls + 6
    [] phase = "live"          -> MaxPolls + 5
    [] phase = "delete"        -> MaxPolls + 4
    [] phase = "pollDelete"    -> MaxPolls + 3 - polls
    [] phase = "confirmDelete" -> 2
    [] phase = "observe"       -> 1
    [] phase = "ended"         -> 0

(* And the thread, with the call it has.                                   *)
CallLeft == IF job = "queued" THEN 3 ELSE IF job = "taken" THEN 2
            ELSE IF job = "marked" THEN 1 ELSE 0

Distance == 4 * StepsLeft + CallLeft

(* The await the task is in is over, or it was cancelled; the thread has a *)
(* call to see through.                                                    *)
TaskCan   == phase # "ended" /\ (cancelled \/ phase \notin {"create", "delete"}
                                           \/ job \in {"upid", "error"})
ThreadCan == job \in {"queued", "taken", "marked"}

Bounded == StepsLeft \in Nat /\ CallLeft \in 0 .. 3

(* Both are numbers of steps, before and after any step.                   *)
LEMMA Distances == Values => Bounded
<1>1. Values => StepsLeft \in Nat
  BY PollsAssumption DEF Values, StepsLeft
<1>2. CallLeft \in 0 .. 3
  BY DEF CallLeft
<1> QED
  BY <1>1, <1>2 DEF Bounded

LEMMA NextDistances == ASSUME Values' PROVE Bounded'
BY Distances, PTL

(* A step of the task outweighs whatever its call had left.                *)
LEMMA Weighs ==
  ASSUME NEW s \in Nat, NEW t \in Nat, NEW c \in 0 .. 3, NEW d \in 0 .. 3,
         t < s \/ (t = s /\ d < c)
  PROVE  4 * t + d < 4 * s + c /\ 4 * t + d <= 4 * s + c
<1>1. CASE t < s
  <2>1. t + 1 <= s
    BY <1>1
  <2>2. 4 * t + 4 <= 4 * s
    BY <2>1
  <2> QED
    BY <2>2
<1>2. CASE t = s /\ d < c
  BY <1>2
<1> QED
  BY <1>1, <1>2

(* A step of the task takes one at least from what it has left.            *)
LEMMA TaskNearer ==
  ASSUME IInv, Values', TaskStep
  PROVE  StepsLeft' < StepsLeft
<1> USE PollsAssumption DEF Resumes
<1>0. Values
  BY DEF IInv, Facts
<1>1. CASE phase' = "ended" /\ phase # "ended"
  BY <1>0, <1>1 DEF StepsLeft, Values
<1>2. CASE Plan \/ List \/ Created
  BY <1>0, <1>1, <1>2 DEF Plan, List, Created, Ended, SnapshotFailed, StepsLeft, Values
<1>3. CASE Poll
  BY <1>0, <1>1, <1>3 DEF Poll, NextPoll, OutOfPolls, Ended, SnapshotFailed, StepsLeft, Values
<1>4. CASE Relist \/ Confirm \/ Mutate \/ \E ok \in BOOLEAN : Liveness(ok)
  BY <1>0, <1>1, <1>4 DEF Relist, Confirm, Mutate, Liveness, Ended, SnapshotFailed, StepsLeft, Values
<1>5. CASE Deleted \/ ConfirmDelete
  BY <1>0, <1>5 DEF Deleted, ConfirmDelete, Observing, StepsLeft, Values
<1>6. CASE PollDelete
  BY <1>0, <1>6 DEF PollDelete, NextPoll, OutOfPolls, Observing, StepsLeft, Values
<1>7. CASE Observe \/ Unexpected \/ Deliver
  BY <1>0, <1>1, <1>7 DEF Observe, Unexpected, Deliver, Ended
<1> QED
  BY <1>2, <1>3, <1>4, <1>5, <1>6, <1>7 DEF TaskStep

(* Every step of the task or of the thread brings the attempt nearer to    *)
(* its end, and nothing takes it back: no loop of polls, no cancellation   *)
(* and no answer starts anything over, for any number of polls.            *)
THEOREM EndIsNearer ==
  Spec => /\ [](Distance \in Nat)
          /\ [][/\ TaskStep \/ ThreadStep => Distance' < Distance
                /\ Distance' <= Distance]_vars
<1>1. ASSUME IInv, IInv', [Next]_vars
      PROVE  /\ TaskStep \/ ThreadStep => Distance' < Distance
             /\ Distance' <= Distance
  <2>0. /\ StepsLeft \in Nat /\ CallLeft \in 0 .. 3
        /\ StepsLeft' \in Nat /\ CallLeft' \in 0 .. 3
        /\ Distance = 4 * StepsLeft + CallLeft
        /\ Distance' = 4 * StepsLeft' + CallLeft'
    <3>1. Values /\ Values'
      BY <1>1 DEF IInv, Facts
    <3> QED
      BY <3>1, Distances, NextDistances DEF Bounded, Distance
  <2>1. CASE TaskStep
    <3>1. StepsLeft' < StepsLeft
      BY <1>1, <2>1, TaskNearer DEF IInv, Facts
    <3>2. Distance' < Distance /\ Distance' <= Distance
      BY <2>0, <3>1, Weighs
    <3> QED
      BY <3>2
  <2>2. CASE ThreadStep
    <3>1. phase' = phase /\ polls' = polls
      BY <2>2 DEF ThreadStep, Take, Mark, Submit, taskVars
    <3>2. StepsLeft' = StepsLeft
      BY <3>1 DEF StepsLeft
    <3>3. CallLeft' < CallLeft
      BY <2>2 DEF ThreadStep, Take, Mark, Submit, CallLeft
    <3>4. Distance' < Distance /\ Distance' <= Distance
      BY <2>0, <3>2, <3>3, Weighs
    <3> QED
      BY <3>4
  <2>3. CASE UNCHANGED <<phase, polls, job>>
    <3>1. StepsLeft' = StepsLeft /\ CallLeft' = CallLeft
      BY <2>3 DEF StepsLeft, CallLeft
    <3> QED
      BY <2>0, <2>1, <2>2, <3>1
  <2>4. ASSUME NEW pruned \in BOOLEAN, Cancel(pruned) PROVE UNCHANGED <<phase, polls, job>>
    BY <2>4 DEF Cancel
  <2> QED
    BY <1>1, <2>1, <2>2, <2>3, <2>4 DEF Next, PveEnds, AptStep, taskVars, vars
<1>2. IInv /\ IInv' /\ [Next]_vars =>
        /\ TaskStep \/ ThreadStep => Distance' < Distance
        /\ Distance' <= Distance
  BY <1>1
<1>3. IInv => Distance \in Nat
  BY Distances DEF IInv, Facts, Bounded, Distance
<1> QED
  BY <1>2, <1>3, Inductive, PTL DEF Spec

(* And while it has not ended, the task can go on or a thread is at work   *)
(* on the call it waits for: it never waits for an answer nobody will give.*)
THEOREM SomeoneGoesOn == Spec => [](phase # "ended" => TaskCan \/ ThreadCan)
<1>1. IInv => (phase # "ended" => TaskCan \/ ThreadCan)
  BY DEF IInv, Flags, Facts, Values, PhaseFits, TaskCan, ThreadCan
<1> QED
  BY <1>1, Inductive, PTL
=============================================================================

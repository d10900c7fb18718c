----------------------- MODULE HelperTransport_proofs -----------------------
(***************************************************************************)
(* Proofs about HelperTransport, for any number of requests, packages and  *)
(* events: type correctness; that mutations exclude each other; that what  *)
(* Home Assistant makes of a mutation is true of the guest; and that a     *)
(* plan, a Scan's result or a Health check's verdict was borne out by what *)
(* was seen of the guest; that each mutation is a MutationRequest; and     *)
(* that a helper process comes nearer to its end with every step.          *)
(***************************************************************************)
EXTENDS HelperTransport, TLAPS

USE BoundsAssumption, RequestsAssumption

-----------------------------------------------------------------------------
(***************************************************************************)
(* The commands of an operation.                                           *)
(***************************************************************************)
LEMMA OpsAre == Ops = {"scan", "plan", "cleanup", "update", "ping", "health"}
BY DEF Ops, Path

ScanPath    == {"target", "os", "refresh", "simulate", "inventory", "marker"}
PlanPath    == {"target", "simulate", "inventory"}
UpdatePath  == {"target", "before", "mutate", "apt", "after"}
PingPath    == {"target", "pong"}
HealthPath  == {"target", "exec", "read", "reread", "audit", "lock", "probe", "recheck"}

LEMMA Paths ==
  /\ DOMAIN Path["scan"] = ScanPath /\ DOMAIN Path["plan"] = PlanPath
  /\ DOMAIN Path["cleanup"] = PlanPath /\ DOMAIN Path["update"] = UpdatePath
  /\ DOMAIN Path["ping"] = PingPath /\ DOMAIN Path["health"] = HealthPath
BY DEF Path, ScanPath, PlanPath, UpdatePath, PingPath, HealthPath

LEMMA StepsAre ==
  Steps = ScanPath \cup PlanPath \cup UpdatePath \cup PingPath \cup HealthPath
            \cup {"recheck_exec"}
<1> DEFINE D(o) == DOMAIN Path[o]
<1>1. (UNION {D(o) : o \in Ops}) = D("scan") \cup D("plan") \cup D("cleanup") \cup D("update")
                                    \cup D("ping") \cup D("health")
  <2> HIDE DEF D
  <2> QED
    BY OpsAre
<1>2. Steps = (UNION {D(o) : o \in Ops}) \cup {"recheck_exec"}
  BY DEF Steps
<1> QED
  BY <1>1, <1>2, Paths

LEMMA ScanNext ==
  LET P == Path["scan"] IN
  /\ P["target"] = "os" /\ P["os"] = "refresh" /\ P["refresh"] = "simulate"
  /\ P["simulate"] = "inventory" /\ P["inventory"] = "marker" /\ P["marker"] = "answer"
BY DEF Path

LEMMA PlanNext ==
  /\ LET P == Path["plan"] IN
     P["target"] = "simulate" /\ P["simulate"] = "inventory" /\ P["inventory"] = "answer"
  /\ LET P == Path["cleanup"] IN
     P["target"] = "inventory" /\ P["inventory"] = "simulate" /\ P["simulate"] = "answer"
BY DEF Path

LEMMA UpdateNext ==
  LET P == Path["update"] IN
  /\ P["target"] = "before" /\ P["before"] = "mutate" /\ P["mutate"] = "apt"
  /\ P["apt"] = "after" /\ P["after"] = "answer"
BY DEF Path

LEMMA PingNext == Path["ping"]["target"] = "pong" /\ Path["ping"]["pong"] = "answer"
BY DEF Path

LEMMA HealthNext ==
  LET P == Path["health"] IN
  /\ P["target"] = "exec" /\ P["exec"] = "read" /\ P["read"] = "reread"
  /\ P["reread"] = "audit" /\ P["audit"] = "lock" /\ P["lock"] = "probe"
  /\ P["probe"] = "recheck" /\ P["recheck"] = "answer"
BY DEF Path

-----------------------------------------------------------------------------
(***************************************************************************)
(* What each process may be at.                                            *)
(***************************************************************************)
PathOf(o) == CASE o = "scan"   -> ScanPath   [] o = "plan" -> PlanPath
               [] o = "cleanup" -> PlanPath  [] o = "update" -> UpdatePath
               [] o = "ping"   -> PingPath
               [] OTHER -> HealthPath \cup {"recheck_exec"}

PcFits == \A c \in Calls : pc[c] \in PathOf(op[c]) \cup {"none", "sent", "ended"}

LEMMA PathOfType == \A o \in Ops : PathOf(o) \subseteq Steps
BY OpsAre, StepsAre DEF PathOf

LEMMA NoCommand == \A o : PathOf(o) \cap {"none", "sent", "ended"} = {}
BY DEF PathOf, ScanPath, PlanPath, UpdatePath, PingPath, HealthPath

(* The steps a process at s has left, at most, to its end.                 *)
Left(o, s) ==
  CASE s = "sent" -> 10 [] s = "target" -> 9
    [] s \in {"os", "exec", "before"} -> 8 [] s \in {"refresh", "read", "mutate"} -> 7
    [] s \in {"reread", "apt"} -> 6 [] s \in {"audit", "after"} -> 5
    [] s = "lock" -> 4 [] s = "probe" -> 3 [] s = "recheck" -> 2
    [] s = "simulate" -> IF o = "cleanup" THEN 2 ELSE 3
    [] s = "inventory" -> IF o = "cleanup" THEN 3 ELSE 2
    [] s \in {"marker", "pong", "recheck_exec"} -> 1
    [] OTHER -> 0

(* The next command is one of the same operation, or the answer.           *)
LEMMA NextCommand ==
  ASSUME NEW o \in Ops, NEW s \in PathOf(o), s # "recheck_exec"
  PROVE  \/ Path[o][s] = "answer"
         \/ Path[o][s] \in PathOf(o) /\ Left(o, Path[o][s]) < Left(o, s)
<1> USE DEF Left
<1>1. CASE o = "scan"
  BY <1>1, ScanNext DEF PathOf, ScanPath
<1>2. CASE o = "plan"
  BY <1>2, PlanNext DEF PathOf, PlanPath
<1>3. CASE o = "cleanup"
  BY <1>3, PlanNext DEF PathOf, PlanPath
<1>4. CASE o = "update"
  BY <1>4, UpdateNext DEF PathOf, UpdatePath
<1>5. CASE o = "ping"
  BY <1>5, PingNext DEF PathOf, PingPath
<1>6. CASE o = "health"
  BY <1>6, HealthNext DEF PathOf, HealthPath
<1> QED
  BY <1>1, <1>2, <1>3, <1>4, <1>5, <1>6, OpsAre

-----------------------------------------------------------------------------
(***************************************************************************)
(* What a process reads, and what each edit of it leaves alone.            *)
(***************************************************************************)
LEMMA UnreadType ==
  /\ Unread \in SeenType /\ Gone \in SeenType
  /\ [Unread EXCEPT !.exec = "failed"] \in SeenType
  /\ Unread.dpkg = "none" /\ Gone.dpkg = "none" /\ [Unread EXCEPT !.exec = "failed"].dpkg = "none"
  /\ Gone.exec = "gone"
<1>1. Unread \in SeenType
  BY 0 \in 0 .. MaxEvents DEF Unread, SeenType, Verdicts, Execs
<1>2. \A s \in SeenType, x \in Execs :
        LET e == [s EXCEPT !.exec = x] IN e \in SeenType /\ e.dpkg = s.dpkg /\ e.exec = x
  BY DEF SeenType
<1>3. Unread.dpkg = "none"
  BY DEF Unread
<1>4. {"gone", "failed"} \subseteq Execs
  BY DEF Execs
<1> QED
  BY <1>1, <1>2, <1>3, <1>4 DEF Gone

LEMMA Simulated ==
  ASSUME NEW s \in SeenType, NEW plan \in SUBSET Pkgs, NEW b \in BOOLEAN
  PROVE  LET e == [s EXCEPT !.plan = plan, !.sane = @ /\ b] IN
         e \in SeenType /\ e.dpkg = s.dpkg /\ (e.sane => b) /\ (e.sane => s.sane)
BY DEF SeenType

LEMMA Inventoried ==
  ASSUME NEW s \in SeenType, NEW newer \in SUBSET Pkgs, NEW b \in BOOLEAN
  PROVE  LET e == [s EXCEPT !.newer = newer, !.sane = @ /\ b] IN
         e \in SeenType /\ e.dpkg = s.dpkg /\ (e.sane => b) /\ (e.sane => s.sane)
BY DEF SeenType

LEMMA Judged ==
  ASSUME NEW s \in SeenType, NEW v \in Verdicts
  PROVE  [s EXCEPT !.dpkg = v] \in SeenType /\ [s EXCEPT !.dpkg = v].dpkg = v
BY DEF SeenType

LEMMA Halved ==
  ASSUME NEW s \in SeenType, NEW half \in SUBSET Pkgs
  PROVE  [s EXCEPT !.half = half] \in SeenType /\ [s EXCEPT !.half = half].dpkg = s.dpkg
BY DEF SeenType

LEMMA Reread ==
  ASSUME NEW s \in SeenType, NEW b \in BOOLEAN
  PROVE  [s EXCEPT !.persisted = b] \in SeenType /\ [s EXCEPT !.persisted = b].dpkg = s.dpkg
BY DEF SeenType

Heard(s, report, b, boot) == [s EXCEPT !.report = report, !.audited = b, !.boot = boot]

LEMMA Audited ==
  ASSUME NEW s \in SeenType, NEW report \in SUBSET Pkgs, NEW b \in BOOLEAN,
         NEW boot \in 0 .. MaxEvents
  PROVE  LET e == Heard(s, report, b, boot) IN
         e \in SeenType /\ e.dpkg = s.dpkg /\ e.report = report /\ e.audited = b
BY DEF SeenType, Heard

LEMMA Probed ==
  ASSUME NEW s \in SeenType, NEW b \in BOOLEAN
  PROVE  /\ [s EXCEPT !.reboot = b] \in SeenType /\ [s EXCEPT !.reboot = b].dpkg = s.dpkg
         /\ [s EXCEPT !.probed = b] \in SeenType /\ [s EXCEPT !.probed = b].dpkg = s.dpkg
BY DEF SeenType

-----------------------------------------------------------------------------
(***************************************************************************)
(* The shape of a step of a process: it starts, goes on, or exits.         *)
(***************************************************************************)
Replies == Failures \cup {"ok"}

Enters(c) == /\ pc[c] = "sent" /\ pc' = [pc EXCEPT ![c] = "target"]
             /\ flock = Nobody /\ flock' = c
             /\ UNCHANGED <<op, reply, seen>>

GoesOn(c) == /\ pc[c] \in PathOf(op[c])
             /\ \E s \in PathOf(op[c]), e \in SeenType :
                   Resume(c, s, e) /\ Left(op[c], s) < Left(op[c], pc[c])

Leaves(c)  == \E r \in Replies, e \in SeenType : Exit(c, r, e)

LEMMA SawShape ==
  ASSUME TypeOK, PcFits, NEW c \in Calls, pc[c] \in PathOf(op[c]), pc[c] # "recheck_exec",
         NEW e \in SeenType, Saw(c, e)
  PROVE  GoesOn(c) \/ Leaves(c)
<1>1. op[c] \in Ops
  BY DEF TypeOK, HelperTypeOK
<1>2. \/ Path[op[c]][pc[c]] = "answer"
      \/ /\ Path[op[c]][pc[c]] \in PathOf(op[c])
         /\ Left(op[c], Path[op[c]][pc[c]]) < Left(op[c], pc[c])
  BY <1>1, NextCommand
<1>3. CASE Path[op[c]][pc[c]] = "answer"
  <2>1. Exit(c, "ok", e)
    BY <1>3 DEF Saw, Report
  <2> QED
    BY <2>1 DEF Leaves, Replies
<1>4. CASE Path[op[c]][pc[c]] # "answer"
  <2>1. Resume(c, Path[op[c]][pc[c]], e)
    BY <1>4 DEF Saw
  <2> QED
    BY <1>2, <1>4, <2>1 DEF GoesOn
<1> QED
  BY <1>3, <1>4

LEMMA ContinuesShape ==
  ASSUME TypeOK, PcFits, NEW c \in Calls, pc[c] \in PathOf(op[c]), pc[c] # "recheck_exec",
         Continues(c)
  PROVE  GoesOn(c) \/ Leaves(c)
<1>1. seen[c] \in SeenType /\ Saw(c, seen[c])
  BY DEF Continues, TypeOK, HelperTypeOK
<1> QED
  BY <1>1, SawShape

LEMMA AnswerShape ==
  ASSUME NEW c \in Calls, NEW r \in Replies, Answer(c, r)
  PROVE  Leaves(c)
BY UnreadType DEF Answer, Leaves

LEMMA FailsShape ==
  ASSUME NEW c \in Calls, NEW failures \in SUBSET Replies, Fails(c, failures)
  PROVE  Leaves(c)
BY AnswerShape DEF Fails

(* A process at a command is at one of its own operation.                  *)
LEMMA LiveAt ==
  ASSUME TypeOK, PcFits, NEW c \in Calls, pc[c] \notin {"none", "sent", "ended"}
  PROVE  pc[c] \in PathOf(op[c])
BY DEF PcFits

LEMMA IsLive ==
  ASSUME TypeOK, PcFits, NEW c \in Calls
  PROVE  Live(c) <=> pc[c] \notin {"none", "sent", "ended"}
<1>1. op[c] \in Ops
  BY DEF TypeOK, HelperTypeOK
<1>2. pc[c] \in PathOf(op[c]) \cup {"none", "sent", "ended"} /\ PathOf(op[c]) \subseteq Steps
  BY <1>1, PathOfType DEF PcFits
<1>3. Steps \cap {"none", "sent", "ended"} = {}
  BY StepsAre DEF ScanPath, PlanPath, UpdatePath, PingPath, HealthPath
<1> QED
  BY <1>2, <1>3 DEF Live

LEMMA HealthAt ==
  ASSUME TypeOK, PcFits, NEW c \in Calls,
         pc[c] \in {"exec", "read", "reread", "audit", "lock", "probe", "recheck", "recheck_exec"}
  PROVE  /\ op[c] = "health"
         /\ {"probe", "recheck", "recheck_exec", "reread", "audit", "lock"} \subseteq PathOf(op[c])
         /\ pc[c] \in {"exec", "read"} =>
              \A s \in {"probe", "reread", "audit", "recheck_exec"} :
                Left(op[c], s) < Left(op[c], pc[c])
         /\ pc[c] \in {"audit", "lock"} => Left(op[c], "probe") < Left(op[c], pc[c])
         /\ Left(op[c], "recheck") < Left(op[c], "probe")
BY OpsAre, SMT DEF PcFits, PathOf, TypeOK, HelperTypeOK, ScanPath, PlanPath, UpdatePath, PingPath,
                   HealthPath, Left

LEMMA PkgSets ==
  /\ Upgradable \in SUBSET Pkgs /\ Pkgs \ Upgradable \in SUBSET Pkgs
  /\ Half \in SUBSET Pkgs /\ (Unfinished = {}) \in BOOLEAN
BY DEF Upgradable, Half

LEMMA LooksShape ==
  ASSUME TypeOK, PcFits, NEW c \in Calls, Looks(c)
  PROVE  Enters(c) \/ GoesOn(c) \/ Leaves(c)
<1>0. seen[c] \in SeenType /\ stops \in 0 .. MaxEvents
  BY DEF TypeOK, HelperTypeOK, GuestTypeOK
<1> USE DEF At
<1>1. CASE Begins(c)
  BY <1>1, AnswerShape DEF Begins, Enters, Replies, Failures
<1>2. CASE Target(c)
  BY <1>2, FailsShape, ContinuesShape, LiveAt DEF Target, Replies, Failures
<1>3. CASE Os(c)
  BY <1>3, AnswerShape, ContinuesShape, LiveAt DEF Os, Replies, Failures
<1>4. CASE Refreshes(c)
  BY <1>4, FailsShape, ContinuesShape, LiveAt DEF Refreshes, Replies, Failures
<1>5. CASE Marker(c)
  BY <1>5, ContinuesShape, LiveAt DEF Marker
<1>6. CASE Simulates(c)
  <2>1. [seen[c] EXCEPT !.plan = Upgradable, !.sane = @ /\ Unfinished = {}] \in SeenType
    BY <1>0, PkgSets, Simulated
  <2> QED
    BY <1>6, <2>1, FailsShape, SawShape, LiveAt DEF Simulates, Replies, Failures
<1>7. CASE Inventory(c)
  <2>1. [seen[c] EXCEPT !.newer = Pkgs \ Upgradable, !.sane = @ /\ Unfinished = {}] \in SeenType
    BY <1>0, PkgSets, Inventoried
  <2> QED
    BY <1>7, <2>1, AnswerShape, SawShape, LiveAt DEF Inventory, Replies, Failures
<1>8. CASE Sanity(c)
  BY <1>8, AnswerShape, ContinuesShape, LiveAt DEF Sanity, Replies, Failures
<1>9. CASE AptReturns(c)
  BY <1>9, AnswerShape, FailsShape, ContinuesShape, LiveAt DEF AptReturns, Replies, Failures
<1>10. CASE Pong(c)
  BY <1>10, AnswerShape, ContinuesShape, LiveAt DEF Pong, Replies, Failures
<1>11. CASE Exec(c)
  BY <1>0, <1>11, ContinuesShape, LiveAt, HealthAt DEF Exec, GoesOn
<1>12. CASE RecheckExec(c)
  BY <1>12, UnreadType DEF RecheckExec, Report, Leaves, Replies
<1>13. CASE Reads(c)
  <2>1. /\ [seen[c] EXCEPT !.dpkg = "ok"] \in SeenType
        /\ [seen[c] EXCEPT !.half = Half] \in SeenType
    BY <1>0, PkgSets, Judged, Halved DEF Verdicts
  <2> QED
    BY <1>0, <1>13, <2>1, FailsShape, LiveAt, HealthAt DEF Reads, GoesOn, Replies, Failures
<1>14. CASE Rereads(c)
  <2>1. [seen[c] EXCEPT !.persisted = seen[c].half \subseteq Half] \in SeenType
    BY <1>0, Reread
  <2> QED
    BY <1>14, <2>1, FailsShape, SawShape, LiveAt DEF Rereads, Replies, Failures
<1>15. CASE AuditReads(c)
  <2> DEFINE b == Unfinished # {}
  <2>1. b \in BOOLEAN /\ Heard(seen[c], Half, b, stops)
                         = [seen[c] EXCEPT !.report = Half, !.audited = b, !.boot = stops]
    BY DEF Heard
  <2>2. Saw(c, Heard(seen[c], Half, b, stops))
    BY <1>15, <2>1 DEF AuditReads
  <2> HIDE DEF b
  <2>3. Heard(seen[c], Half, b, stops) \in SeenType
    BY <1>0, <2>1, PkgSets, Audited
  <2> QED
    BY <1>15, <2>2, <2>3, SawShape, LiveAt DEF AuditReads
<1>16. CASE AuditTests(c)
  <2>1. [seen[c] EXCEPT !.dpkg = Verdict(seen[c])] \in SeenType
    BY <1>0, Judged DEF Verdict, Verdicts
  <2> QED
    BY <1>16, <2>1, SawShape, LiveAt DEF AuditTests
<1>17. CASE AuditFails(c)
  <2>1. [seen[c] EXCEPT !.dpkg = "lock_unknown"] \in SeenType
    BY <1>0, Judged DEF Verdicts
  <2> QED
    BY <1>17, <2>1, HealthAt DEF AuditFails, GoesOn
<1>18. CASE Probes(c)
  <2>1. /\ [seen[c] EXCEPT !.reboot = TRUE] \in SeenType
        /\ \A b \in BOOLEAN : [seen[c] EXCEPT !.probed = b] \in SeenType
    BY <1>0, Probed
  <2>2. running \in BOOLEAN
    BY DEF TypeOK, GuestTypeOK
  <2> QED
    BY <1>18, <2>1, <2>2, HealthAt DEF Probes, Report, GoesOn, Leaves, Replies
<1>19. CASE Rechecks(c)
  BY <1>0, <1>19, UnreadType, AnswerShape DEF Rechecks, Report, Leaves, Replies, Failures
<1> QED
  BY <1>1, <1>2, <1>3, <1>4, <1>5, <1>6, <1>7, <1>8, <1>9, <1>10, <1>11, <1>12, <1>13,
     <1>14, <1>15, <1>16, <1>17, <1>18, <1>19 DEF Looks

-----------------------------------------------------------------------------
(***************************************************************************)
(* The steps, by what they do to the guest and to one request.             *)
(***************************************************************************)
(* Home Assistant's side of one request; the guest is left alone.          *)
Side(c) == Call(c) \/ Delivered(c) \/ TimesOut(c) \/ SessionLost(c) \/ NeverArrives(c)

LEMMA SomeStep ==
  ASSUME Next
  PROVE  \/ \E c \in Calls : Side(c)
         \/ \E c \in Calls : Works(c) /\ UNCHANGED outcome
         \/ \E c \in Calls : Dies(c) /\ UNCHANGED outcome
         \/ GuestStep /\ UNCHANGED <<helperVars, outcome>>
BY DEF Next, Side, HelperStep

(* A process that works starts, goes on, or exits.                         *)
LEMMA WorksShape ==
  ASSUME TypeOK, PcFits, NEW c \in Calls, Works(c)
  PROVE  Enters(c) \/ GoesOn(c) \/ Leaves(c)
<1>1. CASE Looks(c)
  BY <1>1, LooksShape
<1>2. CASE Mutates(c)
  BY <1>2, AnswerShape, ContinuesShape, LiveAt DEF Mutates, At, Replies, Failures
<1>3. CASE CommandFails(c)
  <2>1. Shielded(c) => pc[c] \in PathOf(op[c]) /\ pc[c] # "recheck_exec"
    BY LiveAt DEF Shielded, At
  <2> QED
    BY <1>3, <2>1, AnswerShape, ContinuesShape DEF CommandFails, Replies, Failures
<1> QED
  BY <1>1, <1>2, <1>3 DEF Works

(* It leaves the other requests alone.                                     *)
Others(c) == \A d \in Calls \ {c} :
  pc'[d] = pc[d] /\ reply'[d] = reply[d] /\ seen'[d] = seen[d] /\ outcome'[d] = outcome[d]

LEMMA WorksOthers ==
  ASSUME TypeOK, PcFits, NEW c \in Calls, Works(c) /\ UNCHANGED outcome
  PROVE  Others(c) /\ op' = op
BY WorksShape DEF Enters, GoesOn, Leaves, Resume, Exit, Others, TypeOK, HelperTypeOK

LEMMA SideOthers ==
  ASSUME TypeOK, NEW c \in Calls, Side(c)
  PROVE  Others(c) /\ op' = op /\ UNCHANGED <<guestVars, flock, reply, seen>>
BY DEF Side, Call, Delivered, TimesOut, SessionLost, NeverArrives, Returns, helperVars, Others,
       TypeOK, HelperTypeOK

LEMMA DiesOthers ==
  ASSUME TypeOK, NEW c \in Calls, Dies(c) /\ UNCHANGED outcome
  PROVE  Others(c) /\ op' = op
BY DEF Dies, Others, TypeOK, HelperTypeOK

-----------------------------------------------------------------------------
(***************************************************************************)
(* Type correctness.                                                       *)
(***************************************************************************)
Bounded == stops <= events

LEMMA OwnersAre == Owners = Calls \cup {Nobody, Admin} /\ Nobody \notin Calls /\ Admin \notin Calls
BY DEF Owners, Calls, Nobody, Admin

LEMMA OverType ==
  ASSUME TypeOK, NEW o, NEW r \in AptStates
  PROVE  Over(o, r) \in [Calls -> AptStates]
BY DEF Over, TypeOK, GuestTypeOK

LEMMA AptStartsType ==
  ASSUME TypeOK, Bounded, NEW c \in Calls, AptStarts(c)
  PROVE  GuestTypeOK' /\ Bounded'
BY OwnersAre DEF AptStarts, TypeOK, GuestTypeOK, Bounded, AptStates

LEMMA SeveredType ==
  ASSUME TypeOK, Bounded, NEW c \in Calls, Severed(c)
  PROVE  GuestTypeOK' /\ Bounded'
<1>1. Over(c, "failed") \in [Calls -> AptStates] /\ Nobody \in Owners
  BY OverType, OwnersAre DEF AptStates
<1> QED
  BY <1>1 DEF Severed, guestVars, TypeOK, GuestTypeOK, Bounded

LEMMA GuestStepType ==
  ASSUME TypeOK, Bounded, GuestStep
  PROVE  GuestTypeOK' /\ Bounded'
<1> USE DEF TypeOK, GuestTypeOK, Bounded
<1>1. CASE AdminStarts
  BY <1>1, OwnersAre DEF AdminStarts, Event
<1>2. CASE DpkgStarts
  BY <1>2 DEF DpkgStarts
<1>3. CASE DpkgWorks
  <2>1. db' \in [Pkgs -> [status : Statuses, version : 0..MaxVersion]]
    BY <1>3 DEF DpkgWorks, Begin, Unpack, Configure, Statuses
  <2> QED
    BY <1>3, <2>1 DEF DpkgWorks
<1>4. CASE DpkgEnds
  BY <1>4 DEF DpkgEnds
<1>5. CASE AptEnds
  BY <1>5, OwnersAre, OverType DEF AptEnds, AptStates
<1>6. CASE AptFails
  BY <1>6, OwnersAre, OverType DEF AptFails, AptStates
<1>7. CASE Stop
  <2>1. Over(frontend, "failed") \in [Calls -> AptStates] /\ Nobody \in Owners
    BY OverType, OwnersAre DEF AptStates
  <2>2. events' \in 0 .. MaxEvents /\ stops' \in 0 .. MaxEvents /\ stops' <= events'
    BY <1>7 DEF Stop, Event
  <2> QED
    BY <1>7, <2>1, <2>2 DEF Stop
<1>8. CASE Start
  BY <1>8 DEF Start
<1> QED
  BY <1>1, <1>2, <1>3, <1>4, <1>5, <1>6, <1>7, <1>8 DEF GuestStep

LEMMA WorksGuest ==
  ASSUME TypeOK, Bounded, NEW c \in Calls, Works(c)
  PROVE  GuestTypeOK' /\ Bounded'
<1>1. CASE UNCHANGED guestVars
  BY <1>1 DEF guestVars, TypeOK, GuestTypeOK, Bounded
<1> QED
  BY <1>1, AptStartsType, SeveredType DEF Works, Mutates, CommandFails

LEMMA ShapeType ==
  ASSUME TypeOK, PcFits, NEW c \in Calls, Enters(c) \/ GoesOn(c) \/ Leaves(c)
  PROVE  HelperTypeOK' /\ PcFits'
<1>0. op \in [Calls -> Ops] /\ PathOf(op[c]) \subseteq Steps /\ "target" \in PathOf(op[c])
  <2>1. op \in [Calls -> Ops]
    BY DEF TypeOK, HelperTypeOK
  <2> QED
    BY <2>1, PathOfType, OpsAre DEF PathOf, ScanPath, PlanPath, UpdatePath, PingPath, HealthPath
<1>1. CASE Enters(c)
  BY <1>0, <1>1 DEF Enters, TypeOK, HelperTypeOK, PcFits
<1>2. CASE GoesOn(c)
  BY <1>0, <1>2 DEF GoesOn, Resume, TypeOK, HelperTypeOK, PcFits
<1>3. CASE Leaves(c)
  BY <1>0, <1>3 DEF Leaves, Exit, Replies, TypeOK, HelperTypeOK, PcFits
<1> QED
  BY <1>1, <1>2, <1>3

LEMMA OutcomeTypes ==
  ASSUME TypeOK, NEW c \in Calls
  PROVE  /\ reply[c] # "none" => Outcome(c) \in Outcomes
         /\ TimeoutOutcome[op[c]] \in Outcomes /\ LostOutcome[op[c]] \in Outcomes
<1>0. op[c] \in {"scan", "plan", "cleanup", "update", "ping", "health"}
  BY OpsAre DEF TypeOK, HelperTypeOK
<1>1. /\ PlanOutcome(c) \in Mutation /\ MutationOutcome(c) \in Mutation
      /\ PingOutcome(c) \in Mutation /\ ScanOutcome(c) \in Scan /\ HealthOutcome(c) \in Health
  BY DEF PlanOutcome, MutationOutcome, PingOutcome, ScanOutcome, HealthOutcome, Mutation, Scan,
         Health
<1>2. Outcome(c) \in Outcomes
  BY <1>0, <1>1 DEF Outcome, Outcomes
<1>3. TimeoutOutcome[op[c]] \in Outcomes /\ LostOutcome[op[c]] \in Outcomes
  BY <1>0 DEF TimeoutOutcome, LostOutcome, Outcomes, Mutation, Scan, Health
<1> QED
  BY <1>2, <1>3

LEMMA SideType ==
  ASSUME TypeOK, Bounded, PcFits, NEW c \in Calls, Side(c)
  PROVE  /\ GuestTypeOK' /\ HelperTypeOK' /\ Bounded' /\ PcFits'
         /\ outcome' \in [Calls -> Outcomes \cup {"idle", "waiting"}]
<1>1. outcome' \in [Calls -> Outcomes \cup {"idle", "waiting"}]
  BY OutcomeTypes DEF Side, Call, Delivered, TimesOut, SessionLost, NeverArrives, Returns, TypeOK
<1>2. pc' = pc \/ pc' = [pc EXCEPT ![c] = "sent"] \/ pc' = [pc EXCEPT ![c] = "ended"]
  BY DEF Side, Call, Delivered, TimesOut, SessionLost, NeverArrives, helperVars
<1>3. op' = op /\ UNCHANGED <<guestVars, flock, reply, seen>>
  BY SideOthers
<1> QED
  BY <1>1, <1>2, <1>3 DEF TypeOK, GuestTypeOK, HelperTypeOK, guestVars, Bounded, PcFits

LEMMA ObserveType ==
  ASSUME TypeOK, Observe
  PROVE  held' \in [Calls -> SUBSET Facts]
BY DEF Observe, Now, Ends, Facts, TypeOK

Typed == TypeOK /\ Bounded /\ PcFits

LEMMA InitTyped == Init => Typed
<1> SUFFICES ASSUME Init PROVE Typed
  OBVIOUS
<1>1. GuestTypeOK /\ Bounded
  <2>1. db \in [Pkgs -> [status : Statuses, version : 0..MaxVersion]]
    BY DEF Init, GuestInit, Statuses
  <2>2. apt \in [Calls -> AptStates] /\ Nobody \in Owners
    BY OwnersAre DEF Init, GuestInit, AptStates
  <2>3. events \in 0 .. MaxEvents /\ stops \in 0 .. MaxEvents /\ stops <= events
    BY DEF Init, GuestInit, BoundsAssumption
  <2> QED
    BY <2>1, <2>2, <2>3 DEF Init, GuestInit, GuestTypeOK, Bounded
<1>2. HelperTypeOK
  BY UnreadType DEF Init, HelperInit, HelperTypeOK
<1> QED
  BY <1>1, <1>2 DEF Typed, Init, HelperInit, TypeOK, PcFits

LEMMA NextTyped == Typed /\ [Next]_vars => Typed'
<1> SUFFICES ASSUME Typed, [Next]_vars PROVE Typed'
  OBVIOUS
<1> USE DEF Typed
<1>1. CASE UNCHANGED vars
  BY <1>1 DEF vars, guestVars, helperVars, TypeOK, GuestTypeOK, HelperTypeOK, Bounded, PcFits
<1>2. CASE Next
  <2>0. held' \in [Calls -> SUBSET Facts]
    BY <1>2, ObserveType DEF Next
  <2>1. ASSUME NEW c \in Calls, Side(c) PROVE Typed'
    BY <2>0, <2>1, SideType DEF TypeOK
  <2>2. ASSUME NEW c \in Calls, Works(c) /\ UNCHANGED outcome PROVE Typed'
    <3>1. GuestTypeOK' /\ Bounded'
      BY <2>2, WorksGuest
    <3>2. HelperTypeOK' /\ PcFits'
      BY <2>2, WorksShape, ShapeType
    <3> QED
      BY <2>0, <2>2, <3>1, <3>2 DEF TypeOK
  <2>3. ASSUME NEW c \in Calls, Dies(c) /\ UNCHANGED outcome PROVE Typed'
    <3>1. GuestTypeOK' /\ Bounded'
      BY <2>3 DEF Dies, Event, TypeOK, GuestTypeOK, Bounded
    <3>2. HelperTypeOK' /\ PcFits'
      BY <2>3, UnreadType DEF Dies, TypeOK, HelperTypeOK, PcFits
    <3> QED
      BY <2>0, <2>3, <3>1, <3>2 DEF TypeOK
  <2>4. CASE GuestStep /\ UNCHANGED <<helperVars, outcome>>
    <3>1. GuestTypeOK' /\ Bounded'
      BY <2>4, GuestStepType
    <3> QED
      BY <2>0, <2>4, <3>1 DEF helperVars, TypeOK, HelperTypeOK, PcFits
  <2> QED
    BY <1>2, <2>1, <2>2, <2>3, <2>4, SomeStep
<1> QED
  BY <1>1, <1>2

(* Type correctness, and where each process may be.                        *)
THEOREM HelperTypes == Spec => []Typed
BY InitTyped, NextTyped, PTL DEF Spec

-----------------------------------------------------------------------------
(***************************************************************************)
(* Mutations.  The flock ties a process at a command to the guest, and the *)
(* frontend lock ties the apt of a request to its process: it works while  *)
(* the process is at "apt", or after the process was cut off from it.      *)
(***************************************************************************)
CutOff == {"none", "timeout", "execution_failed"}

AptFits == \A c \in Calls :
  /\ frontend = c <=> apt[c] = "running"
  /\ outcome[c] = "idle" <=> pc[c] = "none"
  /\ reply[c] # "none" => pc[c] = "ended"
  /\ pc[c] \notin {"none", "sent", "ended"} => flock = c
  /\ apt[c] # "no" => op[c] = "update" /\ pc[c] \in {"apt", "after", "ended"}
  /\ pc[c] = "after" => apt[c] = "ok"
  /\ apt[c] = "running" => pc[c] = "apt" \/ (pc[c] = "ended" /\ reply[c] \in CutOff)

LEMMA InitAptFits == Init => AptFits
BY OwnersAre DEF Init, GuestInit, HelperInit, AptFits

(* What a process of an Update may do next, apart from Mutates.            *)
UpdateLook(c) ==
  \/ Enters(c)
  \/ /\ pc[c] = "sent"
     /\ Fails(c, {"unknown_operation", "execution_failed", "package_manager_busy"})
  \/ /\ pc[c] = "target"
     /\ Resume(c, "before", seen[c]) \/ Fails(c, {"identity_mismatch", "guest_unavailable"})
  \/ /\ pc[c] = "before"
     /\ Resume(c, "mutate", seen[c]) \/ Fails(c, {"dpkg_unfinished", "execution_failed"})
  \/ /\ pc[c] = "apt" /\ apt[c] # "running"
     /\ \/ apt[c] = "ok" /\ Resume(c, "after", seen[c])
        \/ apt[c] # "ok" /\ Fails(c, {"mutation_failed", "package_manager_busy"})
  \/ /\ pc[c] = "after"
     /\ \/ Unfinished = {} /\ Report(c, seen[c])
        \/ Fails(c, {"dpkg_unfinished", "execution_failed"})

LEMMA UpdateLooks ==
  ASSUME Typed, NEW c \in Calls, op[c] = "update", Looks(c)
  PROVE  UpdateLook(c)
<1>1. pc[c] \in {"target", "before", "mutate", "apt", "after", "none", "sent", "ended"}
  BY DEF Typed, PcFits, PathOf, UpdatePath
<1>2. Begins(c) \/ Target(c) \/ Sanity(c) \/ AptReturns(c)
  BY <1>1 DEF Looks, Os, Refreshes, Marker, Simulates, Inventory, Pong, Exec, RecheckExec, Reads,
              Rereads, AuditReads, AuditTests, AuditFails, Probes, Rechecks, At
<1>3. CASE Begins(c)
  BY <1>3 DEF Begins, UpdateLook, Enters, Fails, At
<1>4. CASE Target(c)
  <2>1. Continues(c) => Resume(c, "before", seen[c])
    BY <1>4, UpdateNext DEF Target, At, Continues, Saw
  <2> QED
    BY <1>4, <2>1 DEF Target, UpdateLook, At
<1>5. CASE Sanity(c)
  <2>1. CASE pc[c] = "before"
    <3>1. Continues(c) => Resume(c, "mutate", seen[c])
      BY <2>1, UpdateNext DEF Continues, Saw
    <3> QED
      BY <1>5, <2>1, <3>1 DEF Sanity, UpdateLook, Fails
  <2>2. CASE pc[c] = "after"
    <3>1. Continues(c) => Report(c, seen[c])
      BY <2>2, UpdateNext DEF Continues, Saw
    <3> QED
      BY <1>5, <2>2, <3>1 DEF Sanity, UpdateLook, Fails
  <2> QED
    BY <1>5, <2>1, <2>2 DEF Sanity, At
<1>6. CASE AptReturns(c)
  <2>1. Continues(c) => Resume(c, "after", seen[c])
    BY <1>6, UpdateNext DEF AptReturns, At, Continues, Saw
  <2> QED
    BY <1>6, <2>1 DEF AptReturns, UpdateLook, Fails, At
<1> QED
  BY <1>2, <1>3, <1>4, <1>5, <1>6

LEMMA MutatesAt ==
  ASSUME Typed, NEW c \in Calls, Mutates(c)
  PROVE  /\ op[c] = "update" /\ pc[c] = "mutate"
         /\ \/ AptStarts(c) /\ Resume(c, "apt", seen[c])
            \/ UNCHANGED guestVars /\ Answer(c, "mutation_failed")
<1>1. op[c] = "update"
  BY OpsAre DEF Mutates, At, Typed, TypeOK, HelperTypeOK, PcFits, PathOf, ScanPath, PlanPath,
                PingPath, HealthPath
<1>2. Continues(c) => Resume(c, "apt", seen[c])
  BY <1>1, UpdateNext DEF Mutates, At, Continues, Saw
<1> QED
  BY <1>1, <1>2 DEF Mutates, At

(* A command that fails ends its process, unless it is a Health check's.   *)
LEMMA FailsAt ==
  ASSUME Typed, NEW c \in Calls, CommandFails(c)
  PROVE  /\ pc[c] \notin {"none", "sent", "ended"}
         /\ IF pc[c] = "apt" THEN Severed(c) ELSE UNCHANGED guestVars
         /\ \/ Fails(c, {"timeout", "execution_failed"})
            \/ /\ op[c] = "health" /\ pc[c] = "probe" /\ seen[c].dpkg = "interrupted"
               /\ Resume(c, "recheck", seen[c])
<1>1. pc[c] \notin {"none", "sent", "ended"}
  BY IsLive DEF CommandFails, Typed
<1>2. CASE Shielded(c) /\ Continues(c)
  <2>1. op[c] = "health" /\ pc[c] = "probe"
    BY <1>2, HealthAt DEF Shielded, At, Typed
  <2>2. Resume(c, "recheck", seen[c])
    BY <1>2, <2>1, HealthNext DEF Continues, Saw
  <2> QED
    BY <1>1, <1>2, <2>1, <2>2 DEF CommandFails, Shielded, At
<1> QED
  BY <1>1, <1>2 DEF CommandFails, Fails, At

(* The apt of a request changes only when its owner has the frontend lock, *)
(* or when its process starts it.                                          *)
LEMMA GuestApt ==
  ASSUME Typed, GuestStep
  PROVE  /\ \A c \in Calls : apt'[c] = apt[c] \/ (frontend = c /\ apt'[c] \in {"ok", "failed"}
                                                   /\ frontend' # c)
         /\ \A c \in Calls : frontend' = c => frontend = c
         /\ \A c \in Calls : frontend = c /\ apt'[c] = "running" => frontend' = c
BY OwnersAre DEF GuestStep, AdminStarts, DpkgStarts, DpkgWorks, DpkgEnds, AptEnds, AptFails, Stop,
                 Start, Over, Typed, TypeOK, GuestTypeOK

LEMMA SeveredApt ==
  ASSUME Typed, NEW c \in Calls, Severed(c)
  PROVE  \/ UNCHANGED <<frontend, apt>>
         \/ /\ frontend = c /\ frontend' = Nobody /\ apt'[c] = "failed"
            /\ \A d \in Calls \ {c} : apt'[d] = apt[d]
BY DEF Severed, guestVars, Over, Typed, TypeOK, GuestTypeOK

LEMMA SideFits ==
  ASSUME Typed, AptFits, NEW c \in Calls, Side(c)
  PROVE  AptFits'
<1>1. UNCHANGED <<op, frontend, apt, flock, reply>>
  BY SideOthers DEF Typed, guestVars
<1>2. ASSUME NEW d \in Calls, d # c
      PROVE  pc'[d] = pc[d] /\ outcome'[d] = outcome[d]
  BY <1>2, SideOthers DEF Others, Typed
<1>3. \/ pc[c] = "none" /\ pc'[c] = "sent" /\ outcome'[c] = "waiting"
      \/ pc[c] = "sent" /\ pc'[c] = "ended" /\ outcome'[c] = outcome[c]
      \/ pc'[c] = pc[c] /\ outcome[c] = "waiting" /\ outcome'[c] # "idle"
  <2>1. "idle" \notin Outcomes
    BY DEF Outcomes, Mutation, Scan, Health
  <2>2. pc \in [Calls -> Steps \cup {"none", "sent", "ended"}] /\ outcome \in [Calls -> Outcomes \cup {"idle", "waiting"}]
    BY DEF Typed, TypeOK, HelperTypeOK
  <2>3. /\ reply[c] # "none" => Outcome(c) # "idle"
        /\ TimeoutOutcome[op[c]] # "idle" /\ LostOutcome[op[c]] # "idle"
    BY <2>1, OutcomeTypes DEF Typed
  <2>4. CASE Call(c)
    BY <2>2, <2>4 DEF Call, AptFits
  <2>5. CASE Delivered(c) \/ TimesOut(c) \/ SessionLost(c)
    BY <2>2, <2>3, <2>5 DEF Delivered, TimesOut, SessionLost, Returns, helperVars
  <2>6. CASE NeverArrives(c)
    BY <2>2, <2>6 DEF NeverArrives
  <2> QED
    BY <2>4, <2>5, <2>6 DEF Side
<1> QED
  BY <1>1, <1>2, <1>3 DEF AptFits

(* A step that leaves the guest alone, of a process that starts, goes on   *)
(* or exits, and whose apt is over when it has left "apt".                 *)
LEMMA ShapeFits ==
  ASSUME Typed, AptFits, NEW c \in Calls, Enters(c) \/ GoesOn(c) \/ Leaves(c),
         UNCHANGED <<op, frontend, apt, outcome>>, pc[c] \notin {"none", "ended"},
         apt[c] # "no" => pc'[c] \in {"apt", "after", "ended"},
         pc'[c] = "after" => apt[c] = "ok",
         apt[c] = "running" => pc'[c] = "apt" \/ (pc'[c] = "ended" /\ reply'[c] \in CutOff)
  PROVE  AptFits'
<1>0. pc \in [Calls -> Steps \cup {"none", "sent", "ended"}]
        /\ reply \in [Calls -> Failures \cup {"none", "ok"}] /\ "target" \in PathOf(op[c])
        /\ Nobody \notin Calls
  BY OpsAre, OwnersAre DEF Typed, TypeOK, HelperTypeOK, PathOf, ScanPath, PlanPath, UpdatePath,
                           PingPath, HealthPath
<1>1. /\ \A d \in Calls \ {c} : pc'[d] = pc[d] /\ reply'[d] = reply[d]
      /\ \A d \in Calls \ {c} : flock = d => flock' = d \/ pc[d] \in {"none", "sent", "ended"}
      /\ pc'[c] # "none" /\ (reply'[c] # "none" => pc'[c] = "ended")
      /\ pc'[c] \notin {"none", "sent", "ended"} => flock' = c
  <2>1. CASE Enters(c)
    BY <1>0, <2>1 DEF Enters, AptFits
  <2>2. CASE GoesOn(c)
    <3>1. PICK s \in PathOf(op[c]), e \in SeenType : Resume(c, s, e)
      BY <2>2 DEF GoesOn
    <3>2. s \notin {"none", "sent", "ended"} /\ pc[c] \notin {"none", "sent", "ended"}
      BY <2>2, NoCommand DEF GoesOn
    <3> QED
      BY <1>0, <3>1, <3>2 DEF Resume, AptFits
  <2>3. CASE Leaves(c)
    BY <1>0, <2>3 DEF Leaves, Exit, AptFits
  <2> QED
    BY <2>1, <2>2, <2>3
<1> QED
  BY <1>1 DEF AptFits

LEMMA LooksFits ==
  ASSUME Typed, AptFits, NEW c \in Calls, Looks(c), UNCHANGED <<guestVars, outcome>>
  PROVE  AptFits'
<1>1. (Enters(c) \/ GoesOn(c) \/ Leaves(c)) /\ UNCHANGED <<op, frontend, apt, outcome>>
  BY LooksShape DEF Typed, guestVars, Enters, GoesOn, Leaves, Resume, Exit
<1>2. pc[c] \notin {"none", "ended"} /\ pc \in [Calls -> Steps \cup {"none", "sent", "ended"}]
  BY DEF Looks, Begins, Target, Os, Refreshes, Marker, Simulates, Inventory, Sanity, AptReturns,
         Pong, Exec, RecheckExec, Reads, Rereads, AuditReads, AuditTests, AuditFails, Probes,
         Rechecks, At, Typed, TypeOK, HelperTypeOK
<1>3. CASE op[c] # "update"
  <2>1. pc'[c] # "after"
    BY <1>1, <1>2, <1>3, ShapeType
    DEF Typed, PcFits, PathOf, ScanPath, PlanPath, PingPath, HealthPath
  <2> QED
    BY <1>1, <1>2, <1>3, <2>1, ShapeFits DEF AptFits
<1>4. CASE op[c] = "update"
  <2>1. UpdateLook(c)
    BY <1>4, UpdateLooks
  <2>2. \A r \in Failures : Answer(c, r) => pc'[c] = "ended" /\ reply'[c] = r
    BY <1>2 DEF Answer, Exit, Typed, TypeOK, HelperTypeOK
  <2>3. pc[c] = "apt" => pc'[c] \in {"after", "ended"} /\ apt[c] # "running"
                           /\ (pc'[c] = "after" => apt[c] = "ok")
    BY <1>2, <2>1, <2>2 DEF UpdateLook, Enters, Fails, Resume, Failures
  <2>4. pc[c] = "after" => pc'[c] = "ended"
    BY <1>2, <2>1, <2>2 DEF UpdateLook, Enters, Fails, Report, Exit, Failures
  <2>5. pc[c] \notin {"apt", "after"} => pc'[c] # "after"
    BY <1>2, <2>1, <2>2 DEF UpdateLook, Enters, Fails, Resume, Failures
  <2>6. /\ apt[c] # "no" => pc[c] \in {"apt", "after"}
        /\ apt[c] = "running" => pc[c] = "apt"
    BY <1>2 DEF AptFits
  <2> QED
    BY <1>1, <1>2, <2>3, <2>4, <2>5, <2>6, ShapeFits
<1> QED
  BY <1>3, <1>4

LEMMA MutatesFits ==
  ASSUME Typed, AptFits, NEW c \in Calls, Mutates(c), UNCHANGED outcome
  PROVE  AptFits'
<1>1. op[c] = "update" /\ pc[c] = "mutate" /\ apt[c] = "no" /\ frontend # c
  BY MutatesAt DEF AptFits
<1>2. /\ pc \in [Calls -> Steps \cup {"none", "sent", "ended"}] /\ apt \in [Calls -> AptStates]
      /\ Nobody \notin Calls
  BY OwnersAre DEF Typed, TypeOK, HelperTypeOK, GuestTypeOK
<1>3. CASE AptStarts(c) /\ Resume(c, "apt", seen[c])
  <2>1. /\ UNCHANGED <<op, flock, reply>> /\ pc'[c] = "apt" /\ \A d \in Calls \ {c} : pc'[d] = pc[d]
        /\ \A d \in Calls \ {c} : apt'[d] = apt[d]
    BY <1>2, <1>3 DEF Resume, AptStarts
  <2>2. \/ frontend = Nobody /\ frontend' = c /\ apt'[c] = "running"
        \/ frontend' = frontend /\ apt'[c] = "busy"
    BY <1>2, <1>3 DEF AptStarts
  <2> QED
    BY <1>1, <1>2, <2>1, <2>2 DEF AptFits
<1>4. CASE UNCHANGED guestVars /\ Answer(c, "mutation_failed")
  <2>1. Leaves(c) /\ pc'[c] = "ended" /\ UNCHANGED <<op, frontend, apt>>
    BY <1>2, <1>4, AnswerShape DEF Replies, Failures, Answer, Exit, guestVars
  <2> QED
    BY <1>1, <2>1, ShapeFits
<1> QED
  BY <1>3, <1>4, MutatesAt

(* A process is cut off from its apt, which ends with it or goes on.       *)
LEMMA CutOffFits ==
  ASSUME Typed, AptFits, NEW c \in Calls, pc[c] \notin {"none", "sent", "ended"},
         pc' = [pc EXCEPT ![c] = "ended"], UNCHANGED <<op, outcome>>,
         \A d \in Calls \ {c} : reply'[d] = reply[d],
         reply'[c] \in CutOff,
         flock' = IF flock = c THEN Nobody ELSE flock,
         IF pc[c] = "apt" THEN UNCHANGED guestVars \/ Severed(c) ELSE UNCHANGED <<frontend, apt>>
  PROVE  AptFits'
<1>1. /\ pc \in [Calls -> Steps \cup {"none", "sent", "ended"}] /\ Nobody \notin Calls
  BY OwnersAre DEF Typed, TypeOK, HelperTypeOK
<1>2. \/ UNCHANGED <<frontend, apt>>
      \/ /\ frontend = c /\ frontend' = Nobody /\ apt'[c] = "failed"
         /\ \A d \in Calls \ {c} : apt'[d] = apt[d]
  BY SeveredApt DEF guestVars
<1>3. apt[c] = "running" => pc[c] = "apt"
  BY DEF AptFits
<1>4. /\ pc'[c] = "ended" /\ \A d \in Calls \ {c} : pc'[d] = pc[d]
      /\ \A d \in Calls \ {c} : flock = d => flock' = d
  BY <1>1
<1> QED
  BY <1>1, <1>2, <1>3, <1>4 DEF AptFits

LEMMA FailureFits ==
  ASSUME Typed, AptFits, NEW c \in Calls, CommandFails(c), UNCHANGED outcome
  PROVE  AptFits'
<1>1. pc[c] \notin {"none", "sent", "ended"}
        /\ IF pc[c] = "apt" THEN Severed(c) ELSE UNCHANGED <<frontend, apt>>
  BY FailsAt DEF guestVars
<1>2. CASE Fails(c, {"timeout", "execution_failed"})
  <2>1. PICK r \in {"timeout", "execution_failed"} : Answer(c, r)
    BY <1>2 DEF Fails
  <2>2. reply'[c] \in CutOff /\ \A d \in Calls \ {c} : reply'[d] = reply[d]
    BY <2>1 DEF Answer, Exit, CutOff, Typed, TypeOK, HelperTypeOK
  <2> QED
    BY <1>1, <2>1, <2>2, CutOffFits DEF Answer, Exit
<1>3. CASE op[c] = "health" /\ pc[c] = "probe" /\ Resume(c, "recheck", seen[c])
  <2>1. GoesOn(c)
    BY <1>3, HealthAt DEF GoesOn, Typed, TypeOK, HelperTypeOK
  <2>2. apt[c] = "no" /\ pc'[c] # "after"
    BY <1>3 DEF AptFits, Resume, Typed, TypeOK, HelperTypeOK
  <2> QED
    BY <1>1, <1>3, <2>1, <2>2, ShapeFits DEF Resume
<1> QED
  BY <1>2, <1>3, FailsAt

LEMMA AptFitsInductive == Typed /\ AptFits /\ [Next]_vars => AptFits'
<1> SUFFICES ASSUME Typed, AptFits, [Next]_vars PROVE AptFits'
  OBVIOUS
<1>1. CASE UNCHANGED vars
  BY <1>1 DEF vars, guestVars, helperVars, AptFits
<1>2. ASSUME NEW c \in Calls, Side(c) PROVE AptFits'
  BY <1>2, SideFits
<1>3. ASSUME NEW c \in Calls, Works(c) /\ UNCHANGED outcome PROVE AptFits'
  BY <1>3, LooksFits, MutatesFits, FailureFits DEF Works
<1>4. ASSUME NEW c \in Calls, Dies(c) /\ UNCHANGED outcome PROVE AptFits'
  <2>1. pc[c] \notin {"none", "sent", "ended"}
    BY <1>4, IsLive DEF Dies, Typed
  <2>2. reply[c] = "none" /\ UNCHANGED <<op, reply, frontend, apt>>
    BY <1>4, <2>1 DEF Dies, AptFits, Typed, TypeOK, HelperTypeOK
  <2>3. pc' = [pc EXCEPT ![c] = "ended"] /\ flock' = IF flock = c THEN Nobody ELSE flock
    BY <1>4 DEF Dies
  <2>4. /\ pc'[c] = "ended" /\ \A d \in Calls \ {c} : pc'[d] = pc[d]
        /\ \A d \in Calls \ {c} : flock = d => flock' = d
    BY <2>3, OwnersAre DEF Typed, TypeOK, HelperTypeOK
  <2> QED
    BY <1>4, <2>1, <2>2, <2>4 DEF AptFits, CutOff
<1>5. CASE GuestStep /\ UNCHANGED <<helperVars, outcome>>
  BY <1>5, GuestApt DEF helperVars, AptFits
<1> QED
  BY <1>1, <1>2, <1>3, <1>4, <1>5, SomeStep

(* The apt of a request works while its process is at that command, or has *)
(* been cut off from it; a process at any command has the flock.           *)
THEOREM AptOwned == Spec => []AptFits
BY HelperTypes, InitAptFits, AptFitsInductive, PTL DEF Spec

LEMMA AptStays ==
  ASSUME Typed, AptFits, [Next]_vars, NEW c \in Calls
  PROVE  \/ apt'[c] = apt[c]
         \/ apt[c] = "running" /\ apt'[c] \in {"ok", "failed"}
         \/ Mutates(c) /\ apt[c] = "no" /\ pc[c] = "mutate" /\ apt'[c] \in {"running", "busy"}
<1> DEFINE Ends1 == apt[c] = "running" /\ apt'[c] \in {"ok", "failed"}
<1>1. ASSUME NEW d \in Calls, Mutates(d) PROVE d = c \/ apt'[c] = apt[c]
  BY <1>1, MutatesAt DEF AptStarts, guestVars, Typed, TypeOK, GuestTypeOK
<1>2. Mutates(c) => /\ apt[c] = "no" /\ pc[c] = "mutate"
                    /\ apt'[c] = apt[c] \/ apt'[c] \in {"running", "busy"}
  BY MutatesAt DEF AptFits, AptStarts, guestVars, Typed, TypeOK, GuestTypeOK
<1>3. ASSUME NEW d \in Calls, CommandFails(d) PROVE apt'[c] = apt[c] \/ Ends1
  BY <1>3, FailsAt, SeveredApt DEF guestVars, AptFits
<1>4. GuestStep => apt'[c] = apt[c] \/ Ends1
  BY GuestApt DEF AptFits
<1>5. ASSUME NEW d \in Calls, Side(d) \/ Dies(d) PROVE apt'[c] = apt[c]
  BY <1>5, SideOthers DEF Typed, Dies, guestVars
<1> HIDE DEF Ends1
<1>6. apt'[c] = apt[c] \/ Ends1 \/ Mutates(c)
  BY <1>1, <1>3, <1>4, <1>5, SomeStep DEF Works, guestVars, vars
<1> QED
  BY <1>2, <1>6 DEF Ends1

(* A mutation meets the apt of another only where the process of that      *)
(* other was cut off from it.                                              *)
THEOREM Serial == Spec => MutationsSerial
<1>1. ASSUME Typed, AptFits, [Next]_vars, NEW c \in Calls, NEW d \in Calls,
             apt[c] = "no", apt'[c] # "no", apt[d] = "running"
      PROVE  pc[d] = "ended" /\ reply[d] \in {"none", "timeout", "execution_failed"}
  <2>1. pc[c] = "mutate" /\ c # d
    BY <1>1, AptStays
  <2> QED
    BY <1>1, <2>1 DEF AptFits, CutOff
<1>2. Typed /\ AptFits /\ [Next]_vars =>
        \A c, d \in Calls : apt[c] = "no" /\ apt'[c] # "no" /\ apt[d] = "running"
          => pc[d] = "ended" /\ reply[d] \in {"none", "timeout", "execution_failed"}
  BY <1>1
<1> QED
  BY <1>2, HelperTypes, AptOwned, PTL DEF Spec, MutationsSerial

-----------------------------------------------------------------------------
(***************************************************************************)
(* One request at a time: a step either leaves it as it is, or is its own. *)
(***************************************************************************)
Same(c) == pc'[c] = pc[c] /\ reply'[c] = reply[c] /\ seen'[c] = seen[c] /\ outcome'[c] = outcome[c]

LEMMA StepOf ==
  ASSUME Typed, [Next]_vars, NEW c \in Calls
  PROVE  /\ op' = op
         /\ \/ Same(c) \/ Side(c)
            \/ Works(c) /\ UNCHANGED outcome
            \/ Dies(c) /\ UNCHANGED outcome
<1>1. CASE UNCHANGED vars
  BY <1>1 DEF vars, helperVars, Same
<1>2. ASSUME NEW d \in Calls, Side(d) PROVE op' = op /\ (Same(c) \/ d = c)
  BY <1>2, SideOthers DEF Typed, Others, Same
<1>3. ASSUME NEW d \in Calls, Works(d) /\ UNCHANGED outcome PROVE op' = op /\ (Same(c) \/ d = c)
  BY <1>3, WorksOthers DEF Typed, Others, Same
<1>4. ASSUME NEW d \in Calls, Dies(d) /\ UNCHANGED outcome PROVE op' = op /\ (Same(c) \/ d = c)
  BY <1>4, DiesOthers DEF Typed, Others, Same
<1>5. CASE GuestStep /\ UNCHANGED <<helperVars, outcome>>
  BY <1>5 DEF helperVars, Same
<1> QED
  BY <1>1, <1>2, <1>3, <1>4, <1>5, SomeStep

(* What was seen of the guest is kept, and seen in every state in which    *)
(* the process of the request is at a command.                             *)
LEMMA HeldGrows ==
  ASSUME Typed, [Next]_vars, NEW c \in Calls
  PROVE  held[c] \subseteq held'[c]
BY DEF Next, Observe, vars, Typed, TypeOK

LEMMA HeldNow ==
  ASSUME Typed, Next, NEW c \in Calls, pc[c] \notin {"none", "sent", "ended"}
  PROVE  Now(c)' \subseteq held'[c] /\ Ends(c) \subseteq held'[c]
<1>1. Live(c) /\ Observe
  BY IsLive DEF Typed, Next
<1> QED
  BY <1>1 DEF Observe

LEMMA AnswerReply ==
  ASSUME Typed, NEW c \in Calls, NEW r, Answer(c, r)
  PROVE  reply'[c] = r /\ pc'[c] = "ended" /\ seen'[c] = Unread
BY DEF Answer, Exit, Typed, TypeOK, HelperTypeOK

LEMMA ReportReply ==
  ASSUME Typed, NEW c \in Calls, NEW e, Report(c, e)
  PROVE  reply'[c] = "ok" /\ pc'[c] = "ended" /\ seen'[c] = e
BY DEF Report, Exit, Typed, TypeOK, HelperTypeOK

LEMMA ResumeReply ==
  ASSUME Typed, NEW c \in Calls, NEW s, NEW e, Resume(c, s, e)
  PROVE  reply'[c] = reply[c] /\ pc'[c] = s /\ seen'[c] = e
BY DEF Resume, Typed, TypeOK, HelperTypeOK

LEMMA DiesReply ==
  ASSUME Typed, NEW c \in Calls, Dies(c)
  PROVE  /\ pc[c] \notin {"none", "sent", "ended"}
         /\ reply'[c] = reply[c] /\ pc'[c] = "ended" /\ seen'[c] = Unread
BY IsLive DEF Dies, Typed, TypeOK, HelperTypeOK

-----------------------------------------------------------------------------
(***************************************************************************)
(* What Home Assistant says of a mutation.                                 *)
(***************************************************************************)
NotStarted == {"guest_unavailable", "identity_mismatch", "unknown_operation"}

Told(c) == op[c] = "update" =>
  /\ reply[c] = "ok" => apt[c] = "ok" /\ "sane" \in held[c]
  /\ reply[c] \in NotStarted => apt[c] = "no"
  /\ outcome[c] \in {"mutated", "guest_unavailable", "helper_outdated", "package_manager_busy"}
       => pc[c] = "ended"
  /\ outcome[c] = "mutated" => apt[c] = "ok" /\ "sane" \in held[c]
  /\ outcome[c] \in {"guest_unavailable", "helper_outdated"} => apt[c] = "no"
  /\ reply[c] = "package_manager_busy" => apt[c] # "ok"
  /\ outcome[c] = "package_manager_busy" => apt[c] \notin {"running", "ok"}

LEMMA SideTold ==
  ASSUME Typed, AptFits, NEW c \in Calls, Told(c), Side(c), held[c] \subseteq held'[c]
  PROVE  Told(c)'
<1>1. op' = op /\ apt' = apt /\ reply' = reply
  BY SideOthers DEF Typed, guestVars
<1>2. pc \in [Calls -> Steps \cup {"none", "sent", "ended"}] /\ outcome \in [Calls -> Outcomes \cup {"idle", "waiting"}]
  BY DEF Typed, TypeOK, HelperTypeOK
<1> SUFFICES ASSUME op[c] = "update" PROVE Told(c)'
  BY <1>1 DEF Told
<1>3. CASE Call(c)
  BY <1>1, <1>2, <1>3 DEF Call, Told
<1>4. CASE Delivered(c)
  <2>1. pc'[c] = "ended" /\ outcome'[c] = MutationOutcome(c) /\ reply[c] # "none"
    BY <1>2, <1>4 DEF Delivered, Returns, helperVars, Outcome
  <2>2. /\ MutationOutcome(c) = "mutated" => reply[c] = "ok"
        /\ MutationOutcome(c) \in {"guest_unavailable", "helper_outdated"} => reply[c] \in NotStarted
        /\ MutationOutcome(c) = "package_manager_busy" => reply[c] = "package_manager_busy"
    BY DEF MutationOutcome, NotStarted
  <2>3. reply[c] = "package_manager_busy" => apt[c] # "running"
    BY DEF AptFits, CutOff
  <2> QED
    BY <1>1, <2>1, <2>2, <2>3 DEF Told
<1>5. CASE TimesOut(c) \/ SessionLost(c)
  <2>1. pc' = pc /\ outcome'[c] \in {"mutation_timed_out", "mutation_uncertain"}
    BY <1>2, <1>5 DEF TimesOut, SessionLost, Returns, helperVars, TimeoutOutcome, LostOutcome
  <2> QED
    BY <1>1, <2>1 DEF Told
<1>6. CASE NeverArrives(c)
  BY <1>1, <1>2, <1>6 DEF NeverArrives, Told
<1> QED
  BY <1>3, <1>4, <1>5, <1>6 DEF Side

LEMMA ToldInductive ==
  ASSUME Typed, AptFits, [Next]_vars, NEW c \in Calls, Told(c)
  PROVE  Told(c)'
<1>0. held[c] \subseteq held'[c] /\ op' = op
  BY HeldGrows, StepOf
<1> SUFFICES ASSUME op[c] = "update" PROVE Told(c)'
  BY <1>0 DEF Told
<1>1. \/ apt'[c] = apt[c]
      \/ apt[c] = "running" /\ apt'[c] \in {"ok", "failed"}
      \/ apt[c] = "no" /\ pc[c] = "mutate"
  BY AptStays
<1>2. /\ pc[c] # "ended" => reply[c] = "none"
      /\ reply[c] = "package_manager_busy" => apt[c] # "running"
  BY DEF AptFits, CutOff
<1>3. CASE Same(c)
  BY <1>0, <1>1, <1>2, <1>3 DEF Same, Told, NotStarted
<1>4. CASE Side(c)
  BY <1>0, <1>4, SideTold
<1>5. CASE Dies(c) /\ UNCHANGED outcome
  <2>1. pc[c] # "ended" /\ reply'[c] = "none"
    BY <1>2, <1>5, DiesReply
  <2> QED
    BY <1>0, <1>5, <2>1 DEF Told, NotStarted
<1>6. CASE Works(c) /\ UNCHANGED outcome
  <2>1. pc[c] \notin {"none", "ended"}
    <3>1. CASE Looks(c)
      BY <3>1, UpdateLooks DEF UpdateLook, Enters
    <3> QED
      BY <1>6, <3>1, MutatesAt, FailsAt DEF Works
  <2>2. ASSUME reply'[c] \notin NotStarted \cup {"ok"},
               reply'[c] = "package_manager_busy" => apt'[c] # "ok"
        PROVE  Told(c)'
    BY <1>0, <1>6, <2>1, <2>2 DEF Told
  <2>3. CASE Looks(c) /\ UNCHANGED guestVars
    <3>0. UpdateLook(c) /\ apt' = apt /\ Unfinished' = Unfinished
      BY <2>3, UpdateLooks DEF guestVars, Unfinished
    <3>1. CASE Enters(c)
      BY <1>2, <2>1, <2>2, <3>1 DEF Enters, NotStarted
    <3>2. CASE pc[c] = "sent"
      BY <1>0, <1>6, <2>1, <3>0, <3>2, AnswerReply DEF Told, AptFits, Fails, UpdateLook, NotStarted, Enters
    <3>3. CASE pc[c] = "target"
      <4>1. apt[c] = "no"
        BY <3>3 DEF AptFits
      <4>2. reply'[c] # "ok"
        BY <1>2, <3>0, <3>3, AnswerReply, ResumeReply DEF Fails, UpdateLook, Enters
      <4> QED
        BY <1>0, <1>6, <2>1, <3>0, <4>1, <4>2 DEF Told
    <3>4. CASE pc[c] \in {"before", "apt"}
      BY <1>2, <2>2, <3>0, <3>4, AnswerReply, ResumeReply DEF Fails, UpdateLook, NotStarted, Enters
    <3>5. CASE pc[c] = "after"
      <4>1. apt[c] = "ok"
        BY <3>5 DEF AptFits
      <4>2. CASE Unfinished = {} /\ Report(c, seen[c])
        <5>1. "sane" \in Now(c)'
          BY <3>0, <4>1, <4>2 DEF Now
        <5>2. "sane" \in held'[c]
          <6>1. Next
            BY <3>5, <4>2, ReportReply DEF vars, helperVars
          <6> QED
            BY <3>5, <5>1, <6>1, HeldNow
        <5>3. reply'[c] = "ok"
          BY <4>2, ReportReply
        <5> QED
          BY <1>0, <1>6, <2>1, <3>0, <4>1, <5>2, <5>3 DEF Told, NotStarted
      <4>3. CASE Fails(c, {"dpkg_unfinished", "execution_failed"})
        BY <2>2, <4>3, AnswerReply DEF Fails, NotStarted
      <4> QED
        BY <3>0, <3>5, <4>2, <4>3 DEF UpdateLook, Enters
    <3> QED
      BY <3>0, <3>1, <3>2, <3>3, <3>4, <3>5 DEF UpdateLook
  <2>4. CASE Mutates(c)
    BY <1>2, <2>2, <2>4, MutatesAt, AnswerReply, ResumeReply DEF NotStarted
  <2>5. CASE CommandFails(c)
    BY <2>2, <2>5, FailsAt, AnswerReply DEF Fails, NotStarted
  <2> QED
    BY <1>6, <2>3, <2>4, <2>5 DEF Works
<1> QED
  BY <1>3, <1>4, <1>5, <1>6, StepOf

AllTold == \A c \in Calls : Told(c)

LEMMA ToldAlways == Spec => []AllTold
<1>1. Init => AllTold
  BY DEF Init, HelperInit, Told, NotStarted, AllTold
<1>2. Typed /\ AptFits /\ AllTold /\ [Next]_vars => AllTold'
  <2> SUFFICES ASSUME Typed, AptFits, AllTold, [Next]_vars, NEW c \in Calls PROVE Told(c)'
    BY DEF Calls, AllTold
  <2> QED
    BY ToldInductive DEF AllTold
<1> QED
  BY <1>1, <1>2, HelperTypes, AptOwned, PTL DEF Spec

(* What Home Assistant says of a mutation is true of the guest.            *)
THEOREM ToldTruly == Spec => []MutationTold
<1>1. AllTold => MutationTold
  BY DEF AllTold, Told, MutationTold
<1> QED
  BY <1>1, ToldAlways, PTL

-----------------------------------------------------------------------------
(***************************************************************************)
(* A request for a mutation implements MutationRequest.                    *)
(***************************************************************************)
AsIs(c) == AptOf(c)' = AptOf(c) /\ ToldOf(c)' = ToldOf(c)

LEMMA RequestMoves ==
  ASSUME NEW c \in Calls, [Request(c)!Next]_(Request(c)!vars) \/ AsIs(c)
  PROVE  [Request(c)!Next]_(Request(c)!vars)
BY DEF AsIs, Request!vars

(* The transport gives the outcome.                                        *)
LEMMA RequestTells ==
  ASSUME NEW c \in Calls, op[c] = "update", op' = op, apt' = apt, apt[c] \in AptStates,
         outcome[c] = "waiting", outcome'[c] \in Request(c)!Failures \cup {"mutated"},
         outcome'[c] = "mutated" => apt[c] = "ok",
         outcome'[c] = "package_manager_busy" => apt[c] \in {"no", "failed", "busy"},
         outcome'[c] \in {"guest_unavailable", "helper_outdated"} => apt[c] = "no"
  PROVE  Request(c)!Next
<1>1. ToldOf(c) = "none" /\ ToldOf(c)' = outcome'[c]
  BY DEF ToldOf, Request!Failures, Request!Refusals
<1>2. AptOf(c) = SeenAs[apt[c]] /\ AptOf(c)' = AptOf(c)
  BY DEF AptOf, Request!Failures, Request!Refusals
<1>3. AptOf(c) # "none" /\ Request(c)!Allowed(outcome'[c])
  BY <1>2 DEF SeenAs, AptStates, Request!Allowed, Request!Failures, Request!Refusals
<1>4. Request(c)!Tell(outcome'[c])
  BY <1>1, <1>2, <1>3 DEF Request!Tell
<1>5. outcome'[c] \in Request(c)!Told \ {"none"}
  BY DEF Request!Told, Request!Failures, Request!Refusals
<1> QED
  BY <1>4, <1>5 DEF Request!Next

LEMMA SideRequest ==
  ASSUME Typed, AptFits, NEW c \in Calls, Told(c), op[c] = "update", Side(c)
  PROVE  Request(c)!Next \/ AsIs(c)
<1>1. op' = op /\ apt' = apt /\ reply' = reply /\ apt[c] \in AptStates
  BY SideOthers DEF Typed, guestVars, TypeOK, GuestTypeOK
<1>2. outcome \in [Calls -> Outcomes \cup {"idle", "waiting"}]
  BY DEF Typed, TypeOK
<1>3. CASE Call(c)
  <2>1. outcome[c] = "idle" /\ outcome'[c] = "waiting" /\ apt[c] = "no"
    BY <1>2, <1>3 DEF Call, AptFits
  <2>2. /\ AptOf(c) = "none" /\ AptOf(c)' = "sent"
        /\ ToldOf(c) = "none" /\ ToldOf(c)' = "none"
    BY <1>1, <2>1 DEF AptOf, ToldOf, SeenAs
  <2> QED
    BY <2>2 DEF Request!Next, Request!Send
<1>4. CASE Delivered(c)
  <2>1. pc[c] = "ended" /\ outcome[c] = "waiting" /\ outcome'[c] = MutationOutcome(c)
    BY <1>2, <1>4 DEF Delivered, Returns, Outcome
  <2>2. /\ MutationOutcome(c) = "mutated" => reply[c] = "ok"
        /\ MutationOutcome(c) \in {"guest_unavailable", "helper_outdated"} => reply[c] \in NotStarted
        /\ MutationOutcome(c) = "package_manager_busy" => reply[c] = "package_manager_busy"
        /\ MutationOutcome(c) \in Request(c)!Failures \cup {"mutated"}
    BY DEF MutationOutcome, NotStarted, Request!Failures, Request!Refusals
  <2>3. reply[c] = "package_manager_busy" => apt[c] \in {"no", "failed", "busy"}
    BY <1>1 DEF AptFits, CutOff, Told, AptStates
  <2> QED
    BY <1>1, <2>1, <2>2, <2>3, RequestTells DEF Told
<1>5. CASE TimesOut(c) \/ SessionLost(c)
  <2>1. outcome[c] = "waiting" /\ outcome'[c] \in {"mutation_timed_out", "mutation_uncertain"}
    BY <1>2, <1>5 DEF TimesOut, SessionLost, Returns, TimeoutOutcome, LostOutcome
  <2> QED
    BY <1>1, <2>1, RequestTells DEF Request!Failures
<1>6. CASE NeverArrives(c)
  BY <1>1, <1>6 DEF NeverArrives, AsIs, AptOf, ToldOf
<1> QED
  BY <1>3, <1>4, <1>5, <1>6 DEF Side

(* Its apt begins or ends, which none does that was refused.               *)
LEMMA AptMoves ==
  ASSUME Typed, AptFits, NEW c \in Calls, Told(c), op[c] = "update", op' = op,
         outcome'[c] = outcome[c], apt[c] # "no" => outcome[c] # "idle",
         \/ apt[c] = "no" /\ pc[c] = "mutate" /\ apt'[c] \in {"running", "busy"}
         \/ apt[c] = "running" /\ apt'[c] \in {"ok", "failed"}
  PROVE  Request(c)!Next
<1>1. outcome[c] # "idle"
  BY DEF AptFits
<1>2. AptOf(c) = SeenAs[apt[c]] /\ AptOf(c)' = SeenAs[apt'[c]] /\ ToldOf(c)' = ToldOf(c)
  BY <1>1 DEF AptOf, ToldOf
<1>3. ToldOf(c) \notin Request(c)!Refusals
  BY DEF Told, ToldOf, Request!Refusals
<1>4. Request(c)!AptStep
  BY <1>2, <1>3 DEF Request!AptStep, SeenAs
<1> QED
  BY <1>4 DEF Request!Next

LEMMA RequestStep ==
  ASSUME Typed, AptFits, [Next]_vars, NEW c \in Calls, Told(c)
  PROVE  [Request(c)!Next]_(Request(c)!vars)
<1>1. op' = op
  BY StepOf
<1>2. CASE op[c] # "update"
  BY <1>1, <1>2 DEF Request!vars, AptOf, ToldOf
<1>3. CASE op[c] = "update"
  <2>1. ASSUME NEW d \in Calls, Side(d) PROVE Request(c)!Next \/ AsIs(c)
    <3>1. CASE d = c
      BY <1>3, <2>1, <3>1, SideRequest
    <3>2. CASE d # c
      <4>1. outcome'[c] = outcome[c] /\ apt' = apt
        BY <2>1, <3>2, SideOthers DEF Others, Typed, guestVars
      <4> QED
        BY <1>1, <4>1 DEF AsIs, AptOf, ToldOf
    <3> QED
      BY <3>1, <3>2
  <2>2. CASE outcome' = outcome
    <3>1. CASE apt'[c] = apt[c]
      <4>1. AsIs(c)
        BY <1>1, <2>2, <3>1 DEF AsIs, AptOf, ToldOf
      <4> QED
        BY <4>1, RequestMoves
    <3>2. CASE apt'[c] # apt[c]
      BY <1>1, <1>3, <2>2, <3>2, AptStays, AptMoves DEF AptFits
    <3> QED
      BY <3>1, <3>2
  <2>3. (\E d \in Calls : Side(d)) \/ outcome' = outcome
    BY SomeStep DEF vars
  <2> QED
    BY <2>1, <2>2, <2>3, RequestMoves DEF Request!vars
<1> QED
  BY <1>2, <1>3

(* The transport, the helper and the guest keep what MutationRequest       *)
(* promises the attempt that makes a request, for any number of requests.  *)
THEOREM RequestsImplemented == Spec => ImplementsRequest
<1>1. Init => \A c \in Calls : Request(c)!Init
  BY DEF Init, AptOf, ToldOf, Request!Init
<1>2. Typed /\ AptFits /\ AllTold /\ [Next]_vars
        => \A c \in Calls : [Request(c)!Next]_(Request(c)!vars)
  BY RequestStep DEF AllTold
<1>3. QED
  BY <1>1, <1>2, HelperTypes, AptOwned, ToldAlways, PTL DEF Spec, ImplementsRequest

-----------------------------------------------------------------------------
(***************************************************************************)
(* A plan, a Scan's result and a good Health rest on a reading that showed *)
(* a finished database.                                                    *)
(***************************************************************************)
Planning == {"scan", "plan", "cleanup"}

(* The commands after the first reading of an operation that plans.        *)
Past(o) == IF o = "cleanup" THEN {"simulate"} ELSE {"inventory", "marker"}

LEMMA FailsReply ==
  ASSUME Typed, NEW c \in Calls, NEW failures \in SUBSET Failures, Fails(c, failures)
  PROVE  reply'[c] # "ok" /\ reply'[c] \in failures /\ pc'[c] = "ended" /\ seen'[c] = Unread
BY AnswerReply DEF Fails, Failures

LEMMA SawReply ==
  ASSUME Typed, NEW c \in Calls, NEW e, Saw(c, e)
  PROVE  /\ seen'[c] = e
         /\ Path[op[c]][pc[c]] # "answer" => pc'[c] = Path[op[c]][pc[c]] /\ reply'[c] = reply[c]
BY ReportReply, ResumeReply DEF Saw

LEMMA PlanLooks ==
  ASSUME Typed, NEW c \in Calls, op[c] \in Planning, reply[c] = "none", Looks(c)
  PROVE  \/ reply'[c] # "ok" /\ pc'[c] \notin Past(op[c])
         \/ pc[c] \in {"simulate", "inventory"} /\ (seen'[c].sane => Unfinished = {})
         \/ pc[c] \in Past(op[c]) /\ seen'[c] = seen[c]
<1> USE DEF At
<1>0. seen[c] \in SeenType /\ pc[c] \in ScanPath \cup PlanPath \cup {"none", "sent", "ended"}
  BY DEF Typed, TypeOK, HelperTypeOK, PcFits, PathOf, Planning
<1>1. /\ "ended" \notin Past(op[c]) /\ "target" \notin Past(op[c])
      /\ op[c] # "cleanup" => "marker" \in Past(op[c])
  BY DEF Past
<1>2. CASE Begins(c)
  <2>1. Enters(c) \/ Fails(c, {"unknown_operation", "execution_failed", "package_manager_busy"})
    BY <1>2 DEF Begins, Enters, Fails
  <2>2. Enters(c) => reply'[c] # "ok" /\ pc'[c] = "target"
    BY DEF Enters, Typed, TypeOK, HelperTypeOK
  <2> QED
    BY <1>1, <2>1, <2>2, FailsReply DEF Failures
<1>3. CASE Target(c)
  <2>1. /\ Path[op[c]]["target"] \in {"os", "simulate", "inventory"}
        /\ Path[op[c]]["target"] \notin Past(op[c])
    BY ScanNext, PlanNext DEF Planning, Past
  <2>2. Continues(c) => pc'[c] = Path[op[c]]["target"] /\ reply'[c] = reply[c]
    BY <1>3, <2>1, SawReply DEF Target, Continues
  <2> QED
    BY <1>1, <1>3, <2>1, <2>2, FailsReply DEF Target, Failures
<1>4. CASE Os(c) \/ Refreshes(c)
  <2>1. op[c] = "scan"
    BY <1>4 DEF Os, Refreshes, Planning, Typed, PcFits, PathOf, PlanPath
  <2>2. Continues(c) => pc'[c] \in {"refresh", "simulate"} /\ reply'[c] = reply[c]
    BY <1>4, <2>1, ScanNext, SawReply DEF Os, Refreshes, Continues
  <2>3. Continues(c) \/ Fails(c, {"unsupported_os", "guest_unavailable", "package_manager_busy",
                                  "metadata_refresh_failed"})
    BY <1>4 DEF Os, Refreshes, Fails
  <2> QED
    BY <1>1, <2>1, <2>2, <2>3, FailsReply DEF Past, Failures
<1>5. CASE Marker(c)
  <2>1. op[c] = "scan"
    BY <1>5 DEF Marker, Planning, Typed, PcFits, PathOf, PlanPath
  <2> QED
    BY <1>1, <1>5, <2>1, SawReply DEF Marker, Continues
<1>6. CASE Simulates(c)
  <2> DEFINE e == [seen[c] EXCEPT !.plan = Upgradable, !.sane = @ /\ Unfinished = {}]
  <2>1. e.sane => Unfinished = {}
    BY <1>0, PkgSets, Simulated
  <2>2. seen'[c] = e \/ Fails(c, {"package_manager_busy", "simulation_failed"})
    BY <1>6, SawReply DEF Simulates
  <2> QED
    BY <1>1, <1>6, <2>1, <2>2, FailsReply DEF Failures, Simulates
<1>7. CASE Inventory(c)
  <2> DEFINE e == [seen[c] EXCEPT !.newer = Pkgs \ Upgradable, !.sane = @ /\ Unfinished = {}]
  <2>1. e.sane => Unfinished = {}
    BY <1>0, PkgSets, Inventoried
  <2>2. seen'[c] = e \/ Fails(c, {"dpkg_unfinished", "execution_failed"})
    BY <1>7, SawReply DEF Inventory, Fails
  <2> QED
    BY <1>1, <1>7, <2>1, <2>2, FailsReply DEF Failures, Inventory
<1> QED
  BY <1>0, <1>2, <1>3, <1>4, <1>5, <1>6, <1>7
  DEF Looks, Sanity, AptReturns, Pong, Exec, RecheckExec, Reads, Rereads, AuditReads, AuditTests,
      AuditFails, Probes, Rechecks, ScanPath, PlanPath

(* What a Health check does next: it reads no verdict on dpkg but the one  *)
(* of the reading that found nothing, and the one of the lock's test.      *)
Untold == {"none", "lock_unknown", "pending", "busy", "changed"}

HealthLook(c) ==
  \/ seen'[c].dpkg \in Untold /\ pc'[c] # "lock"
  \/ seen'[c].dpkg = seen[c].dpkg /\ pc'[c] # "lock"
  \/ pc[c] = "read" /\ Unfinished = {} /\ seen'[c].dpkg = "ok" /\ pc'[c] # "lock"
  \/ /\ pc[c] = "audit" /\ pc'[c] = "lock" /\ seen'[c].dpkg = seen[c].dpkg
     /\ seen'[c].report = Half /\ seen'[c].audited = (Unfinished # {})
  \/ /\ pc[c] = "lock" /\ pc'[c] # "lock" /\ ~(seen[c].audited /\ locked)
     /\ seen[c].report # {} /\ seen'[c].dpkg = "interrupted"

LEMMA HealthLooks ==
  ASSUME Typed, NEW c \in Calls, op[c] = "health", Looks(c)
  PROVE  HealthLook(c)
<1> USE DEF At
<1>0. /\ seen[c] \in SeenType /\ stops \in 0 .. MaxEvents /\ running \in BOOLEAN
      /\ pc[c] \in HealthPath \cup {"recheck_exec", "none", "sent", "ended"}
  BY DEF Typed, TypeOK, HelperTypeOK, GuestTypeOK, PcFits, PathOf
<1>1. ASSUME NEW failures \in SUBSET Failures, Fails(c, failures) PROVE HealthLook(c)
  BY <1>1, FailsReply, UnreadType DEF HealthLook, Untold
<1>2. CASE Begins(c)
  <2>1. Enters(c) \/ Fails(c, {"unknown_operation", "execution_failed", "package_manager_busy"})
    BY <1>2 DEF Begins, Enters, Fails
  <2>2. Enters(c) => seen'[c] = seen[c] /\ pc'[c] = "target"
    BY DEF Enters, Typed, TypeOK, HelperTypeOK
  <2> QED
    BY <1>1, <2>1, <2>2 DEF HealthLook, Failures
<1>3. CASE Target(c)
  <2>1. Continues(c) => pc'[c] = "exec" /\ seen'[c] = seen[c]
    BY <1>3, HealthNext, SawReply DEF Target, Continues
  <2> QED
    BY <1>1, <1>3, <2>1 DEF Target, HealthLook, Failures
<1>4. CASE Exec(c)
  <2>1. Continues(c) => pc'[c] = "read" /\ seen'[c] = seen[c]
    BY <1>4, HealthNext, SawReply DEF Exec, Continues
  <2>2. Resume(c, "recheck_exec", seen[c]) => pc'[c] = "recheck_exec" /\ seen'[c] = seen[c]
    BY ResumeReply
  <2> QED
    BY <1>4, <2>1, <2>2 DEF Exec, HealthLook
<1>5. CASE RecheckExec(c)
  BY <1>5, UnreadType, ReportReply DEF RecheckExec, HealthLook, Untold
<1>6. CASE Reads(c)
  <2>1. CASE Unfinished = {} /\ Resume(c, "probe", [seen[c] EXCEPT !.dpkg = "ok"])
    <3> DEFINE e == [seen[c] EXCEPT !.dpkg = "ok"]
    <3>1. e.dpkg = "ok"
      BY <1>0, Judged DEF Verdicts
    <3>2. seen'[c] = e /\ pc'[c] = "probe"
      BY <2>1, ResumeReply
    <3> HIDE DEF e
    <3> QED
      BY <1>6, <2>1, <3>1, <3>2 DEF HealthLook, Reads
  <2>2. CASE Resume(c, "reread", [seen[c] EXCEPT !.half = Half])
    <3> DEFINE e == [seen[c] EXCEPT !.half = Half]
    <3>1. e.dpkg = seen[c].dpkg
      BY <1>0, PkgSets, Halved
    <3>2. seen'[c] = e /\ pc'[c] = "reread"
      BY <2>2, ResumeReply
    <3> HIDE DEF e
    <3> QED
      BY <3>1, <3>2 DEF HealthLook
  <2>3. CASE Resume(c, "audit", seen[c])
    BY <2>3, ResumeReply DEF HealthLook
  <2> QED
    BY <1>1, <1>6, <2>1, <2>2, <2>3 DEF Reads, Failures
<1>7. CASE Rereads(c)
  <2> DEFINE e == [seen[c] EXCEPT !.persisted = seen[c].half \subseteq Half]
  <2>1. e.dpkg = seen[c].dpkg
    BY <1>0, Reread
  <2>2. Saw(c, e) => seen'[c] = e /\ pc'[c] = "audit"
    BY <1>7, HealthNext, SawReply DEF Rereads
  <2> QED
    BY <1>1, <1>7, <2>1, <2>2 DEF Rereads, HealthLook, Failures
<1>8. CASE AuditReads(c)
  <2> DEFINE e == [seen[c] EXCEPT !.report = Half, !.audited = Unfinished # {}, !.boot = stops]
  <2>1. e.dpkg = seen[c].dpkg /\ e.report = Half /\ e.audited = (Unfinished # {})
    <3> DEFINE b == Unfinished # {}
    <3>1. e = Heard(seen[c], Half, b, stops)
      BY DEF Heard
    <3>2. b \in BOOLEAN
      OBVIOUS
    <3> HIDE DEF e, b
    <3>3. e.dpkg = seen[c].dpkg /\ e.report = Half /\ e.audited = b
      BY <1>0, <3>1, <3>2, PkgSets, Audited
    <3> QED
      BY <3>3 DEF b
  <2>2. seen'[c] = e /\ pc'[c] = "lock"
    BY <1>8, HealthNext, SawReply DEF AuditReads
  <2> HIDE DEF e
  <2> QED
    BY <1>8, <2>1, <2>2 DEF HealthLook, AuditReads
<1>9. CASE AuditTests(c)
  <2>1. Verdict(seen[c]) \in Verdicts
    BY DEF Verdict, Verdicts
  <2>2. seen'[c].dpkg = Verdict(seen[c]) /\ pc'[c] = "probe" /\ pc[c] = "lock"
    BY <1>0, <1>9, <2>1, HealthNext, SawReply, Judged DEF AuditTests
  <2>3. \/ Verdict(seen[c]) \in Untold
        \/ /\ ~(seen[c].audited /\ locked) /\ seen[c].report # {}
           /\ Verdict(seen[c]) = "interrupted"
    BY DEF Verdict, Untold
  <2> QED
    BY <2>2, <2>3 DEF HealthLook
<1>10. CASE AuditFails(c)
  <2> DEFINE e == [seen[c] EXCEPT !.dpkg = "lock_unknown"]
  <2>1. e.dpkg = "lock_unknown"
    BY <1>0, Judged DEF Verdicts
  <2>2. seen'[c] = e /\ pc'[c] = "probe"
    BY <1>10, ResumeReply DEF AuditFails
  <2> HIDE DEF e
  <2> QED
    BY <2>1, <2>2 DEF HealthLook, Untold
<1>11. CASE Probes(c)
  <2>1. /\ [seen[c] EXCEPT !.reboot = TRUE].dpkg = seen[c].dpkg
        /\ \A b \in BOOLEAN : [seen[c] EXCEPT !.probed = b].dpkg = seen[c].dpkg
    BY <1>0, Probed
  <2>2. CASE Report(c, [seen[c] EXCEPT !.reboot = TRUE])
    <3> DEFINE e == [seen[c] EXCEPT !.reboot = TRUE]
    <3>1. seen'[c] = e /\ pc'[c] = "ended" /\ e.dpkg = seen[c].dpkg
      BY <2>1, <2>2, ReportReply
    <3> HIDE DEF e
    <3> QED
      BY <3>1 DEF HealthLook
  <2>3. ASSUME NEW b \in BOOLEAN, Resume(c, "recheck", [seen[c] EXCEPT !.probed = b])
        PROVE  HealthLook(c)
    <3> DEFINE e == [seen[c] EXCEPT !.probed = b]
    <3>1. seen'[c] = e /\ pc'[c] = "recheck" /\ e.dpkg = seen[c].dpkg
      BY <2>1, <2>3, ResumeReply
    <3> HIDE DEF e
    <3> QED
      BY <3>1 DEF HealthLook
  <2> QED
    BY <1>0, <1>11, <2>2, <2>3 DEF Probes
<1>12. CASE Rechecks(c)
  BY <1>12, UnreadType, AnswerReply, ReportReply DEF Rechecks, HealthLook, Untold
<1> QED
  BY <1>0, <1>2, <1>3, <1>4, <1>5, <1>6, <1>7, <1>8, <1>9, <1>10, <1>11, <1>12
  DEF Looks, Os, Refreshes, Marker, Simulates, Inventory, Sanity, AptReturns, Pong, HealthPath

GoodNews == {"planned", "scanned", "healthy", "degraded"}
Failed(c) == held[c] \cap {"broken", "finished"} # {}

(* What was seen bears out what was read, and what is made of it.          *)
SeenPlan(c) == op[c] \in Planning =>
  ((pc[c] \in Past(op[c]) \/ reply[c] = "ok") /\ seen[c].sane => "clean" \in held[c])

SeenDpkg(c) == op[c] = "health" =>
  /\ seen[c].dpkg = "ok" => "clean" \in held[c]
  /\ seen[c].dpkg = "interrupted" => Failed(c)
  /\ pc[c] = "lock" /\ seen[c].report # {} => seen[c].audited /\ (locked \/ Failed(c))

SeenTold(c) ==
  /\ outcome[c] \in GoodNews => "clean" \in held[c]
  /\ outcome[c] = "failed_dpkg" => Failed(c)

Borne == \A c \in Calls : SeenPlan(c) /\ SeenDpkg(c) /\ SeenTold(c)

LEMMA OutcomeBorne ==
  ASSUME Typed, NEW c \in Calls, SeenPlan(c), SeenDpkg(c)
  PROVE  /\ Outcome(c) \in GoodNews => "clean" \in held[c]
         /\ Outcome(c) = "failed_dpkg" => Failed(c)
         /\ TimeoutOutcome[op[c]] \notin GoodNews \cup {"failed_dpkg"}
         /\ LostOutcome[op[c]] \notin GoodNews \cup {"failed_dpkg"}
<1>0. op[c] \in {"scan", "plan", "cleanup", "update", "ping", "health"}
  BY OpsAre DEF Typed, TypeOK, HelperTypeOK
<1>1. CASE op[c] = "scan"
  BY <1>1 DEF Outcome, ScanOutcome, Parses, SeenPlan, Planning, TimeoutOutcome, LostOutcome, GoodNews
<1>2. CASE op[c] \in {"plan", "cleanup"}
  BY <1>2 DEF Outcome, PlanOutcome, Parses, SeenPlan, Planning, TimeoutOutcome, LostOutcome, GoodNews
<1>3. CASE op[c] \in {"update", "ping"}
  BY <1>3 DEF Outcome, MutationOutcome, PingOutcome, TimeoutOutcome, LostOutcome, GoodNews
<1>4. CASE op[c] = "health"
  BY <1>4 DEF Outcome, HealthOutcome, SeenDpkg, TimeoutOutcome, LostOutcome, GoodNews
<1> QED
  BY <1>0, <1>1, <1>2, <1>3, <1>4

Bearing(c) == SeenPlan(c) /\ SeenDpkg(c) /\ SeenTold(c)

LEMMA SideBearing ==
  ASSUME Typed, NEW c \in Calls, Bearing(c), Side(c), held[c] \subseteq held'[c]
  PROVE  Bearing(c)'
<1>1. op' = op /\ UNCHANGED <<guestVars, reply, seen>>
  BY SideOthers DEF Typed
<1>2. /\ pc \in [Calls -> Steps \cup {"none", "sent", "ended"}]
      /\ outcome \in [Calls -> Outcomes \cup {"idle", "waiting"}]
  BY DEF Typed, TypeOK, HelperTypeOK
<1>3. pc'[c] \in {pc[c], "sent", "ended"}
  BY <1>2 DEF Side, Call, Delivered, TimesOut, SessionLost, NeverArrives, helperVars
<1>4. (SeenPlan(c) /\ SeenDpkg(c))'
  BY <1>1, <1>3 DEF Bearing, SeenPlan, SeenDpkg, Past, Failed, guestVars
<1>5. outcome'[c] \in {outcome[c], "waiting", Outcome(c), TimeoutOutcome[op[c]], LostOutcome[op[c]]}
  BY <1>2 DEF Side, Call, Delivered, TimesOut, SessionLost, NeverArrives, Returns
<1>6. SeenTold(c)'
  BY <1>5, OutcomeBorne DEF Bearing, SeenTold, Failed, GoodNews
<1> QED
  BY <1>4, <1>6 DEF Bearing

(* A dpkg run that a check waits out either ended well or is broken.       *)
LEMMA LockReleased ==
  ASSUME Typed, Next, op' = op, NEW c \in Calls, op[c] = "health", pc[c] = "lock", locked, ~locked'
  PROVE  Failed(c)'
<1>1. Now(c)' \subseteq held'[c] /\ Ends(c) \subseteq held'[c]
  BY HeldNow
<1>2. CASE Half' = {}
  BY <1>1, <1>2 DEF Ends, Failed
<1>3. CASE Half' # {}
  BY <1>1, <1>3 DEF Now, Broken, Failed
<1> QED
  BY <1>2, <1>3

LEMMA LooksBearing ==
  ASSUME Typed, AptFits, Next, NEW c \in Calls, Bearing(c), Looks(c), UNCHANGED <<guestVars, outcome>>,
         op' = op
  PROVE  Bearing(c)'
<1>0. held[c] \subseteq held'[c] /\ SeenTold(c)'
  BY HeldGrows DEF Bearing, SeenTold, Failed
<1>1. /\ Half' = Half /\ Unfinished' = Unfinished /\ locked' = locked
      /\ Unfinished = {} /\ op[c] \notin {"update", "ping"} => "clean" \in Now(c)'
      /\ Half # {} /\ ~locked /\ op[c] = "health" => "broken" \in Now(c)'
  BY DEF guestVars, Half, Unfinished, Now, Broken
<1>2. CASE op[c] \in Planning
  <2> SUFFICES SeenPlan(c)'
    BY <1>0, <1>2 DEF Bearing, SeenDpkg, Planning
  <2>1. reply[c] = "none"
    <3>1. pc[c] # "ended"
      BY DEF Looks, Begins, Target, Os, Refreshes, Marker, Simulates, Inventory, Sanity, AptReturns,
             Pong, Exec, RecheckExec, Reads, Rereads, AuditReads, AuditTests, AuditFails, Probes,
             Rechecks, At
    <3> QED
      BY <3>1 DEF AptFits
  <2>2. CASE reply'[c] # "ok" /\ pc'[c] \notin Past(op[c])
    BY <2>2 DEF SeenPlan
  <2>3. CASE pc[c] \in {"simulate", "inventory"} /\ (seen'[c].sane => Unfinished = {})
    BY <1>1, <1>2, <2>3, HeldNow DEF SeenPlan, Planning
  <2>4. CASE pc[c] \in Past(op[c]) /\ seen'[c] = seen[c]
    BY <1>0, <2>4 DEF SeenPlan, Bearing
  <2> QED
    BY <1>2, <2>1, <2>2, <2>3, <2>4, PlanLooks
<1>3. CASE op[c] = "health"
  <2> SUFFICES SeenDpkg(c)'
    BY <1>0, <1>3 DEF Bearing, SeenPlan, Planning
  <2>1. CASE seen'[c].dpkg \in Untold /\ pc'[c] # "lock"
    BY <2>1 DEF SeenDpkg, Untold
  <2>2. CASE seen'[c].dpkg = seen[c].dpkg /\ pc'[c] # "lock"
    BY <1>0, <2>2 DEF SeenDpkg, Bearing, Failed
  <2>3. CASE pc[c] = "read" /\ Unfinished = {} /\ seen'[c].dpkg = "ok" /\ pc'[c] # "lock"
    BY <1>1, <1>3, <2>3, HeldNow DEF SeenDpkg
  <2>4. CASE /\ pc[c] = "audit" /\ pc'[c] = "lock" /\ seen'[c].dpkg = seen[c].dpkg
             /\ seen'[c].report = Half /\ seen'[c].audited = (Unfinished # {})
    <3>1. Half # {} => Unfinished # {}
      BY DEF Half, Unfinished
    <3>2. Half # {} => locked' \/ Failed(c)'
      BY <1>1, <1>3, <2>4, HeldNow DEF Failed
    <3> QED
      BY <1>0, <2>4, <3>1, <3>2 DEF SeenDpkg, Bearing, Failed
  <2>5. CASE /\ pc[c] = "lock" /\ pc'[c] # "lock" /\ ~(seen[c].audited /\ locked)
             /\ seen[c].report # {} /\ seen'[c].dpkg = "interrupted"
    BY <1>0, <1>3, <2>5 DEF SeenDpkg, Bearing, Failed
  <2> QED
    BY <1>3, <2>1, <2>2, <2>3, <2>4, <2>5, HealthLooks DEF HealthLook
<1>4. CASE op[c] \notin Planning \cup {"health"}
  BY <1>0, <1>4 DEF Bearing, SeenPlan, SeenDpkg
<1> QED
  BY <1>2, <1>3, <1>4

LEMMA BearingInductive ==
  ASSUME Typed, AptFits, [Next]_vars, NEW c \in Calls, Bearing(c)
  PROVE  Bearing(c)'
<1>0. held[c] \subseteq held'[c] /\ op' = op
  BY HeldGrows, StepOf
<1>1. UNCHANGED outcome => SeenTold(c)'
  BY <1>0 DEF Bearing, SeenTold, Failed
<1>2. CASE Same(c)
  <2>1. SeenPlan(c)' /\ SeenTold(c)'
    BY <1>0, <1>2 DEF Same, Bearing, SeenPlan, SeenTold, Failed
  <2>2. op[c] = "health" /\ pc[c] = "lock" /\ locked => locked' \/ Failed(c)'
    BY <1>0, LockReleased DEF vars, guestVars
  <2>3. SeenDpkg(c)'
    BY <1>0, <1>2, <2>2 DEF Same, Bearing, SeenDpkg, Failed
  <2> QED
    BY <2>1, <2>3 DEF Bearing
<1>3. CASE Side(c)
  BY <1>0, <1>3, SideBearing
<1>4. ASSUME seen'[c] = Unread, pc'[c] = "ended", reply'[c] # "ok", UNCHANGED outcome
      PROVE  Bearing(c)'
  BY <1>1, <1>4, UnreadType DEF Bearing, SeenPlan, SeenDpkg, Past
<1>5. CASE Dies(c) /\ UNCHANGED outcome
  <2>1. reply[c] = "none"
    BY <1>5, DiesReply DEF AptFits
  <2> QED
    BY <1>4, <1>5, <2>1, DiesReply
<1>6. CASE Works(c) /\ UNCHANGED outcome
  <2>1. CASE Looks(c) /\ UNCHANGED guestVars
    <3>1. CASE Next
      BY <1>0, <1>6, <2>1, <3>1, LooksBearing
    <3>2. CASE UNCHANGED vars
      BY <1>2, <3>2 DEF vars, helperVars, Same
    <3> QED
      BY <3>1, <3>2
  <2>2. CASE Mutates(c)
    BY <1>0, <1>1, <1>6, <2>2, MutatesAt DEF Bearing, SeenPlan, SeenDpkg, Planning
  <2>3. CASE CommandFails(c)
    <3>1. CASE Fails(c, {"timeout", "execution_failed"})
      BY <1>4, <1>6, <3>1, FailsReply DEF Failures
    <3>2. CASE op[c] = "health" /\ Resume(c, "recheck", seen[c])
      BY <1>0, <1>1, <1>6, <3>2, ResumeReply DEF Bearing, SeenPlan, SeenDpkg, Planning, Failed
    <3> QED
      BY <2>3, <3>1, <3>2, FailsAt
  <2> QED
    BY <1>6, <2>1, <2>2, <2>3 DEF Works
<1> QED
  BY <1>2, <1>3, <1>5, <1>6, StepOf

LEMMA BorneAlways == Spec => []Borne
<1>1. Init => Borne
  BY UnreadType DEF Init, HelperInit, Borne, SeenPlan, SeenDpkg, SeenTold, Past, GoodNews
<1>2. Typed /\ AptFits /\ Borne /\ [Next]_vars => Borne'
  <2> SUFFICES ASSUME Typed, AptFits, Borne, [Next]_vars, NEW c \in Calls PROVE Bearing(c)'
    BY DEF Borne, Bearing, Calls
  <2> QED
    BY BearingInductive DEF Borne, Bearing
<1> QED
  BY <1>1, <1>2, HelperTypes, AptOwned, PTL DEF Spec

(* A plan, a Scan's result and a good Health show a guest whose database   *)
(* was finished at some moment of the request.                             *)
THEOREM EvidenceSeen == Spec => []EvidenceWasSeen
<1>1. Borne => EvidenceWasSeen
  BY DEF Borne, SeenTold, GoodNews, EvidenceWasSeen
<1> QED
  BY <1>1, BorneAlways, PTL

(* dpkg is called interrupted only where a dpkg run had left something     *)
(* half-installed, or had ended, while the check ran.                      *)
THEOREM Interrupted == Spec => []InterruptedIsPositive
<1>1. Borne => InterruptedIsPositive
  BY DEF Borne, SeenTold, Failed, InterruptedIsPositive
<1> QED
  BY <1>1, BorneAlways, PTL

-----------------------------------------------------------------------------
(***************************************************************************)
(* A Health check says something of the guest only while it runs.          *)
(***************************************************************************)
LEMMA Verdicted ==
  ASSUME Typed, NEW c \in Calls, op[c] = "health", reply[c] # "ok", reply'[c] = "ok", Looks(c)
  PROVE  running \/ seen'[c].exec = "gone"
<1> USE DEF At
<1>1. pc[c] \in HealthPath \cup {"recheck_exec", "none", "sent", "ended"}
  BY DEF Typed, PcFits, PathOf
<1>2. Gone.exec = "gone"
  BY UnreadType
<1>3. \A failures \in SUBSET Failures : ~Fails(c, failures)
  BY FailsReply
<1>4. ASSUME NEW e, Saw(c, e), pc[c] \in HealthPath \ {"recheck"} PROVE FALSE
  BY <1>4, HealthNext, SawReply DEF HealthPath
<1>5. ASSUME NEW s, NEW e, Resume(c, s, e) PROVE FALSE
  BY <1>5, ResumeReply
<1>6. CASE RecheckExec(c)
  BY <1>2, <1>6, ReportReply DEF RecheckExec
<1>7. CASE Probes(c)
  BY <1>5, <1>7 DEF Probes
<1>8. CASE Rechecks(c)
  BY <1>2, <1>8, AnswerReply, ReportReply DEF Rechecks
<1>9. ASSUME Begins(c) PROVE FALSE
  <2>1. Enters(c) \/ Fails(c, {"unknown_operation", "execution_failed", "package_manager_busy"})
    BY <1>9 DEF Begins, Enters, Fails
  <2> QED
    BY <1>3, <2>1 DEF Enters, Failures
<1>10. ASSUME Target(c) PROVE FALSE
  BY <1>3, <1>4, <1>10 DEF Target, Continues, Failures, HealthPath
<1>11. ASSUME Exec(c) PROVE FALSE
  BY <1>4, <1>5, <1>11 DEF Exec, Continues, HealthPath
<1>12. ASSUME Reads(c) PROVE FALSE
  BY <1>3, <1>5, <1>12 DEF Reads, Failures
<1>13. ASSUME Rereads(c) PROVE FALSE
  BY <1>3, <1>4, <1>13 DEF Rereads, Failures, HealthPath
<1>14. ASSUME AuditReads(c) \/ AuditTests(c) PROVE FALSE
  BY <1>4, <1>14 DEF AuditReads, AuditTests, HealthPath
<1>15. ASSUME AuditFails(c) PROVE FALSE
  BY <1>5, <1>15 DEF AuditFails
<1> QED
  BY <1>1, <1>6, <1>7, <1>8, <1>9, <1>10, <1>11, <1>12, <1>13, <1>14, <1>15
  DEF Looks, Os, Refreshes, Marker, Simulates, Inventory, Sanity, AptReturns, Pong, HealthPath

(* A check that reports anything of the guest other than that it is gone   *)
(* does so in a state in which the guest runs.                             *)
THEOREM Running == Spec => VerdictWhileRunning
<1>1. ASSUME Typed, AptFits, [Next]_vars, NEW c \in Calls, op[c] = "health",
             reply[c] # "ok", reply'[c] = "ok", seen'[c].exec # "gone"
      PROVE  running
  <2>1. CASE Side(c) \/ Same(c) \/ Dies(c)
    BY <1>1, <2>1, SideOthers, DiesReply DEF Typed, Same
  <2>2. CASE Works(c)
    <3>1. CASE Mutates(c)
      BY <1>1, <3>1, MutatesAt
    <3>2. CASE CommandFails(c)
      BY <1>1, <3>2, FailsAt, FailsReply, ResumeReply DEF Failures
    <3>3. CASE Looks(c)
      BY <1>1, <3>3, Verdicted
    <3> QED
      BY <2>2, <3>1, <3>2, <3>3 DEF Works
  <2> QED
    BY <1>1, <2>1, <2>2, StepOf
<1>2. Typed /\ AptFits /\ [Next]_vars =>
        \A c \in Calls :
          op[c] = "health" /\ reply[c] # "ok" /\ reply'[c] = "ok" /\ seen'[c].exec # "gone"
            => running
  BY <1>1
<1> QED
  BY <1>2, HelperTypes, AptOwned, PTL DEF Spec, VerdictWhileRunning

-----------------------------------------------------------------------------
(***************************************************************************)
(* What HelperEnds rests on, short of fairness.                            *)
(***************************************************************************)
(* A step that takes one at least from what is left, or adds nothing.      *)
Nearer(c) == Left(op'[c], pc'[c]) < Left(op[c], pc[c])

Ahead(c) == Left(op'[c], pc'[c]) <= Left(op[c], pc[c])

(* Something is left exactly while the process is at work.                 *)
LEMMA Lefts ==
  /\ \A o, s : Left(o, s) \in 0 .. 10 /\ (s \in {"none", "ended"} => Left(o, s) = 0)
  /\ \A o : \A s \in PathOf(o) \cup {"sent"} : Left(o, s) > 0
BY DEF Left, PathOf, ScanPath, PlanPath, UpdatePath, PingPath, HealthPath

(* A process that works has begun and has not ended.                       *)
LEMMA WorksAt ==
  ASSUME Typed, NEW c \in Calls, Works(c)
  PROVE  pc[c] \in PathOf(op[c]) \cup {"sent"}
<1>1. CASE Looks(c)
  <2>1. pc[c] \notin {"none", "ended"}
    BY <1>1 DEF Looks, Begins, Target, Os, Refreshes, Marker, Simulates, Inventory, Sanity,
                AptReturns, Pong, Exec, RecheckExec, Reads, Rereads, AuditReads, AuditTests,
                AuditFails, Probes, Rechecks, At
  <2> QED
    BY <2>1 DEF Typed, PcFits
<1>2. CASE Mutates(c)
  BY <1>2 DEF Mutates, At, Typed, PcFits
<1>3. CASE CommandFails(c)
  BY <1>3, IsLive DEF CommandFails, Typed, PcFits
<1> QED
  BY <1>1, <1>2, <1>3 DEF Works

(* Whatever it does then brings it nearer.                                 *)
LEMMA WorksNearer ==
  ASSUME Typed, NEW c \in Calls, Works(c)
  PROVE  Nearer(c)
<1>0. pc \in [Calls -> Steps \cup {"none", "sent", "ended"}]
  BY DEF Typed, TypeOK, HelperTypeOK
<1>1. CASE Enters(c)
  <2>1. Left(op[c], "target") < Left(op[c], "sent")
    BY DEF Left
  <2> QED
    BY <1>0, <1>1, <2>1 DEF Enters, Nearer
<1>2. CASE GoesOn(c)
  BY <1>0, <1>2 DEF GoesOn, Resume, Nearer
<1>3. CASE Leaves(c)
  <2>1. pc'[c] = "ended"
    BY <1>0, <1>3 DEF Leaves, Exit
  <2>2. Left(op[c], pc[c]) > 0
    BY WorksAt, Lefts
  <2> QED
    BY <2>1, <2>2, Lefts DEF Nearer
<1> QED
  BY <1>1, <1>2, <1>3, WorksShape DEF Typed

(* Once a request is on its way, every step of its process brings it       *)
(* nearer to its end, and nothing takes it back: not the guest, not the    *)
(* other processes, not what becomes of the session.                       *)
THEOREM ProcessNearer ==
  Spec => [][\A c \in Calls : /\ Works(c) => Nearer(c)
                              /\ pc[c] # "none" => Ahead(c)]_vars
<1>1. ASSUME Typed, AptFits, [Next]_vars, NEW c \in Calls, pc[c] # "none"
      PROVE  Ahead(c)
  <2>0. pc \in [Calls -> Steps \cup {"none", "sent", "ended"}] /\ op' = op
    BY <1>1, StepOf DEF Typed, TypeOK, HelperTypeOK
  <2>1. pc'[c] \in {pc[c], "ended"} => Ahead(c)
    BY <2>0, Lefts DEF Ahead
  <2>2. CASE Side(c)
    <3>1. ~Call(c)
      BY <1>1 DEF Call, AptFits
    <3> QED
      BY <2>0, <2>1, <2>2, <3>1
      DEF Side, Delivered, TimesOut, SessionLost, NeverArrives, helperVars
  <2>3. CASE Works(c)
    <3>1. Nearer(c)
      BY <1>1, <2>3, WorksNearer
    <3> QED
      BY <3>1, Lefts DEF Nearer, Ahead
  <2>4. CASE Dies(c) \/ Same(c)
    BY <2>0, <2>1, <2>4 DEF Dies, Same
  <2> QED
    BY <1>1, <2>2, <2>3, <2>4, StepOf
<1>2. Typed /\ AptFits /\ [Next]_vars =>
        \A c \in Calls : /\ Works(c) => Nearer(c)
                         /\ pc[c] # "none" => Ahead(c)
  BY <1>1, WorksNearer
<1> QED
  BY <1>2, HelperTypes, AptOwned, PTL DEF Spec

(* And a process that has ended, however it did, holds no flock: the flock *)
(* belongs to nobody or to a process that is at a command, so a guest is   *)
(* never lost to a process that is gone.                                   *)
THEOREM FlockOfTheLiving == Spec => [](flock # Nobody => flock \in Calls /\ Live(flock))
<1> DEFINE Inv == flock # Nobody => flock \in Calls /\ pc[flock] \notin {"none", "sent", "ended"}
<1>1. Init => Inv
  BY DEF Init, HelperInit
<1>2. Typed /\ AptFits /\ Inv /\ [Next]_vars => Inv'
  <2> SUFFICES ASSUME Typed, AptFits, Inv, [Next]_vars PROVE Inv'
    OBVIOUS
  <2>0. pc \in [Calls -> Steps \cup {"none", "sent", "ended"}]
    BY DEF Typed, TypeOK, HelperTypeOK
  <2>1. CASE UNCHANGED <<pc, flock>>
    BY <2>1
  <2>2. ASSUME NEW c \in Calls, Side(c) PROVE Inv'
    <3>1. flock' = flock
      BY <2>2, SideOthers DEF Typed
    <3>2. pc' = pc \/ (pc[c] \in {"none", "sent"} /\ \E s : pc' = [pc EXCEPT ![c] = s])
      BY <2>2 DEF Side, Call, Delivered, TimesOut, SessionLost, NeverArrives, helperVars, AptFits
    <3> QED
      BY <2>0, <3>1, <3>2
  <2>3. ASSUME NEW c \in Calls, Works(c) PROVE Inv'
    <3>1. CASE Enters(c)
      BY <2>0, <3>1 DEF Enters
    <3>2. CASE GoesOn(c)
      BY <2>0, <3>2, NoCommand DEF GoesOn, Resume
    <3>3. CASE Leaves(c)
      BY <2>0, <3>3 DEF Leaves, Exit
    <3> QED
      BY <2>3, <3>1, <3>2, <3>3, WorksShape DEF Typed
  <2>4. ASSUME NEW c \in Calls, Dies(c) PROVE Inv'
    BY <2>0, <2>4 DEF Dies
  <2> QED
    BY <2>1, <2>2, <2>3, <2>4, SomeStep DEF vars, helperVars
<1>3. Typed /\ Inv => (flock # Nobody => flock \in Calls /\ Live(flock))
  BY IsLive DEF Typed
<1> QED
  BY <1>1, <1>2, <1>3, HelperTypes, AptOwned, PTL DEF Spec
=============================================================================

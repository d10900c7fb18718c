-------------------------- MODULE HelperTransport --------------------------
(***************************************************************************)
(* packages/transport.py: one package request from Home Assistant to the   *)
(* helper and back.  A request is an SSH session of its own with a bound   *)
(* that exceeds the helper's deadline; whatever comes back, or does not,   *)
(* becomes one outcome.  When the session is lost or runs out of time the  *)
(* helper is not told: it goes on, with the guest's flock, to its own end. *)
(***************************************************************************)
EXTENDS PackageHelper

VARIABLES
    outcome,    \* "idle", "waiting", or what Home Assistant made of a request
    held        \* history: what was true of the guest while its helper ran

vars == <<guestVars, helperVars, outcome, held>>

Mutation == {"mutated", "mutation_timed_out", "mutation_uncertain", "mutation_failed",
             "package_manager_busy", "guest_unavailable", "helper_outdated",
             "plan_failed", "liveness_failed", "planned", "alive"}
Scan     == {"scanned", "scan_timeout", "scan_failed", "scan_guest_changed"}
Health   == {"healthy", "degraded", "failed_exec", "failed_dpkg", "unknown"}
Outcomes == Mutation \cup Scan \cup Health

Facts == {"clean", "broken", "finished", "sane"}

TypeOK ==
    /\ GuestTypeOK /\ HelperTypeOK
    /\ outcome \in [Calls -> Outcomes \cup {"idle", "waiting"}]
    /\ held \in [Calls -> SUBSET Facts]

Init ==
    /\ GuestInit /\ HelperInit
    /\ outcome = [c \in Calls |-> "idle"]
    /\ held = [c \in Calls |-> {}]

-----------------------------------------------------------------------------
\* Mutant of Parses: a simulation that counts unfinished packages is accepted.
ParsesPlan(s) == s.plan \cap s.newer = {}

\* The parsers: a simulation and an inventory that show one finished state of
\* the guest, and agree on the installed version of each package planned.
Parses(s) == s.sane /\ s.plan \cap s.newer = {}

\* _parse_update_response, and what each request does with its evidence.
PlanOutcome(c) ==
    CASE reply[c] = "package_manager_busy" -> "package_manager_busy"
      [] reply[c] \in {"guest_unavailable", "identity_mismatch"} -> "guest_unavailable"
      [] reply[c] = "unknown_operation" -> "helper_outdated"
      [] reply[c] = "ok" /\ Parses(seen[c]) -> "planned"
      [] OTHER -> "plan_failed"

MutationOutcome(c) ==
    CASE reply[c] = "package_manager_busy" -> "package_manager_busy"
      [] reply[c] \in {"guest_unavailable", "identity_mismatch"} -> "guest_unavailable"
      [] reply[c] = "unknown_operation" -> "helper_outdated"
      [] reply[c] = "ok" -> "mutated"
      [] reply[c] = "timeout" -> "mutation_timed_out"
      [] OTHER -> "mutation_failed"

PingOutcome(c) ==
    CASE reply[c] = "package_manager_busy" -> "package_manager_busy"
      [] reply[c] \in {"guest_unavailable", "identity_mismatch"} -> "guest_unavailable"
      [] reply[c] = "unknown_operation" -> "helper_outdated"
      [] reply[c] = "ok" -> "alive"
      [] OTHER -> "liveness_failed"

ScanOutcome(c) ==
    CASE reply[c] = "ok" -> IF Parses(seen[c]) THEN "scanned" ELSE "scan_guest_changed"
      [] reply[c] = "timeout" -> "scan_timeout"
      [] OTHER -> "scan_failed"

\* classify_health: a failure of the guest needs positive evidence.
HealthOutcome(c) ==
    IF reply[c] # "ok" \/ seen[c].exec = "gone" THEN "unknown"
    ELSE IF seen[c].exec = "failed" THEN "failed_exec"
    ELSE CASE seen[c].dpkg = "interrupted" -> "failed_dpkg"
           [] seen[c].dpkg = "ok" -> IF seen[c].reboot THEN "degraded" ELSE "healthy"
           [] OTHER -> "unknown"

Outcome(c) ==
    CASE op[c] = "scan" -> ScanOutcome(c)
      [] op[c] \in {"plan", "cleanup"} -> PlanOutcome(c)
      [] op[c] = "update" -> MutationOutcome(c)
      [] op[c] = "ping" -> PingOutcome(c)
      [] op[c] = "health" -> HealthOutcome(c)

\* Mutant of TimeoutOutcome: no answer in time means the guest was out of reach.
TimeoutOutcomeUnreached ==
    [scan |-> "scan_timeout", plan |-> "plan_failed", cleanup |-> "plan_failed",
     update |-> "guest_unavailable", ping |-> "liveness_failed", health |-> "unknown"]

\* The request ran out of its own time; the session was refused or lost, or
\* what it delivered is no answer: cut off, malformed, too long, or a success
\* without the exit status of one.
TimeoutOutcome ==
    [scan |-> "scan_timeout", plan |-> "plan_failed", cleanup |-> "plan_failed",
     update |-> "mutation_timed_out", ping |-> "liveness_failed", health |-> "unknown"]
LostOutcome ==
    [scan |-> "scan_failed", plan |-> "plan_failed", cleanup |-> "plan_failed",
     update |-> "mutation_uncertain", ping |-> "liveness_failed", health |-> "unknown"]

-----------------------------------------------------------------------------
Returns(c, o) ==
    /\ outcome[c] = "waiting"
    /\ outcome' = [outcome EXCEPT ![c] = o]

Call(c) ==
    /\ outcome[c] = "idle" /\ \A d \in 1..c - 1 : outcome[d] # "idle"
    /\ outcome' = [outcome EXCEPT ![c] = "waiting"]
    /\ pc' = [pc EXCEPT ![c] = "sent"]
    /\ UNCHANGED <<op, flock, reply, seen>> /\ UNCHANGED guestVars

Delivered(c) ==
    /\ pc[c] = "ended" /\ reply[c] # "none"
    /\ Returns(c, Outcome(c))
    /\ UNCHANGED <<helperVars, guestVars>>

TimesOut(c) == Returns(c, TimeoutOutcome[op[c]]) /\ UNCHANGED <<helperVars, guestVars>>

SessionLost(c) == Returns(c, LostOutcome[op[c]]) /\ UNCHANGED <<helperVars, guestVars>>

\* A request that was given up before its session reached the host.
NeverArrives(c) ==
    /\ pc[c] = "sent" /\ outcome[c] # "waiting"
    /\ pc' = [pc EXCEPT ![c] = "ended"]
    /\ UNCHANGED <<op, flock, reply, seen>>
    /\ UNCHANGED <<outcome, guestVars>>

-----------------------------------------------------------------------------
\* What holds of the guest in one state, as far as it bears on the operation of
\* a request; that a dpkg run ended well is a fact of the step.
Now(c) ==
    (IF Unfinished = {} /\ op[c] \notin {"update", "ping"} THEN {"clean"} ELSE {})
    \cup (IF Unfinished = {} /\ apt[c] = "ok" THEN {"sane"} ELSE {})
    \cup (IF Broken /\ op[c] = "health" THEN {"broken"} ELSE {})

Ends(c) == IF locked /\ ~locked' /\ Half' = {} /\ op[c] = "health" THEN {"finished"} ELSE {}

Observe ==
    held' = [c \in Calls |-> IF Live(c) \/ Live(c)' THEN held[c] \cup Now(c)' \cup Ends(c)
                                                    ELSE held[c]]

Next ==
    /\ \/ \E c \in Calls : Call(c) \/ Delivered(c) \/ TimesOut(c)
                           \/ SessionLost(c) \/ NeverArrives(c)
       \/ HelperStep /\ UNCHANGED outcome
       \/ /\ \E c \in Calls : pc[c] # "ended"        \* bound: nobody is left to see it
          /\ GuestStep /\ UNCHANGED <<helperVars, outcome>>
    /\ Observe

\* A process runs on, and a command that hangs runs out of its time.  Nothing
\* is assumed of the guest, whose apt may hang for ever, nor of the session.
Fairness == \A c \in Calls : WF_vars(Works(c) /\ UNCHANGED outcome /\ Observe)

Spec == Init /\ [][Next]_vars /\ Fairness

-----------------------------------------------------------------------------
(* Properties *)

\* What Home Assistant says of a mutation is true of the guest: a success only
\* of an apt that ended well and left a finished database behind, "guest
\* unavailable" and "helper outdated" only when nothing was started, and
\* "busy" never while the apt of that request still works.
\* transport.py _parse_update_response, async_update; helper _update_packages.
MutationTold ==
    \A c \in Calls : op[c] = "update" =>
        /\ outcome[c] = "mutated" => apt[c] = "ok" /\ "sane" \in held[c]
        /\ outcome[c] \in {"guest_unavailable", "helper_outdated"} => apt[c] = "no"
        /\ outcome[c] = "package_manager_busy" => apt[c] # "running"

\* A plan, a Scan result or a good Health is given only of a guest whose
\* database was finished at some moment of that request, whatever else worked
\* on it meanwhile.
\* parser.py parse_apt_simulation; helper _plan_autoremove, _check_dpkg_health.
EvidenceWasSeen ==
    \A c \in Calls :
        outcome[c] \in {"planned", "scanned", "healthy", "degraded"} => "clean" \in held[c]

\* A Health check says something of the guest only in a state where the guest
\* runs, after every other reading: a guest that went away during the check is
\* "gone", neither healthy nor failed.
\* helper _check_health, _guest_still_running.
VerdictWhileRunning ==
    [][\A c \in Calls :
          op[c] = "health" /\ reply[c] # "ok" /\ reply'[c] = "ok" /\ seen'[c].exec # "gone"
             => running]_vars

\* A check calls dpkg interrupted only if, while it ran, a dpkg run had left a
\* half-installed package behind, or a dpkg run ended: it never takes a dpkg
\* run that goes on for one that was interrupted.
\* helper _check_dpkg_health, _audit_dpkg_lock.
InterruptedIsPositive ==
    \A c \in Calls : outcome[c] = "failed_dpkg" => held[c] \cap {"broken", "finished"} # {}

\* ARCHITECTURE.md:966-969 claims more: "outside a running dpkg, which holds the
\* database lock, a half-installed package exists only after a failed or killed
\* dpkg run, so audit's own half-installed report with a clear database lock is
\* the positive evidence".
InterruptedMeansBroken ==
    \A c \in Calls : outcome[c] = "failed_dpkg" => "broken" \in held[c]

\* A mutation reaches the guest while the apt of another still works there only
\* when the process of the other was cut off from it: it timed out, was given up
\* or died.  A process that answers otherwise has seen its apt end.
\* helper _target_lock, _run_bounded.
MutationsSerial ==
    [][\A c, d \in Calls :
          apt[c] = "no" /\ apt'[c] # "no" /\ apt[d] = "running"
             => pc[d] = "ended" /\ reply[d] \in {"none", "timeout", "execution_failed"}]_vars

\* To the attempt that makes it, a request for a mutation is a MutationRequest:
\* this is all that SafetySnapshot assumes of the transport, the helper and the
\* guest.  A request whose session has not reached the guest is "sent", whether
\* it still may or never will.
SeenAs == [no |-> "sent", running |-> "running", ok |-> "good", failed |-> "bad", busy |-> "bad"]

AptOf(c) == IF op[c] = "update" /\ outcome[c] # "idle" THEN SeenAs[apt[c]] ELSE "none"

ToldOf(c) ==
    IF op[c] = "update" /\ outcome[c] \notin {"idle", "waiting"} THEN outcome[c] ELSE "none"

Request(c) == INSTANCE MutationRequest WITH apt <- AptOf(c), told <- ToldOf(c)

ImplementsRequest ==
    /\ \A c \in Calls : Request(c)!Init
    /\ [][\A c \in Calls : [Request(c)!Next]_(Request(c)!vars)]_vars

\* However a session ended, the process it started comes to its own end and
\* gives the guest back, though what it runs there may hang.
\* helper _run_bounded, OperationDeadline, _target_lock.
HelperEnds ==
    \A c \in Calls : pc[c] = "sent" ~> (pc[c] = "ended" /\ flock # c)
=============================================================================

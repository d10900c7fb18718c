--------------------------- MODULE PackageHelper ---------------------------
(***************************************************************************)
(* deploy/hubinet-package-scan-helper.py: the forced command a request     *)
(* runs as root on the Proxmox VE host.  One process per request takes the *)
(* guest's flock without waiting, runs a fixed sequence of commands under  *)
(* one deadline, gives the flock back and answers with evidence or with    *)
(* one classified failure.  A command on the host or in the guest is one   *)
(* step; between two steps of a process the guest and the other processes  *)
(* do what they like.  update_packages stands for autoremove_packages too: *)
(* the two differ in apt's arguments only.                                 *)
(***************************************************************************)
EXTENDS GuestPackages

\* The commands of each operation, in their order.
Path ==
    [scan    |-> [target |-> "os", os |-> "refresh", refresh |-> "simulate",
                  simulate |-> "inventory", inventory |-> "marker", marker |-> "answer"],
     plan    |-> [target |-> "simulate", simulate |-> "inventory", inventory |-> "answer"],
     cleanup |-> [target |-> "inventory", inventory |-> "simulate", simulate |-> "answer"],
     update  |-> [target |-> "before", before |-> "mutate", mutate |-> "apt",
                  apt |-> "after", after |-> "answer"],
     ping    |-> [target |-> "pong", pong |-> "answer"],
     health  |-> [target |-> "exec", exec |-> "read", read |-> "reread",
                  reread |-> "audit", audit |-> "lock", lock |-> "probe",
                  probe |-> "recheck", recheck |-> "answer"]]

Ops   == DOMAIN Path

CONSTANT Requests          \* the operations the calls may ask for: functions on Calls

ASSUME RequestsAssumption == Requests \subseteq [Calls -> Ops]

VARIABLES
    op,         \* the operation of each request
    pc,         \* where the process of each request is
    flock,      \* the process that holds the guest's flock
    reply,      \* what the process answered
    seen        \* what the process has read so far

helperVars == <<op, pc, flock, reply, seen>>

Steps == (UNION {DOMAIN Path[o] : o \in Ops}) \cup {"recheck_exec"}

Failures == {"timeout", "execution_failed", "guest_unavailable", "identity_mismatch",
             "package_manager_busy", "unsupported_os", "metadata_refresh_failed",
             "simulation_failed", "mutation_failed", "dpkg_unfinished",
             "liveness_failed", "unsupported_guest", "malformed_evidence",
             "unknown_operation"}

\* What a Health check says of dpkg, and of running something in the guest.
Verdicts == {"none", "ok", "interrupted", "pending", "busy", "lock_unknown", "changed"}
Execs    == {"yes", "failed", "gone"}

Unread == [half |-> {}, persisted |-> FALSE, report |-> {}, audited |-> FALSE,
           boot |-> 0, dpkg |-> "none", exec |-> "yes", reboot |-> FALSE, probed |-> FALSE,
           sane |-> TRUE, plan |-> {}, newer |-> {}]

SeenType ==
    [half : SUBSET Pkgs, persisted : BOOLEAN, report : SUBSET Pkgs, audited : BOOLEAN,
     boot : 0..MaxEvents, dpkg : Verdicts, exec : Execs, reboot : BOOLEAN, probed : BOOLEAN,
     sane : BOOLEAN, plan : SUBSET Pkgs, newer : SUBSET Pkgs]

HelperTypeOK ==
    /\ op \in [Calls -> Ops]
    /\ pc \in [Calls -> Steps \cup {"none", "sent", "ended"}]
    /\ flock \in Calls \cup {Nobody}
    /\ reply \in [Calls -> Failures \cup {"none", "ok"}]
    /\ seen \in [Calls -> SeenType]

HelperInit ==
    /\ op \in Requests
    /\ pc = [c \in Calls |-> "none"]
    /\ flock = Nobody
    /\ reply = [c \in Calls |-> "none"]
    /\ seen = [c \in Calls |-> Unread]

Live(c) == pc[c] \in Steps

At(c, s) == pc[c] = s

-----------------------------------------------------------------------------
\* Leave the flock, print the answer and exit.  A failure carries no evidence.
Exit(c, r, evidence) ==
    /\ pc' = [pc EXCEPT ![c] = "ended"]
    /\ flock' = IF flock = c THEN Nobody ELSE flock
    /\ reply' = [reply EXCEPT ![c] = r]
    /\ seen' = [seen EXCEPT ![c] = evidence]
    /\ UNCHANGED op

Answer(c, r)        == Exit(c, r, Unread)
Report(c, evidence) == Exit(c, "ok", evidence)

\* Keep the evidence and go on with the command s; after the last command,
\* answer with what was seen.
Resume(c, s, evidence) ==
    /\ pc' = [pc EXCEPT ![c] = s]
    /\ seen' = [seen EXCEPT ![c] = evidence]
    /\ UNCHANGED <<op, flock, reply>>

Saw(c, evidence) ==
    LET s == Path[op[c]][pc[c]] IN
    IF s = "answer" THEN Report(c, evidence) ELSE Resume(c, s, evidence)

Continues(c) == Saw(c, seen[c])

Fails(c, failures) == \E r \in failures : Answer(c, r)

-----------------------------------------------------------------------------
\* Mutant of Begins: a process that does not ask for the flock.
BeginsUnlocked(c) ==
    /\ At(c, "sent")
    /\ pc' = [pc EXCEPT ![c] = "target"]
    /\ UNCHANGED <<op, flock, reply, seen>>

\* The process starts, reads the request and takes the flock of the VMID, or
\* refuses at once; an old helper may know nothing of the operation.
Begins(c) ==
    /\ At(c, "sent")
    /\ \/ op[c] # "scan" /\ Answer(c, "unknown_operation")
       \/ Answer(c, "execution_failed")
       \/ flock # Nobody /\ Answer(c, "package_manager_busy")
       \/ /\ flock = Nobody /\ flock' = c
          /\ pc' = [pc EXCEPT ![c] = "target"]
          /\ UNCHANGED <<op, reply, seen>>

\* The local node, the container's configuration and its state.
Target(c) ==
    /\ At(c, "target")
    /\ \/ running /\ Continues(c)
       \/ Fails(c, {"identity_mismatch", "guest_unavailable"})

\* os-release and apt's version; apt-get update; the reboot marker of a Scan.
Os(c) ==
    /\ At(c, "os")
    /\ \/ running /\ (Continues(c) \/ Answer(c, "unsupported_os"))
       \/ Answer(c, "guest_unavailable")

Refreshes(c) ==
    /\ At(c, "refresh")
    /\ \/ running /\ Continues(c)
       \/ Fails(c, {"package_manager_busy", "metadata_refresh_failed"})

Marker(c) == At(c, "marker") /\ Continues(c)

\* apt-get -s: what it would do, and whether it counts packages as not fully
\* installed.
Simulates(c) ==
    /\ At(c, "simulate")
    /\ \/ running /\ Saw(c, [seen[c] EXCEPT !.plan = Upgradable,
                                            !.sane = @ /\ Unfinished = {}])
       \/ Fails(c, {"package_manager_busy", "simulation_failed"})

\* dpkg-query for a plan.  Only the plan of a cleanup refuses an unfinished
\* inventory here; the others leave that to Home Assistant's parser.
Refuses(c) == op[c] = "cleanup" /\ Unfinished # {}

Inventory(c) ==
    /\ At(c, "inventory")
    /\ \/ running /\ ~Refuses(c) /\ Saw(c, [seen[c] EXCEPT !.newer = Pkgs \ Upgradable,
                                                           !.sane = @ /\ Unfinished = {}])
       \/ running /\ Refuses(c) /\ Answer(c, "dpkg_unfinished")
       \/ Answer(c, "execution_failed")

\* dpkg-query before and after the mutation: an unfinished package ends it.
Sanity(c) ==
    /\ At(c, "before") \/ At(c, "after")
    /\ \/ running /\ Unfinished = {} /\ Continues(c)
       \/ running /\ Unfinished # {} /\ Answer(c, "dpkg_unfinished")
       \/ Answer(c, "execution_failed")

\* The one apt-get upgrade or autoremove starts in the guest ...
Mutates(c) ==
    /\ At(c, "mutate")
    /\ \/ running /\ AptStarts(c) /\ Continues(c)
       \/ ~running /\ Answer(c, "mutation_failed") /\ UNCHANGED guestVars

\* Mutant of AptReturns: apt's exit status is not looked at.
AptReturnsUnchecked(c) == At(c, "apt") /\ apt[c] # "running" /\ Continues(c)

\* ... and returns.  What a failed one printed may match the patterns of a
\* busy package manager whatever it failed of.
AptReturns(c) ==
    /\ At(c, "apt")
    /\ \/ apt[c] = "ok" /\ Continues(c)
       \/ apt[c] = "failed" /\ Fails(c, {"mutation_failed", "package_manager_busy"})
       \/ apt[c] = "busy" /\ Answer(c, "package_manager_busy")

\* /bin/true in the guest, for a Ping.
Pong(c) ==
    /\ At(c, "pong")
    /\ (running /\ Continues(c)) \/ Answer(c, "liveness_failed")

-----------------------------------------------------------------------------
\* Health: /bin/true in the guest; when it fails, the guest's state again.
Exec(c) ==
    /\ At(c, "exec")
    /\ (running /\ Continues(c)) \/ Resume(c, "recheck_exec", seen[c])

Gone == [Unread EXCEPT !.exec = "gone"]

RecheckExec(c) ==
    /\ At(c, "recheck_exec")
    /\ \/ running /\ Report(c, [Unread EXCEPT !.exec = "failed"])
       \/ Report(c, Gone)

\* The first reading of the inventory decides which commands follow.
Reads(c) ==
    /\ At(c, "read")
    /\ \/ Fails(c, {"unsupported_guest", "malformed_evidence"})
       \/ running /\ Unfinished = {} /\ Resume(c, "probe", [seen[c] EXCEPT !.dpkg = "ok"])
       \/ running /\ Half # {} /\ Resume(c, "reread", [seen[c] EXCEPT !.half = Half])
       \/ running /\ Half = {} /\ Unfinished # {} /\ Resume(c, "audit", seen[c])

Rereads(c) ==
    /\ At(c, "reread")
    /\ \/ Fails(c, {"unsupported_guest", "malformed_evidence"})
       \/ running /\ Saw(c, [seen[c] EXCEPT !.persisted = seen[c].half \subseteq Half])

\* dpkg --audit takes no lock: it reads the database, and only when that shows
\* a problem it tests the database lock, a moment later.
AuditReads(c) ==
    /\ At(c, "audit") /\ running
    /\ Saw(c, [seen[c] EXCEPT !.report = Half, !.audited = Unfinished # {},
                              !.boot = stops])

\* Mutant of Verdict: the notice of a busy database is overlooked.
VerdictUnlocked(s) ==
    IF s.half = {} THEN "pending"
    ELSE IF s.persisted /\ s.report # {} THEN "interrupted" ELSE "changed"

\* The verdict on dpkg once audit has answered.
Verdict(s) ==
    IF s.audited /\ locked THEN "busy"
    ELSE IF s.half = {} THEN "pending"
    ELSE IF s.persisted /\ s.report # {} THEN "interrupted" ELSE "changed"

AuditTests(c) ==
    /\ At(c, "lock") /\ running /\ seen[c].boot = stops
    /\ Saw(c, [seen[c] EXCEPT !.dpkg = Verdict(seen[c])])

\* Audit fails, cannot be decoded or prints too much: nothing is known.
AuditFails(c) ==
    /\ At(c, "audit") \/ At(c, "lock")
    /\ Resume(c, "probe", [seen[c] EXCEPT !.dpkg = "lock_unknown"])

\* test -e /var/run/reboot-required: the marker is there, it is not, or the
\* command did not run.
Probes(c) ==
    /\ At(c, "probe")
    /\ \/ running /\ Report(c, [seen[c] EXCEPT !.reboot = TRUE])
       \/ \E ran \in {FALSE, running} : Resume(c, "recheck", [seen[c] EXCEPT !.probed = ran])

\* Whether the guest still runs decides what the probe's answer is worth.  A
\* probe that did not run leaves only an interrupted dpkg standing.
Stands(c) == seen[c].probed \/ seen[c].dpkg = "interrupted"

\* Mutant of Rechecks: the guest's state is not asked for again.
RechecksNothing(c) == At(c, "recheck") /\ Stands(c) /\ Report(c, seen[c])

Rechecks(c) ==
    /\ At(c, "recheck")
    /\ \/ running /\ Stands(c) /\ Report(c, seen[c])
       \/ running /\ ~Stands(c) /\ Answer(c, "execution_failed")
       \/ Report(c, Gone)

-----------------------------------------------------------------------------
\* A command runs out of its own time, of the time left to the operation or of
\* its output's bound, or its output cannot be decoded: the process kills what
\* it started and gives up, except that a probe which produced no result
\* leaves an interrupted dpkg standing.
Shielded(c) == At(c, "probe") /\ seen[c].dpkg = "interrupted"

\* Mutant of CommandFails: apt runs without a bound.
CommandFailsButApt(c) ==
    /\ Live(c) /\ ~At(c, "apt") /\ ~Shielded(c)
    /\ Answer(c, "timeout")
    /\ UNCHANGED guestVars

CommandFails(c) ==
    /\ Live(c)
    /\ \/ ~Shielded(c) /\ Answer(c, "timeout")
       \/ ~Shielded(c) /\ pc[c] \notin {"audit", "lock"} /\ Answer(c, "execution_failed")
       \/ Shielded(c) /\ Continues(c)
    /\ IF At(c, "apt") THEN Severed(c) ELSE UNCHANGED guestVars

\* The process dies without an answer, and its flock with it.
Dies(c) ==
    /\ Live(c) /\ Event
    /\ pc' = [pc EXCEPT ![c] = "ended"]
    /\ flock' = IF flock = c THEN Nobody ELSE flock
    /\ seen' = [seen EXCEPT ![c] = Unread]
    /\ UNCHANGED <<op, reply>>
    /\ UNCHANGED <<running, db, frontend, locked, apt, stops>>

\* A command that leaves the guest as it is.
Looks(c) ==
    \/ Begins(c) \/ Target(c) \/ Os(c) \/ Refreshes(c) \/ Marker(c)
    \/ Simulates(c) \/ Inventory(c) \/ Sanity(c) \/ AptReturns(c) \/ Pong(c)
    \/ Exec(c) \/ RecheckExec(c) \/ Reads(c) \/ Rereads(c)
    \/ AuditReads(c) \/ AuditTests(c) \/ AuditFails(c) \/ Probes(c) \/ Rechecks(c)

\* The process goes on with its work.
Works(c) == (Looks(c) /\ UNCHANGED guestVars) \/ Mutates(c) \/ CommandFails(c)

HelperStep == \E c \in Calls : Works(c) \/ Dies(c)
=============================================================================

-------------------------- MODULE MutationRequest --------------------------
(***************************************************************************)
(* What an Update or Autoremove may rely on when it asks the transport for *)
(* its one mutation of the guest (async_update, async_autoremove of        *)
(* packages/transport.py).  It is told one outcome, at a moment of the     *)
(* transport's choosing; a success is one of APT, a refusal means that     *)
(* nothing of this request is at work or will ever be, and any other       *)
(* failure says nothing of APT: it may not have begun, still run, or have  *)
(* gone well.                                                              *)
(***************************************************************************)
VARIABLES apt,    \* the mutation on the guest
          told    \* the outcome given for it

vars == <<apt, told>>

Apt      == {"none", "sent", "running", "good", "bad"}
Refusals == {"guest_unavailable", "helper_outdated", "package_manager_busy"}
Failures == Refusals \cup {"mutation_failed", "mutation_timed_out", "mutation_uncertain"}
Told     == {"none", "mutated"} \cup Failures

TypeOK == apt \in Apt /\ told \in Told

Init == apt = "none" /\ told = "none"

Send == apt = "none" /\ apt' = "sent" /\ UNCHANGED told

(* APT begins, or cannot; and ends.                                        *)
AptStep ==
  /\ told \notin Refusals
  /\ \/ apt = "sent" /\ apt' \in {"running", "bad"}
     \/ apt = "running" /\ apt' \in {"good", "bad"}
  /\ UNCHANGED told

Allowed(o) ==
  /\ o = "mutated" => apt = "good"
  /\ o \in Refusals => apt \in {"sent", "bad"}
  /\ o \in Refusals /\ o # "package_manager_busy" => apt = "sent"

Tell(o) == /\ apt # "none" /\ told = "none"
           /\ Allowed(o)
           /\ told' = o /\ UNCHANGED apt

Next == Send \/ AptStep \/ \E o \in Told \ {"none"} : Tell(o)

Spec == Init /\ [][Next]_vars
=============================================================================

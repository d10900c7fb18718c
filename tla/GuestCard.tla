------------------------------ MODULE GuestCard ------------------------------
(***************************************************************************)
(* The full LXC card (frontend/hubinet-ops-guest-cards.js with its logic   *)
(* modules) from what Home Assistant pushes to what a tap requests, and    *)
(* what the request then does.  The card renders facts that lag behind,    *)
(* puts a rebuild off while a pointer is pressed or the snapshot list is   *)
(* in use, and asks for a second tap before it does what cannot be undone. *)
(***************************************************************************)
EXTENDS Naturals, FiniteSets

CONSTANTS
  Device,      \* the LXCs a card can be configured for
  Snapshot,
  None,
  Action,      \* the buttons an instance shows
  Moving,      \* the flags of a fact that others change in an instance
  MaxScans,    \* Scans (bounds an instance)
  MaxChanges,  \* changes by others, and of the card's page (bounds an instance)
  MaxCalls     \* requests in flight, of each action one (bounds an instance)

(* Actions that need a second tap within CONFIRM_MS before they run. *)
CONFIRM == {"stop", "restore", "delete", "skip"}

ASSUME CardAssumption ==
  /\ Action \subseteq CONFIRM \cup {"update", "scan", "create"}
  /\ Moving \subseteq {"running", "working", "creating"}
  /\ None \notin Snapshot \cup Device \cup Action
  /\ MaxScans \in Nat /\ MaxChanges \in Nat /\ MaxCalls \in Nat

VARIABLES
  (* Home Assistant. *)
  truth,     \* the facts of each LXC
  scans,     \* Scans so far; a scan attempt is its number
  changes,
  calls,     \* requests in flight
  (* The card. *)
  config, hass, shown,
  armed,     \* _armed: the action and its exact target
  late,      \* CONFIRM_MS have passed since
  busy, pressing,
  open,      \* the snapshot list has the focus and nothing was chosen yet
  soon,      \* a render is scheduled with setTimeout(0)
  (* History that only properties read. *)
  first      \* the last arming tap, as long as nothing has voided it

server == <<truth, scans, changes, calls>>
vars == <<server, config, hass, shown, armed, late, busy, pressing,
          open, soon, first>>

Fact == [running : BOOLEAN,   \* status is running
         working : BOOLEAN,   \* a package operation is RUNNING
         creating : BOOLEAN,  \* snapshot_create_running
         scan : 0 .. MaxScans,  \* the attempt that found updates, or 0
         selected : Snapshot \cup {None}]
View == [device : Device, fact : Fact]
Detail == 0 .. MaxScans \cup Snapshot \cup {None}
Call == [action : Action \cup {"select"}, device : Device,
         names : Detail,        \* what the request itself names
         seen : Detail,         \* what of it the card showed at the tap
         done : BOOLEAN]

-----------------------------------------------------------------------------
(***************************************************************************)
(* deriveView and deriveGuestView: what a view offers, at most: that they   *)
(* also hide Update after one that failed, and everything while entities   *)
(* are missing, only takes taps away.                                      *)
(***************************************************************************)
HasUpdates(f) == f.running /\ ~f.working /\ f.scan # 0

Available(a, f) ==
  CASE a = "update" -> HasUpdates(f)
    [] a = "skip" -> HasUpdates(f) /\ ~f.creating
    [] a = "scan" -> f.running /\ ~f.working /\ f.scan = 0
    [] a = "stop" -> f.running
    [] a = "create" -> ~f.creating
    [] a \in {"restore", "delete"} -> f.selected # None /\ ~f.creating

(* confirmTarget: the exact operation a confirmation stands for, the card's*)
(* device and the entities of the view included; {} is not armable.        *)
confirmTarget(a, v, device) ==
  CASE a = "skip" -> IF Available(a, v.fact) THEN {<<device, v.fact.scan>>} ELSE {}
    [] a \in {"restore", "delete"} ->
         IF v.fact.selected = None THEN {} ELSE {<<device, v.device, v.fact.selected>>}
    [] OTHER -> {<<device, v.device>>}

(* Mutant of IsArmed: the tap is trusted to the timer alone. *)
IsArmedByTimer(arm, overdue, a, v, device) ==
  arm # None /\ arm.action = a /\ arm.target = confirmTarget(a, v, device)

IsArmed(arm, overdue, a, v, device) ==
  /\ arm # None /\ ~overdue /\ arm.action = a
  /\ arm.target = confirmTarget(a, v, device)

(* _render with the given device, facts, armed tap and state of the page:  *)
(* a changed target disarms, also while the rebuild itself is put off.     *)
Rendered(device, facts, arm, overdue, wait, press, in) ==
  LET v   == [device |-> device, fact |-> facts[device]]
      now == IF arm # None /\ IsArmed(arm, overdue, arm.action, v, device) THEN arm ELSE None
  IN /\ armed' = now
     /\ late' = (overdue /\ now # None)
     /\ shown' = IF press \/ in THEN shown
                 ELSE [view |-> v, busy |-> wait]

Render == Rendered(config, hass, armed, late, busy, pressing, open)

-----------------------------------------------------------------------------
(* What of a fact a tap is about. *)
About(a, f) == CASE a \in {"update", "skip"} -> f.scan
                 [] a \in {"restore", "delete"} -> f.selected
                 [] OTHER -> None

(* A confirmation is void once what it was of is no longer so. *)
Voided(tap, facts) == LET f == facts[tap.device] IN
  \/ About(tap.action, f) # tap.about
  \/ tap.action = "skip" /\ ~Available("skip", f)

Voids == first' = None

Init ==
  /\ scans = IF MaxScans = 0 THEN 0 ELSE 1
  /\ config \in Device
  /\ \E selected \in [Device -> Snapshot \cup {None}] :
       truth = [d \in Device |->
                  [running |-> TRUE, working |-> FALSE, creating |-> FALSE,
                   scan |-> IF d = config THEN scans ELSE 0, selected |-> selected[d]]]
  /\ changes = 0 /\ calls = {}
  /\ hass = truth
  /\ shown = [view |-> [device |-> config, fact |-> truth[config]], busy |-> FALSE]
  /\ armed = None /\ late = FALSE /\ busy = FALSE /\ pressing = FALSE
  /\ open = FALSE /\ soon = FALSE
  /\ first = None

-----------------------------------------------------------------------------
(***************************************************************************)
(* Home Assistant.                                                         *)
(***************************************************************************)
Becomes(d, f) == truth' = [truth EXCEPT ![d] = f]

card == <<config, hass, shown, armed, late, busy, pressing, open, soon>>

Changed(f) ==
  {[f EXCEPT ![flag] = ~@] : flag \in Moving}
    \cup {[f EXCEPT !.selected = s] : s \in (Snapshot \cup {None}) \ {f.selected}}

(* Something else changes a fact: the guest itself, or another client. *)
Change(d) ==
  /\ changes < MaxChanges /\ changes' = changes + 1
  /\ \E f \in Changed(truth[d]) : Becomes(d, f)
  /\ UNCHANGED <<scans, calls, card, first>>

(* A Scan ends that finds updates, or none. *)
Scanned(d) ==
  /\ scans < MaxScans /\ scans' = scans + 1
  /\ \E n \in {0, scans + 1} :
       Becomes(d, [truth[d] EXCEPT !.working = FALSE, !.scan = n])
  /\ UNCHANGED <<changes, calls, card, first>>

(* async_start_easy_update: exactly the scan named, and nothing in the way.*)
Admitted(c) ==
  /\ HasUpdates(truth[c.device]) /\ truth[c.device].scan = c.names
  /\ c.action = "skip" => ~truth[c.device].creating

(* A Scan or an Update that starts drops the scan there was. *)
Started(f) == [f EXCEPT !.working = TRUE, !.scan = 0]

(* What a request does; a button press names an entity and nothing else.   *)
(* A running Restore or Delete refuses more than is written here.          *)
Effect(c) == LET f == truth[c.device] IN
  CASE c.action \in {"update", "skip"} -> IF Admitted(c) THEN Started(f) ELSE f
    [] c.action = "scan" -> IF f.running /\ ~f.working THEN Started(f) ELSE f
    [] c.action = "create" -> [f EXCEPT !.creating = TRUE]
    [] c.action = "stop" -> [f EXCEPT !.running = FALSE]
    [] c.action = "select" -> [f EXCEPT !.selected = c.names]
    [] c.action = "restore" ->
         IF f.creating \/ f.working THEN f ELSE [f EXCEPT !.selected = None]
    [] c.action = "delete" ->
         IF f.creating THEN f ELSE [f EXCEPT !.selected = None]

Serve(c) ==
  /\ c \in calls /\ ~c.done
  /\ Becomes(c.device, Effect(c))
  /\ calls' = (calls \ {c}) \cup {[c EXCEPT !.done = TRUE]}
  /\ UNCHANGED <<scans, changes, card, first>>

-----------------------------------------------------------------------------
(***************************************************************************)
(* The card.                                                               *)
(***************************************************************************)
(* set hass: one push carries every change since the one before. *)
Push ==
  /\ hass # truth /\ hass' = truth
  /\ Rendered(config, truth, armed, late, busy, pressing, open)
  /\ first' = IF first # None /\ Voided(first, truth) THEN None ELSE first
  /\ UNCHANGED <<server, config, busy, pressing, open, soon>>

setConfig(d) ==
  /\ changes < MaxChanges /\ changes' = changes + 1
  /\ config' = d
  /\ Rendered(d, hass, None, FALSE, busy, pressing, open)
  /\ Voids
  /\ UNCHANGED <<truth, scans, calls, hass, busy, pressing, open, soon>>

(* The card leaves the page and comes back, which hands it hass again. *)
disconnectedCallback ==
  /\ changes < MaxChanges /\ changes' = changes + 1
  /\ pressing' = FALSE /\ open' = FALSE /\ hass' = truth
  /\ Rendered(config, truth, None, FALSE, busy, FALSE, FALSE)
  /\ Voids
  /\ UNCHANGED <<truth, scans, calls, config, busy, soon>>

(* A render scheduled with setTimeout(0). *)
RenderLater ==
  /\ soon /\ soon' = FALSE /\ Render
  /\ UNCHANGED <<server, config, hass, busy, pressing, open, first>>

_press ==
  /\ ~pressing /\ pressing' = TRUE
  /\ UNCHANGED <<server, config, hass, shown, armed, late, busy, open, soon, first>>

(* Mutant of release: the rebuild that was put off is left to a later push.*)
releaseOnly ==
  /\ pressing /\ pressing' = FALSE
  /\ UNCHANGED <<server, config, hass, shown, armed, late, busy, open, soon, first>>

release ==
  /\ pressing /\ pressing' = FALSE /\ soon' = TRUE
  /\ UNCHANGED <<server, config, hass, shown, armed, late, busy, open, first>>

OpenList ==
  /\ ~open /\ open' = TRUE
  /\ UNCHANGED <<server, config, hass, shown, armed, late, busy, pressing, soon, first>>

(* focusout of the snapshot list. *)
CloseList ==
  /\ open /\ open' = FALSE /\ soon' = TRUE
  /\ UNCHANGED <<server, config, hass, shown, armed, late, busy, pressing, first>>

(* CONFIRM_MS pass; the timer of _arm may run later than that. *)
TimePasses ==
  /\ armed # None /\ ~late /\ late' = TRUE
  /\ Voids
  /\ UNCHANGED <<server, config, hass, shown, armed, busy, pressing, open, soon>>

Timer ==
  /\ armed # None /\ late
  /\ Rendered(config, hass, None, FALSE, busy, pressing, open)
  /\ UNCHANGED <<server, config, hass, busy, pressing, open, soon, first>>

(* Mutant of Acted: a tap acts on the newest view. *)
ActedNewest == [device |-> config, fact |-> hass[config]]

(* Taps act on what the user sees, never on a newer view not yet shown. *)
Acted == shown.view

(* _call: the request goes out, the card is busy and renders so. *)
_call(c, in) ==
  /\ Cardinality(calls) < MaxCalls /\ \A other \in calls : other.action # c.action
  /\ calls' = calls \cup {c} /\ busy' = TRUE /\ open' = in
  /\ Rendered(config, hass, None, FALSE, TRUE, pressing, in)
  /\ Voids
  /\ UNCHANGED <<truth, scans, changes, config, hass, pressing, soon>>

Request(a, v) ==
  _call([action |-> a, device |-> v.device,
         names |-> IF a \in {"update", "skip"} THEN v.fact.scan ELSE None,
         seen |-> About(a, shown.view.fact), done |-> FALSE], open)

_arm(a, target) ==
  /\ Rendered(config, hass, [action |-> a, target |-> target], FALSE, busy, pressing, open)
  /\ LET tap == [action |-> a, device |-> shown.view.device,
                 about |-> About(a, shown.view.fact)]
     IN first' = IF tap.device # config \/ Voided(tap, hass) THEN None ELSE tap
  /\ UNCHANGED <<server, config, hass, busy, pressing, open, soon>>

(* A click, or Enter, on a button that is enabled as it is shown. *)
_click(a) ==
  /\ Available(a, shown.view.fact) /\ ~shown.busy
  /\ ~(a = "skip" /\ busy)
  /\ IF a \in CONFIRM /\ ~IsArmed(armed, late, a, Acted, config)
       THEN _arm(a, confirmTarget(a, Acted, config))
       ELSE Request(a, Acted)

(* A choice in the snapshot list, which may be rebuilt from then on. *)
_change(s) ==
  /\ s # shown.view.fact.selected
  /\ _call([action |-> "select", device |-> shown.view.device, names |-> s,
            seen |-> shown.view.fact.selected, done |-> FALSE], FALSE)

(* The answer to a request, which may also be a refusal before any effect. *)
Answer(c) ==
  /\ c \in calls /\ calls' = calls \ {c} /\ busy' = FALSE
  /\ Rendered(config, hass, armed, late, FALSE, pressing, open)
  /\ UNCHANGED <<truth, scans, changes, config, hass, pressing,
                 open, soon, first>>

-----------------------------------------------------------------------------
Page == \/ Push \/ disconnectedCallback \/ RenderLater \/ _press \/ release
        \/ OpenList \/ CloseList \/ TimePasses \/ Timer
        \/ \E d \in Device : setConfig(d)

Next ==
  \/ \E d \in Device : Change(d) \/ Scanned(d)
  \/ \E c \in calls : Serve(c) \/ Answer(c)
  \/ \E a \in Action : _click(a)
  \/ \E s \in Snapshot : _change(s)
  \/ Page

Spec == Init /\ [][Next]_vars

-----------------------------------------------------------------------------
(* Type correctness. *)
TypeOK ==
  /\ truth \in [Device -> Fact] /\ hass \in [Device -> Fact]
  /\ scans \in 0 .. MaxScans /\ changes \in 0 .. MaxChanges
  /\ calls \subseteq Call /\ config \in Device
  /\ \A c \in calls : c.action = "select" => c.names \in Snapshot
  /\ shown \in [view : View, busy : BOOLEAN]
  /\ busy \in BOOLEAN /\ late \in BOOLEAN
  /\ pressing \in BOOLEAN /\ open \in BOOLEAN /\ soon \in BOOLEAN

(* What needs a second tap is requested only on the second of two taps on  *)
(* the same operation, and nothing voided it in between: the snapshot, or  *)
(* the scan, named by both and the same in every push, no other action or  *)
(* choice, no other LXC, the page not left, CONFIRM_MS not over.           *)
ConfirmationIsExact ==
  [][\A c \in calls' \ calls : c.action \in CONFIRM /\ ~c.done =>
       first = [action |-> c.action, device |-> c.device, about |-> c.seen]]_vars

Served(c) == c \in calls \ calls' /\ [c EXCEPT !.done = TRUE] \in calls'

(* An Update that a tap starts, with a snapshot or without, is of the scan *)
(* that the card showed at that tap, whatever was on its way to the card   *)
(* or to Home Assistant.                                                   *)
UpdateIsOfShownScan ==
  [][\A c \in calls : c.action \in {"update", "skip"} /\ Served(c) /\ truth' # truth =>
       truth[c.device].scan = c.seen]_vars

(* A rebuild that is put off, because a pointer is pressed or the snapshot *)
(* list is in use, is not forgotten: whenever the card shows older facts   *)
(* than it has, either is still so or a render is scheduled.               *)
RebuildIsOwed ==
  shown.view # [device |-> config, fact |-> hass[config]] => pressing \/ open \/ soon
=============================================================================

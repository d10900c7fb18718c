--------------------------- MODULE GuestCard_proofs ---------------------------
(***************************************************************************)
(* What a tap on the LXC card stands for, for any number of LXCs, snapshots*)
(* and requests: no rebuild is forgotten, a confirmation is of exactly what*)
(* was armed, and an Update is of the scan that was shown.                 *)
(***************************************************************************)
EXTENDS GuestCard, TLAPS

USE CardAssumption

(* The changes to a fact keep it one.                                      *)
LEMMA FactScan ==
  ASSUME NEW f \in Fact, NEW n \in 0 .. MaxScans, NEW b \in BOOLEAN
  PROVE  [f EXCEPT !.working = b, !.scan = n] \in Fact
BY DEF Fact

LEMMA FactFlag ==
  ASSUME NEW f \in Fact, NEW flag \in {"running", "working", "creating"}
  PROVE  [f EXCEPT ![flag] = ~@] \in Fact
BY DEF Fact

(* What a request makes of a fact, action by action, is a fact.            *)
LEMMA EffectType ==
  ASSUME TypeOK, NEW c \in calls
  PROVE  Effect(c) \in Fact
<1> DEFINE f == truth[c.device]
<1>1. f \in Fact
  BY DEF TypeOK, Call
<1>2. Started(f) \in Fact
  <2>1. 0 \in 0 .. MaxScans
    BY DEF CardAssumption
  <2> HIDE DEF f
  <2> QED
    BY <1>1, <2>1, FactScan DEF Started
<1>3. CASE c.action \in {"update", "skip"}
  <2>1. Effect(c) = IF Admitted(c) THEN Started(f) ELSE f
    BY <1>3 DEF Effect
  <2> QED
    BY <1>1, <1>2, <2>1
<1>4. CASE c.action = "scan"
  <2>1. Effect(c) = IF f.running /\ ~f.working THEN Started(f) ELSE f
    BY <1>4 DEF Effect
  <2> QED
    BY <1>1, <1>2, <2>1
<1>5. CASE c.action = "create"
  <2>1. Effect(c) = [f EXCEPT !.creating = TRUE]
    BY <1>5 DEF Effect
  <2> QED
    BY <1>1, <2>1 DEF Fact
<1>6. CASE c.action = "stop"
  <2>1. Effect(c) = [f EXCEPT !.running = FALSE]
    BY <1>6 DEF Effect
  <2> QED
    BY <1>1, <2>1 DEF Fact
<1>7. CASE c.action = "select"
  <2>1. Effect(c) = [f EXCEPT !.selected = c.names]
    BY <1>7 DEF Effect
  <2>2. c.names \in Snapshot
    BY <1>7 DEF TypeOK
  <2> QED
    BY <1>1, <2>1, <2>2 DEF Fact
<1>8. CASE c.action \in {"restore", "delete"}
  <2>1. Effect(c) = f \/ Effect(c) = [f EXCEPT !.selected = None]
    BY <1>8 DEF Effect
  <2> QED
    BY <1>1, <2>1 DEF Fact
<1> QED
  BY <1>3, <1>4, <1>5, <1>6, <1>7, <1>8 DEF TypeOK, Call, CONFIRM

-----------------------------------------------------------------------------
(***************************************************************************)
(* What _render leaves.                                                    *)
(***************************************************************************)
LEMMA RenderedShown ==
  ASSUME NEW device, NEW facts, NEW arm, NEW overdue, NEW wait, NEW press, NEW in,
         Rendered(device, facts, arm, overdue, wait, press, in)
  PROVE  /\ press \/ in => shown' = shown
         /\ ~(press \/ in) =>
              shown' = [view |-> [device |-> device, fact |-> facts[device]], busy |-> wait]
BY DEF Rendered

(* A tap that is still armed is of the newest facts.                       *)
LEMMA RenderedArmed ==
  ASSUME NEW device, NEW facts, NEW arm, NEW overdue \in BOOLEAN, NEW wait, NEW press,
         NEW in, Rendered(device, facts, arm, overdue, wait, press, in)
  PROVE  /\ late' \in BOOLEAN
         /\ armed' # None =>
              /\ armed' = arm /\ late' = overdue
              /\ IsArmed(arm, overdue, arm.action,
                         [device |-> device, fact |-> facts[device]], device)
BY DEF Rendered

(***************************************************************************)
(* Type correctness.                                                       *)
(***************************************************************************)
LEMMA InitType == Init => TypeOK
<1> SUFFICES ASSUME Init PROVE TypeOK
  OBVIOUS
<1>1. scans \in 0 .. MaxScans /\ changes \in 0 .. MaxChanges
  BY DEF Init, CardAssumption
<1>2. truth \in [Device -> Fact] /\ hass = truth
  <2>1. PICK selected \in [Device -> Snapshot \cup {None}] :
          truth = [d \in Device |->
                    [running |-> TRUE, working |-> FALSE, creating |-> FALSE,
                     scan |-> IF d = config THEN scans ELSE 0, selected |-> selected[d]]]
    BY DEF Init
  <2>2. 0 \in 0 .. MaxScans
    BY DEF CardAssumption
  <2> QED
    BY <1>1, <2>1, <2>2 DEF Init, Fact
<1>3. shown \in [view : View, busy : BOOLEAN]
  BY <1>2 DEF Init, View
<1> QED
  BY <1>1, <1>2, <1>3 DEF Init, TypeOK

LEMMA NextType == TypeOK /\ [Next]_vars => TypeOK'
<1> SUFFICES ASSUME TypeOK, [Next]_vars PROVE TypeOK'
  OBVIOUS
<1>1. ASSUME NEW d \in Device, Change(d) PROVE TypeOK'
  <2>1. PICK f \in Changed(truth[d]) : Becomes(d, f)
    BY <1>1 DEF Change
  <2>2. f \in Fact
    <3> DEFINE g == truth[d]
    <3>1. g \in Fact
      BY DEF TypeOK
    <3>2. ASSUME NEW s \in Snapshot \cup {None} PROVE [g EXCEPT !.selected = s] \in Fact
      BY <3>1 DEF Fact
    <3>3. ASSUME NEW flag \in Moving PROVE [g EXCEPT ![flag] = ~@] \in Fact
      BY <3>1, FactFlag DEF CardAssumption
    <3> QED
      BY <2>1, <3>2, <3>3 DEF Changed
  <2>3. truth' \in [Device -> Fact]
    BY <2>1, <2>2 DEF Becomes, TypeOK
  <2> QED
    BY <1>1, <2>3 DEF Change, card, TypeOK, CardAssumption
<1>2. ASSUME NEW d \in Device, Scanned(d) PROVE TypeOK'
  <2>1. PICK n \in {0, scans + 1} : Becomes(d, [truth[d] EXCEPT !.working = FALSE, !.scan = n])
    BY <1>2 DEF Scanned
  <2>2. n \in 0 .. MaxScans /\ scans' \in 0 .. MaxScans
    BY <1>2 DEF Scanned, TypeOK, CardAssumption
  <2>3. [truth[d] EXCEPT !.working = FALSE, !.scan = n] \in Fact
    BY <2>2, FactScan DEF TypeOK
  <2>4. truth' \in [Device -> Fact]
    BY <2>1, <2>3 DEF Becomes, TypeOK
  <2> QED
    BY <1>2, <2>2, <2>4 DEF Scanned, card, TypeOK
<1>3. ASSUME NEW c \in calls, Serve(c) PROVE TypeOK'
  <2>1. truth' \in [Device -> Fact]
    BY <1>3, EffectType DEF Serve, Becomes, TypeOK
  <2>2. [c EXCEPT !.done = TRUE] \in Call
    BY DEF TypeOK, Call
  <2>3. [c EXCEPT !.done = TRUE].action = c.action /\ [c EXCEPT !.done = TRUE].names = c.names
    BY DEF TypeOK, Call
  <2> QED
    BY <1>3, <2>1, <2>2, <2>3 DEF Serve, card, TypeOK
<1>4. ASSUME NEW c \in calls, Answer(c) PROVE TypeOK'
  <2>1. shown' \in [view : View, busy : BOOLEAN] /\ late' \in BOOLEAN
    BY <1>4 DEF Answer, Rendered, TypeOK, View
  <2> QED
    BY <1>4, <2>1 DEF Answer, TypeOK
<1>5. ASSUME NEW c \in Call, NEW in \in BOOLEAN, _call(c, in),
             c.action = "select" => c.names \in Snapshot
      PROVE  TypeOK'
  <2>1. shown' \in [view : View, busy : BOOLEAN] /\ late' \in BOOLEAN
    BY <1>5 DEF _call, Rendered, TypeOK, View
  <2> QED
    BY <1>5, <2>1 DEF _call, TypeOK
<1>6. ASSUME NEW a \in Action, _click(a) PROVE TypeOK'
  <2>0. shown.view.fact \in Fact /\ shown.view.device \in Device
    BY DEF TypeOK, View
  <2>1. CASE Request(a, Acted)
    <3> DEFINE c == [action |-> a, device |-> shown.view.device,
                     names |-> IF a \in {"update", "skip"} THEN shown.view.fact.scan ELSE None,
                     seen |-> About(a, shown.view.fact), done |-> FALSE]
    <3>1. About(a, shown.view.fact) \in Detail
      BY <2>0 DEF About, Detail, Fact, CONFIRM, CardAssumption
    <3>2. c \in Call
      BY <2>0, <3>1 DEF Call, Detail, Fact
    <3>3. c.action # "select"
      BY DEF CardAssumption, CONFIRM
    <3> QED
      BY <1>5, <2>1, <3>2, <3>3 DEF Request, Acted, TypeOK
  <2>2. CASE _arm(a, confirmTarget(a, Acted, config))
    <3>1. shown' \in [view : View, busy : BOOLEAN] /\ late' \in BOOLEAN
      BY <2>2 DEF _arm, Rendered, TypeOK, View
    <3> QED
      BY <2>2, <3>1 DEF _arm, server, TypeOK
  <2> QED
    BY <1>6, <2>1, <2>2 DEF _click
<1>7. ASSUME NEW s \in Snapshot, _change(s) PROVE TypeOK'
  <2>0. shown.view.fact \in Fact /\ shown.view.device \in Device
    BY DEF TypeOK, View
  <2> DEFINE c == [action |-> "select", device |-> shown.view.device, names |-> s,
                   seen |-> shown.view.fact.selected, done |-> FALSE]
  <2>1. c \in Call
    BY <2>0 DEF Call, Detail, Fact
  <2> QED
    BY <1>5, <1>7, <2>1 DEF _change
<1>8. CASE Push
  BY <1>8 DEF Push, server, Rendered, TypeOK, View
<1>9. ASSUME NEW d \in Device, setConfig(d) PROVE TypeOK'
  <2>1. shown' \in [view : View, busy : BOOLEAN] /\ late' \in BOOLEAN
    BY <1>9 DEF setConfig, Rendered, TypeOK, View
  <2> QED
    BY <1>9, <2>1 DEF setConfig, TypeOK, CardAssumption
<1>10. CASE disconnectedCallback
  <2>1. shown' \in [view : View, busy : BOOLEAN] /\ late' \in BOOLEAN
    BY <1>10 DEF disconnectedCallback, Rendered, TypeOK, View
  <2>2. changes' \in 0 .. MaxChanges
    BY <1>10 DEF disconnectedCallback, TypeOK, CardAssumption
  <2> QED
    BY <1>10, <2>1, <2>2 DEF disconnectedCallback, TypeOK
<1>11. CASE RenderLater
  BY <1>11 DEF RenderLater, Render, Rendered, server, TypeOK, View
<1>12. CASE Timer
  BY <1>12 DEF Timer, Rendered, server, TypeOK, View
<1>13. CASE _press \/ release \/ OpenList \/ CloseList \/ TimePasses
  BY <1>13 DEF _press, release, OpenList, CloseList, TimePasses, server, TypeOK
<1>14. CASE UNCHANGED vars
  BY <1>14 DEF vars, server, TypeOK
<1> QED
  BY <1>1, <1>2, <1>3, <1>4, <1>6, <1>7, <1>8, <1>9, <1>10, <1>11, <1>12, <1>13, <1>14
  DEF Next, Page

(* The card's state stays well typed.                                      *)
THEOREM CardTypes == Spec => []TypeOK
<1> QED
  BY InitType, NextType, PTL DEF Spec

-----------------------------------------------------------------------------
(***************************************************************************)
(* Rebuilds, and what a request names.                                     *)
(***************************************************************************)
(* An Update request names the scan that was shown.                        *)
NamesShown == \A c \in calls : c.action \in {"update", "skip"} => c.names = c.seen

LEMMA NextOwed == RebuildIsOwed /\ [Next]_vars => RebuildIsOwed'
<1> SUFFICES ASSUME RebuildIsOwed, [Next]_vars PROVE RebuildIsOwed'
  OBVIOUS
<1>1. ASSUME NEW d \in Device, Change(d) \/ Scanned(d) PROVE RebuildIsOwed'
  BY <1>1 DEF Change, Scanned, card, RebuildIsOwed
<1>2. ASSUME NEW c \in calls, Serve(c) PROVE RebuildIsOwed'
  BY <1>2 DEF Serve, card, RebuildIsOwed
<1>3. ASSUME NEW c \in calls, Answer(c) PROVE RebuildIsOwed'
  BY <1>3 DEF Rendered, Answer, RebuildIsOwed
<1>4. ASSUME NEW c, NEW in, _call(c, in) PROVE RebuildIsOwed'
  BY <1>4 DEF Rendered, _call, RebuildIsOwed
<1>5. ASSUME NEW a \in Action, _click(a) PROVE RebuildIsOwed'
  <2>1. CASE Request(a, Acted)
    BY <1>4, <2>1 DEF Request
  <2>2. CASE _arm(a, confirmTarget(a, Acted, config))
    BY <2>2 DEF Rendered, _arm, RebuildIsOwed
  <2> QED
    BY <1>5, <2>1, <2>2 DEF _click
<1>6. ASSUME NEW s \in Snapshot, _change(s) PROVE RebuildIsOwed'
  BY <1>4, <1>6 DEF _change
<1>7. CASE Push
  BY <1>7 DEF Rendered, Push, RebuildIsOwed
<1>8. ASSUME NEW d \in Device, setConfig(d) PROVE RebuildIsOwed'
  BY <1>8 DEF Rendered, setConfig, RebuildIsOwed
<1>9. CASE disconnectedCallback
  BY <1>9 DEF Rendered, disconnectedCallback, RebuildIsOwed
<1>10. CASE RenderLater
  BY <1>10 DEF Rendered, RenderLater, Render, RebuildIsOwed
<1>11. CASE Timer
  BY <1>11 DEF Rendered, Timer, RebuildIsOwed
<1>12. CASE _press \/ release \/ OpenList \/ CloseList \/ TimePasses
  BY <1>12 DEF _press, release, OpenList, CloseList, TimePasses, RebuildIsOwed
<1>13. CASE UNCHANGED vars
  BY <1>13 DEF vars, RebuildIsOwed
<1> QED
  BY <1>1, <1>2, <1>3, <1>5, <1>6, <1>7, <1>8, <1>9, <1>10, <1>11, <1>12, <1>13
  DEF Next, Page

(* A rebuild that is put off is not forgotten.                             *)
THEOREM RebuildsOwed == Spec => []RebuildIsOwed
<1>1. Init => RebuildIsOwed
  BY DEF Init, RebuildIsOwed
<1> QED
  BY <1>1, NextOwed, PTL DEF Spec

LEMMA NextNames == TypeOK /\ NamesShown /\ [Next]_vars => NamesShown'
<1> SUFFICES ASSUME TypeOK, NamesShown, [Next]_vars PROVE NamesShown'
  OBVIOUS
<1>1. ASSUME NEW c \in calls, Serve(c) PROVE NamesShown'
  <2>1. /\ [c EXCEPT !.done = TRUE].action = c.action
        /\ [c EXCEPT !.done = TRUE].names = c.names
        /\ [c EXCEPT !.done = TRUE].seen = c.seen
    BY DEF TypeOK, Call
  <2> QED
    BY <1>1, <2>1 DEF Serve, NamesShown
<1>2. ASSUME NEW a \in Action, _click(a) PROVE NamesShown'
  <2>1. CASE Request(a, Acted)
    <3>1. a \in {"update", "skip"} => About(a, shown.view.fact) = shown.view.fact.scan
      BY DEF About
    <3> QED
      BY <2>1, <3>1 DEF Request, Acted, _call, NamesShown
  <2>2. CASE _arm(a, confirmTarget(a, Acted, config))
    BY <2>2 DEF _arm, server, NamesShown
  <2> QED
    BY <1>2, <2>1, <2>2 DEF _click
<1>3. ASSUME NEW s \in Snapshot, _change(s) PROVE NamesShown'
  BY <1>3 DEF _change, _call, NamesShown
<1>4. ASSUME calls' \subseteq calls PROVE NamesShown'
  BY <1>4 DEF NamesShown
<1>5. \/ calls' \subseteq calls
      \/ \E c \in calls : Serve(c)
      \/ \E a \in Action : _click(a)
      \/ \E s \in Snapshot : _change(s)
  BY DEF Next, Page, Change, Scanned, Answer, Push, setConfig, disconnectedCallback,
         RenderLater, _press, release, OpenList, CloseList, TimePasses, Timer, server, vars
<1> QED
  BY <1>1, <1>2, <1>3, <1>4, <1>5

(* An Update that a tap starts is of the scan shown at that tap.           *)
THEOREM UpdatesOfShownScan == Spec => UpdateIsOfShownScan
<1>1. Init => NamesShown
  BY DEF Init, NamesShown
<1>2. TypeOK /\ NamesShown /\ [Next]_vars =>
        [\A c \in calls : c.action \in {"update", "skip"} /\ Served(c) /\ truth' # truth =>
           truth[c.device].scan = c.seen]_vars
  <2> SUFFICES ASSUME TypeOK, NamesShown, Next, NEW c \in calls,
                      c.action \in {"update", "skip"}, Served(c), truth' # truth
               PROVE  truth[c.device].scan = c.seen
    OBVIOUS
  <2>1. PICK d \in calls : Serve(d)
    <3>1. \/ \E d \in calls : Serve(d)
          \/ truth' = truth
          \/ calls' = calls
      BY DEF Next, Page, Change, Scanned, Answer, Push, setConfig, disconnectedCallback,
             RenderLater, _press, release, OpenList, CloseList, TimePasses, Timer, server,
             _click, _change, Request, _call, _arm
    <3> QED
      BY <3>1 DEF Served
  <2>2. d = c
    BY <2>1 DEF Serve, Served
  <2>3. truth' = [truth EXCEPT ![c.device] = Effect(c)]
    BY <2>1, <2>2 DEF Serve, Becomes
  <2>4. Effect(c) # truth[c.device]
    BY <2>3 DEF TypeOK
  <2>5. Admitted(c)
    BY <2>4 DEF Effect
  <2> QED
    BY <2>5 DEF Admitted, NamesShown
<1> QED
  BY <1>1, <1>2, CardTypes, NextNames, PTL DEF Spec, UpdateIsOfShownScan

-----------------------------------------------------------------------------
(***************************************************************************)
(* Confirmations.                                                          *)
(***************************************************************************)
(* The scan attempts anything knows of, and the LXC each is of: no attempt *)
(* is of two LXCs.                                                         *)
Attempts == {<<d, truth[d].scan>> : d \in Device} \cup {<<d, hass[d].scan>> : d \in Device}
              \cup {<<shown.view.device, shown.view.fact.scan>>}
ScansAreOwned ==
  /\ \A x \in Attempts : x[2] <= scans
  /\ \A x, y \in Attempts : x[2] = y[2] /\ x[2] # 0 => x[1] = y[1]

(* What is armed, and not yet for too long, is of the newest facts, and of *)
(* what was first tapped.                                                  *)
Newest == [device |-> config, fact |-> hass[config]]
Aimed ==
  armed # None /\ ~late =>
    /\ armed.target = confirmTarget(armed.action, Newest, config)
    /\ armed.target # {}
    /\ armed.action \in CONFIRM
    /\ first = [action |-> armed.action, device |-> config,
               about |-> About(armed.action, hass[config])]

(* Equal targets are of the same scan or snapshot.                         *)
LEMMA TargetTells ==
  ASSUME NEW a \in CONFIRM, NEW v, NEW w, NEW d,
         confirmTarget(a, v, d) = confirmTarget(a, w, d), confirmTarget(a, v, d) # {}
  PROVE  /\ About(a, v.fact) = About(a, w.fact)
         /\ a # "skip" => v.device = w.device
         /\ a = "skip" => Available(a, v.fact) /\ Available(a, w.fact)
<1>1. CASE a = "skip"
  BY <1>1 DEF confirmTarget, About
<1>2. CASE a \in {"restore", "delete"}
  BY <1>2 DEF confirmTarget, About
<1>3. CASE a = "stop"
  BY <1>3 DEF confirmTarget, About
<1> QED
  BY <1>1, <1>2, <1>3 DEF CONFIRM

(* What can be tapped can be aimed at.                                     *)
LEMMA AvailableIsAimed ==
  ASSUME NEW a \in CONFIRM, NEW v, NEW d, Available(a, v.fact)
  PROVE  confirmTarget(a, v, d) # {}
<1>1. CASE a = "skip"
  BY <1>1 DEF confirmTarget
<1>2. CASE a \in {"restore", "delete"}
  BY <1>2 DEF confirmTarget, Available
<1>3. CASE a = "stop"
  BY <1>3 DEF confirmTarget
<1> QED
  BY <1>1, <1>2, <1>3 DEF CONFIRM

(* A tap on what is shown that aims at the newest facts is of this card's  *)
(* LXC.                                                                    *)
LEMMA SameTap ==
  ASSUME TypeOK, ScansAreOwned, NEW a \in CONFIRM, Available(a, shown.view.fact),
         confirmTarget(a, shown.view, config) = confirmTarget(a, Newest, config)
  PROVE  /\ shown.view.device = config
         /\ About(a, shown.view.fact) = About(a, hass[config])
         /\ a = "skip" => Available(a, hass[config])
<1>1. confirmTarget(a, shown.view, config) # {}
  BY AvailableIsAimed
<1>2. /\ About(a, shown.view.fact) = About(a, Newest.fact)
      /\ a # "skip" => shown.view.device = Newest.device
      /\ a = "skip" => Available(a, shown.view.fact) /\ Available(a, Newest.fact)
  BY <1>1, TargetTells
<1>3. CASE a # "skip"
  BY <1>2, <1>3 DEF Newest
<1>4. CASE a = "skip"
  <2>1. shown.view.fact.scan = hass[config].scan /\ shown.view.fact.scan # 0
    BY <1>2, <1>4 DEF About, Newest, Available, HasUpdates
  <2>2. /\ <<shown.view.device, shown.view.fact.scan>> \in Attempts
        /\ <<config, hass[config].scan>> \in Attempts
    BY DEF Attempts, TypeOK
  <2>3. shown.view.device = config
    BY <2>1, <2>2 DEF ScansAreOwned
  <2> QED
    BY <1>2, <1>4, <2>3 DEF Newest
<1> QED
  BY <1>3, <1>4

(* What is shown is what was, or the newest facts.                         *)
LEMMA NextShown ==
  ASSUME [Next]_vars
  PROVE  shown'.view = shown.view \/ shown'.view = Newest'
<1>1. ASSUME NEW d \in Device, Change(d) \/ Scanned(d) PROVE shown' = shown
  BY <1>1 DEF Change, Scanned, card
<1>2. ASSUME NEW c \in calls, Serve(c) PROVE shown' = shown
  BY <1>2 DEF Serve, card
<1>3. ASSUME NEW c \in calls, Answer(c)
      PROVE  shown'.view = shown.view \/ shown'.view = Newest'
  BY <1>3 DEF Answer, Rendered, Newest
<1>4. ASSUME NEW c, NEW in, _call(c, in)
      PROVE  shown'.view = shown.view \/ shown'.view = Newest'
  BY <1>4 DEF _call, Rendered, Newest
<1>5. ASSUME NEW a \in Action, _click(a)
      PROVE  shown'.view = shown.view \/ shown'.view = Newest'
  <2>1. CASE Request(a, Acted)
    BY <1>4, <2>1 DEF Request
  <2>2. CASE _arm(a, confirmTarget(a, Acted, config))
    BY <2>2 DEF _arm, Rendered, Newest
  <2> QED
    BY <1>5, <2>1, <2>2 DEF _click
<1>6. ASSUME NEW s \in Snapshot, _change(s)
      PROVE  shown'.view = shown.view \/ shown'.view = Newest'
  BY <1>4, <1>6 DEF _change
<1>7. ASSUME Push PROVE shown'.view = shown.view \/ shown'.view = Newest'
  BY <1>7 DEF Push, Rendered, Newest
<1>8. ASSUME NEW d \in Device, setConfig(d)
      PROVE  shown'.view = shown.view \/ shown'.view = Newest'
  BY <1>8 DEF setConfig, Rendered, Newest
<1>9. ASSUME disconnectedCallback PROVE shown'.view = shown.view \/ shown'.view = Newest'
  BY <1>9 DEF disconnectedCallback, Rendered, Newest
<1>10. ASSUME RenderLater PROVE shown'.view = shown.view \/ shown'.view = Newest'
  BY <1>10 DEF RenderLater, Render, Rendered, Newest
<1>11. ASSUME Timer PROVE shown'.view = shown.view \/ shown'.view = Newest'
  BY <1>11 DEF Timer, Rendered, Newest
<1>12. ASSUME _press \/ release \/ OpenList \/ CloseList \/ TimePasses \/ UNCHANGED vars
       PROVE  shown' = shown
  BY <1>12 DEF _press, release, OpenList, CloseList, TimePasses, vars
<1> QED
  BY <1>1, <1>2, <1>3, <1>5, <1>6, <1>7, <1>8, <1>9, <1>10, <1>11, <1>12 DEF Next, Page

(* A request leaves the scan there was, or none.                           *)
LEMMA EffectScan ==
  ASSUME TypeOK, NEW c \in calls
  PROVE  Effect(c).scan \in {truth[c.device].scan, 0}
<1> DEFINE f == truth[c.device]
<1>1. f \in Fact
  BY DEF TypeOK, Call
<1>2. Started(f).scan = 0
  <2> HIDE DEF f
  <2> QED
    BY <1>1 DEF Started, Fact
<1>3. CASE c.action \in {"update", "skip", "scan"}
  <2>1. Effect(c) = Started(f) \/ Effect(c) = f
    BY <1>3 DEF Effect
  <2> QED
    BY <1>2, <2>1
<1>4. CASE c.action \in {"create", "stop", "select", "restore", "delete"}
  <2>1. \/ Effect(c) = f
        \/ Effect(c) = [f EXCEPT !.creating = TRUE]
        \/ Effect(c) = [f EXCEPT !.running = FALSE]
        \/ Effect(c) = [f EXCEPT !.selected = c.names]
        \/ Effect(c) = [f EXCEPT !.selected = None]
    BY <1>4 DEF Effect
  <2>2. Effect(c).scan = f.scan
    <3> HIDE DEF f
    <3> QED
      BY <1>1, <2>1 DEF Fact
  <2> QED
    BY <2>2
<1> QED
  BY <1>3, <1>4 DEF TypeOK, Call, CONFIRM

(* An attempt is new, and of one LXC, or was known, or is none.            *)
LEMMA NextScans ==
  ASSUME TypeOK, [Next]_vars
  PROVE  \/ /\ scans' = scans
            /\ \A d \in Device : truth'[d].scan \in {truth[d].scan, 0}
         \/ /\ scans' = scans + 1
            /\ \E e \in Device :
                 \A d \in Device : \/ truth'[d].scan \in {truth[d].scan, 0}
                                   \/ d = e /\ truth'[d].scan = scans + 1
<1>1. ASSUME NEW d \in Device, Change(d)
      PROVE  scans' = scans /\ \A e \in Device : truth'[e].scan = truth[e].scan
  <2>1. PICK f \in Changed(truth[d]) : Becomes(d, f)
    BY <1>1 DEF Change
  <2> DEFINE g == truth[d]
  <2>2. g \in Fact
    BY DEF TypeOK
  <2>3. f.scan = g.scan
    <3>1. ASSUME NEW flag \in {"running", "working", "creating"}
          PROVE  [g EXCEPT ![flag] = ~@].scan = g.scan
      <4> HIDE DEF g
      <4> QED
        BY <2>2, <3>1 DEF Fact
    <3>2. ASSUME NEW s PROVE [g EXCEPT !.selected = s].scan = g.scan
      <4> HIDE DEF g
      <4> QED
        BY <2>2 DEF Fact
    <3> QED
      BY <2>1, <3>1, <3>2 DEF Changed, CardAssumption
  <2>4. truth' = [truth EXCEPT ![d] = f] /\ truth \in [Device -> Fact]
    BY <2>1 DEF Becomes, TypeOK
  <2> QED
    BY <1>1, <2>3, <2>4 DEF Change
<1>2. ASSUME NEW d \in Device, Scanned(d)
      PROVE  /\ scans' = scans + 1
             /\ \A e \in Device : \/ truth'[e].scan \in {truth[e].scan, 0}
                                  \/ e = d /\ truth'[e].scan = scans + 1
  <2>1. PICK n \in {0, scans + 1} : Becomes(d, [truth[d] EXCEPT !.working = FALSE, !.scan = n])
    BY <1>2 DEF Scanned
  <2> DEFINE g == truth[d]
             f == [g EXCEPT !.working = FALSE, !.scan = n]
  <2>2. g \in Fact
    BY DEF TypeOK
  <2>3. f.scan = n
    <3> HIDE DEF g
    <3> QED
      BY <2>2 DEF Fact
  <2>4. truth' = [truth EXCEPT ![d] = f] /\ truth \in [Device -> Fact]
    BY <2>1 DEF Becomes, TypeOK
  <2>5. truth'[d].scan = n /\ \A e \in Device \ {d} : truth'[e] = truth[e]
    <3> HIDE DEF f
    <3> QED
      BY <2>3, <2>4
  <2>6. scans' = scans + 1
    BY <1>2 DEF Scanned
  <2>7. ASSUME NEW e \in Device
        PROVE  truth'[e].scan = truth[e].scan \/ truth'[e].scan = 0
                 \/ (e = d /\ truth'[e].scan = scans + 1)
    <3>1. CASE e = d
      BY <2>1, <2>3, <2>5, <3>1
    <3>2. CASE e # d
      BY <2>5, <3>2
    <3> QED
      BY <3>1, <3>2
  <2> QED
    BY <2>6, <2>7
<1>3. ASSUME NEW c \in calls, Serve(c)
      PROVE  scans' = scans /\ \A d \in Device : truth'[d].scan \in {truth[d].scan, 0}
  <2>1. truth' = [truth EXCEPT ![c.device] = Effect(c)] /\ truth \in [Device -> Fact]
    BY <1>3 DEF Serve, Becomes, TypeOK
  <2> QED
    BY <1>3, <2>1, EffectScan DEF Serve
<1>4. \/ truth' = truth /\ scans' = scans
      \/ \E d \in Device : Change(d) \/ Scanned(d)
      \/ \E c \in calls : Serve(c)
  BY DEF Next, Page, Answer, Push, setConfig, disconnectedCallback, RenderLater, _press,
         release, OpenList, CloseList, TimePasses, Timer, server, vars, _click, _change,
         Request, _call, _arm
<1> QED
  BY <1>1, <1>2, <1>3, <1>4

LEMMA NextOwned == TypeOK /\ ScansAreOwned /\ [Next]_vars => ScansAreOwned'
<1> SUFFICES ASSUME TypeOK, ScansAreOwned, [Next]_vars PROVE ScansAreOwned'
  OBVIOUS
<1>1. hass' = hass \/ hass' = truth
  BY DEF Next, Page, Change, Scanned, Serve, Answer, Push, setConfig, disconnectedCallback,
         RenderLater, _press, release, OpenList, CloseList, TimePasses, Timer, server, card,
         vars, _click, _change, Request, _call, _arm
<1>2. TypeOK' /\ config' \in Device
  BY NextType DEF TypeOK
<1>3. PICK e \in Device :
        \A x \in Attempts' :
          x \in Attempts \/ x[2] = 0 \/ (scans' = scans + 1 /\ x = <<e, scans + 1>>)
  <2>1. PICK e \in Device :
          \A d \in Device : \/ truth'[d].scan \in {truth[d].scan, 0}
                            \/ scans' = scans + 1 /\ d = e /\ truth'[d].scan = scans + 1
    BY NextScans, <1>2
  <2>2. \A d \in Device : <<d, truth'[d].scan>> \in Attempts \/ truth'[d].scan = 0
                          \/ (scans' = scans + 1 /\ <<d, truth'[d].scan>> = <<e, scans + 1>>)
    <3> TAKE d \in Device
    <3>1. <<d, truth[d].scan>> \in Attempts
      BY DEF Attempts
    <3> QED
      BY <2>1, <3>1
  <2>3. \A d \in Device : <<d, hass'[d].scan>> \in Attempts
    BY <1>1 DEF Attempts
  <2>4. <<shown'.view.device, shown'.view.fact.scan>> \in Attempts
    BY <1>2, <2>3, NextShown DEF Attempts, Newest
  <2>5. ASSUME NEW x \in Attempts'
        PROVE  \/ x = <<shown'.view.device, shown'.view.fact.scan>>
               \/ \E d \in Device : x = <<d, truth'[d].scan>> \/ x = <<d, hass'[d].scan>>
    BY DEF Attempts
  <2>6. ASSUME NEW x \in Attempts'
        PROVE  x \in Attempts \/ x[2] = 0 \/ (scans' = scans + 1 /\ x = <<e, scans + 1>>)
    <3>1. CASE x = <<shown'.view.device, shown'.view.fact.scan>>
      BY <2>4, <3>1
    <3>2. ASSUME NEW d \in Device, x = <<d, hass'[d].scan>> PROVE x \in Attempts
      BY <2>3, <3>2
    <3>3. ASSUME NEW d \in Device, x = <<d, truth'[d].scan>>
          PROVE  x \in Attempts \/ x[2] = 0 \/ (scans' = scans + 1 /\ x = <<e, scans + 1>>)
      BY <2>2, <3>3
    <3> QED
      BY <2>5, <2>6, <3>1, <3>2, <3>3
  <2> QED
    BY <2>6
<1>4. scans \in Nat /\ scans' \in {scans, scans + 1} /\ \A x \in Attempts : x[2] \in Nat
  BY NextScans DEF TypeOK, Attempts, Fact, View, CardAssumption
<1>5. \A x \in Attempts' : x[2] <= scans'
  BY <1>3, <1>4 DEF ScansAreOwned
<1>6. ASSUME NEW x \in Attempts', NEW y \in Attempts', x[2] = y[2], x[2] # 0
      PROVE  x[1] = y[1]
  <2>1. CASE x \in Attempts /\ y \in Attempts
    BY <1>6, <2>1 DEF ScansAreOwned
  <2>2. CASE x \notin Attempts \/ y \notin Attempts
    <3>1. x[2] = scans + 1 /\ y[2] = scans + 1
      BY <1>3, <1>6, <2>2
    <3>2. x \notin Attempts /\ y \notin Attempts
      BY <1>4, <3>1 DEF ScansAreOwned
    <3> QED
      BY <1>3, <1>6, <3>2
  <2> QED
    BY <2>1, <2>2
<1> QED
  BY <1>5, <1>6 DEF ScansAreOwned

LEMMA NextAimed == TypeOK /\ ScansAreOwned /\ Aimed /\ [Next]_vars => Aimed'
<1> SUFFICES ASSUME TypeOK, ScansAreOwned, Aimed, [Next]_vars PROVE Aimed'
  OBVIOUS
<1>1. ASSUME NEW d \in Device, Change(d) \/ Scanned(d) PROVE Aimed'
  BY <1>1 DEF Change, Scanned, card, Aimed, Newest
<1>2. ASSUME NEW c \in calls, Serve(c) PROVE Aimed'
  BY <1>2 DEF Serve, card, Aimed, Newest
<1>3. ASSUME NEW c \in calls, Answer(c) PROVE Aimed'
  <2>1. armed' # None => armed' = armed /\ late' = late
    BY <1>3 DEF Answer, Rendered, TypeOK
  <2> QED
    BY <1>3, <2>1 DEF Answer, Aimed, Newest
<1>4. ASSUME NEW c, NEW in, _call(c, in) PROVE Aimed'
  BY <1>4 DEF _call, Rendered, Aimed
<1>5. ASSUME NEW a \in Action, _click(a) PROVE Aimed'
  <2>1. CASE Request(a, Acted)
    BY <1>4, <2>1 DEF Request
  <2>2. CASE a \in CONFIRM /\ _arm(a, confirmTarget(a, Acted, config))
    <3> DEFINE target == confirmTarget(a, shown.view, config)
               arm == [action |-> a, target |-> target]
               tap == [action |-> a, device |-> shown.view.device,
                       about |-> About(a, shown.view.fact)]
    <3>1. CASE armed' = None
      BY <3>1 DEF Aimed
    <3>2. CASE armed' # None
      <4>1. armed' = arm /\ IsArmed(arm, FALSE, a, Newest, config)
        BY <2>2, <3>2 DEF _arm, Rendered, Acted, Newest
      <4>2. target = confirmTarget(a, Newest, config)
        BY <4>1 DEF IsArmed
      <4>3. target # {}
        BY <1>5, <2>2, AvailableIsAimed DEF _click
      <4>4. /\ shown.view.device = config
            /\ About(a, shown.view.fact) = About(a, hass[config])
            /\ a = "skip" => Available(a, hass[config])
        BY <1>5, <2>2, <4>2, SameTap DEF _click
      <4>5. ~Voided(tap, hass)
        BY <4>4 DEF Voided
      <4>6. first' = tap
        BY <2>2, <4>4, <4>5 DEF _arm
      <4>7. Newest' = Newest /\ config' = config /\ hass' = hass
        BY <2>2 DEF _arm, Newest
      <4> QED
        BY <2>2, <4>1, <4>2, <4>3, <4>4, <4>6, <4>7 DEF Aimed
    <3> QED
      BY <3>1, <3>2
  <2> QED
    BY <1>5, <2>1, <2>2 DEF _click
<1>6. ASSUME NEW s \in Snapshot, _change(s) PROVE Aimed'
  BY <1>4, <1>6 DEF _change
<1>7. CASE Push
  <2>1. CASE armed' = None \/ late'
    BY <2>1 DEF Aimed
  <2>2. CASE armed' # None /\ ~late'
    <3> DEFINE new == [device |-> config, fact |-> truth[config]]
    <3>1. /\ armed' = armed /\ ~late
          /\ armed.target = confirmTarget(armed.action, new, config)
          /\ config' = config /\ hass' = truth
      BY <1>7, <2>2 DEF Push, Rendered, IsArmed
    <3>2. /\ armed.target = confirmTarget(armed.action, Newest, config)
          /\ armed.target # {} /\ armed.action \in CONFIRM
          /\ first = [action |-> armed.action, device |-> config,
                     about |-> About(armed.action, hass[config])]
      BY <2>2, <3>1 DEF Aimed
    <3>3. /\ About(armed.action, Newest.fact) = About(armed.action, new.fact)
          /\ armed.action = "skip" => Available(armed.action, new.fact)
      <4>1. ASSUME NEW a \in CONFIRM, NEW v, NEW w, NEW d,
                   confirmTarget(a, v, d) = confirmTarget(a, w, d),
                   confirmTarget(a, v, d) # {}
            PROVE  /\ About(a, v.fact) = About(a, w.fact)
                   /\ a = "skip" => Available(a, w.fact)
        BY <4>1, TargetTells
      <4> HIDE DEF new
      <4> QED
        BY <3>1, <3>2, <4>1
    <3>4. Newest.fact = hass[config] /\ Newest' = new
      BY <3>1 DEF Newest
    <3>5. ~Voided(first, truth)
      BY <3>2, <3>3, <3>4 DEF Voided
    <3>6. first' = first
      BY <1>7, <3>5 DEF Push
    <3>7. /\ armed'.target = confirmTarget(armed'.action, Newest', config')
          /\ armed'.target # {} /\ armed'.action \in CONFIRM
      BY <3>1, <3>2, <3>4
    <3>8. first' = [action |-> armed'.action, device |-> config',
                    about |-> About(armed'.action, hass'[config'])]
      BY <3>1, <3>2, <3>3, <3>4, <3>6
    <3> QED
      BY <3>7, <3>8 DEF Aimed
  <2> QED
    BY <2>1, <2>2
<1>8. ASSUME NEW d \in Device, setConfig(d) PROVE Aimed'
  BY <1>8 DEF setConfig, Rendered, Aimed
<1>9. CASE disconnectedCallback
  BY <1>9 DEF disconnectedCallback, Rendered, Aimed
<1>10. CASE RenderLater
  <2>1. armed' # None => armed' = armed /\ late' = late
    BY <1>10 DEF RenderLater, Render, Rendered, TypeOK
  <2> QED
    BY <1>10, <2>1 DEF RenderLater, Aimed, Newest
<1>11. CASE Timer
  BY <1>11 DEF Timer, Rendered, Aimed
<1>12. CASE TimePasses
  BY <1>12 DEF TimePasses, Aimed
<1>13. CASE _press \/ release \/ OpenList \/ CloseList
  BY <1>13 DEF _press, release, OpenList, CloseList, Aimed, Newest
<1>14. CASE UNCHANGED vars
  BY <1>14 DEF vars, Aimed, Newest
<1> QED
  BY <1>1, <1>2, <1>3, <1>5, <1>6, <1>7, <1>8, <1>9, <1>10, <1>11, <1>12, <1>13, <1>14
  DEF Next, Page

(* A second tap confirms only what the first was of.                       *)
THEOREM ConfirmationsExact == Spec => ConfirmationIsExact
<1>1. Init => ScansAreOwned /\ Aimed
  <2> SUFFICES ASSUME Init PROVE ScansAreOwned /\ Aimed
    OBVIOUS
  <2>1. \A d \in Device : truth[d].scan = IF d = config THEN scans ELSE 0
    BY DEF Init
  <2>2. scans \in Nat /\ hass = truth /\ config \in Device
    BY DEF Init
  <2>3. shown.view.device = config /\ shown.view.fact = truth[config]
    BY DEF Init
  <2>4. ASSUME NEW x \in Attempts
        PROVE  x[2] <= scans /\ (x[2] = 0 \/ x[1] = config)
    BY <2>1, <2>2, <2>3 DEF Attempts
  <2>5. ScansAreOwned
    BY <2>4 DEF ScansAreOwned
  <2> QED
    BY <2>5 DEF Init, Aimed
<1>2. TypeOK /\ ScansAreOwned /\ Aimed /\ [Next]_vars =>
        [\A c \in calls' \ calls : c.action \in CONFIRM /\ ~c.done =>
           first = [action |-> c.action, device |-> c.device, about |-> c.seen]]_vars
  <2> SUFFICES ASSUME TypeOK, ScansAreOwned, Aimed, Next, NEW c \in calls' \ calls,
                      c.action \in CONFIRM, ~c.done
               PROVE  first = [action |-> c.action, device |-> c.device, about |-> c.seen]
    OBVIOUS
  <2>1. ASSUME NEW d \in calls, Serve(d) PROVE FALSE
    <3>1. [d EXCEPT !.done = TRUE].done
      BY DEF TypeOK, Call
    <3> QED
      BY <2>1, <3>1 DEF Serve
  <2>2. ASSUME NEW s \in Snapshot, _change(s) PROVE FALSE
    BY <2>2 DEF _change, _call, CONFIRM
  <2>3. PICK a \in Action : _click(a)
    BY <2>1, <2>2 DEF Next, Page, Change, Scanned, Answer, Push, setConfig,
         disconnectedCallback, RenderLater, _press, release, OpenList, CloseList,
         TimePasses, Timer, server
  <2>4. Request(a, Acted)
    BY <2>3 DEF _click, _arm, server
  <2>5. c.action = a /\ c.device = shown.view.device /\ c.seen = About(a, shown.view.fact)
    BY <2>4 DEF Request, Acted, _call
  <2>6. IsArmed(armed, late, a, Acted, config) /\ Available(a, shown.view.fact)
    <3>1. ~_arm(a, confirmTarget(a, Acted, config))
      BY DEF _arm, server
    <3> QED
      BY <2>3, <2>5, <3>1 DEF _click
  <2>7. confirmTarget(a, shown.view, config) = confirmTarget(a, Newest, config)
    BY <2>6 DEF IsArmed, Acted, Aimed
  <2>8. first = [action |-> a, device |-> config, about |-> About(a, hass[config])]
    BY <2>6 DEF IsArmed, Aimed
  <2>9. shown.view.device = config /\ About(a, shown.view.fact) = About(a, hass[config])
    BY <2>5, <2>6, <2>7, SameTap
  <2> QED
    BY <2>5, <2>8, <2>9
<1> QED
  BY <1>1, <1>2, CardTypes, NextOwned, NextAimed, PTL DEF Spec, ConfirmationIsExact
=============================================================================

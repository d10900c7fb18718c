------------------------- MODULE CoordinatorRefresh -------------------------
(***************************************************************************)
(* ProxmoxCoordinator (coordinator.py): the refresh that reads the cluster *)
(* node by node on an executor thread while guests move, and what its      *)
(* result does to known guests, entities, devices and package work.        *)
(*                                                                         *)
(* Guests are the LXCs; QEMU guests take the same path without package     *)
(* work.  Home Assistant never runs two refreshes of a coordinator at once.*)
(***************************************************************************)
EXTENDS Naturals

CONSTANTS
  Node, Guest, Store,
  Holds,        \* the storages each node lists: SUBSET (Node \X Store)
  Platform,     \* the entity platforms that follow guests
  PackageNode,  \* package_node of the config entry
  NoNode,
  NoData,       \* coordinator.data before the first refresh
  MaxMoves      \* changes of the cluster and reloads (bounds an instance)

ASSUME RefreshAssumption ==
  /\ Holds \subseteq Node \X Store
  /\ PackageNode \in Node /\ NoNode \notin Node
  /\ MaxMoves \in Nat

VARIABLES
  (* The cluster. *)
  place,      \* the node each guest is on
  awake,      \* the guests that run
  state,      \* each node's state; a node that is gone is not listed
  moves,
  (* The refresh under way. *)
  reading,    \* the read it is in
  at,         \* the node it reads
  todo,       \* nodes still to be read, at included
  again,      \* the read was already retried
  got,        \* what it has read
  (* The coordinator and the package manager. *)
  data,       \* the result of the last refresh that worked
  ok,         \* last_update_success
  stopped,    \* the failure after which nothing is polled, or "no"
  known,      \* known_containers
  work,       \* the package attempt on each guest of PackageNode
  (* Entities: a guest's native ones are bound to the node they were made   *)
  (* for; its package ones exist or not.                                    *)
  setup,      \* platforms set up
  entity, package, device, storeDevice,
  (* History that only properties read, since the refresh began. *)
  wasThere,   \* <<node, guest>> pairs that were true at some time
  wasAway,    \* pairs that were not, or whose node was not online
  wasDown     \* nodes that were not online

cluster == <<place, awake, state, moves>>
refresh == <<reading, at, todo, again, got>>
entities == <<setup, entity, package, device, storeDevice>>
manager == <<data, ok, stopped, known, work>>
history == <<wasThere, wasAway, wasDown>>
vars == <<cluster, refresh, manager, entities, history>>

Pair    == Node \X Guest
Listing == [nodes : SUBSET Node, guests : SUBSET Pair, running : SUBSET Pair,
            stores : SUBSET (Node \X Store)]
ASSUME NoDataAssumption == NoData \notin Listing

Nothing == [nodes |-> {}, guests |-> {}, running |-> {}, stores |-> {}]

State   == {"online", "offline", "gone"}
Reading == {"idle", "probe", "nodes", "guests", "stores", "done"}
Work    == {"none", "scan", "update"}

Online  == {n \in Node : state[n] = "online"}
There   == {x \in Pair : place[x[2]] = x[1]}
Guests(listing) == {x[2] : x \in listing.guests}
Stores(listing) == {x[2] : x \in listing.stores}

NoEntity == [p \in Platform |-> [g \in Guest |-> NoNode]]

NoPackage == [p \in Platform |-> {}]
NoWork    == [g \in Guest |-> "none"]

Init ==
  /\ place \in [Guest -> Node] /\ awake = Guest
  /\ state = [n \in Node |-> "online"] /\ moves = 0
  /\ reading = "idle" /\ at = NoNode /\ todo = {} /\ again = FALSE /\ got = Nothing
  /\ data = NoData /\ ok = TRUE /\ stopped = "no" /\ known = {} /\ work = NoWork
  /\ setup = {} /\ entity = NoEntity /\ package = NoPackage
  /\ device = {} /\ storeDevice = {}
  /\ wasThere = {} /\ wasAway = {} /\ wasDown = {}

-----------------------------------------------------------------------------
(***************************************************************************)
(* The cluster: a guest migrates, is created, destroyed, started or        *)
(* stopped; a node leaves or comes back.                                   *)
(***************************************************************************)
Witness ==
  IF reading = "idle" THEN UNCHANGED history
  ELSE /\ wasThere' = wasThere \cup There'
       /\ wasAway'  = wasAway \cup {x \in Pair : x \notin There' \/ x[1] \notin Online'}
       /\ wasDown'  = wasDown \cup (Node \ Online')

Changes ==
  /\ moves < MaxMoves /\ moves' = moves + 1
  /\ Witness
  /\ UNCHANGED <<refresh, manager, entities>>

Move(g, n) ==
  /\ place[g] # n /\ n \in Online \cup {NoNode}
  /\ place' = [place EXCEPT ![g] = n]
  /\ UNCHANGED <<awake, state>> /\ Changes

StartStop(g) ==
  /\ place[g] \in Online
  /\ awake' = IF g \in awake THEN awake \ {g} ELSE awake \cup {g}
  /\ UNCHANGED <<place, state>> /\ Changes

(* The node that answers the API is one of them, and lists itself online.  *)
NodeChanges(n, s) ==
  /\ state[n] # s /\ (s = "online" \/ Online # {n})
  /\ state' = [state EXCEPT ![n] = s]
  /\ UNCHANGED <<place, awake>> /\ Changes

-----------------------------------------------------------------------------
(***************************************************************************)
(* The reads of one refresh.  Home Assistant polls while entities listen,  *)
(* and node entities always do once a platform is set up; an entry that    *)
(* has no data yet is set up, again if need be, with _async_setup's probe  *)
(* first.  After some failures it does neither (stopped, below).           *)
(***************************************************************************)
Begin ==
  /\ reading = "idle" /\ stopped = "no" /\ (data = NoData \/ setup # {})
  /\ reading' = IF data = NoData THEN "probe" ELSE "nodes"
  /\ wasThere' = There
  /\ wasAway' = {x \in Pair : x \notin There \/ x[1] \notin Online}
  /\ wasDown' = Node \ Online
  /\ UNCHANGED <<cluster, at, todo, again, got, manager, entities>>

(* _init_proxmox: permissions and nodes, which only have to be readable.    *)
Probe ==
  /\ reading = "probe" /\ reading' = "nodes"
  /\ UNCHANGED <<cluster, at, todo, again, got, manager, entities, history>>

(* The next node to read, in whatever order the API lists them. *)
ReadNext(left) ==
  /\ todo' = left /\ again' = FALSE
  /\ IF left = {} THEN reading' = "done" /\ at' = NoNode
                  ELSE reading' = "guests" /\ at' \in left

(* _get_node_data returns empty lists for a node that is not online. *)
ReadNodes ==
  /\ reading = "nodes"
  /\ got' = [Nothing EXCEPT !.nodes = {n \in Node : state[n] # "gone"}]
  /\ ReadNext(Online)
  /\ UNCHANGED <<cluster, manager, entities, history>>

ReadGuests ==
  /\ reading = "guests" /\ at \in Online
  /\ got' = [got EXCEPT
       !.guests  = @ \cup {x \in There : x[1] = at},
       !.running = @ \cup {x \in There : x[1] = at /\ x[2] \in awake}]
  /\ reading' = "stores" /\ again' = FALSE
  /\ UNCHANGED <<cluster, at, todo, manager, entities, history>>

(* The storage list and the last backup, which fall back alike. *)
ReadStores ==
  /\ reading = "stores" /\ at \in Online
  /\ got' = [got EXCEPT !.stores = @ \cup {x \in Holds : x[1] = at}]
  /\ ReadNext(todo \ {at})
  /\ UNCHANGED <<cluster, manager, entities, history>>

-----------------------------------------------------------------------------
(***************************************************************************)
(* A read fails: transient is a 5xx or a read timeout, refused a 4xx, down *)
(* an error or cut of the connection, untrusted one of its certificate,    *)
(* unauthorized an AuthenticationError.                                    *)
(***************************************************************************)
Failure == {"transient", "refused", "timeout", "down", "untrusted", "unauthorized"}

(* The probe is not retried, nor is a connect timeout.                     *)
Retries(failure) == failure = "transient" /\ reading # "probe" /\ ~again

(* Mutant of FallsBack: a guest list that cannot be read does no harm.     *)
FallsBackForGuests(failure) ==
  /\ reading \in {"guests", "stores"} /\ failure \in {"transient", "refused", "timeout"}
  /\ data # NoData /\ at \in data.nodes

(* Only what is informational may be taken from the previous result. *)
FallsBack(failure) ==
  /\ reading = "stores" /\ failure \in {"transient", "refused", "timeout"}
  /\ data # NoData /\ at \in data.nodes

Of(n, pairs) == {x \in pairs : x[1] = n}

(* Mutant of Fallback: the node keeps all it had. *)
FallbackWhole == [nodes |-> {}, guests |-> Of(at, data.guests),
                  running |-> Of(at, data.running), stores |-> Of(at, data.stores)]

Fallback == [Nothing EXCEPT !.stores = Of(at, data.stores)]

Joined(a, b) == [nodes   |-> a.nodes \cup b.nodes,     guests |-> a.guests \cup b.guests,
                 running |-> a.running \cup b.running, stores |-> a.stores \cup b.stores]

EndRefresh ==
  /\ reading' = "idle" /\ at' = NoNode /\ todo' = {} /\ again' = FALSE
  /\ got' = Nothing
  /\ wasThere' = {} /\ wasAway' = {} /\ wasDown' = {}

(* Mutant of Permanent: setup gives up when the connection drops, as       *)
(* upstream's does.                                                        *)
PermanentWhenDown(failure) ==
  \/ failure = "unauthorized"
  \/ reading = "probe" /\ failure \in {"refused", "untrusted", "down"}

(* ConfigEntryAuthFailed, at any time, and ConfigEntryError, of the probe:  *)
(* Home Assistant neither polls nor sets the entry up again until its user *)
(* does (SETUP_ERROR, reauthentication).  Everything else is UpdateFailed. *)
Permanent(failure) ==
  \/ failure = "unauthorized"
  \/ reading = "probe" /\ failure \in {"refused", "untrusted"}

(* The data stay, marked as not current; setup ends without any.           *)
RefreshFails(failure) ==
  /\ ok' = (data = NoData)
  /\ stopped' = IF Permanent(failure) THEN failure ELSE "no"
  /\ EndRefresh
  /\ UNCHANGED <<cluster, data, known, work, entities>>

ReadFails(failure) ==
  /\ reading \in {"probe", "nodes", "guests", "stores"}
  /\ \/ /\ Retries(failure)
        /\ again' = TRUE
        /\ UNCHANGED <<cluster, reading, at, todo, got, manager, entities, history>>
     \/ /\ ~Retries(failure) /\ FallsBack(failure)
        /\ got' = Joined(got, Fallback)
        /\ ReadNext(todo \ {at})
        /\ UNCHANGED <<cluster, manager, entities, history>>
     \/ ~Retries(failure) /\ ~FallsBack(failure) /\ RefreshFails(failure)

-----------------------------------------------------------------------------
(***************************************************************************)
(* What a result does to entities.  pick is the pair that comes first in   *)
(* the list of new guests; the registry rejects an entity whose unique id, *)
(* which does not name the node, is in use.                                *)
(***************************************************************************)
Picks(pairs) == {pick \in [Guest -> Node] :
  \A g \in Guest : (\E n \in Node : <<n, g>> \in pairs) => <<pick[g], g>> \in pairs}

(* _async_add_new_containers of platform p, and its package entities. *)
Added(p, pairs, pick) ==
  [g \in Guest |-> IF entity[p][g] = NoNode /\ <<pick[g], g>> \in pairs
                     THEN pick[g] ELSE entity[p][g]]

AddedPackage(p, pairs) == package[p] \cup {g \in Guest : <<PackageNode, g>> \in pairs}

AlreadyKnown == data.guests \cap known

(* async_setup_entry of a platform: it subscribes to new guests and adds   *)
(* those already known, with no await in between.                          *)
SetUp(p) ==
  /\ data # NoData /\ p \notin setup
  /\ setup' = setup \cup {p}
  /\ \E pick \in Picks(AlreadyKnown) :
       entity' = [entity EXCEPT ![p] = Added(p, AlreadyKnown, pick)]
  /\ package' = [package EXCEPT ![p] = AddedPackage(p, AlreadyKnown)]
  /\ device' = device \cup {x[2] : x \in AlreadyKnown}
  /\ storeDevice' = storeDevice \cup Stores(data)
  /\ UNCHANGED <<cluster, refresh, manager, history>>

(* Mutant of StillKnown: a guest once known stays known. *)
EverKnown(current) == known

StillKnown(current) == known \cap current

(* Mutant of Pruned: work is pruned against the previous result. *)
PrunedLate(g) ==
  IF data = NoData \/ <<PackageNode, g>> \notin data.guests THEN "none" ELSE work[g]

(* async_prune, then async_invalidate_non_running. *)
Pruned(g) ==
  IF \/ <<PackageNode, g>> \notin got.guests
     \/ work[g] = "scan" /\ <<PackageNode, g>> \notin got.running
    THEN "none" ELSE work[g]

(* _async_remove_stale_devices: a device goes with its entities. *)
Stale(g) == g \notin Guests(got)

(* _async_add_remove_nodes and the assignment of data, on the event loop.  *)
Publish ==
  /\ reading = "done"
  /\ work' = [g \in Guest |-> Pruned(g)]
  /\ LET new == got.guests \ StillKnown(got.guests) IN
       /\ known' = StillKnown(got.guests) \cup new
       /\ \E pick \in Picks(new) :
            entity' = [p \in Platform |-> [g \in Guest |->
              IF Stale(g) \/ p \notin setup THEN NoNode ELSE Added(p, new, pick)[g]]]
       /\ package' = [p \in Platform |->
            IF p \in setup THEN {g \in AddedPackage(p, new) : ~Stale(g)} ELSE {}]
       /\ device' = (device \cup IF setup = {} THEN {} ELSE {x[2] : x \in new})
                      \cap Guests(got)
       /\ storeDevice' = (storeDevice \cup IF setup = {} THEN {} ELSE Stores(got))
                           \cap Stores(got)
  /\ data' = got /\ ok' = TRUE
  /\ EndRefresh
  /\ UNCHANGED <<cluster, stopped, setup>>

-----------------------------------------------------------------------------
(***************************************************************************)
(* Package work, as far as the coordinator's data decide on it.            *)
(***************************************************************************)
(* What a press and async_start_easy_update require of the data. *)
Eligible(g) == data # NoData /\ ok /\ <<PackageNode, g>> \in data.running

(* A press of the guest's own button, or an Easy Update. *)
StartWork(g, kind) ==
  /\ \E p \in setup : g \in package[p]
  /\ Eligible(g) /\ work[g] = "none"
  /\ work' = [work EXCEPT ![g] = kind]
  /\ UNCHANGED <<cluster, refresh, data, ok, stopped, known, entities, history>>

(* async_scan_entry, by the Scan All action or the daily timer. *)
ScanAll ==
  /\ setup = Platform
  /\ work' = [g \in Guest |-> IF Eligible(g) /\ work[g] = "none" THEN "scan" ELSE work[g]]
  /\ UNCHANGED <<cluster, refresh, data, ok, stopped, known, entities, history>>

EndWork(g) ==
  /\ work[g] # "none"
  /\ work' = [work EXCEPT ![g] = "none"]
  /\ UNCHANGED <<cluster, refresh, data, ok, stopped, known, entities, history>>

(* Unload and setup: a new coordinator and manager; devices stay.  The     *)
(* poll is a task of the entry, which ends with it.  The user who gives a  *)
(* stopped entry new credentials, or sets it up again, reloads it too, as  *)
(* often as it takes.                                                      *)
Reload ==
  /\ \/ setup = Platform /\ moves < MaxMoves /\ moves' = moves + 1
     \/ /\ stopped # "no" /\ (setup = Platform \/ data = NoData)
        /\ UNCHANGED moves
  /\ data' = NoData /\ ok' = TRUE /\ stopped' = "no" /\ known' = {} /\ work' = NoWork
  /\ setup' = {} /\ entity' = NoEntity /\ package' = NoPackage
  /\ EndRefresh
  /\ UNCHANGED <<place, awake, state, device, storeDevice>>

-----------------------------------------------------------------------------
Read == \/ Probe \/ ReadNodes \/ ReadGuests \/ ReadStores
        \/ \E failure \in Failure : ReadFails(failure)

Next ==
  \/ \E g \in Guest : \/ StartStop(g) \/ EndWork(g)
                      \/ \E n \in Node \cup {NoNode} : Move(g, n)
                      \/ \E kind \in Work \ {"none"} : StartWork(g, kind)
  \/ \E n \in Node, s \in State : NodeChanges(n, s)
  \/ Begin \/ Read \/ Publish
  \/ \E p \in Platform : SetUp(p)
  \/ ScanAll \/ Reload

Spec == Init /\ [][Next]_vars

(* Home Assistant polls and sets up platforms; every request to PVE has a  *)
(* timeout.  No read has to work, no user has to come back, and nothing    *)
(* else is owed.                                                           *)
FairSpec ==
  /\ Spec
  /\ WF_vars(Begin) /\ WF_vars(Read) /\ WF_vars(Publish)
  /\ \A p \in Platform : WF_vars(SetUp(p))

-----------------------------------------------------------------------------
(* Type correctness. *)
TypeOK ==
  /\ place \in [Guest -> Node \cup {NoNode}] /\ awake \subseteq Guest
  /\ state \in [Node -> State] /\ moves \in 0 .. MaxMoves
  /\ reading \in Reading /\ at \in Node \cup {NoNode} /\ todo \subseteq Node
  /\ again \in BOOLEAN /\ got \in Listing
  /\ data = NoData \/ data \in Listing
  /\ ok \in BOOLEAN /\ stopped \in {"no"} \cup Failure /\ known \subseteq Pair
  /\ work \in [Guest -> Work]
  /\ setup \subseteq Platform
  /\ entity \in [Platform -> [Guest -> Node \cup {NoNode}]]
  /\ package \in [Platform -> SUBSET Guest]
  /\ device \subseteq Guest /\ storeDevice \subseteq Store
  /\ wasThere \subseteq Pair /\ wasAway \subseteq Pair /\ wasDown \subseteq Node

(* Each platform has an entity for exactly the guests of the last result,  *)
(* whatever the order of platform setups and refreshes, and package        *)
(* entities for all those on the package node: none is missed and none     *)
(* outlives its guest, also not one that left and came back.               *)
EntitiesFollowData == \A p \in setup : \A g \in Guest :
  /\ entity[p][g] # NoNode <=> g \in Guests(data)
  /\ <<PackageNode, g>> \in data.guests => g \in package[p]
  /\ g \in package[p] => g \in Guests(data)

(* Package work goes on only for a guest that the last result shows on the *)
(* package node, and a Scan only for one it shows running.                 *)
WorkIsListed == \A g \in Guest :
  /\ work[g] # "none" => data # NoData /\ <<PackageNode, g>> \in data.guests
  /\ work[g] = "scan" => <<PackageNode, g>> \in data.running

(* A result is true of the time of its refresh: it shows a guest only      *)
(* where it was at some time since the refresh began, and it misses none   *)
(* that was in its place, on a node that was up, all that time.            *)
DataIsCurrent == [][reading = "done" /\ reading' = "idle" /\ data' # NoData =>
  /\ data'.guests \subseteq wasThere
  /\ Pair \ wasAway \subseteq data'.guests]_vars

(* A device goes, and package work is dropped by a refresh, only when the  *)
(* guest really was away from the node, or the node down, during that      *)
(* refresh.  A read that failed never costs a guest its device, and costs  *)
(* a storage its own only if the last result had nothing to fall back on.  *)
LostOnlyWhenAway == [][
  /\ \A g \in device \ device' : \A n \in Node : <<n, g>> \in wasAway
  /\ \A s \in storeDevice \ storeDevice' : \A x \in Holds : x[2] = s =>
       x[1] \in wasDown \/ x \notin data.stores
  /\ reading = "done" /\ reading' = "idle" /\ data' # NoData =>
       \A g \in Guest : work[g] # "none" /\ work'[g] = "none" =>
         \/ <<PackageNode, g>> \in wasAway
         \/ work[g] = "scan" /\ <<PackageNode, g>> \notin got.running]_vars

(* Once no read fails any more and the cluster is at rest (its changes are *)
(* bounded), the data come to show each guest where it is and no other,    *)
(* and stay so, offered as current, whatever failed before: unless what    *)
(* failed is a matter for the user, who does not come.  Nothing then is    *)
(* offered as current, and the probe is the only read that a refusal or a  *)
(* certificate may make such a matter.                                     *)
Truth == {x \in There : x[1] \in Online}
Current == data # NoData /\ ok /\ data.guests = Truth
LeftToUser == \/ stopped = "unauthorized" /\ (data = NoData \/ ~ok)
              \/ stopped \in {"refused", "untrusted"} /\ data = NoData
Recovers ==
  <>[][\A failure \in Failure : ~ReadFails(failure)]_vars
    => <>[]Current \/ <>[]LeftToUser
=============================================================================

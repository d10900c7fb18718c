----------------------- MODULE CoordinatorRefresh_proofs -----------------------
(***************************************************************************)
(* Proofs about CoordinatorRefresh, for any number of nodes, guests,       *)
(* storages and platforms: type correctness, that entities and package     *)
(* work follow the data, that the data are true of the time they were      *)
(* read, that a read which fails loses nothing, that polling stops only    *)
(* for the user, and that each step of a refresh brings it nearer its end. *)
(***************************************************************************)
EXTENDS CoordinatorRefresh, FiniteSetTheorems, TLAPS

USE RefreshAssumption, NoDataAssumption

-----------------------------------------------------------------------------
(***************************************************************************)
(* Type correctness, of each part of the state on its own.                 *)
(***************************************************************************)
ClusterType ==
  /\ place \in [Guest -> Node \cup {NoNode}] /\ awake \subseteq Guest
  /\ state \in [Node -> State] /\ moves \in 0 .. MaxMoves
RefreshType ==
  /\ reading \in Reading /\ at \in Node \cup {NoNode} /\ todo \subseteq Node
  /\ again \in BOOLEAN /\ got \in Listing
DataType ==
  /\ data = NoData \/ data \in Listing
  /\ ok \in BOOLEAN /\ known \subseteq Pair /\ work \in [Guest -> Work]
  /\ stopped \in {"no"} \cup Failure
EntityType ==
  /\ setup \subseteq Platform
  /\ entity \in [Platform -> [Guest -> Node \cup {NoNode}]]
  /\ package \in [Platform -> SUBSET Guest]
  /\ device \subseteq Guest /\ storeDevice \subseteq Store
HistoryType ==
  wasThere \subseteq Pair /\ wasAway \subseteq Pair /\ wasDown \subseteq Node

LEMMA Parts ==
  TypeOK <=> ClusterType /\ RefreshType /\ DataType /\ EntityType /\ HistoryType
BY DEF TypeOK, ClusterType, RefreshType, DataType, EntityType, HistoryType

LEMMA NothingType == Nothing \in Listing
BY DEF Nothing, Listing

LEMMA InitType == Init => TypeOK
<1> SUFFICES ASSUME Init PROVE TypeOK
  OBVIOUS
<1>1. ClusterType
  BY DEF Init, ClusterType, State, RefreshAssumption
<1>2. RefreshType
  BY NothingType DEF Init, RefreshType, Reading
<1>3. DataType
  BY DEF Init, DataType, NoWork, Work
<1>4. EntityType
  BY DEF Init, EntityType, NoEntity, NoPackage
<1>5. HistoryType
  BY DEF Init, HistoryType
<1> QED
  BY <1>1, <1>2, <1>3, <1>4, <1>5, Parts

(* What a change of the cluster, and nothing else, does.                   *)
LEMMA ChangesType ==
  ASSUME TypeOK, Changes
  PROVE  RefreshType' /\ DataType' /\ EntityType' /\ HistoryType' /\ moves' \in 0 .. MaxMoves
<1>1. HistoryType'
  BY DEF Changes, Witness, history, TypeOK, HistoryType, There, Online
<1>2. moves' \in 0 .. MaxMoves
  BY DEF Changes, TypeOK, RefreshAssumption
<1> QED
  BY <1>1, <1>2 DEF Changes, refresh, manager, entities, TypeOK, RefreshType, DataType,
                    EntityType

LEMMA EndType ==
  ASSUME TypeOK, EndRefresh
  PROVE  RefreshType' /\ HistoryType'
BY NothingType DEF EndRefresh, RefreshType, HistoryType, Reading

LEMMA ReadNextType ==
  ASSUME TypeOK, NEW left \in SUBSET Node, ReadNext(left)
  PROVE  reading' \in Reading /\ at' \in Node \cup {NoNode} /\ todo' \subseteq Node
           /\ again' \in BOOLEAN
BY DEF ReadNext, Reading

LEMMA ReadType == TypeOK /\ Read => TypeOK'
<1> SUFFICES ASSUME TypeOK, Read PROVE TypeOK'
  OBVIOUS
<1>1. CASE ReadNodes
  <2>1. got' \in Listing
    BY <1>1 DEF ReadNodes, Nothing, Listing
  <2>2. Online \in SUBSET Node
    BY DEF Online
  <2>3. RefreshType'
    BY <1>1, <2>1, <2>2, ReadNextType DEF ReadNodes, RefreshType
  <2> QED
    BY <1>1, <2>3 DEF ReadNodes, cluster, manager, entities, history, TypeOK, RefreshType
<1>2. CASE ReadGuests
  <2>1. got' \in Listing
    BY <1>2 DEF ReadGuests, TypeOK, Listing, There
  <2> QED
    BY <1>2, <2>1 DEF ReadGuests, cluster, manager, entities, history, TypeOK, Reading
<1>3. CASE ReadStores
  <2>1. got' \in Listing
    BY <1>3 DEF ReadStores, TypeOK, Listing, RefreshAssumption
  <2>2. todo \ {at} \in SUBSET Node
    BY DEF TypeOK
  <2>3. RefreshType'
    BY <1>3, <2>1, <2>2, ReadNextType DEF ReadStores, RefreshType
  <2> QED
    BY <1>3, <2>3 DEF ReadStores, cluster, manager, entities, history, TypeOK, RefreshType
<1>0. CASE Probe
  BY <1>0 DEF Probe, cluster, manager, entities, history, TypeOK, Reading
<1>4. ASSUME NEW failure \in Failure, ReadFails(failure) PROVE TypeOK'
  <2>1. CASE again' = TRUE /\ UNCHANGED <<cluster, reading, at, todo, got, manager, entities, history>>
    BY <2>1 DEF cluster, manager, entities, history, TypeOK
  <2>2. CASE /\ FallsBack(failure) /\ got' = Joined(got, Fallback) /\ ReadNext(todo \ {at})
             /\ UNCHANGED <<cluster, manager, entities, history>>
    <3>1. got' \in Listing
      BY <2>2 DEF FallsBack, Joined, Fallback, Nothing, Of, TypeOK, Listing
    <3>2. todo \ {at} \in SUBSET Node
      BY DEF TypeOK
    <3>3. RefreshType'
      BY <2>2, <3>1, <3>2, ReadNextType DEF RefreshType
    <3> QED
      BY <2>2, <3>3 DEF cluster, manager, entities, history, TypeOK, RefreshType
  <2>3. CASE RefreshFails(failure)
    <3>1. RefreshType' /\ HistoryType'
      BY <2>3, EndType DEF RefreshFails
    <3>2. ClusterType' /\ EntityType'
      BY <2>3 DEF RefreshFails, cluster, entities, TypeOK, ClusterType, EntityType
    <3>3. DataType'
      BY <2>3 DEF RefreshFails, TypeOK, DataType
    <3> QED
      BY <3>1, <3>2, <3>3 DEF TypeOK, ClusterType, RefreshType, DataType, EntityType, HistoryType
  <2> QED
    BY <1>4, <2>1, <2>2, <2>3 DEF ReadFails
<1> QED
  BY <1>0, <1>1, <1>2, <1>3, <1>4 DEF Read

LEMMA SetUpType ==
  ASSUME TypeOK, NEW p \in Platform, SetUp(p)
  PROVE  TypeOK'
<1>1. data \in Listing
  BY DEF SetUp, TypeOK
<1>2. AlreadyKnown \subseteq Pair
  BY DEF AlreadyKnown, TypeOK
<1>3. Stores(data) \subseteq Store
  BY <1>1 DEF Stores, Listing
<1>4. entity' \in [Platform -> [Guest -> Node \cup {NoNode}]]
  BY DEF SetUp, Added, TypeOK, Picks
<1>5. AddedPackage(p, AlreadyKnown) \subseteq Guest
  BY DEF AddedPackage, TypeOK
<1>6. package' \in [Platform -> SUBSET Guest]
  BY <1>5 DEF SetUp, TypeOK
<1>7. device' \subseteq Guest /\ storeDevice' \subseteq Store
  BY <1>2, <1>3 DEF SetUp, TypeOK, Pair
<1>8. EntityType'
  BY <1>4, <1>6, <1>7 DEF SetUp, EntityType, TypeOK
<1> QED
  BY <1>8 DEF SetUp, cluster, refresh, manager, history, TypeOK, EntityType

LEMMA PublishType == TypeOK /\ Publish => TypeOK'
<1> SUFFICES ASSUME TypeOK, Publish PROVE TypeOK'
  OBVIOUS
<1> DEFINE new == got.guests \ StillKnown(got.guests)
<1>0. got \in Listing /\ got.guests \subseteq Pair /\ Stores(got) \subseteq Store
  BY DEF TypeOK, Listing, Stores
<1>1. RefreshType' /\ HistoryType'
  BY EndType DEF Publish
<1>2. ClusterType'
  BY DEF Publish, cluster, TypeOK, ClusterType
<1>3. known' \subseteq Pair
  BY <1>0 DEF Publish, StillKnown
<1>4. work' \in [Guest -> Work]
  BY DEF Publish, Pruned, TypeOK, Work
<1>5. DataType'
  BY <1>0, <1>3, <1>4 DEF Publish, DataType, TypeOK
<1>6. entity' \in [Platform -> [Guest -> Node \cup {NoNode}]]
  <2>1. PICK pick \in Picks(new) :
          entity' = [p \in Platform |-> [g \in Guest |->
            IF Stale(g) \/ p \notin setup THEN NoNode ELSE Added(p, new, pick)[g]]]
    BY DEF Publish
  <2>2. \A p \in Platform : Added(p, new, pick) \in [Guest -> Node \cup {NoNode}]
    BY DEF Added, TypeOK, Picks
  <2> QED
    BY <2>1, <2>2
<1>7. package' \in [Platform -> SUBSET Guest]
  <2>1. \A p \in Platform : AddedPackage(p, new) \subseteq Guest
    BY DEF AddedPackage, TypeOK
  <2> QED
    BY <2>1 DEF Publish
<1>8. device' \subseteq Guest /\ storeDevice' \subseteq Store
  BY <1>0 DEF Publish, TypeOK, Guests, Pair
<1>9. EntityType'
  BY <1>6, <1>7, <1>8 DEF Publish, EntityType, TypeOK
<1> QED
  BY <1>1, <1>2, <1>5, <1>9 DEF TypeOK, ClusterType, RefreshType, DataType, EntityType,
                                HistoryType

LEMMA NextType == TypeOK /\ [Next]_vars => TypeOK'
<1> SUFFICES ASSUME TypeOK, [Next]_vars PROVE TypeOK'
  OBVIOUS
<1> USE DEF ClusterType, RefreshType, DataType, EntityType, HistoryType
<1>1. ASSUME NEW g \in Guest, StartStop(g) PROVE TypeOK'
  <2>1. Changes /\ awake' \subseteq Guest /\ UNCHANGED <<place, state>>
    BY <1>1 DEF StartStop, TypeOK
  <2> QED
    BY <2>1, ChangesType DEF TypeOK
<1>2. ASSUME NEW g \in Guest, EndWork(g) PROVE TypeOK'
  <2>1. work' \in [Guest -> Work]
    BY <1>2 DEF EndWork, TypeOK, Work
  <2> QED
    BY <1>2, <2>1 DEF EndWork, cluster, refresh, entities, history, TypeOK
<1>3. ASSUME NEW g \in Guest, NEW n \in Node \cup {NoNode}, Move(g, n) PROVE TypeOK'
  <2>1. Changes /\ place' \in [Guest -> Node \cup {NoNode}] /\ UNCHANGED <<awake, state>>
    BY <1>3 DEF Move, TypeOK
  <2> QED
    BY <2>1, ChangesType DEF TypeOK
<1>4. ASSUME NEW g \in Guest, NEW kind \in Work \ {"none"}, StartWork(g, kind) PROVE TypeOK'
  <2>1. work' \in [Guest -> Work]
    BY <1>4 DEF StartWork, TypeOK, Work
  <2> QED
    BY <1>4, <2>1 DEF StartWork, cluster, refresh, entities, history, TypeOK
<1>5. ASSUME NEW n \in Node, NEW s \in State, NodeChanges(n, s) PROVE TypeOK'
  <2>1. Changes /\ state' \in [Node -> State] /\ UNCHANGED <<place, awake>>
    BY <1>5 DEF NodeChanges, TypeOK
  <2> QED
    BY <2>1, ChangesType DEF TypeOK
<1>6. CASE Begin
  <2>1. wasThere' \subseteq Pair /\ wasAway' \subseteq Pair /\ wasDown' \subseteq Node
    BY <1>6 DEF Begin, There, Online
  <2> QED
    BY <1>6, <2>1 DEF Begin, cluster, manager, entities, TypeOK, Reading
<1>7. CASE ScanAll
  <2>1. work' \in [Guest -> Work]
    BY <1>7 DEF ScanAll, TypeOK, Work
  <2> QED
    BY <1>7, <2>1 DEF ScanAll, cluster, refresh, entities, history, TypeOK
<1>8. CASE Reload
  <2>1. EntityType'
    BY <1>8 DEF Reload, NoEntity, NoPackage, TypeOK
  <2>2. DataType'
    BY <1>8 DEF Reload, NoWork, Work
  <2>3. RefreshType' /\ HistoryType'
    BY <1>8, EndType DEF Reload
  <2>4. ClusterType'
    BY <1>8 DEF Reload, TypeOK, RefreshAssumption
  <2> QED
    BY <2>1, <2>2, <2>3, <2>4 DEF TypeOK
<1>9. CASE UNCHANGED vars
  BY <1>9 DEF vars, cluster, refresh, manager, entities, history, TypeOK
<1> QED
  BY <1>1, <1>2, <1>3, <1>4, <1>5, <1>6, <1>7, <1>8, <1>9, ReadType, PublishType, SetUpType
  DEF Next

(* Each part of the refresh keeps its type.                                *)
THEOREM Types == Spec => []TypeOK
BY InitType, NextType, PTL DEF Spec

-----------------------------------------------------------------------------
(***************************************************************************)
(* Entities and package work.  Both rest on what the coordinator keeps     *)
(* together: known_containers are the guests of the data, and a platform   *)
(* that is not set up has no entity.                                       *)
(***************************************************************************)
Kept ==
  /\ got.running \subseteq got.guests
  /\ data # NoData => data.running \subseteq data.guests /\ known = data.guests
  /\ data = NoData => setup = {}

Unbound == \A p \in Platform \ setup : package[p] = {} /\ \A g \in Guest : entity[p][g] = NoNode

(* Only Publish, SetUp and Reload touch entities, the data or what is      *)
(* known; others give work only to a guest that is eligible.               *)
Quiet ==
  /\ UNCHANGED <<data, known, entities>>
  /\ \A g \in Guest : \/ work'[g] \in {work[g], "none"}
                      \/ work'[g] \in Work /\ Eligible(g)

LEMMA Steps ==
  ASSUME TypeOK, [Next]_vars
  PROVE  Quiet \/ Publish \/ Reload \/ \E p \in Platform : SetUp(p)
<1>1. ASSUME NEW g \in Guest, StartStop(g) PROVE Quiet
  BY <1>1 DEF StartStop, Changes, manager, entities, Quiet
<1>2. ASSUME NEW g \in Guest, EndWork(g) PROVE Quiet
  BY <1>2 DEF EndWork, Quiet, TypeOK
<1>3. ASSUME NEW g \in Guest, NEW n \in Node \cup {NoNode}, Move(g, n) PROVE Quiet
  BY <1>3 DEF Move, Changes, manager, entities, Quiet
<1>4. ASSUME NEW g \in Guest, NEW kind \in Work \ {"none"}, StartWork(g, kind) PROVE Quiet
  BY <1>4 DEF StartWork, Quiet, TypeOK
<1>5. ASSUME NEW n \in Node, NEW s \in State, NodeChanges(n, s) PROVE Quiet
  BY <1>5 DEF NodeChanges, Changes, manager, entities, Quiet
<1>6. CASE Begin
  BY <1>6 DEF Begin, manager, entities, Quiet
<1>7. CASE ScanAll
  BY <1>7 DEF ScanAll, Quiet, TypeOK, Work
<1>8. CASE Read
  BY <1>8 DEF Read, Probe, ReadNodes, ReadGuests, ReadStores, ReadFails, RefreshFails, manager,
              entities, Quiet
<1>9. CASE UNCHANGED vars
  BY <1>9 DEF vars, manager, entities, Quiet
<1> QED
  BY <1>1, <1>2, <1>3, <1>4, <1>5, <1>6, <1>7, <1>8, <1>9 DEF Next

(* What has been read runs only where it is listed.                        *)
LEMMA RunningType ==
  ASSUME TypeOK, got.running \subseteq got.guests, [Next]_vars
  PROVE  got'.running \subseteq got'.guests
<1>1. CASE UNCHANGED got
  BY <1>1
<1>2. CASE EndRefresh
  BY <1>2 DEF EndRefresh, Nothing
<1>3. CASE ReadNodes
  BY <1>3 DEF ReadNodes, Nothing
<1>4. CASE ReadGuests
  BY <1>4 DEF ReadGuests, TypeOK, Listing
<1>5. CASE ReadStores
  BY <1>5 DEF ReadStores, TypeOK, Listing
<1>6. CASE got' = Joined(got, Fallback)
  BY <1>6 DEF Joined, Fallback, Nothing
<1> QED
  BY <1>1, <1>2, <1>3, <1>4, <1>5, <1>6
  DEF Next, vars, refresh, StartStop, EndWork, Move, StartWork, NodeChanges, Changes, Begin,
      Read, Probe, ReadFails, RefreshFails, Publish, SetUp, ScanAll, Reload

LEMMA KeptInductive ==
  ASSUME TypeOK, TypeOK', Kept, [Next]_vars
  PROVE  Kept'
<1>1. got'.running \subseteq got'.guests
  BY RunningType DEF Kept
<1>2. CASE Quiet
  BY <1>1, <1>2 DEF Quiet, Kept, entities
<1>3. CASE Publish
  BY <1>1, <1>3 DEF Publish, StillKnown, Kept, TypeOK
<1>4. CASE Reload
  BY <1>1, <1>4 DEF Reload, Kept
<1>5. ASSUME NEW p \in Platform, SetUp(p) PROVE Kept'
  BY <1>1, <1>5 DEF SetUp, manager, Kept
<1> QED
  BY <1>2, <1>3, <1>4, <1>5, Steps

LEMMA UnboundInductive ==
  ASSUME TypeOK, Kept, Unbound, [Next]_vars
  PROVE  Unbound'
<1>1. CASE Quiet
  BY <1>1 DEF Quiet, Unbound, entities
<1>2. CASE Publish
  BY <1>2 DEF Publish, Unbound
<1>3. CASE Reload
  BY <1>3 DEF Reload, Unbound, NoEntity, NoPackage
<1>4. ASSUME NEW p \in Platform, SetUp(p) PROVE Unbound'
  BY <1>4 DEF SetUp, Unbound, TypeOK
<1> QED
  BY <1>1, <1>2, <1>3, <1>4, Steps

(* A platform set up late adds what the earlier refreshes have announced.  *)
LEMMA SetUpFollows ==
  ASSUME TypeOK, Kept, Unbound, EntitiesFollowData, NEW p \in Platform, SetUp(p)
  PROVE  EntitiesFollowData'
<1>1. data # NoData /\ data' = data /\ AlreadyKnown = data.guests /\ data.guests \subseteq Pair
  BY DEF SetUp, manager, Kept, AlreadyKnown, TypeOK, Listing
<1>2. PICK pick \in Picks(data.guests) :
        entity' = [entity EXCEPT ![p] = Added(p, data.guests, pick)]
  BY <1>1 DEF SetUp
<1>3. \A g \in Guest : (\E n \in Node : <<n, g>> \in data.guests) <=> g \in Guests(data)
  <2> SUFFICES ASSUME NEW g \in Guest
               PROVE  (\E n \in Node : <<n, g>> \in data.guests) <=> g \in Guests(data)
    OBVIOUS
  <2>1. ASSUME NEW n \in Node, <<n, g>> \in data.guests PROVE g \in Guests(data)
    BY <2>1 DEF Guests
  <2>2. ASSUME g \in Guests(data) PROVE \E n \in Node : <<n, g>> \in data.guests
    <3>1. PICK x \in data.guests : x[2] = g
      BY <2>2 DEF Guests
    <3>2. x = <<x[1], g>> /\ x[1] \in Node
      BY <1>1, <3>1 DEF Pair
    <3> QED
      BY <3>1, <3>2
  <2> QED
    BY <2>1, <2>2
<1>4. \A g \in Guest : entity'[p][g] # NoNode <=> g \in Guests(data)
  <2> SUFFICES ASSUME NEW g \in Guest PROVE entity'[p][g] # NoNode <=> g \in Guests(data)
    OBVIOUS
  <2>1. entity[p][g] = NoNode /\ pick[g] \in Node
    BY DEF Unbound, SetUp, Picks
  <2>2. entity'[p][g] = IF <<pick[g], g>> \in data.guests THEN pick[g] ELSE NoNode
    BY <1>2, <2>1 DEF Added, TypeOK
  <2>3. <<pick[g], g>> \in data.guests <=> g \in Guests(data)
    BY <1>3, <2>1 DEF Picks
  <2> QED
    BY <2>1, <2>2, <2>3
<1>5. \A q \in setup : entity'[q] = entity[q] /\ package'[q] = package[q]
  BY <1>2 DEF SetUp, TypeOK
<1>6. package'[p] = {g \in Guest : <<PackageNode, g>> \in data.guests}
  BY <1>1 DEF SetUp, AddedPackage, Unbound, TypeOK
<1>7. setup' = setup \cup {p}
  BY DEF SetUp
<1>8. \A g \in Guest : <<PackageNode, g>> \in data.guests => g \in Guests(data)
  BY <1>3
<1> QED
  BY <1>1, <1>4, <1>5, <1>6, <1>7, <1>8 DEF EntitiesFollowData, Guests

LEMMA PublishFollows ==
  ASSUME TypeOK, Kept, EntitiesFollowData, Publish
  PROVE  EntitiesFollowData'
<1> DEFINE new == got.guests \ StillKnown(got.guests)
<1>1. PICK pick \in Picks(new) :
        entity' = [p \in Platform |-> [g \in Guest |->
          IF Stale(g) \/ p \notin setup THEN NoNode ELSE Added(p, new, pick)[g]]]
  BY DEF Publish
<1>2. package' = [p \in Platform |->
        IF p \in setup THEN {g \in AddedPackage(p, new) : ~Stale(g)} ELSE {}]
  BY DEF Publish
<1>3. setup' = setup /\ data' = got /\ got.guests \subseteq Pair /\ setup \subseteq Platform
  BY DEF Publish, TypeOK, Listing
<1>4. setup # {} => data # NoData /\ new = got.guests \ data.guests /\ data.guests \subseteq Pair
  BY DEF Kept, StillKnown, TypeOK, Listing
<1> HIDE DEF new
<1>5. ASSUME NEW p \in setup, NEW g \in Guest
      PROVE  entity'[p][g] # NoNode <=> g \in Guests(got)
  <2>1. p \in Platform /\ pick[g] \in Node
    BY <1>3 DEF Picks
  <2>2. entity'[p][g] = IF g \notin Guests(got) THEN NoNode
                        ELSE IF entity[p][g] = NoNode /\ <<pick[g], g>> \in new
                             THEN pick[g] ELSE entity[p][g]
    BY <1>1, <2>1 DEF Stale, Added
  <2>3. CASE g \in Guests(got) /\ entity[p][g] = NoNode
    <3>1. g \notin Guests(data)
      BY <2>3 DEF EntitiesFollowData
    <3>2. PICK n \in Node : <<n, g>> \in got.guests
      BY <2>3, <1>3 DEF Guests, Pair
    <3>3. <<n, g>> \notin data.guests
      BY <3>1 DEF Guests
    <3>4. <<n, g>> \in new
      BY <3>2, <3>3, <1>4
    <3>5. <<pick[g], g>> \in new
      BY <3>4 DEF Picks
    <3> QED
      BY <2>1, <2>2, <2>3, <3>5
  <2> QED
    BY <2>2, <2>3
<1>6. ASSUME NEW p \in setup, NEW g \in Guest
      PROVE  /\ <<PackageNode, g>> \in got.guests => g \in package'[p]
             /\ g \in package'[p] => g \in Guests(got)
  <2>1. package'[p] = {h \in package[p] \cup {h \in Guest : <<PackageNode, h>> \in new} :
                        h \in Guests(got)}
    BY <1>2, <1>3 DEF AddedPackage, Stale
  <2>2. <<PackageNode, g>> \in got.guests => g \in Guests(got)
    BY DEF Guests
  <2>3. <<PackageNode, g>> \in got.guests => <<PackageNode, g>> \in new \/ g \in package[p]
    BY <1>4 DEF EntitiesFollowData
  <2> QED
    BY <2>1, <2>2, <2>3
<1> QED
  BY <1>3, <1>5, <1>6 DEF EntitiesFollowData, Guests

LEMMA EntitiesInductive ==
  ASSUME TypeOK, Kept, Unbound, EntitiesFollowData, [Next]_vars
  PROVE  EntitiesFollowData'
<1>1. CASE Quiet
  BY <1>1 DEF Quiet, EntitiesFollowData, Guests, entities
<1>2. CASE Publish
  BY <1>2, PublishFollows
<1>3. CASE Reload
  BY <1>3 DEF Reload, EntitiesFollowData
<1>4. ASSUME NEW p \in Platform, SetUp(p) PROVE EntitiesFollowData'
  BY <1>4, SetUpFollows
<1> QED
  BY <1>1, <1>2, <1>3, <1>4, Steps

LEMMA WorkInductive ==
  ASSUME TypeOK, Kept, WorkIsListed, [Next]_vars
  PROVE  WorkIsListed'
<1>1. CASE Quiet
  <2> SUFFICES ASSUME NEW g \in Guest
               PROVE  /\ work'[g] # "none" => data # NoData /\ <<PackageNode, g>> \in data.guests
                      /\ work'[g] = "scan" => <<PackageNode, g>> \in data.running
    BY <1>1 DEF Quiet, WorkIsListed
  <2> QED
    BY <1>1 DEF Quiet, WorkIsListed, Eligible, Kept
<1>2. CASE Publish
  <2>1. data' = got /\ got # NoData
    BY <1>2 DEF Publish, TypeOK
  <2>2. \A g \in Guest : work'[g] = Pruned(g)
    BY <1>2 DEF Publish
  <2> QED
    BY <2>1, <2>2 DEF Pruned, WorkIsListed
<1>3. CASE Reload
  BY <1>3 DEF Reload, NoWork, WorkIsListed
<1>4. ASSUME NEW p \in Platform, SetUp(p) PROVE WorkIsListed'
  BY <1>4 DEF SetUp, manager, WorkIsListed
<1> QED
  BY <1>1, <1>2, <1>3, <1>4, Steps

LEMMA InitKept == Init => Kept /\ Unbound /\ EntitiesFollowData /\ WorkIsListed
BY DEF Init, Kept, Unbound, EntitiesFollowData, WorkIsListed, Nothing, NoEntity, NoPackage, NoWork

(* known_containers and the data agree, and a platform that is not set up  *)
(* holds nothing.                                                          *)
THEOREM Agreement == Spec => [](Kept /\ Unbound)
<1>1. TypeOK /\ TypeOK' /\ (Kept /\ Unbound) /\ [Next]_vars => (Kept /\ Unbound)'
  BY KeptInductive, UnboundInductive
<1> QED
  BY <1>1, InitKept, Types, PTL DEF Spec

(* Whatever the order of platform setups and refreshes, each platform has  *)
(* an entity for exactly the guests of the last result, and package        *)
(* entities for all those on the package node.                             *)
THEOREM EntitiesFollow == Spec => []EntitiesFollowData
<1>1. TypeOK /\ Kept /\ Unbound /\ EntitiesFollowData /\ [Next]_vars => EntitiesFollowData'
  BY EntitiesInductive
<1> QED
  BY <1>1, InitKept, Types, Agreement, PTL DEF Spec

(* Package work goes on only for guests the last result lists there.       *)
THEOREM WorkListed == Spec => []WorkIsListed
<1>1. TypeOK /\ Kept /\ WorkIsListed /\ [Next]_vars => WorkIsListed'
  BY WorkInductive
<1> QED
  BY <1>1, InitKept, Types, Agreement, PTL DEF Spec

-----------------------------------------------------------------------------
(***************************************************************************)
(* What a refresh has read.  Seen relates the history to the cluster while *)
(* a refresh is under way; ReadSoFar says that what was true throughout is *)
(* either read already or still to be read.                                *)
(***************************************************************************)
Reads == reading \in {"guests", "stores", "done"}

Fits ==
  /\ ~Reads => got = Nothing
  /\ reading \in {"guests", "stores"} => at \in todo
  /\ reading = "done" => todo = {}

Seen == reading # "idle" =>
  /\ There \subseteq wasThere /\ got.guests \subseteq wasThere
  /\ \A x \in Pair \ wasAway : x \in There /\ x[1] \in Online
  /\ Node \ Online \subseteq wasDown

(* A guest's node is still to be read, its guests included.                *)
Awaits(x) == x[1] \in todo /\ ~(reading = "stores" /\ x[1] = at)

(* The storages that a failed read cannot cost: listed now or before.      *)
Secured == {x \in Holds : x[1] \notin wasDown /\ (data = NoData \/ x \in data.stores)}

GuestsSoFar == Reads => \A x \in Pair \ wasAway : x \in got.guests \/ Awaits(x)

StoresSoFar == Reads => \A x \in Secured : x \in got.stores \/ x[1] \in todo

Progress == Fits /\ Seen /\ GuestsSoFar /\ StoresSoFar

LEMMA InitProgress == Init => Progress
BY DEF Init, Progress, Fits, Seen, GuestsSoFar, StoresSoFar, Reads

LEMMA EndProgress ==
  ASSUME EndRefresh
  PROVE  Progress'
BY DEF EndRefresh, Progress, Fits, Seen, GuestsSoFar, StoresSoFar, Reads

LEMMA BeginProgress ==
  ASSUME TypeOK, Progress, Begin
  PROVE  Progress'
<1>1. got' = Nothing /\ reading' \in {"probe", "nodes"}
  BY DEF Begin, Progress, Fits, Reads
<1>2. There' = There /\ Online' = Online
  BY DEF Begin, cluster, There, Online
<1> QED
  BY <1>1, <1>2 DEF Begin, Progress, Fits, Seen, GuestsSoFar, StoresSoFar, Reads, Nothing

(* A change of the cluster is recorded while a refresh is under way.       *)
LEMMA ChangesProgress ==
  ASSUME TypeOK, Progress, Changes
  PROVE  Progress'
<1>1. UNCHANGED <<reading, at, todo, got, data>>
  BY DEF Changes, refresh, manager
<1>2. CASE reading = "idle"
  BY <1>1, <1>2 DEF Progress, Fits, Seen, GuestsSoFar, StoresSoFar, Reads
<1>3. CASE reading # "idle"
  <2>1. /\ wasThere' = wasThere \cup There'
        /\ wasAway' = wasAway \cup {x \in Pair : x \notin There' \/ x[1] \notin Online'}
        /\ wasDown' = wasDown \cup (Node \ Online')
    BY <1>3 DEF Changes, Witness
  <2>2. Seen'
    BY <1>1, <2>1 DEF Progress, Seen
  <2>3. GuestsSoFar' /\ StoresSoFar' /\ Fits'
    BY <1>1, <2>1 DEF Progress, Fits, GuestsSoFar, StoresSoFar, Secured, Awaits, Reads
  <2> QED
    BY <2>2, <2>3 DEF Progress
<1> QED
  BY <1>2, <1>3

LEMMA ProbeProgress ==
  ASSUME TypeOK, Progress, Probe
  PROVE  Progress'
<1>1. There' = There /\ Online' = Online
  BY DEF Probe, cluster, There, Online
<1> QED
  BY <1>1 DEF Probe, history, Progress, Fits, Seen, GuestsSoFar, StoresSoFar, Reads

LEMMA NodesProgress ==
  ASSUME TypeOK, Progress, ReadNodes
  PROVE  Progress'
<1>1. /\ got'.guests = {} /\ todo' = Online /\ reading' # "stores" /\ Reads'
      /\ IF Online = {} THEN reading' = "done" ELSE reading' = "guests" /\ at' \in Online
  BY DEF ReadNodes, ReadNext, Nothing, Reads
<1>2. There' = There /\ Online' = Online /\ UNCHANGED <<wasThere, wasAway, wasDown, data>>
  BY DEF ReadNodes, cluster, history, manager, There, Online
<1>3. reading # "idle"
  BY DEF ReadNodes
<1>4. Seen'
  BY <1>1, <1>2, <1>3 DEF Progress, Seen
<1>5. GuestsSoFar'
  BY <1>1, <1>2, <1>3 DEF Progress, Seen, GuestsSoFar, Awaits
<1>6. StoresSoFar'
  <2>1. \A x \in Secured' : x[1] \in Online
    BY <1>2, <1>3 DEF Progress, Seen, Secured, RefreshAssumption
  <2> QED
    BY <1>1, <2>1 DEF StoresSoFar
<1>7. Fits'
  BY <1>1 DEF Fits, Reads
<1> QED
  BY <1>4, <1>5, <1>6, <1>7 DEF Progress

LEMMA GuestsProgress ==
  ASSUME TypeOK, Progress, ReadGuests
  PROVE  Progress'
<1>1. /\ got'.guests = got.guests \cup {x \in There : x[1] = at} /\ got'.stores = got.stores
      /\ reading = "guests" /\ reading' = "stores" /\ UNCHANGED <<at, todo>>
  BY DEF ReadGuests, TypeOK, Listing
<1>2. There' = There /\ Online' = Online /\ UNCHANGED <<wasThere, wasAway, wasDown, data>>
  BY DEF ReadGuests, cluster, history, manager, There, Online
<1>3. Seen'
  BY <1>1, <1>2 DEF Progress, Seen
<1>4. GuestsSoFar'
  BY <1>1, <1>2 DEF Progress, Seen, GuestsSoFar, Awaits, Reads
<1>5. StoresSoFar' /\ Fits'
  BY <1>1, <1>2 DEF Progress, StoresSoFar, Secured, Fits, Reads
<1> QED
  BY <1>3, <1>4, <1>5 DEF Progress

(* A node whose storages are read, or taken from the last result.          *)
LEMMA NodeDone ==
  ASSUME TypeOK, Progress, reading = "stores", ReadNext(todo \ {at}),
         There' = There, Online' = Online, UNCHANGED <<wasThere, wasAway, wasDown, data>>,
         got'.guests = got.guests,
         got.stores \subseteq got'.stores,
         \A x \in Secured : x[1] = at => x \in got'.stores
  PROVE  Progress'
<1>1. /\ todo' = todo \ {at} /\ Reads /\ Reads' /\ reading' # "stores"
      /\ IF todo' = {} THEN reading' = "done" ELSE reading' = "guests" /\ at' \in todo'
  BY DEF ReadNext, Reads
<1>2. Seen'
  BY DEF Progress, Seen, Reads
<1>3. GuestsSoFar'
  BY <1>1 DEF Progress, GuestsSoFar, Awaits
<1>4. StoresSoFar'
  BY <1>1 DEF Progress, StoresSoFar, Secured
<1>5. Fits'
  BY <1>1 DEF Fits
<1> QED
  BY <1>2, <1>3, <1>4, <1>5 DEF Progress

LEMMA StoresProgress ==
  ASSUME TypeOK, Progress, ReadStores
  PROVE  Progress'
<1>1. got'.guests = got.guests /\ got'.stores = got.stores \cup {x \in Holds : x[1] = at}
  BY DEF ReadStores, TypeOK, Listing
<1>2. There' = There /\ Online' = Online /\ UNCHANGED <<wasThere, wasAway, wasDown, data>>
  BY DEF ReadStores, cluster, history, manager, There, Online
<1>3. reading = "stores" /\ ReadNext(todo \ {at})
  BY DEF ReadStores
<1>4. \A x \in Secured : x[1] = at => x \in got'.stores
  BY <1>1 DEF Secured
<1> QED
  BY <1>1, <1>2, <1>3, <1>4, NodeDone

LEMMA FailsProgress ==
  ASSUME TypeOK, Progress, NEW failure \in Failure, ReadFails(failure)
  PROVE  Progress'
<1>1. CASE RefreshFails(failure)
  BY <1>1, EndProgress DEF RefreshFails
<1>2. CASE UNCHANGED <<cluster, reading, at, todo, got, manager, entities, history>>
  <2>1. There' = There /\ Online' = Online
    BY <1>2 DEF cluster, There, Online
  <2> QED
    BY <1>2, <2>1 DEF manager, history, Progress, Fits, Seen, GuestsSoFar, StoresSoFar, Secured,
                      Awaits, Reads
<1>3. CASE /\ FallsBack(failure) /\ got' = Joined(got, Fallback) /\ ReadNext(todo \ {at})
           /\ UNCHANGED <<cluster, manager, entities, history>>
  <2>1. There' = There /\ Online' = Online /\ UNCHANGED <<wasThere, wasAway, wasDown, data>>
    BY <1>3 DEF cluster, history, manager, There, Online
  <2>2. got'.guests = got.guests /\ got'.stores = got.stores \cup Of(at, data.stores)
    BY <1>3 DEF Joined, Fallback, Nothing, TypeOK, Listing
  <2>3. reading = "stores" /\ data # NoData
    BY <1>3 DEF FallsBack
  <2>4. \A x \in Secured : x[1] = at => x \in got'.stores
    BY <2>2, <2>3 DEF Secured, Of
  <2> QED
    BY <1>3, <2>1, <2>2, <2>3, <2>4, NodeDone
<1> QED
  BY <1>1, <1>2, <1>3 DEF ReadFails

LEMMA ProgressInductive ==
  ASSUME TypeOK, Progress, [Next]_vars
  PROVE  Progress'
<1>1. CASE Changes
  BY <1>1, ChangesProgress
<1>2. CASE EndRefresh
  BY <1>2, EndProgress
<1>3. CASE UNCHANGED <<cluster, refresh, history, data>>
  <2>1. There' = There /\ Online' = Online
    BY <1>3 DEF cluster, There, Online
  <2> QED
    BY <1>3, <2>1 DEF refresh, history, Progress, Fits, Seen, GuestsSoFar, StoresSoFar, Secured,
                      Awaits, Reads
<1>4. CASE Begin
  BY <1>4, BeginProgress
<1>5. CASE Read
  BY <1>5, ProbeProgress, NodesProgress, GuestsProgress, StoresProgress, FailsProgress DEF Read
<1> QED
  BY <1>1, <1>2, <1>3, <1>4, <1>5
  DEF Next, vars, manager, StartStop, EndWork, Move, StartWork, NodeChanges, Publish, SetUp,
      ScanAll, Reload

(* While a refresh is under way, what was true all that time is already    *)
(* read, or its node is still to be read.                                  *)
THEOREM ReadsProgress == Spec => []Progress
<1>1. TypeOK /\ Progress /\ [Next]_vars => Progress'
  BY ProgressInductive
<1> QED
  BY <1>1, InitProgress, Types, PTL DEF Spec

(* At the end of a refresh everything that was true throughout is read.    *)
LEMMA AllRead ==
  ASSUME TypeOK, Progress, reading = "done"
  PROVE  /\ got.guests \subseteq wasThere
         /\ \A x \in Pair \ wasAway : x \in got.guests
         /\ \A x \in Secured : x \in got.stores
BY DEF Progress, Fits, Seen, GuestsSoFar, StoresSoFar, Reads, Awaits

(* Only Publish takes over a result that was read to the end.              *)
LEMMA OnlyPublish ==
  ASSUME TypeOK, [Next]_vars, reading = "done", reading' = "idle", data' # NoData
  PROVE  Publish
<1>1. CASE Quiet
  BY DEF Next, vars, refresh, manager, StartStop, EndWork, Move, StartWork, NodeChanges, Changes,
         Begin, Read, Probe, ReadNodes, ReadGuests, ReadStores, ReadFails, SetUp, ScanAll, Reload
<1> QED
  BY <1>1, Steps DEF Reload, SetUp, refresh

(* A result is true of the time of its refresh.                            *)
THEOREM DataCurrent == Spec => DataIsCurrent
<1>1. ASSUME TypeOK, Progress, [Next]_vars, reading = "done", reading' = "idle", data' # NoData
      PROVE  data'.guests \subseteq wasThere /\ Pair \ wasAway \subseteq data'.guests
  <2>1. data' = got
    BY <1>1, OnlyPublish DEF Publish
  <2> QED
    BY <1>1, <2>1, AllRead
<1> QED
  BY <1>1, Types, ReadsProgress, PTL DEF Spec, DataIsCurrent

(* A guest loses its device, and a refresh drops package work, only when   *)
(* the guest was away or its node down during that refresh; a storage only *)
(* when each node that holds it was down or had not listed it before.      *)
THEOREM NothingLost == Spec => LostOnlyWhenAway
<1>1. ASSUME TypeOK, Progress, [Next]_vars
      PROVE  /\ \A g \in device \ device' : \A n \in Node : <<n, g>> \in wasAway
             /\ \A s \in storeDevice \ storeDevice' : \A x \in Holds : x[2] = s =>
                  x[1] \in wasDown \/ x \notin data.stores
             /\ reading = "done" /\ reading' = "idle" /\ data' # NoData =>
                  \A g \in Guest : work[g] # "none" /\ work'[g] = "none" =>
                    \/ <<PackageNode, g>> \in wasAway
                    \/ work[g] = "scan" /\ <<PackageNode, g>> \notin got.running
  <2>1. CASE Publish
    <3>1. reading = "done" /\ device \cap Guests(got) \subseteq device'
            /\ storeDevice \cap Stores(got) \subseteq storeDevice'
            /\ \A g \in Guest : work'[g] = Pruned(g)
      BY <2>1 DEF Publish
    <3>2. /\ \A x \in Pair \ wasAway : x \in got.guests
          /\ \A x \in Secured : x \in got.stores
      BY <1>1, <3>1, AllRead
    <3>3. \A g \in device \ device' : \A n \in Node : <<n, g>> \in wasAway
      <4> SUFFICES ASSUME NEW g \in device \ device', NEW n \in Node, <<n, g>> \notin wasAway
                   PROVE  FALSE
        OBVIOUS
      <4>1. <<n, g>> \in got.guests
        BY <1>1, <3>2 DEF TypeOK, Pair
      <4>2. g \in Guests(got)
        BY <4>1 DEF Guests
      <4> QED
        BY <3>1, <4>2
    <3>4. \A s \in storeDevice \ storeDevice' : \A x \in Holds : x[2] = s =>
            x[1] \in wasDown \/ x \notin data.stores
      <4> SUFFICES ASSUME NEW x \in Holds, x[2] \in storeDevice \ storeDevice',
                          x[1] \notin wasDown, x \in data.stores
                   PROVE  FALSE
        OBVIOUS
      <4>1. x \in got.stores
        BY <3>2 DEF Secured
      <4>2. x[2] \in Stores(got)
        BY <4>1 DEF Stores
      <4> QED
        BY <3>1, <4>2
    <3>5. \A g \in Guest : work[g] # "none" /\ work'[g] = "none" =>
            \/ <<PackageNode, g>> \in wasAway
            \/ work[g] = "scan" /\ <<PackageNode, g>> \notin got.running
      BY <3>1, <3>2 DEF Pruned, Pair, RefreshAssumption
    <3> QED
      BY <3>3, <3>4, <3>5
  <2>2. CASE ~Publish
    <3>1. device \subseteq device' /\ storeDevice \subseteq storeDevice'
      BY <1>1, <2>2, Steps DEF Quiet, entities, Reload, SetUp
    <3> QED
      BY <1>1, <2>2, <3>1, OnlyPublish
  <2> QED
    BY <2>1, <2>2
<1> QED
  BY <1>1, Types, ReadsProgress, PTL DEF Spec, LostOnlyWhenAway

-----------------------------------------------------------------------------
(***************************************************************************)
(* The end of polling.  The probe comes only before the first result, so a *)
(* refusal or a certificate that ends it leaves no data behind.            *)
(***************************************************************************)
Stops ==
  /\ stopped # "no" => reading = "idle" /\ LeftToUser
  /\ reading = "probe" => data = NoData

LEMMA StopsInductive ==
  ASSUME TypeOK, Stops, [Next]_vars
  PROVE  Stops'
<1>1. ASSUME NEW failure \in Failure, ReadFails(failure) PROVE Stops'
  <2>1. stopped = "no"
    BY <1>1 DEF ReadFails, Stops
  <2>2. CASE RefreshFails(failure)
    BY <2>2, <1>1, <2>1
    DEF RefreshFails, EndRefresh, Permanent, Failure, Stops, LeftToUser
  <2>3. CASE UNCHANGED <<reading, manager>>
    BY <2>1, <2>3 DEF manager, Stops, LeftToUser
  <2>4. CASE FallsBack(failure) /\ ReadNext(todo \ {at}) /\ UNCHANGED manager
    BY <2>1, <2>4 DEF ReadNext, manager, Stops, LeftToUser
  <2> QED
    BY <1>1, <2>2, <2>3, <2>4 DEF ReadFails
<1>2. CASE Probe \/ ReadNodes \/ ReadGuests \/ ReadStores
  BY <1>2 DEF Probe, ReadNodes, ReadGuests, ReadStores, ReadNext, manager, Stops, LeftToUser
<1>3. CASE Begin
  BY <1>3 DEF Begin, manager, Stops
<1>4. CASE Publish
  BY <1>4 DEF Publish, EndRefresh, Stops
<1>5. CASE Reload
  BY <1>5 DEF Reload, EndRefresh, Stops
<1>6. CASE UNCHANGED <<reading, data, ok, stopped>>
  BY <1>6 DEF Stops, LeftToUser
<1> QED
  BY <1>1, <1>2, <1>3, <1>4, <1>5, <1>6
  DEF Next, Read, vars, refresh, manager, StartStop, EndWork, Move, StartWork, NodeChanges,
      Changes, SetUp, ScanAll

(* Polling ends only with an AuthenticationError, or, before any result,   *)
(* with what the probe may not be asked again about; and while nothing is  *)
(* polled no result is offered as current, nor package work accepted.      *)
THEOREM StopsForTheUser ==
  Spec => [](stopped # "no" => /\ LeftToUser
                               /\ \A g \in Guest : ~Eligible(g))
<1>1. Init => Stops
  BY DEF Init, Stops
<1>2. TypeOK /\ Stops /\ [Next]_vars => Stops'
  BY StopsInductive
<1>3. Stops => (stopped # "no" => LeftToUser /\ \A g \in Guest : ~Eligible(g))
  BY DEF Stops, LeftToUser, Eligible
<1> QED
  BY <1>1, <1>2, <1>3, Types, PTL DEF Spec

-----------------------------------------------------------------------------
(***************************************************************************)
(* The end of a refresh.  Recovers is a liveness property and stays with   *)
(* TLC; that a refresh comes to an end at all, whatever fails on the way,  *)
(* is a distance that every read shortens, by two per list of a node still *)
(* to be read and by one for the retry of the read under way.              *)
(***************************************************************************)
Left ==
  CASE reading = "probe"  -> 4 * Cardinality(Node) + 4
    [] reading = "nodes"  -> 4 * Cardinality(Node) + (IF again THEN 2 ELSE 3)
    [] reading = "guests" -> 4 * Cardinality(todo) + (IF again THEN 0 ELSE 1)
    [] reading = "stores" -> 4 * Cardinality(todo) - (IF again THEN 2 ELSE 1)
    [] reading = "done"   -> 1
    [] OTHER              -> 0

LEMMA Sizes ==
  ASSUME IsFiniteSet(Node), TypeOK, Progress
  PROVE  /\ Cardinality(Node) \in Nat /\ Cardinality(todo) \in Nat
         /\ \A left \in SUBSET Node :
              /\ Cardinality(left) \in Nat /\ Cardinality(left) <= Cardinality(Node)
         /\ reading \in {"guests", "stores"} =>
              /\ Cardinality(todo) > 0
              /\ Cardinality(todo \ {at}) = Cardinality(todo) - 1
<1>1. \A left \in SUBSET Node : /\ IsFiniteSet(left) /\ Cardinality(left) \in Nat
                               /\ Cardinality(left) <= Cardinality(Node)
  BY FS_Subset, FS_CardinalityType
<1>2. todo \in SUBSET Node /\ IsFiniteSet(todo) /\ Cardinality(todo) \in Nat
  BY <1>1 DEF TypeOK
<1>3. ASSUME reading \in {"guests", "stores"}
      PROVE  Cardinality(todo) > 0 /\ Cardinality(todo \ {at}) = Cardinality(todo) - 1
  <2>1. at \in todo
    BY <1>3 DEF Progress, Fits
  <2>2. Cardinality(todo \ {at}) = Cardinality(todo) - 1
    BY <1>2, <2>1, FS_RemoveElement
  <2>3. Cardinality(todo) # 0
    BY <1>2, <2>1, FS_EmptySet
  <2> QED
    BY <1>2, <2>2, <2>3
<1> QED
  BY <1>1, <1>2, <1>3, FS_CardinalityType

LEMMA LeftIs ==
  ASSUME IsFiniteSet(Node), TypeOK, Progress
  PROVE  /\ Left \in Nat
         /\ reading \in {"probe", "nodes", "guests", "stores"} => Left > 1
BY Sizes DEF TypeOK, Left, Reading

(* The step to the next node, or to the end of the reads.                  *)
LEMMA NextNode ==
  ASSUME NEW left, ReadNext(left), Cardinality(left) \in Nat
  PROVE  Left' \in Nat /\ Left' <= 4 * Cardinality(left) + 1
<1>1. CASE left = {}
  BY <1>1 DEF ReadNext, Left
<1>2. CASE left # {}
  BY <1>2 DEF ReadNext, Left
<1> QED
  BY <1>1, <1>2

LEMMA ReadNearer ==
  ASSUME IsFiniteSet(Node), TypeOK, Progress, Read
  PROVE  Left' \in Nat /\ Left' < Left
<1>1. CASE ReadNodes
  <2>1. Online \in SUBSET Node
    BY DEF Online
  <2>2. Left' \in Nat /\ Left' <= 4 * Cardinality(Online) + 1
    BY <1>1, <2>1, Sizes, NextNode DEF ReadNodes
  <2>3. Left > 4 * Cardinality(Node) + 1
    BY <1>1, Sizes DEF ReadNodes, Left
  <2> QED
    BY <2>1, <2>2, <2>3, Sizes, LeftIs
<1>2. CASE ReadGuests
  <2>1. reading = "guests" /\ reading' = "stores" /\ again' = FALSE /\ todo' = todo
    BY <1>2 DEF ReadGuests
  <2>2. Left' = 4 * Cardinality(todo) - 1 /\ Left >= 4 * Cardinality(todo)
    BY <2>1, Sizes DEF Left
  <2> QED
    BY <2>1, <2>2, Sizes, LeftIs
<1>3. ASSUME reading = "stores", ReadNext(todo \ {at}) PROVE Left' \in Nat /\ Left' < Left
  <2>1. Left' \in Nat /\ Left' <= 4 * (Cardinality(todo) - 1) + 1
    <3>1. Cardinality(todo \ {at}) \in Nat
      BY <1>3, Sizes
    <3> QED
      BY <1>3, <3>1, Sizes, NextNode
  <2>2. Left >= 4 * Cardinality(todo) - 2
    BY <1>3, Sizes DEF Left
  <2> QED
    BY <1>3, <2>1, <2>2, Sizes, LeftIs
<1>4. CASE ReadStores
  BY <1>3, <1>4 DEF ReadStores
<1>5. ASSUME NEW failure \in Failure, ReadFails(failure) PROVE Left' \in Nat /\ Left' < Left
  <2>1. reading \in {"probe", "nodes", "guests", "stores"}
    BY <1>5 DEF ReadFails
  <2>2. CASE reading # "probe" /\ ~again /\ again' = TRUE /\ UNCHANGED <<reading, todo>>
    BY <2>1, <2>2, Sizes DEF Left
  <2>3. CASE RefreshFails(failure)
    <3>1. Left' = 0
      BY <2>3 DEF RefreshFails, EndRefresh, Left
    <3> QED
      BY <2>1, <3>1, LeftIs
  <2>4. CASE FallsBack(failure) /\ ReadNext(todo \ {at})
    BY <1>3, <2>4 DEF FallsBack
  <2> QED
    BY <1>5, <2>2, <2>3, <2>4 DEF ReadFails, Retries
<1>6. CASE Probe
  <2>1. Left = 4 * Cardinality(Node) + 4 /\ Left' <= 4 * Cardinality(Node) + 3 /\ Left' \in Nat
    BY <1>6, Sizes DEF Probe, Left
  <2> QED
    BY <2>1, Sizes
<1> QED
  BY <1>1, <1>2, <1>4, <1>5, <1>6 DEF Read

LEMMA OthersAhead ==
  ASSUME IsFiniteSet(Node), TypeOK, Progress, Next, ~Read, ~Publish, reading # "idle"
  PROVE  Left' <= Left
<1>1. CASE EndRefresh
  <2>1. Left' = 0
    BY <1>1 DEF EndRefresh, Left
  <2> QED
    BY <2>1, LeftIs
<1>2. CASE UNCHANGED refresh
  <2>1. Left' = Left
    BY <1>2 DEF refresh, Left
  <2> QED
    BY <2>1, LeftIs
<1> QED
  BY <1>1, <1>2
  DEF Next, StartStop, EndWork, Move, StartWork, NodeChanges, Changes, Begin, SetUp, ScanAll,
      Reload

(* Every refresh comes to an end, whatever fails: each read, retry or      *)
(* publication brings it nearer, and nothing that happens in the cluster   *)
(* or in Home Assistant meanwhile makes it longer.                         *)
THEOREM RefreshNearer ==
  ASSUME IsFiniteSet(Node)
  PROVE  Spec => /\ [](Left \in Nat)
                 /\ [][/\ Read \/ Publish => Left' < Left
                       /\ reading # "idle" => Left' <= Left]_vars
<1>1. TypeOK /\ Progress => Left \in Nat
  BY LeftIs
<1>2. TypeOK /\ Progress /\ [Next]_vars =>
        [/\ Read \/ Publish => Left' < Left
         /\ reading # "idle" => Left' <= Left]_vars
  <2> SUFFICES ASSUME TypeOK, Progress, Next
               PROVE  /\ Read \/ Publish => Left' < Left
                      /\ reading # "idle" => Left' <= Left
    OBVIOUS
  <2>1. CASE Read
    <3>1. Left' \in Nat /\ Left' < Left /\ Left \in Nat
      BY <2>1, ReadNearer, LeftIs
    <3>2. ~Publish
      BY <2>1 DEF Read, Probe, ReadNodes, ReadGuests, ReadStores, ReadFails, Publish
    <3> QED
      BY <3>1, <3>2
  <2>2. CASE Publish
    <3>1. Left = 1 /\ Left' = 0
      BY <2>2 DEF Publish, EndRefresh, Left
    <3> QED
      BY <2>2, <3>1
  <2> QED
    BY <2>1, <2>2, OthersAhead
<1> QED
  BY <1>1, <1>2, Types, ReadsProgress, PTL DEF Spec
=============================================================================

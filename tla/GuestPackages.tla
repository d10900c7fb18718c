--------------------------- MODULE GuestPackages ---------------------------
(***************************************************************************)
(* The world outside Home Assistant that a package request meets: one LXC  *)
(* guest, its dpkg database and the locks of apt and dpkg.  None of it is  *)
(* this repository's code; it is modelled from what deploy/hubinet-        *)
(* package-scan-helper.py runs in the guest and says of it: apt holds its  *)
(* frontend lock from start to end and drops dpkg's database lock between  *)
(* two dpkg runs, a dpkg run that ends well leaves nothing half-installed  *)
(* but may leave packages pending, and one that fails or is killed leaves  *)
(* what it was unpacking half-installed.                                   *)
(***************************************************************************)
EXTENDS Naturals, FiniteSets

CONSTANTS
    Number,     \* how many requests Home Assistant makes
    Pkgs,       \* the guest's packages
    MaxVersion, \* bound: how far a package can be upgraded
    MaxEvents   \* bound: the guest's own apt runs, its stops, and the kills

ASSUME BoundsAssumption == Number \in Nat /\ MaxVersion \in Nat /\ MaxEvents \in Nat

Calls  == 1..Number                    \* the requests, in the order they are made
Nobody == 0
Admin  == Number + 1                   \* the guest's own apt (unattended, by hand)
Owners == 0..Number + 1

VARIABLES
    running,    \* whether the guest runs
    db,         \* the dpkg database: a package's state and its version
    frontend,   \* who holds apt's frontend lock
    locked,     \* whether a dpkg run of that owner holds the database lock
    apt,        \* the apt-get a request started in the guest
    events,     \* how many of the MaxEvents have happened
    stops       \* how many of them were stops of the guest

guestVars == <<running, db, frontend, locked, apt, events, stops>>

Statuses  == {"installed", "half-installed", "pending"}
AptStates == {"no", "running", "ok", "failed", "busy"}

Half       == {p \in Pkgs : db[p].status = "half-installed"}
Unfinished == {p \in Pkgs : db[p].status # "installed"}
Upgradable == {p \in Pkgs : db[p].status = "installed" /\ db[p].version < MaxVersion}

\* A half-installed package with no dpkg run in progress: what a failed or
\* killed dpkg run leaves behind.
Broken == ~locked /\ Half # {}

GuestTypeOK ==
    /\ running \in BOOLEAN
    /\ db \in [Pkgs -> [status : Statuses, version : 0..MaxVersion]]
    /\ frontend \in Owners
    /\ locked \in BOOLEAN
    /\ apt \in [Calls -> AptStates]
    /\ events \in 0..MaxEvents
    /\ stops \in 0..MaxEvents

GuestInit ==
    /\ running = TRUE
    /\ db = [p \in Pkgs |-> [status |-> "installed", version |-> 0]]
    /\ frontend = Nobody /\ locked = FALSE
    /\ apt = [c \in Calls |-> "no"]
    /\ events = 0 /\ stops = 0

Event == events < MaxEvents /\ events' = events + 1

\* The apt of owner o is over, with the result r.
Over(o, r) == [c \in Calls |-> IF c = o THEN r ELSE apt[c]]

-----------------------------------------------------------------------------
\* The apt that a request starts takes the frontend lock, or finds it held.
AptStarts(c) ==
    /\ IF frontend = Nobody
       THEN frontend' = c /\ apt' = [apt EXCEPT ![c] = "running"]
       ELSE apt' = [apt EXCEPT ![c] = "busy"] /\ UNCHANGED frontend
    /\ UNCHANGED <<running, db, locked, events, stops>>

AdminStarts ==
    /\ running /\ frontend = Nobody /\ Event
    /\ frontend' = Admin
    /\ UNCHANGED <<running, db, locked, apt, stops>>

\* The frontend's owner starts a dpkg run, which takes the database lock.
DpkgStarts ==
    /\ frontend # Nobody /\ ~locked
    /\ \E p \in Pkgs : db[p].status # "installed" \/ db[p].version < MaxVersion
    /\ locked' = TRUE
    /\ UNCHANGED <<running, db, frontend, apt, events, stops>>

\* The dpkg run unpacks a package, finishes its unpacking, and configures it.
Begin(p)     == /\ p \in Upgradable
                /\ db' = [db EXCEPT ![p].status = "half-installed"]
Unpack(p)    == /\ db[p].status = "half-installed"
                /\ db' = [db EXCEPT ![p] = [status |-> "pending", version |-> MaxVersion]]
Configure(p) == /\ db[p].status = "pending"
                /\ db' = [db EXCEPT ![p].status = "installed"]

DpkgWorks ==
    /\ locked
    /\ \E p \in Pkgs : Begin(p) \/ Unpack(p) \/ Configure(p)
    /\ UNCHANGED <<running, frontend, locked, apt, events, stops>>

DpkgEnds ==
    /\ locked /\ Half = {}
    /\ locked' = FALSE
    /\ UNCHANGED <<running, db, frontend, apt, events, stops>>

\* apt is done.
AptEnds ==
    /\ frontend # Nobody /\ ~locked /\ Half = {}
    /\ frontend' = Nobody /\ apt' = Over(frontend, "ok")
    /\ UNCHANGED <<running, db, locked, events, stops>>

\* apt or its dpkg run fails: a maintainer script, a download, a signal.
AptFails ==
    /\ frontend # Nobody
    /\ frontend' = Nobody /\ locked' = FALSE /\ apt' = Over(frontend, "failed")
    /\ UNCHANGED <<running, db, events, stops>>

\* The guest stops, which ends everything in it, and starts again.
Stop ==
    /\ running /\ Event /\ stops' = stops + 1
    /\ running' = FALSE /\ frontend' = Nobody /\ locked' = FALSE
    /\ apt' = Over(frontend, "failed")
    /\ UNCHANGED db

Start ==
    /\ ~running
    /\ running' = TRUE
    /\ UNCHANGED <<db, frontend, locked, apt, events, stops>>

GuestStep ==
    \/ AdminStarts \/ DpkgStarts \/ DpkgWorks \/ DpkgEnds
    \/ AptEnds \/ AptFails \/ Stop \/ Start

\* pct exec is killed on the host while the apt of c runs: the process in the
\* guest dies with it, or goes on ("perfect cancellation of guest-side
\* processes is not required").
Severed(c) ==
    \/ UNCHANGED guestVars
    \/ /\ frontend = c
       /\ frontend' = Nobody /\ locked' = FALSE /\ apt' = Over(c, "failed")
       /\ UNCHANGED <<running, db, events, stops>>
=============================================================================

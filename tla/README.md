# A TLA+ verification of hubinet-ops

`custom_components/hubinet_ops` is a Home Assistant integration for Proxmox VE.
On top of the upstream integration's entities it scans, updates, cleans up and
checks the packages of LXC containers through a restricted SSH helper, and it
creates, restores and deletes native snapshots. This directory holds TLA+ modules
of its core, the TLC configurations that check them on small instances, and
machine-checked proofs of the properties that matter most.

Run `tlc -config X.cfg M.tla` for the model checks and `tlapm M_proofs.tla` for
the proofs; `PROJECT.json` lists every run, its properties, the code each
definition stands for, the hazards, and the theorems.

## 1. Inventory of the system

Paths are relative to `src/custom_components/hubinet_ops/`.

| Component | State | Operations | Must be correct |
|---|---|---|---|
| **Package manager** `packages/manager.py` | per (node, VMID): scan, update, cleanup and health records; task handles; viewed token; cleanup evidence; fence; Restore reservation; a scan semaphore and an update semaphore | `async_start_scan/update/autoremove/health`, their background tasks, `mark_viewed`, `confirm_review`, `begin/end_restore`, `invalidate_restore_target`, `async_prune`, `async_invalidate_non_running` | one operation per VMID; no stale publication; only approved plans run; no blocked VMID; every attempt ends |
| **Safety snapshot** `packages/snapshots.py` and the attempt tasks in `manager.py` | the attempt's flags, an executor thread's call, PVE's task and snapshot, APT | list, create, poll, relist, confirm, mutate, probe, delete, confirm | APT covered by a complete snapshot; no snapshot left unreported; the outcome true; bounded |
| **Easy Update (YOLO)** `easy_update.py`, `services.py` | a task that waits on an event for one attempt, until a deadline | confirm and start in one callback; follow with Autoremove; Scan All | acts on the plan shown; follows its own attempt only; misses no wake-up |
| **Native snapshots** `snapshots.py`, `snapshot_restore.py`, `button.py` | the Create observation task; the Restore reservation; one selection | Create, Restore, Delete, each with a PVE task observed until a deadline | no two at once where excluded; never a false result |
| **Selector** `select.py` | options, one choice, availability | poll, refresh, select, clear | what is acted on was chosen and still exists |
| **Coordinator** `coordinator.py` | the last result, `last_update_success`, known nodes and guests, subscribed platforms, device registry | node by node reads with one retry, fallbacks, prune, new-guest callbacks, device removal | a result is true of its own time; a failed read loses nothing; work goes on only for guests that are listed |
| **Transport** `packages/transport.py` | one subprocess per call | prepare, scan, plan, update, autoremove, health | a response is classified, never guessed; ends at its deadline |
| **Guest helper** `deploy/hubinet-package-scan-helper.py` | a per-VMID `flock` | forced-command dispatch, plan check, APT, dpkg health, probe | one operation at a time at a guest; mutates only the agreed plan |
| **Parser** `packages/parser.py` | none | validation of helper JSON | rejects what it does not know |
| **Entry** `__init__.py` | the loaded entry | setup, unload, migration | nothing of it runs after unload |
| **Entities** `sensor.py`, `binary_sensor.py`, `button.py`, `entity.py` | the entities of each platform, bound to the node they were made for | add on subscription and for new guests, go unavailable, render | exactly one per guest of the last result |
| **Cards** `frontend/*.js` | pushed facts, the view shown, the armed action and its timer, busy, pressed, the snapshot list's focus | render, arm, confirm, request, put a rebuild off | confirms what it shows; acts on what it shows; ends up showing what it knows |
| **Auto scan** `auto_scan.py` | one timer | scan every running LXC once a day | as Scan All |
| **Config flow, enrollment** | flow data | forms, key pair | - |
| **Presentation, diagnostics, `vm_memory.py`** | none | rendering, pure functions | - |
| **Bootstrap** `deploy/bootstrap-proxmox.sh` | - | one-time host setup | - |

### How they interact

Everything in Home Assistant runs on **one event loop**: a callback is atomic, a
coroutine can be interleaved at each `await`, and a publication
(`_on_state_change`) runs listeners *inside* the publishing callback. Blocking
PVE calls run on **executor threads**, which a cancelled coroutine does not stop.
PVE tasks and APT run on the Proxmox host and are not stopped by anything in
Home Assistant. The coordinator calls the manager at the end of each refresh
(`async_prune`, `async_invalidate_non_running`); buttons, services and cards call
its start methods; the YOLO follow waits for its publications; Restore takes a
reservation in it; unload cancels every background task of the entry and drops the
manager, whose state is in memory only. A card runs in the browser: it sees pushes
of state that lag behind, and its requests arrive later still.

### What is hard here

* guards and records: guards compare VMIDs, records are per (node, VMID);
* completions that arrive after their target was stopped, removed, restored, or
  given to another attempt;
* publications that re-enter the manager, and wake-ups that must not be lost;
* cancellation at any await while a thread, PVE or APT continues;
* lost answers and deadlines: a PVE call or a mutation whose fate is unknown;
* plan approval across rescans, in the backend and on a card that shows old facts;
* reads of several nodes, or of one guest by several commands, while what they
  read is moving;
* slots, locks and RUNNING records that have to be given back on every path.

`PROJECT.json` lists each hazard at its line with the properties that watch it, or
the reason why none does.

## 2. The modules

| Module | Extends or instantiates | Proofs |
|---|---|---|
| `VmidOwnership`, `MutationAttempt`, `MutationRequest` (abstract) | - | - |
| `PackageManager` | `VmidOwnership` and, per record, `MutationAttempt` as refinements | `PackageManager_proofs`, `VmidOwnership_proofs` |
| `PackageManagerReentry` | `PackageManager` | - |
| `YoloFollow` | `PackageManager`, composed with it and implementing it | `YoloFollow_proofs` |
| `SafetySnapshot` | `MutationRequest` as its environment, `MutationAttempt` as a refinement | `SafetySnapshot_proofs` |
| `NativeSnapshots` | `VmidOwnership` as a refinement | `NativeSnapshots_proofs` |
| `GuestPackages`, `PackageHelper`, `HelperTransport` | each extends the one before; per request, `MutationRequest` as a refinement | `HelperTransport_proofs` |
| `CoordinatorRefresh` | - | `CoordinatorRefresh_proofs` |
| `GuestCard` | - | `GuestCard_proofs` |

### The abstract specifications

Three modules say what one part of the system may rely on from another.

* `VmidOwnership`: who owns a VMID, whatever node keys it is known under. Accept,
  hand over to Health, reserve, release. `PackageManager` and `NativeSnapshots` both
  implement it, each with the other side reduced to it.
* `MutationAttempt`: the life of one Update or Autoremove as the record of its target
  shows it. APT is reached over a complete snapshot or by an explicit choice to go
  without; an interruption at any point before the observation is a failure; only an
  attempt that went all the way is a success.
* `MutationRequest`: what the attempt may rely on when it asks the transport for its
  mutation. It is told one outcome; a success is one of APT, a refusal means that
  nothing of the request is at work, any other failure says nothing of APT.

They tie four models into one argument. `SafetySnapshot` is one attempt over an
assumed `MutationRequest` (its variables `apt` and `told` move as that module
allows); `HelperTransport!ImplementsRequest` discharges the assumption, for each
mutation with its process, deadline, lost answers and apt. `SafetySnapshot!`
`ImplementsAttempt` maps the attempt, with its thread, PVE and APT, to the
`MutationAttempt` that `PackageManager!ImplementsAttempts` shows in each record of an
Update or Autoremove, so that the coarse steps of `MutationStep` are those of the
detailed model.

### PackageManager

The manager of one entry for a set of (node, VMID) keys. A callback is one
action; a background task is one action per stretch between awaits.

| Model | Code |
|---|---|
| `record[kind][t]` | `_records`, `_update_records`, `_cleanup_records`, `_health_records`; a RUNNING record is the identity of its attempt, which is what the code's `is own_record` compares |
| `plan`, `viewed`, `evidence`, `fenced`, `restore` | the SUCCESS scan's result, `_viewed_tokens`, `_cleanup_evidence`, `_fenced_evidence`, `_restore_reserved` |
| `task[a]` | the background task of an attempt: the await it is in, whether it has been cancelled |
| `frame` | a `_finish_update`/`_finish_cleanup` call between its Health claim, its publication and the start of the Health task |
| `StartScan`, `StartUpdate`, `StartAutoremove`, `StartHealth`, `EasyUpdate` | the synchronous start callbacks |
| `HealthNotStarted` | `async_start_health` whose task cannot be created: its claim is taken back |
| `AcquireScanSlot`, `AcquireUpdateSlot`, `ScanRead`, `ScanDone`, `ScanFailed`, `MutationStep`, `MutationFailed`, `MutationDone`, `PublishSuccess`, `StartClaimedHealth`, `HealthDone` | the tasks |
| `CancelDelivered` | every `except CancelledError` |
| `ShowPlan`, `MarkViewed`, `ConfirmReview` | what a card reads; the Review and Approve buttons |
| `BeginRestore`, `InvalidateRestoreTarget`, `EndRestore`, `RestoreUncertain` | the calls of a Restore |
| `Refresh` | a coordinator refresh: prune, then invalidate what does not run |
| `Unload`, `Reload` | the entry is unloaded, and set up again with a new manager |

`held`, `outdated` and a plan's `confirmed` are history. A scan token is only ever
compared with the current record's token, so a remembered one is `current` or
`old`, which keeps the state finite without bounding the number of scans. Attempt
identities are reused once a task has ended. Package contents, change counts and
messages are left out. Reading an Update in `MutationStep` is coarse on purpose:
the steps of the safety snapshot have a module of their own, and `MutationAttempt`
is what the two have in common.

`ImplementsOwnership` is the refinement of `VmidOwnership`, `ImplementsAttempts` that
of `MutationAttempt`: `StageOf(k, t)` is the phase of the task whose record `t` shows,
or what the record says once it has settled. A task that a prune or a reload has
parted from its record is not that attempt any more, and must leave it alone.

`PackageManagerReentry` adds one listener behaviour that `PackageManager`
excludes: starting work from the publication in the *middle* of
`async_start_scan`. (`PackageManager` has listeners that start work from the
publications of a finishing attempt, which the code defends against.)

### YoloFollow

The manager together with the task that an Easy Update with Autoremove leaves
behind. Each action of `PackageManager` is taken with what it publishes.

| Model | Code |
|---|---|
| `follow[f]` | `async_start_post_update_autoremove`: its target, its `asyncio.Event`, whether the Update record still has its `last_attempt` |
| `current` | `coordinator.last_update_success` |
| `Notify`, `Publishes` | `_on_state_change`, and a refresh's `async_update_listeners` |
| `Waits`, `Starts` | `decide()` |
| `FollowWaits`, `FollowStops`, `FollowStarts`, `FollowTimesOut` | clear, decide and wait again; give up; call `async_start_autoremove`; the deadline |
| `EasyUpdateCall` | the `easy_update` service, with and without YOLO |
| `YoloUnload` | the follow is one of the entry's background tasks |

### SafetySnapshot

One Update or Autoremove attempt from acceptance to its outcome, over four
independent parties: the task, the executor thread that carries a create or
delete call, the PVE task, and APT in the guest. `Cancel` may come at any await,
with or without the record being pruned first; it withdraws a call that still
waits for a thread and stops nothing else. The task's actions are named for the
call they return from (`List`, `Created`, `Poll`, `Relist`, `Confirm`, `Mutate`,
`Liveness`, `Deleted`, `PollDelete`, `ConfirmDelete`, `Observe`), the thread's are
`Take`, `Mark` (the `on_submit` callback) and `Submit`. What the transport answers
to `Mutate` is `MutationRequest!Tell`; APT goes on by `MutationRequest!AptStep`, also
after that answer.

### NativeSnapshots

The operator's Create, Restore and Delete on one LXC, any number at a time. The
package manager is reduced to what `VmidOwnership` promises of it: which attempt
owns the guest, and whether a Restore has reserved it.

| Model | Code |
|---|---|
| `phase`, `target`, `tries`, `told` | an operation's coroutine: the await it is in, its snapshot, failed reads, the `RestoreResult` it published |
| `call`, `pve` | its POST or DELETE on an executor thread, and the PVE task that started |
| `snap`, `choice` | what PVE lists; the selector's `selected_snapshot` |
| `work`, `own`, `reserved`, `truth` | the attempt that owns the guest, its safety snapshot, `_restore_reserved`, a Scan result held as current |
| `PressCreate`, `PressRestore`, `PressDelete` | the `async_press` methods |
| `Validate`, `Answered`, `Observe`, `ReadFails` | the coroutines `_async_run_restore`, `_async_run_delete`, `_async_observe_snapshot_create` and `_observe_task` |
| `Deliver` | their `except CancelledError` |
| `Take`, `Request`, `PveEnds` | the executor thread, the request, the PVE task |
| `Select`, `Deselect` | the selector |
| `StartPackage`, `OwnSnapshot`, `EndPackage` | package attempts as snapshots see them |

An unanswered request may have started its task; an interrupted coroutine withdraws
a call that no thread has taken, and leaves everything else running. An Update or
Autoremove is `"update"` here: their difference means nothing to snapshots. `used`
and `rolled` are history.

### GuestPackages, PackageHelper, HelperTransport

One package request from Home Assistant to the helper, its commands in the guest,
and back.

| Model | Code |
|---|---|
| `running`, `db`, `frontend`, `locked`, `apt` | outside the repository: the LXC, the dpkg database, apt's frontend lock, dpkg's database lock, the `apt-get` of each request |
| `op`, `pc`, `flock`, `reply` | a helper process: its operation, the command it is at (`Path`), the lock of `_target_lock`, the answer it printed |
| `seen` | its local variables: what `_read_health_inventory`, `_audit_dpkg_lock`, `_collect_plan` returned |
| `Begins` ... `Rechecks` | `main`, `handle_request` and one action per command of `_scan`, `_plan`, `_plan_autoremove`, `_update_packages`, `_ping`, `_check_health` |
| `CommandFails` | `_run_bounded` and the `ScanError`s a command may raise; `Dies` a process that ends without an answer |
| `outcome`, `Call`, `TimesOut`, `SessionLost`, `Delivered` | `_async_request` and what each `async_*` method makes of its end |
| `Outcome`, `HealthOutcome`, `Parses` | `_parse_update_response`, `_parse_response`, `_parse_health_response`, `classify_health`, `parser.py` |

The guest is whatever it may be: it upgrades packages on its own, its apt hangs or
fails, it stops and starts. A dpkg run ends well only with nothing half-installed;
packages may stay pending between two dpkg runs of one apt. `dpkg --audit` is two
steps (`AuditReads`, `AuditTests`), because it takes no lock. `autoremove_packages`
is `update` (the same commands with other arguments), `plan_autoremove` is
`cleanup`. Package names, versions and texts are left out: the two places where
content matters are whether packages are unfinished and whether a simulation agrees
with an inventory. `held` is history.

### CoordinatorRefresh

One refresh after another, each a sequence of reads on an executor thread during
which the cluster changes.

| Model | Code |
|---|---|
| `place`, `awake`, `state` | outside the repository: where each guest is, whether it runs, each node's state |
| `reading`, `at`, `todo`, `again`, `got` | `_async_update_data`: the read it is in, its node, the nodes left, the retry, what was read |
| `Begin`, `Probe` | Home Assistant's poll, or the setup of an entry without data, whose `_init_proxmox` reads permissions and nodes first |
| `ReadNodes`, `ReadGuests`, `ReadStores` | the list of nodes and the reads of one node; `ReadFails`: retry (`Retries`), fallback to the previous result (`FallsBack`) or the end of the refresh (`RefreshFails`) |
| `Failure`, `Permanent`, `stopped` | what a read fails with, and whether `_async_setup` and `_async_update_data` make it an `UpdateFailed`, after which Home Assistant polls or sets up again, or a `ConfigEntryAuthFailed` or `ConfigEntryError`, after which it does not |
| `Publish` | the result becomes `data`: callbacks for new guests, lost guests forgotten, the manager's prune, devices removed |
| `data`, `ok`, `known`, `work` | `coordinator.data`, `last_update_success`, `known_containers`, the package attempts of the package node |
| `SetUp`, `entity`, `package` | a platform's setup: entities of the guests known, then the subscription to new ones |
| `device`, `storeDevice` | the device registry |
| `StartWork`, `EndWork`, `ScanAll` | package attempts as the coordinator sees them; the Scan All service and the daily Auto scan |
| `Reload` | the entry is unloaded and set up again, also by the user who gave a stopped one new credentials |

`wasThere`, `wasAway` and `wasDown` are history: what was true of the cluster at
some moment since the refresh began.

Which failures end polling is the code's choice. An `AuthenticationError` always
does (coordinator.py:314); the probe of setup adds a refusal and a certificate that
does not verify (coordinator.py:268-299), and
`tests/components/hubinet_ops/test_init.py:237-320` asserts `SETUP_ERROR` for them.
A server error, a timeout and a connection that fails or drops are tried again, at
setup too, where upstream gives up (UPSTREAM.md:151). Until the user comes, nothing
is polled (`stopped`), no result is offered as current and no package work is
accepted (`StopsForTheUser`). A refresh that someone asks for on such an entry
(`homeassistant.update_entity`) is left out. `NodeChanges` keeps the last node
online, because a cluster none of whose nodes is online does not answer.

### GuestCard

The full LXC card, between Home Assistant's pushes and the user's taps.

| Model | Code |
|---|---|
| `truth`, `calls`, `Change`, `Scanned`, `Serve` | Home Assistant: the facts of each LXC, other clients and the guest, the requests under way and what each does when it arrives |
| `config`, `hass`, `shown` | `setConfig`, `set hass`, what the last rebuild rendered |
| `armed`, `late`, `IsArmed`, `_arm`, `Timer` | the first tap, its exact target, `CONFIRM_MS` and the timer that may run later |
| `pressing`, `open`, `soon` | a held pointer, the snapshot list in use, a render scheduled with `setTimeout(0)` |
| `Rendered` | `_render`: a changed target disarms even when the rebuild itself is put off |
| `_click`, `_change`, `_call`, `Answer` | a tap on a button as shown, a choice in the list, the request and its end |

`first` is history: the arming tap, until anything voids it.

## 3. The runs

| Run | Instance | Question |
|---|---|---|
| `one` | one LXC, three live attempts, every call, every status, listeners that start work, unload and reload | Is evidence ever outdated, a plan ever unapproved, a RUNNING record ever orphaned, a task started after unload? Does the manager implement `VmidOwnership`, and each record `MutationAttempt`? |
| `peers` | one VMID under two node keys and another LXC, three attempts, one scan slot, fairness | Is the VMID exclusive, for records and for working tasks? Does every attempt end? |
| `yolo` | one LXC, two attempts, one follow, service, Scan, Autoremove, Health and Restore, every status, refreshes that fail, unload and reload, fairness | Does a follow miss a wake-up, start out of turn, or do what no caller could? Does it end? |
| `reentry` | one LXC, scans only | **violation**: two Scans of one VMID |
| `snapshot` | one attempt, three polls, fairness | Is APT covered, no snapshot silent, the outcome true, the attempt bounded? Is it a `MutationAttempt`? |
| `mark` | as above, two polls | **violation**: a snapshot nobody is told of |
| `retains` | as above, two polls | **violation**: a deleted snapshot reported as retained |
| `native` | a Create with a Restore or with a Delete, next to every package attempt, two reads, a reload, fairness | Are packages kept out of a rollback, is no result false, no reservation stranded, the safety snapshot kept, does every operation end? Is `VmidOwnership` implemented? |
| `helper` | four pairs of requests (two Updates; Scan and cleanup plan; Health and Ping; plan and Ping), one package, one event of the guest or kill, fairness | Is what Home Assistant says true of the guest? Does a mutation meet the apt of another only where that one was cut off, does every helper end? Is each mutation a `MutationRequest`? |
| `audit` | an Update and a Health check | **violation**: a dpkg run that ended well is reported as interrupted |
| `refresh` | two nodes, one guest, one storage on both, two platforms, three changes of the cluster or reloads, fairness | Are data true of their time, is nothing lost to a failed read, have guests exactly their entities, does polling recover, unless it is the user's turn? |
| `card` | one LXC, two snapshots, three buttons (Update, Update without snapshot, Restore), two Scans, one change by others, two requests at a time | Is a confirmation exact, an Update of the scan shown, no rebuild forgotten? |

**Bounds.** Three live attempts are enough for a Scan, a mutation and the Health
check it hands over to, together with cancelled tasks that are still ending; two
keys of one VMID are enough for every pairwise guard. The code has two scan slots;
`peers` uses one, which makes waiting happen with fewer tasks, and its second VMID
shares nothing else with the first. `Calls` and `Observed` restrict an instance to
the calls and statuses its question is about; `one` has them all. In `yolo` the
second attempt is the Health check, Scan or Autoremove that a follow has to wait
for; a follow looks at one target only. `MaxPolls` 3 has a first, a middle and a
last poll. In `native`, `Together` says which operations meet: two at a time have
each meet a running Create and an abandoned call of an earlier one of its own; one
manual snapshot and one safety snapshot are the kinds of name the code tells apart.
In `helper` one package is enough, because the helper compares sets of packages with
each other and with the empty set only; two requests are enough for the flock and
for a mutation that was given up to meet the next. In `refresh` a guest needs two
nodes to be missed or seen twice, and three changes let it leave, come back and leave
again within one refresh. In `card` a second Scan makes the first one old; the flag
`working` is the only one others change here. One LXC is what five minutes allow
next to two snapshots and two requests; what concerns a second one (`setConfig` with
another LXC) is covered by the proofs, which are for any number, and holds in TLC too:
with `Device = {d1, d2}` and either one request at a time or one snapshot the run
passes in about three minutes. All the safety properties above are proved for every value;
type correctness is proved (section 4) and not repeated in the runs.

**Symmetry** permutes attempt identities, in `one` only, which has no liveness.

**Deadlock** is checked in the runs of `PackageManager`, `YoloFollow`,
`NativeSnapshots`, `CoordinatorRefresh` and `GuestCard`. A safety snapshot attempt
ends, so `SafetySnapshot` stops by design, and so does `HelperTransport` when its
requests are answered and the guest has used up its events.

**Fairness.**

* `PackageManager`: strong fairness per task, because asyncio's semaphore serves
  waiters first come first served, so that a task that can get the slot again and
  again gets it; weak fairness of the finish frame, which is a callback that runs
  to its end. No call, refresh, unload or Restore step is fair.
* `YoloFollow`: the same, and strong fairness of a follow's decision to end, weak
  fairness of its going back to sleep: a task whose event is set is run by the loop
  even if its state changes again and again before that. Its deadline is not fair,
  so that `FollowEnds` does not rest on it.
* `SafetySnapshot`: weak fairness of the task (the loop resumes a coroutine whose
  await is over) and of the thread (the HTTP client has a timeout); PVE and APT may
  hang for ever, which is the point of `AttemptEnds`.
* `NativeSnapshots`: weak fairness of each coroutine and thread, for the same
  reasons; a PVE task may run for ever, no read has to fail, nobody has to press.
* `HelperTransport`: a helper process runs on, and a command that hangs is ended by
  its bound (weak fairness of each process, `_run_bounded`); nothing is assumed of
  the guest, its apt, or the session.
* `CoordinatorRefresh`: weak fairness of the poll, of each read (every request has a
  timeout), of the publication and of platform setup. No read has to work: `Recovers`
  is about the time after the last one that failed. Nor does the user have to come:
  the poll is enabled only while `stopped` is "no", a reload is not fair, and
  `Recovers` has two outcomes, current data or an entry that waits for its user
  (`LeftToUser`) and says so by having no data or offering them as not current.

After a reload a Create's request that is still on its way belongs to the coordinator
before (`retired` in `NativeSnapshots`): the new platform has a semaphore of its own
and its entity knows no Create task, so that request holds nobody back any more.

What two documented residuals mean in the models: after a reload the new manager
knows nothing of an older Restore, so `PackagesKeepOut` and `TruthIsCurrent` speak of
the first manager only; and a Delete sees an Update by its record, so
`OwnSnapshotKept` speaks of an Update whose record is RUNNING, not of one that was
pruned while its APT went on. `InterruptedIsPositive` is what remains true of the
claim that `audit` refutes: a dpkg run that goes on all the time is never called
interrupted.

Three behaviours that the models show and no document denies, kept out of the
properties on purpose: a storage that two nodes list may lose its device for one
refresh when one of them went down and the other's read failed with nothing to fall
back on; the native entities of a guest that migrates stay bound to the old node
until a reload (`entity.py:216`: the unique id does not name the node); a Restore or
Delete request names no snapshot, so that the selection which counts is the one at
the time the press arrives.

What the properties do not say: `WorkIsListed` is about records, and the APT of an
attempt that a prune cancelled may go on in the guest (`HelperTransport` has that);
slots are given back by `async with`, which is Python's promise, so that
`AttemptsEnd` and `SlotsAreKept` are about who waits for whom; `EvidenceWasSeen` is
about unfinished databases, not about a simulation and an inventory of two moments
that agree.

## 4. The proofs

TLAPS proves the following for every value of the constants, from the named
assumptions on them alone.

`PackageManager_proofs`: `TypeCorrect`, `Exclusion` (`VmidExclusion`),
`NoOrphanRecord` (`RunningIsWorkedOn`), `NoOutdatedResult` (`NothingOutdated`),
`Serialized` (`OneWorker`), `UnloadIsFinal` (`UnloadStartsNothing`), `PlansConfirmed`
(`ConfirmedPlanOnly`). The inductive invariant `Inv` strengthens these with

* `TasksFit`, `TasksOwn`: a live task's kind, target and await agree, and a record
  that is RUNNING is that of a live task of its kind and target. Exclusion of
  records becomes exclusion of tasks only through this link;
* `FrameFits`: what the finish frame on the stack refers to, because between a
  Health claim and the SUCCESS record two records of a VMID are RUNNING;
* `OutdatedIsFenced`: an attempt that was overtaken has lost its record, or has its
  target fenced; without it, `NothingOutdated` is not inductive;
* `UnloadedIsQuiet`: after unload every task is cancelled and no frame is open.

The step theorem has one lemma per action; acceptances, settlements and advances
of a task share one lemma each (`AcceptInv`, `SettleInv`, `AdvanceInv`). `SlotsAreKept` counts: for
finitely many attempts, no more Scans are read and no more Updates and Autoremoves
worked on than the two semaphores admit, which needs that a task enters those phases
only by acquiring a slot (`BecomesHolder`). The two theorems about progress,
`AttemptNearer` and `WaitsOnlyForHolders`, are described below.

`VmidOwnership_proofs`: `Implements` (`ImplementsOwnership`) and `LivesImplemented`
(`ImplementsAttempts`), the two refinements. For the first, `WorkIs` says that the kind of
attempt a VMID maps to is that of its RUNNING records, or of the mutation whose
finish call is on the stack; each step is then, per VMID, an acceptance
(`Starting`), a handover (`PublishMoves`), a reservation (`ReserveMoves`) or a
release (`Settling`). For the second, `RecordsFit` says what a record may hold, and
each step is, per record, one step of the life of the attempt it shows.

`YoloFollow_proofs`: `FollowIsACaller` (`ImplementsManager`), `NoLostWakeUp`
(`SleepHasCause`), `FollowsItsTurn` (`FollowTakesTurn`). The refinement needs that no
follow survives an unload (`UnloadedFollows`), since `async_start_autoremove` itself
does not look; the wake-up needs that a step which does not publish ends nothing of
the target that a sleeping follow waits for (`SleepCaused`). `FollowsBreakNothing`
draws the conclusion: through the refinement the manager's invariants hold of the
composition.

`SafetySnapshot_proofs`: `SnapshotTypes`, `Covered`, `NothingSilent`,
`TrueOutcome`, `AttemptImplemented` (`ImplementsAttempt`), `EndIsNearer`,
`SomeoneGoesOn`, from `IInv`: where the task is suspended determines what the thread
and PVE may still do (`PhaseFits`); a deletion is only ever under way after a good
mutation of a living guest (`Deleting`); an ended attempt has told, or left nothing
(`Told`). Liveness is needed as history: the guest's answer precedes the deletion.

`NativeSnapshots_proofs`: all six invariants of the run and `RestoreImplementsOwnership`
(the refinement `ImplementsOwnership`), for any set of operations, names and package
attempts, from `SnapshotAssumption`. The inductive invariant adds

* `Fits`: where a coroutine is suspended bounds what its call and its task can be,
  and a published result fixes them;
* `Keeps`: until the unload, at most one Restore is engaged with the guest (in its
  coroutine, on a thread or in PVE), and it has the reservation. `PackagesKeepOut`
  alone is not inductive, because it does not say whose reservation it is;
* `Current`: a Scan under way is younger than every rollback too;
* `Fresh`: a name that no safety snapshot has had is not listed, chosen or acted on,
  so a Delete validated earlier cannot hit the safety snapshot made later.

The refinement follows from `StepOwnership`, which says what any step may do to the
owner and the reservation. `OperationNearer` and `CallIsServed` are described below.

`HelperTransport_proofs`: `HelperTypes`, `AptOwned`, `Serial` (`MutationsSerial`),
`ToldTruly` (`MutationTold`), `EvidenceSeen` (`EvidenceWasSeen`), `Interrupted`
(`InterruptedIsPositive`), `Running` (`VerdictWhileRunning`), `RequestsImplemented`
(`ImplementsRequest`), `ProcessNearer`, `FlockOfTheLiving`, in three layers:
`Typed` (types, bounds, and which commands belong to which operation), `AptFits` (a
helper at a command has the flock; an apt at work has the frontend lock, and its
helper is at `apt` or was cut off from it), and on these `Told` (what an answer, or
its absence, says of the apt) and `Borne` (what a helper remembers was seen of the
guest since its request began).

`CoordinatorRefresh_proofs`: `Types`, `EntitiesFollow`, `WorkListed`, `ReadsProgress`,
`DataCurrent`, `NothingLost`, `StopsForTheUser`, `RefreshNearer`. Entities agree with the data because the guests known
are those of the data (`Agreement`, with `Kept` and `Unbound` for entities and work);
what was true during the whole refresh is read or still to be read (`Progress` =
`Fits`, `Seen`, `GuestsSoFar`, `StoresSoFar`), which is what a read in the middle of
a migration could break.

`GuestCard_proofs`: `CardTypes`, `RebuildsOwed`, `ConfirmationsExact`,
`UpdatesOfShownScan`, from three facts: what is armed and in time is of the newest
facts and of the first tap (`Aimed`), no scan attempt is of two LXCs
(`ScansAreOwned`), and a request names what was shown (`NamesShown`).

**Progress.** Liveness under fairness is out of these provers' reach, since they do
neither ENABLED nor fairness. What a liveness property rests on, short of those, is
proved: a distance to the end that the steps which are fair shorten and that no other
step lengthens (a loop, a retry, a cancellation or another actor that starts something
over would), and that whoever has to move has something to do.

| Theorem | Distance | Behind |
|---|---|---|
| `AttemptNearer` | `StepsLeft`: the steps a task has left, at most; every task, every other action | `AttemptsEnd` |
| `WaitsOnlyForHolders` | a task that cannot go on (`CanGo`) is in the queue of a semaphore, and every holder of it can go on and is nearer to its end: nobody waits in a circle, for any number of slots. `CanGo` spells out the guard of `TaskStep`. The hypothesis that an attempt identity is free stands for memory being available for one more record | `AttemptsEnd` |
| `EndIsNearer` | `Distance`, from the phase, the thread's call and the polls left, for any number of polls | `AttemptEnds` |
| `SomeoneGoesOn` | until the end the task or the thread has a step, also if PVE and APT hang | `AttemptEnds` |
| `OperationNearer` | lexicographic in the phase, the reads left and the call, for any number of reads and operations | `OperationsEnd` |
| `CallIsServed` | an operation that awaits its call has one on a thread or in the executor's queue, or its answer | `OperationsEnd` |
| `ProcessNearer` | the commands a helper has left; the guest, its apt, the session and other helpers do not lengthen it | `HelperEnds` |
| `FlockOfTheLiving` | a lock that is held is held by a process that has not ended | `HelperEnds` |
| `RefreshNearer` | the probe, two reads per node left and one retry of the read under way, for any finite set of nodes | `Recovers` |

**Model-checked only.** The liveness properties themselves: `AttemptsEnd`,
`AttemptEnds`, `OperationsEnd`, `HelperEnds`, `FollowEnds`, `Recovers`. The four
properties of the violation runs are refuted, not proved. Every other property of a
run is proved.

## 5. Where code and documentation disagree

1. **`reentry`.** `async_start_scan` publishes (through `_invalidate_cleanup`)
   between its guards and its RUNNING record. A listener that starts a Scan there
   leaves two of them on the VMID; ARCHITECTURE.md:1252 promises at most one.
2. **`mark`.** `on_submit` sets `snapshot_submitted` on the executor thread. A
   cancellation handled between the thread's start and the mark reports neither a
   retained nor an uncertain snapshot, and the thread creates one.
3. **`retains`.** `snapshot_ready` is never reset, so an interruption during the
   final deletion says the snapshot is retained while PVE deletes it.
4. **`audit`.** `dpkg --audit` reads the database, then tests its lock. A dpkg run
   that ends well in between leaves a half-installed report with a clear lock: the
   guest is reported FAILED, against ARCHITECTURE.md:966-969.

## 6. What is not modelled, and what could follow

Not modelled, because a state machine says nothing about it: the text formats of the
parser and of the helper's payloads, the helper probe (it stores a version number),
config flow and enrollment (forms with one writer), presentation, sensors' values,
diagnostics, `vm_memory.py` and the remaining support code (pure functions or
display), the bootstrap script (linear, run once by an operator), and of the
frontend the Easy Update card (it acts on one tap, by the same service call), the VM
and mini cards (the same class with other buttons), sparklines and layout.

The plan the modules followed was: the manager and the safety snapshot; native
snapshots; helper and transport; the YOLO follow; the coordinator; the card; then
proofs of every safety property a run checks. What could follow:

* the selector's own polling (`select.py`), which `NativeSnapshots` takes at one
  point in time;
* the composition of `CoordinatorRefresh` with `PackageManager`, whose `Refresh` is
  any observation of the guests and therefore includes every result of a refresh;
* QEMU guests' power and snapshot buttons, which share the modelled code paths
  without the reservation.

# Workstation Manager: TLA+ models, checks and proofs

Workstation Manager gives users *workstations*: sets of app containers behind a
private network with a gateway (WSLAN). A **controller** (Go, SQLite, HTTP) owns
the records and the user interface; a **worker** (Go, Docker API) owns the
containers. The two run in separate processes and talk over HTTP. This directory
models the parts that keep state and can go wrong in ways a test hardly reaches:
the workstation lifecycle from the request handlers down to the single Docker
requests; the app store with its approvals, registry and templates; the encrypted
VPN profiles and their key; and who may do what and when (sessions, logins,
shares, egress).

## 1. Inventory

| Part | State | Operations | Interacts with |
|---|---|---|---|
| State table (`internal/workstations`) | none | `CanTransition`, `ValidateTransition` | lifecycle |
| Lifecycle (`httpapi/workstations.go`) | row state and app states in SQLite; one goroutine per accepted request, each with a private copy of the row | `create`, `beginAction`, `provision`, `runUpdate`, `runAction`, `runRestart`, `transition`, `Reconcile` | rows, worker client, registry, VPN profiles |
| Rows (`internal/database`) | SQLite tables | compare-and-swap on `state`; unconditional `SetAppStates`; everything else | lifecycle, shares, sessions |
| Worker client (`internal/workerclient`) | none; 15 minute timeout | `Provision`, `Rebuild`, `Action`, `List` | worker |
| Worker (`dockerworker/service.go`) | none between calls, no lock | provision, rebuild, start, stop, restart, delete; read-only endpoints | engine |
| Engine client (`dockerworker/engine.go`) | none; Docker holds containers, networks, volumes | create, start, stop, delete, wait, list | Docker |
| Log capture (`dockerworker/logs.go`) | rotating files | append, rotate | engine |
| Approvals (`dockerworker/approvals.go`) | map in memory, file | approve, check | app store |
| App store (`internal/appstore`) | catalogue and status files, version directories, installed directories, state file; one mutex | sync, install, activate, rollback | approvals, registry |
| Registry (`manifests`, `templates`, `server.go`) | two registries in memory under a read-write lock, template files | scan, save, delete, rescan, start | app store, lifecycle |
| VPN profiles (`internal/vpnprofiles`, `cmd/vpnkeyctl`) | encrypted files, key file, environment, rows; no lock | key, save, load, remove, rotate | lifecycle |
| Egress (`internal/egress`) | mode and flag in the row, grants of a user | resolve, grant | lifecycle, worker |
| Sessions and login (`httpapi/auth.go`) | session rows, failures per address in memory | set up, log in, validate, log out | everything behind a page |
| Shares (`httpapi/sharing.go`) | share rows with permissions, uses, expiry | create, redeem, validate, act, revoke | lifecycle |
| Proxy, pages, themes, WSLAN, files app, command line tools | little or none | | |

What is hard here:

* **Concurrency without a lock.** A handler swaps the row and starts a goroutine
  that reads the row *again*. Several goroutines of one workstation, and
  reconciliation with an older listing, write the same row. The only protection
  is the compare-and-swap.
* **Silent ends.** A goroutine whose swap fails returns; one whose context
  expired cannot write at all; a crash kills them all.
* **Two systems of record.** Rows say what should exist, Docker what does. Calls
  fail at any request, go on after the client gave up, and interleave in the
  worker.
* **Partial results.** Later calls start from whatever failed calls left behind.
* **Several files, one fact.** Index and ETag, installed directory and state file,
  approvals in memory and on disk, profiles and their key: each pair is written in
  steps between which the process may die, and is read by others without a lock.
* **Checked early, used late.** A request is let in by one statement and acts on
  the copy it got: grants, permissions, the block of an address, the apps in memory.

What makes the parts correct, in one line each: a row moves only along the state
table and `deleted` is final; a transient row always has somebody to finish it;
app states agree with the row; ready means running; deleted means gone; a
worker's sweep never takes a gateway from under an app; user files survive
updates; restart and delete work from what failed calls leave; what the state file records is
installed, approved and can be rolled back; the controller starts again on its own
disk; the memory says what the disk says; every profile opens under the key in
use, and a rotation that stopped can be repeated; a workstation meant for
WireGuard never leaves without it; expiry, revocation and blocks hold up to what
was already let in. `PROJECT.json` lists the hazards by line.

## 2. Modules

```
WorkstationState      the state table
  WorkstationRow      abstract specification: how one row may change
  Lifecycle           controller: handlers, goroutines, reconciliation, crashes
    LifecycleProofs
    System            Lifecycle with its open worker replaced by DockerWorker
      SystemProofs
DockerWorker          worker: calls as scripts of Docker requests, one workstation
  DockerWorkerProofs  (used by SystemProofs too)
AppStore              app store, file operation by file operation, and approvals
  AppStoreProofs
  Registry            AppStore with registry, templates, rescans and start
    RegistryProofs    (uses AppStoreProofs)
Profiles              VPN profiles, their key, saves and rotations
  ProfilesProofs
Timestamps            times as text
  Access              accounts, logins, sessions, egress of a workstation, shares
    AccessProofs
MCLifecycle, MCWorker, MCSystem, MCRegistry, MCProfiles, MCAccess   instances for TLC
```

Definitions whose name has a suffix after an underscore (`Walk_StaleCopy`) are
deliberately wrong variants of the definition that follows them. They are used
by no specification; each shows that a property can fail.

### Lifecycle

`row` and `apps` are the columns `workstations.state` and
`workstation_apps.state` (every writer sets all apps of a workstation at once).
`job[j]` is a goroutine: what it does, its private copy `at` of the row's state,
and `next`, the state it will write next. `recon` is a reconciliation with its
listing and its snapshot of the rows. Each database statement and each HTTP
exchange is one step, so everything interleaves at that grain:

| Code | Action |
|---|---|
| `create` | `Create` |
| `beginAction` (owner, admin or share) | `BeginAction` |
| the goroutine's `db.Workstation` | `ReadRow` |
| `provision`'s first `transition` | `PullImages` |
| `provisionRequest` fails | `PrepareFails` |
| `worker.Provision`, `Rebuild`, `Action` | `CallWorker`, `WorkerReplies` |
| the further `transition`s | `Walk` (order: `First`, `After`) |
| `SetAppStates`, last `transition` | `SetAppStates`, `Finish` |
| error paths | `Fail`, `FailApps` |
| the database fails a write whose error is discarded | the second branch of `WriteApps`, `ErrorUnsaved` |
| context deadline, a failed write that ends the goroutine | `Expire` |
| `Reconcile` | `ReconcileList`, `ReconcileRead`, `ReconcileMark`, `ReconcileEnd` |
| `main`, process death | `Start`, `Crash` |

A handler's read, check and swap are one step: a swap that loses a race refuses
the request and changes nothing. The worker is open: it may answer anything and
list anything. `lost`, `raced` and `unsaved` are history: the workstations one of
whose goroutines was cut short (or could not write its move to `error`), those that
had two goroutines at once, and those whose app states could not be written since
the last request. The code discards every error of `SetAppStates` and makes its last
move in any case, so stale app states under a settled row need no race.

### DockerWorker

The worker keeps nothing between calls, so its state is what Docker holds
(`res`) and, per call in progress, the position in a *script*. A script is a
sequence of steps; a step does one Docker request to each resource of a set,
either named (`One`) or taken from the last listing (`Each`), in the order of
`resourceRank`. The scripts are `createResources`, `rebuildResources`,
`seedWorkspace`, `initializeStorage`, `RemoveWorkstation` and the branches of
`action`, in the order of the code. `Permitted` says which answers the worker
takes for success: 404 is success for start, stop and delete; 304 (already
started, already stopped) is an error; `create` reuses an existing name. The
restart's inspection of a container and its stop are two requests (`Asked`,
`Targets`; `seen` is what the inspection found running). A call
may fail at every request (`GiveUp`), for whatever reason: Docker, a timeout, a
refused reuse, a cancelled context. `Falls` is a container that stops by itself,
`JobEnds` the end of a seed or init container, `UserEdits` the user's work;
`fallen` remembers a fall until the next call arrives.
Docker's own rules (a volume in use is not deleted, a network with running
endpoints is not deleted, an app needs its sandbox's namespace, a missing volume
is created without labels) are external and taken from how the code relies on
them. Images, labels' values, ports and addresses are abstracted; a mismatch
found by `verifyExistingContainer` is one of the reasons of `GiveUp`.

### System

Each action joins a step of `Lifecycle` with the step of `DockerWorker` it
causes. A call outlives a goroutine that was killed or whose client gave up
(`SysError` without an answer, `SysOrphan`). Containers end and fall here too
(`SysContainers`): no restart policy exists, and the controller is not told.
Reconciliation sees a workstation when Docker holds one of its containers, running
or not.

### AppStore and Registry

`AppStore` has one variable per file or directory of the manager. `req[h]` is a
request handler with its position in the operation; the manager's mutex
(`Unlocked`) is held from the first step of an operation to its last, so two
operations never interleave, but each file operation is a step of its own:

| Code | Action |
|---|---|
| `Sync`: index, then status | `SyncIndex`, `SyncStatus` |
| `Install`, `Rollback`, up to the approval | `Install`, `Rollback` |
| `approve` of the worker; its failed write; its restart | `Approve`, `ApproveFails`, `WorkerRestart` |
| the version's directory: new, or already there | `CopyVersion`, `CopiedVersion`, `ReuseVersion` |
| `activate` | `Stage`, `Staged`, `DropPrevious`, `MoveAway`, `MoveIn`, `Clean` |
| `writeState` | `Record` |
| errors: nothing changed; before the new app is in; after it | `FailEarly`, `FailStaging`, `FailLate` |

The catalogue moves in any direction: a sync takes whatever valid index the server
has, unless it is the one the stored ETag names. Errors that the code ignores are
branches that go on: the removal of an earlier leftover (`DropPrevious`), the restore
of the old app after a failed rename and the deferred removal of the new directory
(`FailStaging`), the deferred removal of a draft (`SaveFails`). A directory is removed
wholly or not at all, and one staging directory and one draft are followed per app or
handler and life of the process.

A package stands for its bytes. Downloads are compared with the digests of the
index, so the network is a choice between the listed package and an error.

`Registry` adds `rescan` (`Rescan`, `Scan`, `InstallRegistry`, `RescanFails`), the
template handlers (`SaveTemplate`, `WriteDraft`, `RenameDraft`, `SaveFails`,
`DeleteTemplate`) and the process (`Start`, `Crash`). `Scan` counts every directory
that carries an app's id, hidden ones too, and every `.yaml` file, drafts too, as
the code does. Ghosts record what the properties except: `unsynced` (a sync cut short
between its two files, until the next one ends), `unrecorded` and `cut` (activations
that failed or died, or could not be undone), `forgotten` (approvals taken back by a
failed renewal), `stale` (memory installed by an overlapped or failed rescan, or a
disk changed after it by a failed operation).

### Profiles

A profile file stands for the key it is sealed under, or is `Torn`. `proc[h]` is a
request that saves a profile (`ResolveKey`, `CreateKey`, `FillKey`, then `OpenFile`,
`WriteFile`, `CreateVPNProfile`), `proc[Ctl]` a run of `vpnkeyctl rotate`
(`ListFiles`, `StageFile`, `AllStaged`, `RenameFile`, `AllRenamed`, or `Abort`,
`RenameFails`, and `CtlStops` where it dies). What an abort or a failed save cannot
remove stays, as the code ignores those errors. The operator's part (`SetEnvironment`, `ReplaceKeyFile`, `Restart`) is
what `vpnkeyctl` prints as the next step; the environment is read only at a start.
`late` and `target` are ghosts: profiles whose save overlapped a rotation, and the
key of the last rotation that renamed a file.

### Timestamps and Access

`Timestamps` models `formatTime`: the fraction without its trailing zeros, then the
zone, compared as text. `Access` has the rows of one user, one session, one
workstation and one share, and `slot[h]`, the requests in progress with the copies
they act on. A request is let in by one step (`LoginBegin`, `RequireUser`,
`RequireShare`, `Create`) and acts in a later one (`LoginFails`, `LoginSucceeds`,
`StartSession`, `Logout`, `CreateWorkstation`, `CreateShare`, `RevokeShare`,
`SharedAction`, `SharedLogout`). `CreateWorkstation` leaves `egress_mode` at its
default as the INSERT does; `ProvisionRequest` resolves it again. `overrun` and
`after` are ghosts that count failures since a block and actions since a revocation.

## 3. Runs

| Run | Shows | Instance |
|---|---|---|
| `lifecycle` | `TypeOK`, `RowSpec`, `DeletedIsFinal`, `TransientIsTended`, `AppsFollowRow` | one workstation with VPN (the longest walk), two goroutines, unlimited requests, crashes, deadlines, reconciliations |
| `lifecycle_live` | `Settles` | the same without VPN, crashes and deadlines |
| `worker_alone` | `EditsAreKept`, `DependentsFirst`, `ProvisionServes`, `RestartNotRefused`, `TypeOK` | two apps (one initialised, one probed), workspace image, one call at a time, unlimited |
| `worker_overlap` | `LoneDeleteCleans`, `DeleteNotRefused` | one app, two calls at a time, unlimited |
| `system` | `ReadyRuns`, `DeletedIsGone` | one app; three requests, one reconciliation, one fault: a crash, a deadline, a failed move to `error` or a fallen container |
| `registry` | `RegistryTypeOK`, `EtagIsHonest`, `RollbackPossible`, `RecordedIsActive`, `ActiveIsApproved`, `PresetsResolve`, `StartsAgain`, `MemoryIsDisk` | an app and a core app, two versions, two handlers, one template, failures everywhere, one crash or one other fault that lasts |
| `profiles` | `TypeOK`, `Readable`, `Repeatable`, `DoneIsDone` | two saves, two profiles, two new keys, two restarts |
| `access` | `TypeOK`, `FailsClosed`, `ExpiryIsHonest`, `LimiterHolds`, `RevocationStops` | two requests, five templates, three sets of grants, two kinds of share |
| `lifecycle_delete_retry` | refutes `DeleteCanBeRetried` | |
| `lifecycle_overwrite` | refutes `NoSilentOverwrite` | |
| `system_ready` | refutes `ReadyWasObserved` | |
| `egress_mode` | refutes `ModeIsKept` | |

Why the bounds are enough. Workstations share nothing in these modules (rows are
updated by id, Docker names carry the id), so one of them shows what can happen
to it. Two goroutines and two calls show every pairwise race; the proofs cover
any number. The constraint `Telling` of `lifecycle` stops where a workstation was
both raced and lost: `TransientIsTended` and `AppsFollowRow` say nothing of it any
more, and for `RowSpec` and `DeletedIsFinal` beyond that point there are the proofs. The views `Course` and `Engine` leave out of the state what no guard and no
property of the run reads: app states and ghosts that are only written. In `system`,
three requests are a creation and two actions, which
reaches every state of the row with every leftover of one failed call; its
constraint `Promising` stops at states in which goroutines or calls have
overlapped, where its two invariants say nothing and never will again. Behaviours
of `system` end when the bounds are used up, hence no deadlock check there.

In `registry`, two handlers give every overlap of an operation with a rescan or a
template handler (two operations exclude each other), and two versions give
install, update, reinstall and rollback. Its constraint `OneFault` follows a
behaviour until the second of a crash, a lost approval, a sync or activation cut short
and a leftover that could not be removed or moved back; failures that leave nothing
behind are not limited. The catalogue goes back only before its newer package has been
kept. The limit on approvals is one that both packages fit, so the run never meets it;
the proofs hold for any limit. In `profiles`, two profiles are what a rotation needs to
stop half-way, two keys what it needs to be repeated with another one. In `access`,
time is counted in quarters of a second up to 5, so that times fall on both sides
of a second and have fractions of every length; an address is blocked after 2
failures and 4 are followed, so that failures go on after the block; sessions last 3
quarters. Its constraint `OneTopic` explores failed logins, egress and the share
link one at a time: they have no column in common, and the requests of sessions are
part of each. These three also end when their bounds are used up.

Fairness. `Settles` assumes that a goroutine that can run does so and that a call
is answered (the client's timeout is an answer). Nothing is assumed of users,
reconciliation, crashes or deadlines; `UncutSpec` leaves out the behaviours in
which a goroutine is cut short, because the code then indeed leaves the row where
it is.

Four statements of the documentation are refuted by a run, and a fifth, a message, by
steps of `profiles`:

1. *"After interrupted deletion, retry the delete action"* (docs/recovery.md:48).
   `deleting` allows no second delete, and reconciliation skips it.
2. *"concurrent actions cannot silently overwrite one another"*
   (docs/architecture.md:61). A goroutine that reads the row late takes over the
   state of the delete accepted meanwhile, fails, and moves it to `error`.
3. *"only marks the workstation ready after the worker has observed gateway and
   app health"* (docs/architecture.md:67). A start after a failed provision has
   nothing to start, succeeds, and makes the workstation ready.
4. *"The mode is chosen in a template, stored on the workstation, carried to the
   worker"* (internal/egress/egress.go:3, docs/egress.md:3). The INSERT of
   `CreateWorkstation` leaves `egress_mode` out, so a workstation with `ipv6` or
   `host-gateway` is provisioned as `direct`, even for a user who was granted only
   `ipv6`. Workstations with WireGuard are safe (`FailsClosed`): the flag
   `vpn_required` restores the mode.
5. *"rotation aborted, no profiles were changed"* (cmd/vpnkeyctl/main.go:152), printed
   for every error of `Rotate`. A rename that fails after others have succeeded
   (`RenameFile`, then `RenameFails`) is such an error, and the profiles renamed so far
   are under the new key. No run of its own states the message; `Repeatable` says what
   holds of the files instead: a second run with the same key finishes the rotation.

The properties that hold name their exceptions. What the models show in them, and
no document promises otherwise:

* App states that could not be written stay until the next request of the workstation
  ends (`unsaved` in `AppsFollowRow`).
* A container that falls under a `ready` row goes unnoticed until the next call
  (`fallen` in `ReadyRuns`). A restart is refused when a container ends between its
  inspection and its stop; for a seed or init container that a cancelled call left
  behind this needs no fault (`RestartNotRefused`).
* A sync cut short between index and status leaves an index with the ETag of another
  revision. The next sync repairs it, unless the catalogue has gone back to the
  revision of that ETag: the server then answers 304, and an index that was withdrawn
  stays in use (`unsynced` in `EtagIsHonest`).
* When the second rename of `activate` fails and the restore fails too, the app is gone
  while the state file still names it, until the next install or rollback is recorded
  (`unrecorded` in `RecordedIsActive`).
* A crash inside `activate` of an update leaves two directories with one app id, or
  none under its own name. The app is then unavailable, and a template that names
  it keeps the controller from starting (`cut` in `StartsAgain`). A rescan during an
  activation may read the staging directory as well.
* A copy into `versions/` that fails half-way stays, and every later install of that
  version is a conflict. Rollbacks are not affected (`RollbackPossible`).
* A renewed approval whose file cannot be written also forgets the earlier approval,
  and the next approval of anything makes that permanent (`forgotten`).
* A leftover `.custom-template-*.yaml`, of a crash or of a failed save whose removal
  failed, keeps the controller from starting.
* Overlapping rescans may install the older result (`stale` in `MemoryIsDisk`);
  templates and apps in memory still fit each other (`PresetsResolve`).
* A key file created and not written blocks the VPN store; a profile file left torn
  by a failed save blocks every rotation; a profile saved during a rotation stays
  under the old key (`late`).
* Timestamps compare wrongly within one second, in both directions, and never
  beyond it (`ExpiryIsHonest`). A successful login clears a block.

## 4. Proofs

Every safety property of a passing run is also a theorem, checked by TLAPS for
every value of the constants that meets the named assumptions of its module.

`LifecycleProofs`, for any set of workstations, any number of goroutines and both
values of the configuration switch, from the named assumptions of `Lifecycle`
(`VPN` is a set of workstations, the switch is Boolean, `"none"` is no id):

* `TypeCorrect`: `TypeOK`. Inductive with `JobsOK`, which fixes what a goroutine's
  local state looks like at each point (an idle slot is empty, only a walking
  goroutine has a next state, stop and delete never walk).
* `RowRefinement`: `Lifecycle` implements `WorkstationRow`. A step either leaves
  every row alone or makes one move (`IsMove`). The compare-and-swap gives that
  the goroutine's copy is the row itself, so the validated transition is one of
  the row. Reconciliation skips validation, so its snapshot must be known to hold
  no `deleted` or `deleting` row (`ReconOK`).
* `DeletedStays`: from the refinement, since `deleted` has no successor.
* `Tended`: `TransientIsTended` is inductive over `TypeInv`. `TablePath` shows
  that the moves a goroutine makes one after the other are all in the table;
  `StepTends` reduces a step to the goroutine that makes it.
* `AppsAgree`: `AppsFollowRow` is not inductive. `Solo` adds that a workstation
  that was never raced has at most one goroutine, that its apps are written
  (or it is `unsaved`) before the last move, and that the only settled state under a running goroutine
  is the `stopped` in the middle of a restart, which that goroutine leaves again.
* `SystemIsLifecycle` (in `SystemProofs`): the composition implements `Lifecycle`, so
  all of the above holds with the real worker (`SystemKeepsLifecycle`).

`DockerWorkerProofs`, for any apps, with or without storage owners, health paths and a
workspace image, and any number of calls in progress (assumed: `Owned` and `Probed` are
apps, `"-"` is not one, `Seeding` is Boolean). The scripts are sequences whose length
depends on the constants, so a first group of lemmas says where each kind of step
stands in them (`BaseScript`, `AppScript`, `CreatesAfter`): a network after the
workspace and before the gateway, a sandbox before its app, a wait after every seed. The
invariant says what a call that runs alone has achieved at its position:

* `WorkerTyped`: `TypeOK`, with `CallInv`: the position is inside the script.
* `DeleteCleans`: `LoneDeleteCleans`. `SweepInv`: what is on the engine is in the
  listing the sweep works on and was not passed by; so each of the three sweeps of a
  delete leaves its part empty (`DeleteInv`). Earlier overlaps do not matter, only
  that nobody works beside the delete now (`LoneInv`).
* `ProvisionEndsServing`: `ProvisionServes`. Everything a passed step has made is still
  there (`CreateInv`, `Made`), because no later step of the script undoes it.
* `SeedKeepsEdits`: `EditsAreKept` is not inductive. `LayerInv` adds that an app exists
  only over a seeded workspace, which in turn needs that a provision gets past the seed
  container only by waiting for it.
* `RestartNeverRefused`: `RestartNotRefused`. A restart meets no running container with
  its start, no stopped one with its stop and no app without its sandbox: what was listed
  is what exists (`RestartInv`), what the inspection saw running still runs unless it
  fell or was a job, and nothing stands without what it stands on (`LayerInv`).
* `DeleteNeverRefused`: `DeleteNotRefused`. A delete goes down the ranks, so no network
  and no volume is in use, also after overlaps.
* `DependentsGoFirst`: `DependentsFirst`, an action property, from `SweepInv` and the
  order of the ranks.
* `StartEndsRunning`: a start or restart that runs alone ends with everything that
  exists running (`UpInv`), also where an earlier call left only a part.
  `VolumesStayLabelled`: without overlaps no volume is made by Docker on behalf of a
  mount (`VolumeInv`), so nothing escapes the listings of a delete. Both state what the
  answer of a call tells the controller (`Answered`), which the next theorems use.

`SystemProofs`, for one workstation, any apps and any number of goroutines, whatever
the bounds on requests, faults and reconciliations: every step of the system is a step
of `DockerWorker` or none (`WorkerSteps`), so the worker's invariant holds of the
composition. The proofs about the worker are instantiated as `WP`; the lemmas `Same...`
show that its definitions are those of the `Worker` of `System`.

* `ReadyIsRunning`: `ReadyRuns`; `DeletedLeavesNothing`: `DeletedIsGone`. Neither is
  inductive: between the worker's answer and the last move of the row lie the walk and
  the app states, and a crash or a deadline may leave a call without a goroutine.
  `ShownInv` therefore speaks of the whole time from the answer on: no call is in
  progress and Docker holds what the answer promised, up to what fell since.
  `AloneInv` (one goroutine per workstation that never raced, none once the row is `ready` or `deleted`) keeps
  anybody from sending another call meanwhile, and `WaitInv` ties the answer to the
  kind of the goroutine that gets it. A call without a goroutine cannot break this:
  the next call would have overlapped with it.

For any finite, non-empty set of requests in progress, any grants, templates, shares
and times that meet the named assumptions of `Access` (grants never include the
mode of administrators, a template's named mode and its flag agree, lifetimes are
positive), `AccessProofs` shows:

* `AccessTyped`: `TypeOK`, through `TypeInv`, which types the whole of each record.
* `ExpiryHolds`: `ExpiryIsHonest`. `LaterIsHonest` reduces the order of texts to the
  order of seconds; a slot keeps the two times it was let in with.
* `EgressFailsClosed`: `FailsClosed` is not inductive. `EgressInv` adds that flag and
  chosen mode agree in the row and in every request on its way, that the stored mode
  is always empty, and that nothing is sent before there is a row.
* `LimiterBounds`, `RevocationBounds`: counting. While the address is blocked,
  failures past the block plus attempts still under way are fewer than all requests,
  because the attempt that blocked it is neither (`LimitInv`); likewise for a share
  and the request that revoked it (`RevokeInv`). `CountSteps` says which steps can
  make the sets grow.

`ProfilesProofs`, for any references, keys and controllers' handlers, any number of
crashes (assumed: `vpnkeyctl` is no handler, the sentinels for "nothing" and "torn" are
neither keys nor references):

* `ProfilesTyped`: `TypeOK`. `Locals` fixes what a process holds at each point.
* `ProfilesReadable`, `RotationRepeatable`, `RotationComplete`: `Readable`, `Repeatable`
  and `DoneIsDone`. Only `Repeatable` is a part of the inductive invariant as it stands.
  The others need that one process at a time fills the key file and that the key stays
  once somebody used it (`KeyInv`); that a rotation runs with the key in use, or with
  its new key where an earlier run got that far (`CtlInv`); that a file is still to be
  staged, staged, or already under the new key (`StageInv`); that a save which holds
  another key than the one in use is `late` (`SaveInv`); that a reference is used by
  one save (`RefsApart`) and whole before it gets its row (`RowInv`); and that a key in
  the environment which the controller has not read yet is the last rotation's (`EnvInv`).

`AppStoreProofs` and `RegistryProofs`, for any apps, packages, versions, index
revisions, templates and handlers (assumed: core apps are apps, the sentinels are no
packages, versions are positive numbers, there is an index and it lists packages for
apps, template bodies are non-empty sets of apps). Since the manager's mutex allows
one operation at a time, the invariant of the store (`StoreInv`) describes the disk as
a function of where the holder of the mutex stands (`Operation`), with "nobody" as
one of the places; each file operation is then one step between two places:

* `RegistryTyped`: `RegistryTypeOK`, with the types of the handlers' locals (`WorkOK`).
* `EtagHonest`: `EtagIsHonest`, because the mutex lets no second sync come between the
  index of a sync and its status (`EtagInv`, `EtagStays`).
* `RollbackStaysPossible`, `RecordedStaysActive`: `RollbackPossible`, `RecordedIsActive`.
  A version directory holds a package of that version (`VersionInv`), which a torn copy
  never is, and both recorded versions have one (`StateInv`).
* `ActiveStaysApproved`: `ActiveIsApproved`, from what is known of the package at each
  place of the operation (`OpPackage`).
* `PresetsAlwaysResolve`: `PresetsResolve`. The presets and the apps that a rescan
  installs were read together (`ResolveInv`).
* `ControllerStartsAgain`: `StartsAgain` speaks of the files of templates, and whether
  a save may write one was decided from a registry that may be outdated. `PresentInv`
  adds that whatever a template, a draft or a registry names, in memory or on its way
  there, is present on disk: an installed app never goes away for good.
* `MemoryMatchesDisk`: `MemoryIsDisk` holds only while no request is in progress and is
  not inductive: a rescan scans in one step and installs in another. `LoneInv` says what
  a rescan nobody overlapped has read, and `MemoryInv` extends the statement to requests
  that do not touch the installed apps, with the drafts of requests left aside
  (`SavedTemplates`).

Only model-checked: `Settles`, a liveness property (out of the prover's reach), and the
four refuted statements, which are false.

## 5. Not modelled, and the plan

Left out, and why:

* Log capture (`dockerworker/logs.go`): rotation of bounded files; nothing reads
  them but a page.
* `SetAppVersion` at the end of a provision: `Registry` and `Lifecycle` are not
  composed; only a page reads the recorded version.
* A change of the index URL, and the catalogue builder (`appstore.Build`), which runs
  outside the controller.
* Proxying, pages, themes and the JSON API: no state of their own; their operations
  are the actions above.
* The WSLAN process: network configuration, seen by the worker as a health endpoint.
* The files app: a separate program that browses files.
* Command line tools other than `vpnkeyctl`: flag parsing and calls of the API.
* Field validation of manifests, templates and provision requests: pure checks of
  input; a refused request changes nothing.

Worth stating next: abstract specifications of the VPN store (a map from references to
configurations) and of the app store (a map from apps to versions), with the models
shown to implement them, and theorems about `System` with several workstations, which
needs a worker that keeps the resources of each apart.

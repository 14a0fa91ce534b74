# TLA+ models of OpenShift Airgap Architect

OpenShift Airgap Architect is a wizard (React) over a single Node.js backend
(Express, SQLite) that plans disconnected OpenShift installations, generates their
configuration and drives `oc-mirror` as a child process. These modules model the
parts of it whose correctness depends on the order of events: requests that meet at an
`await`, children that end late, crashes, restarts, retries, and the browser's copy of
the state document beside the server's. Paths
below are relative to the repository root.

## How to run

    tlc -config MCOcMirrorRuns.cfg MCOcMirrorRuns.tla
    tlapm OcMirrorRunsProofs.tla

The table under Runs names the module and the configuration of every run. The modules
with proofs are `OcMirrorRunsProofs`, `ExemptionScopeProofs`, `ArchiveSetsProofs`,
`TransferCycleProofs`, `TransferHandoffProofs`, `InstallerCacheProofs`,
`CatalogScanProofs` and `StateSyncProofs`; the largest takes `tlapm` about a minute.
`PROJECT.json` lists the components, the runs, the source lines behind every
definition, the hazards of the code and the theorems. For each property of a passing
run a definition named "Wrong form of ..." sits before the definition it could
replace; with that bug put in, the run reports the property violated.

## Inventory

The backend is one process with one event loop. Code between two awaits, and the body
of one event handler, runs without interruption; everything else interleaves.

| Component | State | Operations | What makes it hard | What makes it correct |
|---|---|---|---|---|
| oc-mirror run service (`index.js`, `ocMirrorRunGuard.js`, `ocMirrorRunResources.js`, `processRegistry.js`) | reservations, process registry, temp files of runs | run (Install, Mirroring), child `error` and `close`, result check, automatic signature retry, Stop, two Start Overs | awaits between reservation and spawn; stopped children that end later; a retry that inherits files | one run at a time; outcomes never rewritten; a stopped run never restarts; credentials present while used and removed afterwards |
| Job table (`utils.js`, `jobStatus.js`) | one row per job in SQLite | create, guarded and unguarded update, delete, retention, stale marking, event stream | callbacks that arrive after the outcome; four terminal statuses but three in several lists | forward-only status; nothing stays running without a process |
| Shutdown and temp artifacts (`shutdown.js`, `tempArtifacts.js`) | registry of temp paths | SIGTERM, boot sweep | crash at any point; removals that fail | no secret forgotten |
| Incremental cycles (`mirroringCycle.js`) | history files, applied cycles per destination | record a cycle, decide about a received transfer | skipped, repeated and out-of-order transfers, clocks of two machines | a destination never silently loses or rolls back content |
| Archive sets (`mirroringArchives.js`) | top-level archives, sets | protect before a run, keep after success | oc-mirror deletes top-level archives at start; overlapping stopped run | no archive lost, no archive in another run's set |
| registries.d scope (`registriesDScope.js`) | workspace copy, snapshot, ledger | snapshot, restore, restore at boot | crash between file operations; two runs on one workspace | an exemption lasts one run |
| Transfer hand-off (`mirroringTransfer.js`, `mirroringStorage.js`) | staged folders, checksums | prepare, verify, receive | long awaits, partial copies | what verifies is complete and is what was prepared |
| Mirroring profiles (`mirroringState.js`, `mirroringPlan.js`, `mirroringRecovery.js`) | one slice of the state document | edit, lock, start over, recovery attempts | read-modify-write across awaits | no lost update, plans immutable |
| Catalog scans (`operators.js`, `verifiedCatalog.js`, `verifiedRegistry.js`) | scan jobs, results, shared pull secret, layout cache with use counts | scan, prefetch, timeout, stop, prune | timeout against a late answer; two phases that end in handlers; scans that share a secret and a layout | one outcome per scan; a stopped scan starts nothing; no layout goes while it is listed |
| Downloads and binaries (`verifiedDownload.js`, `ocMirrorRuntime.js`, `installer.js`) | files on disk | download, verify, install | two downloads of one binary | never a partial or unverified binary |
| Migrations (`migrationRunner.js`) | schema version | apply at boot | interruption | each applied once, in order |
| State API and browser store (`index.js`, `frontend/src/store.jsx`) | the state document, twice | debounced save, import, Start Over | two writers of one document | a save never undoes a server-side change |

Components interact through shared memory (slot, process registry, temp-artifact
registry), the job table, the Mirroring slice of the state document, files below the
profile's directories, and callbacks handed to the run service (`preparePlan`,
`beforeSpawn`, `afterSuccess`, `verifyAfter`). The parts that are pure text
generation, validation or presentation are listed in `PROJECT.json` with the reason
they are not modelled.

## Modules

* `OcMirrorRuns` - the run service in detail; `RunService` - what it promises a client
  of the API: rows and who holds the service, without processes or files.
* `OcMirrorRunsProofs` - invariants (slot, credentials, temp files), action properties
  and the refinement, proved for any set of jobs.
* `ExemptionScope` - signature exemptions and the workspace's registries.d.
* `ArchiveSets` - where archives go, and what a transfer is prepared from.
* `TransferCycle` - connected and disconnected side, the history chain and the guard.
* `TransferHandoff` - one plan's archives prepared, carried, received and loaded.
* `InstallerCache` - the cached openshift-install and the tarball behind it.
* `CatalogScan` - operator catalog scans and the cache of verified catalogs below them.
* `StateSync` - the browser's store and the server's document.
* `ExemptionScopeProofs`, `ArchiveSetsProofs`, `TransferCycleProofs`, `TransferHandoffProofs`,
  `InstallerCacheProofs`, `CatalogScanProofs`, `StateSyncProofs` - the safety properties of
  those modules for any instance.
* `MC...` - instances for TLC: symmetry, views and constraints.

The four Mirroring modules each carry the part of the run service they meet: the slot,
Stop that frees it while the child is alive, the end of a stopped child, the
crash and the boot. Composing them with `OcMirrorRuns` itself would add only files and
rows their properties do not read. `ArchiveSets` has both the rows and the slot, and is
proved to implement `RunService` with them (`RunsFollowTheService`), so the service that
`OcMirrorRuns` implements is the one it assumes; the other three have no rows to map.

### OcMirrorRuns

| Variable | In the code |
|---|---|
| `row` | `jobs.status`; `absent` before `createJob`, `deleted` after DELETE or retention |
| `wf` | `metadata.workflow`; `external` is an Install run with a configuration of the operator's own, `recovery` a Mirroring run started with `verifyAfter` |
| `parent` | `metadata.retryOf`; a retry uses the resources object of its parent |
| `pc` | how far `startReservedOcMirrorRun`, the child and its handlers are |
| `pending` | the reservation tokens of `ocMirrorRunGuard.js` |
| `activeProcesses` | the process registry |
| `owned` | the keys of `runTempArtifactsByJob` |
| `released` | `released` inside each `createRunResources` object |
| `disk`, `tracked` | temp files that exist; temp files in the temp-artifact registry |
| `up` | the process runs |

An action is one stretch of code without an await. An Install run goes from the slot
check to the written config and auth file in one stretch (`RequestInstall`), awaits
the binary, and is spawned or refused (`Launch`, `LaunchFails`, `LaunchErrors`). A
Mirroring run reserves first and awaits binary and plan (`RequestMirroring`,
`PlanReady`, `PlanFails`). `spawn` returns before the child runs, so a child that
cannot start is registered, marked running and failed on the next tick; nothing else
runs in between, hence one action, and its `close` event still follows. A child's end
(`ChildExits`) and its `close` handler (`Close`, `CloseAndRetry`, `BeginCheck` and
`Checked`) are separate steps, so Stop, Start Over, a crash or a new request can fall
between. A retry is started inside the close handler of the run it repeats; the first
await comes after it has reserved the slot and taken the files.

Which runs need a signature retry, and which outcome oc-mirror's output is classified
as, depend on the output and are free choices. Data that no property tells apart is
left out: messages, progress, metadata, the run's directories. Every run has an auth
file, which is written whole or not at all; a run without credentials only has fewer
files to lose. Several temp files of one kind
and run (the exemption directory is a directory in the code) are one element of
`disk`. A token of the guard is named by its job. A child of an ended container is
gone: the backend is its container's only process. A registered verification
process is the same registry entry as the run it checks.

### RunService and the refinement

`RunService` has the rows and the `holder`. `OcMirrorRuns` refines it with
`holder <- SlotHolder`, the only element of `Holders`: the reservations and the
registered jobs whose row is running. Planning, the child's end, the result check and
all file handling are stuttering steps. The promise says that a run that ends may hand
the service to its retry with no gap another request can use. That a cancelled run has no
retry is `StoppedIsNotRetried`, since to a client a retry is one more accepted run.

### ExemptionScope

`ws` is `<workspace>/.../registries.d` as the set of runs (or the host, `Default`) whose
files it holds; `snap` is the snapshot directory with its copy and `state.json` and the
hash in it; `ledger` is the workspace's entry in `registries-d-pending.json`. The two
functions of `registriesDScope.js` run without an await, but a crash, and a child that
is still alive, can come between any two of their file operations, so each file
operation is an action and `op` says which is next, for whom and why (a launch, the
undo of a run, the boot). `Idle` guards every handler: nothing else of the process runs
while `op` is set. Trees are copied and removed file by file, so `CopyToSnapshot`, `RemoveCopy`
and `PutBack` may do part of their work and stay where they are. `StepFails` covers a
thrown file operation (`Fallible`), an unreadable snapshot and a hash that does not
match; what follows depends on the caller (`NotOk`). The look at a pending snapshot is
fallible too: when the removal of the workspace copy throws there, the exemption is
still in it, and the launch that wanted to restore it must be refused. A look that finds
no snapshot writes the ledger outside the `try`: an error there ends the process, as
`Crash` does. `scoped`
is `scopedExemption` in the run's closure, so an undo happens at most once. The child's
own copy of `--registries.d` into the workspace (`ChildCopies`) is external.

### ArchiveSets

The archives of a run are one thing, named by the run. `top`, `sets` and `preserved`
are the three places of `mirroringArchives.js`; `destroyed` is a ghost. `seen` is the
profile history as `m2dArchiveHooks` captured it when the run was requested, `history`
the profile's own. `Launch` is `beforeSpawn` (`ProtectBeforeRun`) and spawn, `Close` and
`CloseAndRetry` are the close handler with `afterSuccess` (`KeepRunArchives`). Both hooks
can throw before, between or after their renames (`MoveOutcomes`): a `beforeSpawn` that
breaks off fails the launch (`ProtectBreaksOff`), an `afterSuccess` that does is
swallowed, and the run completes with its archives at the top level, in a set that is
not recorded, or some of them in either. `prepared` is the last transfer that was
prepared, with the folder it was read from. A process that ends between two renames is
left out: the hooks run in one stretch without an await. A retry shares plan and hooks. oc-mirror deletes what is at the top level when it starts and
writes at its end (`ChildEmpties`, `ChildWrites`, external). A transfer is prepared in
two steps, since the hashing of the listed files is awaited and `POST .../run` does not
wait for it.

### TransferCycle

`LowRun` is a mirror-to-disk run with the cycle record of `cycleRecord`: which history it
started from, what it archived, how it ended and whether it wrote a history of its own.
`Decision` is `cycleDecision`, one `ELSE IF` for each early return, in their order;
`Without` is the filter that takes a plan's earlier entry out of `appliedCycles`. `Load` is `runReceivedTransfer`, `RetryReads`
and `RetryStarts` are the retry of an operation with its await over the hashes,
`ReceiveReads` and `ReceiveWrites` the read-modify-write of the slice in receive,
`Close` the close event with `Record` in `afterSuccess`, also for a stopped attempt.
`Previous` is the run that `cycleRecord` names as the one that wrote the baseline: by its
hash or else by a time window that the runs of one profile share, so it can be any
earlier run with a transfer (one that has none is never loaded, which makes it as good
as no name). `misnamed`, `stale` and `unordered` are ghosts. Content is abstract: plan `p` asks for
blobs `1..p`.

### TransferHandoff

Where `TransferCycle` treats a transfer as one thing, this module opens it: archives, the
papers (`plan.json`, `imageset-config.yaml`) and the manifest. `prep` is the next step of
`prepareTransfer`, whose order of removing and writing is the point; `PrepareBreaks` may
fall on any of them and leave a torn file. The carried folder is no variable: the
operator may change it between any two reads, so every read (`ReceiveBegins`,
`CopyEnds`) finds whatever may be there by then. `receive[r]` is one request to
receive: verifying, then per file the open with `wx` and the copy that hashes on the way,
then the slice is read (`ReadSlice`), the local tool's identity awaited and the slice
written back as it was read (`Record`), so a profile deleted in between comes back. `busy` is
`runningTransferJobs`. `load` is the part of a disk-to-mirror run that meets it:
requested after `checkStaged`, queued while the binary is awaited, running, stopped with
the child alive. All archives have one size, which is what `checkStaged` compares; a
run and the retry that shares its plan write the archives. `overtaken` is a ghost.

### InstallerCache

`verifiedDownload.js`, `binaryProvenance.js`, `installer.js` and `openshiftInstaller.js`
around one binary path. Every await is a step boundary; `inPlace` selects which of the
two functions owns the cache (they extract and clean up differently). `rewritten` is the
ghost for an extraction in place under another request. `flight` is the
entry in `inFlightAcquisitions`: `Settle` resumes the owner and all waiters. A file is
what it holds: the published bytes, the beginning of them, other bytes or nothing; the
initial states include what a crash, an older build or a bad disk may have left.

### CatalogScan

`Ask`, `Begin` and `BinaryFails` are the request: the pull secret is written, the binary
awaited, one job per catalog started. `fetch` is phase 1 (`openVerifiedCatalog` over
`fetchVerifiedImage`): each await on the registry is a step boundary, blobs that are on
disk are skipped in the same stretch, the manifest is written last. A layout is the set
of its files; `recent` orders the layouts of a repository by mtime, as `prune` reads
them (`<<e, d>>`: `e` is `d` or was touched after it, so that the place of a layout in the
sorted listing is the number of its predecessors), and `inUse` is the count that spares a layout. `ClientCloses` counts and touches,
`Opened` is the handler after the loopback server listens: prune, release the secret,
and list only if the scan is still registered and has no outcome. When the listing has
no temp directory for its empty auth file (`ListingUnprepared`), the scan fails with
its server open and its layout counted until the process ends. Phase 2 is the
oc-mirror child with its `close` and `error` events and a timer that goes from SIGTERM to
SIGKILL; `Settle` is the once-only `settle`. `left` is the counter of
`createSharedAuthRelease`. Only requests that bring a pull secret are modelled; without
one there is nothing to share. A request has at least one scan (`getCatalogs` always
returns three). The count of a layout goes down at once where the code
waits for the server's `close`, which only keeps it longer. `stopped` is a ghost.

### StateSync

`edits[g]` is the browser's document of generation `g`; `saved`, `timer`, `call`, `saveError`
are the refs of `store.jsx`; `net` the saves that may still reach the server, late or
reordered; `Merge` is `deepMerge` on one map. `flush` is `flushPendingSave` together with the
export that reads the server's copy after it. Hydration, Start Over and import are
requests with a step in which the server handles them and one in which the reply
arrives or is lost. `newest`, `late`, `missed`, `kept` are ghosts.

## Runs

| Run | Module, configuration | Instance | Question |
|---|---|---|---|
| `run_service` | `MCOcMirrorRuns` | 3 jobs | `OneRun`, `RunningIsReachable`, `CredentialsWhileInUse`, `NothingLeftBehind`, `OutcomeSticks`, `StoppedIsNotRetried`, and the refinement `ServicePromise` |
| `run_service_faults` | `MCOcMirrorRuns`, `...Faults.cfg` | 2 jobs, credentials in DATA_DIR/tmp, removals may fail | `SecretsStayTracked`, `MirroringCredentialsSpared` |
| `run_service_live` | `MCOcMirrorRuns`, `...Live.cfg` | 2 jobs, fairness | `ReservationReturned`, `StoppedRunIsCleaned`, `ExitIsRecorded` |
| `exemption` | `ExemptionScope` | 3 runs, any file operation may fail | does the ledger know every snapshot, is a weakened workspace always undoable, is a run refused when it is still weak |
| `archives` | `MCArchiveSets` | 3 runs | are the archives of a successful run never destroyed, does its recorded set hold its own |
| `transfer` | `MCTransferCycle` | 3 plans, 3 loads | is nothing older loaded after something newer, is a loaded transfer complete |
| `downloads` | `InstallerCache` | 2 requests, fairness | is nothing unverified extracted, reused or used; does every waiter go on |
| `state_sync` | `MCStateSync` | 2 fields, 3 generations | is what the store believes saved on the server, is an export current |
| `handoff` | `MCTransferHandoff` | 2 archives, 2 manifests, 2 receives, 2 loads | do checksums always describe their folder, is the copy oc-mirror reads whole, who occupies a profile |
| `scans` | `MCCatalogScan` | 3 scans of 2 requests, 2 digests, fairness | how long the secret lives, is stopping final, is a listed layout kept, does every scan end |
| `lasting_exemption` | `ExemptionScope`, `LastingExemption.cfg` | 2 runs | violated, see below |
| `stale_hydration` | `StateSync`, `StaleHydration.cfg` | 2 generations | violated, see below |

**Bounds.** The bounds are numbers of runs, requests, plans or generations; none is
reused, so they also bound how often anything is tried. The number of crashes and
restarts is not bounded.

* `OcMirrorRuns`: three jobs are the longest pattern of the code, a run, its retry and a
  third request that meets either; a retry is not retried. Two are enough for faults
  and liveness, where the question is one run against one disturbance.
* `ExemptionScope`: three runs, one that leaves something behind, one whose own launch
  restores it, and one that must not start on the result.
* `ArchiveSets`: three runs, the one with archives, one whose hooks captured the history
  before it ended, and a retry or later run.
* `TransferCycle`: three plans are the shortest chain with a skipped middle; three loads
  are one out of order, one stopped and one retried. A run may start from any history
  (`--since`), archive any part of what it needs and end in four ways.
* `InstallerCache`: two requests: the map of flights, the files and the record are all the
  two can meet at, and each may be repeated any number of times.
* `TransferHandoff`: two archives, so that a copy can be whole in one and not in the other;
  two manifests, so that a receive can meet the copy of another; two receives and two
  loads, one of each in the other's way. All may be repeated any number of times except
  the manifests.
* `CatalogScan`: two scans that meet in one repository, and a third that shares the
  secret of one of them. `Keep` is 1 instead of 2 with two digests, so that there is
  always a layout to prune; one blob, since what is between two blobs is again an await.
* `StateSync`: three generations: one saved, one on its way, one newer. Two fields: one
  edited, one taken out.

**Reductions.** `JobSymmetry` (two modules), `RunSymmetry`, `LoadSymmetry` and `FieldSymmetry` permute
random ids or names no step looks at; none is used with liveness.
`MCTransferCycle` makes all transfers before the first is received (nothing flows back
over the air gap, so every order has the same disconnected side), lets a broken load
push nothing (what it pushes can only add to the destination), and drops from the
view what cannot be read any more. `RecordTrue` stops where the properties promise
nothing more. `MCTransferHandoff` uses the same
argument for the connected side, and drops it from the view once a receive has begun. In
`MCCatalogScan` the scan of the second catalog only fetches (`SecondOnlyFetches`): the
secret is all it shares. `MCStateSync` looks at the documents of the generations that can still be
sent or compared, and stops outside `Regular`.

**What the properties exclude, and why.** Several hold only while a named ghost says
that something the code does not guard against has not happened. Each ghost is set by
the very step that leaves the code's assumption, and each is listed as a hazard.

* `overlap` (`ExemptionScope`, `ArchiveSets`): a run launched beside the still living
  child of a stopped one.
* `rewritten` (`InstallerCache`): tar wrote in place while another request for the variant
  was served. Two exports over an empty cache do this: the first returns and is read
  while the second one's tar rewrites the path, so the bundle can hold the beginning of
  the binary, and a record can be made of it. Other bytes than the published ones are
  never used, with or without it. `overlap` (`InstallerCache`) is weaker, two requests that
  met: one of them may then find the binary gone.
* `stale` (`TransferCycle`): a load decided on a record that was behind. A receive writes
  the slice back as it read it before an await, so the record of a load that ended in
  between is lost; a retry decides on the profile it read before it hashed the archives.
  After either, an older transfer may be let through.
* `unordered` (`TransferCycle`): a transfer was let through that the guard cannot place:
  one without a cycle record, or one that is the next only by the name of a run that did
  not write its baseline (`OnWrongName`). Both can lose content.
* `overtaken` (`TransferHandoff`): a receive that begins to copy while a load is queued.
* `late`, `missed`, `kept` (`StateSync`): saves overtaking each other; a lost reply of a
  reset; `deepMerge` cannot take a key out.

`CleanTransferIsOwn` speaks of transfers read from the recorded set of a run without
warnings. A run with warnings, or one whose `afterSuccess` broke off, has its transfer
prepared from the top level, where another run's archives can lie by then; nothing is
promised of those. `ListedIsKept` speaks of a layout from the moment it is
listed: between the registry client's close and the count another scan may prune it, and
the listing then fails. `ExitIsRecorded` and `StoppedRunIsCleaned` allow one case: the
check of a result hangs, since its child has no timeout; for a stopped run that only
happens when its row was deleted before its close was handled.

**Constants.** `AuthInTmp` says whether credentials fall back to DATA_DIR/tmp
(`secretTempLocation` found no private directory). In that case Install Start Over may
remove the auth file of an Install run it is told to leave alone, or of a queued run;
`CredentialsWhileInUse` is stated, checked and proved for the usual case.
`UnlinkMayFail` adds removals that fail, `FsMayFail` failing file operations.

**Fairness.** In `OcMirrorRuns` the event loop serves every ready callback, so each
`Handle(j)` is weakly fair. A child that was sent SIGTERM exits (`SignalledChildExits`), be
it a run or the dry run of its check; one nobody stopped may run for ever, so neither
`ChildExits` nor `Checked` is fair while the job is registered. A stopped backend is started again by its operator
(`Boot`); the compose files have no restart policy. In `InstallerCache` a request that can
go on does (`Proceed`), where going on includes that its download fails. In `CatalogScan`
the event loop serves each scan (`Served`): a registry answers or the request times out,
armed timers fire, close events arrive; SIGKILL ends a child, nothing else has to.
Nothing else is fair: no request, Stop, crash or unsolicited exit has to happen.

**Deadlock** is checked where the system cannot stop: in `OcMirrorRuns`, since a backend
that is up can always be shut down. The other configurations switch it off: once all
the runs, plans or generations of an instance are used up there may be nothing left to
do.

## What the repository says and the code does not do

* `registriesDScope.js:12-16`: an exemption lasts exactly one run, and a workspace is never
  left weaker. Stop frees the slot while the child is alive; when a next run restores
  the snapshot before the old child fills the workspace, the exemption stays and
  nothing refuses the runs after it (`NeverLastingExemption`).
* `store.jsx:71`: a failed hydration shows its error and does not use the stale copy in
  localStorage. The debounce timer armed for that copy still fires and saves it
  (`StaleCopyIsNotUsed`).

## Proofs

Each proof module takes the assumption of its model (`RunAssumption`, `ScopeAssumption`,
`ArchiveAssumption`, `BoundAssumption`, `CacheAssumption`, `HandoffAssumption`,
`ScanAssumption`) and nothing else unless it is said here: any number of jobs, runs,
plans, requests, archives, catalogs. In each, TLC's
invariant is not inductive as it stands; what follows says what had to be added.

**Run service** (`OcMirrorRunsProofs`)

* `TypeCorrect`: `TypeOK` is inductive.
* `SingleRun`, `RunningReached`: `Launch` moves a job
  from the reservations to the registry, so the invariant must know that a resolving
  run has a reservation and a queued row; `Stop` and the close handlers remove a
  registry entry, so it must know that a registered row is running or deleted. `BookInv`
  states this agreement of rows, phases, reservations and registry; with it `SlotInv`
  is inductive.
* `OutcomesStick`, `StoppedStaysStopped`: action properties from `SlotInv`. Writes that
  are not guarded in the code (`Launch`, failing early, both cancellations) meet only
  rows that `SlotInv` shows queued or running.
* `CredentialsPresent` (assuming `~AuthInTmp`): the auth file of a run survives what
  every other run removes. `ShareInv` says who uses whose files: a resources object is
  used by one serving run at a time, since a parent is done when its retry is served,
  has no parent itself and has one retry; what a running run uses is not released.
  `CredentialInv` adds that the file is on disk.
* `CredentialsSpared`: for a running Mirroring run, also where credentials are kept in
  DATA_DIR/tmp. Each step that removes files removes those of runs that are not this
  run's source (`ShareInv`) or, in an Install Start Over, those of Install runs.
* `SecretsTracked`: `TrackInv` adds that only a run that was asked for has files, and
  that no run counts as settled while the process is down.
* `NothingStays` (assuming `~UnlinkMayFail`; a removal that failed is the subject of
  `SecretsTracked`): `OwnerInv` says which files a run can have on disk in which phase, that
  credentials on disk are those of a run that is no retry, and that a released run has none.
* `KeepsPromise`: the refinement. Under `SlotInv` the holder before and after each
  action is determined, and each action is matched with its action of `RunService`.

**registries.d scope** (`ExemptionScopeProofs`). `OpInv`: a handler between two of its
file operations is of a run in the right phase, and beside no living child unless runs
overlapped. `LedgerInv`: which of ledger, copy and `state.json` exist at each step.
`ScopeInv`, while runs do not overlap: one child at a time and no handler
in the middle beside it, snapshots hold no exemption (half of one included), a handler
past its first look works on a clean workspace, and one that may be weakened, as after a
look that failed or a removal that stopped half way, has a whole snapshot. From these: `ScopeTypes`, `SnapshotsAreLedgered` (overlap or not),
`ExemptionsAreUndoable`, `RunsStartClean`. `AwaitedRunsAreScoped` is the same without
the exception, for an operator who launches a run only after the child of a stopped one
has closed (`AwaitsChildren`).

**Archive sets** (`ArchiveSetsProofs`). Neither property says where archives are, so
neither is inductive. `RunInv`: how row, child, slot and process belong together.
`PlanInv`: a plan belongs to its run and at most one retry, which came when the first had
closed without exit 0. `HistoryInv`: what a run's hooks have seen are runs of other plans,
so the set that `ProtectBeforeRun` fills is never the set the run itself will need.
`HeadInv`: the running holder is the last of the history. `PlaceInv`, while no runs
overlapped: one child at a time, which finds nothing at the top level (nothing is
destroyed at all), whose archives stay there until it has closed unless it was stopped,
and whose set is empty until then; the recorded set of a run that exited 0 holds its
archives. `PendingInv`: a run whose archives could not be moved at all finds them moved
by the hooks of the very next run, which know it as the owner, since no other run
succeeds in between. `TransferInv`: what is read from the set of such a run is its own,
as no step changes that set again (`SetsKept`).
From these: `ArchiveTypes`, `ArchivesSurvive`, `TransfersAreOwn`.
`AwaitedRunsDestroyNothing` drops the exception: `HolderAlone` (whoever has the slot is
the only one with a child) holds when a run is requested only after a stopped run's child
has closed, and then no archive of any run, failed ones included, is ever deleted.
`RunsFollowTheService` is the refinement of `RunService`: a close after a Stop
is a stuttering step because a stopped run no longer has the slot (`RunInv`).

**Transfer cycles** (`TransferCycleProofs`). `CycleInv` is what the connected side knows: a
history of a clean run lists what its transfer produced, a transfer brings what it
produced and did not find in its baseline, its predecessor is an older plan and, if it
has a cycle, produced that baseline. `CarriedInv`: what is received, loaded or in progress
was made. `OrderInv`, while no decision was `stale`: one child at most, and the guard
would still let its transfer through, since nothing else can be loaded meanwhile;
that makes it the newest (`AllowedIsNewest`), and moving it to the end of the list keeps the
list in order (`AllowedKeepsOrder`, over `WithoutKeepsOrder`). `ContentInv`, unless
one was `unordered`: what is loaded is complete, because a transfer that is let through
repeats the latest, is full, or is chained to a loaded one that had all of its
baseline (`LoadedIsComplete`); a chain by name alone counts only when the record names a
writer, which `misnamed` tells apart. From these: `TransferTypes`, `NothingRolledBack`,
`NothingSilentlyLost`. `CalmLoadsAreOrderedAndComplete` says what keeps the record true, for
an operator to observe, as the code does not enforce it: a load or a retry starts only
after every earlier child has closed (`AwaitsChildren`), the record does not change between the
read and the write of a receive or a retry (`NoLostUpdate`), and no restart falls between
the end of a load and its close (`LoadsAreRecorded`). `RecordInv` is then inductive: the
record is what is loaded, except for a load that has ended and not closed, and a
receive or retry that has read it read what is still there.

**Cached installer** (`InstallerCacheProofs`). `FlightInv`: who owns the acquisition in flight
and what its waiters wait for. `TarInv`: what the tarball holds when its digest has just
been found right. `AloneInv`: who may write the binary while requests do not overlap.
`BinInv`, until the cache was `rewritten`: what the binary and its record hold in each phase,
and that nobody else is in a step after extraction while tar writes in place
(`PlacingSteps`). `BadInv`, with no exception: a binary of other bytes is one that every
request past its look has discarded, and such bytes are never recorded. From these:
`CacheTypes`, `VerifiedBeforeExtracted`, `ReusedIsGenuine`, `ServedIsGenuine`.

**Transfer hand-off** (`TransferHandoffProofs`). Connected side: `ListingInv` and
`FolderInv`, what a listing that exists was made of while the files are replaced one by
one; hence `ChecksumsDescribe`. Disconnected side: `OccupiedByItsWriter` is inductive
(`WriterOccupies`); `CopyInv`, `PapersInv` and `LoadInv` say what the staged copy holds
while a receive goes through it, and that a load in progress excludes a writer; hence
`LoadsReadWholeCopies`. `HandoffTypes` is `TypeOK`.

**Catalog scans** (`CatalogScanProofs`). `CoreTypes` is `TypeOK` with weaker ranges for the
two counters and without `recent`. `CacheInv` is the rest of it: `recent` is a total order of
the layouts that exist, and touching or pruning a layout keeps it one; with the counts
below, `ScanTypes`. `PhaseInv` ties a scan's phases to its request: no row, entry or fetch
before the binary is there, no server or child before the fetch is done, no registry
entry of a stopped scan. `SecretInv` and `CountInv` say that the two counters of the code
are the cardinalities of the sets they stand for: the scans of a request that fetch,
and the scans that have opened a layout. From these: `SecretReleasedInTime`,
`CountsAreUsers`, `StoppedStaysStopped`, `ListingsKeepTheirFiles`.

**State document** (`StateSyncProofs`, for any fields and any `MaxGen`; `SyncAssumption`
says there is at least one generation). `WatermarkInv`: a generation counts as answered
or saved only once the server has handled it or a newer one, and a flush goes on to read
only when the server has what it was asked for. `ServerInv`: while the history is
`Regular`, the server holds the newest generation it was sent, a later one (the
reply of a reset has made it a generation of the browser), or what a reset brought whose
reply is still to come. The two properties are not inductive without both: `saved` says
nothing of what an aborted save still does to the server. From these:
`SavedReachedServer`, `ExportedIsCurrent`.

Every invariant and every action property of the passing runs is stated by a theorem.
Only model-checked are the liveness properties (`ReservationReturned`,
`StoppedRunIsCleaned`, `ExitIsRecorded`, `WaitersSettle`, `EveryScanEnds`), since liveness
under fairness is out of the prover's reach, and the two refuted statements above.

## Not modelled

* Asset generation (`generate.js`), validation, the wizard's steps and the Field Guide:
  functions from a document to text or messages and components that show them. They
  keep no state between calls, so there is no order of events to explore; the unit
  tests and fixtures beside them compare their output.
* Logging, metrics, access control, feedback, the release check: one request each,
  with no state another request depends on.
* Which output of oc-mirror is classified how, and the text of plans and archives: free
  choices in the models.
* `PROJECT.json` gives the reason for every component and for every hazard without a
  property.

## Plan

1. `OcMirrorRuns`, `RunService` and their proofs (done).
2. `ExemptionScope`, `ArchiveSets`, `TransferCycle`, `InstallerCache`, `StateSync`,
   `TransferHandoff`, `CatalogScan` (done).
3. `MirroringProfiles`: the slice across awaits, version lock, recovery attempts.
4. `JobRetention`: age and count limits, deletion and the event stream.
5. Proofs: the cache's provenance, the exemption scope, the hand-off, the catalog
   scans, the state document, the order and completeness of cycles, the archives'
   survival, and the two refinements of `RunService` (done).
6. Conditions like `Calm` for the remaining ghosts: `overtaken` in the hand-off, and `late`,
   `missed` and `kept` of the state document.

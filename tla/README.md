# Atlaso: a TLA+ verification project

Atlaso is a lab appliance: a FastAPI web process, one `atlaso-worker` process and a set
of privileged helpers around one database and a few directories.  This directory holds
TLA+ models of the parts whose correctness depends on orders of events that unit tests
hardly produce, the TLC configurations that check them on small instances, and proofs
checked by TLAPS.

## Inventory

| Component | State | Operations | What is hard |
| --- | --- | --- | --- |
| Task cancellation (`services/task_cancellation.py`) | `Job.status`, `cancel_*` columns, child steps, owned uploads | `request`, `finish_pending`, `finish_stop`, `reconcile_requests` | sessions race claims, completions, other sessions and restarts |
| Worker and queue (`worker.py`) | jobs table, the claimed task, helpers, swaps | admission, `claim_next_job`, one handler per task type, `_fail_job`, startup recovery | crashes between any two commits; cleanups that fail; helpers that time out |
| Network Boot media (`services/network_boot.py`) | cache directory, row, backup, journal, staging, swap lock | sync, undo, rollback, sweep, removal, recovery in two processes | several renames must look atomic; two processes recover |
| Appliance Update (`worker.py`, `services/appliance_update.py`) | parent job, child streams, status surface, restart duty | install, publish status, quiesce, retry restart, recover | release finalizer and worker restarts interleave |
| Release gate (`services/release_updates.py`) | finalizer and gate files | begin, finalize, roll back, hand off | one process replaces the other |
| Appliance Apply (`services/appliance_apply_admission.py`, `ui.py`, `atlaso-helper`) | apply lock, pending and committed flags, baselines, the helper's journals and receipts | submit, run, commit, acknowledge, withdraw, recover at startup, confirm, retry, clean up | two stores that must agree across crashes; helpers that outlive their callers; four recovering processes |
| Automation (`services/automation.py`) | schedules | enqueue due, run script | duplicate or lost due times |
| VCF depot, certificates, backups, deployment | profiles, remote operations | download, renew, back up, deploy | remote side keeps going after local failures |
| KMIP (`kmip/`) | wrapped key rows, the envelope that commits to them, recovery points | create, activate, get, locate, status, recover | two files change as one; a second process opens them |
| OIDC, tokens, identities | codes, sessions, refresh tokens | issue, exchange, rotate, revoke | replays |
| Chunked uploads (`services/chunk_uploads.py`, `services/upload_publication.py`, `static/chunk-uploads.js`) | sessions, offsets, staged file, the consented revision | reserve, append, claim, publish, cancel, sweep | lost answers, repeated or late chunks, consent that went stale |
| Networking, DNS/DHCP, firewall, CA, LDAP, reverse proxies, vaults, logs | configuration rows | validate, render, read back | mostly sequential |
| Installer, image build, release scripts, browser UI | none at run time | build, render | out of scope |

The web process inserts rows and reserves cancellations; the worker polls the table.  Appliance
Apply tasks run in the web process or in the local console, and are recovered by the web process,
the console and the worker.  The processes share the database, the privileged helper's journals
and units and, for boot media, directories guarded by a file lock.  Uploads live in the web
process, the KMIP daemon keeps its own files.
`PROJECT.json` lists every component with its status and the hazards at their lines.

## Modules

* `TaskLifecycle` - rows, request sessions, the worker loop, its handlers, its recovery.
* `TaskLifecycleProofs` - the inductive invariant and the theorems about it.
* `MediaSwapProofs`, `ApplianceUpdateProofs`, `ApplianceApplyProofs`, `KmipStoreProofs`,
  `ChunkUploadProofs` - the same for the modules below; `KmipStoreProofs` also proves the
  refinement of `KeyService`.
* `MediaSwap` - one version directory of the media cache, its journalled swap, and the
  recovery both processes run when they start.
* `ApplianceUpdate` - one installation task: its children, the update-only browser surface,
  the restart Photon owes, and what survives crashes and reboots.
* `ApplianceApply` - the task that carries a two-phase transaction between the database and
  a helper journal (Network, Traffic Publishing, management handoff), with every process
  that runs or recovers it.
* `KmipStore` - the key store of the KMIP daemon; `KeyService` - what it promises its
  clients.  `KmipStore` implements `KeyService` under the mapping `Abstract`.
* `ChunkUpload` - browser uploads from the transport in the page to the publication of the
  file over the one the operator agreed to replace.
* `MCTaskLifecycle`, `MCMediaSwap`, `MCApplianceUpdate`, `MCApplianceApply`, `MCKmipStore`,
  `MCChunkUpload` - instances for TLC.

Definitions whose comment starts with "Mutant" (their names end in `Mutant`, or are
`AdmissionIgnores...` and `ReconcileRetryUn...`/`...NeverStale`) are faulty variants of
the definition that follows them; they are used by no specification and exist to show that
each property can fail.

### TaskLifecycle

One action is one committed transaction of one process, with the file-system and helper
effects the code performs before that commit.  What the code reads in one transaction and
uses in a later one is local state: `rsnap` (the row a session based its capability on),
`saw` (the request column read before an ownership hold is written), `ready`
(`media_cleanup_ready`), `plan` (what recovery will write), `todo` (the reconciliation pass).

| Variable | Code |
| --- | --- |
| `status`, `request` | `Job.status`, `Job.cancel_outcome` (`"none"`: `cancel_requested_at` is NULL) |
| `unresolved` | `ownership_unresolved` in `Job.result` |
| `step`, `left` | child `JobStep` rows: running, pending |
| `owned` | outside the database: the staged upload, swap evidence (journal, backup, staging), a running helper with its credentials |
| `wpc`, `wjob` | where `run_worker_once`, a handler or the recovery stands, and for which task |
| `rpc`, `rjob`, `rsnap` | each request session |
| `gap` | history: tasks whose swap evidence no later step examines |

Task kinds stand for the handler and its cancellation contract: `check` (Appliance Update in
mode check), `download`/`upload`/`remove` (Network Boot media), `verify` (DHCP pool
verification), `script` (managed scripts and diagnostic bundles).  `MediaSwap` details what
`SyncStart`..`Sweep` do to directories; here only whether evidence is left matters.

Installations are outside this module, and with them the worker's early return while an update's
status surface is held (`worker.py:2212-2217`): `StartPass` has no such gate, which only adds
passes.  `ApplianceUpdate` has it (`AdmitOther`).

A database statement is assumed to succeed unless the code handles its failure; helper
results, cleanup failures and crashes are nondeterministic.

### MediaSwap

Renames, unlinks and the commit are single steps, and a process may die between any two.
`final`, `backup`, `journal`, `staging` are the directory entries, `row` is the version the
committed `NetworkBootMedia` row verifies, `lock` the swap recovery lock.  A directory is
identified by the transaction that installed it.  Removal (`RemoveTree`, `RemoveRow`) takes
no lock, as in the code.  The ShredOS variant that keeps the active directory and publishes
under a second name is left out.

### ApplianceUpdate

| Variable | Code |
| --- | --- |
| `job`, `step`, `applied` | parent status, child statuses, `apply_started` in a child's result |
| `owed`, `dispatch`, `attempts` | `restart_after_commit`, `restart_dispatch_started_at` (absent, within or past the grace), `restart_recovery_attempts` |
| `startedAfter` | the running worker's `started_at` is later than `finished_at` |
| `rec`, `activated` | `ui_restoration.state` and `status_activated` of the root-owned `status.json` |
| `marker` | the runtime marker that makes nginx hold: absent, naming the task, or `recovery-required` (`"attention"`) |
| `helper`, `dirty` | the transient unit that applies a stream; packages changed since all services restarted |
| `timers`, `proving`, `receipt` | delayed restart units, one waiting for the new worker's identity, and whether the receipt names the running worker |
| `wpc`, `idx`, `sfail`, `efail`, `out` | where the worker stands and the locals of `_run_appliance_update_admitted` |
| `applies` | history: how often a stream's apply was started |
| `lapses` | history: the events that can lose Photon's duty: a result `"unread"` because an exception answered for it, a duty `"recomputed"` by `_fail_job` |

The worker's poll is `ReconcileClear` .. `Claim`, the run `Publish` .. `SurfaceVerdict`, the
restart `Dispatch` .. `ProofTimesOut`, the restoration `FinishBegins` .. `FinishBusy`, and
startup `Start` .. `RecoverFails`.  `GuardedMarker` is what the services' pre-start guard
leaves.  The helper and the restart units are processes of their own and outlive the worker.

Abstractions.  A publication is one step: the listener proof and the file writes of one helper
call are not interleaved with anything that reads them.  The one-minute rate limit between
retries, and the compatibility case of a record without a dispatch time, are part of
`dispatch = "fresh"`.  A receipt is the Boolean "it names the running worker", since the code
compares the process identity field by field.  The branch that republishes an activated hold
without a marker is not reached, because every start of the worker runs the guard first.
`plan` is the task: its stored order, and whether it was created under the current contract or
migrated from an older version, which skips only Photon after a failure.  The Atlaso Release stream, which hands over to a finalizer, is left out; a
release that restarts the worker would cover Photon's duty.

### ApplianceApply

The helper applies the captured candidate and keeps the rollback, the application commits the
executed baseline, the helper is told and drops the rollback.  The desired state, the baseline
and what the host runs are versions; `Mixed` is a host that runs neither the old nor the new one.

| Variable | Code |
| --- | --- |
| `kind` | the transactional unit of the task: Network, the Traffic Publishing pair, the management handoff |
| `desired`, `baseline`, `runtime` | desired state, recorded applied state, configuration on the host |
| `journal` | the helper's durable rollback: its phase, its task, the prior version, and `restored` (boot put the old pair back) |
| `receipt` | the task named by the helper's commit receipt |
| `jobs` | rows: status, captured snapshot, who runs it, `cancel_requested_at`, `*_runtime_commit_pending` (`pend`), `*_application_committed`, cleanup-required, readiness-pending |
| `helper` | the live transient unit: command, task, stage, and the caller that still waits for it |
| `actor` | the runner, startup recovery, the HTTP confirmation thread, the console's retry, the worker's cleanup: where each stands, and the row it read (`seen`) before it called the helper |
| `web` | the web process: down, starting, serving |

`Claim` .. `Final` is `run_appliance_apply_job`; `Start`, `Scan`, `Admit` the startup;
`Reconcile` and `WriteBack` the body of `recover_interrupted_appliance_apply_jobs` for its three
callers; `WorkerScan` and `WorkerWrite` `retry_network_transaction_cleanup`, whose write is
conditional on the payload it read.  `ApplyBegin` .. `ClearFail` are the helper's three commands,
stage by stage.  A helper outlives its caller (`Crash`, `GiveUp`) but not the host (`Reboot`).

Abstractions.  A task carries one transactional unit.  The nested Network journal of a
publishing pair is part of the pair's.  A launched helper holds its lock from its launch.  A
handoff acknowledgement that survived its caller ends before the next command, because commands
wait for that unit.  The answer "committed recovery complete" is not taken for proof, as in the
code.  Startup's removal of a terminal Network journal always succeeds.  So does the boot replay of
a pair whose commit is receipted: the code may raise there (`atlaso-helper:18605-18623`) and keep
the marker without `runtime_restored`, and an acknowledgement then skips the reinstallation (18533).  Edits are allowed while
a task runs (sessions other than the locked pages can make them), so the captured and the current
desired state differ.  Left out: the grace window after a restart, and the ordinary units, which
have neither journal nor rollback and record the desired state as it is after their command.

### KmipStore and KeyService

| Variable | Code |
| --- | --- |
| `files` | which of `kek.json` and `store.db` exist |
| `rows` | committed rows: life-cycle state and the nonce of each wrapping |
| `env`, `mem` | the envelope on disk, and the daemon's copy: `commitment`, `pending_commitment` |
| `pc`, `op`, `next` | the operation under the store's lock and its open transaction |
| `told` | what clients were last told, shared with `KeyService` |
| `ppc`, `penv`, `pnew` | the status command, a process of its own |
| `past` | earlier contents of `store.db`, one of which may be restored |

A commitment is the rows it commits to.  Every file write may fail before or after the file was
replaced; a failed SQLite commit is taken not to have been applied.  The mapping shows
`KeyService` the keys of the envelope the daemon goes by, not of the database: that is what makes
a restored database invisible to clients and a change atomic.

### ChunkUpload

| Variable | Code |
| --- | --- |
| `br` | `uploadFetch` of each form: where it is, file, offset, attempt, overwrite token, session ids |
| `reqs`, `reply` | requests the server has not handled, also ones whose browser gave up; the answer a browser waits for |
| `sess` | `UploadStore.sessions`: state, received chunks, expiry, the consented revision |
| `hnd` | the consuming endpoint of each form, its staged copy and its backup link |
| `dest`, `ctime` | the artifact at the destination and the change time of each artifact, which links move |
| `lock`, `intruded` | `_LOCK` of `upload_publication`; a change from outside while it was held |
| `boot`, `foreign` | restarts and outside changes so far |

A request is handled in one step: `append` checks under the store's lock whatever the route
looked up before, and a reservation's publication record is created where it is checked.
`intruded` is the exception `ConsentKept` makes: programs that do not take `_LOCK` can slip
between the last comparison and `os.replace`.  Every link, replacement and restoration of
`publish` may fail; `"unrestored"` is an endpoint whose restoration did.  `close()` is part of
`Restart`.

## Runs

| Run | Instance | Shows |
| --- | --- | --- |
| `task_lifecycle` | any two of upload, two-stream check, verification and script, 2 sessions, 2 faults, fair worker | the safety properties below, the proofs' invariant `IInv`, and `EveryRequestDisposed` |
| `media_swap` | 2 transactions, 3 faults, both processes, fair | committed versions stay, backups are journalled, leased staging is safe, undo loses nothing, recovery ends unless the lock was leaked |
| `media_swap_restore` | 2 transactions, 1 fault | violation: recovery deletes the previous directory |
| `update_install` | current and migrated order, two streams, 5 faults (crash, reboot, helper, busy, escaping exception), cancellation, 3 attempts, fair processes | the hold covers every mutation and opens only after the restart, outside the two known ways to lose the duty of a failed Photon child; nothing is replayed, restarts do not overlap, restoration is final, the installation comes to rest |
| `update_failed_photon` | as before, 1 escaping exception | violation: a failed Photon child no longer owes a restart |
| `apply_transactions` | the three units, 2 tasks, 2 edits, 2 crashes or reboots, 2 failing stages, fair processes | a free lock means the baseline runs, every rollback has an owner, a commit is not undone, Network gives the lock back, and so do the operator's retries for Network and the pair |
| `apply_console_race` | a Network task of the console, 1 crash | violation: startup recovery takes a live task for a dead one |
| `apply_handoff_retained` | one handoff, 1 crash, an operator who keeps retrying, fair processes | violation: no retry ever releases the task |
| `kmip_store` | 2 keys, 4 changes, 2 crashes, 2 failed writes, 1 restored database, fair daemon | the store opens again and comes back, and implements `KeyService` |
| `kmip_status_race` | as before, 1 status command, no failed write | violation: the store no longer opens |
| `upload_transport` | one form of a credential file and a two-chunk archive, 2 attempts, 1 restart, fair server | published files are whole, retries are not refused, a form is claimed as a whole, every session is released |
| `upload_publication` | two browsers, one destination, 1 outside change, 1 restart, file operations that fail | consent is kept, a failed publication restores what it replaced unless the restoration fails too |

What the properties of the task runs say: `AtMostOneRunning`, no two rows are RUNNING;
`ConfirmedReleasesOwned` and `ReleasedOutsideGap`, a confirmed stop left no upload, helper or
swap evidence, outside two windows (see Known windows); `OutcomeTruthful`, the recorded
outcome of a stop agrees with the row; `AcceptedStopHolds`, nothing new starts or commits
after a stop was accepted; `ResultPreserved`, finished rows do not change;
`EveryRequestDisposed`, an accepted stop is settled or visibly retained.

Bounds.  Two tasks (`MaxTasks`) are enough for every pairwise race of the queue, and any two of
four identities may be those two, so that each handler meets every other; a download is an
upload without its file, a removal a script without failures of its own (both kinds are in the
proofs).
Two sessions race each other and the worker.  Two streams give a stop between children.  Two
faults allow a failed cleanup or a crash during the recovery from another; the media runs use
three (two crashes and a failed call).  Two transactions let the leftovers of one swap meet the
next.  An installation has at most two streams besides the release; five faults outnumber the
three restart attempts (the code's value), so that exhausted attempts and a fault in the recovery
from another are both reached.  Of Apply tasks only one holds the lock, so the second one is there
to meet what the first left (a journal, a receipt, a late helper); two crashes let a recovery be
interrupted, two faults let it fail as well, and two edits let the desired state move on while a
candidate is applied.  Four changes of two keys make every interrupted change meet a later one, on
the same key and on the other.  In the upload runs a file of two chunks has a first, a next and a
repeated one; limits equal to what the forms need make reservations meet them.

`timely` is an assumption on time: the completion grace is the sum of the timer, the
worker's startup allowance, the stop allowance and the proof window, so a restart still on its
way has ended when it lapses.  `OneRestartAtATime` is stated for behaviours where it holds; all
other properties of `update_install` hold whether it does or not.

Deadlock is checked for `TaskLifecycle`.  In `MediaSwap` the transactions run out and a leaked
lock stops the worker, so it is switched off there.  In `ApplianceUpdate` it is off as well:
once restarts are exhausted, a helper is unproven or the marker asks for attention, the
appliance waits for its operator; and so it is in `ApplianceApply` (a retained task waits, and
edits and tasks are bounded), in `KmipStore` (a refused database) and in `ChunkUpload` (every form
is over).

Fairness.  `WF(Worker)`: the unit has `Restart=on-failure`
(`image/common/systemd/atlaso-worker.service`), the loop sleeps and polls, and every helper,
transfer and extraction has a deadline.  Web requests are not fair.  In `MediaSwap` the
worker's sync and each process's recovery are weakly fair for the same reasons; the lock is
taken with a blocking call.  In `ApplianceUpdate` the worker, the applying helper, the restart
units and the lapse of the grace are weakly fair: systemd keeps the worker running, restart
units have deadlines, and the grace is a matter of the clock.  That a package transaction ends
is an assumption: installations have no deadline, and one that hangs keeps the hold.  Faults and
cancellations are not.  In `ApplianceApply` the helper's stages, the runner and each recovering
caller are weakly fair (the web process and the worker are restarted, helper commands end);
submissions, edits, cancellations and the console's retries are not, so `RetriesRelease` has the
operator's retries as its antecedent.  In `KmipStore` the daemon is (`Restart=on-failure`), its
clients and the status command are not.  In `ChunkUpload` the endpoint runs to its `finally`
clause, time passes and the sweep timer fires; no browser is obliged to anything.

## Proofs

`TaskLifecycleProofs` proves, for any tasks, kinds, sessions, streams and number of tasks enqueued
and faults:
`TypeCorrect`, `OneRunning`, `ReleasesOwned`, `ReleasesSwap`, `Truthful` (invariants),
`ResultsAreFinal` and `StopsHold` (action properties).  Assumptions: `Kind` maps tasks to the
modelled kinds, `NoJob` is no task, at least one stream.

None of the invariants is inductive alone.  `AtMostOneRunning` needs to know that admission
was passed with no RUNNING row at all, which needs that a RUNNING row seen between tasks is a
retained check or a failed cleanup (`Between`), which in turn needs that every handler leaves
its row terminal, pending or marked (`Executing`) and that recovery plans an outcome for each
RUNNING row (`Recovering`).  `ConfirmedReleasesOwned` needs `Kinded` (who can own what, and
that a helper implies a running child step, which is how recovery finds it) and the part of
`Recovering` that ties each planned cancellation to what was already released.  `IInv` is the
conjunction; `InvStep` has one step per action, with `StopStep`, `PendingStep`, `ResultStep`,
`InspectStep` and `CommitStep` for the writes several actions share.

`MediaSwapProofs`, for any transactions and faults: `TypeCorrect`, `BackupsFound`, `StagingSafe`
(invariants), `CommittedKept` and `PreviousKept` (action properties).  Assumption: a transaction is
not one of the words that stand for other contents.  The argument starts from `LockHeld`: exactly
one process is in a critical section, so what `Swapping` says about the worker's transaction and
`Recovering` about a recovery's cannot be changed by the other.  `BackupJournalled` needs that the
journal of the transaction is valid from before the first rename until after the last move
(`Swapping`, `Recovering`) and that a transaction not begun left no trace (`Unused`).
`CommittedStays` needs that nothing still to be moved is verified, and that no backup holds the
version the row verifies (`Superseded`): otherwise a restoration could bring a version back that a
later removal takes for committed.

`ApplianceUpdateProofs`, for any streams, orders, restart attempts and faults: `TypeCorrect`,
`HoldCoversApply`, `ApplyOnce`, `OpensClean`, `SingleRestart` (invariants) and `RestoredStays`
(action property).  Assumptions: Photon is a stream, every order lists all streams, each
once.  `HeldWhileMutating` needs `Owned`: a helper that outlived its worker belongs to a
child still recorded as running, so recovery does not touch the marker.  `NoReplay` needs `Once`
and `Ordered` (a stream about to be applied was not applied, and every stream before it ended).
`OpensCleanOutsideGap` needs `Changed`, which ties changed packages to the hold that was activated
for them, `Parent`, which ties a succeeded Photon child of a finished task to the duty, `Opening`,
that a hold ends over changed packages only after a failed Photon child without duty, and `Duty`,
which follows the duty from the apply through the child's row to the parent: only an answer never
read leaves it out of the row, and only a recomputation leaves it out of the parent.
`OneRestartAtATime` needs `Restarting`, which counts the units under way against the attempts.

`KmipStoreProofs`, for any non-empty set of keys and any bounds: `TypeCorrect`, `Reopening`
and `Refinement`, that `KmipStore` implements `KeyService` under the mapping `Abstract`.  `Reopens` is
not inductive: it speaks of the files only.  `Announced` says that an envelope commits to rows one
change away from what it announces and that the file is at most this change ahead of the daemon's
copy, `Changing` where the change stands between the two commits, `Fresh` which files a first start
has made.  In the refinement a commit of the database, and nothing else, is a change of the abstract
keys; `Clean` in the verification before an operation shows that the rows it answers from are the
committed ones.

`ChunkUploadProofs`, for any forms, files, sizes, limits, attempts, restarts and outside changes:
`TypeCorrect`, `WholeUploads`, `RetriesNeverRefused`, `ClaimedAsOne` (invariants), `ConsentHolds` and
`FailuresRestore` (action properties).  Assumptions: forms have distinct files, at least one and at
most one of them media, and `"free"` is no form.  `RetriesAccepted` needs `Follows`: the session is at
the browser's offset or one chunk ahead of it, whatever of the answers was lost, and requests still
under way were sent at or before that offset (`Orderly`).  `PublishedWhole` needs that claimed
sessions are complete (`Claims`), that what they hold is a beginning of the file (`Received`), and
that an upload is visible only after its endpoint had it staged as a whole (`Shown`).  `ConsentKept`
and `FailureRestores` need that the publication lock is held exactly inside `publish` (`Locked`),
that the revision a session may replace is the one in its browser's token (`Confirmed`), and what the
publication found and keeps to hand back (`Kept`).

`ApplianceApplyProofs`, for any number of tasks, versions, crashes and faults: `TypeCorrect`,
`AppliedWhenUnlocked`, `RollbackIsOwned` and `CommitKept`, all under the hypothesis `WebOnly`: tasks
run in the web process, and no handoff is retried at the console.  Neither half can be dropped:
finding 3 is the case of a task run by the console, and a retried handoff meets the late confirmation
described under "Hazards no property covers".  The argument is that only the newest task can hold the
lock (`Rows`), that the runner and every recovering caller but the worker attend to that task
(`Running`, `Recovering`), and that the worker, which may come late, writes only a row that still has
the payload it read.  `Recovering` also says that what a caller read of a row before its helper ran
still tells whether the application had committed, which decides between acknowledging and rolling
back.  `Helping` says which journal each stage of each helper may meet, whether its caller still waits
for it or not; `Journalled` that a journal leads back to the baseline until the commit, and only to
its own disposal with the candidate running afterwards.  `Answered` is where the pieces meet: an
answer that a caller takes for proof means that no journal is left and no apply is under way, so the
lock is given back only then.

The invariant of `TaskLifecycle` is a property of its run; the other ones were checked with TLC on
the instances of the runs before they were proved.

Only model-checked: liveness (`EveryRequestDisposed`, `RecoveryEnds`, `EventuallySettles`,
`NetworkReleased`, `RetriesReleaseOthers`, `ComesBack`, `SessionsReleased`), which is out of the
prover's reach.  Every invariant and action property of the passing runs is a theorem.

## Findings

1. `media_swap_restore`: a crash between the journal write and the first rename makes recovery
   take the previous directory for the unfinished replacement and delete it.
2. `kmip_status_race`: the status command opens the store for writing beside the daemon.  When it
   meets an announced change it settles the envelope on the old rows; the daemon commits the new
   ones and, if it dies before it settles, leaves a store that no start accepts.
3. `apply_console_race`: startup recovery of the web process cannot tell a task the console is
   running from an interrupted one, and gives its lock away.
4. `apply_handoff_retained`: a handoff interrupted between its claim and its helper's journal is
   RUNNING with nothing to roll back; recovery answers "no interrupted transaction", which
   releases only a pending row, so startup and every console retry retain it.  That one recovery
   pass keeps an unproven handoff is documented and tested; that no later one ever releases it is
   not.
5. `update_failed_photon`: "A failed Photon helper result retains the same restart duty", says the
   manual.  `_fail_job` recomputes the duty from succeeded and running Photon children only, so a
   child recorded as failed loses it when an exception escapes before the parent's result is
   written.

### Known windows

The passing runs name the windows in which a promise does not hold, so that nothing else falls
into them.

* `ReleasedOutsideGap`: a confirmed stop keeps swap evidence only if `sync_network_boot_media`
  raised because its own undo failed (then `_run_pxe_media_sync` has nothing to roll back), or if
  the request was accepted between recovery's two reads (it decides whether proof is required
  before it sweeps, and whom it cancels after).  That there is no third way is proved.
* `OpensCleanOutsideGap`: the ordinary UIs open on changed Photon packages only if the Photon
  child was recorded as failed, and then only after one of two events (`lapses`): the parent was
  later failed by `_fail_job`, which recomputes the duty from the other rows (finding 5), or an
  exception followed the start of the apply and was recorded in place of its result, without
  `apply_started` (`worker.py:1821-1829`), so that an ordinary completion finds no duty.  That
  there is no third way is proved.
* `FailureRestores`: if the restoration itself fails (`upload_publication.py:107,109`), the new
  upload stays published although its browser is told that it failed, and the cleanup removes the
  backup link.
* `RollbackOwned` and `AppliedIsRunning` survive a handoff whose cleanup fails after its journal
  was unlinked (`atlaso-helper:36048`): the lock is kept, and as in finding 4 a later recovery that
  finds no journal does not release it.
* `EventuallySettles`: an installation may come to rest with the marker at `recovery-required`
  (a service start between the cancellation of a published task and the next poll does that), and
  with its restart attempts used up, in which case a parent committed as succeeded stays so.
* `ConsentKept`: a program that does not take the publication lock can have its file replaced if
  it appears between the last comparison and `os.replace`.

### Hazards no property covers

* `main.py:164`: the confirmation thread of a restart calls `recover_management_handoff`, which
  names no task.  If an operator's retry has released the first task and a second handoff awaits
  its commit, the late call would roll that one back.  It needs a retried handoff; console retries
  of handoffs are left out of `apply_transactions` because of finding 4, and of the theorems about
  `ApplianceApply` because of this.
* `ui.py:18674`: ordinary units record the desired state read after their command.
* `kmip/store.py:470`: a first start that dies between `kek.json` and `store.db` leaves one file
  without the other, and every later start refuses.  The store holds no key then; `ComesBack` asks
  for both files.
* `services/upload_publication.py:94`: a process that dies inside `publish` leaves private links
  that no later start looks for.
* `services/network_boot.py:4512`: a crash between creating the staging directory and its lease, or
  a journal written half, leaves evidence that only the operator can remove, as documented; `"bare"`
  and `"torn"` are states of `MediaSwap`.
* `services/task_cancellation.py:189`: `finish_pending` rolls the shared session back when its row
  is gone, and with it the settles of earlier rows of the pass; the next pass repeats them, and the
  model commits each row by itself.
* `database.py:370`: only a partial unique index keeps two VCF depot operations of the web process
  and the worker from running together (`VcfDepot` in the plan).

## Plan

1. `ReleaseGate`: finalizer, restart gate, rollback handoff; composed with `ApplianceUpdate`.
2. `VcfDepot` (one running operation across web and worker), `Scheduler`, `OidcTokens`.
3. An abstract specification of a cancellable task (request, then exactly one disposition)
   that `TaskLifecycle` implements under a refinement mapping; one of a maintenance window
   (hold, mutate, restart, release) for `ApplianceUpdate`.

## Not modelled

Rendering and validation of configuration, cryptography, package managers and other programs the
privileged helpers call, remote VCF APIs, page templates, the installer and the build scripts:
they have no state of their own that several steps share, or their state lies outside the
appliance.  They are most of the repository's lines.  Of the components with state of their own,
the release finalizer, the scheduler, the VCF depot, OIDC tokens, settings restore and log
sealing are left for the plan above; `PROJECT.json` gives the reason for each.

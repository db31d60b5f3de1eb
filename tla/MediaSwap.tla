----------------------------- MODULE MediaSwap -----------------------------
(***************************************************************************)
(* The cache directory of one Network Boot environment version, and the    *)
(* journalled swap that replaces it: the worker stages, journals, moves    *)
(* the previous directory aside, publishes, commits the database row and   *)
(* sweeps; the web process and the worker both recover interrupted swaps   *)
(* when they start.  A file-system call that is atomic (rename, unlink,    *)
(* the database commit) is one step, and either process may die between    *)
(* any two of them.                                                        *)
(***************************************************************************)
EXTENDS Naturals, FiniteSets

CONSTANTS
    Txn,        \* transaction ids of the media tasks, each used once
    MaxFaults   \* bound on crashes, failed calls and damaged directories

\* Contents of a directory: nothing, the directory found before any modelled
\* task (no row verifies it), a damaged one, or what transaction t installed.
Content == {"none", "old", "damaged"} \cup Txn

ASSUME TxnAssumption == Txn \cap {"none", "old", "damaged", "free"} = {}
ASSUME FaultAssumption == MaxFaults \in Nat

Process == {"worker", "web"}

VARIABLES
    final,     \* content of <environment>/<version>
    row,       \* what the committed NetworkBootMedia row verifies, or "none"
    backup,    \* content of .<version>.replacement-<transaction>
    journal,   \* .atlaso-media-sync-<transaction>.json
    staging,   \* .atlaso-<environment>-<transaction>-*, with or without its lease
    lock,      \* holder of the media swap recovery lock
    pc, cur,   \* where each process is, and the transaction it handles
    had,       \* replaced_directory, enumerated before the lock is taken
    moved,     \* backup_moved / backup_dir is not None
    undo,      \* which exception handler runs the undo
    used,      \* transactions begun so far
    faults

fsVars == <<final, row, backup, journal, staging>>
txnVars == <<had, moved, undo, used>>
vars == <<fsVars, lock, pc, cur, txnVars, faults>>

Init ==
    /\ final \in {"none", "old"} /\ row = "none"
    /\ backup = [t \in Txn |-> "none"]
    /\ journal = [t \in Txn |-> "none"]
    /\ staging = [t \in Txn |-> "none"]
    /\ lock = "free"
    /\ pc = [p \in Process |-> "down"]
    /\ cur = [p \in Process |-> "none"]
    /\ had = FALSE /\ moved = FALSE /\ undo = "none" /\ used = {}
    /\ faults = 0

Fault == faults < MaxFaults /\ faults' = faults + 1
Move(p, from, to) == pc[p] = from /\ pc' = [pc EXCEPT ![p] = to]
Work(from, to) == Move("worker", from, to)
t0 == cur["worker"]

\* _verified_cached_media: the row's manifest matches the directory.
Verified == row # "none" /\ final = row

----------------------------------------------------------------------------
(* sync_network_boot_media *)

\* Mutant: the transaction is not recorded as the current one.
BeginMutant(t) ==
    /\ t \notin used /\ used' = used \cup {t}
    /\ ~Verified
    /\ Work("idle", "made")
    /\ had' = (final # "none")
    /\ staging' = [staging EXCEPT ![t] = "bare"]
    /\ UNCHANGED <<final, row, backup, journal, lock, cur, moved, undo, faults>>

\* A cached version that verifies is returned without a swap.
Begin(t) ==
    /\ t \notin used /\ used' = used \cup {t}
    /\ ~Verified
    /\ Work("idle", "made")
    /\ cur' = [cur EXCEPT !["worker"] = t]
    /\ had' = (final # "none")
    /\ staging' = [staging EXCEPT ![t] = "bare"]
    /\ UNCHANGED <<final, row, backup, journal, lock, moved, undo, faults>>

\* _MediaStagingLease publishes the lease under the swap lock.
Lease ==
    /\ Work("made", "staged") /\ lock = "free"
    /\ staging' = [staging EXCEPT ![t0] = "leased"]
    /\ UNCHANGED <<final, row, backup, journal, lock, cur, txnVars, faults>>

\* A stop checkpoint, a failed transfer, digest, signature or extraction.
StageRaises ==
    /\ Work("staged", "idle")
    /\ staging' = [staging EXCEPT ![t0] = "none"]
    /\ UNCHANGED <<final, row, backup, journal, lock, cur, txnVars, faults>>

\* Mutant: the swap starts without the lock.
AcquireSwapMutant ==
    /\ Work("staged", "locked") /\ lock = "free"
    /\ UNCHANGED <<fsVars, lock, cur, txnVars, faults>>

AcquireSwap ==
    /\ Work("staged", "locked") /\ lock = "free" /\ lock' = "worker"
    /\ UNCHANGED <<fsVars, cur, txnVars, faults>>

WriteJournal ==
    /\ Work("locked", "journalled")
    /\ journal' = [journal EXCEPT ![t0] = "valid"]
    /\ UNCHANGED <<final, row, backup, staging, lock, cur, txnVars, faults>>

\* Mutant: the handler keeps the lock.
JournalRaisesMutant ==
    /\ Work("locked", "idle") /\ Fault
    /\ \E rest \in {"none", "torn"} : journal' = [journal EXCEPT ![t0] = rest]
    /\ staging' = [staging EXCEPT ![t0] = "none"]
    /\ UNCHANGED <<final, row, backup, lock, cur, txnVars>>

\* The write fails; the file it created may stay behind, truncated.
JournalRaises ==
    /\ Work("locked", "idle") /\ Fault
    /\ \E rest \in {"none", "torn"} : journal' = [journal EXCEPT ![t0] = rest]
    /\ staging' = [staging EXCEPT ![t0] = "none"]
    /\ lock' = "free"
    /\ UNCHANGED <<final, row, backup, cur, txnVars>>

\* Mutant: the previous directory is removed, not renamed.
MoveAsideMutant ==
    /\ Work("journalled", "aside")
    /\ final' = "none" /\ moved' = had
    /\ UNCHANGED <<row, backup, journal, staging, lock, cur, had, undo, used, faults>>

MoveAside ==
    /\ Work("journalled", "aside")
    /\ IF had
       THEN final # "none" /\ backup' = [backup EXCEPT ![t0] = final] /\ final' = "none"
       ELSE UNCHANGED <<backup, final>>
    /\ moved' = had
    /\ UNCHANGED <<row, journal, staging, lock, cur, had, undo, used, faults>>

Publish ==
    /\ Work("aside", "published") /\ final = "none"
    /\ final' = t0
    /\ UNCHANGED <<row, backup, journal, staging, lock, cur, txnVars, faults>>

\* A rename fails because the directory enumerated before the lock is gone or
\* another one appeared, or any of the calls fails.
SwapRaises ==
    /\ \/ /\ Work("journalled", "restore") /\ moved' = FALSE
          /\ IF had /\ final = "none" THEN UNCHANGED faults ELSE Fault
       \/ /\ Work("aside", "restore") /\ UNCHANGED moved
          /\ IF final # "none" THEN UNCHANGED faults ELSE Fault
       \/ /\ Work("published", "unpublish") /\ UNCHANGED moved
          /\ Fault
    /\ undo' = "swap"
    /\ UNCHANGED <<fsVars, lock, cur, had, used>>

\* The staging directory is left: its lease is released and it is removed.
LeaveStaging ==
    /\ Work("published", "recording")
    /\ staging' = [staging EXCEPT ![t0] = "none"]
    /\ UNCHANGED <<final, row, backup, journal, lock, cur, txnVars, faults>>

\* Removing it fails outside every handler: the lock stays with the process,
\* whose next media task waits for it for ever.
LeaveStagingRaises ==
    /\ Work("published", "leaked") /\ Fault
    /\ UNCHANGED <<fsVars, lock, cur, txnVars>>

RecordRaises ==
    /\ Work("recording", "unpublish") /\ Fault /\ undo' = "record"
    /\ UNCHANGED <<fsVars, lock, cur, had, moved, used>>

----------------------------------------------------------------------------
(* The media task: commit and sweep, or roll back. *)

CommitRow ==
    /\ Work("recording", "sweeping")
    /\ row' = t0
    /\ UNCHANGED <<final, backup, journal, staging, lock, cur, txnVars, faults>>

\* A cancellation request or a failed commit: rollback_filesystem.
RollBack ==
    /\ Work("recording", "unpublish") /\ undo' = "rollback"
    /\ UNCHANGED <<fsVars, lock, cur, had, moved, used, faults>>

\* Mutant: the sweep forgets the backup.
SweepBackupMutant ==
    /\ Work("sweeping", "unjournal")
    /\ UNCHANGED <<fsVars, lock, cur, txnVars, faults>>

SweepBackup ==
    /\ Work("sweeping", "unjournal")
    /\ backup' = [backup EXCEPT ![t0] = "none"]
    /\ UNCHANGED <<final, row, journal, staging, lock, cur, txnVars, faults>>

Unpublish ==
    /\ Work("unpublish", "restore")
    /\ final' = "none"
    /\ UNCHANGED <<row, backup, journal, staging, lock, cur, txnVars, faults>>

Restore ==
    /\ Work("restore", "unjournal")
    /\ IF moved /\ backup[t0] # "none"
       THEN final' = backup[t0] /\ backup' = [backup EXCEPT ![t0] = "none"]
       ELSE UNCHANGED <<final, backup>>
    /\ UNCHANGED <<row, journal, staging, lock, cur, txnVars, faults>>

\* The journal goes last; then the lock, and with the swap handler's exception
\* the staging directory.
Unjournal ==
    /\ Work("unjournal", "idle")
    /\ journal' = [journal EXCEPT ![t0] = "none"]
    /\ staging' = [staging EXCEPT ![t0] = "none"]
    /\ lock' = "free" /\ moved' = FALSE /\ undo' = "none"
    /\ UNCHANGED <<final, row, backup, cur, had, used, faults>>

\* A call of the sweep or of an undo fails.  commit_filesystem and
\* rollback_filesystem release the lock, the other two handlers do not.
CleanupRaises ==
    /\ pc["worker"] \in {"sweeping", "unpublish", "restore", "unjournal"} /\ Fault
    /\ IF undo \in {"none", "rollback"}
       THEN lock' = "free" /\ pc' = [pc EXCEPT !["worker"] = "idle"]
       ELSE lock' = lock /\ pc' = [pc EXCEPT !["worker"] = "leaked"]
    /\ staging' = [staging EXCEPT ![t0] = "none"]
    /\ moved' = FALSE /\ undo' = "none"
    /\ UNCHANGED <<final, row, backup, journal, cur, had, used>>

----------------------------------------------------------------------------
(* remove_inactive_network_boot_media: tree first, then the row. *)

RemoveTree ==
    /\ row # "none" /\ final # "none"
    /\ Work("idle", "removing")
    /\ final' = "none"
    /\ UNCHANGED <<row, backup, journal, staging, lock, cur, txnVars, faults>>

RemoveRow ==
    /\ Work("removing", "idle")
    /\ row' = "none"
    /\ UNCHANGED <<final, backup, journal, staging, lock, cur, txnVars, faults>>

RemoveRaises ==
    /\ Work("removing", "idle") /\ Fault
    /\ UNCHANGED <<fsVars, lock, cur, txnVars>>

----------------------------------------------------------------------------
(* recover_interrupted_network_boot_media_swaps, run by either process. *)

Start(p) ==
    /\ Move(p, "down", "starting")
    /\ UNCHANGED <<fsVars, lock, cur, txnVars, faults>>

\* Mutant: a lease somebody holds does not protect its directory.
RecoverAcquireMutant(p) ==
    /\ Move(p, "starting", "scanning") /\ lock = "free" /\ lock' = p
    /\ staging' = [t \in Txn |-> IF staging[t] = "leased" THEN "none" ELSE staging[t]]
    /\ UNCHANGED <<final, row, backup, journal, cur, txnVars, faults>>

\* Under the lock, orphan staging directories go first: one that has a lease
\* file nobody holds.  A bare one is never recognised.
RecoverAcquire(p) ==
    /\ Move(p, "starting", "scanning") /\ lock = "free" /\ lock' = p
    /\ staging' = [t \in Txn |->
                     IF staging[t] = "leased" /\ ~(pc["worker"] = "staged" /\ t = t0)
                     THEN "none" ELSE staging[t]]
    /\ UNCHANGED <<final, row, backup, journal, cur, txnVars, faults>>

\* One journal: a row that verifies the directory keeps the new version,
\* anything else restores the backup.
RecoverJournal(p, t) ==
    /\ journal[t] = "valid"
    /\ \/ Verified /\ Move(p, "scanning", "keep-backup")
       \/ ~Verified /\ Move(p, "scanning", "undo-final")
    /\ cur' = [cur EXCEPT ![p] = t]
    /\ UNCHANGED <<fsVars, lock, txnVars, faults>>

RecoverKeep(p) ==
    /\ Move(p, "keep-backup", "undo-journal")
    /\ backup' = [backup EXCEPT ![cur[p]] = "none"]
    /\ UNCHANGED <<final, row, journal, staging, lock, cur, txnVars, faults>>

RecoverRemove(p) ==
    /\ Move(p, "undo-final", "undo-restore")
    /\ final' = "none"
    /\ UNCHANGED <<row, backup, journal, staging, lock, cur, txnVars, faults>>

RecoverRestore(p) ==
    /\ Move(p, "undo-restore", "undo-journal")
    /\ IF backup[cur[p]] # "none"
       THEN final' = backup[cur[p]] /\ backup' = [backup EXCEPT ![cur[p]] = "none"]
       ELSE UNCHANGED <<final, backup>>
    /\ UNCHANGED <<row, journal, staging, lock, cur, txnVars, faults>>

RecoverUnlink(p) ==
    /\ Move(p, "undo-journal", "scanning")
    /\ staging' = [staging EXCEPT ![cur[p]] = "none"]
    /\ journal' = [journal EXCEPT ![cur[p]] = "none"]
    /\ UNCHANGED <<final, row, backup, lock, cur, txnVars, faults>>

RecoverDone(p) ==
    /\ Move(p, "scanning", "idle")
    /\ \A t \in Txn : journal[t] # "valid"
    /\ lock' = "free"
    /\ UNCHANGED <<fsVars, cur, txnVars, faults>>

\* A file-system call of the recovery raises: the lock is released and the
\* process starts anyway (worker, a stop was requested) or dies.
RecoverRaises(p) ==
    /\ pc[p] \in {"scanning", "keep-backup", "undo-final", "undo-restore", "undo-journal"}
    /\ Fault
    /\ \E next \in IF p = "worker" THEN {"idle", "down"} ELSE {"down"} :
          pc' = [pc EXCEPT ![p] = next]
    /\ lock' = "free"
    /\ UNCHANGED <<fsVars, cur, txnVars>>

----------------------------------------------------------------------------
(* The environment. *)

\* A process dies: the kernel drops its locks; a journal being written stays
\* behind truncated.
Crash(p) ==
    /\ pc[p] # "down" /\ Fault
    /\ pc' = [pc EXCEPT ![p] = "down"]
    /\ lock' = IF lock = p THEN "free" ELSE lock
    /\ IF p = "worker" /\ pc[p] = "locked"
       THEN \E rest \in {"none", "torn"} : journal' = [journal EXCEPT ![t0] = rest]
       ELSE UNCHANGED journal
    /\ IF p = "worker" THEN moved' = FALSE /\ undo' = "none" ELSE UNCHANGED <<moved, undo>>
    /\ UNCHANGED <<final, row, backup, staging, cur, had, used>>

\* A file of the installed version is altered, so that it no longer verifies.
Damage ==
    /\ Verified /\ Fault
    /\ final' = "damaged"
    /\ UNCHANGED <<row, backup, journal, staging, lock, pc, cur, txnVars>>

Sync ==
    \/ \E t \in Txn : Begin(t)
    \/ Lease \/ StageRaises \/ AcquireSwap \/ WriteJournal \/ JournalRaises
    \/ MoveAside \/ Publish \/ SwapRaises \/ LeaveStaging \/ LeaveStagingRaises
    \/ RecordRaises \/ CommitRow \/ RollBack \/ SweepBackup \/ Unpublish
    \/ Restore \/ Unjournal \/ CleanupRaises
    \/ RemoveTree \/ RemoveRow \/ RemoveRaises

Recovery(p) ==
    \/ Start(p) \/ RecoverAcquire(p)
    \/ \E t \in Txn : RecoverJournal(p, t)
    \/ RecoverKeep(p) \/ RecoverRemove(p) \/ RecoverRestore(p)
    \/ RecoverUnlink(p) \/ RecoverDone(p) \/ RecoverRaises(p)

Next ==
    \/ Sync
    \/ \E p \in Process : Recovery(p) \/ Crash(p)
    \/ Damage

Spec == Init /\ [][Next]_vars
FairSpec == Spec /\ WF_vars(Sync) /\ \A p \in Process : WF_vars(Recovery(p))

----------------------------------------------------------------------------
(* Properties. *)

WorkerPcs == {"made", "staged", "locked", "journalled", "aside", "published",
              "recording", "sweeping", "unpublish", "restore", "unjournal",
              "removing", "leaked"}
JournalPcs == {"keep-backup", "undo-final", "undo-restore", "undo-journal"}
RecoverPcs == JournalPcs \cup {"down", "starting", "scanning", "idle"}

\* Every variable stays in its declared range.
TypeOK ==
    /\ final \in Content
    /\ row \in {"none"} \cup Txn
    /\ backup \in [Txn -> Content]
    /\ journal \in [Txn -> {"none", "torn", "valid"}]
    /\ staging \in [Txn -> {"none", "bare", "leased"}]
    /\ lock \in {"free"} \cup Process
    /\ pc \in [Process -> RecoverPcs \cup WorkerPcs]
    /\ pc["web"] \in RecoverPcs
    /\ cur \in [Process -> {"none"} \cup Txn]
    /\ pc["worker"] \in WorkerPcs \ {"removing"} => t0 \in Txn
    /\ \A p \in Process : pc[p] \in JournalPcs => cur[p] \in Txn
    /\ had \in BOOLEAN /\ moved \in BOOLEAN
    /\ undo \in {"none", "swap", "record", "rollback"}
    /\ used \in SUBSET Txn
    /\ faults \in 0..MaxFaults

KeepsCommitted ==
    Verified => \/ final' = row'
                \/ final' = "damaged"
                \/ pc'["worker"] = "removing"

\* A version whose row is committed stays in place: no undo, sweep or recovery
\* of this or of another transaction, in either process, moves or removes it.
CommittedStays == [][KeepsCommitted]_vars

\* A backup is never an orphan: while it exists its journal does, so that a
\* recovery can find it, whatever step the process died in.
BackupJournalled ==
    \A t \in Txn : backup[t] # "none" => journal[t] = "valid"

\* No recovery removes the staging directory of a sync that is still running.
StagingHeld ==
    pc["worker"] \in {"staged", "locked", "journalled", "aside", "published"}
        => staging[t0] = "leased"

\* The directory that was there before the first swap, in place or moved aside.
PreviousHeld == final = "old" \/ \E t \in Txn : backup[t] = "old"

\* It disappears although no row is committed, other than by a recovery that
\* found the replacement committed and drops the superseded backup.
PreviousLost ==
    /\ PreviousHeld /\ ~PreviousHeld' /\ row = "none" /\ row' = "none"
    /\ \A p \in Process : pc[p] # "keep-backup"

\* A swap that does not commit gives back the directory it replaced: no step of
\* the sync, of its undo or of its rollback loses it.
SyncKeepsPrevious ==
    [][PreviousLost => \E p \in Process : pc[p] = "undo-final"]_vars

\* Startup recovery restores an interrupted swap: it does not lose the directory
\* that was there before.
RecoveryRestoresPrevious == [][~PreviousLost]_vars

\* A starting process gets through its recovery, or waits for a worker that
\* leaked the lock.
RecoveryEnds ==
    \A p \in Process :
        pc[p] = "starting" ~> (pc[p] \in {"idle", "down"} \/ pc["worker"] = "leaked")

============================================================================

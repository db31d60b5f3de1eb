-------------------------- MODULE MediaSwapProofs --------------------------
(***************************************************************************)
(* The swap of a media version for any number of transactions, crashes and *)
(* failed calls of the worker and of the web process: what the recovery    *)
(* lock and the order of the journal's steps guarantee.                    *)
(***************************************************************************)
EXTENDS MediaSwap, TLAPS

\* Where a process owns the recovery lock.
Critical == {"locked", "journalled", "aside", "published", "recording", "sweeping",
             "unpublish", "restore", "unjournal", "leaked", "scanning"} \cup JournalPcs

LockHeld == \A p \in Process : lock = p <=> pc[p] \in Critical

\* A transaction that was not begun has left no trace.
Unused ==
    \A t \in Txn \ used :
        /\ backup[t] = "none" /\ journal[t] = "none" /\ final # t /\ row # t
        /\ \A s \in Txn : backup[s] # t

\* No backup holds the version the row verifies, so that no restoration brings
\* a version back that a later swap or removal takes for committed.
Superseded == row # "none" => \A t \in Txn : backup[t] # row

\* Where the worker's transaction stands: its journal covers its backup, its
\* content is nowhere else, and nothing it still moves is verified.
Before == {"made", "staged", "locked", "journalled", "aside"}
Placed == {"published", "recording", "unpublish"}
Swapping ==
    /\ pc["worker"] \in WorkerPcs \ {"removing"} => t0 \in used
    /\ pc["worker"] \in {"made", "staged", "locked"} => journal[t0] = "none"
    /\ pc["worker"] \in {"journalled", "aside", "restore", "sweeping", "unjournal"} \cup Placed
          => journal[t0] = "valid"
    /\ pc["worker"] \in {"made", "staged", "locked", "journalled", "unjournal"}
          => backup[t0] = "none"
    /\ pc["worker"] \in {"aside", "restore"} \cup Placed /\ ~moved => backup[t0] = "none"
    /\ pc["worker"] \in {"aside", "restore"} /\ moved => final = "none"
    /\ pc["worker"] \in Before => final # t0
    /\ pc["worker"] \in Placed => final = t0
    /\ pc["worker"] \in Before \cup Placed =>
          row # t0 /\ \A t \in Txn : backup[t] # t0
    /\ pc["worker"] \in Before \cup Placed \cup {"restore", "removing"} => ~Verified
    /\ pc["worker"] = "sweeping" => row = t0

\* Where a recovery stands.
Recovering ==
    \A p \in Process :
        /\ pc[p] \in JournalPcs => journal[cur[p]] = "valid"
        /\ pc[p] = "undo-final" => ~Verified
        /\ pc[p] = "undo-restore" => final = "none"
        /\ pc[p] = "undo-journal" => backup[cur[p]] = "none"

IInv ==
    /\ TypeOK
    /\ LockHeld
    /\ Unused
    /\ Superseded
    /\ Swapping
    /\ Recovering
    /\ BackupJournalled
    /\ StagingHeld

USE TxnAssumption, FaultAssumption

----------------------------------------------------------------------------
\* Both processes are down and no transaction was begun.
LEMMA InitInv == Init => IInv
<1> SUFFICES ASSUME Init PROVE IInv
  OBVIOUS
<1> USE DEF Init, Process, t0
<1>1. TypeOK
  <2>1. had \in BOOLEAN /\ moved \in BOOLEAN
    BY Zenon
  <2> QED  BY <2>1 DEF TypeOK, Content, RecoverPcs, WorkerPcs, JournalPcs
<1>2. LockHeld /\ Unused /\ Superseded
  BY DEF LockHeld, Critical, JournalPcs, Unused, Superseded
<1>3. Swapping /\ Recovering /\ BackupJournalled /\ StagingHeld
  BY DEF Swapping, Before, Placed, WorkerPcs, Recovering, JournalPcs,
         BackupJournalled, StagingHeld
<1> QED  BY <1>1, <1>2, <1>3 DEF IInv

\* Every step keeps every variable in its range.
LEMMA TypeStep == TypeOK /\ [Next]_vars => TypeOK'
<1> SUFFICES ASSUME TypeOK, [Next]_vars PROVE TypeOK'
  OBVIOUS
<1> USE DEF TypeOK, Content, RecoverPcs, WorkerPcs, JournalPcs, fsVars, txnVars,
            Process, Work, Move, Fault, t0
<1>1. ASSUME NEW t \in Txn, Begin(t)
      PROVE  TypeOK'
  BY <1>1 DEF Begin
<1>2. CASE Lease
  BY <1>2 DEF Lease
<1>3. CASE StageRaises
  BY <1>3 DEF StageRaises
<1>4. CASE AcquireSwap
  BY <1>4 DEF AcquireSwap
<1>5. CASE WriteJournal
  BY <1>5 DEF WriteJournal
<1>6. CASE JournalRaises
  BY <1>6 DEF JournalRaises
<1>7. CASE MoveAside
  BY <1>7 DEF MoveAside
<1>8. CASE Publish
  BY <1>8 DEF Publish
<1>9. CASE SwapRaises
  <2>1. /\ pc' \in [Process -> RecoverPcs \cup WorkerPcs] /\ pc'["web"] = pc["web"]
        /\ pc'["worker"] \in {"restore", "unpublish"}
        /\ pc["worker"] \in WorkerPcs \ {"removing"}
    BY <1>9 DEF SwapRaises
  <2>2. faults' \in 0..MaxFaults
    BY <1>9 DEF SwapRaises
  <2>3. had' \in BOOLEAN /\ moved' \in BOOLEAN
    BY <1>9, Zenon DEF SwapRaises
  <2> QED  BY <1>9, <2>1, <2>2, <2>3 DEF SwapRaises
<1>10. CASE LeaveStaging
  BY <1>10 DEF LeaveStaging
<1>11. CASE LeaveStagingRaises
  BY <1>11 DEF LeaveStagingRaises
<1>12. CASE RecordRaises
  BY <1>12 DEF RecordRaises
<1>13. CASE CommitRow
  BY <1>13 DEF CommitRow
<1>14. CASE RollBack
  BY <1>14 DEF RollBack
<1>15. CASE SweepBackup
  BY <1>15 DEF SweepBackup
<1>16. CASE Unpublish
  BY <1>16 DEF Unpublish
<1>17. CASE Restore
  BY <1>17 DEF Restore
<1>18. CASE Unjournal
  BY <1>18 DEF Unjournal
<1>19. CASE CleanupRaises
  <2>1. /\ pc' \in [Process -> RecoverPcs \cup WorkerPcs] /\ pc'["web"] = pc["web"]
        /\ pc'["worker"] \in {"idle", "leaked"}
        /\ pc["worker"] \in WorkerPcs \ {"removing"}
    BY <1>19 DEF CleanupRaises
  <2>2. lock' \in {"free"} \cup Process /\ staging' \in [Txn -> {"none", "bare", "leased"}]
    BY <1>19 DEF CleanupRaises
  <2>3. had' \in BOOLEAN /\ moved' \in BOOLEAN
    BY <1>19, Zenon DEF CleanupRaises
  <2> QED  BY <1>19, <2>1, <2>2, <2>3 DEF CleanupRaises
<1>20. CASE RemoveTree
  BY <1>20 DEF RemoveTree
<1>21. CASE RemoveRow
  BY <1>21 DEF RemoveRow
<1>22. CASE RemoveRaises
  BY <1>22 DEF RemoveRaises
<1>23. ASSUME NEW p \in Process, NEW t \in Txn, RecoverJournal(p, t)
       PROVE  TypeOK'
  BY <1>23 DEF RecoverJournal
<1>24. ASSUME NEW p \in Process, Start(p)
       PROVE  TypeOK'
  BY <1>24 DEF Start
<1>25. ASSUME NEW p \in Process, RecoverAcquire(p)
       PROVE  TypeOK'
  BY <1>25 DEF RecoverAcquire
<1>26. ASSUME NEW p \in Process, RecoverKeep(p)
       PROVE  TypeOK'
  BY <1>26 DEF RecoverKeep
<1>27. ASSUME NEW p \in Process, RecoverRemove(p)
       PROVE  TypeOK'
  BY <1>27 DEF RecoverRemove
<1>28. ASSUME NEW p \in Process, RecoverRestore(p)
       PROVE  TypeOK'
  BY <1>28 DEF RecoverRestore
<1>29. ASSUME NEW p \in Process, RecoverUnlink(p)
       PROVE  TypeOK'
  BY <1>29 DEF RecoverUnlink
<1>30. ASSUME NEW p \in Process, RecoverDone(p)
       PROVE  TypeOK'
  BY <1>30 DEF RecoverDone
<1>31. ASSUME NEW p \in Process, RecoverRaises(p)
       PROVE  TypeOK'
  BY <1>31 DEF RecoverRaises
<1>32. ASSUME NEW p \in Process, Crash(p)
       PROVE  TypeOK'
  <2>1. journal' \in [Txn -> {"none", "torn", "valid"}]
    BY <1>32 DEF Crash
  <2>2. lock' \in {"free"} \cup Process /\ pc' \in [Process -> RecoverPcs \cup WorkerPcs]
    BY <1>32 DEF Crash
  <2>3. had' \in BOOLEAN /\ moved' \in BOOLEAN
    BY <1>32, Zenon DEF Crash
  <2> QED  BY <1>32, <2>1, <2>2, <2>3 DEF Crash
<1>33. CASE Damage
  BY <1>33 DEF Damage
<1>34. CASE UNCHANGED vars
  BY <1>34 DEF vars
<1> QED  BY <1>1, <1>2, <1>3, <1>4, <1>5, <1>6, <1>7, <1>8, <1>9, <1>10,
            <1>11, <1>12, <1>13, <1>14, <1>15, <1>16, <1>17, <1>18, <1>19,
            <1>20, <1>21, <1>22, <1>23, <1>24, <1>25, <1>26, <1>27, <1>28,
            <1>29, <1>30, <1>31, <1>32, <1>33, <1>34
            DEF Next, Sync, Recovery

\* A process enters and leaves the critical part of its code with the lock: two
\* swaps, or a swap and a recovery, never overlap.
LEMMA LockStep == TypeOK /\ LockHeld /\ [Next]_vars => LockHeld'
<1> SUFFICES ASSUME TypeOK, LockHeld, [Next]_vars PROVE LockHeld'
  OBVIOUS
<1> USE DEF TypeOK, LockHeld, Critical, RecoverPcs, WorkerPcs, JournalPcs, fsVars,
            txnVars, Process, Work, Move
<1>1. ASSUME NEW t \in Txn, Begin(t)
      PROVE  LockHeld'
  BY <1>1 DEF Begin
<1>2. CASE Lease
  BY <1>2 DEF Lease
<1>3. CASE StageRaises
  BY <1>3 DEF StageRaises
<1>4. CASE AcquireSwap
  BY <1>4 DEF AcquireSwap
<1>5. CASE WriteJournal
  BY <1>5 DEF WriteJournal
<1>6. CASE JournalRaises
  BY <1>6 DEF JournalRaises
<1>7. CASE MoveAside
  BY <1>7 DEF MoveAside
<1>8. CASE Publish
  BY <1>8 DEF Publish
<1>9. CASE SwapRaises
  BY <1>9 DEF SwapRaises
<1>10. CASE LeaveStaging
  BY <1>10 DEF LeaveStaging
<1>11. CASE LeaveStagingRaises
  BY <1>11 DEF LeaveStagingRaises
<1>12. CASE RecordRaises
  BY <1>12 DEF RecordRaises
<1>13. CASE CommitRow
  BY <1>13 DEF CommitRow
<1>14. CASE RollBack
  BY <1>14 DEF RollBack
<1>15. CASE SweepBackup
  BY <1>15 DEF SweepBackup
<1>16. CASE Unpublish
  BY <1>16 DEF Unpublish
<1>17. CASE Restore
  BY <1>17 DEF Restore
<1>18. CASE Unjournal
  BY <1>18 DEF Unjournal
<1>19. CASE CleanupRaises
  BY <1>19 DEF CleanupRaises
<1>20. CASE RemoveTree
  BY <1>20 DEF RemoveTree
<1>21. CASE RemoveRow
  BY <1>21 DEF RemoveRow
<1>22. CASE RemoveRaises
  BY <1>22 DEF RemoveRaises
<1>23. ASSUME NEW p \in Process, NEW t \in Txn, RecoverJournal(p, t)
       PROVE  LockHeld'
  BY <1>23 DEF RecoverJournal
<1>24. ASSUME NEW p \in Process, Start(p)
       PROVE  LockHeld'
  BY <1>24 DEF Start
<1>25. ASSUME NEW p \in Process, RecoverAcquire(p)
       PROVE  LockHeld'
  BY <1>25 DEF RecoverAcquire
<1>26. ASSUME NEW p \in Process, RecoverKeep(p)
       PROVE  LockHeld'
  BY <1>26 DEF RecoverKeep
<1>27. ASSUME NEW p \in Process, RecoverRemove(p)
       PROVE  LockHeld'
  BY <1>27 DEF RecoverRemove
<1>28. ASSUME NEW p \in Process, RecoverRestore(p)
       PROVE  LockHeld'
  BY <1>28 DEF RecoverRestore
<1>29. ASSUME NEW p \in Process, RecoverUnlink(p)
       PROVE  LockHeld'
  BY <1>29 DEF RecoverUnlink
<1>30. ASSUME NEW p \in Process, RecoverDone(p)
       PROVE  LockHeld'
  BY <1>30 DEF RecoverDone
<1>31. ASSUME NEW p \in Process, RecoverRaises(p)
       PROVE  LockHeld'
  BY <1>31 DEF RecoverRaises
<1>32. ASSUME NEW p \in Process, Crash(p)
       PROVE  LockHeld'
  BY <1>32 DEF Crash
<1>33. CASE Damage
  BY <1>33 DEF Damage
<1>34. CASE UNCHANGED vars
  BY <1>34 DEF vars
<1> QED  BY <1>1, <1>2, <1>3, <1>4, <1>5, <1>6, <1>7, <1>8, <1>9, <1>10,
            <1>11, <1>12, <1>13, <1>14, <1>15, <1>16, <1>17, <1>18, <1>19,
            <1>20, <1>21, <1>22, <1>23, <1>24, <1>25, <1>26, <1>27, <1>28,
            <1>29, <1>30, <1>31, <1>32, <1>33, <1>34
            DEF Next, Sync, Recovery

\* Every step of either process and every fault keeps IInv.
LEMMA InvStep == IInv /\ [Next]_vars => IInv'
<1> SUFFICES ASSUME IInv, [Next]_vars
             PROVE  /\ Unused' /\ Superseded' /\ Swapping' /\ Recovering'
                    /\ BackupJournalled' /\ StagingHeld'
  BY TypeStep, LockStep DEF IInv
<1> DEFINE Goal == /\ Unused' /\ Superseded' /\ Swapping' /\ Recovering'
                   /\ BackupJournalled' /\ StagingHeld'
<1> USE TypeStep DEF IInv, TypeOK, LockHeld, Unused, Superseded, Swapping,
        Recovering, BackupJournalled, StagingHeld, Verified, Before, Placed,
        Critical, WorkerPcs, JournalPcs, RecoverPcs, fsVars, txnVars, Process,
        Work, Move, t0
<1>1. ASSUME NEW t \in Txn, Begin(t)
      PROVE  Goal
  BY <1>1 DEF Begin
<1>2. CASE Lease
  BY <1>2 DEF Lease
<1>3. CASE StageRaises
  BY <1>3 DEF StageRaises
<1>4. CASE AcquireSwap
  BY <1>4 DEF AcquireSwap
<1>5. CASE WriteJournal
  BY <1>5 DEF WriteJournal
<1>6. CASE JournalRaises
  BY <1>6 DEF JournalRaises
<1>7. CASE MoveAside
  <2>1. Unused' /\ Superseded'
    BY <1>7 DEF MoveAside
  <2>2. Swapping'
    BY <1>7 DEF MoveAside
  <2>3. Recovering'
    BY <1>7 DEF MoveAside
  <2>4. BackupJournalled' /\ StagingHeld'
    BY <1>7 DEF MoveAside
  <2> QED  BY <2>1, <2>2, <2>3, <2>4
<1>8. CASE Publish
  <2>1. Unused' /\ Superseded'
    BY <1>8 DEF Publish
  <2>2. Swapping'
    BY <1>8 DEF Publish
  <2>3. Recovering'
    BY <1>8 DEF Publish
  <2>4. BackupJournalled' /\ StagingHeld'
    BY <1>8 DEF Publish
  <2> QED  BY <2>1, <2>2, <2>3, <2>4
<1>9. CASE SwapRaises
  <2>1. Unused' /\ Superseded'
    BY <1>9 DEF SwapRaises
  <2>2. Swapping'
    BY <1>9 DEF SwapRaises
  <2>3. Recovering'
    BY <1>9 DEF SwapRaises
  <2>4. BackupJournalled' /\ StagingHeld'
    BY <1>9 DEF SwapRaises
  <2> QED  BY <2>1, <2>2, <2>3, <2>4
<1>10. CASE LeaveStaging
  BY <1>10 DEF LeaveStaging
<1>11. CASE LeaveStagingRaises
  BY <1>11 DEF LeaveStagingRaises
<1>12. CASE RecordRaises
  BY <1>12 DEF RecordRaises
<1>13. CASE CommitRow
  <2>1. Unused' /\ Superseded'
    BY <1>13 DEF CommitRow
  <2>2. Swapping'
    BY <1>13 DEF CommitRow
  <2>3. Recovering'
    BY <1>13 DEF CommitRow
  <2>4. BackupJournalled' /\ StagingHeld'
    BY <1>13 DEF CommitRow
  <2> QED  BY <2>1, <2>2, <2>3, <2>4
<1>14. CASE RollBack
  BY <1>14 DEF RollBack
<1>15. CASE SweepBackup
  BY <1>15 DEF SweepBackup
<1>16. CASE Unpublish
  <2>1. Unused' /\ Superseded'
    BY <1>16 DEF Unpublish
  <2>2. Swapping'
    BY <1>16 DEF Unpublish
  <2>3. Recovering'
    BY <1>16 DEF Unpublish
  <2>4. BackupJournalled' /\ StagingHeld'
    BY <1>16 DEF Unpublish
  <2> QED  BY <2>1, <2>2, <2>3, <2>4
<1>17. CASE Restore
  <2>1. Unused' /\ Superseded'
    BY <1>17 DEF Restore
  <2>2. Swapping'
    BY <1>17 DEF Restore
  <2>3. Recovering'
    BY <1>17 DEF Restore
  <2>4. BackupJournalled' /\ StagingHeld'
    BY <1>17 DEF Restore
  <2> QED  BY <2>1, <2>2, <2>3, <2>4
<1>18. CASE Unjournal
  <2>1. Unused' /\ Superseded'
    BY <1>18 DEF Unjournal
  <2>2. Swapping'
    BY <1>18 DEF Unjournal
  <2>3. Recovering'
    BY <1>18 DEF Unjournal
  <2>4. BackupJournalled' /\ StagingHeld'
    BY <1>18 DEF Unjournal
  <2> QED  BY <2>1, <2>2, <2>3, <2>4
<1>19. CASE CleanupRaises
  <2>1. Unused' /\ Superseded'
    BY <1>19 DEF CleanupRaises
  <2>2. Swapping'
    BY <1>19 DEF CleanupRaises
  <2>3. Recovering'
    BY <1>19 DEF CleanupRaises
  <2>4. BackupJournalled' /\ StagingHeld'
    BY <1>19 DEF CleanupRaises
  <2> QED  BY <2>1, <2>2, <2>3, <2>4
<1>20. CASE RemoveTree
  BY <1>20 DEF RemoveTree
<1>21. CASE RemoveRow
  BY <1>21 DEF RemoveRow
<1>22. CASE RemoveRaises
  BY <1>22 DEF RemoveRaises
<1>23. ASSUME NEW p \in Process, NEW t \in Txn, RecoverJournal(p, t)
       PROVE  Goal
  BY <1>23 DEF RecoverJournal
<1>24. ASSUME NEW p \in Process, Start(p)
       PROVE  Goal
  BY <1>24 DEF Start
<1>25. ASSUME NEW p \in Process, RecoverAcquire(p)
       PROVE  Goal
  <2>1. Unused' /\ Superseded'
    BY <1>25 DEF RecoverAcquire
  <2>2. Swapping'
    BY <1>25 DEF RecoverAcquire
  <2>3. Recovering'
    BY <1>25 DEF RecoverAcquire
  <2>4. BackupJournalled' /\ StagingHeld'
    BY <1>25 DEF RecoverAcquire
  <2> QED  BY <2>1, <2>2, <2>3, <2>4
<1>26. ASSUME NEW p \in Process, RecoverKeep(p)
       PROVE  Goal
  BY <1>26 DEF RecoverKeep
<1>27. ASSUME NEW p \in Process, RecoverRemove(p)
       PROVE  Goal
  <2>1. Unused' /\ Superseded'
    BY <1>27 DEF RecoverRemove
  <2>2. Swapping'
    BY <1>27 DEF RecoverRemove
  <2>3. Recovering'
    BY <1>27 DEF RecoverRemove
  <2>4. BackupJournalled' /\ StagingHeld'
    BY <1>27 DEF RecoverRemove
  <2> QED  BY <2>1, <2>2, <2>3, <2>4
<1>28. ASSUME NEW p \in Process, RecoverRestore(p)
       PROVE  Goal
  <2>1. Unused' /\ Superseded'
    BY <1>28 DEF RecoverRestore
  <2>2. Swapping'
    BY <1>28 DEF RecoverRestore
  <2>3. Recovering'
    BY <1>28 DEF RecoverRestore
  <2>4. BackupJournalled' /\ StagingHeld'
    BY <1>28 DEF RecoverRestore
  <2> QED  BY <2>1, <2>2, <2>3, <2>4
<1>29. ASSUME NEW p \in Process, RecoverUnlink(p)
       PROVE  Goal
  <2>1. Unused' /\ Superseded'
    BY <1>29 DEF RecoverUnlink
  <2>2. Swapping'
    BY <1>29 DEF RecoverUnlink
  <2>3. Recovering'
    BY <1>29 DEF RecoverUnlink
  <2>4. BackupJournalled' /\ StagingHeld'
    BY <1>29 DEF RecoverUnlink
  <2> QED  BY <2>1, <2>2, <2>3, <2>4
<1>30. ASSUME NEW p \in Process, RecoverDone(p)
       PROVE  Goal
  BY <1>30 DEF RecoverDone
<1>31. ASSUME NEW p \in Process, RecoverRaises(p)
       PROVE  Goal
  BY <1>31 DEF RecoverRaises
<1>32. ASSUME NEW p \in Process, Crash(p)
       PROVE  Goal
  <2>1. Unused' /\ Superseded'
    BY <1>32 DEF Crash
  <2>2. Swapping'
    BY <1>32 DEF Crash
  <2>3. Recovering'
    BY <1>32 DEF Crash
  <2>4. BackupJournalled' /\ StagingHeld'
    BY <1>32 DEF Crash
  <2> QED  BY <2>1, <2>2, <2>3, <2>4
<1>33. CASE Damage
  BY <1>33 DEF Damage
<1>34. CASE UNCHANGED vars
  BY <1>34 DEF vars
<1> QED  BY <1>1, <1>2, <1>3, <1>4, <1>5, <1>6, <1>7, <1>8, <1>9, <1>10,
            <1>11, <1>12, <1>13, <1>14, <1>15, <1>16, <1>17, <1>18, <1>19,
            <1>20, <1>21, <1>22, <1>23, <1>24, <1>25, <1>26, <1>27, <1>28,
            <1>29, <1>30, <1>31, <1>32, <1>33, <1>34
            DEF Next, Sync, Recovery


\* IInv holds in every reachable state.
THEOREM Invariance == Spec => []IInv
<1> QED  BY InitInv, InvStep, PTL DEF Spec

\* Every variable of the swap keeps its type.
THEOREM TypeCorrect == Spec => []TypeOK
<1>1. IInv => TypeOK
  BY DEF IInv
<1> QED  BY <1>1, Invariance, PTL

\* Whatever step a process died in, a directory that was moved aside has the
\* journal that lets a recovery find it.
THEOREM BackupsFound == Spec => []BackupJournalled
<1>1. IInv => BackupJournalled
  BY DEF IInv
<1> QED  BY <1>1, Invariance, PTL

\* A recovery in either process leaves the staging directory of a running sync
\* alone.
THEOREM StagingSafe == Spec => []StagingHeld
<1>1. IInv => StagingHeld
  BY DEF IInv
<1> QED  BY <1>1, Invariance, PTL

----------------------------------------------------------------------------
(* What no step may do. *)

\* The actions that touch the directory, the row or a backup.
LEMMA Movers ==
    ASSUME [Next]_vars
    PROVE  \/ MoveAside \/ Publish \/ CommitRow \/ SweepBackup \/ Unpublish \/ Restore
           \/ RemoveTree \/ RemoveRow \/ Damage
           \/ \E p \in Process : RecoverKeep(p) \/ RecoverRemove(p) \/ RecoverRestore(p)
           \/ UNCHANGED <<final, row, backup>>
<1> DEFINE Still == UNCHANGED <<final, row, backup>>
<1> USE DEF fsVars, txnVars
<1>1. CASE \/ Lease \/ StageRaises \/ AcquireSwap \/ WriteJournal \/ JournalRaises
           \/ SwapRaises \/ LeaveStaging \/ LeaveStagingRaises \/ RecordRaises
           \/ RollBack \/ Unjournal \/ CleanupRaises \/ RemoveRaises
  BY <1>1 DEF Lease, StageRaises, AcquireSwap, WriteJournal, JournalRaises,
              SwapRaises, LeaveStaging, LeaveStagingRaises, RecordRaises,
              RollBack, Unjournal, CleanupRaises, RemoveRaises
<1>2. ASSUME NEW t \in Txn, Begin(t)
      PROVE  Still
  BY <1>2 DEF Begin
<1>3. ASSUME NEW p \in Process,
             \/ Start(p) \/ RecoverAcquire(p) \/ RecoverUnlink(p) \/ RecoverDone(p)
             \/ RecoverRaises(p) \/ Crash(p)
      PROVE  Still
  BY <1>3 DEF Start, RecoverAcquire, RecoverUnlink, RecoverDone, RecoverRaises, Crash
<1>4. ASSUME NEW p \in Process, NEW t \in Txn, RecoverJournal(p, t)
      PROVE  Still
  BY <1>4 DEF RecoverJournal
<1>5. CASE UNCHANGED vars
  BY <1>5 DEF vars
<1> QED  BY <1>1, <1>2, <1>3, <1>4, <1>5 DEF Next, Sync, Recovery

\* A step moves or removes the directory only where it is not the committed
\* version, or as a removal of the version.
LEMMA CommittedStep == IInv /\ [Next]_vars => [KeepsCommitted]_vars
<1> SUFFICES ASSUME IInv, [Next]_vars, Verified PROVE KeepsCommitted
  BY DEF KeepsCommitted
<1> USE DEF KeepsCommitted, Verified, IInv, TypeOK, Swapping, Recovering, Before,
            Placed, fsVars, txnVars, Process, Work, Move, t0
<1>1. CASE MoveAside
  BY <1>1 DEF MoveAside
<1>2. CASE Publish
  BY <1>2 DEF Publish
<1>3. CASE CommitRow
  BY <1>3 DEF CommitRow
<1>4. CASE SweepBackup
  BY <1>4 DEF SweepBackup
<1>5. CASE Unpublish
  BY <1>5 DEF Unpublish
<1>6. CASE Restore
  BY <1>6 DEF Restore
<1>7. CASE RemoveTree
  BY <1>7 DEF RemoveTree
<1>8. CASE RemoveRow
  BY <1>8 DEF RemoveRow
<1>9. CASE Damage
  BY <1>9 DEF Damage
<1>10. ASSUME NEW p \in Process, RecoverKeep(p)
       PROVE  KeepsCommitted
  BY <1>10 DEF RecoverKeep
<1>11. ASSUME NEW p \in Process, RecoverRemove(p)
       PROVE  KeepsCommitted
  BY <1>11 DEF RecoverRemove
<1>12. ASSUME NEW p \in Process, RecoverRestore(p)
       PROVE  KeepsCommitted
  BY <1>12 DEF RecoverRestore
<1>13. CASE UNCHANGED <<final, row, backup>>
  BY <1>13
<1> QED
  BY <1>1, <1>2, <1>3, <1>4, <1>5, <1>6, <1>7, <1>8, <1>9, <1>10, <1>11, <1>12, <1>13,
     Movers

\* A version whose row is committed is moved or removed by no undo, sweep or
\* recovery of this or of another transaction, in either process.
THEOREM CommittedKept == Spec => CommittedStays
<1>1. IInv /\ [Next]_vars => [KeepsCommitted]_vars
  BY CommittedStep
<1> QED  BY <1>1, Invariance, PTL DEF Spec, CommittedStays

\* A step that loses the previous directory before any row is committed is the
\* removal of a recovery.
LEMMA PreviousStep ==
    IInv /\ [Next]_vars =>
        [PreviousLost => \E p \in Process : pc[p] = "undo-final"]_vars
<1> DEFINE Recovers == \E p \in Process : pc[p] \in {"keep-backup", "undo-final"}
           Safe == PreviousHeld' \/ row # "none" \/ Recovers
<1> SUFFICES ASSUME IInv, [Next]_vars, PreviousHeld PROVE Safe
  BY DEF PreviousLost
<1> USE DEF PreviousHeld, IInv, TypeOK, Swapping, Recovering, Placed, Before,
            Verified, fsVars, txnVars, Process, Work, Move, t0
<1>1. CASE MoveAside
  BY <1>1 DEF MoveAside
<1>2. CASE Publish
  BY <1>2 DEF Publish
<1>3. CASE CommitRow
  BY <1>3 DEF CommitRow
<1>4. CASE SweepBackup
  BY <1>4 DEF SweepBackup
<1>5. CASE Unpublish
  BY <1>5 DEF Unpublish
<1>6. CASE Restore
  BY <1>6 DEF Restore
<1>7. CASE RemoveTree
  BY <1>7 DEF RemoveTree
<1>8. CASE RemoveRow
  BY <1>8 DEF RemoveRow
<1>9. CASE Damage
  BY <1>9 DEF Damage
<1>10. ASSUME NEW p \in Process, RecoverKeep(p)
       PROVE  Safe
  BY <1>10 DEF RecoverKeep
<1>11. ASSUME NEW p \in Process, RecoverRemove(p)
       PROVE  Safe
  BY <1>11 DEF RecoverRemove
<1>12. ASSUME NEW p \in Process, RecoverRestore(p)
       PROVE  Safe
  BY <1>12 DEF RecoverRestore
<1>13. CASE UNCHANGED <<final, row, backup>>
  BY <1>13
<1> QED
  BY <1>1, <1>2, <1>3, <1>4, <1>5, <1>6, <1>7, <1>8, <1>9, <1>10, <1>11, <1>12, <1>13,
     Movers

\* No step of a sync, of its undo or of its rollback loses the directory it
\* replaces before its row is committed.
THEOREM PreviousKept == Spec => SyncKeepsPrevious
<1>1. IInv /\ [Next]_vars =>
          [PreviousLost => \E p \in Process : pc[p] = "undo-final"]_vars
  BY PreviousStep
<1> QED  BY <1>1, Invariance, PTL DEF Spec, SyncKeepsPrevious
============================================================================

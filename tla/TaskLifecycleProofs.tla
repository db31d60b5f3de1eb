------------------------ MODULE TaskLifecycleProofs ------------------------
(***************************************************************************)
(* The safety properties of TaskLifecycle for any number of tasks, request *)
(* sessions, update streams and faults.                                    *)
(***************************************************************************)
EXTENDS TaskLifecycle, TLAPS

\* The worker executes a claimed task, which is the only RUNNING one until its
\* row is written.
Busy == {"run", "failing", "helper", "hold", "syncing", "swapped", "sweep",
         "unwind", "unwind-upload", "unwound"}
MediaPcs == {"syncing", "swapped", "sweep", "unwind", "unwind-upload", "unwound"}

Kinded ==
    \A j \in Job :
        /\ "helper" \in owned[j] => Kind[j] = "check" /\ j \in step
        /\ "upload" \in owned[j] => Kind[j] = "upload"
        /\ "swap" \in owned[j] => Kind[j] \in MediaSync
        /\ j \in step => Kind[j] = "check" /\ status[j] = "running"
        /\ "swap" \in owned[j] => status[j] \notin {"absent", "pending"}

Executing ==
    wpc \in Busy =>
        /\ wjob \in Job
        /\ \A k \in Job : status[k] = "running" => k = wjob
        /\ wpc = "sweep" => status[wjob] = "succeeded"
        /\ wpc = "failing" => status[wjob] \in {"running", "succeeded"}
        /\ wpc \notin {"sweep", "failing"} => status[wjob] = "running"
        /\ wpc \in {"helper", "hold"} => Kind[wjob] = "check"
        /\ wpc \in {"run", "failing"} => wjob \notin step
        /\ wpc \in MediaPcs => Kind[wjob] \in MediaSync
        /\ wpc = "unwound" => "upload" \notin owned[wjob]
        /\ wpc \in {"unwind-upload", "unwound"} /\ "swap" \in owned[wjob] => wjob \in gap

Between ==
    /\ wpc \in {"idle", "reconcile"} =>
          \A k \in Job : status[k] = "running" =>
              Kind[k] = "check" \/ request[k] = "cleanup-required"
    /\ wpc \in {"claim", "picked"} => \A k \in Job : status[k] # "running"

Recovering ==
    /\ wpc = "inspect" /\ ready =>
          \A j \in Job : status[j] = "running" /\ Requested(j) /\ "swap" \in owned[j]
                           => j \in gap
    /\ wpc = "settle" =>
          \A j \in Job :
              /\ status[j] # "running" => plan[j] = "keep"
              /\ status[j] = "running" /\ plan[j] = "keep" => Kind[j] = "check"
              /\ plan[j] = "cancel" =>
                    /\ Requested(j)
                    /\ "upload" \notin owned[j] /\ "helper" \notin owned[j]
                    /\ "swap" \in owned[j] => j \in gap
              /\ plan[j] \in {"fail", "resume"} => "helper" \notin owned[j]
              /\ plan[j] = "resume" => "swap" \notin owned[j] /\ j \notin step
              /\ plan[j] = "attention" => Requested(j)

IInv ==
    /\ TypeOK
    /\ Kinded
    /\ Executing
    /\ Between
    /\ Recovering
    /\ AtMostOneRunning
    /\ ConfirmedReleasesOwned
    /\ ReleasedOutsideGap
    /\ OutcomeTruthful

USE KindAssumption, NoJobAssumption, BoundAssumption

----------------------------------------------------------------------------
(* What the two dispositions of task_cancellation write. *)

\* finish_stop writes well-typed rows; it turns exactly one task into a
\* confirmed, cancelled one and clears its running child.
LEMMA FinishStopFacts ==
    ASSUME TypeOK, NEW j \in Job, FinishStop(j)
    PROVE  /\ status' \in [Job -> {"absent"} \cup Active \cup Terminal]
           /\ request' \in [Job -> Outcomes]
           /\ unresolved' \in SUBSET Job
           /\ step' = step \ {j}
           /\ left' \in [Job -> Nat]
           /\ \A k \in Job : /\ status'[k] = IF k = j THEN "cancelled" ELSE status[k]
                             /\ request'[k] = IF k = j THEN "confirmed" ELSE request[k]
BY DEF FinishStop, TypeOK, Active, Terminal, Outcomes

\* finish_pending confirms a reserved queued task after dropping its upload,
\* marks its cleanup as failed, or finds nothing to do.
LEMMA FinishPendingCases ==
    ASSUME TypeOK, NEW j \in Job, FinishPending(j)
    PROVE  \/ /\ status[j] = "pending" /\ FinishStop(j)
              /\ owned' = [owned EXCEPT ![j] = @ \ {"upload"}] /\ faults' = faults
           \/ /\ status[j] = "pending" /\ Requested(j)
              /\ request' = [request EXCEPT ![j] = "cleanup-required"] /\ Fault
              /\ UNCHANGED <<status, unresolved, step, left, owned>>
           \/ UNCHANGED <<rowVars, owned, faults>>
BY DEF FinishPending

----------------------------------------------------------------------------
(* Types. *)

\* What finish_pending writes is well typed.
LEMMA FinishPendingTypes ==
    ASSUME TypeOK, NEW j \in Job, FinishPending(j)
    PROVE  /\ status' \in [Job -> {"absent"} \cup Active \cup Terminal]
           /\ request' \in [Job -> Outcomes]
           /\ unresolved' \in SUBSET Job
           /\ step' \in SUBSET Job
           /\ left' \in [Job -> Nat]
           /\ owned' \in [Job -> SUBSET Resources]
           /\ faults' \in 0..MaxFaults
<1>1. CASE /\ FinishStop(j)
           /\ owned' = [owned EXCEPT ![j] = @ \ {"upload"}] /\ faults' = faults
  <2>1. owned' \in [Job -> SUBSET Resources]
    BY <1>1 DEF TypeOK
  <2>2. step' \in SUBSET Job /\ faults' \in 0..MaxFaults
    BY <1>1, FinishStopFacts DEF TypeOK
  <2> QED  BY <1>1, <2>1, <2>2, FinishStopFacts
<1>2. CASE /\ request' = [request EXCEPT ![j] = "cleanup-required"] /\ Fault
           /\ UNCHANGED <<status, unresolved, step, left, owned>>
  BY <1>2 DEF TypeOK, Fault, Outcomes
<1>3. CASE UNCHANGED <<rowVars, owned, faults>>
  BY <1>3 DEF TypeOK, rowVars
<1> QED  BY <1>1, <1>2, <1>3, FinishPendingCases

\* Startup recovery plans one of its five dispositions for every task.
LEMMA PlanTyped ==
    ASSUME NEW j \in Job, NEW failed
    PROVE  RecoveryPlan(j, failed) \in Plans
BY DEF RecoveryPlan, Plans

\* A session that was answered is as typed as before.
LEMMA AnsweredTypes ==
    ASSUME TypeOK, NEW s \in Session, Answered(s)
    PROVE  /\ rpc' \in [Session -> {"idle", "read", "reserved"}]
           /\ rjob' \in [Session -> Job \cup {NoJob}]
           /\ \A t \in Session : rpc'[t] # "idle" => rjob'[t] \in Job
           /\ rsnap' \in [Session -> {"absent"} \cup Active \cup Terminal]
BY DEF TypeOK, Answered

\* Every step keeps every variable in its range.
LEMMA TypeStep ==
    ASSUME TypeOK, [Next]_vars
    PROVE  TypeOK'
<1> USE DEF TypeOK, rowVars, recVars, sessVars, Restful, At, Return, Goto, Fault,
            Active, Terminal, Outcomes, Resources, Plans, WorkerPcs, Requested, Settled
<1>1. ASSUME NEW j \in Job, Enqueue(j)
      PROVE  TypeOK'
  BY <1>1 DEF Enqueue
<1>2. ASSUME NEW s \in Session, NEW j \in Job, RequestRead(s, j)
      PROVE  TypeOK'
  BY <1>2 DEF RequestRead, Capability
<1>3. ASSUME NEW s \in Session, RequestAccept(s)
      PROVE  TypeOK'
  <2>1. request' \in [Job -> Outcomes]
    BY <1>3 DEF RequestAccept
  <2>2. /\ rpc' \in [Session -> {"idle", "read", "reserved"}]
        /\ rjob' \in [Session -> Job \cup {NoJob}]
        /\ \A t \in Session : rpc'[t] # "idle" => rjob'[t] \in Job
        /\ rsnap' \in [Session -> {"absent"} \cup Active \cup Terminal]
    <3>1. CASE /\ rpc' = [rpc EXCEPT ![s] = "reserved"]
               /\ UNCHANGED <<rjob, rsnap>>
      BY <1>3, <3>1 DEF RequestAccept
    <3>2. CASE Answered(s)  BY <3>2, AnsweredTypes
    <3> QED  BY <1>3, <3>1, <3>2 DEF RequestAccept
  <2>3. gap' \in SUBSET Job
    BY <1>3 DEF RequestAccept
  <2>4. UNCHANGED <<status, unresolved, step, left, owned, created, wpc, wjob,
                    saw, recVars, todo, faults>>
    BY <1>3 DEF RequestAccept
  <2> QED  BY <2>1, <2>2, <2>3, <2>4
<1>4. ASSUME NEW s \in Session, RequestEnds(s)
      PROVE  TypeOK'
  BY <1>4, AnsweredTypes DEF RequestEnds
<1>5. ASSUME NEW s \in Session, RequestFinish(s)
      PROVE  TypeOK'
  <2>1. rjob[s] \in Job /\ FinishPending(rjob[s])
    BY <1>5 DEF RequestFinish
  <2>2. /\ status' \in [Job -> {"absent"} \cup Active \cup Terminal]
        /\ request' \in [Job -> Outcomes]
        /\ unresolved' \in SUBSET Job
        /\ step' \in SUBSET Job
        /\ left' \in [Job -> Nat]
        /\ owned' \in [Job -> SUBSET Resources]
        /\ faults' \in 0..MaxFaults
    BY <2>1, FinishPendingTypes
  <2>3. /\ rpc' \in [Session -> {"idle", "read", "reserved"}]
        /\ rjob' \in [Session -> Job \cup {NoJob}]
        /\ \A t \in Session : rpc'[t] # "idle" => rjob'[t] \in Job
        /\ rsnap' \in [Session -> {"absent"} \cup Active \cup Terminal]
    BY <1>5, AnsweredTypes DEF RequestFinish
  <2>4. UNCHANGED <<created, wpc, wjob, saw, recVars, todo, gap>>
    BY <1>5 DEF RequestFinish
  <2> QED  BY <2>2, <2>3, <2>4
<1>6. ASSUME StartPass
      PROVE  TypeOK'
  BY <1>6 DEF StartPass
<1>7. ASSUME NEW j \in Job, ReconcileOne(j)
      PROVE  TypeOK'
  <2>1. /\ status' \in [Job -> {"absent"} \cup Active \cup Terminal]
        /\ request' \in [Job -> Outcomes]
        /\ unresolved' \in SUBSET Job
        /\ step' \in SUBSET Job
        /\ left' \in [Job -> Nat]
        /\ owned' \in [Job -> SUBSET Resources]
        /\ faults' \in 0..MaxFaults
    <3>1. CASE SettleTerminal(j)  BY <3>1 DEF SettleTerminal
    <3>2. CASE FinishPending(j)  BY <3>2, FinishPendingTypes
    <3> QED  BY <1>7, <3>1, <3>2 DEF ReconcileOne
  <2>2. todo' \in SUBSET Job
    BY <1>7 DEF ReconcileOne
  <2>3. UNCHANGED <<created, wpc, wjob, saw, recVars, sessVars, gap>>
    BY <1>7 DEF ReconcileOne
  <2> QED  BY <2>1, <2>2, <2>3
<1>8. ASSUME Admit
      PROVE  TypeOK'
  <2>1. CASE AdmissionBlocked
    BY <1>8, <2>1 DEF Admit, AdmissionBlocked
  <2>2. CASE ~AdmissionBlocked
    BY <1>8, <2>2 DEF Admit, AdmissionBlocked
  <2> QED  BY <1>8, <2>1, <2>2 DEF Admit, AdmissionBlocked
<1>9. ASSUME ClaimPick
      PROVE  TypeOK'
  <2>1. CASE Claimable = {} /\ wpc' = "idle"
    BY <1>9, <2>1 DEF ClaimPick, Claimable
  <2>2. CASE wpc' = "picked"
    BY <1>9, <2>2 DEF ClaimPick, Claimable
  <2> QED  BY <1>9, <2>1, <2>2 DEF ClaimPick, Claimable
<1>10. ASSUME ClaimCommit
      PROVE  TypeOK'
  <2>1. CASE wjob \in Claimable
    BY <1>10, <2>1 DEF ClaimCommit, Claimable
  <2>2. CASE wjob \notin Claimable
    BY <1>10, <2>2 DEF ClaimCommit, Claimable
  <2> QED  BY <1>10, <2>1, <2>2 DEF ClaimCommit, Claimable
<1>11. ASSUME NEW j \in Job, OpaqueDone(j)
      PROVE  TypeOK'
  BY <1>11 DEF OpaqueDone
<1>12. ASSUME NEW j \in Job, VerifyDone(j)
      PROVE  TypeOK'
  <2>1. CASE Requested(j)
    <3>1. FinishStop(j) /\ wpc' = "idle" /\ wjob' = NoJob
        BY <1>12, <2>1 DEF VerifyDone
    <3> QED  BY <1>12, <3>1, FinishStopFacts DEF VerifyDone
  <2>2. CASE ~Requested(j)
    BY <1>12, <2>2 DEF VerifyDone
  <2> QED  BY <2>1, <2>2
<1>13. ASSUME NEW j \in Job, RunRaises(j)
      PROVE  TypeOK'
  BY <1>13 DEF RunRaises
<1>14. ASSUME NEW j \in Job, FailJob(j)
      PROVE  TypeOK'
  <2>1. status' \in [Job -> {"absent"} \cup Active \cup Terminal]
    <3>1. status' = [status EXCEPT ![j] = "failed"] \/ status' = status
        BY <1>14 DEF FailJob
    <3> QED  BY <3>1
  <2>2. step' \in SUBSET Job
    BY <1>14 DEF FailJob
  <2>3. left' \in [Job -> Nat]
    BY <1>14 DEF FailJob
  <2> QED  BY <1>14, <2>1, <2>2, <2>3 DEF FailJob
<1>15. ASSUME NEW j \in Job, CheckCancel(j)
      PROVE  TypeOK'
  BY <1>15 DEF CheckCancel, FinishStop
<1>16. ASSUME NEW j \in Job, CheckStep(j)
      PROVE  TypeOK'
  BY <1>16 DEF CheckStep
<1>17. ASSUME NEW j \in Job, HelperReturns(j)
      PROVE  TypeOK'
  BY <1>17 DEF HelperReturns
<1>18. ASSUME NEW j \in Job, HelperBusy(j)
      PROVE  TypeOK'
  BY <1>18 DEF HelperBusy
<1>19. ASSUME NEW j \in Job, HelperTimeout(j)
      PROVE  TypeOK'
  BY <1>19 DEF HelperTimeout
<1>20. ASSUME NEW j \in Job, HoldOwnership(j)
      PROVE  TypeOK'
  <2>1. CASE saw
    BY <1>20, <2>1 DEF HoldOwnership
  <2>2. CASE ~saw
    BY <1>20, <2>2 DEF HoldOwnership
  <2> QED  BY <1>20, <2>1, <2>2 DEF HoldOwnership
<1>21. ASSUME NEW j \in Job, CheckDone(j)
      PROVE  TypeOK'
  BY <1>21 DEF CheckDone
<1>22. ASSUME NEW j \in Job, SyncStart(j)
      PROVE  TypeOK'
  BY <1>22 DEF SyncStart
<1>23. ASSUME NEW j \in Job, SyncRaises(j)
      PROVE  TypeOK'
  BY <1>23 DEF SyncRaises
<1>24. ASSUME NEW j \in Job, SyncRaisesDirty(j)
      PROVE  TypeOK'
  BY <1>24 DEF SyncRaisesDirty
<1>25. ASSUME NEW j \in Job, SyncReturns(j)
      PROVE  TypeOK'
  BY <1>25 DEF SyncReturns
<1>26. ASSUME NEW j \in Job, MediaCommit(j)
      PROVE  TypeOK'
  <2>1. CASE wpc' = "sweep"
    BY <1>26, <2>1 DEF MediaCommit
  <2>2. CASE wpc' = "unwind"
    BY <1>26, <2>2 DEF MediaCommit
  <2> QED  BY <1>26, <2>1, <2>2 DEF MediaCommit
<1>27. ASSUME NEW j \in Job, Sweep(j)
      PROVE  TypeOK'
  <2>1. CASE owned' = owned
    BY <1>27, <2>1 DEF Sweep
  <2>2. CASE owned' = [owned EXCEPT ![j] = @ \ {"swap"}] /\ faults' = faults
    BY <1>27, <2>2 DEF Sweep
  <2> QED  BY <1>27, <2>1, <2>2 DEF Sweep
<1>28. ASSUME NEW j \in Job, Unwind(j)
      PROVE  TypeOK'
  <2>1. owned' \in [Job -> SUBSET Resources]
    <3>1. CASE owned' = [owned EXCEPT ![j] = {}]  BY <3>1
    <3>2. CASE owned' = [owned EXCEPT ![j] = @ \ {"upload"}]  BY <3>2
    <3> QED  BY <1>28, <3>1, <3>2 DEF Unwind
  <2> QED  BY <1>28, <2>1 DEF Unwind
<1>29. ASSUME NEW j \in Job, UnwindFails(j)
      PROVE  TypeOK'
  <2>1. CASE Requested(j)
    BY <1>29, <2>1 DEF UnwindFails
  <2>2. CASE ~Requested(j)
    BY <1>29, <2>2 DEF UnwindFails
  <2> QED  BY <1>29, <2>1, <2>2 DEF UnwindFails
<1>30. ASSUME NEW j \in Job, Unwound(j)
      PROVE  TypeOK'
  <2>1. CASE Requested(j)
    <3>1. FinishStop(j) /\ wpc' = "idle" /\ wjob' = NoJob
        BY <1>30, <2>1 DEF Unwound
    <3> QED  BY <1>30, <3>1, FinishStopFacts DEF Unwound
  <2>2. CASE ~Requested(j)
    BY <1>30, <2>2 DEF Unwound
  <2> QED  BY <2>1, <2>2
<1>31. ASSUME Crash
      PROVE  TypeOK'
  <2>1. faults' \in 0..MaxFaults
    BY <1>31 DEF Crash
  <2>2. wpc' = "down" /\ wjob' = NoJob /\ saw' = FALSE /\ todo' = {}
    BY <1>31 DEF Crash
  <2>3. UNCHANGED <<rowVars, owned, created, recVars, sessVars, gap>>
    BY <1>31 DEF Crash
  <2> QED  BY <2>1, <2>2, <2>3
<1>32. ASSUME Start
      PROVE  TypeOK'
  BY <1>32 DEF Start
<1>33. ASSUME RecoverMedia
      PROVE  TypeOK'
  BY <1>33 DEF RecoverMedia
<1>34. ASSUME RecoverInspect
      PROVE  TypeOK'
  <2>1. plan' \in [Job -> Plans]
    BY <1>34, PlanTyped DEF RecoverInspect
  <2>2. owned' \in [Job -> SUBSET Resources]
    BY <1>34 DEF RecoverInspect
  <2>3. wpc' \in WorkerPcs
    BY <1>34 DEF RecoverInspect
  <2>4. faults' \in 0..MaxFaults
    BY <1>34 DEF RecoverInspect
  <2>5. UNCHANGED <<rowVars, created, wjob, saw, ready, todo, sessVars, gap>>
    BY <1>34 DEF RecoverInspect
  <2> QED  BY <2>1, <2>2, <2>3, <2>4, <2>5
<1>35. ASSUME RecoverCommit
      PROVE  TypeOK'
  BY <1>35 DEF RecoverCommit
<1>36. ASSUME UNCHANGED vars
      PROVE  TypeOK'
  BY <1>36 DEF vars
<1> QED
  BY <1>1, <1>2, <1>3, <1>4, <1>5, <1>6, <1>7, <1>8, <1>9, <1>10,
     <1>11, <1>12, <1>13, <1>14, <1>15, <1>16, <1>17, <1>18, <1>19,
     <1>20, <1>21, <1>22, <1>23, <1>24, <1>25, <1>26, <1>27, <1>28,
     <1>29, <1>30, <1>31, <1>32, <1>33, <1>34, <1>35, <1>36
  DEF Next, Worker, Loop, Recover, Execute, Web

----------------------------------------------------------------------------
(* The inductive step. *)

\* A stop confirmed by the executing handler, after which the loop is idle.
LEMMA StopStep ==
    ASSUME IInv, TypeOK', NEW j \in Job, FinishStop(j),
           wpc \in Busy, wjob = j, wpc' = "idle",
           UNCHANGED <<owned, ready, plan, gap>>,
           "upload" \notin owned[j], "helper" \notin owned[j],
           "swap" \in owned[j] => j \in gap
    PROVE  IInv'
<1>1. /\ \A k \in Job : /\ status'[k] = IF k = j THEN "cancelled" ELSE status[k]
                        /\ request'[k] = IF k = j THEN "confirmed" ELSE request[k]
      /\ step' = step \ {j}
  BY FinishStopFacts DEF IInv
<1>2. Kinded'
  BY <1>1 DEF IInv, Kinded
<1>3. Executing'
  BY DEF Executing, Busy
<1>4. Between'
  BY <1>1 DEF IInv, Between, Executing, Busy
<1>5. Recovering'
  BY DEF Recovering
<1>6. AtMostOneRunning'
  BY <1>1 DEF IInv, AtMostOneRunning
<1>7. ConfirmedReleasesOwned'
  BY <1>1 DEF IInv, ConfirmedReleasesOwned
<1>8. ReleasedOutsideGap'
  BY <1>1 DEF IInv, ReleasedOutsideGap
<1>9. OutcomeTruthful'
  BY <1>1 DEF IInv, OutcomeTruthful
<1> QED  BY <1>2, <1>3, <1>4, <1>5, <1>6, <1>7, <1>8, <1>9 DEF IInv

\* finish_pending, run by a request session or by a reconciliation pass.
LEMMA PendingStep ==
    ASSUME IInv, TypeOK', NEW j \in Job, FinishPending(j),
           UNCHANGED <<wpc, wjob, ready, plan, gap>>
    PROVE  IInv'
<1>1. CASE /\ status[j] = "pending" /\ FinishStop(j)
           /\ owned' = [owned EXCEPT ![j] = @ \ {"upload"}]
  <2>1. /\ \A k \in Job : /\ status'[k] = IF k = j THEN "cancelled" ELSE status[k]
                          /\ request'[k] = IF k = j THEN "confirmed" ELSE request[k]
        /\ step' = step \ {j}
    BY <1>1, FinishStopFacts DEF IInv
  <2>2. \A k \in Job : owned'[k] = IF k = j THEN owned[k] \ {"upload"} ELSE owned[k]
    BY <1>1 DEF IInv, TypeOK
  <2>3. Kinded'
    BY <1>1, <2>1, <2>2 DEF IInv, Kinded
  <2>4. Executing'
    BY <1>1, <2>1, <2>2 DEF IInv, Executing, Busy
  <2>5. Between'
    BY <1>1, <2>1 DEF IInv, Between
  <2>6. Recovering'
    BY <1>1, <2>1, <2>2 DEF IInv, Recovering, Requested
  <2>7. AtMostOneRunning'
    BY <2>1 DEF IInv, AtMostOneRunning
  <2>8. ConfirmedReleasesOwned'
    BY <1>1, <2>1, <2>2 DEF IInv, ConfirmedReleasesOwned, Kinded
  <2>9. ReleasedOutsideGap'
    BY <1>1, <2>1, <2>2 DEF IInv, ReleasedOutsideGap, Kinded
  <2>10. OutcomeTruthful'
    BY <2>1 DEF IInv, OutcomeTruthful
  <2> QED  BY <2>3, <2>4, <2>5, <2>6, <2>7, <2>8, <2>9, <2>10 DEF IInv
<1>2. CASE /\ status[j] = "pending" /\ Requested(j)
           /\ request' = [request EXCEPT ![j] = "cleanup-required"]
           /\ UNCHANGED <<status, unresolved, step, left, owned>>
  <2>1. \A k \in Job : request'[k] = IF k = j THEN "cleanup-required" ELSE request[k]
    BY <1>2 DEF IInv, TypeOK
  <2>2. Kinded' /\ Executing' /\ AtMostOneRunning' /\ ConfirmedReleasesOwned'
        /\ ReleasedOutsideGap'
    BY <1>2 DEF IInv, Kinded, Executing, AtMostOneRunning, ConfirmedReleasesOwned,
                ReleasedOutsideGap
  <2>3. Between'
    BY <1>2, <2>1 DEF IInv, Between
  <2>4. Recovering'
    BY <1>2, <2>1 DEF IInv, Recovering, Requested
  <2>5. OutcomeTruthful'
    BY <1>2, <2>1 DEF IInv, OutcomeTruthful
  <2> QED  BY <2>2, <2>3, <2>4, <2>5 DEF IInv
<1>3. CASE UNCHANGED <<rowVars, owned, faults>>
  BY <1>3 DEF IInv, rowVars, Kinded, Executing, AtMostOneRunning,
              ConfirmedReleasesOwned, ReleasedOutsideGap, Between, Recovering,
              OutcomeTruthful, Requested
<1> QED  BY <1>1, <1>2, <1>3, FinishPendingCases DEF IInv

\* The executing handler's own result, after which the loop is idle.
LEMMA ResultStep ==
    ASSUME IInv, NEW j \in Job, NEW result \in {"succeeded", "failed"},
           status' = [status EXCEPT ![j] = result], step' = step \ {j},
           wpc \in {"run", "failing"}, wjob = j, wpc' = "idle", status[j] = "running",
           request[j] # "cleanup-required" \/ result = "failed",
           UNCHANGED <<request, owned, ready, plan, gap>>, TypeOK'
    PROVE  IInv'
<1>1. /\ \A k \in Job : status'[k] = IF k = j THEN result ELSE status[k]
      /\ status[j] = "running" /\ j \notin step
      /\ \A k \in Job : status[k] = "running" => k = j
  BY DEF IInv, TypeOK, Executing, Busy
<1>2. Kinded'
  BY <1>1 DEF IInv, Kinded
<1>3. Executing'
  BY DEF Executing, Busy
<1>4. Between'
  BY <1>1 DEF Between
<1>5. Recovering'
  BY DEF Recovering
<1>6. AtMostOneRunning'
  BY <1>1 DEF AtMostOneRunning
<1>7. ConfirmedReleasesOwned' /\ ReleasedOutsideGap'
  BY <1>1 DEF IInv, ConfirmedReleasesOwned, ReleasedOutsideGap
<1>8. OutcomeTruthful'
  BY <1>1 DEF IInv, OutcomeTruthful
<1> QED  BY <1>2, <1>3, <1>4, <1>5, <1>6, <1>7, <1>8 DEF IInv

\* media_cleanup_ready is only left set when, at the first read, no RUNNING
\* media task asked to stop keeps any swap evidence.
LEMMA MediaProof ==
    ASSUME RecoverMedia, ready', NEW k \in Job, status[k] = "running", Requested(k),
           Kind[k] \in MediaTypes
    PROVE  "swap" \notin owned'[k]
<1>1. PICK stuck \in SUBSET {j \in Job : "swap" \in owned[j]} :
         /\ owned' = [j \in Job |-> IF j \in stuck THEN owned[j] ELSE owned[j] \ {"swap"}]
         /\ ready' = ~((\E j \in Job : /\ Kind[j] \in MediaTypes /\ status[j] = "running"
                                       /\ Requested(j))
                       /\ stuck # {})
  BY Zenon DEF RecoverMedia
<1>2. stuck = {}
  BY <1>1, Zenon
<1> QED  BY <1>1, <1>2

\* The effects of startup recovery: what it plans for a RUNNING task matches
\* what it has released by then.
LEMMA InspectStep ==
    ASSUME IInv, RecoverInspect
    PROVE  Recovering' /\ (\A k \in Job : owned'[k] \subseteq owned[k])
<1>1. /\ wpc = "inspect" /\ wpc' \in {"settle", "down"}
      /\ UNCHANGED <<status, request, step, gap, ready>>
  BY DEF RecoverInspect, Goto, rowVars
<1>2. PICK failed \in SUBSET {i \in {k \in Job : status[k] = "running"} : RecoveryReleases(i) # {}} :
         /\ owned' = [k \in Job |-> IF k \in {i \in Job : status[i] = "running"} \ failed
                                    THEN owned[k] \ RecoveryReleases(k) ELSE owned[k]]
         /\ wpc' = "settle" => plan' = [k \in Job |-> RecoveryPlan(k, k \in failed)]
  BY DEF RecoverInspect, Goto
<1>3. \A k \in Job : owned'[k] \subseteq owned[k]
  BY <1>2
<1>4. CASE wpc' = "down"
  BY <1>3, <1>4 DEF Recovering
<1>5. CASE wpc' = "settle"
  <2>1. ASSUME NEW k \in Job
        PROVE  plan'[k] = RecoveryPlan(k, k \in failed)
    BY <1>2, <1>5
  <2>2. ASSUME NEW k \in Job, status[k] = "running", k \notin failed
        PROVE  owned'[k] = owned[k] \ RecoveryReleases(k)
    BY <1>2, <2>2
  <2>3. ASSUME NEW k \in Job, status[k] # "running"
        PROVE  plan'[k] = "keep"
    BY <2>1, <2>3 DEF RecoveryPlan
  <2>4. ASSUME NEW k \in Job, status[k] = "running", plan'[k] = "keep"
        PROVE  Kind[k] = "check"
    BY <2>1, <2>4 DEF RecoveryPlan
  <2>5. ASSUME NEW k \in Job, plan'[k] = "attention"
        PROVE  Requested(k)
    BY <2>1, <2>5 DEF RecoveryPlan
  <2>6. ASSUME NEW k \in Job, plan'[k] = "cancel"
        PROVE  /\ Requested(k)
               /\ "upload" \notin owned'[k] /\ "helper" \notin owned'[k]
               /\ "swap" \in owned'[k] => k \in gap
    <3>1. /\ status[k] = "running" /\ Requested(k) /\ k \notin failed
          /\ Kind[k] = "check" \/ (Kind[k] \in MediaTypes /\ ready)
      BY <2>1, <2>6, SMTT(20) DEF RecoveryPlan
    <3>2. owned'[k] = owned[k] \ RecoveryReleases(k)
      BY <3>1, <2>2
    <3>3. CASE Kind[k] = "check"
      BY <3>1, <3>2, <3>3 DEF RecoveryReleases, IInv, Kinded, MediaSync, MediaTypes
    <3>4. CASE Kind[k] \in MediaTypes /\ ready
      <4>1. "upload" \notin owned'[k]
        BY <3>2, <3>4, <3>1 DEF RecoveryReleases, MediaTypes
      <4>2. "helper" \notin owned'[k]
        BY <1>3, <3>4 DEF IInv, Kinded, MediaTypes
      <4>3. "swap" \in owned'[k] => k \in gap
        BY <1>1, <1>3, <3>1, <3>4 DEF IInv, Recovering
      <4> QED  BY <3>1, <4>1, <4>2, <4>3
    <3> QED  BY <3>1, <3>3, <3>4
  <2>7. ASSUME NEW k \in Job, plan'[k] \in {"fail", "resume"}
        PROVE  "helper" \notin owned'[k]
    <3>1. status[k] = "running" /\ (Kind[k] = "check" /\ k \in step => ~Requested(k) /\ k \notin failed)
      BY <2>1, <2>7 DEF RecoveryPlan
    <3>2. CASE Kind[k] = "check" /\ k \in step
      BY <2>2, <3>1, <3>2 DEF RecoveryReleases, MediaTypes
    <3>3. CASE ~(Kind[k] = "check" /\ k \in step)
      BY <1>3, <3>3 DEF IInv, Kinded
    <3> QED  BY <3>2, <3>3
  <2>8. ASSUME NEW k \in Job, plan'[k] = "resume"
        PROVE  "swap" \notin owned'[k] /\ k \notin step
    <3>1. Kind[k] = "check" /\ k \notin step
      BY <2>1, <2>8 DEF RecoveryPlan
    <3> QED  BY <1>3, <3>1 DEF IInv, Kinded, MediaSync
  <2> QED  BY <1>1, <1>3, <1>5, <2>3, <2>4, <2>5, <2>6, <2>7, <2>8
           DEF Recovering, Requested
<1> QED  BY <1>1, <1>4, <1>5

\* The commit of startup recovery.
LEMMA CommitStep ==
    ASSUME IInv, TypeOK', RecoverCommit
    PROVE  IInv'
<1>1. wpc = "settle" /\ wpc' = "idle" /\ UNCHANGED <<owned, gap>>
  BY DEF RecoverCommit, Goto
<1>2. ASSUME NEW k \in Job
      PROVE  /\ plan[k] = "cancel" => status'[k] = "cancelled" /\ request'[k] = "confirmed"
             /\ plan[k] = "fail" => status'[k] = "failed" /\ request'[k] = request[k]
             /\ plan[k] = "resume" => status'[k] = "pending" /\ request'[k] = request[k]
             /\ plan[k] = "attention" => status'[k] = status[k]
                                         /\ request'[k] = "cleanup-required"
             /\ plan[k] = "keep" => status'[k] = status[k] /\ request'[k] = request[k]
             /\ k \in step' <=> k \in step /\ plan[k] \notin {"cancel", "fail"}
  BY DEF RecoverCommit
<1>3. ASSUME NEW k \in Job
      PROVE  plan[k] \in {"keep", "cancel", "attention", "fail", "resume"}
  BY DEF IInv, TypeOK, Plans
<1>4. ASSUME NEW k \in Job
      PROVE  /\ status[k] # "running" => plan[k] = "keep"
             /\ status[k] = "running" /\ plan[k] = "keep" => Kind[k] = "check"
             /\ plan[k] = "cancel" => /\ "upload" \notin owned[k] /\ "helper" \notin owned[k]
                                      /\ "swap" \in owned[k] => k \in gap
             /\ plan[k] \in {"fail", "resume"} => "helper" \notin owned[k]
             /\ plan[k] = "resume" => "swap" \notin owned[k] /\ k \notin step
  BY <1>1 DEF IInv, Recovering
<1>5. Kinded'
  BY <1>1, <1>2, <1>3, <1>4 DEF IInv, Kinded
<1>6. Executing' /\ Recovering'
  BY <1>1 DEF Executing, Recovering, Busy
<1>7. Between'
  BY <1>1, <1>2, <1>3, <1>4 DEF Between
<1>8. AtMostOneRunning'
  <2>1. ASSUME NEW k \in Job, status'[k] = "running"
        PROVE  status[k] = "running"
    BY <1>2, <1>3, <2>1
  <2> QED  BY <2>1 DEF IInv, AtMostOneRunning
<1>9. ConfirmedReleasesOwned'
  BY <1>1, <1>2, <1>3, <1>4 DEF IInv, ConfirmedReleasesOwned
<1>10. ReleasedOutsideGap'
  BY <1>1, <1>2, <1>3, <1>4 DEF IInv, ReleasedOutsideGap
<1>11. OutcomeTruthful'
  <2>1. ASSUME NEW k \in Job
        PROVE  /\ request'[k] = "confirmed" => status'[k] = "cancelled"
               /\ request'[k] = "completion-won" => status'[k] \in {"succeeded", "failed"}
               /\ status'[k] = "cancelled" => request'[k] = "confirmed"
    BY <1>2, <1>3, <1>4 DEF IInv, OutcomeTruthful
  <2> QED  BY <2>1 DEF OutcomeTruthful
<1> QED  BY <1>5, <1>6, <1>7, <1>8, <1>9, <1>10, <1>11 DEF IInv

\* Every step preserves the inductive invariant.
LEMMA InvStep ==
    ASSUME IInv, [Next]_vars
    PROVE  IInv'
<1> USE DEF IInv, Kinded, Executing, Between, Recovering, AtMostOneRunning,
            ConfirmedReleasesOwned, ReleasedOutsideGap, OutcomeTruthful, Busy,
            MediaPcs, MediaSync, MediaTypes, Kinds, TypeOK,
            rowVars, recVars, sessVars, Restful, At, Return, Goto, Fault,
            Active, Terminal, Outcomes, Resources, Plans, WorkerPcs, Requested, Settled
<1> TypeOK'
  BY TypeStep
<1>1. ASSUME NEW j \in Job, Enqueue(j)
      PROVE  IInv'
  BY <1>1 DEF Enqueue
<1>2. ASSUME NEW s \in Session, NEW j \in Job, RequestRead(s, j)
      PROVE  IInv'
  BY <1>2 DEF RequestRead, Capability
<1>3. ASSUME NEW s \in Session, RequestAccept(s)
      PROVE  IInv'
  BY <1>3 DEF RequestAccept, RowUnchanged
<1>4. ASSUME NEW s \in Session, RequestEnds(s)
      PROVE  IInv'
  BY <1>4 DEF RequestEnds
<1>5. ASSUME NEW s \in Session, RequestFinish(s)
      PROVE  IInv'
  BY <1>5, PendingStep DEF RequestFinish
<1>6. ASSUME StartPass
      PROVE  IInv'
  BY <1>6 DEF StartPass
<1>7. ASSUME NEW j \in Job, ReconcileOne(j)
      PROVE  IInv'
  <2>1. CASE SettleTerminal(j)
    <3>1. /\ UNCHANGED <<status, step, owned, wpc, wjob, ready, plan, gap>>
          /\ \A k \in Job : request'[k] = IF k # j THEN request[k]
                                         ELSE IF status[j] = "cancelled" THEN "confirmed"
                                         ELSE "completion-won"
          /\ status[j] \in Terminal
      BY <1>7, <2>1 DEF ReconcileOne, SettleTerminal
    <3>2. Kinded'
      BY <3>1
    <3>3. Executing'
      BY <3>1
    <3>4. Between'
      BY <3>1
    <3>5. Recovering'
      BY <3>1
    <3>6. AtMostOneRunning'
      BY <3>1
    <3>7. ConfirmedReleasesOwned'
      BY <3>1
    <3>8. ReleasedOutsideGap'
      BY <3>1
    <3>9. OutcomeTruthful'
      BY <3>1
    <3> QED  BY <3>2, <3>3, <3>4, <3>5, <3>6, <3>7, <3>8, <3>9
  <2>2. CASE FinishPending(j)
    BY <1>7, <2>2, PendingStep DEF ReconcileOne
  <2> QED  BY <1>7, <2>1, <2>2 DEF ReconcileOne
<1>8. ASSUME Admit
      PROVE  IInv'
  <2>1. CASE AdmissionBlocked
    BY <1>8, <2>1 DEF Admit, AdmissionBlocked
  <2>2. CASE ~AdmissionBlocked
    BY <1>8, <2>2 DEF Admit, AdmissionBlocked
  <2> QED  BY <1>8, <2>1, <2>2 DEF Admit, AdmissionBlocked
<1>9. ASSUME ClaimPick
      PROVE  IInv'
  <2>1. CASE Claimable = {} /\ wpc' = "idle"
    BY <1>9, <2>1 DEF ClaimPick, Claimable
  <2>2. CASE wpc' = "picked"
    BY <1>9, <2>2 DEF ClaimPick, Claimable
  <2> QED  BY <1>9, <2>1, <2>2 DEF ClaimPick, Claimable
<1>10. ASSUME ClaimCommit
      PROVE  IInv'
  <2>1. CASE wjob \in Claimable
    BY <1>10, <2>1 DEF ClaimCommit, Claimable
  <2>2. CASE wjob \notin Claimable
    BY <1>10, <2>2 DEF ClaimCommit, Claimable
  <2> QED  BY <1>10, <2>1, <2>2 DEF ClaimCommit, Claimable
<1>11. ASSUME NEW j \in Job, OpaqueDone(j)
      PROVE  IInv'
  BY <1>11 DEF OpaqueDone
<1>12. ASSUME NEW j \in Job, VerifyDone(j)
      PROVE  IInv'
  <2>1. CASE Requested(j)
    <3>1. FinishStop(j) /\ At("run", j) /\ Return /\ UNCHANGED <<owned, Restful, gap>>
      BY <1>12, <2>1 DEF VerifyDone
    <3>2. /\ "upload" \notin owned[j] /\ "helper" \notin owned[j]
          /\ "swap" \in owned[j] => j \in gap
      BY <1>12, <3>1 DEF VerifyDone
    <3> QED  BY <3>1, <3>2, StopStep
  <2>2. CASE ~Requested(j)
    <3>1. /\ At("run", j) /\ Return /\ UNCHANGED <<owned, request, step, Restful, gap>>
          /\ status' = [status EXCEPT ![j] = "succeeded"]
      BY <1>12, <2>2 DEF VerifyDone
    <3>2. step' = step \ {j} /\ request[j] # "cleanup-required"
      BY <2>2, <3>1
    <3> QED  BY <3>1, <3>2, ResultStep
  <2> QED  BY <2>1, <2>2
<1>13. ASSUME NEW j \in Job, RunRaises(j)
      PROVE  IInv'
  BY <1>13 DEF RunRaises
<1>14. ASSUME NEW j \in Job, FailJob(j)
      PROVE  IInv'
  <2>1. CASE status[j] \in Active /\ request[j] # "cleanup-required"
    <3>1. /\ At("failing", j) /\ Return /\ UNCHANGED <<owned, request, Restful, gap>>
          /\ status' = [status EXCEPT ![j] = "failed"] /\ step' = step \ {j}
      BY <1>14, <2>1 DEF FailJob
    <3>2. status[j] = "running"
      BY <2>1, <3>1
    <3> QED  BY <2>1, <3>1, <3>2, ResultStep
  <2>2. CASE ~(status[j] \in Active /\ request[j] # "cleanup-required")
    BY <1>14, <2>2 DEF FailJob
  <2> QED  BY <2>1, <2>2
<1>15. ASSUME NEW j \in Job, CheckCancel(j)
      PROVE  IInv'
  BY <1>15 DEF CheckCancel, FinishStop
<1>16. ASSUME NEW j \in Job, CheckStep(j)
      PROVE  IInv'
  BY <1>16 DEF CheckStep
<1>17. ASSUME NEW j \in Job, HelperReturns(j)
      PROVE  IInv'
  BY <1>17 DEF HelperReturns
<1>18. ASSUME NEW j \in Job, HelperBusy(j)
      PROVE  IInv'
  BY <1>18 DEF HelperBusy
<1>19. ASSUME NEW j \in Job, HelperTimeout(j)
      PROVE  IInv'
  BY <1>19 DEF HelperTimeout
<1>20. ASSUME NEW j \in Job, HoldOwnership(j)
      PROVE  IInv'
  <2>1. CASE saw
    BY <1>20, <2>1 DEF HoldOwnership
  <2>2. CASE ~saw
    BY <1>20, <2>2 DEF HoldOwnership
  <2> QED  BY <1>20, <2>1, <2>2 DEF HoldOwnership
<1>21. ASSUME NEW j \in Job, CheckDone(j)
      PROVE  IInv'
  BY <1>21 DEF CheckDone
<1>22. ASSUME NEW j \in Job, SyncStart(j)
      PROVE  IInv'
  BY <1>22 DEF SyncStart
<1>23. ASSUME NEW j \in Job, SyncRaises(j)
      PROVE  IInv'
  BY <1>23 DEF SyncRaises
<1>24. ASSUME NEW j \in Job, SyncRaisesDirty(j)
      PROVE  IInv'
  BY <1>24 DEF SyncRaisesDirty
<1>25. ASSUME NEW j \in Job, SyncReturns(j)
      PROVE  IInv'
  BY <1>25 DEF SyncReturns
<1>26. ASSUME NEW j \in Job, MediaCommit(j)
      PROVE  IInv'
  <2>1. CASE wpc' = "sweep"
    <3>1. /\ At("swapped", j) /\ wpc' = "sweep" /\ wjob' = wjob
          /\ UNCHANGED <<owned, step, request, Restful, gap>>
      BY <1>26, <2>1 DEF MediaCommit
    <3>2. \A k \in Job : status'[k] = IF k = j THEN "succeeded" ELSE status[k]
      BY <1>26, <2>1 DEF MediaCommit
    <3>3. Kinded'
      BY <2>1, <3>1, <3>2
    <3>4. Executing'
      BY <2>1, <3>1, <3>2
    <3>5. Between'
      BY <2>1, <3>1, <3>2
    <3>6. Recovering'
      BY <2>1, <3>1, <3>2
    <3>7. AtMostOneRunning'
      <4>1. \A k \in Job : status[k] = "running" => k = j
        BY <3>1
      <4>2. \A k \in Job : status'[k] # "running"
        <5> HIDE DEF IInv, TypeOK
        <5> QED  BY <3>2, <4>1
      <4> QED  BY <4>2
    <3>8. ConfirmedReleasesOwned'
      BY <2>1, <3>1, <3>2
    <3>9. ReleasedOutsideGap'
      BY <2>1, <3>1, <3>2
    <3>10. OutcomeTruthful'
      BY <2>1, <3>1, <3>2
    <3> QED  BY <3>3, <3>4, <3>5, <3>6, <3>7, <3>8, <3>9, <3>10
  <2>2. CASE wpc' = "unwind"
    BY <1>26, <2>2 DEF MediaCommit
  <2> QED  BY <1>26, <2>1, <2>2 DEF MediaCommit
<1>27. ASSUME NEW j \in Job, Sweep(j)
      PROVE  IInv'
  <2>1. CASE owned' = owned
    BY <1>27, <2>1 DEF Sweep
  <2>2. CASE owned' = [owned EXCEPT ![j] = @ \ {"swap"}] /\ faults' = faults
    BY <1>27, <2>2 DEF Sweep
  <2> QED  BY <1>27, <2>1, <2>2 DEF Sweep
<1>28. ASSUME NEW j \in Job, Unwind(j)
      PROVE  IInv'
  <2>1. wjob = j /\ wpc' = "unwound" /\ UNCHANGED <<rowVars, wjob, Restful, gap>>
    BY <1>28 DEF Unwind
  <2>2. /\ wpc \in {"unwind", "unwind-upload"}
        /\ "swap" \in owned'[j] => wpc = "unwind-upload" /\ "swap" \in owned[j]
        /\ "upload" \notin owned'[j]
        /\ "helper" \in owned'[j] => "helper" \in owned[j]
        /\ \A k \in Job : k # j => owned'[k] = owned[k]
    BY <1>28 DEF Unwind
  <2>3. Kinded'
    BY <2>1, <2>2
  <2>4. Executing'
    BY <2>1, <2>2
  <2>5. Between'
    BY <2>1, <2>2
  <2>6. Recovering'
    BY <2>1, <2>2
  <2>7. AtMostOneRunning'
    BY <2>1, <2>2
  <2>8. ConfirmedReleasesOwned'
    BY <2>1, <2>2
  <2>9. ReleasedOutsideGap'
    BY <2>1, <2>2
  <2>10. OutcomeTruthful'
    BY <2>1, <2>2
  <2> QED  BY <2>3, <2>4, <2>5, <2>6, <2>7, <2>8, <2>9, <2>10
<1>29. ASSUME NEW j \in Job, UnwindFails(j)
      PROVE  IInv'
  <2>1. CASE Requested(j)
    BY <1>29, <2>1 DEF UnwindFails
  <2>2. CASE ~Requested(j)
    BY <1>29, <2>2 DEF UnwindFails
  <2> QED  BY <1>29, <2>1, <2>2 DEF UnwindFails
<1>30. ASSUME NEW j \in Job, Unwound(j)
      PROVE  IInv'
  <2>1. CASE Requested(j)
    <3>1. FinishStop(j) /\ At("unwound", j) /\ Return /\ UNCHANGED <<owned, Restful, gap>>
      BY <1>30, <2>1 DEF Unwound
    <3>2. /\ "upload" \notin owned[j] /\ "helper" \notin owned[j]
          /\ "swap" \in owned[j] => j \in gap
      BY <1>30, <3>1
    <3> QED  BY <3>1, <3>2, StopStep
  <2>2. CASE ~Requested(j)
    BY <1>30, <2>2 DEF Unwound
  <2> QED  BY <2>1, <2>2
<1>31. ASSUME Crash
      PROVE  IInv'
  BY <1>31 DEF Crash
<1>32. ASSUME Start
      PROVE  IInv'
  BY <1>32 DEF Start
<1>33. ASSUME RecoverMedia
      PROVE  IInv'
  <2>1. /\ wpc = "scan" /\ wpc' \in {"inspect", "down"}
        /\ UNCHANGED <<rowVars, plan, gap, wjob>>
    BY <1>33 DEF RecoverMedia
  <2>2. \A k \in Job : \A r \in {"upload", "helper", "swap"} : r \in owned'[k] => r \in owned[k]
    BY <1>33 DEF RecoverMedia
  <2>3. ready' => \A k \in Job : status[k] = "running" /\ Requested(k) /\ Kind[k] \in MediaTypes
                        => "swap" \notin owned'[k]
    BY <1>33, MediaProof
  <2>4. Kinded'
    BY <2>1, <2>2, <2>3
  <2>5. Executing'
    BY <2>1, <2>2, <2>3
  <2>6. Between'
    BY <2>1, <2>2, <2>3
  <2>7. Recovering'
    BY <2>1, <2>2, <2>3
  <2>8. AtMostOneRunning'
    BY <2>1, <2>2, <2>3
  <2>9. ConfirmedReleasesOwned'
    BY <2>1, <2>2, <2>3
  <2>10. ReleasedOutsideGap'
    BY <2>1, <2>2, <2>3
  <2>11. OutcomeTruthful'
    BY <2>1, <2>2, <2>3
  <2> QED  BY <2>4, <2>5, <2>6, <2>7, <2>8, <2>9, <2>10, <2>11
<1>34. ASSUME RecoverInspect
      PROVE  IInv'
  <2>1. /\ wpc = "inspect" /\ wpc' \in {"settle", "down"}
        /\ UNCHANGED <<rowVars, gap, wjob, ready>>
    BY <1>34 DEF RecoverInspect
  <2>2. Recovering' /\ (\A k \in Job : owned'[k] \subseteq owned[k])
    BY <1>34, InspectStep
  <2>3. Kinded' /\ AtMostOneRunning' /\ OutcomeTruthful'
    BY <2>1, <2>2
  <2>4. Executing' /\ Between'
    BY <2>1
  <2>5. ConfirmedReleasesOwned' /\ ReleasedOutsideGap'
    BY <2>1, <2>2
  <2> QED  BY <2>2, <2>3, <2>4, <2>5
<1>35. ASSUME RecoverCommit
      PROVE  IInv'
  BY <1>35, CommitStep
<1>36. ASSUME UNCHANGED vars
      PROVE  IInv'
  BY <1>36 DEF vars
<1> QED
  BY <1>1, <1>2, <1>3, <1>4, <1>5, <1>6, <1>7, <1>8, <1>9, <1>10,
     <1>11, <1>12, <1>13, <1>14, <1>15, <1>16, <1>17, <1>18, <1>19,
     <1>20, <1>21, <1>22, <1>23, <1>24, <1>25, <1>26, <1>27, <1>28,
     <1>29, <1>30, <1>31, <1>32, <1>33, <1>34, <1>35, <1>36
  DEF Next, Worker, Loop, Recover, Execute, Web

----------------------------------------------------------------------------
(* Steps never undo a result or an accepted stop. *)

\* finish_pending touches no finished row and no settled request.
LEMMA PendingKeeps ==
    ASSUME IInv, NEW j \in Job, FinishPending(j)
    PROVE  KeepsResults
BY FinishStopFacts, FinishPendingCases
   DEF IInv, TypeOK, OutcomeTruthful, KeepsResults, Settled, Terminal, rowVars

\* A row with a result keeps it, and a settled request its outcome: writers of
\* either column test the row, or hold the only RUNNING one.
LEMMA ResultsKept ==
    ASSUME IInv, [Next]_vars
    PROVE  KeepsResults
<1> USE DEF IInv, TypeOK, Executing, Busy, OutcomeTruthful, KeepsResults, Settled,
            rowVars, At, Goto, Return, Active, Terminal, Requested
<1>1. CASE UNCHANGED <<status, request>>
  BY <1>1
<1>2. ASSUME NEW j \in Job, Enqueue(j) \/ OpaqueDone(j) \/ CheckDone(j) \/ MediaCommit(j)
      PROVE  KeepsResults
  BY <1>2 DEF Enqueue, OpaqueDone, CheckDone, MediaCommit
<1>3. ASSUME NEW j \in Job, VerifyDone(j) \/ CheckCancel(j) \/ Unwound(j)
      PROVE  KeepsResults
  BY <1>3 DEF VerifyDone, CheckCancel, Unwound, FinishStop
<1>4. ASSUME NEW j \in Job, FailJob(j) \/ HelperBusy(j) \/ HoldOwnership(j) \/ UnwindFails(j)
      PROVE  KeepsResults
  BY <1>4 DEF FailJob, HelperBusy, HoldOwnership, UnwindFails
<1>5. ASSUME NEW s \in Session, RequestAccept(s)
      PROVE  KeepsResults
  BY <1>5 DEF RequestAccept, RowUnchanged
<1>6. ASSUME NEW s \in Session, RequestFinish(s)
      PROVE  KeepsResults
  BY <1>6, PendingKeeps DEF RequestFinish
<1>7. ASSUME NEW j \in Job, ReconcileOne(j)
      PROVE  KeepsResults
  <2>1. CASE SettleTerminal(j)
    BY <2>1 DEF SettleTerminal
  <2>2. CASE FinishPending(j)
    BY <2>2, PendingKeeps
  <2> QED  BY <1>7, <2>1, <2>2 DEF ReconcileOne
<1>8. CASE ClaimCommit
  BY <1>8 DEF ClaimCommit, Claimable
<1>9. CASE RecoverCommit
  BY <1>9 DEF RecoverCommit, Recovering
<1>10. ASSUME NEW j \in Job, NEW s \in Session,
              \/ RequestRead(s, j) \/ RequestEnds(s)
       PROVE  UNCHANGED <<status, request>>
  BY <1>10 DEF RequestRead, RequestEnds
<1>11. ASSUME NEW j \in Job,
              \/ RunRaises(j) \/ CheckStep(j) \/ HelperReturns(j) \/ HelperTimeout(j)
              \/ SyncStart(j) \/ SyncRaises(j) \/ SyncRaisesDirty(j) \/ SyncReturns(j)
              \/ Sweep(j) \/ Unwind(j)
       PROVE  UNCHANGED <<status, request>>
  BY <1>11 DEF RunRaises, CheckStep, HelperReturns, HelperTimeout, SyncStart,
               SyncRaises, SyncRaisesDirty, SyncReturns, Sweep, Unwind
<1>12. ASSUME \/ StartPass \/ Admit \/ ClaimPick \/ Start \/ RecoverMedia
              \/ RecoverInspect \/ Crash \/ UNCHANGED vars
       PROVE  UNCHANGED <<status, request>>
  BY <1>12 DEF StartPass, Admit, ClaimPick, Start, RecoverMedia, RecoverInspect, Crash, vars
<1> QED
  BY <1>1, <1>2, <1>3, <1>4, <1>5, <1>6, <1>7, <1>8, <1>9, <1>10, <1>11, <1>12
  DEF Next, Worker, Loop, Recover, Execute, Web

\* An accepted stop is honoured: a claim, a helper start and a media commit
\* each test the request in the transaction that performs them.
LEMMA StopsHonoured ==
    ASSUME IInv, [Next]_vars
    PROVE  HonoursStops
<1> USE DEF IInv, TypeOK, Executing, Busy, Kinded, HonoursStops, Requested,
            rowVars, At, Goto, Return, Active, MediaSync, MediaTypes
<1>1. CASE UNCHANGED <<status, owned>>
  BY <1>1
<1>2. ASSUME NEW j \in Job, Enqueue(j) \/ OpaqueDone(j) \/ CheckDone(j) \/ MediaCommit(j)
      PROVE  HonoursStops
  BY <1>2, KindAssumption DEF Enqueue, OpaqueDone, CheckDone, MediaCommit, OutcomeTruthful
<1>3. ASSUME NEW j \in Job, VerifyDone(j) \/ CheckCancel(j) \/ Unwound(j)
      PROVE  HonoursStops
  BY <1>3 DEF VerifyDone, CheckCancel, Unwound, FinishStop
<1>4. ASSUME NEW j \in Job, FailJob(j) \/ HelperBusy(j) \/ CheckStep(j) \/ HelperReturns(j)
      PROVE  HonoursStops
  BY <1>4 DEF FailJob, HelperBusy, CheckStep, HelperReturns
<1>5. ASSUME NEW j \in Job, FinishPending(j)
      PROVE  HonoursStops
  <2>1. CASE FinishStop(j) /\ owned' = [owned EXCEPT ![j] = @ \ {"upload"}]
    BY <2>1, FinishStopFacts
  <2> QED  BY <1>1, <1>5, <2>1, FinishPendingCases
<1>6. ASSUME NEW j \in Job, ReconcileOne(j)
      PROVE  HonoursStops
  BY <1>1, <1>5, <1>6 DEF ReconcileOne, SettleTerminal
<1>7. ASSUME NEW s \in Session, RequestFinish(s)
      PROVE  HonoursStops
  BY <1>5, <1>7 DEF RequestFinish
<1>8. CASE ClaimCommit
  BY <1>8 DEF ClaimCommit, Claimable
<1>9. CASE RecoverCommit
  BY <1>9 DEF RecoverCommit, Recovering
<1>10. CASE RecoverInspect
  BY <1>10, InspectStep DEF RecoverInspect
<1>11. CASE RecoverMedia
  BY <1>11 DEF RecoverMedia
<1>12. ASSUME NEW j \in Job, NEW s \in Session,
              \/ RequestRead(s, j) \/ RequestEnds(s) \/ RequestAccept(s)
       PROVE  UNCHANGED <<status, owned>>
  BY <1>12 DEF RequestRead, RequestEnds, RequestAccept
<1>13. ASSUME NEW j \in Job,
              \/ RunRaises(j) \/ HelperTimeout(j) \/ HoldOwnership(j) \/ UnwindFails(j)
       PROVE  UNCHANGED <<status, owned>>
  BY <1>13 DEF RunRaises, HelperTimeout, HoldOwnership, UnwindFails
<1>14. ASSUME NEW j \in Job,
              \/ SyncStart(j) \/ SyncRaises(j) \/ SyncRaisesDirty(j) \/ SyncReturns(j)
              \/ Sweep(j) \/ Unwind(j)
       PROVE  HonoursStops
  BY <1>14 DEF SyncStart, SyncRaises, SyncRaisesDirty, SyncReturns, Sweep, Unwind
<1>15. ASSUME StartPass \/ Admit \/ ClaimPick \/ Start \/ Crash \/ UNCHANGED vars
       PROVE  UNCHANGED <<status, owned>>
  BY <1>15 DEF StartPass, Admit, ClaimPick, Start, Crash, vars
<1> QED
  BY <1>1, <1>2, <1>3, <1>4, <1>6, <1>7, <1>8, <1>9, <1>10, <1>11, <1>12, <1>13,
     <1>14, <1>15
  DEF Next, Worker, Loop, Recover, Execute, Web


----------------------------------------------------------------------------
(* The theorems. *)

\* The empty jobs table satisfies the inductive invariant.
LEMMA InitInv == Init => IInv
<1> SUFFICES ASSUME Init PROVE IInv
  OBVIOUS
<1>1. TypeOK
  <2>1. /\ status \in [Job -> {"absent"} \cup Active \cup Terminal]
        /\ request \in [Job -> Outcomes]
        /\ left \in [Job -> Nat]
        /\ owned \in [Job -> SUBSET Resources]
        /\ plan \in [Job -> Plans]
    BY DEF Init, Outcomes, Plans
  <2>2. unresolved \in SUBSET Job /\ step \in SUBSET Job /\ todo \in SUBSET Job
        /\ gap \in SUBSET Job
    BY DEF Init
  <2>3. wpc \in WorkerPcs /\ wjob \in Job \cup {NoJob} /\ saw \in BOOLEAN /\ ready \in BOOLEAN
    BY DEF Init, WorkerPcs
  <2>4. created \in Seq(Job) /\ faults \in 0..MaxFaults
    BY DEF Init
  <2>5. /\ rpc \in [Session -> {"idle", "read", "reserved"}]
        /\ rjob \in [Session -> Job \cup {NoJob}]
        /\ \A s \in Session : rpc[s] # "idle" => rjob[s] \in Job
        /\ rsnap \in [Session -> {"absent"} \cup Active \cup Terminal]
    BY DEF Init
  <2> QED  BY <2>1, <2>2, <2>3, <2>4, <2>5 DEF TypeOK
<1>2. Kinded /\ Executing /\ Between /\ Recovering
  BY DEF Init, Kinded, Executing, Between, Recovering, Busy
<1>3. AtMostOneRunning /\ ConfirmedReleasesOwned /\ ReleasedOutsideGap /\ OutcomeTruthful
  BY DEF Init, AtMostOneRunning, ConfirmedReleasesOwned, ReleasedOutsideGap, OutcomeTruthful
<1> QED  BY <1>1, <1>2, <1>3 DEF IInv

\* The inductive invariant holds in every reachable state.
THEOREM Invariance == Spec => []IInv
<1>1. Init => IInv
  BY InitInv
<1>2. IInv /\ [Next]_vars => IInv'
  BY InvStep
<1> QED  BY <1>1, <1>2, PTL DEF Spec

\* Every variable of the task rows, the worker and the sessions stays in range.
THEOREM TypeCorrect == Spec => []TypeOK
<1>1. IInv => TypeOK
  BY DEF IInv
<1> QED  BY <1>1, Invariance, PTL

\* The worker never has two RUNNING rows, whatever it recovers, retains or
\* requeues: claim_next_job is only reached with no RUNNING row at all.
THEOREM OneRunning == Spec => []AtMostOneRunning
<1>1. IInv => AtMostOneRunning
  BY DEF IInv
<1> QED  BY <1>1, Invariance, PTL

\* finish_stop, finish_pending and startup recovery confirm a cancellation
\* only after the upload and the privileged helper of the task are gone.
THEOREM ReleasesOwned == Spec => []ConfirmedReleasesOwned
<1>1. IInv => ConfirmedReleasesOwned
  BY DEF IInv
<1> QED  BY <1>1, Invariance, PTL

\* A cancelled media task keeps swap evidence only through the two windows
\* that no code path examines.
THEOREM ReleasesSwap == Spec => []ReleasedOutsideGap
<1>1. IInv => ReleasedOutsideGap
  BY DEF IInv
<1> QED  BY <1>1, Invariance, PTL

\* cancel_outcome never contradicts the status of its row.
THEOREM Truthful == Spec => []OutcomeTruthful
<1>1. IInv => OutcomeTruthful
  BY DEF IInv
<1> QED  BY <1>1, Invariance, PTL

\* A finished task keeps its status and a settled request its outcome.
THEOREM ResultsAreFinal == Spec => ResultPreserved
<1>1. IInv /\ [Next]_vars => [KeepsResults]_vars
  BY ResultsKept
<1> QED  BY <1>1, Invariance, PTL DEF Spec, ResultPreserved

\* After an accepted stop no queued task starts, no check helper starts and no
\* media version commits.
THEOREM StopsHold == Spec => AcceptedStopHolds
<1>1. IInv /\ [Next]_vars => [HonoursStops]_vars
  BY StopsHonoured
<1> QED  BY <1>1, Invariance, PTL DEF Spec, AcceptedStopHolds

============================================================================

-------------------------- MODULE ApplianceUpdate --------------------------
(***************************************************************************)
(* One installation task of Appliance Update: the worker runs the selected *)
(* streams in their stored order through a privileged helper, holds the    *)
(* ordinary browser UIs behind the update-only page meanwhile, owes an     *)
(* all-service restart once Photon packages may have changed, and releases *)
(* the hold only when that restart is proven.  The helper outlives a       *)
(* crashed worker, delayed restarts run as units of their own, and the     *)
(* start guard of the services rebuilds the hold from the durable record.  *)
(* The Atlaso release stream, which has a finalizer of its own, is not     *)
(* among the streams.                                                      *)
(***************************************************************************)
EXTENDS Naturals, Sequences, FiniteSets

CONSTANTS
    Plans,        \* kinds of task: the stored execution_order, each selected stream
                  \* once, and whether it was created under the current contract
    Photon,       \* the stream "photon_os"
    MaxAttempts,  \* recovery dispatches of the restart (3 in the code)
    FaultKinds,   \* which faults may happen
    MaxFaults,    \* bound on how many do
    Cancellable   \* whether a request may cancel the task while it is pending

Elements(order) == {order[i] : i \in 1 .. Len(order)}
Streams == UNION {Elements(p.order) : p \in Plans}
AllFaults == {"crash", "reboot", "helper", "busy", "raise"}

ASSUME PlansAssumption ==
    \A p \in Plans :
        /\ p \in [order : Seq(Streams), current : BOOLEAN]
        /\ Elements(p.order) = Streams
        /\ \A i, k \in 1 .. Len(p.order) : p.order[i] = p.order[k] => i = k
ASSUME PhotonAssumption == Photon \in Streams /\ "none" \notin Streams
ASSUME BoundAssumption == MaxAttempts \in Nat /\ MaxFaults \in Nat
ASSUME ChoiceAssumption == FaultKinds \subseteq AllFaults /\ Cancellable \in BOOLEAN

VARIABLES
    job,           \* status of the parent row
    step,          \* status of each child row
    applied,       \* apply_started in each child's result
    owed,          \* restart_after_commit in the parent's result
    dispatch,      \* restart_dispatch_started_at: absent, within the grace, past it
    attempts,      \* restart_recovery_attempts
    startedAfter,  \* the running worker started after finished_at
    rec,           \* ui_restoration of status.json, or "absent"
    activated,     \* status_activated of status.json
    marker,        \* /run/atlaso-appliance-update-status; nginx holds while it exists
    helper,        \* stream whose apply the privileged helper executes
    dirty,         \* Photon packages changed since every service last restarted
    timers,        \* delayed restart units not yet fired
    proving,       \* a restart unit waits for the new worker's identity
    receipt,       \* the restart receipt names the running worker
    wpc, idx,      \* where the worker is, and the stream it is at
    sfail, efail,  \* status_surface_failed, earlier_failed
    out,           \* status and apply_started of stream_result
    applies,       \* history: how often each stream's apply was started
    lapses,        \* history: the events that can lose the restart duty of Photon
    faults,
    plan,          \* the task; never changes
    timely         \* whether the completion grace outlasts every restart; never changes

db == <<job, step, applied, owed, dispatch, attempts, startedAfter>>
restart == <<owed, dispatch, attempts>>
surface == <<rec, activated, marker>>
units == <<timers, proving, receipt>>
history == <<applies, lapses>>
host == <<helper, dirty, units, history>>
locals == <<idx, sfail, efail, out>>
vars == <<db, surface, host, wpc, locals, faults, plan, timely>>

Order == plan.order
CurrentContract == plan.current

Terminal == job \in {"succeeded", "failed"}
StepEnded(s) == step[s] \in {"succeeded", "failed", "skipped"}
Stream == Order[idx]
NoOut == [status |-> "none", applied |-> FALSE]

Init ==
    /\ job = "pending"
    /\ step = [s \in Streams |-> "pending"]
    /\ applied = [s \in Streams |-> FALSE]
    /\ owed = FALSE /\ dispatch = "none" /\ attempts = 0 /\ startedAfter = FALSE
    /\ rec = "absent" /\ activated = FALSE /\ marker = "none"
    /\ helper = "none" /\ dirty = FALSE
    /\ timers = 0 /\ proving = FALSE /\ receipt = FALSE
    /\ wpc = "idle" /\ idx = 1 /\ sfail = FALSE /\ efail = FALSE /\ out = NoOut
    /\ applies = [s \in Streams |-> 0] /\ lapses = {}
    /\ faults = 0 /\ plan \in Plans /\ timely \in BOOLEAN

Fault(kind) == kind \in FaultKinds /\ faults < MaxFaults /\ faults' = faults + 1
Goto(from, to) == wpc = from /\ wpc' = to

----------------------------------------------------------------------------
(* The root-owned status surface *)

\* _publish_appliance_update_status: the snapshot, then the marker, then the
\* proof on every listener, which records the activation.
PublishOk ==
    /\ marker # "attention"
    /\ rec' = IF rec = "absent" THEN "held" ELSE rec
    /\ activated' = TRUE /\ marker' = "job"

\* A failed publication withdraws a marker it created when nginx reloads.
PublishRaises ==
    /\ rec' \in IF rec = "absent" THEN {"absent", "held"} ELSE {rec}
    /\ marker' \in IF marker = "none" /\ rec' # "absent" THEN {"none", "job"} ELSE {marker}
    /\ UNCHANGED activated

\* Mutant: the guard forgets that the surface was restored.
GuardedMarkerMutant ==
    IF rec = "absent" THEN marker
    ELSE IF job = "cancelled" THEN "attention"
    ELSE IF ~activated THEN "none"
    ELSE "job"

\* _guard_appliance_update_status_startup: what the services' pre-start guard
\* leaves; it cannot read a task that is neither active nor terminal.
GuardedMarker ==
    IF rec = "absent" THEN marker
    ELSE IF job = "cancelled" THEN "attention"
    ELSE IF ~activated \/ (Terminal /\ rec = "restored") THEN "none"
    ELSE "job"

----------------------------------------------------------------------------
(* Task bookkeeping *)

\* _terminalize_incomplete_appliance_update_steps: the Photon restart duty.
PhotonDuty ==
    step[Photon] = "succeeded" \/ (step[Photon] = "running" /\ applied[Photon])

\* Mutant: a failed Photon child owes nothing.
PhotonChangedMutant(st) == st[Photon] = "succeeded"

\* aggregate_appliance_update_results: photon_changed, without a release child.
PhotonChanged(st) == st[Photon] = "succeeded" \/ applied[Photon]

\* Running children fail and pending ones are skipped.
Interrupted ==
    [s \in Streams |-> CASE step[s] = "running" -> "failed"
                         [] step[s] = "pending" -> "skipped"
                         [] OTHER -> step[s]]

\* _fail_job reads the duty from the open children only: that of a Photon child
\* already recorded as failed lapses, unless the parent carries it.
FailJob ==
    /\ job' = "failed" /\ step' = Interrupted
    /\ owed' = (owed \/ PhotonDuty)
    /\ lapses' = IF step[Photon] = "failed" /\ applied[Photon] /\ ~owed
                   THEN lapses \cup {"recomputed"} ELSE lapses
    /\ startedAfter' = FALSE
    /\ UNCHANGED <<applied, dispatch, attempts>>

\* complete_appliance_update_task up to its first commit.  A restart without
\* a dispatch time counts its grace from finished_at.
CompleteTask(st, ok) ==
    /\ job' = IF ok THEN "succeeded" ELSE "failed"
    /\ step' = st
    /\ owed' = PhotonChanged(st)
    /\ dispatch' = IF PhotonChanged(st) THEN "fresh" ELSE "none"
    /\ startedAfter' = FALSE
    /\ UNCHANGED <<applied, attempts>>

\* _run_appliance_update, when the helper was refused admission.
Requeue ==
    /\ job' = "pending"
    /\ step' = [s \in Streams |-> IF step[s] = "running" THEN "pending" ELSE step[s]]
    /\ applied' = [s \in Streams |-> applied[s] /\ step[s] # "running"]
    /\ UNCHANGED <<restart, startedAfter>>

\* A request session cancels the task between two claims.
CancelPending ==
    /\ Cancellable /\ job = "pending" /\ job' = "cancelled"
    /\ step' = [s \in Streams |-> IF step[s] = "pending" THEN "skipped" ELSE step[s]]
    /\ UNCHANGED <<applied, restart, startedAfter, surface, host, wpc, locals, faults>>

----------------------------------------------------------------------------
(* run_worker_once: _reconcile_appliance_update_status_surface and the claim *)

\* The marker, or without one the record, names the task.
Held == marker = "job" \/ (marker = "none" /\ rec \in {"held", "pending"})

ReconcileClear ==
    /\ Goto("idle", "admitted")
    /\ marker = "none" /\ rec \in {"absent", "restored"}
    /\ UNCHANGED <<db, surface, host, locals, faults>>

ReconcileCancelled ==
    /\ wpc = "idle" /\ Held /\ job = "cancelled"
    /\ FailJob
    /\ UNCHANGED <<surface, helper, dirty, units, applies, wpc, locals, faults>>

\* Every start of the worker guards the marker first, so a pending task with
\* an activated hold has its marker.
ReconcilePending ==
    /\ Goto("idle", "admitted")
    /\ Held /\ job = "pending"
    /\ marker = "job" \/ ~activated
    /\ UNCHANGED <<db, surface, host, locals, faults>>

\* Without a restart, or with the receipt of this very worker.
ReconcileFinish ==
    /\ Goto("idle", "refinish")
    /\ Held /\ Terminal
    /\ owed => receipt /\ startedAfter
    /\ UNCHANGED <<db, surface, host, locals, faults>>

\* Mutant: the retry does not record its dispatch first.
ReconcileRetryUnstamped ==
    /\ Goto("idle", "retry")
    /\ Held /\ Terminal /\ owed /\ ~receipt
    /\ dispatch # "fresh" /\ attempts < MaxAttempts
    /\ attempts' = attempts + 1
    /\ UNCHANGED <<job, step, applied, owed, dispatch, startedAfter, surface, host, locals, faults>>

\* Mutant: one attempt too many.
ReconcileRetryUnbounded ==
    /\ Goto("idle", "retry")
    /\ Held /\ Terminal /\ owed /\ ~receipt
    /\ dispatch # "fresh" /\ attempts <= MaxAttempts
    /\ attempts' = attempts + 1 /\ dispatch' = "fresh"
    /\ UNCHANGED <<job, step, applied, owed, startedAfter, surface, host, locals, faults>>

\* Mutant: a dispatched restart is never presumed lost.
ReconcileRetryNeverStale ==
    /\ Goto("idle", "retry")
    /\ Held /\ Terminal /\ owed /\ ~receipt
    /\ dispatch = "none" /\ attempts < MaxAttempts
    /\ attempts' = attempts + 1 /\ dispatch' = "fresh"
    /\ UNCHANGED <<job, step, applied, owed, startedAfter, surface, host, locals, faults>>

\* _retry_appliance_update_restart commits the attempt before it dispatches.
ReconcileRetry ==
    /\ Goto("idle", "retry")
    /\ Held /\ Terminal /\ owed /\ ~receipt
    /\ dispatch # "fresh" /\ attempts < MaxAttempts
    /\ attempts' = attempts + 1 /\ dispatch' = "fresh"
    /\ UNCHANGED <<job, step, applied, owed, startedAfter, surface, host, locals, faults>>

\* Nothing of this task is left to claim.
AdmitOther ==
    /\ Goto("admitted", "idle") /\ job # "pending"
    /\ UNCHANGED <<db, surface, host, locals, faults>>

Claim ==
    /\ Goto("admitted", "publish") /\ job = "pending" /\ job' = "running"
    /\ idx' = 1 /\ sfail' = FALSE /\ efail' = FALSE /\ out' = NoOut
    /\ UNCHANGED <<step, applied, restart, startedAfter, surface, host, faults>>

----------------------------------------------------------------------------
(* _run_appliance_update_admitted *)

\* Where the worker goes after a publication, proven or not.
Publishing == {"publish", "prepublish", "postpublish"}
AfterPublish == IF wpc = "prepublish" THEN "check" ELSE "loop"
NextIdx == IF wpc = "postpublish" THEN idx + 1 ELSE idx

Publish ==
    /\ wpc \in Publishing /\ wpc' = AfterPublish
    /\ PublishOk /\ idx' = NextIdx
    /\ UNCHANGED <<db, host, sfail, efail, out, faults>>

\* An unproven surface fails the stream about to start, and those after it.
PublishFails ==
    /\ wpc \in Publishing /\ Fault("helper")
    /\ PublishRaises /\ idx' = NextIdx
    /\ sfail' = TRUE /\ efail' = TRUE
    /\ IF wpc = "prepublish"
         THEN wpc' = "record" /\ out' = [status |-> "failed", applied |-> FALSE]
         ELSE wpc' = AfterPublish /\ UNCHANGED out
    /\ UNCHANGED <<db, host>>

\* A child that ended before this claim is reused.
ReuseStep ==
    /\ wpc = "loop" /\ idx <= Len(Order) /\ StepEnded(Stream)
    /\ efail' = (efail \/ step[Stream] # "succeeded") /\ idx' = idx + 1
    /\ UNCHANGED <<db, surface, host, wpc, sfail, out, faults>>

\* An older task skips only Photon after a failure.
MustSkip == efail /\ (CurrentContract \/ Stream = Photon)

SkipStep ==
    /\ Goto("loop", "record") /\ idx <= Len(Order) /\ ~StepEnded(Stream) /\ MustSkip
    /\ out' = [status |-> "skipped", applied |-> FALSE]
    /\ UNCHANGED <<db, surface, host, idx, sfail, efail, faults>>

SetStepRunning ==
    /\ Goto("loop", "prepublish") /\ idx <= Len(Order) /\ ~StepEnded(Stream) /\ ~MustSkip
    /\ step' = [step EXCEPT ![Stream] = "running"]
    /\ UNCHANGED <<job, applied, restart, startedAfter, surface, host, locals, faults>>

\* The helper's check passed.
CheckPasses ==
    /\ Goto("check", "mark")
    /\ UNCHANGED <<db, surface, host, locals, faults>>

\* The check failed, or staging, checking or marking raised.
CheckFails ==
    /\ wpc \in {"check", "mark"} /\ wpc' = "record"
    /\ out' = [status |-> "failed", applied |-> FALSE]
    /\ UNCHANGED <<db, surface, host, idx, sfail, efail, faults>>

\* The check returned 75: the helper is not proven stopped.
OwnershipUnresolved ==
    /\ Goto("check", "idle") /\ Fault("helper")
    /\ UNCHANGED <<db, surface, host, locals>>

\* _mark_appliance_update_apply_started
MarkApplyStarted ==
    /\ Goto("mark", "apply")
    /\ applied' = [applied EXCEPT ![Stream] = TRUE]
    /\ UNCHANGED <<job, step, restart, startedAfter, surface, host, locals, faults>>

ApplyStarts ==
    /\ Goto("apply", "applying")
    /\ helper' = Stream
    /\ applies' = [applies EXCEPT ![Stream] = @ + 1]
    /\ UNCHANGED <<db, surface, dirty, units, lapses, locals, faults>>

\* The helper changes packages while it runs, whoever waits for it.
HelperMutates ==
    /\ helper = Photon /\ ~dirty /\ dirty' = TRUE
    /\ UNCHANGED <<db, surface, helper, units, history, wpc, locals, faults>>

\* It returns to the worker that called it, or to nobody.
HelperExits ==
    /\ helper # "none" /\ helper' = "none"
    /\ IF wpc = "applying"
         THEN /\ wpc' = "record"
              /\ \E s \in {"succeeded", "failed"} : out' = [status |-> s, applied |-> TRUE]
         ELSE UNCHANGED <<wpc, out>>
    /\ UNCHANGED <<db, surface, dirty, units, history, idx, sfail, efail, faults>>

\* Reading the helper's answer or removing its credentials raised: the result
\* is that of appliance_update_exception_result, which has no apply_started.
ApplyRaises ==
    /\ Goto("applying", "record") /\ helper # "none" /\ helper' = "none"
    /\ Fault("raise") /\ out' = [status |-> "failed", applied |-> FALSE]
    /\ lapses' = IF Stream = Photon THEN lapses \cup {"unread"} ELSE lapses
    /\ UNCHANGED <<db, surface, dirty, units, applies, idx, sfail, efail>>

\* _complete_appliance_update_step
CompleteStep ==
    /\ Goto("record", "postpublish")
    /\ step' = [step EXCEPT ![Stream] = out.status]
    /\ applied' = [applied EXCEPT ![Stream] = out.applied]
    /\ efail' = (efail \/ out.status # "succeeded")
    /\ UNCHANGED <<job, restart, startedAfter, surface, host, idx, sfail, out, faults>>

Complete ==
    /\ wpc = "loop" /\ idx > Len(Order)
    /\ CompleteTask(step, \A s \in Streams : step[s] = "succeeded")
    /\ wpc' = IF owed' THEN "dispatch" ELSE "surface"
    /\ UNCHANGED <<surface, host, locals, faults>>

\* The failed surface fails a task whose results were preserved.
SurfaceVerdict ==
    /\ wpc = "surface" /\ wpc' = IF owed THEN "idle" ELSE "finish"
    /\ IF sfail THEN FailJob ELSE UNCHANGED <<db, lapses>>
    /\ UNCHANGED <<surface, helper, dirty, units, applies, locals, faults>>

\* The deployment lock refuses a helper call before it changes anything.
HelperBusy ==
    /\ wpc \in Publishing \cup {"check", "apply"} /\ Fault("busy")
    /\ Requeue /\ wpc' = "idle"
    /\ UNCHANGED <<surface, host, locals>>

\* A database commit raised; run_worker_once fails the task.
Escapes ==
    /\ wpc \in {"loop", "record"} /\ Fault("raise") /\ wpc' = "failing"
    /\ UNCHANGED <<db, surface, host, locals>>

FailEscaped ==
    /\ Goto("failing", "idle") /\ FailJob
    /\ UNCHANGED <<surface, helper, dirty, units, applies, locals, faults>>

----------------------------------------------------------------------------
(* The delayed all-service restart *)

\* _restart_atlaso_service_after_update scheduled the unit.
Scheduled == timers' = timers + 1 /\ receipt' = FALSE /\ UNCHANGED proving

\* From complete_appliance_update_task, in a run or in startup recovery.
Dispatch ==
    /\ wpc \in {"dispatch", "bootDispatch"}
    /\ wpc' = IF wpc = "dispatch" THEN "surface" ELSE "idle"
    /\ Scheduled
    /\ UNCHANGED <<db, surface, helper, dirty, history, locals, faults>>

DispatchFails ==
    /\ wpc \in {"dispatch", "bootDispatch"} /\ Fault("helper")
    /\ wpc' = IF wpc = "dispatch" THEN "surface" ELSE "idle"
    /\ job' = "failed" /\ dispatch' = "none"
    /\ UNCHANGED <<step, applied, owed, attempts, startedAfter, surface, host, locals>>

\* A terminal task keeps its result; the recovering worker exits and restarts.
DispatchBusy ==
    /\ wpc \in {"dispatch", "bootDispatch"} /\ Fault("busy")
    /\ wpc' = IF wpc = "dispatch" THEN "idle" ELSE "down"
    /\ UNCHANGED <<db, surface, host, locals>>

Retry ==
    /\ Goto("retry", "idle") /\ Scheduled
    /\ UNCHANGED <<db, surface, helper, dirty, history, locals, faults>>

RetryFails ==
    /\ Goto("retry", "idle") /\ Fault("helper")
    /\ dispatch' = "none"
    /\ UNCHANGED <<job, step, applied, owed, attempts, startedAfter, surface, host, locals>>

RetryBusy ==
    /\ Goto("retry", "idle") /\ Fault("busy")
    /\ UNCHANGED <<db, surface, host, locals>>

\* Time passes the completion grace of the last dispatch.
GraceExpires ==
    /\ dispatch = "fresh" /\ dispatch' = "stale"
    /\ timely => timers = 0 /\ ~proving /\ wpc \notin {"dispatch", "bootDispatch", "retry"}
    /\ UNCHANGED <<job, step, applied, owed, attempts, startedAfter, surface, host,
                   wpc, locals, faults>>

\* Everything a worker process loses when it dies.
WorkerDies == wpc' = "down" /\ idx' = 1 /\ sfail' = FALSE /\ efail' = FALSE /\ out' = NoOut

\* _complete_atlaso_service_restart: every service is restarted ...
RestartServices ==
    /\ timers > 0 /\ timers' = timers - 1
    /\ WorkerDies
    /\ dirty' = FALSE /\ proving' = TRUE /\ receipt' = FALSE
    /\ UNCHANGED <<db, surface, helper, history, faults>>

RestartFails ==
    /\ timers > 0 /\ timers' = timers - 1 /\ Fault("helper")
    /\ UNCHANGED <<db, surface, helper, dirty, proving, receipt, history, wpc, locals>>

\* ... and the startup identity of the running worker goes into the receipt,
WriteReceipt ==
    /\ proving /\ wpc # "down" /\ proving' = FALSE /\ receipt' = TRUE
    /\ UNCHANGED <<db, surface, helper, dirty, timers, history, wpc, locals, faults>>

\* unless no identity appears in time.
ProofTimesOut ==
    /\ proving /\ Fault("helper") /\ proving' = FALSE
    /\ UNCHANGED <<db, surface, helper, dirty, timers, receipt, history, wpc, locals>>

----------------------------------------------------------------------------
(* _finish_appliance_update_status, from a run ("finish") or from the poll *)

FinishPcs == {"finish", "refinish"}
RestoringPcs == {"restoring", "rerestoring"}

\* A hold that was never activated needs no restoration; otherwise pending is
\* recorded and the marker removed before nginx and the UIs are proven.
FinishBegins ==
    /\ wpc \in FinishPcs
    /\ marker # "attention" /\ Terminal /\ \A s \in Streams : StepEnded(s)
    /\ marker' = "none"
    /\ IF marker = "none" /\ (rec = "restored" \/ ~activated)
         THEN rec' = "restored" /\ wpc' = "idle"
         ELSE rec' = "pending" /\ wpc' = IF wpc = "finish" THEN "restoring" ELSE "rerestoring"
    /\ UNCHANGED <<db, activated, host, locals, faults>>

Restored ==
    /\ wpc \in RestoringPcs /\ wpc' = "idle"
    /\ rec' = "restored"
    /\ UNCHANGED <<db, activated, marker, host, locals, faults>>

\* The proof fails and the marker returns, or the helper is cut off before.
\* A run that had succeeded fails; the poll retries.
RestoreFails ==
    /\ wpc \in FinishPcs \cup RestoringPcs /\ Fault("helper")
    /\ marker' \in IF wpc \in RestoringPcs THEN {"job", "none"} ELSE {marker}
    /\ IF wpc \in {"finish", "restoring"} /\ job = "succeeded"
         THEN FailJob ELSE UNCHANGED <<db, lapses>>
    /\ wpc' = "idle"
    /\ UNCHANGED <<rec, activated, helper, dirty, units, applies, locals>>

FinishBusy ==
    /\ wpc \in FinishPcs /\ Fault("busy") /\ wpc' = "idle"
    /\ UNCHANGED <<db, surface, host, locals>>

----------------------------------------------------------------------------
(* Crashes, starts and recover_interrupted_worker_jobs *)

Crash ==
    /\ wpc # "down" /\ Fault("crash") /\ WorkerDies /\ receipt' = FALSE
    /\ UNCHANGED <<db, surface, helper, dirty, timers, proving, history>>

\* A reboot ends every transient unit, empties /run and restarts all services;
\* the guard of nginx runs before it serves.
Reboot ==
    /\ Fault("reboot") /\ WorkerDies
    /\ helper' = "none" /\ dirty' = FALSE
    /\ timers' = 0 /\ proving' = FALSE /\ receipt' = FALSE
    /\ marker' = IF rec = "absent" THEN "none" ELSE GuardedMarker
    /\ UNCHANGED <<db, rec, activated, history>>

\* ExecStartPre guards the marker; main publishes its startup identity.
Start ==
    /\ Goto("down", "boot")
    /\ marker' = GuardedMarker
    /\ startedAfter' = Terminal
    /\ UNCHANGED <<job, step, applied, restart, rec, activated, host, locals, faults>>

\* Mutant: an interrupted child does not prevent the resumption.
ResumableMutant ==
    /\ \E s \in Streams : step[s] = "pending"
    /\ \A s \in Streams : step[s] \in {"pending", "running", "succeeded"}

Resumable ==
    /\ \E s \in Streams : step[s] = "pending"
    /\ \A s \in Streams : step[s] \in {"pending", "succeeded"}

BootIdle ==
    /\ Goto("boot", "idle") /\ job # "running"
    /\ UNCHANGED <<db, surface, host, locals, faults>>

RecoverResume ==
    /\ Goto("boot", "idle") /\ job = "running" /\ Resumable /\ job' = "pending"
    /\ UNCHANGED <<step, applied, restart, startedAfter, surface, host, locals, faults>>

\* The interrupted helper is not proven stopped: everything stays as it is.
QuiesceFails ==
    /\ Goto("boot", "idle") /\ Fault("helper")
    /\ job = "running" /\ \E s \in Streams : step[s] = "running"
    /\ UNCHANGED <<db, surface, host, locals>>

\* Mutant: the task fails without stopping its helper.
RecoverFailsMutant ==
    /\ wpc = "boot" /\ job = "running" /\ ~Resumable
    /\ CompleteTask(Interrupted, FALSE)
    /\ wpc' = IF owed' THEN "bootDispatch" ELSE "finish"
    /\ UNCHANGED <<surface, host, locals, faults>>

RecoverFails ==
    /\ wpc = "boot" /\ job = "running" /\ ~Resumable
    /\ helper' = IF helper # "none" /\ step[helper] = "running" THEN "none" ELSE helper
    /\ CompleteTask(Interrupted, FALSE)
    /\ wpc' = IF owed' THEN "bootDispatch" ELSE "finish"
    /\ UNCHANGED <<surface, dirty, units, history, locals, faults>>

----------------------------------------------------------------------------
Worker ==
    \/ ReconcileClear \/ ReconcileCancelled \/ ReconcilePending \/ ReconcileFinish
    \/ ReconcileRetry \/ AdmitOther \/ Claim
    \/ Publish \/ PublishFails \/ ReuseStep \/ SkipStep \/ SetStepRunning
    \/ CheckPasses \/ CheckFails \/ OwnershipUnresolved \/ MarkApplyStarted
    \/ ApplyStarts \/ ApplyRaises \/ CompleteStep \/ Complete \/ SurfaceVerdict
    \/ HelperBusy \/ Escapes \/ FailEscaped
    \/ Dispatch \/ DispatchFails \/ DispatchBusy \/ Retry \/ RetryFails \/ RetryBusy
    \/ FinishBegins \/ Restored \/ RestoreFails \/ FinishBusy
    \/ Start \/ BootIdle \/ RecoverResume \/ QuiesceFails \/ RecoverFails

RestartUnit == RestartServices \/ RestartFails \/ WriteReceipt \/ ProofTimesOut

\* The task is the same throughout.
Steady(A) == A /\ UNCHANGED <<plan, timely>>

Next ==
    \/ Steady(Worker) \/ Steady(HelperMutates) \/ Steady(HelperExits)
    \/ Steady(RestartUnit) \/ Steady(GraceExpires)
    \/ Steady(CancelPending) \/ Steady(Crash) \/ Steady(Reboot)

Spec == Init /\ [][Next]_vars

\* systemd runs the worker, the helper and the restart units, and the clock
\* advances; nothing obliges a fault or a request to happen.
FairSpec ==
    /\ Spec
    /\ WF_vars(Steady(Worker)) /\ WF_vars(Steady(HelperExits))
    /\ WF_vars(Steady(RestartUnit)) /\ WF_vars(Steady(GraceExpires))

----------------------------------------------------------------------------
\* Types; the attempts at a lost restart stay within their bound, and so do
\* the restart units they leave behind.
TypeOK ==
    /\ job \in {"pending", "running", "succeeded", "failed", "cancelled"}
    /\ step \in [Streams -> {"pending", "running", "succeeded", "failed", "skipped"}]
    /\ applied \in [Streams -> BOOLEAN]
    /\ owed \in BOOLEAN /\ dispatch \in {"none", "fresh", "stale"}
    /\ attempts \in 0 .. MaxAttempts /\ startedAfter \in BOOLEAN
    /\ rec \in {"absent", "held", "pending", "restored"} /\ activated \in BOOLEAN
    /\ marker \in {"none", "job", "attention"}
    /\ helper \in Streams \cup {"none"} /\ dirty \in BOOLEAN
    /\ timers \in 0 .. MaxAttempts + 1 /\ proving \in BOOLEAN /\ receipt \in BOOLEAN
    /\ wpc \in {"down", "boot", "idle", "admitted", "publish", "loop", "prepublish", "check",
               "mark", "apply", "applying", "record", "postpublish", "dispatch", "surface",
               "finish", "restoring", "refinish", "rerestoring", "failing", "retry",
               "bootDispatch"}
    /\ idx \in 1 .. Len(Order) + 1 /\ sfail \in BOOLEAN /\ efail \in BOOLEAN
    /\ out \in [status : {"none", "succeeded", "failed", "skipped"}, applied : BOOLEAN]
    /\ applies \in [Streams -> Nat] /\ lapses \subseteq {"unread", "recomputed"}
    /\ faults \in 0 .. MaxFaults

\* The ordinary UIs are held while a privileged apply may still run, also one
\* whose worker crashed or was restarted.
HeldWhileMutating == helper # "none" => marker = "job"

\* The hold is never lifted, not even for the restoration proof, while Photon
\* packages changed since all services last restarted.  Only two events undo
\* this: an apply whose answer raised, recorded without apply_started, and a
\* _fail_job that finds the Photon child already failed.
OpensCleanOutsideGap ==
    marker = "none" /\ dirty =>
        /\ Terminal /\ step[Photon] = "failed" /\ ~owed
        /\ (IF applied[Photon] THEN "recomputed" ELSE "unread") \in lapses

\* "A failed Photon helper result retains the same restart duty because partial
\* package or Python-environment mutation cannot be excluded."
FailedPhotonOwes ==
    Terminal /\ step[Photon] = "failed" /\ applies[Photon] > 0 => owed

\* "a child that started is never replayed", and no child (of an older task:
\* not Photon) starts after an earlier one that did not succeed.
NoReplay ==
    \A i \in 1 .. Len(Order) :
        /\ applies[Order[i]] <= 1
        /\ applies[Order[i]] = 1 /\ (CurrentContract \/ Order[i] = Photon)
             => \A k \in 1 .. i - 1 : step[Order[k]] = "succeeded"

\* One delayed restart at a time, across crashes on either side of a dispatch,
\* as long as the grace outlasts a restart.
OneRestartAtATime == timely => timers + (IF proving THEN 1 ELSE 0) <= 1

\* A restored surface stays restored, whatever restart unit fires late.
RestorationFinal == [][rec = "restored" => rec' = "restored" /\ marker' = "none"]_vars

\* Every installation comes to rest: restored, never published, retained for
\* an unproven helper, out of restart attempts, or held for attention.
EventuallySettles ==
    <>[](\/ rec = "restored" /\ marker = "none" /\ Terminal
         \/ rec = "absent" /\ job \in {"cancelled", "failed"}
         \/ job = "running" /\ wpc \in {"idle", "admitted"}
         \/ owed /\ attempts = MaxAttempts
         \/ marker = "attention")
============================================================================

--------------------------- MODULE TaskLifecycle ---------------------------
(***************************************************************************)
(* Durable tasks of the Atlaso appliance: rows of the jobs table that the  *)
(* web process enqueues and cancels, and that one atlaso-worker process    *)
(* claims, executes and, after a restart, recovers.                        *)
(*                                                                         *)
(* Each action is one committed transaction of one process, together with  *)
(* the file-system or helper effects the code performs before it commits.  *)
(* A variable the code reads in one transaction and uses in a later one is *)
(* kept in the reader's local state (rsnap, saw, ready, plan, todo).       *)
(***************************************************************************)
EXTENDS Naturals, Sequences

CONSTANTS
    Job,        \* the task identities that may be enqueued
    Kind,       \* the task type (and mode) each identity is enqueued with
    Session,    \* browser and API request sessions
    Streams,    \* number of update streams an Appliance Update check selects
    MaxTasks,   \* bound on the tasks enqueued
    MaxFaults,  \* bound on crashes, failed cleanups and helper timeouts
    NoJob       \* "no task", distinct from every task

\* check: appliance-update in mode check; download, upload, remove: the three
\* sources of pxe-media-sync; verify: dhcp-pool-verify; script: managed-script
\* and diagnostic-bundle, whose running work has no stop contract.
Kinds == {"check", "download", "upload", "remove", "verify", "script"}
MediaTypes == {"download", "upload", "remove"}
MediaSync == {"download", "upload"}

ASSUME KindAssumption == Kind \in [Job -> Kinds]
ASSUME NoJobAssumption == NoJob \notin Job
ASSUME BoundAssumption == /\ Streams \in Nat \ {0}
                          /\ MaxTasks \in Nat /\ MaxFaults \in Nat

VARIABLES
    status,      \* Job.status
    request,     \* Job.cancel_outcome; "none" iff cancel_requested_at is NULL
    unresolved,  \* tasks with ownership_unresolved in Job.result
    step,        \* tasks with a RUNNING child step row
    left,        \* child step rows still PENDING
    owned,       \* what the task holds outside the database
    created,     \* tasks in order of created_at
    wpc, wjob,   \* where the worker is, and the task it claims or executes
    saw,         \* the worker read a cancellation request before its commit
    ready,       \* media_cleanup_ready of the running startup recovery
    plan,        \* what startup recovery will write for each task
    todo,        \* tasks left in the running reconcile_requests pass
    rpc, rjob,   \* where each session is, and the task it addresses
    rsnap,       \* the status the session read before its conditional update
    gap,         \* ghost: tasks whose swap evidence no recovery step examined
    faults       \* faults so far

rowVars == <<status, request, unresolved, step, left>>
recVars == <<ready, plan>>
sessVars == <<rpc, rjob, rsnap>>
vars == <<rowVars, owned, created, wpc, wjob, saw, recVars, todo, sessVars,
          gap, faults>>

Active == {"pending", "running"}
Terminal == {"succeeded", "failed", "cancelled"}
Outcomes == {"none", "requested", "confirmed", "completion-won",
             "cleanup-required"}
Resources == {"upload", "swap", "helper"}
Plans == {"keep", "cancel", "attention", "fail", "resume"}

Requested(j) == request[j] # "none"
Settled(j) == request[j] \in {"confirmed", "completion-won"}

Init ==
    /\ status = [j \in Job |-> "absent"]
    /\ request = [j \in Job |-> "none"]
    /\ unresolved = {}
    /\ step = {}
    /\ left = [j \in Job |-> 0]
    /\ owned = [j \in Job |-> {}]
    /\ created = << >>
    /\ wpc = "down" /\ wjob = NoJob /\ saw = FALSE
    /\ ready = TRUE
    /\ plan = [j \in Job |-> "keep"]
    /\ todo = {}
    /\ rpc = [s \in Session |-> "idle"]
    /\ rjob = [s \in Session |-> NoJob]
    /\ rsnap = [s \in Session |-> "absent"]
    /\ gap = {}
    /\ faults = 0

Fault == faults < MaxFaults /\ faults' = faults + 1

----------------------------------------------------------------------------
(* Submission: a page, the API or enqueue_due_schedules inserts the row. *)

Enqueue(j) ==
    /\ status[j] = "absent" /\ Len(created) < MaxTasks
    /\ status' = [status EXCEPT ![j] = "pending"]
    /\ left' = [left EXCEPT ![j] = IF Kind[j] = "check" THEN Streams ELSE 0]
    /\ owned' = [owned EXCEPT ![j] = IF Kind[j] = "upload" THEN {"upload"} ELSE {}]
    /\ created' = Append(created, j)
    /\ UNCHANGED <<request, unresolved, step, wpc, wjob, saw, recVars, todo,
                   sessVars, gap, faults>>

----------------------------------------------------------------------------
(* task_cancellation: requests, reservations and dispositions. *)

\* A fresh row accepts a stop: a queued task always, a running one only when
\* its owner has a stop contract and no helper ownership is unresolved.
Capability(j) ==
    /\ status[j] \in Active
    /\ ~Requested(j)
    /\ j \notin unresolved
    /\ status[j] = "pending" \/ Kind[j] \in {"verify", "check"} \cup MediaSync

\* finish_stop: the row, its running children and its pending children.
FinishStop(j) ==
    /\ status[j] \in Active /\ Requested(j)
    /\ status' = [status EXCEPT ![j] = "cancelled"]
    /\ request' = [request EXCEPT ![j] = "confirmed"]
    /\ unresolved' = unresolved \ {j}
    /\ step' = step \ {j}
    /\ left' = [left EXCEPT ![j] = 0]

\* finish_pending: the row lock finds a reserved queued task, or nothing.
FinishPending(j) ==
    \/ /\ status[j] = "pending" /\ Requested(j)
       /\ FinishStop(j)
       /\ owned' = [owned EXCEPT ![j] = @ \ {"upload"}]
       /\ UNCHANGED faults
    \/ /\ status[j] = "pending" /\ Requested(j)
       /\ "upload" \in owned[j]
       /\ Fault
       /\ request' = [request EXCEPT ![j] = "cleanup-required"]
       /\ UNCHANGED <<status, unresolved, step, left, owned>>
    \/ /\ ~(status[j] = "pending" /\ Requested(j))
       /\ UNCHANGED <<rowVars, owned, faults>>

\* request(), first half: refresh the row and evaluate its capability. A task
\* already reserved goes straight to the retry of its pending cleanup.
RequestRead(s, j) ==
    /\ rpc[s] = "idle"
    /\ \/ Capability(j) /\ rpc' = [rpc EXCEPT ![s] = "read"]
       \/ /\ status[j] = "pending" /\ Requested(j)
          /\ rpc' = [rpc EXCEPT ![s] = "reserved"]
    /\ rjob' = [rjob EXCEPT ![s] = j]
    /\ rsnap' = [rsnap EXCEPT ![s] = status[j]]
    /\ UNCHANGED <<rowVars, owned, created, wpc, wjob, saw, recVars, todo, gap,
                   faults>>

\* Mutant: the UPDATE's WHERE clause keeps only the ownership condition.
RowUnchangedMutant(s) == rjob[s] \notin unresolved

\* The conditional UPDATE: the row still is what the capability was read from.
RowUnchanged(s) ==
    LET j == rjob[s] IN
    status[j] = rsnap[s] /\ ~Requested(j) /\ j \notin unresolved

\* The request is answered: what the session read is gone with it.
Answered(s) ==
    /\ rpc' = [rpc EXCEPT ![s] = "idle"]
    /\ rjob' = [rjob EXCEPT ![s] = NoJob]
    /\ rsnap' = [rsnap EXCEPT ![s] = "absent"]

RequestAccept(s) ==
    /\ rpc[s] = "read"
    /\ RowUnchanged(s)
    /\ request' = [request EXCEPT ![rjob[s]] = "requested"]
    /\ IF rsnap[s] = "pending"
       THEN rpc' = [rpc EXCEPT ![s] = "reserved"] /\ UNCHANGED <<rjob, rsnap>>
       ELSE Answered(s)
    /\ gap' = IF wpc = "inspect" /\ "swap" \in owned[rjob[s]]
              THEN gap \cup {rjob[s]} ELSE gap
    /\ UNCHANGED <<status, unresolved, step, left, owned, created, wpc, wjob,
                   saw, recVars, todo, faults>>

\* The UPDATE matched nothing (the result column may differ too), or the web
\* process died: the session ends without another write.
RequestEnds(s) ==
    /\ rpc[s] # "idle"
    /\ Answered(s)
    /\ UNCHANGED <<rowVars, owned, created, wpc, wjob, saw, recVars, todo, gap,
                   faults>>

RequestFinish(s) ==
    /\ rpc[s] = "reserved"
    /\ FinishPending(rjob[s])
    /\ Answered(s)
    /\ UNCHANGED <<created, wpc, wjob, saw, recVars, todo, gap>>

----------------------------------------------------------------------------
(* The worker loop: reconcile_requests, admission, claim_next_job. *)

Goto(pc) == wpc' = pc

\* Mutant: a failed cleanup is not looked at again.
StartPassMutant ==
    /\ wpc = "idle" /\ Goto("reconcile")
    /\ todo' = {j \in Job : request[j] = "requested"}
    /\ UNCHANGED <<rowVars, owned, created, wjob, saw, recVars, sessVars, gap,
                   faults>>

StartPass ==
    /\ wpc = "idle" /\ Goto("reconcile")
    /\ todo' = {j \in Job : Requested(j) /\ ~Settled(j)}
    /\ UNCHANGED <<rowVars, owned, created, wjob, saw, recVars, sessVars, gap,
                   faults>>

\* Mutant: a request is confirmed whatever the terminal status.
SettleTerminalMutant(j) ==
    /\ status[j] \in Terminal
    /\ request' = [request EXCEPT ![j] = "confirmed"]
    /\ UNCHANGED <<status, unresolved, step, left, owned, faults>>

SettleTerminal(j) ==
    /\ status[j] \in Terminal
    /\ request' = [request EXCEPT ![j] =
                     IF status[j] = "cancelled" THEN "confirmed" ELSE "completion-won"]
    /\ UNCHANGED <<status, unresolved, step, left, owned, faults>>

ReconcileOne(j) ==
    /\ wpc = "reconcile" /\ j \in todo
    /\ todo' = todo \ {j}
    /\ IF status[j] \in Terminal THEN SettleTerminal(j) ELSE FinishPending(j)
    /\ UNCHANGED <<created, wpc, wjob, saw, recVars, sessVars, gap>>

\* Mutants: each forgets one of the two conditions.
AdmissionIgnoresCheck ==
    \E j \in Job : status[j] \in Active /\ request[j] = "cleanup-required"
AdmissionIgnoresCleanup ==
    \E j \in Job : status[j] = "running" /\ Kind[j] = "check"

\* An interrupted check that still owns a helper, or any failed cancellation
\* cleanup, keeps every further task out.
AdmissionBlocked ==
    \E j \in Job : /\ status[j] \in Active
                   /\ \/ Kind[j] = "check" /\ status[j] = "running"
                      \/ request[j] = "cleanup-required"

Admit ==
    /\ wpc = "reconcile" /\ todo = {}
    /\ Goto(IF AdmissionBlocked THEN "idle" ELSE "claim")
    /\ UNCHANGED <<rowVars, owned, created, wjob, saw, recVars, todo, sessVars,
                   gap, faults>>

\* Mutant: the claim does not look at cancel_requested_at.
ClaimableMutant == {j \in Job : status[j] = "pending"}

Claimable == {j \in Job : status[j] = "pending" /\ ~Requested(j)}

ClaimPick ==
    /\ wpc = "claim"
    /\ \/ /\ Claimable = {}
          /\ Goto("idle") /\ UNCHANGED wjob
       \/ \E i \in 1..Len(created) :
             /\ created[i] \in Claimable
             /\ \A h \in 1..(i - 1) : created[h] \notin Claimable
             /\ Goto("picked") /\ wjob' = created[i]
    /\ UNCHANGED <<rowVars, owned, created, saw, recVars, todo, sessVars, gap,
                   faults>>

\* The conditional claim; a candidate lost meanwhile sends the loop round again.
ClaimCommit ==
    /\ wpc = "picked"
    /\ IF wjob \in Claimable
       THEN /\ status' = [status EXCEPT ![wjob] = "running"]
            /\ Goto("run") /\ UNCHANGED wjob
       ELSE Goto("claim") /\ wjob' = NoJob /\ UNCHANGED status
    /\ UNCHANGED <<request, unresolved, step, left, owned, created, saw, recVars,
                   todo, sessVars, gap, faults>>

----------------------------------------------------------------------------
(* Execution.  Every handler runs for the claimed task j = wjob. *)

At(pc, j) == wpc = pc /\ wjob = j
Return == Goto("idle") /\ wjob' = NoJob
Restful == <<created, recVars, todo, sessVars>>

\* A managed script, a diagnostic collection or a media removal ends; the last
\* only succeeds here, its failures are raised.
OpaqueDone(j) ==
    /\ At("run", j) /\ Kind[j] \in {"script", "remove"}
    /\ \E result \in IF Kind[j] = "script" THEN {"succeeded", "failed"} ELSE {"succeeded"} :
          status' = [status EXCEPT ![j] = result]
    /\ Return
    /\ UNCHANGED <<request, unresolved, step, left, owned, saw, Restful, gap, faults>>

\* dhcp_pool_verification.run publishes its report and settles the row in one
\* transaction: an accepted stop is confirmed, otherwise the task succeeded.
VerifyDone(j) ==
    /\ At("run", j) /\ Kind[j] = "verify"
    /\ IF Requested(j)
       THEN FinishStop(j)
       ELSE status' = [status EXCEPT ![j] = "succeeded"]
            /\ UNCHANGED <<request, unresolved, step, left>>
    /\ Return
    /\ UNCHANGED <<owned, saw, Restful, gap, faults>>

\* A handler without owned resources raises.
RunRaises(j) ==
    /\ At("run", j) /\ Kind[j] \notin MediaSync
    /\ Goto("failing")
    /\ UNCHANGED <<rowVars, owned, wjob, saw, Restful, gap, faults>>

\* run_worker_once's handler for an escaped exception, with _fail_job.
FailJob(j) ==
    /\ At("failing", j)
    /\ IF status[j] \in Active /\ request[j] # "cleanup-required"
       THEN /\ status' = [status EXCEPT ![j] = "failed"]
            /\ step' = step \ {j}
            /\ left' = [left EXCEPT ![j] = 0]
       ELSE UNCHANGED <<status, step, left>>
    /\ Return
    /\ UNCHANGED <<request, unresolved, owned, saw, Restful, gap, faults>>

(* Appliance Update checks: one privileged helper per selected stream. *)

CheckCancel(j) ==
    /\ At("run", j) /\ Kind[j] = "check" /\ left[j] > 0
    /\ FinishStop(j)
    /\ Return
    /\ UNCHANGED <<owned, saw, Restful, gap, faults>>

\* Mutant: a step is started although none is pending.
CheckStepMutant(j) ==
    /\ At("run", j) /\ Kind[j] = "check"
    /\ status[j] = "running" /\ ~Requested(j)
    /\ step' = step \cup {j}
    /\ left' = [left EXCEPT ![j] = @ - 1]
    /\ owned' = [owned EXCEPT ![j] = @ \cup {"helper"}]
    /\ Goto("helper")
    /\ UNCHANGED <<status, request, unresolved, wjob, saw, Restful, gap, faults>>

\* _set_appliance_update_step_running reserves the row against a request in
\* the transaction that marks the step; the helper starts after it.
CheckStep(j) ==
    /\ At("run", j) /\ Kind[j] = "check" /\ left[j] > 0
    /\ status[j] = "running" /\ ~Requested(j)
    /\ step' = step \cup {j}
    /\ left' = [left EXCEPT ![j] = @ - 1]
    /\ owned' = [owned EXCEPT ![j] = @ \cup {"helper"}]
    /\ Goto("helper")
    /\ UNCHANGED <<status, request, unresolved, wjob, saw, Restful, gap, faults>>

HelperReturns(j) ==
    /\ At("helper", j)
    /\ step' = step \ {j}
    /\ owned' = [owned EXCEPT ![j] = @ \ {"helper"}]
    /\ Goto("run")
    /\ UNCHANGED <<status, request, unresolved, left, wjob, saw, Restful, gap, faults>>

\* The helper is refused because a deployment is active: nothing was started,
\* and the task returns to the queue.
HelperBusy(j) ==
    /\ At("helper", j)
    /\ status[j] = "running" /\ request[j] # "cleanup-required" /\ j \notin unresolved
    /\ owned' = [owned EXCEPT ![j] = @ \ {"helper"}]
    /\ status' = [status EXCEPT ![j] = "pending"]
    /\ step' = step \ {j}
    /\ left' = [left EXCEPT ![j] = @ + 1]
    /\ Return
    /\ UNCHANGED <<request, unresolved, saw, Restful, gap, faults>>

\* Exit status 75: the helper's owner could not be proven stopped.  The row is
\* read here and written in HoldOwnership.
HelperTimeout(j) ==
    /\ At("helper", j) /\ Fault
    /\ saw' = Requested(j)
    /\ Goto("hold")
    /\ UNCHANGED <<rowVars, owned, wjob, Restful, gap>>

HoldOwnership(j) ==
    /\ At("hold", j)
    /\ unresolved' = unresolved \cup {j}
    /\ request' = IF saw THEN [request EXCEPT ![j] = "cleanup-required"] ELSE request
    /\ saw' = FALSE
    /\ Return
    /\ UNCHANGED <<status, step, left, owned, Restful, gap, faults>>

CheckDone(j) ==
    /\ At("run", j) /\ Kind[j] = "check" /\ left[j] = 0
    /\ \E result \in {"succeeded", "failed"} : status' = [status EXCEPT ![j] = result]
    /\ unresolved' = unresolved \ {j}
    /\ Return
    /\ UNCHANGED <<request, step, left, owned, saw, Restful, gap, faults>>

(* Network Boot media: stage, swap, commit, sweep; or unwind. *)

SyncStart(j) ==
    /\ At("run", j) /\ Kind[j] \in MediaSync
    /\ owned' = [owned EXCEPT ![j] = @ \cup {"swap"}]
    /\ Goto("syncing")
    /\ UNCHANGED <<rowVars, wjob, saw, Restful, gap, faults>>

\* sync_network_boot_media raises (a stop checkpoint or any failure) after
\* removing its own staging or undoing its own swap; the finally clause drops
\* the uploaded artifact.
SyncRaises(j) ==
    /\ At("syncing", j)
    /\ owned' = [owned EXCEPT ![j] = {}]
    /\ Goto("unwind-upload")
    /\ UNCHANGED <<rowVars, wjob, saw, Restful, gap, faults>>

\* ... or its own undo fails, and the journal, backup or staging stays behind.
SyncRaisesDirty(j) ==
    /\ At("syncing", j) /\ Fault
    /\ owned' = [owned EXCEPT ![j] = {"swap"}]
    /\ gap' = gap \cup {j}
    /\ Goto("unwind-upload")
    /\ UNCHANGED <<rowVars, wjob, saw, Restful>>

\* The new version is in place; an already verified one needed no swap.
SyncReturns(j) ==
    /\ At("syncing", j)
    /\ \E changed \in {{"swap"}, {}} : owned' = [owned EXCEPT ![j] = changed]
    /\ Goto("swapped")
    /\ UNCHANGED <<rowVars, wjob, saw, Restful, gap, faults>>

\* The result and the media row commit unless a stop was accepted; a failure
\* of the transaction unwinds like a stop.
MediaCommit(j) ==
    /\ At("swapped", j)
    /\ \/ /\ status[j] = "running" /\ ~Requested(j)
          /\ status' = [status EXCEPT ![j] = "succeeded"]
          /\ Goto("sweep")
       \/ UNCHANGED status /\ Goto("unwind")
    /\ UNCHANGED <<request, unresolved, step, left, owned, wjob, saw, Restful, gap, faults>>

\* commit_filesystem; what it cannot remove waits for the next startup, and
\* the exception reaches the handler of a task that already succeeded.
Sweep(j) ==
    /\ At("sweep", j)
    /\ \/ owned' = [owned EXCEPT ![j] = @ \ {"swap"}] /\ Return /\ UNCHANGED faults
       \/ "swap" \in owned[j] /\ Fault /\ Goto("failing") /\ UNCHANGED <<owned, wjob>>
    /\ UNCHANGED <<rowVars, saw, Restful, gap>>

\* Mutant: the swap is not rolled back, only the upload is dropped.
UnwindMutant(j) ==
    /\ wpc \in {"unwind", "unwind-upload"} /\ wjob = j
    /\ owned' = [owned EXCEPT ![j] = @ \ {"upload"}]
    /\ Goto("unwound")
    /\ UNCHANGED <<rowVars, wjob, saw, Restful, gap, faults>>

\* rollback_filesystem (when a swap was returned) and the upload cleanup.
Unwind(j) ==
    /\ \/ At("unwind", j) /\ owned' = [owned EXCEPT ![j] = {}]
       \/ At("unwind-upload", j) /\ owned' = [owned EXCEPT ![j] = @ \ {"upload"}]
    /\ Goto("unwound")
    /\ UNCHANGED <<rowVars, wjob, saw, Restful, gap, faults>>

UnwindFails(j) ==
    /\ wpc \in {"unwind", "unwind-upload"} /\ wjob = j /\ Fault
    /\ request' = IF Requested(j)
                  THEN [request EXCEPT ![j] = "cleanup-required"] ELSE request
    /\ Goto("failing")
    /\ UNCHANGED <<status, unresolved, step, left, owned, wjob, saw, Restful, gap>>

Unwound(j) ==
    /\ At("unwound", j)
    /\ IF Requested(j)
       THEN FinishStop(j) /\ Return
       ELSE UNCHANGED <<rowVars, wjob>> /\ Goto("failing")
    /\ UNCHANGED <<owned, saw, Restful, gap, faults>>

----------------------------------------------------------------------------
(* Worker restarts: recover_interrupted_worker_jobs. *)

Crash ==
    /\ wpc # "down" /\ Fault
    /\ Goto("down") /\ wjob' = NoJob /\ saw' = FALSE
    /\ todo' = {}
    /\ UNCHANGED <<rowVars, owned, created, recVars, sessVars, gap>>

Start ==
    /\ wpc = "down" /\ Goto("scan")
    /\ gap' = {j \in gap : status[j] \in Terminal}
    /\ UNCHANGED <<rowVars, owned, created, wjob, saw, recVars, todo, sessVars,
                   faults>>

\* First transaction: is any running media task asked to stop?  Then sweep the
\* interrupted swaps; evidence that cannot be resolved is only an error when
\* such a request exists (require_complete) or when the sweep itself raises.
RecoverMedia ==
    LET strict == \E j \in Job : /\ Kind[j] \in MediaTypes /\ status[j] = "running"
                                 /\ Requested(j)
        evidence == {j \in Job : "swap" \in owned[j]}
    IN
    /\ wpc = "scan"
    /\ \E stuck \in SUBSET evidence :
          /\ IF stuck = {} THEN UNCHANGED faults ELSE Fault
          /\ owned' = [j \in Job |-> IF j \in stuck THEN owned[j] ELSE owned[j] \ {"swap"}]
          /\ ready' = ~(strict /\ stuck # {})
          /\ \/ Goto("inspect")
             \/ ~strict /\ stuck # {} /\ Goto("down")
    /\ UNCHANGED <<rowVars, created, wjob, saw, plan, todo, sessVars, gap>>

\* The outcome recovery will write for one RUNNING task, given that its helper
\* quiescence or upload cleanup failed or not.
RecoveryPlan(j, failed) ==
    IF status[j] # "running" THEN "keep" ELSE
    CASE Kind[j] = "check" /\ Requested(j) -> IF failed THEN "attention" ELSE "cancel"
      [] Kind[j] = "check" /\ ~Requested(j) ->
            IF j \in step THEN IF failed THEN "keep" ELSE "fail"
            ELSE IF left[j] > 0 THEN "resume" ELSE "fail"
      [] Kind[j] \in MediaTypes /\ Requested(j) ->
            IF ~ready \/ failed THEN "attention" ELSE "cancel"
      [] OTHER -> "fail"

\* Mutant: recovery leaves staged uploads alone.
RecoveryReleasesMutant(j) ==
    IF Kind[j] = "check" /\ (Requested(j) \/ j \in step) THEN {"helper"} ELSE {}

\* The effects recovery performs for a RUNNING task before it commits.
RecoveryReleases(j) ==
    CASE Kind[j] = "check" /\ (Requested(j) \/ j \in step) -> {"helper"}
      [] Kind[j] \in MediaTypes /\ (ready \/ ~Requested(j)) -> {"upload"}
      [] OTHER -> {}

\* Second transaction, before its commit: the rows are read, then helpers are
\* quiesced and uploads removed.  A failed upload cleanup nobody asked to stop
\* is raised and ends the process.
RecoverInspect ==
    LET running == {j \in Job : status[j] = "running"}
        fallible == {j \in running : RecoveryReleases(j) # {}}
    IN
    /\ wpc = "inspect"
    /\ \E failed \in SUBSET fallible :
          /\ IF failed = {} THEN UNCHANGED faults ELSE Fault
          /\ owned' = [j \in Job |-> IF j \in running \ failed
                                     THEN owned[j] \ RecoveryReleases(j) ELSE owned[j]]
          /\ IF \E j \in failed : Kind[j] \in MediaTypes /\ ~Requested(j)
             THEN Goto("down") /\ UNCHANGED plan
             ELSE /\ plan' = [j \in Job |-> RecoveryPlan(j, j \in failed)]
                  /\ Goto("settle")
    /\ UNCHANGED <<rowVars, created, wjob, saw, ready, todo, sessVars, gap>>

\* The commit: the planned columns are written whatever changed meanwhile.
RecoverCommit ==
    /\ wpc = "settle" /\ Goto("idle")
    /\ status' = [j \in Job |->
                    CASE plan[j] = "cancel" -> "cancelled"
                      [] plan[j] = "fail" -> "failed"
                      [] plan[j] = "resume" -> "pending"
                      [] OTHER -> status[j]]
    /\ request' = [j \in Job |->
                    CASE plan[j] = "cancel" -> "confirmed"
                      [] plan[j] = "attention" -> "cleanup-required"
                      [] OTHER -> request[j]]
    /\ unresolved' = {j \in unresolved : plan[j] \notin {"cancel", "fail"}}
    /\ step' = {j \in step : plan[j] \notin {"cancel", "fail"}}
    /\ left' = [j \in Job |-> IF plan[j] \in {"cancel", "fail"} THEN 0 ELSE left[j]]
    /\ plan' = [j \in Job |-> "keep"]
    /\ UNCHANGED <<owned, created, wjob, saw, ready, todo, sessVars, gap, faults>>

----------------------------------------------------------------------------

Execute(j) ==
    \/ OpaqueDone(j) \/ VerifyDone(j) \/ RunRaises(j) \/ FailJob(j)
    \/ CheckCancel(j) \/ CheckStep(j) \/ HelperReturns(j) \/ HelperBusy(j)
    \/ HelperTimeout(j) \/ HoldOwnership(j) \/ CheckDone(j)
    \/ SyncStart(j) \/ SyncRaises(j) \/ SyncRaisesDirty(j) \/ SyncReturns(j)
    \/ MediaCommit(j) \/ Sweep(j) \/ Unwind(j) \/ UnwindFails(j) \/ Unwound(j)

Loop ==
    \/ StartPass \/ Admit \/ ClaimPick \/ ClaimCommit
    \/ \E j \in Job : ReconcileOne(j)

Recover == Start \/ RecoverMedia \/ RecoverInspect \/ RecoverCommit

Worker == Loop \/ Recover \/ \E j \in Job : Execute(j)

Web ==
    \/ \E j \in Job : Enqueue(j)
    \/ \E s \in Session : \/ \E j \in Job : RequestRead(s, j)
                          \/ RequestAccept(s) \/ RequestEnds(s) \/ RequestFinish(s)

Next == Worker \/ Web \/ Crash

Spec == Init /\ [][Next]_vars

\* systemd restarts the worker, its loop never blocks for ever, and every
\* helper, transfer and cleanup it waits for has a deadline.
FairSpec == Spec /\ WF_vars(Worker)

----------------------------------------------------------------------------
(* Properties. *)

WorkerPcs == {"down", "scan", "inspect", "settle", "idle", "reconcile", "claim",
              "picked", "run", "failing", "helper", "hold", "syncing", "swapped",
              "sweep", "unwind", "unwind-upload", "unwound"}

\* Every variable stays in its declared range.
TypeOK ==
    /\ status \in [Job -> {"absent"} \cup Active \cup Terminal]
    /\ request \in [Job -> Outcomes]
    /\ unresolved \in SUBSET Job
    /\ step \in SUBSET Job
    /\ left \in [Job -> Nat]
    /\ owned \in [Job -> SUBSET Resources]
    /\ created \in Seq(Job)
    /\ wpc \in WorkerPcs
    /\ wjob \in Job \cup {NoJob}
    /\ saw \in BOOLEAN
    /\ ready \in BOOLEAN
    /\ plan \in [Job -> Plans]
    /\ todo \in SUBSET Job
    /\ rpc \in [Session -> {"idle", "read", "reserved"}]
    /\ rjob \in [Session -> Job \cup {NoJob}]
    /\ \A s \in Session : rpc[s] # "idle" => rjob[s] \in Job
    /\ rsnap \in [Session -> {"absent"} \cup Active \cup Terminal]
    /\ gap \in SUBSET Job
    /\ faults \in 0..MaxFaults

\* Never two RUNNING tasks: the admission test only looks for checks and for
\* failed cleanups, so every other handler must have left its row by the time
\* the loop comes round, whatever was requested, refused or recovered between.
AtMostOneRunning ==
    \A j, k \in Job : status[j] = "running" /\ status[k] = "running" => j = k

\* A confirmed cancellation means the task holds neither its staged upload nor
\* a privileged helper with its scoped credentials.
ConfirmedReleasesOwned ==
    \A j \in Job : status[j] = "cancelled" => "upload" \notin owned[j] /\ "helper" \notin owned[j]

\* A cancelled task leaves nothing of its swap (journal, backup, staging), but
\* for the two windows in which nobody looks at the evidence: a request accepted
\* between recovery's two reads, and a sync whose own undo failed before it
\* returned a swap to roll back.
ReleasedOutsideGap ==
    \A j \in Job : status[j] = "cancelled" /\ "swap" \in owned[j] => j \in gap

\* cancel_outcome tells the truth: "confirmed" is only ever recorded for a
\* cancelled row, "completion-won" only for a row that kept its own result.
OutcomeTruthful ==
    \A j \in Job :
        /\ request[j] = "confirmed" => status[j] = "cancelled"
        /\ request[j] = "completion-won" => status[j] \in {"succeeded", "failed"}
        /\ status[j] = "cancelled" => request[j] = "confirmed"

HonoursStops ==
    \A j \in Job : Requested(j) =>
        /\ status[j] = "pending" => status'[j] \in {"pending", "cancelled"}
        /\ "helper" \in owned'[j] => "helper" \in owned[j]
        /\ Kind[j] \in MediaSync /\ status[j] # "succeeded" => status'[j] # "succeeded"

\* After a stop was accepted the task makes no irrevocable progress: a queued
\* task is not started, no further check helper is, no media version commits.
AcceptedStopHolds == [][HonoursStops]_vars

KeepsResults ==
    \A j \in Job : /\ status[j] \in Terminal => status'[j] = status[j]
                   /\ Settled(j) => request'[j] = request[j]

\* A finished task keeps its status, and a settled request its outcome, through
\* late sessions, retries, reconciliation passes and restarts.
ResultPreserved == [][KeepsResults]_vars

\* The row waits for an owner only a restart can prove stopped: a cleanup or a
\* helper shutdown failed, or recovery could not quiesce an interrupted check.
Retained(j) ==
    /\ status[j] = "running"
    /\ \/ request[j] = "cleanup-required" \/ j \in unresolved
       \/ "helper" \in owned[j] /\ wjob # j /\ wpc \in {"idle", "reconcile"}

\* The i-th task enqueued was asked to stop; that request was disposed of.
Asked(i) == i \in DOMAIN created /\ Requested(created[i])
Disposed(i) == i \in DOMAIN created => Settled(created[i]) \/ Retained(created[i])

\* Every accepted request is settled, or ends up as a retained running task
\* that keeps the queue closed until the next restart.
EveryRequestDisposed ==
    \A i \in 1..MaxTasks : Asked(i) ~> Disposed(i)

============================================================================

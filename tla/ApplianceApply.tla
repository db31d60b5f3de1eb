--------------------------- MODULE ApplianceApply ---------------------------
(***************************************************************************)
(* One Appliance Apply task carries a two-phase transaction between the    *)
(* application database and a root-owned helper journal: the helper        *)
(* applies the captured candidate and keeps the rollback, the application  *)
(* commits the executed baseline, the helper is told and drops the         *)
(* rollback.  ui.py runs and recovers the task; atlaso-helper keeps the    *)
(* journals.  Three units work this way, each with a protocol of its own:  *)
(* Network, the Traffic Publishing pair, and the management handoff.       *)
(*                                                                         *)
(* The desired state, the applied baseline and the running configuration   *)
(* are versions.  Helpers run in transient systemd units, so they outlive  *)
(* the process that called them.                                           *)
(***************************************************************************)
EXTENDS Naturals, FiniteSets

CONSTANTS
    Kinds,        \* the units considered: subset of AllKinds
    Runners,      \* where a task may run: the web process, the local console
    RetryKinds,   \* units whose retained tasks an operator retries
    MaxJobs,      \* submitted tasks
    MaxVersion,   \* edits of the desired state
    MaxCrashes,   \* process crashes and host reboots
    MaxFaults     \* failing helper stages, lost answers, failing commits

AllKinds == {"network", "publishing", "handoff"}

ASSUME KindsAssumption == Kinds # {} /\ Kinds \subseteq AllKinds
ASSUME RetryAssumption == RetryKinds \subseteq AllKinds
ASSUME RunnersAssumption == Runners # {} /\ Runners \subseteq {"web", "console"}
ASSUME BoundsAssumption ==
    /\ MaxJobs \in Nat \ {0}
    /\ MaxVersion \in Nat \ {0}
    /\ MaxCrashes \in Nat
    /\ MaxFaults \in Nat

VARIABLES
    kind,       \* the transactional unit of this appliance's tasks
    desired,    \* version of the desired state
    baseline,   \* version recorded as applied
    runtime,    \* version the host runs, or Mixed
    journal,    \* the helper's durable rollback state
    receipt,    \* task named by the helper's commit receipt, 0 for none
    jobs,       \* the task rows
    helper,     \* the live helper unit, or Free
    actor,      \* the runner and the four recovering callers
    web,        \* "down", "starting" or "up"
    crashes, faults

vars == <<kind, desired, baseline, runtime, journal, receipt, jobs, helper,
          actor, web, crashes, faults>>

host == <<runtime, journal, receipt>>
base == <<kind, desired, crashes, faults>>

-----------------------------------------------------------------------------
Versions == 0..MaxVersion
Mixed == MaxVersion + 1                 \* neither the old nor the new one
Jobs == 1..MaxJobs

Terminal == {"succeeded", "failed", "cancelled"}
Unresolved == {"applying", "awaiting"}  \* journal phases that own a rollback
Settled == {"committed", "rolledback"}  \* terminal phases of a Network journal

NoJournal == [phase |-> "none", job |-> 0, prior |-> 0, restored |-> FALSE]
Free == [op |-> "none", job |-> 0, caller |-> "none", step |-> "none",
         early |-> FALSE]
NoJob == [status |-> "none", captured |-> 0, by |-> "web", cancel |-> FALSE,
          pend |-> FALSE, committed |-> FALSE, cleanup |-> FALSE,
          readiness |-> FALSE]

Recoverers == {"startup", "confirm", "console", "worker"}
Actors == {"runner"} \cup Recoverers
Resting == [pc |-> "idle", job |-> 0, doing |-> "none", ans |-> "none",
            proven |-> FALSE, seen |-> NoJob]

\* The task holds the mutation lock.
Active(j) == jobs[j].status \in {"pending", "running"} \/ jobs[j].pend
Unlocked == \A j \in Jobs : ~Active(j)

\* The database's writer lock is held by a console that recovers a retained
\* task, and by a handoff from its staging to its baseline commit.
WriterFree(a) ==
    /\ a # "console" => actor["console"].pc = "idle"
    /\ (a # "runner" /\ kind = "handoff") =>
           ~ (actor["runner"].pc \in {"wait", "back"} /\ actor["runner"].doing \in {"apply", "recover"})

-----------------------------------------------------------------------------
Init ==
    /\ kind \in Kinds
    /\ desired = 1
    /\ baseline = 0
    /\ runtime = 0
    /\ journal = NoJournal
    /\ receipt = 0
    /\ jobs = [j \in Jobs |-> NoJob]
    /\ helper = Free
    /\ actor = [a \in Actors |-> Resting]
    /\ web = "up"
    /\ crashes = 0
    /\ faults = 0

Fault == faults < MaxFaults /\ faults' = faults + 1
NoFault == UNCHANGED faults

-----------------------------------------------------------------------------
(* Calling the helper.                                                     *)

\* The journal locks are taken without waiting, so a call that meets a live
\* helper fails.  Handoff recovery instead stops the surviving unit, whose
\* caller sees a failure; an acknowledgement in progress is let finish.
Call(a, op) ==
    LET launched == [op |-> op, job |-> actor[a].job, caller |-> a,
                     step |-> "begin", early |-> a = "startup"]
        waiting == [actor EXCEPT ![a].pc = "wait", ![a].doing = op]
        quiesce == kind = "handoff" /\ op = "recover"
    IN  /\ kind = "handoff" => helper.op # "ack"
        /\ IF helper = Free
           THEN helper' = launched /\ actor' = waiting
           ELSE IF quiesce
           THEN /\ helper' = launched
                /\ actor' = IF helper.caller \in Actors
                            THEN [waiting EXCEPT ![helper.caller].pc = "back",
                                                 ![helper.caller].ans = "failed"]
                            ELSE waiting
           ELSE /\ helper' = helper
                /\ actor' = [waiting EXCEPT ![a].pc = "back", ![a].ans = "failed"]

\* The helper ends; an answer nobody waits for is lost.
Return(ans) ==
    /\ helper' = Free
    /\ actor' = IF helper.caller \in Actors
                THEN [actor EXCEPT ![helper.caller].pc = "back",
                                   ![helper.caller].ans = ans]
                ELSE actor

Advance(step) ==
    /\ helper' = [helper EXCEPT !.step = step]
    /\ UNCHANGED actor

At(op, step) == helper.op = op /\ helper.step = step

\* The adapter's timeout: the unit keeps running, the caller goes on.
TimedCall == {<<"handoff", "apply">>, <<"handoff", "ack">>, <<"handoff", "recover">>,
              <<"network", "ack">>, <<"network", "recover">>}

GiveUp ==
    /\ helper.caller \in Actors
    /\ <<kind, helper.op>> \in TimedCall
    /\ Fault
    /\ helper' = [helper EXCEPT !.caller = "none"]
    /\ actor' = [actor EXCEPT ![helper.caller].pc = "back",
                              ![helper.caller].ans = "failed"]
    /\ UNCHANGED <<kind, desired, baseline, host, jobs, web, crashes>>

-----------------------------------------------------------------------------
(* The helper's apply.                                                     *)

Vacant == {"none"} \cup (IF kind = "network" THEN Settled ELSE {})

\* Mutant: services are stopped before the rollback snapshot is taken.
ApplyBeginLateMutant ==
    /\ At("apply", "begin")
    /\ journal.phase \in Vacant
    /\ runtime' = Mixed
    /\ journal' = [phase |-> "applying", job |-> helper.job,
                   prior |-> Mixed, restored |-> FALSE]
    /\ Advance("mutate")
    /\ NoFault
    /\ UNCHANGED receipt

\* The rollback is durable before anything is touched.
ApplyBegin ==
    /\ At("apply", "begin")
    /\ journal.phase \in Vacant
    /\ journal' = [phase |-> "applying", job |-> helper.job,
                   prior |-> runtime, restored |-> FALSE]
    /\ Advance("mutate")
    /\ NoFault
    /\ UNCHANGED <<runtime, receipt>>

\* Rejected, or another transaction is still owed, before any mutation.
ApplyRefuse ==
    /\ At("apply", "begin")
    /\ IF journal.phase \in Vacant THEN Fault ELSE NoFault
    /\ Return("failed")
    /\ receipt' = IF kind = "handoff" /\ journal.phase = "none" THEN 0 ELSE receipt
    /\ UNCHANGED <<runtime, journal>>

ApplyMutate ==
    /\ At("apply", "mutate")
    /\ runtime' = Mixed
    /\ Advance("finish")
    /\ NoFault
    /\ UNCHANGED <<journal, receipt>>

\* The candidate runs and passed readiness; the rollback stays.
ApplyAwait ==
    /\ At("apply", "finish")
    /\ runtime' = jobs[helper.job].captured
    /\ journal' = [journal EXCEPT !.phase = "awaiting"]
    /\ Return("ok")
    /\ NoFault
    /\ UNCHANGED receipt

\* A later stage failed and the helper restored what it had; a Network
\* journal may survive its disposal in its terminal phase.
ApplyRollback ==
    /\ At("apply", "finish")
    /\ Fault
    /\ runtime' = journal.prior
    /\ journal' \in {NoJournal} \cup
           (IF kind = "network" THEN {[journal EXCEPT !.phase = "rolledback"]} ELSE {})
    /\ receipt' = IF kind = "handoff" THEN 0 ELSE receipt
    /\ Return("rolledback")

\* The restoration failed too: the journal keeps the rollback.
ApplyStuck ==
    /\ At("apply", "finish")
    /\ Fault
    /\ Return("failed")
    /\ UNCHANGED host

-----------------------------------------------------------------------------
(* The helper's recovery.  Handoff recovery takes no task: it restores     *)
(* whatever journal there is.                                              *)

Receipted == kind # "network" /\ receipt = journal.job

RecoverBegin ==
    /\ At("recover", "begin")
    /\ CASE journal.phase = "none" -> Return("none")
         [] journal.phase \in Settled -> Advance("clear")
         [] journal.phase \in Unresolved /\ kind # "handoff" /\ journal.job # helper.job
              -> Return("failed")
         [] OTHER -> Advance(IF Receipted THEN "clear" ELSE "settle")
    /\ NoFault
    /\ UNCHANGED host

\* Startup keeps the handoff's journal until the old path answers HTTP.
RecoverSettle ==
    /\ At("recover", "settle")
    /\ runtime' = journal.prior
    /\ journal' = IF kind = "network" THEN [journal EXCEPT !.phase = "rolledback"] ELSE journal
    /\ IF kind = "handoff" /\ helper.early
       THEN Return("readiness") ELSE Advance("clear")
    /\ NoFault
    /\ UNCHANGED receipt

RecoverFail ==
    /\ At("recover", "settle")
    /\ Fault
    /\ runtime' = Mixed
    /\ Return("failed")
    /\ UNCHANGED <<journal, receipt>>

-----------------------------------------------------------------------------
(* The helper's acknowledgement.                                           *)

AckBegin ==
    LET vacant == kind = "network" \/ receipt = helper.job
        mine == journal.job = helper.job /\ journal.phase = "awaiting"
    IN  /\ At("ack", "begin")
        /\ CASE journal.phase = "none" -> Return(IF vacant THEN "committed" ELSE "failed")
             [] journal.phase \in Settled -> Advance("clear")
             [] OTHER -> IF mine THEN Advance("settle") ELSE Return("failed")
        /\ NoFault
        /\ UNCHANGED host

\* Boot restored the old pair while the outcome was unknown: the committed
\* candidate is installed again before its receipt is written.
AckSettle ==
    /\ At("ack", "settle")
    /\ runtime' = IF journal.restored THEN jobs[helper.job].captured ELSE runtime
    /\ journal' = IF kind = "network" THEN [journal EXCEPT !.phase = "committed"]
                  ELSE [journal EXCEPT !.restored = FALSE]
    /\ receipt' = IF kind = "network" THEN receipt ELSE helper.job
    /\ Advance("clear")
    /\ NoFault

AckFail ==
    /\ At("ack", "settle")
    /\ Fault
    /\ runtime' = IF journal.restored THEN Mixed ELSE runtime
    /\ Return("failed")
    /\ UNCHANGED <<journal, receipt>>

-----------------------------------------------------------------------------
(* Dropping the rollback, the last stage of both.                          *)

ReceiptLeft ==
    IF kind = "handoff" /\ helper.op = "recover" /\ ~Receipted THEN 0 ELSE receipt

Clear ==
    /\ helper.step = "clear"
    /\ journal' = NoJournal
    /\ receipt' = ReceiptLeft
    /\ Return(IF helper.op = "ack" THEN "committed"
              ELSE IF Receipted THEN "retired" ELSE "rolledback")
    /\ NoFault
    /\ UNCHANGED runtime

\* The handoff's journal goes first, and what fails after it is not undone.
ClearFail ==
    /\ helper.step = "clear"
    /\ Fault
    /\ Return("failed")
    /\ \/ UNCHANGED <<journal, receipt>>
       \/ kind = "handoff" /\ journal' = NoJournal /\ receipt' \in {receipt, ReceiptLeft}
    /\ UNCHANGED runtime

HelperStep ==
    /\ \/ ApplyBegin \/ ApplyRefuse \/ ApplyMutate \/ ApplyAwait
       \/ ApplyRollback \/ ApplyStuck
       \/ RecoverBegin \/ RecoverSettle \/ RecoverFail
       \/ AckBegin \/ AckSettle \/ AckFail
       \/ Clear \/ ClearFail
    /\ UNCHANGED <<kind, desired, baseline, jobs, web, crashes>>

-----------------------------------------------------------------------------
(* Desired state and submission.                                           *)

Edit ==
    /\ desired < MaxVersion
    /\ WriterFree("editor")
    /\ desired' = desired + 1
    /\ UNCHANGED <<kind, baseline, host, jobs, helper, actor, web, crashes, faults>>

\* _submit_appliance_apply and the console's capture: under writer admission,
\* while no task holds the mutation lock, the desired state is captured.
Submit(by, j) ==
    /\ by = "web" => web = "up"
    /\ actor["runner"].pc = "idle"
    /\ WriterFree("submit")
    /\ Unlocked
    /\ desired # baseline
    /\ \A i \in Jobs : jobs[i].status = "none" <=> i >= j
    /\ jobs' = [jobs EXCEPT ![j] = [NoJob EXCEPT !.status = "pending",
                                                 !.captured = desired, !.by = by]]
    /\ UNCHANGED <<base, baseline, host, helper, actor, web>>

\* A pending task is settled at once; a running one is asked to stop.
Cancel(j) ==
    /\ web = "up"
    /\ WriterFree("cancel")
    /\ jobs[j].status \in {"pending", "running"}
    /\ ~jobs[j].cancel
    /\ jobs' = [jobs EXCEPT ![j].cancel = TRUE,
                            ![j].status = IF @ = "pending" THEN "cancelled" ELSE @]
    /\ UNCHANGED <<base, baseline, host, helper, actor, web>>

-----------------------------------------------------------------------------
(* run_appliance_apply_job.                                                *)

Runner == actor["runner"]
Rest(a) == [actor EXCEPT ![a] = Resting]
RunnerAt(pc) == [actor EXCEPT !["runner"].pc = pc]

Claim(j) ==
    /\ Runner.pc = "idle"
    /\ jobs[j].status = "pending"
    /\ jobs[j].by = "web" => web = "up"
    /\ WriterFree("runner")
    /\ jobs' = [jobs EXCEPT ![j].status = "running"]
    /\ actor' = [actor EXCEPT !["runner"] = [Resting EXCEPT !.pc = "claimed", !.job = j]]
    /\ UNCHANGED <<base, baseline, host, helper, web>>

\* Mutant: the pending flag is published only with the helper's result.
BeginUnflaggedMutant ==
    /\ Runner.pc = "claimed"
    /\ WriterFree("runner")
    /\ IF desired = jobs[Runner.job].captured /\ ~jobs[Runner.job].cancel
       THEN jobs' = jobs /\ actor' = RunnerAt("ready")
       ELSE /\ jobs' = [jobs EXCEPT ![Runner.job].status = "failed"]
            /\ actor' = Rest("runner")
    /\ UNCHANGED <<base, baseline, host, helper, web>>

\* The captured snapshot is compared again, the cancellation request read.
\* Network and the pair publish their pending flag before the helper runs;
\* the handoff keeps it in memory.
Begin ==
    LET j == Runner.job IN
    /\ Runner.pc = "claimed"
    /\ WriterFree("runner")
    /\ \/ /\ desired # jobs[j].captured
          /\ jobs' = [jobs EXCEPT ![j].status = "failed"]
          /\ actor' = Rest("runner")
       \/ /\ desired = jobs[j].captured
          /\ jobs[j].cancel
          /\ jobs' = [jobs EXCEPT ![j].status = "cancelled"]
          /\ actor' = Rest("runner")
       \/ /\ desired = jobs[j].captured
          /\ ~jobs[j].cancel
          /\ jobs' = [jobs EXCEPT ![j].pend = kind # "handoff",
                                  ![j].committed = FALSE]
          /\ actor' = RunnerAt("ready")
    /\ UNCHANGED <<base, baseline, host, helper, web>>

Execute ==
    /\ Runner.pc = "ready"
    /\ Call("runner", "apply")
    /\ UNCHANGED <<base, baseline, host, jobs, web>>

\* The handoff's own validation refused: nothing was called that needs undoing.
Refused ==
    /\ Runner.pc = "ready"
    /\ kind = "handoff"
    /\ WriterFree("runner")
    /\ Fault
    /\ jobs' = [jobs EXCEPT ![Runner.job].status = "failed"]
    /\ actor' = Rest("runner")
    /\ UNCHANGED <<kind, desired, crashes, baseline, host, helper, web>>

Back(doing) == Runner.pc = "back" /\ Runner.doing = doing

\* Mutant: the baseline is taken from the desired state at commit time.
CommitRefreshedMutant ==
    /\ Back("apply")
    /\ Runner.ans = "ok"
    /\ WriterFree("runner")
    /\ baseline' = desired
    /\ jobs' = [jobs EXCEPT ![Runner.job].pend = TRUE, ![Runner.job].committed = TRUE]
    /\ actor' = RunnerAt("commit")
    /\ UNCHANGED <<base, host, helper, web>>

\* The application's transaction boundary: the executed baseline and the
\* proof that it committed, in one commit.
CommitBaseline ==
    LET j == Runner.job IN
    /\ Back("apply")
    /\ Runner.ans = "ok"
    /\ WriterFree("runner")
    /\ baseline' = jobs[j].captured
    /\ jobs' = [jobs EXCEPT ![j].pend = TRUE, ![j].committed = TRUE]
    /\ actor' = RunnerAt("commit")
    /\ UNCHANGED <<base, host, helper, web>>

Acknowledge ==
    /\ Runner.pc = "commit"
    /\ Call("runner", "ack")
    /\ UNCHANGED <<base, baseline, host, jobs, web>>

\* The helper failed, or a readback or the commit did after it: the runtime is
\* given back by the durable flag, which no commit has set.
Withdraw ==
    /\ Back("apply")
    /\ IF Runner.ans = "ok" THEN Fault ELSE NoFault
    /\ actor' = [actor EXCEPT !["runner"].pc = "withdraw",
                              !["runner"].proven = Runner.ans = "rolledback"]
    /\ UNCHANGED <<kind, desired, crashes, baseline, host, helper, jobs, web>>

Recover ==
    /\ Runner.pc = "withdraw"
    /\ Call("runner", "recover")
    /\ UNCHANGED <<base, baseline, host, jobs, web>>

\* What the runner takes as proof that nothing of its task is outstanding.
Proof(ans) ==
    IF kind = "handoff"
    THEN ans \in {"committed", "rolledback", "none"} \/ Runner.proven
    ELSE ans # "failed"

Clean(row) ==
    [row EXCEPT !.pend = FALSE,
                !.committed = IF kind = "handoff" THEN FALSE ELSE @]

\* Mutant: the task is left running without asking the worker for cleanup.
ConcludeUnaskedMutant ==
    LET j == Runner.job IN
    /\ Back("ack") \/ Back("recover")
    /\ WriterFree("runner")
    /\ IF Proof(Runner.ans)
       THEN jobs' = [jobs EXCEPT ![j] = Clean(@)] /\ actor' = RunnerAt("final")
       ELSE jobs' = [jobs EXCEPT ![j].pend = TRUE] /\ actor' = Rest("runner")
    /\ UNCHANGED <<base, baseline, host, helper, web>>

\* Without proof a Network task stays running for the worker's retries; the
\* others fail and keep the flag that holds the lock.
Conclude ==
    LET j == Runner.job IN
    /\ Back("ack") \/ Back("recover")
    /\ WriterFree("runner")
    /\ IF Proof(Runner.ans)
       THEN /\ jobs' = [jobs EXCEPT ![j] = Clean(@)]
            /\ actor' = RunnerAt("final")
       ELSE /\ jobs' = IF kind = "network"
                       THEN [jobs EXCEPT ![j].cleanup = TRUE]
                       ELSE [jobs EXCEPT ![j].pend = TRUE, ![j].status = "failed"]
            /\ actor' = Rest("runner")
    /\ UNCHANGED <<base, baseline, host, helper, web>>

Final ==
    /\ Runner.pc = "final"
    /\ WriterFree("runner")
    /\ jobs' = [jobs EXCEPT ![Runner.job].status =
                    IF Runner.doing = "ack" THEN "succeeded" ELSE "failed"]
    /\ actor' = Rest("runner")
    /\ UNCHANGED <<base, baseline, host, helper, web>>

RunnerStep ==
    \/ \E j \in Jobs : Claim(j)
    \/ Begin \/ Execute \/ Refused \/ CommitBaseline \/ Acknowledge
    \/ Withdraw \/ Recover \/ Conclude \/ Final

-----------------------------------------------------------------------------
(* recover_interrupted_appliance_apply_jobs, called by the starting web     *)
(* process, by its confirmation thread and by the console.                  *)

\* Mutant: recovery ignores that the application already committed.
DirectionBackMutant(row) ==
    IF row.pend \/ kind = "handoff" THEN "recover" ELSE "none"

\* What the row says decides the direction; the handoff recovers even a task
\* that left no flag.
Direction(row) ==
    IF row.pend /\ row.committed THEN "ack"
    ELSE IF row.pend \/ kind = "handoff" THEN "recover" ELSE "none"

Look(a, j) ==
    actor' = [actor EXCEPT ![a] = [Resting EXCEPT
                  !.pc = IF Direction(jobs[j]) = "none" THEN "back" ELSE "call",
                  !.job = j, !.doing = Direction(jobs[j]), !.seen = jobs[j]]]

Start ==
    /\ web = "down"
    /\ web' = "starting"
    /\ actor' = [actor EXCEPT !["startup"].pc = "scan"]
    /\ UNCHANGED <<base, baseline, host, jobs, helper>>

Scan ==
    /\ actor["startup"].pc = "scan"
    /\ IF Unlocked
       THEN actor' = [actor EXCEPT !["startup"].pc = "admit"]
       ELSE \E j \in Jobs : Active(j) /\ Look("startup", j)
    /\ UNCHANGED <<base, baseline, host, jobs, helper, web>>

Confirm ==
    /\ actor["confirm"].pc = "scan"
    /\ LET j == actor["confirm"].job IN
       IF Active(j) THEN Look("confirm", j) ELSE actor' = Rest("confirm")
    /\ UNCHANGED <<base, baseline, host, jobs, helper, web>>

\* _ensure_no_active_apply: an operator's correction retries the recovery of a
\* terminal task that still owns its transaction.
Retry ==
    /\ kind \in RetryKinds
    /\ actor["console"].pc = "idle"
    /\ WriterFree("console")
    /\ \E j \in Jobs : jobs[j].status \in {"failed", "cancelled"} /\ jobs[j].pend
                       /\ Look("console", j)
    /\ UNCHANGED <<base, baseline, host, jobs, helper, web>>

Reconcile(a) ==
    /\ actor[a].pc = "call"
    /\ Call(a, actor[a].doing)
    /\ UNCHANGED <<base, baseline, host, jobs, web>>

\* Mutant: a retry whose first answer was lost finds nothing and proves nothing.
RecoveredOnceMutant(seen, ans) ==
    \/ ans \in {"committed", "rolledback"}
    \/ kind = "handoff" /\ ans = "none" /\ seen.status = "pending"
    \/ kind # "handoff" /\ ~seen.pend

\* What recovery takes as proof; a task seen pending needs none beyond the
\* absence of a journal.
Recovered(seen, ans) ==
    CASE kind = "handoff" -> \/ ans \in {"committed", "rolledback"}
                             \/ ans = "none" /\ seen.status = "pending"
      [] kind # "handoff" /\ seen.pend -> ans # "failed"
      [] OTHER -> TRUE

\* The row is rewritten from the payload read before the helper ran.
Rewritten(a, seen, ans, now) ==
    LET done == Recovered(seen, ans)
        held == ~done /\ kind = "network" /\ a # "console"
    IN  [now EXCEPT
            !.status = IF a = "console" THEN @ ELSE IF held THEN "running" ELSE "failed",
            !.pend = ~done,
            !.committed = seen.committed /\ ~(done /\ kind = "handoff"),
            !.cleanup = held,
            !.readiness = ans = "readiness"]

WriteBack(a) ==
    LET me == actor[a] IN
    /\ a # "worker"
    /\ me.pc = "back"
    /\ WriterFree(a)
    /\ jobs' = [jobs EXCEPT ![me.job] = Rewritten(a, me.seen, me.ans, @)]
    /\ actor' = [actor EXCEPT ![a] =
                     IF a = "startup" THEN [Resting EXCEPT !.pc = "admit"] ELSE Resting]
    /\ UNCHANGED <<base, baseline, host, helper, web>>

\* The end of startup: a Network journal nobody settled stops the process,
\* otherwise it serves, and retained handoffs are confirmed over HTTP.
Retained(j) == jobs[j].status = "failed" /\ jobs[j].pend /\ jobs[j].readiness

Admit ==
    LET blocked == kind = "network" /\ (journal.phase \in Unresolved \/ helper # Free)
        ask == IF \E j \in Jobs : Retained(j)
               THEN [Resting EXCEPT !.pc = "scan", !.job = CHOOSE j \in Jobs : Retained(j)]
               ELSE Resting
    IN  /\ actor["startup"].pc = "admit"
        /\ web' = IF blocked THEN "down" ELSE "up"
        /\ journal' = IF ~blocked /\ journal.phase \in Settled THEN NoJournal ELSE journal
        /\ actor' = [actor EXCEPT !["startup"] = Resting,
                                  !["confirm"] = IF blocked THEN Resting ELSE ask]
        /\ UNCHANGED <<base, baseline, runtime, receipt, jobs, helper>>

-----------------------------------------------------------------------------
(* retry_network_transaction_cleanup, in the worker's loop.                *)

Payload(row) == <<row.pend, row.committed, row.cleanup, row.readiness>>

WorkerScan ==
    /\ actor["worker"].pc = "idle"
    /\ \E j \in Jobs : jobs[j].cleanup /\ jobs[j].pend /\ Look("worker", j)
    /\ UNCHANGED <<base, baseline, host, jobs, helper, web>>

\* A row another writer changed meanwhile is left to that writer.
WorkerWrite ==
    LET me == actor["worker"]
        same == Payload(jobs[me.job]) = Payload(me.seen)
    IN  /\ me.pc = "back"
        /\ WriterFree("worker")
        /\ jobs' = IF same /\ me.ans # "failed"
                   THEN [jobs EXCEPT ![me.job].pend = FALSE, ![me.job].cleanup = FALSE,
                                     ![me.job].status = "failed"]
                   ELSE jobs
        /\ actor' = Rest("worker")
        /\ UNCHANGED <<base, baseline, host, helper, web>>

-----------------------------------------------------------------------------
(* Crashes.                                                                *)

Process(p) ==
    CASE p = "web" -> {"startup", "confirm"}
      [] p = "console" -> {"console"}
      [] p = "worker" -> {"worker"}

Killed(p) ==
    Process(p) \cup
    (IF Runner.pc # "idle" /\ jobs[Runner.job].by = p THEN {"runner"} ELSE {})

Dead(as) == [a \in Actors |-> IF a \in as THEN Resting ELSE actor[a]]

\* The process dies; its helper goes on and answers nobody.
Crash(p) ==
    /\ crashes < MaxCrashes
    /\ crashes' = crashes + 1
    /\ p = "web" => web # "down"
    /\ p # "web" => \E a \in Killed(p) : actor[a] # Resting
    /\ web' = IF p = "web" THEN "down" ELSE web
    /\ actor' = Dead(Killed(p))
    /\ helper' = IF helper.caller \in Killed(p) THEN [helper EXCEPT !.caller = "none"] ELSE helper
    /\ UNCHANGED <<kind, desired, baseline, host, jobs, faults>>

\* The whole host restarts.  _publishing_boot_restore cannot see the database:
\* it drops a receipted journal and otherwise restores the old pair, keeping
\* the candidate for the application's decision.
Reboot ==
    LET undecided == kind = "publishing" /\ journal.phase \in Unresolved /\ ~Receipted IN
    /\ crashes < MaxCrashes
    /\ crashes' = crashes + 1
    /\ web' = "down"
    /\ actor' = Dead(Actors)
    /\ helper' = Free
    /\ journal' = IF undecided THEN [journal EXCEPT !.restored = TRUE]
                  ELSE IF kind = "publishing" THEN NoJournal ELSE journal
    /\ runtime' \in IF undecided THEN {journal.prior, Mixed} ELSE {runtime}
    /\ UNCHANGED <<kind, desired, baseline, receipt, jobs, faults>>

-----------------------------------------------------------------------------
RecoveryStep(a) ==
    \/ Reconcile(a)
    \/ WriteBack(a)
    \/ a = "startup" /\ (Start \/ Scan \/ Admit)
    \/ a = "confirm" /\ Confirm
    \/ a = "worker" /\ (WorkerScan \/ WorkerWrite)

Next ==
    \/ HelperStep
    \/ GiveUp
    \/ Edit
    \/ \E by \in Runners, j \in Jobs : Submit(by, j)
    \/ \E j \in Jobs : Cancel(j)
    \/ RunnerStep
    \/ \E a \in Recoverers : RecoveryStep(a)
    \/ Retry
    \/ \E p \in {"web", "console", "worker"} : Crash(p)
    \/ Reboot

Spec == Init /\ [][Next]_vars

\* Started work goes on, systemd restarts the web process and the worker's
\* loop runs; nobody has to submit, cancel, edit or retry at the console.
FairSpec ==
    /\ Spec
    /\ WF_vars(HelperStep)
    /\ WF_vars(RunnerStep)
    /\ \A a \in Recoverers : WF_vars(RecoveryStep(a))

-----------------------------------------------------------------------------
TypeOK ==
    /\ kind \in Kinds
    /\ desired \in Versions /\ baseline \in Versions
    /\ runtime \in Versions \cup {Mixed}
    /\ journal \in [phase : {"none"} \cup Unresolved \cup Settled, job : 0..MaxJobs,
                    prior : Versions, restored : BOOLEAN]
    /\ receipt \in 0..MaxJobs
    /\ jobs \in [Jobs -> [status : {"none", "pending", "running"} \cup Terminal,
                          captured : Versions, by : {"web", "console"},
                          cancel : BOOLEAN, pend : BOOLEAN, committed : BOOLEAN,
                          cleanup : BOOLEAN, readiness : BOOLEAN]]
    /\ helper.op \in {"none", "apply", "recover", "ack"}
    /\ helper.job \in 0..MaxJobs
    /\ helper.caller \in Actors \cup {"none"}
    /\ helper.step \in {"none", "begin", "mutate", "finish", "settle", "clear"}
    /\ \A a \in Actors : actor[a].job \in 0..MaxJobs
    /\ web \in {"down", "starting", "up"}
    /\ crashes \in 0..MaxCrashes /\ faults \in 0..MaxFaults

\* Whenever no task holds the mutation lock, what the baselines record is what
\* the host runs, and no apply or rollback is left behind: every exit of the
\* runner and of recovery, at any crash point.
AppliedIsRunning ==
    (Unlocked /\ web = "up") =>
        /\ helper.op # "apply"
        /\ journal.phase = "none"
        /\ runtime = baseline

\* A rollback that may still be needed belongs to a task that holds the lock.
RollbackOwned == journal.phase \in Unresolved => Active(journal.job)

\* Once the baseline is committed no recovery undoes the runtime: the rollback
\* is only ever dropped with the committed candidate running.
CommitNotUndone ==
    \A j \in Jobs :
        (jobs[j].committed /\ jobs[j].pend /\ journal.phase \notin Unresolved) =>
            /\ journal.phase # "rolledback"
            /\ runtime = jobs[j].captured

\* A Network task always gives the lock back: the worker retries its cleanup.
NetworkReleased == kind = "network" => []<>Unlocked

\* An operator who keeps retrying at the console gets the lock back: no answer
\* of the helper leaves a retained task that every later recovery retains again.
RetriesRelease == []<><<Retry>>_vars => []<>Unlocked

\* The same for Network and the pair: a handoff that never reached its helper
\* is retained whatever recovery answers.
RetriesReleaseOthers == kind # "handoff" => RetriesRelease
=============================================================================

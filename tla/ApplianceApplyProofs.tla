------------------------ MODULE ApplianceApplyProofs ------------------------
(***************************************************************************)
(* The transactions of Appliance Apply, for any number of tasks, versions, *)
(* crashes and faults, where every task runs in the web process and no     *)
(* operator retries a handoff at the console.  Both are needed: the run    *)
(* apply_console_race shows startup recovery rolling back a task that the  *)
(* console still runs, and a confirmation that outlives a retried handoff  *)
(* rolls back the next one, since handoff recovery names no task.          *)
(***************************************************************************)
EXTENDS ApplianceApply, TLAPS

\* The hypothesis of the theorems.
WebOnly == Runners = {"web"} /\ "handoff" \notin RetryKinds

Row == [status : {"none", "pending", "running"} \cup Terminal,
        captured : Versions, by : {"web", "console"},
        cancel : BOOLEAN, pend : BOOLEAN, committed : BOOLEAN,
        cleanup : BOOLEAN, readiness : BOOLEAN]
Journals == [phase : {"none"} \cup Unresolved \cup Settled, job : 0..MaxJobs,
             prior : Versions, restored : BOOLEAN]
Helpers == [op : {"none", "apply", "recover", "ack"}, job : 0..MaxJobs,
            caller : Actors \cup {"none"},
            step : {"none", "begin", "mutate", "finish", "settle", "clear"},
            early : BOOLEAN]
Callers == [pc : {"idle", "claimed", "ready", "wait", "back", "commit", "withdraw",
                  "final", "scan", "admit", "call"},
            job : 0..MaxJobs, doing : {"none", "apply", "recover", "ack"},
            ans : {"none", "ok", "failed", "rolledback", "retired", "committed", "readiness"},
            proven : BOOLEAN, seen : Row]

\* Every variable in full.
Typed ==
    /\ kind \in Kinds
    /\ desired \in Versions /\ baseline \in Versions
    /\ runtime \in Versions \cup {Mixed}
    /\ journal \in Journals
    /\ receipt \in 0..MaxJobs
    /\ jobs \in [Jobs -> Row]
    /\ helper \in Helpers
    /\ actor \in [Actors -> Callers]
    /\ web \in {"down", "starting", "up"}
    /\ crashes \in 0..MaxCrashes /\ faults \in 0..MaxFaults

\* The task submitted last; a journal or an apply under way.
Newest(j) == jobs[j].status # "none" /\ \A i \in Jobs : i > j => jobs[i].status = "none"
Outstanding == journal.phase # "none" \/ helper.op = "apply"
Engaged(a) == actor[a].pc \in {"call", "wait", "back"}
Calling(doing) == Runner.pc \in {"wait", "back"} /\ Runner.doing \in doing

\* What a row says: only the newest task holds the lock, and one that waits has
\* not touched anything.
Told(j) ==
    /\ jobs[j].by = "web"
    /\ Active(j) => Newest(j)
    /\ jobs[j].status = "pending" =>
          ~jobs[j].pend /\ ~jobs[j].committed /\ ~jobs[j].cleanup /\ ~Outstanding
    /\ jobs[j].cleanup => kind = "network"
    /\ jobs[j].readiness => kind = "handoff"
    /\ jobs[j].committed /\ Newest(j) => baseline = jobs[j].captured
    /\ jobs[j].committed /\ kind = "handoff" => jobs[j].pend
Rows == \A j \in Jobs : Told(j)

\* Where the runner stands with the newest task.
Running ==
    Runner.pc # "idle" =>
        LET j == Runner.job IN
        /\ web = "up" /\ j \in Jobs /\ Newest(j)
        /\ jobs[j].status = "running" /\ ~jobs[j].cleanup
        /\ Runner.pc \in {"claimed", "ready", "final"} => ~Outstanding
        /\ Runner.pc \in {"claimed", "ready", "withdraw"} \/ Calling({"apply", "recover"})
              => ~jobs[j].committed
        /\ Runner.pc = "commit" \/ Calling({"ack"}) => jobs[j].committed /\ jobs[j].pend
        /\ Runner.pc \in {"claimed", "final"} => ~jobs[j].pend
        /\ Runner.pc \notin {"claimed", "final"} /\ kind # "handoff" => jobs[j].pend
        /\ Runner.pc \in {"claimed", "ready"} => receipt # j /\ ~Runner.proven
        /\ Runner.pc = "back" /\ Runner.doing = "apply" /\ Runner.ans = "ok" =>
              /\ journal.phase = "awaiting" /\ journal.job = j /\ ~journal.restored
              /\ runtime = jobs[j].captured /\ helper.job # j
        /\ kind = "handoff" /\ (Runner.proven \/ (Calling({"apply"}) /\ Runner.pc = "back"
                                                  /\ Runner.ans = "rolledback"))
              => ~Outstanding
        /\ Runner.pc \in {"wait", "back"} => Runner.doing # "none"
        /\ Runner.pc \notin {"scan", "admit", "call"}

\* Where a recovering caller stands: what it read of the row still tells how far
\* the application got, and only the worker may be late.
Attends(a) ==
    LET j == actor[a].job IN
    /\ j \in Jobs /\ jobs[j].status # "none"
    /\ actor[a].seen.committed = jobs[j].committed
    /\ actor[a].doing = "ack" => jobs[j].committed
    /\ actor[a].doing = "recover" => ~jobs[j].committed
    /\ actor[a].doing # "apply"
    /\ actor[a].pc # "back" => actor[a].doing # "none"
    /\ kind # "handoff" => (actor[a].seen.pend <=> actor[a].doing # "none")
    /\ actor[a].doing = "none" => ~Outstanding
    /\ a # "worker" => Newest(j) /\ Runner.pc = "idle"
    /\ a \in {"console", "worker"} => jobs[j].status # "pending"
    /\ a = "worker" => /\ kind = "network" /\ actor[a].seen.pend
                       /\ Runner.pc # "idle" => Runner.job # j
Recovering ==
    /\ \A a \in Recoverers : Engaged(a) => Attends(a)
    /\ \A a \in Recoverers :
          \/ actor[a].pc \in {"idle", "call", "wait", "back"}
          \/ a = "startup" /\ actor[a].pc \in {"scan", "admit"}
          \/ a = "confirm" /\ actor[a].pc = "scan"
    /\ actor["startup"].pc # "idle" => web = "starting"
    /\ actor["console"].pc # "idle" => kind # "handoff"
    /\ actor["confirm"].pc # "idle" =>
          /\ kind = "handoff" /\ web = "up"
          /\ actor["confirm"].job \in Jobs
          /\ jobs[actor["confirm"].job].status = "failed" /\ jobs[actor["confirm"].job].pend

\* An answer that is taken for proof: nothing is outstanding.
Trusted(a) ==
    /\ actor[a].pc = "back" /\ actor[a].doing # "apply"
    /\ actor[a].ans \notin {"failed", "readiness"}
    /\ actor[a].job \in Jobs /\ Newest(actor[a].job)
Answered ==
    \A a \in Actors : /\ actor[a].ans = "readiness" => kind = "handoff"
                      /\ Trusted(a) => ~Outstanding

\* Where a helper stands, whether its caller still waits or not.
Helping ==
    /\ helper.caller \in Actors =>
          /\ actor[helper.caller].pc = "wait" /\ actor[helper.caller].doing = helper.op
          /\ actor[helper.caller].job = helper.job
    /\ helper.op = "none" => helper = Free
    /\ helper.op # "none" => helper.job \in Jobs /\ jobs[helper.job].status # "none"
    /\ helper.op = "apply" =>
          /\ helper.step \in {"begin", "mutate", "finish"}
          /\ Active(helper.job) /\ (kind # "handoff" => jobs[helper.job].pend)
          /\ ~jobs[helper.job].committed /\ receipt # helper.job
          /\ helper.step = "begin" => journal.phase = "none"
          /\ helper.step # "begin" =>
                journal.phase = "applying" /\ journal.job = helper.job /\ ~journal.restored
    /\ helper.op = "recover" =>
          /\ helper.step \in {"begin", "settle", "clear"}
          /\ ~jobs[helper.job].committed
          /\ helper.step = "settle" => journal.phase \in Unresolved
          /\ journal.phase \in Unresolved /\ (helper.step # "begin" \/ kind = "handoff")
                => journal.job = helper.job
    /\ helper.op = "ack" =>
          /\ helper.step \in {"begin", "settle", "clear"}
          /\ journal.phase \in Unresolved /\ journal.job = helper.job
                => jobs[helper.job].committed
          /\ helper.step = "settle" => journal.phase = "awaiting" /\ journal.job = helper.job
          /\ helper.step = "clear" /\ journal.phase \in Unresolved => journal.job = helper.job
    /\ helper.step = "clear" /\ journal.phase \in Unresolved => runtime = baseline

\* What the journal holds: the way back to the baseline as long as the
\* application has not committed, and nothing but its disposal afterwards.
Journalled ==
    /\ journal.phase \in Unresolved =>
          LET j == journal.job IN
          /\ j \in Jobs /\ Active(j) /\ (kind # "handoff" => jobs[j].pend)
          /\ ~jobs[j].committed => journal.prior = baseline /\ receipt # j
          /\ jobs[j].committed =>
                /\ journal.phase = "awaiting"
                /\ ~journal.restored => runtime = baseline
                /\ journal.restored => receipt # j
    /\ journal.phase \notin Unresolved => runtime = baseline
    /\ journal.phase \in Settled => kind = "network" /\ \E j \in Jobs : jobs[j].pend
    /\ journal.phase = "rolledback" => \A j \in Jobs : Newest(j) => ~jobs[j].committed
    /\ receipt # 0 => jobs[receipt].status \notin {"none", "pending"}

IInv ==
    Typed /\ Rows /\ Running /\ Recovering /\ Answered /\ Helping /\ Journalled

USE KindsAssumption, RetryAssumption, RunnersAssumption, BoundsAssumption

-----------------------------------------------------------------------------
(* The records, and the newest task. *)

Answers == {"none", "ok", "failed", "rolledback", "retired", "committed", "readiness"}

\* The constant records are of their types.
LEMMA Records ==
    NoJob \in Row /\ Resting \in Callers /\ Free \in Helpers /\ NoJournal \in Journals
<1>1. NoJob \in Row
  BY DEF NoJob, Row, Versions
<1>2. Resting \in Callers
  BY <1>1 DEF Resting, Callers
<1>3. Free \in Helpers
  BY DEF Free, Helpers
<1>4. NoJournal \in Journals
  BY DEF NoJournal, Journals, Versions
<1> QED  BY <1>1, <1>2, <1>3, <1>4

\* There is one newest task.
LEMMA OneNewest ==
    ASSUME NEW i \in Jobs, NEW j \in Jobs, Newest(i), Newest(j)
    PROVE  i = j
  BY DEF Newest, Jobs

\* It stays the newest when no row appears.
LEMMA NewestKept ==
    ASSUME \A i \in Jobs : jobs'[i].status = "none" <=> jobs[i].status = "none",
           NEW j, j \in Jobs
    PROVE  Newest(j)' <=> Newest(j)
  BY DEF Newest

\* TypeOK is what Typed says about the fields.
LEMMA TypedOK == Typed => TypeOK
  BY DEF Typed, TypeOK, Row, Journals, Helpers, Callers

\* Inside a step of the helper, what its answer changes.
LEMMA ReturnFields ==
    ASSUME Typed, NEW ans \in Answers, Return(ans)
    PROVE  /\ helper' = Free
           /\ actor' \in [Actors -> Callers]
           /\ \A a \in Actors :
                 /\ actor'[a].pc = IF a = helper.caller THEN "back" ELSE actor[a].pc
                 /\ actor'[a].ans = IF a = helper.caller THEN ans ELSE actor[a].ans
                 /\ actor'[a].job = actor[a].job /\ actor'[a].doing = actor[a].doing
                 /\ actor'[a].seen = actor[a].seen /\ actor'[a].proven = actor[a].proven
<1>1. actor' \in [Actors -> Callers]
  BY DEF Return, Typed, Callers, Answers
<1>2. ASSUME NEW a \in Actors
      PROVE  /\ actor'[a].pc = IF a = helper.caller THEN "back" ELSE actor[a].pc
             /\ actor'[a].ans = IF a = helper.caller THEN ans ELSE actor[a].ans
             /\ actor'[a].job = actor[a].job /\ actor'[a].doing = actor[a].doing
             /\ actor'[a].seen = actor[a].seen /\ actor'[a].proven = actor[a].proven
  BY DEF Return, Typed, Callers
<1> QED  BY <1>1, <1>2 DEF Return

\* A step of the helper that creates no journal out of nothing and answers
\* truthfully: rows, runner, recovering callers and their answers.
LEMMA HelperAnswers ==
    ASSUME IInv, UNCHANGED <<kind, baseline, jobs, web>>,
           NEW ans \in Answers, Return(ans),
           helper.op # "none",
           Outstanding' => Outstanding,
           journal.phase \in Unresolved /\ journal.job # helper.job =>
               UNCHANGED <<journal, runtime>>,
           helper.op # "apply" /\ ans \notin {"failed", "readiness"} => ~Outstanding',
           helper.op = "apply" /\ ans = "ok" =>
               /\ journal'.phase = "awaiting" /\ journal'.job = helper.job
               /\ ~journal'.restored /\ runtime' = jobs[helper.job].captured,
           kind = "handoff" /\ helper.op = "apply" /\ ans = "rolledback" => ~Outstanding',
           ans = "readiness" => kind = "handoff",
           receipt' \in {receipt, 0} \/ Outstanding
    PROVE  Rows' /\ Running' /\ Recovering' /\ Answered'
<1> USE DEF IInv
<1>1. \A j \in Jobs : Newest(j)' <=> Newest(j)
  BY NewestKept
<1>2. Rows'
  BY <1>1 DEF Rows, Told, Active
<1>3. Recovering'
  BY <1>1, ReturnFields DEF Recovering, Attends, Engaged, Recoverers, Actors,
                            Runner, Helping
<1>4. Answered'
  BY <1>1, ReturnFields DEF Answered, Trusted, Helping
<1>5. Running'
  <2> SUFFICES ASSUME Runner.pc' # "idle" PROVE Running'
    BY DEF Running
  <2> DEFINE j == Runner.job
  <2>1. /\ Runner.pc # "idle" /\ Runner'.job = j /\ Runner'.doing = Runner.doing
        /\ Runner'.proven = Runner.proven
        /\ IF helper.caller = "runner"
           THEN /\ Runner'.pc = "back" /\ Runner'.ans = ans /\ Runner.pc = "wait"
                /\ Runner.doing = helper.op /\ helper.job = j
           ELSE Runner'.pc = Runner.pc /\ Runner'.ans = Runner.ans
    BY ReturnFields DEF Runner, Helping, Actors
  <2>2. helper'.job = 0 /\ 0 \notin Jobs
    BY ReturnFields DEF Free, Jobs
  <2>3. /\ web' = "up" /\ j \in Jobs /\ Newest(j)'
        /\ jobs'[j].status = "running" /\ ~jobs'[j].cleanup
    BY <1>1, <2>1 DEF Running
  <2>4. /\ Runner'.pc \in {"claimed", "ready", "final"} => ~Outstanding'
        /\ Runner'.pc \in {"claimed", "ready", "withdraw"} \/ Calling({"apply", "recover"})'
              => ~jobs'[j].committed
        /\ Runner'.pc = "commit" \/ Calling({"ack"})' => jobs'[j].committed /\ jobs'[j].pend
        /\ Runner'.pc \in {"claimed", "final"} => ~jobs'[j].pend
        /\ Runner'.pc \notin {"claimed", "final"} /\ kind' # "handoff" => jobs'[j].pend
    BY <2>1, <2>2, <2>3 DEF Running, Calling, Runner
  <2>5. Runner'.pc \in {"claimed", "ready"} => receipt' # j /\ ~Runner'.proven
    BY <2>1, <2>2, <2>3 DEF Running, Runner
  <2>6. Runner'.pc = "back" /\ Runner'.doing = "apply" /\ Runner'.ans = "ok" =>
              /\ journal'.phase = "awaiting" /\ journal'.job = j /\ ~journal'.restored
              /\ runtime' = jobs'[j].captured /\ helper'.job # j
    BY <2>1, <2>2, <2>3 DEF Running, Runner, Unresolved
  <2>7. kind' = "handoff" /\ (Runner'.proven \/ (Calling({"apply"})' /\ Runner'.pc = "back"
                                                  /\ Runner'.ans = "rolledback"))
              => ~Outstanding'
    BY <2>1, <2>2, <2>3 DEF Running, Calling, Runner
  <2>8. /\ Runner'.pc \in {"wait", "back"} => Runner'.doing # "none"
        /\ Runner'.pc \notin {"scan", "admit", "call"}
    BY <2>1, <2>2, <2>3 DEF Running, Calling, Runner
  <2> QED
    BY <2>1, <2>3, <2>4, <2>5, <2>6, <2>7, <2>8 DEF Running, Runner
<1> QED  BY <1>2, <1>3, <1>4, <1>5

\* The same for a stage that is not the helper's last.
LEMMA HelperAdvances ==
    ASSUME IInv, UNCHANGED <<kind, baseline, jobs, web, actor>>,
           helper.op # "none", helper'.op = helper.op, helper'.job = helper.job,
           Outstanding' => Outstanding,
           journal.phase \in Unresolved /\ journal.job # helper.job =>
               UNCHANGED <<journal, runtime>>,
           receipt' \in {receipt, 0} \/ Outstanding
    PROVE  Rows' /\ Running' /\ Recovering' /\ Answered'
<1> USE DEF IInv
<1>1. \A j \in Jobs : Newest(j)' <=> Newest(j)
  BY NewestKept
<1>2. Rows'
  BY <1>1 DEF Rows, Told, Active
<1>3. Recovering'
  BY <1>1 DEF Recovering, Attends, Engaged, Runner
<1>4. Answered'
  BY <1>1 DEF Answered, Trusted
<1>5. Running'
  BY <1>1 DEF Running, Calling, Runner, Jobs, Unresolved
<1> QED  BY <1>2, <1>3, <1>4, <1>5

\* A stage that is not the last one.
LEMMA AdvanceFields ==
    ASSUME Typed, NEW s \in {"begin", "mutate", "finish", "settle", "clear"}, Advance(s)
    PROVE  /\ helper'.op = helper.op /\ helper'.job = helper.job
           /\ helper'.caller = helper.caller /\ helper'.early = helper.early
           /\ helper'.step = s /\ helper' \in Helpers /\ UNCHANGED actor
<1>1. helper' = [helper EXCEPT !.step = s] /\ helper \in Helpers /\ UNCHANGED actor
  BY DEF Advance, Typed
<1> QED  BY <1>1 DEF Helpers

\* What all steps of the helper leave alone.
Frame == UNCHANGED <<kind, desired, baseline, jobs, web, crashes>>

\* The journal that ApplyBegin makes leads back to the baseline.
LEMMA ApplyBeginInv == ASSUME IInv, ApplyBegin, Frame PROVE IInv'
<1> USE DEF IInv, Frame
<1>1. helper.op = "apply" /\ helper.step = "begin" /\ Advance("mutate")
  BY DEF ApplyBegin, At
<1>2. /\ helper'.op = "apply" /\ helper'.job = helper.job /\ helper'.caller = helper.caller
      /\ helper'.step = "mutate" /\ helper' \in Helpers /\ UNCHANGED actor
  BY <1>1, AdvanceFields
<1>3. /\ journal'.phase = "applying" /\ journal'.job = helper.job /\ journal'.prior = runtime
      /\ journal'.restored = FALSE /\ UNCHANGED <<runtime, receipt, faults>>
  BY DEF ApplyBegin, NoFault
<1>4. journal.phase = "none" /\ runtime = baseline
  BY <1>1 DEF Helping, Journalled, Unresolved
<1>5. Typed'
  <2>1. journal' \in Journals
    BY <1>4 DEF ApplyBegin, Typed, Unresolved, Settled, Helpers, Journals
  <2> QED  BY <2>1, <1>2, <1>3 DEF Typed
<1>6. Rows' /\ Running' /\ Recovering' /\ Answered'
  BY <1>1, <1>2, <1>3, <1>4, HelperAdvances DEF Outstanding, Unresolved
<1>7. Helping'
  BY <1>1, <1>2, <1>3 DEF Helping, Active, Unresolved, Free
<1>8. Journalled'
  BY <1>1, <1>2, <1>3, <1>4 DEF Journalled, Helping, Active, Unresolved, Settled
<1> QED  BY <1>5, <1>6, <1>7, <1>8

\* A refused apply leaves nothing behind.
LEMMA ApplyRefuseInv == ASSUME IInv, ApplyRefuse, Frame PROVE IInv'
<1> USE DEF IInv, Frame
<1>1. /\ helper.op = "apply" /\ helper.step = "begin" /\ Return("failed")
      /\ UNCHANGED <<runtime, journal>> /\ receipt' \in {receipt, 0}
      /\ faults' \in 0..MaxFaults
  BY DEF ApplyRefuse, At, Fault, NoFault, Typed
<1>2. helper' = Free /\ actor' \in [Actors -> Callers] /\ helper'.op = "none"
      /\ helper'.caller = "none" /\ helper'.job = 0 /\ helper'.step = "none"
  BY <1>1, ReturnFields DEF Answers, Free
<1>3. journal.phase = "none" /\ runtime = baseline
  BY <1>1 DEF Helping, Journalled, Unresolved
<1>4. Typed'
  BY <1>1, <1>2, Records DEF Typed
<1>5. Rows' /\ Running' /\ Recovering' /\ Answered'
  BY <1>1, <1>2, <1>3, HelperAnswers DEF Outstanding, Unresolved, Answers
<1>6. Helping'
  BY <1>1, <1>2 DEF Helping, Actors, Recoverers
<1>7. Journalled'
  BY <1>1, <1>2, <1>3 DEF Journalled, Unresolved, Settled
<1> QED  BY <1>4, <1>5, <1>6, <1>7

\* From here on only the journal leads back to the baseline.
LEMMA ApplyMutateInv == ASSUME IInv, ApplyMutate, Frame PROVE IInv'
<1> USE DEF IInv, Frame
<1>1. /\ helper.op = "apply" /\ helper.step = "mutate" /\ Advance("finish")
      /\ UNCHANGED <<journal, receipt, faults>> /\ runtime' = Mixed
  BY DEF ApplyMutate, At, NoFault
<1>2. /\ helper'.op = "apply" /\ helper'.job = helper.job /\ helper'.caller = helper.caller
      /\ helper'.step = "finish" /\ helper' \in Helpers /\ UNCHANGED actor
  BY <1>1, AdvanceFields
<1>3. journal.phase = "applying" /\ journal.job = helper.job /\ ~jobs[helper.job].committed
  BY <1>1 DEF Helping
<1>4. Typed'
  BY <1>1, <1>2 DEF Typed
<1>5. Rows' /\ Running' /\ Recovering' /\ Answered'
  BY <1>1, <1>2, <1>3, HelperAdvances DEF Outstanding, Unresolved
<1>6. Helping'
  BY <1>1, <1>2, <1>3 DEF Helping, Active, Unresolved, Free
<1>7. Journalled'
  BY <1>1, <1>2, <1>3 DEF Journalled, Active, Unresolved, Settled
<1> QED  BY <1>4, <1>5, <1>6, <1>7

\* The candidate runs, and the runner is told so.
LEMMA ApplyAwaitInv == ASSUME IInv, ApplyAwait, Frame PROVE IInv'
<1> USE DEF IInv, Frame
<1>1. /\ helper.op = "apply" /\ helper.step = "finish" /\ Return("ok")
      /\ UNCHANGED <<receipt, faults>> /\ runtime' = jobs[helper.job].captured
      /\ journal' = [journal EXCEPT !.phase = "awaiting"]
  BY DEF ApplyAwait, At, NoFault
<1>2. helper' = Free /\ actor' \in [Actors -> Callers] /\ helper'.op = "none"
      /\ helper'.caller = "none" /\ helper'.job = 0 /\ helper'.step = "none"
  BY <1>1, ReturnFields DEF Answers, Free
<1>3. /\ journal.phase = "applying" /\ journal.job = helper.job /\ ~journal.restored
      /\ ~jobs[helper.job].committed /\ helper.job \in Jobs
  BY <1>1 DEF Helping
<1>4. /\ journal'.phase = "awaiting" /\ journal'.job = journal.job
      /\ journal'.prior = journal.prior /\ journal'.restored = journal.restored
      /\ journal' \in Journals
  BY <1>1 DEF Typed, Journals, Unresolved
<1>5. Typed'
  <2>1. runtime' \in Versions
    BY <1>1, <1>3 DEF Typed, Row
  <2> QED  BY <1>1, <1>2, <1>4, <2>1, Records DEF Typed
<1>6. Rows' /\ Running' /\ Recovering' /\ Answered'
  BY <1>1, <1>2, <1>3, <1>4, HelperAnswers DEF Outstanding, Unresolved, Answers
<1>7. Helping'
  BY <1>1, <1>2 DEF Helping, Actors, Recoverers
<1>8. Journalled'
  BY <1>1, <1>2, <1>3, <1>4 DEF Journalled, Active, Unresolved, Settled
<1> QED  BY <1>5, <1>6, <1>7, <1>8

\* The apply restored what it had: the baseline.
LEMMA ApplyRollbackInv == ASSUME IInv, ApplyRollback, Frame PROVE IInv'
<1> USE DEF IInv, Frame
<1>1. /\ helper.op = "apply" /\ helper.step = "finish" /\ Return("rolledback")
      /\ runtime' = journal.prior /\ receipt' \in {receipt, 0} /\ faults' \in 0..MaxFaults
      /\ \/ journal' = NoJournal
         \/ kind = "network" /\ journal' = [journal EXCEPT !.phase = "rolledback"]
  BY DEF ApplyRollback, At, Fault, Typed
<1>2. helper' = Free /\ actor' \in [Actors -> Callers] /\ helper'.op = "none"
      /\ helper'.caller = "none" /\ helper'.job = 0 /\ helper'.step = "none"
  BY <1>1, ReturnFields DEF Answers, Free
<1>3. journal.phase = "applying" /\ journal.job = helper.job /\ ~jobs[helper.job].committed
      /\ helper.job \in Jobs /\ journal.prior = baseline /\ Newest(helper.job)
      /\ (kind # "handoff" => jobs[helper.job].pend)
  BY <1>1 DEF Helping, Journalled, Rows, Told, Unresolved
<1>4. /\ journal' \in Journals
      /\ journal'.phase # "none" => kind = "network" /\ journal'.phase = "rolledback"
  <2>1. NoJournal \in Journals /\ NoJournal.phase = "none"
    BY Records DEF NoJournal
  <2>2. CASE journal' = NoJournal
    BY <2>1, <2>2
  <2>3. CASE kind = "network" /\ journal' = [journal EXCEPT !.phase = "rolledback"]
    BY <2>3 DEF Typed, Journals, Settled
  <2> QED  BY <1>1, <2>2, <2>3
<1>5. Typed'
  BY <1>1, <1>2, <1>3, <1>4, Records DEF Typed
<1>6. Rows' /\ Running' /\ Recovering' /\ Answered'
  BY <1>1, <1>2, <1>3, <1>4, HelperAnswers DEF Outstanding, Unresolved, Answers
<1>7. Helping'
  BY <1>1, <1>2 DEF Helping, Actors, Recoverers
<1>8. Journalled'
  <2>1. \A j \in Jobs : Newest(j)' => ~jobs'[j].committed
    BY <1>3, OneNewest, NewestKept
  <2> QED  BY <1>1, <1>2, <1>3, <1>4, <2>1 DEF Journalled, Unresolved, Settled
<1> QED  BY <1>5, <1>6, <1>7, <1>8

\* The restoration failed; the task keeps the lock and the journal the rollback.
LEMMA ApplyStuckInv == ASSUME IInv, ApplyStuck, Frame PROVE IInv'
<1> USE DEF IInv, Frame
<1>1. /\ helper.op = "apply" /\ helper.step = "finish" /\ Return("failed")
      /\ UNCHANGED <<runtime, journal, receipt>> /\ faults' \in 0..MaxFaults
  BY DEF ApplyStuck, At, Fault, Typed, host
<1>2. helper' = Free /\ actor' \in [Actors -> Callers] /\ helper'.op = "none"
      /\ helper'.caller = "none" /\ helper'.job = 0 /\ helper'.step = "none"
  BY <1>1, ReturnFields DEF Answers, Free
<1>3. Typed'
  BY <1>1, <1>2, Records DEF Typed
<1>4. Rows' /\ Running' /\ Recovering' /\ Answered'
  BY <1>1, <1>2, HelperAnswers DEF Outstanding, Answers
<1>5. Helping'
  BY <1>1, <1>2 DEF Helping, Actors, Recoverers
<1>6. Journalled'
  BY <1>1, NewestKept DEF Journalled, Active
<1> QED  BY <1>3, <1>4, <1>5, <1>6

-----------------------------------------------------------------------------
\* Recovery of a journal that names the task, or of none.
LEMMA RecoverBeginInv == ASSUME IInv, RecoverBegin, Frame PROVE IInv'
<1> USE DEF IInv, Frame
<1>1. /\ helper.op = "recover" /\ helper.step = "begin" /\ UNCHANGED <<runtime,
                                                                       journal,
                                                                       receipt,
                                                                       faults>>
      /\ ~jobs[helper.job].committed /\ helper.job \in Jobs /\ jobs[helper.job].status # "none"
  BY DEF RecoverBegin, At, NoFault, host, Helping
<1>2. ASSUME NEW ans \in {"none", "failed"}, Return(ans), ans = "none" => journal.phase = "none"
      PROVE  IInv'
  <2>1. helper' = Free /\ actor' \in [Actors -> Callers] /\ helper'.op = "none"
        /\ helper'.caller = "none" /\ helper'.job = 0 /\ helper'.step = "none"
    BY <1>2, ReturnFields DEF Answers, Free
  <2>2. Typed'
    BY <1>1, <2>1, Records DEF Typed
  <2>3. Rows' /\ Running' /\ Recovering' /\ Answered'
    BY <1>1, <1>2, <2>1, HelperAnswers DEF Outstanding, Answers
  <2>4. Helping'
    BY <1>1, <2>1 DEF Helping, Actors, Recoverers
  <2>5. Journalled'
    BY <1>1, NewestKept DEF Journalled, Active
  <2> QED  BY <2>2, <2>3, <2>4, <2>5
<1>3. ASSUME NEW s \in {"clear", "settle"}, Advance(s), journal.phase # "none",
             journal.phase \in Unresolved => s = "settle" /\ journal.job = helper.job,
             journal.phase \in Settled => s = "clear"
      PROVE  IInv'
  <2>1. /\ helper'.op = "recover" /\ helper'.job = helper.job /\ helper'.caller = helper.caller
        /\ helper'.step = s /\ helper' \in Helpers /\ UNCHANGED actor
    BY <1>1, <1>3, AdvanceFields
  <2>2. Typed'
    BY <1>1, <2>1 DEF Typed
  <2>3. Rows' /\ Running' /\ Recovering' /\ Answered'
    BY <1>1, <2>1, HelperAdvances DEF Outstanding
  <2>4. Helping'
    <3>1. journal.phase \in Unresolved \/ journal.phase \in Settled
      BY <1>3 DEF Typed, Journals
    <3> QED  BY <1>1, <1>3, <2>1, <3>1 DEF Helping, Free, Unresolved, Settled
  <2>5. Journalled'
    BY <1>1, NewestKept DEF Journalled, Active
  <2> QED  BY <2>2, <2>3, <2>4, <2>5
<1>4. ASSUME journal.phase \in Unresolved, journal.job = helper.job PROVE ~Receipted
  BY <1>1, <1>4 DEF Receipted, Journalled
<1>5. CASE journal.phase = "none"
  <2>1. Return("none")
    BY <1>5 DEF RecoverBegin, Settled, Unresolved
  <2> QED  BY <1>2, <1>5, <2>1
<1>6. CASE journal.phase \in Settled
  <2>1. journal.phase # "none" /\ journal.phase \notin Unresolved
    BY <1>6 DEF Settled, Unresolved
  <2> QED  BY <1>3, <1>6, <2>1 DEF RecoverBegin
<1>7. CASE journal.phase \in Unresolved
  <2>1. journal.phase # "none" /\ journal.phase \notin Settled
    BY <1>7 DEF Settled, Unresolved
  <2>2. CASE journal.job # helper.job
    <3>1. kind # "handoff"
      BY <1>1, <1>7, <2>2 DEF Helping
    <3> QED  BY <1>2, <1>7, <2>1, <2>2, <3>1 DEF RecoverBegin
  <2>3. CASE journal.job = helper.job
    BY <1>3, <1>4, <1>7, <2>1, <2>3 DEF RecoverBegin
  <2> QED  BY <2>2, <2>3
<1> QED  BY <1>5, <1>6, <1>7 DEF Typed, Journals

\* The baseline runs again.
LEMMA RecoverSettleInv == ASSUME IInv, RecoverSettle, Frame PROVE IInv'
<1> USE DEF IInv, Frame
<1>1. /\ helper.op = "recover" /\ helper.step = "settle" /\ UNCHANGED <<
                                                                        receipt,
                                                                        faults>>
      /\ runtime' = journal.prior
      /\ journal' = IF kind = "network" THEN [journal EXCEPT !.phase = "rolledback"] ELSE journal
      /\ IF kind = "handoff" /\ helper.early THEN Return("readiness") ELSE Advance("clear")
  BY DEF RecoverSettle, At, NoFault
<1>2. /\ ~jobs[helper.job].committed /\ helper.job \in Jobs /\ jobs[helper.job].status # "none"
      /\ journal.phase \in Unresolved /\ journal.job = helper.job /\ journal.prior = baseline
      /\ Newest(helper.job) /\ (kind # "handoff" => jobs[helper.job].pend)
  BY <1>1 DEF Helping, Journalled, Rows, Told
<1>3. /\ journal' \in Journals /\ journal'.job = journal.job /\ journal'.prior = journal.prior
      /\ journal'.restored = journal.restored
      /\ IF kind = "network" THEN journal'.phase = "rolledback" ELSE journal'.phase = journal.phase
  BY <1>1 DEF Typed, Journals, Settled
<1>4. Journalled'
  <2>1. \A j \in Jobs : Newest(j)' => ~jobs'[j].committed
    BY <1>2, OneNewest, NewestKept
  <2> QED  BY <1>1, <1>2, <1>3, <2>1 DEF Journalled, Active, Unresolved, Settled
<1>5. journal.phase # "none"
  BY <1>2 DEF Unresolved
<1>6. CASE kind = "handoff" /\ helper.early
  <2>1. helper' = Free /\ actor' \in [Actors -> Callers] /\ helper'.op = "none"
        /\ helper'.caller = "none" /\ helper'.job = 0 /\ helper'.step = "none"
    BY <1>1, <1>6, ReturnFields DEF Answers, Free
  <2>2. Typed'
    BY <1>1, <1>2, <1>3, <2>1, Records DEF Typed
  <2>3. Rows' /\ Running' /\ Recovering' /\ Answered'
    BY <1>1, <1>2, <1>5, <1>6, <2>1, HelperAnswers DEF Outstanding, Answers
  <2>4. Helping'
    BY <1>1, <2>1 DEF Helping, Actors, Recoverers
  <2> QED  BY <1>4, <2>2, <2>3, <2>4
<1>7. CASE ~ (kind = "handoff" /\ helper.early)
  <2>1. /\ helper'.op = "recover" /\ helper'.job = helper.job /\ helper'.caller = helper.caller
        /\ helper'.step = "clear" /\ helper' \in Helpers /\ UNCHANGED actor
    BY <1>1, <1>7, AdvanceFields
  <2>2. Typed'
    BY <1>1, <1>2, <1>3, <2>1 DEF Typed
  <2>3. Rows' /\ Running' /\ Recovering' /\ Answered'
    BY <1>1, <1>2, <1>5, <2>1, HelperAdvances DEF Outstanding
  <2>4. Helping'
    BY <1>1, <1>2, <1>3, <2>1 DEF Helping, Free, Unresolved
  <2> QED  BY <1>4, <2>2, <2>3, <2>4
<1> QED  BY <1>6, <1>7

\* A failed restoration keeps the journal.
LEMMA RecoverFailInv == ASSUME IInv, RecoverFail, Frame PROVE IInv'
<1> USE DEF IInv, Frame
<1>1. /\ helper.op = "recover" /\ helper.step = "settle" /\ UNCHANGED <<
                                                                        journal,
                                                                        receipt>>
      /\ runtime' = Mixed /\ Return("failed") /\ faults' \in 0..MaxFaults
  BY DEF RecoverFail, At, Fault, Typed
<1>2. /\ ~jobs[helper.job].committed /\ journal.phase \in Unresolved /\ journal.job = helper.job
      /\ journal.phase # "none"
  BY <1>1 DEF Helping, Unresolved
<1>3. helper' = Free /\ actor' \in [Actors -> Callers] /\ helper'.op = "none"
      /\ helper'.caller = "none" /\ helper'.job = 0 /\ helper'.step = "none"
  BY <1>1, ReturnFields DEF Answers, Free
<1>4. Typed'
  BY <1>1, <1>3, Records DEF Typed
<1>5. Rows' /\ Running' /\ Recovering' /\ Answered'
  BY <1>1, <1>2, <1>3, HelperAnswers DEF Outstanding, Answers
<1>6. Helping'
  BY <1>1, <1>3 DEF Helping, Actors, Recoverers
<1>7. Journalled'
  BY <1>1, <1>2, NewestKept DEF Journalled, Active, Unresolved, Settled
<1> QED  BY <1>4, <1>5, <1>6, <1>7

-----------------------------------------------------------------------------
\* An acknowledgement settles only the journal of its own task.
LEMMA AckBeginInv == ASSUME IInv, AckBegin, Frame PROVE IInv'
<1> USE DEF IInv, Frame
<1>1. /\ helper.op = "ack" /\ helper.step = "begin" /\ UNCHANGED <<runtime,
                                                                   journal,
                                                                   receipt,
                                                                   faults>>
      /\ helper.job \in Jobs /\ jobs[helper.job].status # "none"
  BY DEF AckBegin, At, NoFault, host, Helping
<1>2. ASSUME NEW ans \in {"committed", "failed"}, Return(ans),
             ans = "committed" => journal.phase = "none"
      PROVE  IInv'
  <2>1. helper' = Free /\ actor' \in [Actors -> Callers] /\ helper'.op = "none"
        /\ helper'.caller = "none" /\ helper'.job = 0 /\ helper'.step = "none"
    BY <1>2, ReturnFields DEF Answers, Free
  <2>2. Typed'
    BY <1>1, <2>1, Records DEF Typed
  <2>3. Rows' /\ Running' /\ Recovering' /\ Answered'
    BY <1>1, <1>2, <2>1, HelperAnswers DEF Outstanding, Answers
  <2>4. Helping'
    BY <1>1, <2>1 DEF Helping, Actors, Recoverers
  <2>5. Journalled'
    BY <1>1, NewestKept DEF Journalled, Active
  <2> QED  BY <2>2, <2>3, <2>4, <2>5
<1>3. ASSUME NEW s \in {"clear", "settle"}, Advance(s), 
             \/ s = "settle" /\ journal.phase = "awaiting" /\ journal.job = helper.job
             \/ s = "clear" /\ journal.phase \in Settled
      PROVE  IInv'
  <2>1. /\ helper'.op = "ack" /\ helper'.job = helper.job /\ helper'.caller = helper.caller
        /\ helper'.step = s /\ helper' \in Helpers /\ UNCHANGED actor
    BY <1>1, <1>3, AdvanceFields
  <2>2. Typed'
    BY <1>1, <2>1 DEF Typed
  <2>3. Rows' /\ Running' /\ Recovering' /\ Answered'
    BY <1>1, <2>1, HelperAdvances DEF Outstanding
  <2>4. Helping'
    BY <1>1, <1>3, <2>1 DEF Helping, Free, Unresolved, Settled
  <2>5. Journalled'
    BY <1>1, NewestKept DEF Journalled, Active
  <2> QED  BY <2>2, <2>3, <2>4, <2>5
<1>4. CASE journal.phase = "none"
  <2>1. \E ans \in {"committed", "failed"} : Return(ans)
    BY <1>4 DEF AckBegin, Settled
  <2> QED  BY <1>2, <1>4, <2>1
<1>5. CASE journal.phase \in Settled
  <2>1. journal.phase # "none"
    BY <1>5 DEF Settled
  <2> QED  BY <1>3, <1>5, <2>1 DEF AckBegin
<1>6. CASE journal.phase \in Unresolved
  <2>1. journal.phase # "none" /\ journal.phase \notin Settled
    BY <1>6 DEF Settled, Unresolved
  <2> QED  BY <1>2, <1>3, <2>1 DEF AckBegin
<1> QED  BY <1>4, <1>5, <1>6 DEF Typed, Journals

\* The committed candidate runs, again where boot had restored the old pair.
LEMMA AckSettleInv == ASSUME IInv, AckSettle, Frame PROVE IInv'
<1> USE DEF IInv, Frame
<1>1. /\ helper.op = "ack" /\ helper.step = "settle" /\ UNCHANGED faults /\ Advance("clear")
      /\ runtime' = IF journal.restored THEN jobs[helper.job].captured ELSE runtime
      /\ journal' = IF kind = "network" THEN [journal EXCEPT !.phase = "committed"]
                    ELSE [journal EXCEPT !.restored = FALSE]
      /\ receipt' = IF kind = "network" THEN receipt ELSE helper.job
  BY DEF AckSettle, At, NoFault
<1>2. /\ journal.phase = "awaiting" /\ journal.job = helper.job /\ journal.phase \in Unresolved
      /\ helper.job \in Jobs
  BY <1>1 DEF Helping, Unresolved
<1>3. /\ jobs[helper.job].committed /\ Newest(helper.job)
      /\ Active(helper.job) /\ jobs[helper.job].status \notin {"none", "pending"}
      /\ (kind # "handoff" => jobs[helper.job].pend)
      /\ jobs[helper.job].captured = baseline
      /\ (~journal.restored => runtime = baseline)
  BY <1>1, <1>2 DEF Helping, Journalled, Rows, Told, Newest
<1>4. /\ journal' \in Journals /\ journal'.job = journal.job /\ journal'.prior = journal.prior
      /\ IF kind = "network" THEN journal'.phase = "committed"
         ELSE journal'.phase = "awaiting" /\ journal'.restored = FALSE
  BY <1>1, <1>2 DEF Typed, Journals, Settled
<1>5. runtime' = baseline
  BY <1>1, <1>3
<1>6. /\ helper'.op = "ack" /\ helper'.job = helper.job /\ helper'.caller = helper.caller
      /\ helper'.step = "clear" /\ helper' \in Helpers /\ UNCHANGED actor
  BY <1>1, AdvanceFields
<1>7. Typed'
  BY <1>1, <1>2, <1>4, <1>5, <1>6 DEF Typed, Helpers
<1>8. Rows' /\ Running' /\ Recovering' /\ Answered'
  BY <1>1, <1>2, <1>6, HelperAdvances DEF Outstanding
<1>9. Helping'
  BY <1>1, <1>2, <1>3, <1>4, <1>5, <1>6 DEF Helping, Free, Unresolved, Active
<1>10. Journalled'
  BY <1>1, <1>2, <1>3, <1>4, <1>5 DEF Journalled, Active, Unresolved, Settled,
                                      Jobs
<1> QED  BY <1>7, <1>8, <1>9, <1>10

\* A failed acknowledgement keeps the journal.
LEMMA AckFailInv == ASSUME IInv, AckFail, Frame PROVE IInv'
<1> USE DEF IInv, Frame
<1>1. /\ helper.op = "ack" /\ helper.step = "settle" /\ UNCHANGED <<journal, receipt>>
      /\ runtime' = (IF journal.restored THEN Mixed ELSE runtime)
      /\ Return("failed") /\ faults' \in 0..MaxFaults
  BY DEF AckFail, At, Fault, Typed
<1>2. /\ journal.phase \in Unresolved /\ journal.job = helper.job
      /\ journal.phase # "none" /\ jobs[helper.job].committed
  BY <1>1 DEF Helping, Unresolved
<1>3. helper' = Free /\ actor' \in [Actors -> Callers] /\ helper'.op = "none"
      /\ helper'.caller = "none" /\ helper'.job = 0 /\ helper'.step = "none"
  BY <1>1, ReturnFields DEF Answers, Free
<1>4. Typed'
  BY <1>1, <1>3, Records DEF Typed
<1>5. Rows' /\ Running' /\ Recovering' /\ Answered'
  BY <1>1, <1>2, <1>3, HelperAnswers DEF Outstanding, Answers
<1>6. Helping'
  BY <1>1, <1>3 DEF Helping, Actors, Recoverers
<1>7. Journalled'
  BY <1>1, <1>2, NewestKept DEF Journalled, Active, Unresolved, Settled
<1> QED  BY <1>4, <1>5, <1>6, <1>7

-----------------------------------------------------------------------------
\* The rollback is dropped with the baseline running.
LEMMA ClearInv == ASSUME IInv, Clear, Frame PROVE IInv'
<1> USE DEF IInv, Frame
<1>1. /\ helper.step = "clear" /\ UNCHANGED <<runtime, faults>> /\ journal' = NoJournal
      /\ receipt' \in {receipt, 0} /\ helper.op \in {"ack", "recover"}
      /\ \E ans \in {"committed", "retired", "rolledback"} : Return(ans)
  BY DEF Clear, ReceiptLeft, NoFault, Helping, Typed, Helpers, Free
<1>2. PICK ans \in {"committed", "retired", "rolledback"} : Return(ans)
  BY <1>1
<1>3. helper' = Free /\ actor' \in [Actors -> Callers] /\ helper'.op = "none"
      /\ helper'.caller = "none" /\ helper'.job = 0 /\ helper'.step = "none"
  BY <1>2, ReturnFields DEF Answers, Free
<1>4. journal' \in Journals /\ journal'.phase = "none"
  BY <1>1, Records DEF NoJournal
<1>5. /\ journal.phase \in Unresolved => journal.job = helper.job
      /\ runtime = baseline
  BY <1>1 DEF Helping, Journalled
<1>6. Typed'
  BY <1>1, <1>3, <1>4, Records DEF Typed
<1>7. Rows' /\ Running' /\ Recovering' /\ Answered'
  BY <1>1, <1>2, <1>3, <1>4, <1>5, HelperAnswers DEF Outstanding, Answers
<1>8. Helping'
  BY <1>1, <1>3 DEF Helping, Actors, Recoverers
<1>9. Journalled'
  BY <1>1, <1>4, <1>5 DEF Journalled, Unresolved, Settled
<1> QED  BY <1>6, <1>7, <1>8, <1>9

\* A rollback that could not be dropped is retried; one of which only the
\* remains could not be dropped is gone.
LEMMA ClearFailInv == ASSUME IInv, ClearFail, Frame PROVE IInv'
<1> USE DEF IInv, Frame
<1>1. /\ helper.step = "clear" /\ Return("failed") /\ helper.op \in {"ack", "recover"}
      /\ UNCHANGED runtime /\ faults' \in 0..MaxFaults /\ receipt' \in {receipt, 0}
      /\ UNCHANGED <<journal, receipt>> \/ journal' = NoJournal
  BY DEF ClearFail, ReceiptLeft, Fault, Typed, host, Helping, Helpers, Free
<1>2. helper' = Free /\ actor' \in [Actors -> Callers] /\ helper'.op = "none"
      /\ helper'.caller = "none" /\ helper'.job = 0 /\ helper'.step = "none"
  BY <1>1, ReturnFields DEF Answers, Free
<1>3. /\ journal.phase \in Unresolved => journal.job = helper.job
      /\ runtime = baseline
  BY <1>1 DEF Helping, Journalled
<1>4. NoJournal \in Journals /\ NoJournal.phase = "none"
  BY Records DEF NoJournal
<1>5. Typed'
  BY <1>1, <1>2, <1>4, Records DEF Typed
<1>6. CASE UNCHANGED <<journal, receipt>>
  <2>1. Rows' /\ Running' /\ Recovering' /\ Answered'
    BY <1>1, <1>2, <1>6, HelperAnswers DEF Outstanding, Answers
  <2>2. Helping'
    BY <1>1, <1>2, <1>6 DEF Helping, Actors, Recoverers
  <2>3. Journalled'
    BY <1>1, <1>6, NewestKept DEF Journalled, Active
  <2> QED  BY <1>5, <2>1, <2>2, <2>3
<1>7. CASE journal' = NoJournal
  <2>1. Rows' /\ Running' /\ Recovering' /\ Answered'
    BY <1>1, <1>2, <1>3, <1>4, <1>7, HelperAnswers DEF Outstanding, Answers
  <2>2. Helping'
    BY <1>1, <1>2, <1>4, <1>7 DEF Helping, Actors, Recoverers
  <2>3. Journalled'
    BY <1>1, <1>3, <1>4, <1>7 DEF Journalled, Unresolved, Settled
  <2> QED  BY <1>5, <2>1, <2>2, <2>3
<1> QED  BY <1>1, <1>6, <1>7

\* No step of the helper breaks the invariant.
LEMMA HelperInv == ASSUME IInv, HelperStep PROVE IInv'
<1>1. Frame
  BY DEF HelperStep, Frame
<1> QED
  BY <1>1, ApplyBeginInv, ApplyRefuseInv, ApplyMutateInv, ApplyAwaitInv,
     ApplyRollbackInv,
     ApplyStuckInv, RecoverBeginInv, RecoverSettleInv, RecoverFailInv, AckBeginInv,
     AckSettleInv, AckFailInv, ClearInv, ClearFailInv DEF HelperStep

-----------------------------------------------------------------------------
(* Calling the helper. *)

\* What a call changes: a helper is launched, or the call fails at once.
LEMMA CallFields ==
    ASSUME IInv, NEW a \in Actors, NEW op \in {"apply", "recover", "ack"}, Call(a, op),
           actor[a].pc # "wait"
    PROVE  /\ actor' \in [Actors -> Callers] /\ helper' \in Helpers
           /\ \A b \in Actors :
                 /\ actor'[b].job = actor[b].job /\ actor'[b].seen = actor[b].seen
                 /\ actor'[b].proven = actor[b].proven
                 /\ actor'[b].doing = IF b = a THEN op ELSE actor[b].doing
           /\ helper.caller # a
           /\ \/ /\ helper'.op = op /\ helper'.job = actor[a].job /\ helper'.caller = a
                 /\ helper'.step = "begin"
                 /\ helper.op # "none" => kind = "handoff" /\ op = "recover"
                 /\ \A b \in Actors :
                       /\ actor'[b].pc = IF b = a THEN "wait"
                                         ELSE IF b = helper.caller THEN "back" ELSE actor[b].pc
                       /\ actor'[b].ans = IF b = helper.caller THEN "failed" ELSE actor[b].ans
              \/ /\ helper' = helper
                 /\ \A b \in Actors :
                       /\ actor'[b].pc = IF b = a THEN "back" ELSE actor[b].pc
                       /\ actor'[b].ans = IF b = a THEN "failed" ELSE actor[b].ans
<1> USE DEF IInv
<1>1. helper.caller # a /\ (helper = Free => helper.caller = "none" /\ helper.op = "none")
  BY DEF Helping, Free
<1> DEFINE launched == [op |-> op, job |-> actor[a].job, caller |-> a,
                        step |-> "begin", early |-> a = "startup"]
           waiting == [actor EXCEPT ![a].pc = "wait", ![a].doing = op]
<1>2. launched \in Helpers
  <2>1. (a = "startup") \in BOOLEAN /\ actor[a].job \in 0..MaxJobs
    BY DEF Typed, Callers
  <2>2. \A e \in BOOLEAN, n \in 0..MaxJobs :
           [op |-> op, job |-> n, caller |-> a, step |-> "begin", early |-> e] \in Helpers
    BY DEF Helpers
  <2> QED  BY <2>1, <2>2, Zenon
<1>3. /\ waiting \in [Actors -> Callers]
      /\ \A b \in Actors :
            /\ waiting[b].job = actor[b].job /\ waiting[b].seen = actor[b].seen
            /\ waiting[b].proven = actor[b].proven /\ waiting[b].ans = actor[b].ans
            /\ waiting[b].doing = IF b = a THEN op ELSE actor[b].doing
            /\ waiting[b].pc = IF b = a THEN "wait" ELSE actor[b].pc
  BY DEF Typed, Callers
<1> HIDE DEF waiting
<1>4. ASSUME NEW c \in Actors, NEW f, f = [waiting EXCEPT ![c].pc = "back", ![c].ans = "failed"]
      PROVE  /\ f \in [Actors -> Callers]
             /\ \A b \in Actors :
                   /\ f[b].job = waiting[b].job /\ f[b].seen = waiting[b].seen
                   /\ f[b].proven = waiting[b].proven /\ f[b].doing = waiting[b].doing
                   /\ f[b].pc = IF b = c THEN "back" ELSE waiting[b].pc
                   /\ f[b].ans = IF b = c THEN "failed" ELSE waiting[b].ans
  <2>1. waiting \in [Actors -> Callers]
    BY <1>3
  <2>2. f \in [Actors -> Callers]
    <3>1. \A r \in Callers : [r EXCEPT !.pc = "back", !.ans = "failed"] \in Callers
      BY DEF Callers
    <3>2. f = [waiting EXCEPT ![c] = [waiting[c] EXCEPT !.pc = "back", !.ans = "failed"]]
      BY <1>4, <2>1 DEF Callers
    <3> QED  BY <2>1, <3>1, <3>2
  <2>3. ASSUME NEW b \in Actors
        PROVE  /\ f[b].job = waiting[b].job /\ f[b].seen = waiting[b].seen
               /\ f[b].proven = waiting[b].proven /\ f[b].doing = waiting[b].doing
               /\ f[b].pc = IF b = c THEN "back" ELSE waiting[b].pc
               /\ f[b].ans = IF b = c THEN "failed" ELSE waiting[b].ans
    BY <1>4, <2>1 DEF Callers
  <2> QED  BY <2>2, <2>3
<1>5. /\ launched.op = op /\ launched.job = actor[a].job /\ launched.caller = a
      /\ launched.step = "begin"
  OBVIOUS
<1> HIDE DEF launched
<1>6. CASE helper = Free
  <2>1. helper' = launched /\ actor' = waiting
    BY <1>6 DEF Call, launched, waiting
  <2>2. \A b \in Actors : b # helper.caller
    BY <1>1, <1>6 DEF Actors, Recoverers
  <2> QED  BY <1>1, <1>2, <1>3, <1>5, <1>6, <2>1, <2>2
<1>7. CASE helper # Free /\ kind = "handoff" /\ op = "recover"
  <2>1. /\ helper' = launched
        /\ actor' = IF helper.caller \in Actors
                    THEN [waiting EXCEPT ![helper.caller].pc = "back",
                                         ![helper.caller].ans = "failed"]
                    ELSE waiting
    BY <1>7 DEF Call, launched, waiting
  <2>2. CASE helper.caller \in Actors
    <3>1. /\ actor' \in [Actors -> Callers]
          /\ \A b \in Actors :
                   /\ actor'[b].job = waiting[b].job /\ actor'[b].seen = waiting[b].seen
                   /\ actor'[b].proven = waiting[b].proven /\ actor'[b].doing = waiting[b].doing
                   /\ actor'[b].pc = IF b = helper.caller THEN "back" ELSE waiting[b].pc
                   /\ actor'[b].ans = IF b = helper.caller THEN "failed" ELSE waiting[b].ans
      BY <1>4, <2>1, <2>2
    <3> QED  BY <1>1, <1>2, <1>3, <1>5, <1>7, <2>1, <3>1
  <2>3. CASE helper.caller \notin Actors
    BY <1>1, <1>2, <1>3, <1>5, <1>7, <2>1, <2>3
  <2> QED  BY <2>2, <2>3
<1>8. CASE helper # Free /\ ~ (kind = "handoff" /\ op = "recover")
  <2>1. helper' = helper /\ actor' = [waiting EXCEPT ![a].pc = "back", ![a].ans = "failed"]
    BY <1>8 DEF Call, waiting
  <2>2. /\ actor' \in [Actors -> Callers]
        /\ \A b \in Actors :
              /\ actor'[b].job = waiting[b].job /\ actor'[b].seen = waiting[b].seen
              /\ actor'[b].proven = waiting[b].proven /\ actor'[b].doing = waiting[b].doing
              /\ actor'[b].pc = IF b = a THEN "back" ELSE waiting[b].pc
              /\ actor'[b].ans = IF b = a THEN "failed" ELSE waiting[b].ans
    BY <1>4, <2>1
  <2> QED  BY <1>1, <1>3, <2>1, <2>2 DEF Typed
<1> QED  BY <1>6, <1>7, <1>8

\* The four places that call the helper.
LEMMA CallInv ==
    ASSUME IInv, NEW a \in Actors, NEW op \in {"apply", "recover", "ack"}, Call(a, op),
           UNCHANGED <<base, baseline, host, jobs, web>>,
           \/ a = "runner" /\ Runner.pc = "ready" /\ op = "apply"
           \/ a = "runner" /\ Runner.pc = "commit" /\ op = "ack"
           \/ a = "runner" /\ Runner.pc = "withdraw" /\ op = "recover"
           \/ a \in Recoverers /\ actor[a].pc = "call" /\ op = actor[a].doing
    PROVE  IInv'
<1> USE DEF IInv, base, host
<1>1. actor[a].pc # "wait" /\ \A j \in Jobs : Newest(j)' <=> Newest(j)
  BY NewestKept DEF Runner
<1> DEFINE m == actor[a].job
<1>2. /\ m \in Jobs /\ jobs[m].status # "none"
      /\ op = "apply" => /\ a = "runner" /\ Newest(m) /\ ~Outstanding /\ ~jobs[m].committed
                         /\ receipt # m /\ jobs[m].status = "running" /\ ~Runner.proven
                         /\ kind # "handoff" => jobs[m].pend
      /\ op = "recover" => ~jobs[m].committed
      /\ op = "ack" => jobs[m].committed
      /\ a # "worker" => Newest(m)
      /\ a = "worker" => kind = "network" /\ (Runner.pc # "idle" => Runner.job # m)
      /\ a \notin {"runner", "worker"} => Runner.pc = "idle"
  BY DEF Running, Runner, Recovering, Engaged, Attends, Recoverers, Newest
<1>3. Typed'
  BY <1>1, CallFields DEF Typed
<1>4. Outstanding' => Outstanding \/ op = "apply"
  BY <1>1, CallFields DEF Outstanding
<1>5. Rows'
  <2>1. op = "apply" => \A j \in Jobs : jobs[j].status # "pending"
    BY <1>2, OneNewest DEF Rows, Told, Active
  <2> QED  BY <1>1, <1>4, <2>1 DEF Rows, Told, Active
<1>6. Running'
  BY <1>1, <1>2, <1>4, CallFields DEF Running, Calling, Runner, Actors,
                                      Recoverers, Helping
<1>7. Recovering'
  BY <1>1, <1>2, <1>4, CallFields DEF Recovering, Engaged, Attends, Runner,
                                      Actors, Recoverers, Helping
<1>8. Answered'
  BY <1>1, <1>2, <1>4, CallFields, OneNewest DEF Answered, Trusted, Recovering,
         Engaged, Attends, Runner, Actors, Recoverers, Helping
<1>9. Helping'
  BY <1>1, <1>2, CallFields, OneNewest DEF Helping, Journalled, Rows, Told,
         Active, Outstanding, Unresolved
<1>10. Journalled'
  BY <1>1 DEF Journalled, Active
<1> QED  BY <1>3, <1>5, <1>6, <1>7, <1>8, <1>9, <1>10

\* A caller that gives up learns nothing, and its helper goes on.
LEMMA GiveUpInv == ASSUME IInv, GiveUp PROVE IInv'
<1> USE DEF IInv
<1> DEFINE c == helper.caller
<1>1. /\ c \in Actors /\ c # "none" /\ faults' \in 0..MaxFaults
      /\ UNCHANGED <<kind, desired, baseline, runtime, journal, receipt, jobs,
                     web, crashes>>
  BY DEF GiveUp, Fault, Typed, host, Actors, Recoverers
<1>2. /\ helper' \in Helpers /\ helper'.op = helper.op /\ helper'.job = helper.job
      /\ helper'.caller = "none" /\ helper'.step = helper.step /\ helper.op # "none"
  BY <1>1 DEF GiveUp, Typed, Helpers, Helping, Free
<1>3. actor' \in [Actors -> Callers]
  BY <1>1 DEF GiveUp, Typed, Callers
<1>4. ASSUME NEW a \in Actors
      PROVE  /\ actor'[a].pc = IF a = c THEN "back" ELSE actor[a].pc
             /\ actor'[a].ans = IF a = c THEN "failed" ELSE actor[a].ans
             /\ actor'[a].job = actor[a].job /\ actor'[a].doing = actor[a].doing
             /\ actor'[a].seen = actor[a].seen /\ actor'[a].proven = actor[a].proven
  BY <1>1 DEF GiveUp, Typed, Callers
<1>5. /\ actor[c].pc = "wait" /\ \A j \in Jobs : Newest(j)' <=> Newest(j)
      /\ Outstanding' <=> Outstanding
  BY <1>1, <1>2, NewestKept DEF Helping, Outstanding
<1>6. Typed'
  BY <1>1, <1>2, <1>3 DEF Typed
<1>7. Rows'
  BY <1>1, <1>5 DEF Rows, Told, Active
<1>8. Running'
  BY <1>1, <1>2, <1>4, <1>5 DEF Running, Calling, Runner, Actors
<1>9. Recovering'
  BY <1>1, <1>2, <1>4, <1>5 DEF Recovering, Engaged, Attends, Runner, Actors,
                                Recoverers
<1>10. Answered'
  BY <1>1, <1>2, <1>4, <1>5 DEF Answered, Trusted
<1>11. Helping'
  BY <1>1, <1>2 DEF Helping, Active, Actors, Recoverers, Free
<1>12. Journalled'
  BY <1>1, <1>5 DEF Journalled, Active
<1> QED  BY <1>6, <1>7, <1>8, <1>9, <1>10, <1>11, <1>12

\* The desired state is not part of a transaction.
LEMMA EditInv == ASSUME IInv, Edit PROVE IInv'
<1> USE DEF IInv
<1>1. /\ UNCHANGED <<kind, baseline, runtime, journal, receipt, jobs, helper,
                     actor, web, crashes, faults>>
      /\ desired' \in Versions
  BY DEF Edit, host, Typed, Versions
<1>2. \A j \in Jobs : Newest(j)' <=> Newest(j)
  BY <1>1, NewestKept
<1>3. Typed' /\ (Outstanding' <=> Outstanding)
  BY <1>1 DEF Typed, Outstanding
<1>4. Rows' /\ Running' /\ Journalled'
  BY <1>1, <1>2, <1>3 DEF Rows, Told, Active, Running, Calling, Runner,
                          Journalled
<1>5. Recovering' /\ Answered' /\ Helping'
  BY <1>1, <1>2, <1>3 DEF Recovering, Engaged, Attends, Runner, Answered,
                          Trusted, Helping, Active
<1> QED  BY <1>3, <1>4, <1>5

-----------------------------------------------------------------------------
(* Recovering callers. *)

\* Without a flag in the newest row nothing of Network or the pair is outstanding.
LEMMA NothingOwed ==
    ASSUME IInv, NEW j \in Jobs, Newest(j), ~jobs[j].pend, kind # "handoff"
    PROVE  ~Outstanding
<1>1. \A i \in Jobs : ~jobs[i].pend
  BY OneNewest DEF IInv, Rows, Told, Active
<1> QED
  BY <1>1 DEF IInv, Outstanding, Journalled, Helping, Typed, Journals,
              Unresolved, Settled

\* While no task holds the lock nothing is outstanding.
LEMMA NothingLeft ==
    ASSUME IInv, Unlocked
    PROVE  ~Outstanding
  BY DEF IInv, Unlocked, Active, Outstanding, Journalled, Helping, Typed,
     Journals,
         Unresolved, Settled

\* A caller that reads the row of the task that holds the lock.
LEMMA LookInv ==
    ASSUME IInv, NEW a \in Recoverers, NEW j \in Jobs, Active(j), Look(a, j),
           UNCHANGED <<kind, desired, baseline, runtime, journal, receipt, jobs, helper,
                       web, crashes, faults>>,
           actor[a].pc # "wait",
           a # "worker" => Runner.pc = "idle",
           a = "startup" => web = "starting",
           a = "console" => kind # "handoff",
           a = "confirm" => /\ kind = "handoff" /\ web = "up"
                            /\ jobs[j].status = "failed" /\ jobs[j].pend,
           a \in {"console", "worker"} => jobs[j].pend,
           a = "worker" => kind = "network" /\ (Runner.pc # "idle" => Runner.job # j)
    PROVE  IInv'
<1> USE DEF IInv
<1>1. Newest(j) /\ jobs[j].status # "none" /\ \A i \in Jobs : Newest(i)' <=> Newest(i)
  BY NewestKept DEF Rows, Told, Newest
<1> DEFINE d == Direction(jobs[j])
           me == [Resting EXCEPT !.pc = IF d = "none" THEN "back" ELSE "call",
                                 !.job = j, !.doing = d, !.seen = jobs[j]]
<1>2. /\ d \in {"none", "ack", "recover"}
      /\ d = "ack" => jobs[j].committed
      /\ d = "recover" => ~jobs[j].committed
      /\ kind # "handoff" => (jobs[j].pend <=> d # "none")
      /\ d = "none" => kind # "handoff" /\ ~jobs[j].pend
  BY DEF Direction, Rows, Told
<1>3. d = "none" => ~Outstanding
  BY <1>1, <1>2, NothingOwed
<1> HIDE DEF d
<1>4. /\ me \in Callers /\ me.job = j /\ me.doing = d /\ me.seen = jobs[j] /\ me.ans = "none"
      /\ me.pc = IF d = "none" THEN "back" ELSE "call"
  <2>1. jobs[j] \in Row /\ j \in 0..MaxJobs
    BY DEF Typed, Jobs
  <2> QED  BY <1>2, <2>1, Records DEF Callers, Resting
<1>5. actor' = [actor EXCEPT ![a] = me] /\ a \in Actors
  BY DEF Look, d, Actors
<1> HIDE DEF me
<1>6. /\ actor' \in [Actors -> Callers] /\ actor'[a] = me
      /\ \A b \in Actors : b # a => actor'[b] = actor[b]
  BY <1>4, <1>5 DEF Typed
<1>7. /\ Typed' /\ (Outstanding' <=> Outstanding) /\ Runner' = Runner
  BY <1>6 DEF Typed, Outstanding, Runner, Recoverers, Actors
<1>8. Rows' /\ Running' /\ Journalled'
  BY <1>1, <1>7 DEF Rows, Told, Active, Running, Calling, Runner, Journalled
<1>9. Recovering'
  <2>1. Attends(a)'
    BY <1>1, <1>2, <1>3, <1>4, <1>6, <1>7 DEF Attends, Rows, Told
  <2>2. \A b \in Recoverers : b # a /\ Engaged(b)' => Attends(b)'
    <3>1. SUFFICES ASSUME NEW b \in Recoverers, b # a, Engaged(b)' PROVE Attends(b)'
      OBVIOUS
    <3>2. actor'[b] = actor[b] /\ Engaged(b) /\ Attends(b)
      BY <1>6, <3>1 DEF Recovering, Engaged, Actors
    <3> QED  BY <1>1, <1>7, <3>2 DEF Attends, Runner
  <2> QED  BY <1>4, <1>6, <1>7, <2>1, <2>2 DEF Recovering, Engaged, Actors,
                  Recoverers
<1>10. Answered'
  BY <1>1, <1>3, <1>4, <1>6, <1>7 DEF Answered, Trusted
<1>11. Helping'
  BY <1>6 DEF Helping, Active
<1> QED  BY <1>7, <1>8, <1>9, <1>10, <1>11

\* A recovering caller calls the helper.
LEMMA ReconcileInv == ASSUME IInv, NEW a \in Recoverers, Reconcile(a) PROVE IInv'
<1>1. a \in Actors /\ actor[a].pc = "call" /\ actor[a].doing \in {"recover", "ack"}
  BY DEF IInv, Reconcile, Recovering, Engaged, Attends, Typed, Callers, Actors
<1> QED  BY <1>1, CallInv DEF Reconcile

\* The web process starts; nobody runs a task.
LEMMA StartInv == ASSUME IInv, Start PROVE IInv'
<1> USE DEF IInv
<1>1. /\ UNCHANGED <<kind, desired, baseline, runtime, journal, receipt, jobs,
                     helper, crashes, faults>>
      /\ web = "down" /\ web' = "starting"
      /\ actor' = [actor EXCEPT !["startup"].pc = "scan"]
  BY DEF Start, base, host
<1>2. actor' \in [Actors -> Callers]
  BY <1>1 DEF Typed, Callers, Actors, Recoverers
<1>3. /\ actor'["startup"].pc = "scan" /\ actor'["startup"].ans = actor["startup"].ans
      /\ actor["startup"].pc = "idle" /\ "startup" \in Actors
      /\ \A b \in Actors : b # "startup" => actor'[b] = actor[b]
  BY <1>1 DEF Typed, Callers, Recovering, Actors, Recoverers
<1>4. \A i \in Jobs : Newest(i)' <=> Newest(i)
  BY <1>1, NewestKept
<1>5. Typed' /\ (Outstanding' <=> Outstanding) /\ Runner' = Runner /\ Runner.pc = "idle"
  BY <1>1, <1>2, <1>3 DEF Typed, Outstanding, Runner, Actors, Running
<1>6. Rows' /\ Running' /\ Journalled'
  BY <1>1, <1>4, <1>5 DEF Rows, Told, Active, Running, Runner, Journalled
<1>7. Recovering'
  BY <1>1, <1>3, <1>4, <1>5 DEF Recovering, Engaged, Attends, Actors, Recoverers
<1>8. Answered' /\ Helping'
  BY <1>1, <1>3, <1>4, <1>5 DEF Answered, Trusted, Helping, Active
<1> QED  BY <1>5, <1>6, <1>7, <1>8

\* Startup looks at the task that holds the lock, if there is one.
LEMMA ScanInv == ASSUME IInv, Scan PROVE IInv'
<1> USE DEF IInv
<1>1. /\ UNCHANGED <<kind, desired, baseline, runtime, journal, receipt, jobs,
                     helper, web, crashes, faults>>
      /\ actor["startup"].pc = "scan" /\ web = "starting" /\ Runner.pc = "idle"
      /\ "startup" \in Recoverers /\ "startup" \in Actors
  BY DEF Scan, base, host, Recovering, Running, Recoverers, Actors
<1>2. CASE ~Unlocked
  <2>1. PICK j \in Jobs : Active(j) /\ Look("startup", j)
    BY <1>2 DEF Scan
  <2> QED  BY <1>1, <2>1, LookInv
<1>3. CASE Unlocked
  <2>1. actor' = [actor EXCEPT !["startup"].pc = "admit"]
    BY <1>3 DEF Scan
  <2>2. actor' \in [Actors -> Callers]
    BY <2>1 DEF Typed, Callers, Actors, Recoverers
  <2>3. /\ actor'["startup"].pc = "admit" /\ actor'["startup"].ans = actor["startup"].ans
        /\ \A b \in Actors : b # "startup" => actor'[b] = actor[b]
    BY <1>1, <2>1 DEF Typed, Callers
  <2>4. \A i \in Jobs : Newest(i)' <=> Newest(i)
    BY <1>1, NewestKept
  <2>5. Typed' /\ (Outstanding' <=> Outstanding) /\ Runner' = Runner
    BY <1>1, <2>2, <2>3 DEF Typed, Outstanding, Runner, Actors
  <2>6. Rows' /\ Running' /\ Journalled'
    BY <1>1, <2>4, <2>5 DEF Rows, Told, Active, Running, Runner, Journalled
  <2>7. Recovering'
    BY <1>1, <2>3, <2>4, <2>5 DEF Recovering, Engaged, Attends, Actors,
                                  Recoverers
  <2>8. Answered' /\ Helping'
    BY <1>1, <2>3, <2>4, <2>5 DEF Answered, Trusted, Helping, Active
  <2> QED  BY <2>5, <2>6, <2>7, <2>8
<1> QED  BY <1>2, <1>3

\* The console looks at a retained task, which is no handoff.
LEMMA RetryInv == ASSUME WebOnly, IInv, Retry PROVE IInv'
<1>1. PICK j \in Jobs : /\ jobs[j].status \in {"failed", "cancelled"} /\ jobs[j].pend
                        /\ Look("console", j)
  BY DEF Retry
<1>2. /\ UNCHANGED <<kind, desired, baseline, runtime, journal, receipt, jobs,
                     helper, web, crashes, faults>>
      /\ actor["console"].pc = "idle" /\ kind # "handoff"
      /\ "console" \in Recoverers /\ Active(j)
  BY <1>1 DEF Retry, base, host, WebOnly, Recoverers, Active
<1>3. Runner.pc = "idle"
  BY <1>1, <1>2, OneNewest DEF IInv, Running, Rows, Told
<1> QED  BY <1>1, <1>2, <1>3, LookInv

\* The worker looks at a Network task whose cleanup was asked for.
LEMMA WorkerScanInv == ASSUME IInv, WorkerScan PROVE IInv'
<1>1. PICK j \in Jobs : jobs[j].cleanup /\ jobs[j].pend /\ Look("worker", j)
  BY DEF WorkerScan
<1>2. /\ UNCHANGED <<kind, desired, baseline, runtime, journal, receipt, jobs,
                     helper, web, crashes, faults>>
      /\ actor["worker"].pc = "idle" /\ "worker" \in Recoverers /\ Active(j)
  BY <1>1 DEF WorkerScan, base, host, Recoverers, Active
<1>3. kind = "network" /\ (Runner.pc # "idle" => Runner.job # j)
  BY <1>1, <1>2 DEF IInv, Running, Rows, Told
<1> QED  BY <1>1, <1>2, <1>3, LookInv

\* The confirmation looks at the handoff that startup retained.
LEMMA ConfirmInv == ASSUME IInv, Confirm PROVE IInv'
<1> USE DEF IInv
<1> DEFINE j == actor["confirm"].job
<1>1. /\ UNCHANGED <<kind, desired, baseline, runtime, journal, receipt, jobs,
                     helper, web, crashes, faults>>
      /\ actor["confirm"].pc = "scan" /\ "confirm" \in Recoverers
  BY DEF Confirm, base, host, Recoverers
<1>2. /\ kind = "handoff" /\ web = "up" /\ j \in Jobs
      /\ jobs[j].status = "failed" /\ jobs[j].pend /\ Active(j)
  BY <1>1 DEF Recovering, Active
<1>3. Runner.pc = "idle"
  BY <1>2, OneNewest DEF Running, Rows, Told
<1>4. Look("confirm", j)
  BY <1>2 DEF Confirm
<1> QED  BY <1>1, <1>2, <1>3, <1>4, LookInv

\* The end of startup; what it drops is settled.
LEMMA AdmitInv == ASSUME IInv, Admit PROVE IInv'
<1> USE DEF IInv
<1>1. /\ UNCHANGED <<kind, desired, baseline, runtime, receipt, jobs, helper,
                     crashes, faults>>
      /\ actor["startup"].pc = "admit" /\ web' \in {"down", "up"}
      /\ {"startup", "confirm", "runner"} \subseteq Actors
  BY DEF Admit, base, Recoverers, Actors
<1>2. web = "starting" /\ Runner.pc = "idle" /\ actor["confirm"].pc = "idle"
  BY <1>1 DEF Recovering, Running
<1>3. PICK ask \in Callers :
         /\ actor' = [actor EXCEPT !["startup"] = Resting, !["confirm"] = ask]
         /\ ask.ans = "none" /\ ask.pc \in {"idle", "scan"}
         /\ ask.pc = "scan" => /\ web' = "up" /\ ask.job \in Jobs /\ Retained(ask.job)
  <2>1. Resting \in Callers /\ Resting.ans = "none" /\ Resting.pc = "idle"
    BY Records DEF Resting
  <2>2. ASSUME NEW n \in Jobs
        PROVE  /\ [Resting EXCEPT !.pc = "scan", !.job = n] \in Callers
               /\ [Resting EXCEPT !.pc = "scan", !.job = n].ans = "none"
               /\ [Resting EXCEPT !.pc = "scan", !.job = n].pc = "scan"
               /\ [Resting EXCEPT !.pc = "scan", !.job = n].job = n
    <3>1. n \in 0..MaxJobs
      BY DEF Jobs
    <3>2. [Resting EXCEPT !.pc = "scan", !.job = n] \in Callers
      BY <2>1, <3>1 DEF Callers
    <3> QED  BY <2>1, <3>2 DEF Callers
  <2>3. CASE \E i \in Jobs : Retained(i)
    <3> DEFINE n == CHOOSE i \in Jobs : Retained(i)
               q == [Resting EXCEPT !.pc = "scan", !.job = n]
               blocked == kind = "network" /\ (journal.phase \in Unresolved \/ helper # Free)
    <3>1. n \in Jobs /\ Retained(n)
      BY <2>3
    <3>2. q \in Callers /\ q.ans = "none" /\ q.pc = "scan" /\ q.job = n
      BY <2>2, <3>1
    <3>3. /\ web' = IF blocked THEN "down" ELSE "up"
          /\ actor' = [actor EXCEPT !["startup"] = Resting,
                                    !["confirm"] = IF blocked THEN Resting ELSE q]
      BY <2>3 DEF Admit
    <3> HIDE DEF n, q, blocked
    <3>4. CASE blocked
      BY <2>1, <3>3, <3>4
    <3>5. CASE ~blocked
      BY <3>1, <3>2, <3>3, <3>5
    <3> QED  BY <3>4, <3>5
  <2>4. CASE ~ \E i \in Jobs : Retained(i)
    BY <2>1, <2>4 DEF Admit
  <2> QED  BY <2>3, <2>4
<1>4. /\ actor' \in [Actors -> Callers]
      /\ actor'["startup"] = Resting /\ actor'["confirm"] = ask
      /\ \A b \in Actors \ {"startup", "confirm"} : actor'[b] = actor[b]
  BY <1>1, <1>3, Records DEF Typed
<1>5. /\ journal' \in Journals
      /\ journal' = journal \/ (/\ journal.phase \in Settled /\ journal'.phase = "none"
                                /\ helper = Free)
  <2>1. NoJournal \in Journals /\ NoJournal.phase = "none"
    BY Records DEF NoJournal
  <2>2. journal.phase \in Settled => kind = "network"
    BY DEF Journalled
  <2> QED  BY <2>1, <2>2 DEF Admit, Typed
<1>6. Resting.pc = "idle" /\ Resting.ans = "none" /\ Free.op = "none"
  BY DEF Resting, Free
<1>7. Runner' = Runner /\ (Outstanding' => Outstanding)
  BY <1>1, <1>4, <1>5 DEF Runner, Outstanding
<1>8. \A i \in Jobs : Newest(i)' <=> Newest(i)
  BY <1>1, NewestKept
<1>9. Typed'
  BY <1>1, <1>4, <1>5 DEF Typed
<1>10. Rows' /\ Running'
  BY <1>1, <1>2, <1>4, <1>7, <1>8 DEF Rows, Told, Active, Running, Runner
<1>11. Recovering'
  <2>1. ask.pc = "scan" => kind = "handoff" /\ jobs[ask.job].status = "failed" /\ jobs[ask.job].pend
    BY <1>3 DEF Retained, Rows, Told
  <2>2. ASSUME NEW b \in Recoverers, Engaged(b)' PROVE Attends(b)'
    <3>1. actor'[b] = actor[b] /\ Engaged(b) /\ Attends(b)
      BY <1>3, <1>4, <1>6, <2>2 DEF Recovering, Engaged, Actors
    <3> QED  BY <1>1, <1>2, <1>7, <1>8, <3>1 DEF Attends, Runner
  <2> QED  BY <1>1, <1>3, <1>4, <1>6, <2>1, <2>2 DEF Recovering, Actors,
                  Recoverers
<1>12. Answered'
  BY <1>1, <1>3, <1>4, <1>6, <1>7, <1>8 DEF Answered, Trusted
<1>13. Helping'
  BY <1>1, <1>2, <1>4, <1>5, <1>6 DEF Helping, Active, Free, Actors, Recoverers,
                                      Unresolved
<1>14. Journalled'
  BY <1>1, <1>5, <1>8 DEF Journalled, Active, Unresolved, Settled
<1> QED  BY <1>9, <1>10, <1>11, <1>12, <1>13, <1>14

-----------------------------------------------------------------------------
(* Crashes. *)

\* Processes die, and with them their callers; a caller that lives is as it was.
LEMMA DieInv ==
    ASSUME IInv, NEW K \in SUBSET Actors, actor' = Dead(K),
           UNCHANGED <<kind, baseline, jobs>>, web' \in {web, "down"},
           web' # web => \A a \in {"runner", "startup", "confirm"} : actor'[a].pc = "idle",
           Outstanding' => Outstanding,
           Runner'.pc # "idle" => UNCHANGED <<journal, runtime,
                                              receipt>> /\ helper'.job = helper.job
    PROVE  Rows' /\ Running' /\ Recovering' /\ Answered' /\ actor' \in [Actors -> Callers]
<1> USE DEF IInv
<1>1. Resting.pc = "idle" /\ Resting.ans = "none" /\ Resting \in Callers
  BY Records DEF Resting
<1>2. /\ actor' \in [Actors -> Callers]
      /\ \A a \in Actors : actor'[a] = Resting \/ actor'[a] = actor[a]
  BY <1>1 DEF Dead, Typed
<1>3. \A i \in Jobs : Newest(i)' <=> Newest(i)
  BY NewestKept
<1>4. Runner'.pc # "idle" => Runner' = Runner
  BY <1>1, <1>2 DEF Runner, Actors
<1>5. Rows'
  BY <1>3 DEF Rows, Told, Active
<1>6. Running'
  BY <1>1, <1>2, <1>3, <1>4 DEF Running, Calling, Runner
<1>7. Recovering'
  <2>1. ASSUME NEW b \in Recoverers, Engaged(b)' PROVE Attends(b)'
    <3>1. actor'[b] = actor[b] /\ Engaged(b) /\ Attends(b)
      BY <1>1, <1>2, <2>1 DEF Recovering, Engaged, Actors
    <3> QED  BY <1>1, <1>2, <1>3, <1>4, <3>1 DEF Attends, Runner, Actors
  <2> QED  BY <1>1, <1>2, <2>1 DEF Recovering, Actors, Recoverers
<1>8. Answered'
  BY <1>1, <1>2, <1>3 DEF Answered, Trusted
<1> QED  BY <1>2, <1>5, <1>6, <1>7, <1>8

\* A process dies between any two steps.
LEMMA CrashInv == ASSUME IInv, NEW p \in {"web", "console", "worker"}, Crash(p) PROVE IInv'
<1> USE DEF IInv
<1>1. /\ UNCHANGED <<kind, desired, baseline, runtime, journal, receipt, jobs, faults>>
      /\ crashes' \in 0..MaxCrashes /\ web' = (IF p = "web" THEN "down" ELSE web)
      /\ actor' = Dead(Killed(p)) /\ Killed(p) \in SUBSET Actors
      /\ helper' = IF helper.caller \in Killed(p) THEN [helper EXCEPT !.caller = "none"] ELSE helper
  BY DEF Crash, host, Typed, Killed, Process, Actors, Recoverers
<1>2. /\ helper' \in Helpers /\ helper'.op = helper.op /\ helper'.job = helper.job
      /\ helper'.step = helper.step
      /\ helper'.caller = IF helper.caller \in Killed(p) THEN "none" ELSE helper.caller
      /\ helper.caller \in Actors => helper.op # "none"
      /\ helper = Free => helper' = Free
  <2>1. "none" \notin Actors /\ Killed(p) \subseteq Actors /\ helper \in Helpers
    BY <1>1 DEF Typed, Actors, Recoverers
  <2>2. helper.caller \in Actors => helper.op # "none"
    BY <2>1 DEF Helping, Free
  <2>3. CASE helper.caller \in Killed(p)
    <3>1. helper' = [helper EXCEPT !.caller = "none"] /\ helper # Free
      BY <1>1, <2>1, <2>3 DEF Free
    <3> QED  BY <2>1, <2>2, <2>3, <3>1 DEF Helpers
  <2>4. CASE helper.caller \notin Killed(p)
    BY <1>1, <2>1, <2>2, <2>4
  <2> QED  BY <2>3, <2>4
<1>3. p = "web" => \A a \in {"runner", "startup", "confirm"} : actor'[a].pc = "idle"
  <2>1. SUFFICES ASSUME p = "web", NEW a \in {"runner", "startup", "confirm"}
                 PROVE  a \in Killed(p) \/ actor[a].pc = "idle"
    BY <1>1 DEF Dead, Actors, Recoverers, Resting
  <2>2. a \in {"startup", "confirm"} => a \in Killed(p)
    BY <2>1 DEF Killed, Process
  <2>3. a = "runner" /\ Runner.pc # "idle" => a \in Killed(p)
    BY <2>1 DEF Killed, Running, Rows, Told
  <2> QED  BY <2>2, <2>3 DEF Runner
<1>4. Outstanding' <=> Outstanding
  BY <1>1, <1>2 DEF Outstanding
<1>5. Rows' /\ Running' /\ Recovering' /\ Answered' /\ actor' \in [Actors -> Callers]
  BY <1>1, <1>2, <1>3, <1>4, DieInv
<1>6. Typed'
  BY <1>1, <1>2, <1>5 DEF Typed
<1>7. Helping'
  <2>1. helper'.caller \in Actors => actor'[helper'.caller] = actor[helper.caller]
    BY <1>1, <1>2 DEF Dead, Actors, Recoverers
  <2> QED  BY <1>1, <1>2, <2>1 DEF Helping, Active, Free, Actors, Recoverers
<1>8. Journalled'
  BY <1>1, NewestKept DEF Journalled, Active
<1> QED  BY <1>5, <1>6, <1>7, <1>8

\* Boot restores only what the application has not committed, or keeps what it
\* needs to install the candidate again.
LEMMA RebootInv == ASSUME IInv, Reboot PROVE IInv'
<1> USE DEF IInv
<1> DEFINE undecided == kind = "publishing" /\ journal.phase \in Unresolved /\ ~Receipted
<1>1. /\ UNCHANGED <<kind, desired, baseline, receipt, jobs, faults>>
      /\ crashes' \in 0..MaxCrashes /\ web' = "down" /\ actor' = Dead(Actors) /\ helper' = Free
      /\ journal' = IF undecided THEN [journal EXCEPT !.restored = TRUE]
                    ELSE IF kind = "publishing" THEN NoJournal ELSE journal
      /\ runtime' \in IF undecided THEN {journal.prior, Mixed} ELSE {runtime}
  BY DEF Reboot, Typed
<1>2. /\ helper' \in Helpers /\ helper'.op = "none" /\ helper'.job = 0 /\ helper'.step = "none"
      /\ helper'.caller = "none" /\ "none" \notin Actors
  BY <1>1, Records DEF Free, Actors, Recoverers
<1>3. \A a \in Actors : actor'[a] = Resting
  BY <1>1 DEF Dead
<1>4. NoJournal \in Journals /\ NoJournal.phase = "none" /\ Resting.pc = "idle"
  BY Records DEF NoJournal, Resting
<1>5. CASE undecided
  <2>1. /\ journal' \in Journals /\ journal'.phase = journal.phase /\ journal'.job = journal.job
        /\ journal'.prior = journal.prior /\ journal'.restored = TRUE
    BY <1>1, <1>5 DEF Typed, Journals
  <2>2. runtime' \in Versions \cup {Mixed} /\ receipt # journal.job
    BY <1>1, <1>5 DEF Typed, Journals, Receipted
  <2>3. Rows' /\ Running' /\ Recovering' /\ Answered' /\ actor' \in [Actors -> Callers]
    BY <1>1, <1>2, <1>3, <1>4, <2>1, DieInv DEF Outstanding, Runner, Actors,
           Recoverers
  <2>4. Typed'
    BY <1>1, <1>2, <2>1, <2>2, <2>3 DEF Typed
  <2>5. Helping'
    BY <1>1, <1>2 DEF Helping
  <2>6. Journalled'
    BY <1>1, <1>5, <2>1, <2>2 DEF Journalled, Active, Unresolved, Settled
  <2> QED  BY <2>3, <2>4, <2>5, <2>6
<1>6. CASE ~undecided
  <2>1. /\ journal' \in Journals /\ runtime' = runtime
        /\ journal' = journal \/ (journal'.phase = "none" /\ kind = "publishing")
    BY <1>1, <1>4, <1>6 DEF Typed
  <2>2. kind = "publishing" => runtime = baseline
    BY <1>6 DEF Journalled, Receipted
  <2>3. Rows' /\ Running' /\ Recovering' /\ Answered' /\ actor' \in [Actors -> Callers]
    BY <1>1, <1>2, <1>3, <1>4, <2>1, DieInv DEF Outstanding, Runner, Actors,
           Recoverers
  <2>4. Typed'
    BY <1>1, <1>2, <2>1, <2>3 DEF Typed
  <2>5. Helping'
    BY <1>1, <1>2 DEF Helping
  <2>6. Journalled'
    BY <1>1, <2>1, <2>2, NewestKept DEF Journalled, Active, Unresolved, Settled
  <2> QED  BY <2>3, <2>4, <2>5, <2>6
<1> QED  BY <1>5, <1>6

-----------------------------------------------------------------------------
(* Writing a row. *)

\* A write to the newest row that keeps the flags as long as something is
\* outstanding.
LEMMA RowInv ==
    ASSUME IInv, NEW j \in Jobs, Newest(j), jobs' \in [Jobs -> Row],
           \A i \in Jobs : i # j => jobs'[i] = jobs[i],
           UNCHANGED <<kind, baseline, runtime, journal, receipt, helper>>,
           helper.caller \in Actors => actor'[helper.caller] = actor[helper.caller],
           jobs'[j].status \notin {"none", "pending"},
           jobs'[j].by = jobs[j].by, jobs'[j].captured = jobs[j].captured,
           jobs'[j].cleanup => kind = "network", jobs'[j].readiness => kind = "handoff",
           jobs'[j].committed => jobs[j].committed,
           jobs[j].committed /\ ~jobs'[j].committed => ~Outstanding,
           jobs'[j].committed /\ kind = "handoff" => jobs'[j].pend,
           Outstanding => jobs'[j].pend \/ (kind = "handoff" /\ jobs'[j].status = "running")
    PROVE  /\ Rows' /\ Helping' /\ Journalled'
           /\ \A i \in Jobs : Newest(i)' <=> Newest(i)
           /\ Outstanding' <=> Outstanding
<1> USE DEF IInv
<1>1. /\ jobs[j].status # "none" /\ \A i \in Jobs : Newest(i)' <=> Newest(i)
      /\ Outstanding' <=> Outstanding
  BY NewestKept DEF Newest, Outstanding
<1>2. \A i \in Jobs : Active(i) \/ jobs[i].pend => i = j
  BY OneNewest DEF Rows, Told, Active
<1>3. Rows'
  BY <1>1 DEF Rows, Told, Active
<1>4. Helping'
  BY <1>1, <1>2 DEF Helping, Active, Outstanding, Unresolved
<1>5. Journalled'
  <2>1. journal.phase \in Settled => \E i \in Jobs : jobs'[i].pend
    BY <1>1 DEF Journalled, Outstanding, Settled
  <2>2. journal.phase = "rolledback" => \A i \in Jobs : Newest(i)' => ~jobs'[i].committed
    BY <1>1 DEF Journalled
  <2>3. receipt # 0 => jobs'[receipt].status \notin {"none", "pending"}
    BY DEF Journalled, Typed, Jobs
  <2>4. journal.phase \in Unresolved => journal.job = j /\ Outstanding
    BY <1>2 DEF Journalled, Outstanding, Unresolved
  <2> QED  BY <1>1, <2>1, <2>2, <2>3, <2>4 DEF Journalled, Active
<1> QED  BY <1>1, <1>3, <1>4, <1>5

\* While the runner works, only the worker recovers, and another task.
LEMMA Alone ==
    ASSUME IInv, Runner.pc # "idle"
    PROVE  /\ \A a \in Recoverers \ {"worker"} : actor[a].pc = "idle"
           /\ Engaged("worker") => actor["worker"].job # Runner.job
<1>1. \A a \in Recoverers \ {"worker"} : ~Engaged(a)
  BY DEF IInv, Recovering, Attends
<1>2. actor["startup"].pc = "idle" /\ actor["confirm"].pc = "idle"
  BY OneNewest DEF IInv, Recovering, Running, Rows, Told, Active
<1>3. Engaged("worker") => actor["worker"].job # Runner.job
  BY DEF IInv, Recovering, Attends, Recoverers
<1> QED  BY <1>1, <1>2, <1>3 DEF IInv, Recovering, Engaged, Recoverers

\* A step of the runner that writes its row.
LEMMA RunnerWrites ==
    ASSUME IInv, NEW j \in Jobs, Newest(j), jobs' \in [Jobs -> Row],
           \A i \in Jobs : i # j => jobs'[i] = jobs[i], jobs'[j].status # "none",
           UNCHANGED <<kind, journal, helper, web>>,
           NEW c \in Callers, actor' = [actor EXCEPT !["runner"] = c],
           c.pc # "back", c.pc # "idle" => c.job = j, c.ans = "readiness" => kind = "handoff",
           \A a \in Recoverers \ {"worker"} : actor[a].pc = "idle",
           Engaged("worker") => actor["worker"].job # j
    PROVE  /\ Recovering' /\ Answered' /\ actor' \in [Actors -> Callers] /\ Runner' = c
<1> USE DEF IInv
<1>1. /\ jobs[j].status # "none" /\ \A i \in Jobs : Newest(i)' <=> Newest(i)
      /\ Outstanding' <=> Outstanding
  BY NewestKept DEF Newest, Outstanding
<1>2. /\ actor' \in [Actors -> Callers] /\ actor'["runner"] = c /\ "runner" \notin Recoverers
      /\ \A a \in Recoverers : actor'[a] = actor[a]
      /\ \A a \in Actors : a # "runner" => a \in Recoverers
  BY DEF Typed, Actors, Recoverers
<1>3. Recovering'
  <2>1. ASSUME NEW b \in Recoverers, Engaged(b)' PROVE Attends(b)'
    <3>1. actor'[b] = actor[b] /\ Engaged(b) /\ Attends(b) /\ b = "worker"
      BY <1>2, <2>1 DEF Recovering, Engaged
    <3> QED  BY <1>1, <1>2, <3>1 DEF Attends, Runner
  <2> QED  BY <1>2, <2>1 DEF Recovering, Recoverers
<1>4. Answered'
  <2>1. ASSUME NEW a \in Actors, Trusted(a)' PROVE Trusted(a)
    <3>1. a # "runner" /\ actor'[a] = actor[a]
      BY <1>2, <2>1 DEF Trusted
    <3> QED  BY <1>1, <2>1, <3>1 DEF Trusted
  <2>2. \A a \in Actors : actor'[a].ans = "readiness" => kind = "handoff"
    BY <1>2 DEF Answered
  <2> QED  BY <1>1, <2>1, <2>2 DEF Answered
<1> QED  BY <1>2, <1>3, <1>4 DEF Runner

-----------------------------------------------------------------------------
(* The runner. *)

\* The runner goes on to another place, or is over.
LEMMA Moves ==
    ASSUME Typed, NEW pc \in {"ready", "commit", "final"}
    PROVE  LET c == [Runner EXCEPT !.pc = pc]
           IN  /\ RunnerAt(pc) = [actor EXCEPT !["runner"] = c] /\ c \in Callers /\ c.pc = pc
               /\ c.job = Runner.job /\ c.doing = Runner.doing /\ c.ans = Runner.ans
               /\ c.proven = Runner.proven
<1>1. Runner \in Callers
  BY DEF Runner, Typed, Actors
<1>2. RunnerAt(pc) = [actor EXCEPT !["runner"] = [Runner EXCEPT !.pc = pc]]
  BY DEF RunnerAt, Runner
<1> QED  BY <1>1, <1>2 DEF Callers

\* The runner gives its task up.
LEMMA Rests ==
    /\ Rest("runner") = [actor EXCEPT !["runner"] = Resting]
    /\ Resting \in Callers /\ Resting.pc = "idle" /\ Resting.ans = "none"
  BY Records DEF Rest, Resting

\* The newest task, which waits, is claimed.
LEMMA ClaimInv == ASSUME IInv, NEW j \in Jobs, Claim(j) PROVE IInv'
<1> USE DEF IInv
<1> DEFINE c == [Resting EXCEPT !.pc = "claimed", !.job = j]
<1>1. /\ UNCHANGED <<kind, desired, baseline, runtime, journal, receipt,
                     helper, web, crashes, faults>>
      /\ jobs' = [jobs EXCEPT ![j].status = "running"] /\ actor' = [actor EXCEPT !["runner"] = c]
      /\ jobs[j].status = "pending" /\ Runner.pc = "idle" /\ jobs[j].by = "web" /\ web = "up"
      /\ actor["console"].pc = "idle"
  BY DEF Claim, base, host, WriterFree, Rows, Told
<1>2. /\ c \in Callers /\ c.pc = "claimed" /\ c.job = j /\ c.ans = "none" /\ ~c.proven
  <2>1. j \in 0..MaxJobs
    BY DEF Jobs
  <2>2. Resting \in Callers /\ Resting.ans = "none" /\ Resting.proven = FALSE
    BY Records DEF Resting
  <2>3. c \in Callers
    BY <2>1, <2>2 DEF Callers
  <2> QED  BY <2>2, <2>3 DEF Callers
<1> HIDE DEF c
<1>3. /\ Newest(j) /\ ~jobs[j].pend /\ ~jobs[j].committed /\ ~jobs[j].cleanup
      /\ ~Outstanding /\ receipt # j
  BY <1>1 DEF Rows, Told, Active, Journalled, Jobs
<1>4. jobs' \in [Jobs -> Row]
  BY <1>1 DEF Typed, Row
<1>5. /\ \A i \in Jobs : i # j => jobs'[i] = jobs[i]
      /\ jobs'[j].status = "running" /\ jobs'[j].by = jobs[j].by
      /\ jobs'[j].captured = jobs[j].captured /\ jobs'[j].pend = jobs[j].pend
      /\ jobs'[j].committed = jobs[j].committed /\ jobs'[j].cleanup = jobs[j].cleanup
      /\ jobs'[j].readiness = jobs[j].readiness
  BY <1>1 DEF Typed, Row
<1>6. /\ \A a \in Recoverers \ {"worker"} : actor[a].pc = "idle"
      /\ Engaged("worker") => actor["worker"].job # j
  <2>1. actor["confirm"].pc = "idle"
    BY <1>1, <1>3, OneNewest DEF Recovering, Rows, Told, Active
  <2> QED  BY <1>1, <2>1 DEF Recovering, Attends, Recoverers
<1>7. /\ Recovering' /\ Answered' /\ actor' \in [Actors -> Callers] /\ Runner' = c
  BY <1>1, <1>2, <1>3, <1>4, <1>5, <1>6, RunnerWrites
<1>8. helper.caller \in Actors => actor'[helper.caller] = actor[helper.caller]
  BY <1>1 DEF Helping, Runner, Typed
<1>9. /\ Rows' /\ Helping' /\ Journalled' /\ \A i \in Jobs : Newest(i)' <=> Newest(i)
      /\ Outstanding' <=> Outstanding
  BY <1>1, <1>3, <1>4, <1>5, <1>8, RowInv DEF Rows, Told
<1>10. Typed'
  BY <1>1, <1>4, <1>7 DEF Typed
<1>11. Running'
  BY <1>1, <1>2, <1>3, <1>5, <1>7, <1>9 DEF Running, Calling, Runner
<1> QED  BY <1>7, <1>9, <1>10, <1>11

\* Nothing is outstanding, and the runner ends its task.
LEMMA EndInv ==
    ASSUME IInv, Runner.pc \in {"claimed", "ready", "final"}, actor' = Rest("runner"),
           NEW s \in Terminal, jobs' = [jobs EXCEPT ![Runner.job].status = s],
           UNCHANGED <<kind, desired, baseline, runtime, journal, receipt,
                       helper, web, crashes>>,
           faults' \in 0..MaxFaults
    PROVE  IInv'
<1> USE DEF IInv
<1> DEFINE j == Runner.job
<1>1. /\ j \in Jobs /\ Newest(j) /\ ~Outstanding /\ ~jobs[j].cleanup
      /\ s \notin {"none", "pending"}
  BY DEF Running, Terminal
<1>2. jobs' \in [Jobs -> Row]
  BY <1>1 DEF Typed, Row
<1>3. /\ \A i \in Jobs : i # j => jobs'[i] = jobs[i]
      /\ jobs'[j].status = s /\ jobs'[j].by = jobs[j].by
      /\ jobs'[j].captured = jobs[j].captured /\ jobs'[j].pend = jobs[j].pend
      /\ jobs'[j].committed = jobs[j].committed /\ jobs'[j].cleanup = jobs[j].cleanup
      /\ jobs'[j].readiness = jobs[j].readiness
  BY <1>1 DEF Typed, Row
<1>4. /\ \A a \in Recoverers \ {"worker"} : actor[a].pc = "idle"
      /\ Engaged("worker") => actor["worker"].job # j
  BY Alone
<1>5. /\ Recovering' /\ Answered' /\ actor' \in [Actors -> Callers] /\ Runner' = Resting
  BY <1>1, <1>2, <1>3, <1>4, Rests, RunnerWrites
<1>6. helper.caller \in Actors => actor'[helper.caller] = actor[helper.caller]
  BY Rests DEF Helping, Runner, Typed
<1>7. Rows' /\ Helping' /\ Journalled'
  BY <1>1, <1>2, <1>3, <1>6, RowInv DEF Rows, Told
<1>8. Typed'
  BY <1>2, <1>5 DEF Typed
<1>9. Running'
  BY <1>5, Rests DEF Running, Runner
<1> QED  BY <1>5, <1>7, <1>8, <1>9

\* The candidate is checked again, and the pending flag published.
LEMMA BeginInv == ASSUME IInv, Begin PROVE IInv'
<1> USE DEF IInv
<1> DEFINE j == Runner.job
<1>1. /\ UNCHANGED <<kind, desired, baseline, runtime, journal, receipt,
                     helper, web, crashes, faults>>
      /\ Runner.pc = "claimed" /\ faults' \in 0..MaxFaults
  BY DEF Begin, base, host, Typed
<1>2. CASE /\ \E s \in {"failed", "cancelled"} : jobs' = [jobs EXCEPT ![j].status = s]
           /\ actor' = Rest("runner")
  BY <1>1, <1>2, EndInv DEF Terminal
<1>3. CASE /\ jobs' = [jobs EXCEPT ![j].pend = kind # "handoff", ![j].committed = FALSE]
           /\ actor' = RunnerAt("ready")
  <2>1. /\ j \in Jobs /\ Newest(j) /\ web = "up" /\ jobs[j].status = "running"
        /\ ~jobs[j].committed /\ ~jobs[j].cleanup /\ ~Outstanding /\ receipt # j /\ ~Runner.proven
        /\ "runner" \in Actors
    BY <1>1 DEF Running, Actors
  <2> DEFINE c == [Runner EXCEPT !.pc = "ready"]
  <2>2. /\ actor' = [actor EXCEPT !["runner"] = c] /\ c \in Callers /\ c.pc = "ready"
        /\ c.job = j /\ ~c.proven /\ c.ans = Runner.ans
    BY <1>3, <2>1, Moves
  <2> HIDE DEF c
  <2>3. PICK p \in BOOLEAN : /\ p <=> kind # "handoff"
                             /\ jobs' = [jobs EXCEPT ![j].pend = p, ![j].committed = FALSE]
    <3>1. (kind # "handoff") \in BOOLEAN
      OBVIOUS
    <3> QED  BY <1>3, <3>1, Zenon
  <2>4. /\ jobs' \in [Jobs -> Row]
        /\ \A i \in Jobs : i # j => jobs'[i] = jobs[i]
        /\ jobs'[j].status = jobs[j].status /\ jobs'[j].by = jobs[j].by
        /\ jobs'[j].captured = jobs[j].captured /\ jobs'[j].pend = p
        /\ ~jobs'[j].committed /\ jobs'[j].cleanup = jobs[j].cleanup
        /\ jobs'[j].readiness = jobs[j].readiness
    <3>1. jobs' \in [Jobs -> Row]
      BY <2>1, <2>3 DEF Typed, Row
    <3> QED  BY <2>1, <2>3, <3>1 DEF Typed, Row
  <2>5. /\ \A a \in Recoverers \ {"worker"} : actor[a].pc = "idle"
        /\ Engaged("worker") => actor["worker"].job # j
    BY <1>1, Alone
  <2>6. /\ Recovering' /\ Answered' /\ actor' \in [Actors -> Callers] /\ Runner' = c
    <3>1. c.ans = "readiness" => kind = "handoff"
      BY <2>1, <2>2 DEF Answered, Runner
    <3> QED  BY <1>1, <2>1, <2>2, <2>3, <2>4, <2>5, <3>1, RunnerWrites
  <2>7. helper.caller \in Actors => actor'[helper.caller] = actor[helper.caller]
    BY <1>1, <2>2 DEF Helping, Runner, Typed
  <2>8. /\ Rows' /\ Helping' /\ Journalled' /\ \A i \in Jobs : Newest(i)' <=> Newest(i)
        /\ Outstanding' <=> Outstanding
    BY <1>1, <2>1, <2>3, <2>4, <2>7, RowInv DEF Rows, Told
  <2>9. Typed'
    BY <1>1, <2>4, <2>6 DEF Typed
  <2>10. Running'
    BY <1>1, <2>1, <2>2, <2>3, <2>4, <2>6, <2>8 DEF Running, Calling, Runner
  <2> QED  BY <2>6, <2>8, <2>9, <2>10
<1> QED  BY <1>2, <1>3 DEF Begin

\* The handoff's own validation refuses before any call.
LEMMA RefusedInv == ASSUME IInv, Refused PROVE IInv'
<1>1. /\ UNCHANGED <<kind, desired, baseline, runtime, journal, receipt,
                     helper, web, crashes>>
      /\ faults' \in 0..MaxFaults
  BY DEF IInv, Refused, Fault, host, Typed
<1> QED  BY <1>1, EndInv DEF Refused, Terminal

\* The task is settled once nothing is outstanding.
LEMMA FinalInv == ASSUME IInv, Final PROVE IInv'
<1>1. /\ UNCHANGED <<kind, desired, baseline, runtime, journal, receipt,
                     helper, web, crashes>>
      /\ faults' \in 0..MaxFaults
  BY DEF IInv, Final, base, host, Typed
<1>2. \E s \in Terminal : jobs' = [jobs EXCEPT ![Runner.job].status = s]
  BY DEF Final, Terminal
<1> QED  BY <1>1, <1>2, EndInv DEF Final

\* The three calls of the runner.
LEMMA RunnerCallsInv == ASSUME IInv, Execute \/ Acknowledge \/ Recover PROVE IInv'
<1>1. "runner" \in Actors
  BY DEF Actors
<1> QED  BY <1>1, CallInv DEF Execute, Acknowledge, Recover

\* The application commits what runs: the baseline moves to the candidate.
LEMMA CommitBaselineInv == ASSUME IInv, CommitBaseline PROVE IInv'
<1> USE DEF IInv
<1> DEFINE j == Runner.job
           c == [Runner EXCEPT !.pc = "commit"]
<1>1. /\ UNCHANGED <<kind, desired, runtime, journal, receipt, helper, web,
                     crashes, faults>>
      /\ Runner.pc = "back" /\ Runner.doing = "apply" /\ Runner.ans = "ok"
      /\ baseline' = jobs[j].captured
      /\ jobs' = [jobs EXCEPT ![j].pend = TRUE, ![j].committed = TRUE]
      /\ actor' = RunnerAt("commit")
  BY DEF CommitBaseline, Back, base, host
<1>2. /\ j \in Jobs /\ Newest(j) /\ web = "up" /\ jobs[j].status = "running"
      /\ ~jobs[j].committed /\ ~jobs[j].cleanup /\ journal.phase = "awaiting" /\ journal.job = j
      /\ ~journal.restored /\ runtime = jobs[j].captured /\ helper.job # j
      /\ journal.phase \in Unresolved /\ Outstanding /\ jobs[j].captured \in Versions
  BY <1>1 DEF Running, Calling, Unresolved, Outstanding, Typed, Row
<1>3. /\ actor' = [actor EXCEPT !["runner"] = c] /\ c \in Callers /\ c.pc = "commit"
      /\ c.job = j /\ c.ans = "ok" /\ c.proven = Runner.proven
  BY <1>1, Moves
<1> HIDE DEF c
<1>4. jobs' \in [Jobs -> Row]
  BY <1>1, <1>2 DEF Typed, Row
<1>5. /\ \A i \in Jobs : i # j => jobs'[i] = jobs[i]
      /\ jobs'[j].status = jobs[j].status /\ jobs'[j].by = jobs[j].by
      /\ jobs'[j].captured = jobs[j].captured /\ jobs'[j].pend /\ jobs'[j].committed
      /\ jobs'[j].cleanup = jobs[j].cleanup /\ jobs'[j].readiness = jobs[j].readiness
  BY <1>1, <1>2 DEF Typed, Row
<1>6. /\ \A a \in Recoverers \ {"worker"} : actor[a].pc = "idle"
      /\ Engaged("worker") => actor["worker"].job # j
  BY <1>1, Alone
<1>7. /\ Recovering' /\ Answered' /\ actor' \in [Actors -> Callers] /\ Runner' = c
  <2>1. UNCHANGED <<kind, journal, helper, web>>
    BY <1>1
  <2>2. /\ jobs'[j].status # "none" /\ c.pc # "back"
        /\ c.ans = "readiness" => kind = "handoff"
    BY <1>2, <1>3, <1>5
  <2>3. j \in Jobs /\ Newest(j)
    BY <1>2
  <2>4. \A i \in Jobs : i # j => jobs'[i] = jobs[i]
    BY <1>5
  <2> HIDE DEF j
  <2> QED  BY <1>3, <1>4, <1>6, <2>1, <2>2, <2>3, <2>4, RunnerWrites
<1>8. /\ \A i \in Jobs : Newest(i)' <=> Newest(i)
      /\ Outstanding' <=> Outstanding
      /\ \A i \in Jobs : Newest(i) \/ Active(i) => i = j
  <2>1. \A i \in Jobs : Newest(i)' <=> Newest(i)
    BY <1>2, <1>5, NewestKept
  <2> QED  BY <1>1, <1>2, <2>1, OneNewest DEF Outstanding, Rows, Told
<1>9. Typed'
  BY <1>1, <1>2, <1>4, <1>7 DEF Typed
<1>10. Rows'
  BY <1>1, <1>2, <1>5, <1>8 DEF Rows, Told, Active
<1>11. Helping'
  <2>1. helper.op # "apply"
    BY <1>2, <1>8 DEF Helping
  <2>2. helper.caller \in Actors => actor'[helper.caller] = actor[helper.caller]
    BY <1>1, <1>3 DEF Helping, Runner, Typed
  <2>3. helper.op # "none" => jobs'[helper.job] = jobs[helper.job]
    BY <1>2, <1>5 DEF Helping
  <2>4. helper.step # "clear"
    BY <1>2, <2>1 DEF Helping, Free, Typed, Helpers
  <2> QED  BY <1>1, <2>1, <2>2, <2>3, <2>4 DEF Helping, Active
<1>12. Journalled'
  <2>1. receipt # 0 => jobs'[receipt].status \notin {"none", "pending"}
    BY <1>2, <1>5 DEF Journalled, Typed, Jobs
  <2>2. journal.phase \notin Settled /\ journal.phase # "rolledback"
    BY <1>2 DEF Settled
  <2>3. /\ journal' = journal /\ kind' = kind /\ receipt' = receipt /\ runtime' = baseline'
        /\ jobs'[journal.job].status = "running" /\ jobs'[journal.job].pend
        /\ jobs'[journal.job].committed
    BY <1>1, <1>2, <1>5
  <2> QED  BY <1>2, <2>1, <2>2, <2>3 DEF Journalled, Active
<1>13. Running'
  <2>1. ~ (kind = "handoff" /\ Runner.proven)
    BY <1>1, <1>2 DEF Running
  <2> QED  BY <1>1, <1>2, <1>3, <1>5, <1>7, <1>8, <2>1 DEF Running, Calling,
                  Runner
<1> QED  BY <1>7, <1>9, <1>10, <1>11, <1>12, <1>13

\* The runtime is given back by a task that has not committed.
LEMMA WithdrawInv == ASSUME IInv, Withdraw PROVE IInv'
<1> USE DEF IInv
<1> DEFINE j == Runner.job
<1>1. /\ UNCHANGED <<kind, desired, baseline, runtime, journal, receipt,
                     helper, jobs, web, crashes>>
      /\ Runner.pc = "back" /\ Runner.doing = "apply" /\ faults' \in 0..MaxFaults
  BY DEF Withdraw, Back, host, Fault, NoFault, Typed
<1>2. PICK p \in BOOLEAN : /\ p <=> Runner.ans = "rolledback"
                           /\ actor' = [actor EXCEPT !["runner"].pc = "withdraw",
                                                        !["runner"].proven = p]
  <2>1. (Runner.ans = "rolledback") \in BOOLEAN
    OBVIOUS
  <2> QED  BY <2>1, Zenon DEF Withdraw
<1> DEFINE c == [Runner EXCEPT !.pc = "withdraw", !.proven = p]
<1>3. /\ actor' = [actor EXCEPT !["runner"] = c] /\ c \in Callers /\ c.pc = "withdraw"
      /\ c.job = j /\ c.ans = Runner.ans /\ c.proven = p
  <2>1. Runner \in Callers
    BY DEF Runner, Typed, Actors
  <2>2. actor' = [actor EXCEPT !["runner"] = c]
    BY <1>2 DEF Runner, Typed, Actors
  <2>3. c \in Callers
    BY <2>1 DEF Callers
  <2> QED  BY <2>1, <2>2, <2>3 DEF Callers
<1> HIDE DEF c
<1>4. /\ j \in Jobs /\ Newest(j) /\ web = "up" /\ jobs[j].status = "running"
      /\ ~jobs[j].committed /\ ~jobs[j].cleanup /\ (kind # "handoff" => jobs[j].pend)
      /\ kind = "handoff" /\ p => ~Outstanding
  BY <1>1, <1>2 DEF Running, Calling
<1>5. /\ \A a \in Recoverers \ {"worker"} : actor[a].pc = "idle"
      /\ Engaged("worker") => actor["worker"].job # j
  BY <1>1, Alone
<1>6. /\ Recovering' /\ Answered' /\ actor' \in [Actors -> Callers] /\ Runner' = c
  <2>1. c.ans = "readiness" => kind = "handoff"
    BY <1>3 DEF Answered, Runner, Actors
  <2> QED  BY <1>1, <1>3, <1>4, <1>5, <2>1, RunnerWrites DEF Typed
<1>7. helper.caller \in Actors => actor'[helper.caller] = actor[helper.caller]
  BY <1>1, <1>3 DEF Helping, Runner, Typed
<1>8. /\ \A i \in Jobs : Newest(i)' <=> Newest(i)
      /\ Outstanding' <=> Outstanding
  BY <1>1, NewestKept DEF Outstanding
<1>9. Typed' /\ Rows' /\ Helping' /\ Journalled'
  BY <1>1, <1>6, <1>7, <1>8 DEF Typed, Rows, Told, Active, Helping, Journalled
<1>10. Running'
  BY <1>1, <1>3, <1>4, <1>6, <1>8 DEF Running, Calling, Runner
<1> QED  BY <1>6, <1>9, <1>10

\* What the runner takes as proof, is one.
LEMMA ConcludeInv == ASSUME IInv, Conclude PROVE IInv'
<1> USE DEF IInv
<1> DEFINE j == Runner.job
<1>1. /\ UNCHANGED <<kind, desired, baseline, runtime, journal, receipt,
                     helper, web, crashes, faults>>
      /\ Runner.pc = "back" /\ Runner.doing \in {"ack", "recover"}
  BY DEF Conclude, Back, base, host
<1>2. /\ j \in Jobs /\ Newest(j) /\ web = "up" /\ jobs[j].status = "running"
      /\ ~jobs[j].cleanup /\ (kind # "handoff" => jobs[j].pend) /\ "runner" \in Actors
  BY <1>1 DEF Running, Actors
<1>3. /\ \A a \in Recoverers \ {"worker"} : actor[a].pc = "idle"
      /\ Engaged("worker") => actor["worker"].job # j
  BY <1>1, Alone
<1>4. Proof(Runner.ans) => ~Outstanding
  <2>1. Runner.ans \notin {"failed", "readiness"} => ~Outstanding
    BY <1>1, <1>2 DEF Answered, Trusted, Runner
  <2>2. kind = "handoff" /\ Runner.proven => ~Outstanding
    BY <1>1 DEF Running
  <2>3. Runner.ans = "readiness" => kind = "handoff"
    BY <1>2 DEF Answered, Runner
  <2> QED  BY <2>1, <2>2, <2>3 DEF Proof
<1>5. ASSUME NEW c \in Callers, actor' = [actor EXCEPT !["runner"] = c], c.pc \in {"final", "idle"},
             c.pc # "idle" => c.job = j, c.ans = "readiness" => kind = "handoff",
             jobs' \in [Jobs -> Row], \A i \in Jobs : i # j => jobs'[i] = jobs[i],
             jobs'[j].status \in {"running", "failed"}, jobs'[j].by = jobs[j].by,
             jobs'[j].captured = jobs[j].captured, jobs'[j].readiness = jobs[j].readiness,
             jobs'[j].committed => jobs[j].committed,
             jobs[j].committed /\ ~jobs'[j].committed => ~Outstanding,
             jobs'[j].committed /\ kind = "handoff" => jobs'[j].pend,
             jobs'[j].cleanup => kind = "network",
             Outstanding => jobs'[j].pend,
             c.pc = "final" => /\ ~Outstanding /\ ~jobs'[j].pend /\ ~jobs'[j].cleanup
                               /\ jobs'[j].status = "running"
      PROVE  IInv'
  <2>1. /\ Recovering' /\ Answered' /\ actor' \in [Actors -> Callers] /\ Runner' = c
    BY <1>1, <1>2, <1>3, <1>5, RunnerWrites
  <2>2. helper.caller \in Actors => actor'[helper.caller] = actor[helper.caller]
    BY <1>1, <1>5 DEF Helping, Runner, Typed
  <2>3. /\ Rows' /\ Helping' /\ Journalled' /\ \A i \in Jobs : Newest(i)' <=> Newest(i)
        /\ Outstanding' <=> Outstanding
    BY <1>1, <1>2, <1>5, <2>2, RowInv DEF Rows, Told
  <2>4. Typed'
    BY <1>1, <1>5, <2>1 DEF Typed
  <2>5. Running'
    BY <1>1, <1>2, <1>5, <2>1, <2>3 DEF Running, Calling, Runner
  <2> QED  BY <2>1, <2>3, <2>4, <2>5
<1>6. CASE Proof(Runner.ans)
  <2>1. jobs' = [jobs EXCEPT ![j] = Clean(jobs[j])] /\ actor' = RunnerAt("final")
    BY <1>6 DEF Conclude
  <2> DEFINE c == [Runner EXCEPT !.pc = "final"]
             r == Clean(jobs[j])
  <2>2. /\ actor' = [actor EXCEPT !["runner"] = c] /\ c \in Callers /\ c.pc = "final"
        /\ c.job = j /\ c.ans = Runner.ans
    BY <2>1, Moves
  <2>3. /\ r \in Row /\ r.status = "running" /\ r.by = jobs[j].by
        /\ r.captured = jobs[j].captured /\ r.readiness = jobs[j].readiness
        /\ r.committed => jobs[j].committed /\ kind # "handoff"
        /\ jobs[j].committed /\ ~r.committed => kind = "handoff"
        /\ r.cleanup = jobs[j].cleanup /\ ~r.pend
    <3>1. jobs[j] \in Row
      BY <1>2 DEF Typed
    <3>2. CASE kind = "handoff"
      <4>1. r = [jobs[j] EXCEPT !.pend = FALSE, !.committed = FALSE]
        BY <3>2 DEF Clean
      <4> HIDE DEF r
      <4> QED  BY <1>2, <3>1, <3>2, <4>1 DEF Row
    <3>3. CASE kind # "handoff"
      <4>1. r = [jobs[j] EXCEPT !.pend = FALSE, !.committed = @]
        BY <3>3 DEF Clean
      <4> HIDE DEF r
      <4> QED  BY <1>2, <3>1, <3>3, <4>1 DEF Row
    <3> QED  BY <3>2, <3>3
  <2> HIDE DEF c, r
  <2>4. /\ jobs' \in [Jobs -> Row] /\ \A i \in Jobs : i # j => jobs'[i] = jobs[i]
        /\ jobs'[j] = r
    BY <1>2, <2>1, <2>3 DEF Typed, r
  <2>5. c.ans = "readiness" => kind = "handoff"
    BY <1>2, <2>2 DEF Answered, Runner
  <2> QED  BY <1>2, <1>4, <1>5, <1>6, <2>2, <2>3, <2>4, <2>5
<1>7. CASE ~Proof(Runner.ans)
  <2>1. /\ actor' = Rest("runner")
        /\ jobs' = IF kind = "network"
                   THEN [jobs EXCEPT ![j].cleanup = TRUE]
                   ELSE [jobs EXCEPT ![j].pend = TRUE, ![j].status = "failed"]
    BY <1>7 DEF Conclude
  <2>2. jobs' \in [Jobs -> Row]
    <3>1. /\ [jobs EXCEPT ![j].cleanup = TRUE] \in [Jobs -> Row]
          /\ [jobs EXCEPT ![j].pend = TRUE, ![j].status = "failed"] \in [Jobs -> Row]
      <4>1. jobs \in [Jobs -> Row] /\ j \in Jobs
        BY <1>2 DEF Typed
      <4>2. [jobs EXCEPT ![j].cleanup = TRUE] \in [Jobs -> Row]
        BY <4>1 DEF Row
      <4>3. [jobs EXCEPT ![j].pend = TRUE, ![j].status = "failed"] \in [Jobs -> Row]
        <5> DEFINE r == [jobs[j] EXCEPT !.pend = TRUE, !.status = "failed"]
        <5>1. r \in Row
          <6>1. jobs[j] \in Row /\ "failed" \in Terminal
            BY <4>1 DEF Terminal
          <6> HIDE DEF j
          <6> QED  BY <6>1 DEF Row
        <5>2. [jobs EXCEPT ![j].pend = TRUE, ![j].status = "failed"] = [jobs EXCEPT ![j] = r]
          BY <4>1
        <5> HIDE DEF r
        <5> QED  BY <4>1, <5>1, <5>2
      <4> QED  BY <4>2, <4>3
    <3> QED  BY <2>1, <3>1
  <2>3. /\ \A i \in Jobs : i # j => jobs'[i] = jobs[i]
        /\ jobs'[j].status \in {"running", "failed"} /\ jobs'[j].by = jobs[j].by
        /\ jobs'[j].captured = jobs[j].captured /\ jobs'[j].readiness = jobs[j].readiness
        /\ jobs'[j].committed = jobs[j].committed
        /\ jobs'[j].cleanup => kind = "network"
        /\ jobs'[j].pend
    BY <1>2, <2>1 DEF Typed, Row
  <2> QED  BY <1>5, <2>1, <2>2, <2>3, Rests
<1> QED  BY <1>6, <1>7

-----------------------------------------------------------------------------
(* Submission and cancellation. *)

\* A task is submitted while nothing is outstanding, and is then the newest.
LEMMA SubmitInv ==
    ASSUME WebOnly, IInv, NEW by \in Runners, NEW j \in Jobs, Submit(by, j)
    PROVE  IInv'
<1> USE DEF IInv
<1> DEFINE r == [NoJob EXCEPT !.status = "pending", !.captured = desired, !.by = by]
<1>1. /\ UNCHANGED <<kind, desired, baseline, runtime, journal, receipt,
                     helper, actor, web, crashes, faults>>
      /\ by = "web" /\ web = "up" /\ Runner.pc = "idle" /\ actor["console"].pc = "idle"
      /\ Unlocked /\ \A i \in Jobs : jobs[i].status = "none" <=> i >= j
      /\ jobs' = [jobs EXCEPT ![j] = r]
  BY DEF Submit, WebOnly, Runner, base, host, WriterFree
<1>2. ~Outstanding /\ journal.phase = "none" /\ helper.op # "apply"
  BY <1>1, NothingLeft DEF Outstanding
<1>3. /\ r \in Row /\ r.status = "pending" /\ r.by = "web" /\ ~r.pend /\ ~r.committed
      /\ ~r.cleanup /\ ~r.readiness
  <2>1. NoJob \in Row /\ ~NoJob.pend /\ ~NoJob.committed /\ ~NoJob.cleanup /\ ~NoJob.readiness
    BY Records DEF NoJob
  <2>2. desired \in Versions /\ by = "web"
    BY <1>1 DEF Typed
  <2> QED  BY <2>1, <2>2 DEF Row
<1> HIDE DEF r
<1>4. /\ jobs' \in [Jobs -> Row] /\ jobs'[j] = r /\ jobs[j].status = "none"
      /\ \A i \in Jobs : i # j => jobs'[i] = jobs[i]
  BY <1>1, <1>3 DEF Typed, Jobs
<1>5. \A i \in Jobs : Newest(i)' <=> i = j
  <2>1. jobs'[j].status # "none" /\ \A i \in Jobs : i > j => jobs'[i].status = "none"
    BY <1>1, <1>3, <1>4 DEF Jobs
  <2> QED  BY <1>3, <1>4, <2>1 DEF Newest, Jobs
<1>6. /\ \A i \in Jobs : ~Active(i)
      /\ actor["startup"].pc = "idle" /\ actor["confirm"].pc = "idle"
  BY <1>1 DEF Unlocked, Recovering, Active
<1>7. /\ helper.op # "none" => helper.job \in Jobs /\ helper.job # j
      /\ Engaged("worker") => actor["worker"].job # j
      /\ receipt # 0 => receipt \in Jobs /\ receipt # j
  <2>1. helper.op # "none" => helper.job \in Jobs /\ helper.job # j
    BY <1>4 DEF Helping
  <2>2. Engaged("worker") => actor["worker"].job # j
    BY <1>4 DEF Recovering, Attends, Recoverers
  <2>3. receipt # 0 => receipt \in Jobs /\ receipt # j
    BY <1>4 DEF Journalled, Typed, Jobs
  <2> QED  BY <2>1, <2>2, <2>3
<1>8. Typed'
  BY <1>1, <1>4 DEF Typed
<1>9. ~Outstanding'
  BY <1>1, <1>2 DEF Outstanding
<1>10. Rows'
  <2>1. Told(j)'
    BY <1>1, <1>3, <1>4, <1>5, <1>9 DEF Told, Active
  <2>2. ASSUME NEW i \in Jobs, i # j PROVE Told(i)'
    BY <1>1, <1>4, <1>5, <1>6, <2>2 DEF Told, Active, Rows
  <2> QED  BY <2>1, <2>2 DEF Rows
<1>11. Running'
  BY <1>1 DEF Running, Runner
<1>12. Recovering'
  <2>1. ASSUME NEW b \in Recoverers, Engaged(b)' PROVE Attends(b)'
    <3>1. Engaged(b) /\ b = "worker" /\ Attends(b) /\ actor[b].job # j
      BY <1>1, <1>6, <1>7, <2>1 DEF Engaged, Recoverers, Recovering
    <3> QED  BY <1>1, <1>4, <1>9, <3>1 DEF Attends, Runner
  <2> QED  BY <1>1, <1>6, <2>1 DEF Recovering
<1>13. Answered'
  BY <1>1, <1>9 DEF Answered
<1>14. Helping'
  BY <1>1, <1>2, <1>4, <1>7 DEF Helping, Unresolved
<1>15. Journalled'
  BY <1>1, <1>2, <1>4, <1>7 DEF Journalled, Unresolved, Settled
<1> QED  BY <1>8, <1>10, <1>11, <1>12, <1>13, <1>14, <1>15

\* A cancellation settles a task that has not started, and is no more than a
\* request otherwise.
LEMMA CancelInv == ASSUME IInv, NEW j \in Jobs, Cancel(j) PROVE IInv'
<1> USE DEF IInv
<1> DEFINE s == IF jobs[j].status = "pending" THEN "cancelled" ELSE "running"
<1>1. /\ UNCHANGED <<kind, desired, baseline, runtime, journal, receipt,
                     helper, actor, web, crashes, faults>>
      /\ web = "up" /\ actor["console"].pc = "idle" /\ jobs[j].status \in {"pending", "running"}
      /\ jobs' = [jobs EXCEPT ![j].cancel = TRUE, ![j].status = s]
  <2>1. /\ web = "up" /\ actor["console"].pc = "idle" /\ jobs[j].status \in {"pending", "running"}
        /\ jobs' = [jobs EXCEPT ![j].cancel = TRUE,
                                ![j].status = IF @ = "pending" THEN "cancelled" ELSE @]
    BY DEF Cancel, WriterFree
  <2>2. [jobs EXCEPT ![j].cancel = TRUE, ![j].status = IF @ = "pending" THEN "cancelled" ELSE @]
        = [jobs EXCEPT ![j].cancel = TRUE, ![j].status = s]
    BY <2>1 DEF Typed
  <2> QED  BY <2>1, <2>2 DEF Cancel, base, host
<1>2. s \in {"running", "cancelled"} /\ (jobs[j].status = "running" => s = "running")
  BY <1>1
<1> HIDE DEF s
<1>3. jobs' \in [Jobs -> Row]
  <2> DEFINE r == [jobs[j] EXCEPT !.cancel = TRUE, !.status = s]
  <2>1. jobs[j] \in Row /\ s \in {"none", "pending", "running"} \cup Terminal
    BY <1>2 DEF Typed, Terminal
  <2>2. r \in Row
    BY <2>1 DEF Row
  <2>3. jobs' = [jobs EXCEPT ![j] = r]
    BY <1>1 DEF Typed
  <2> HIDE DEF r
  <2> QED  BY <2>2, <2>3 DEF Typed
<1>4. /\ \A i \in Jobs : i # j => jobs'[i] = jobs[i]
      /\ jobs'[j].status = s /\ jobs'[j].by = jobs[j].by
      /\ jobs'[j].captured = jobs[j].captured /\ jobs'[j].pend = jobs[j].pend
      /\ jobs'[j].committed = jobs[j].committed /\ jobs'[j].cleanup = jobs[j].cleanup
      /\ jobs'[j].readiness = jobs[j].readiness
  BY <1>1 DEF Typed, Row
<1>5. Newest(j) /\ Active(j)
  BY <1>1 DEF Rows, Told, Active
<1>6. Outstanding => jobs[j].pend \/ (kind = "handoff" /\ s = "running")
  BY <1>1, <1>2, <1>5, NothingOwed DEF Rows, Told
<1>7. /\ Rows' /\ Helping' /\ Journalled' /\ \A i \in Jobs : Newest(i)' <=> Newest(i)
      /\ Outstanding' <=> Outstanding
  BY <1>1, <1>2, <1>3, <1>4, <1>5, <1>6, RowInv DEF Rows, Told
<1>8. actor["startup"].pc = "idle" /\ actor["confirm"].pc = "idle"
  BY <1>1, <1>5, OneNewest DEF Recovering, Rows, Told, Active
<1>9. Typed'
  BY <1>1, <1>3 DEF Typed
<1>10. Running'
  <2>1. Runner.pc # "idle" => Runner.job = j /\ jobs[j].status = "running"
    BY <1>5, OneNewest DEF Running
  <2> QED  BY <1>1, <1>2, <1>4, <1>7, <2>1 DEF Running, Calling, Runner
<1>11. Recovering'
  <2>1. ASSUME NEW b \in Recoverers, Engaged(b)' PROVE Attends(b)'
    <3>1. Engaged(b) /\ b = "worker" /\ Attends(b)
      BY <1>1, <1>8, <2>1 DEF Engaged, Recoverers, Recovering
    <3>2. /\ \A i \in Jobs : jobs'[i].committed = jobs[i].committed
          /\ \A i \in Jobs : jobs[i].status \notin {"none", "pending"} =>
                                jobs'[i].status \notin {"none", "pending"}
      BY <1>2, <1>4
    <3> QED  BY <1>1, <1>7, <3>1, <3>2 DEF Attends, Runner
  <2> QED  BY <1>1, <1>8, <2>1 DEF Recovering
<1>12. Answered'
  BY <1>1, <1>7 DEF Answered, Trusted
<1> QED  BY <1>7, <1>9, <1>10, <1>11, <1>12

-----------------------------------------------------------------------------
(* The write of a recovering caller. *)

\* What the other callers read of the row still tells how far the application
\* got.
LEMMA RecovererWrites ==
    ASSUME IInv, NEW a \in Recoverers, actor[a].pc = "back", Runner.pc = "idle",
           NEW m \in Jobs, Newest(m), actor[a].job = m, jobs' \in [Jobs -> Row],
           \A i \in Jobs : i # m => jobs'[i] = jobs[i],
           jobs'[m].status \notin {"none", "pending"},
           kind # "handoff" => jobs'[m].committed = jobs[m].committed,
           UNCHANGED <<kind, journal, helper, web>>,
           NEW c \in Callers, actor' = [actor EXCEPT ![a] = c], c.ans = "none",
           c.pc = "idle" \/ (a = "startup" /\ c.pc = "admit")
    PROVE  /\ Running' /\ Recovering' /\ Answered' /\ actor' \in [Actors -> Callers]
           /\ helper.caller \in Actors => actor'[helper.caller] = actor[helper.caller]
<1> USE DEF IInv
<1>1. /\ jobs[m].status # "none" /\ \A i \in Jobs : Newest(i)' <=> Newest(i)
      /\ Outstanding' <=> Outstanding
  BY NewestKept DEF Newest, Outstanding
<1>2. /\ actor' \in [Actors -> Callers] /\ actor'[a] = c
      /\ \A b \in Actors : b # a => actor'[b] = actor[b]
      /\ \A b \in Recoverers : b \in Actors
      /\ "runner" \in Actors /\ a # "runner"
  BY DEF Typed, Actors, Recoverers
<1>3. Running'
  BY <1>2 DEF Running, Runner
<1>4. Answered'
  <2>1. ASSUME NEW b \in Actors, Trusted(b)' PROVE ~Outstanding'
    <3>1. b # a /\ actor'[b] = actor[b]
      BY <1>2, <2>1 DEF Trusted
    <3> QED  BY <1>1, <2>1, <3>1 DEF Trusted, Answered
  <2>2. \A b \in Actors : actor'[b].ans = "readiness" => kind = "handoff"
    BY <1>2 DEF Answered
  <2> QED  BY <2>1, <2>2 DEF Answered
<1>5. Attends(a) /\ Engaged(a)
  BY DEF Recovering, Engaged
<1>6. kind = "handoff" =>
         /\ a \in {"startup", "confirm"} /\ actor["console"].pc = "idle"
         /\ ~Engaged("worker")
         /\ a = "startup" => actor["confirm"].pc = "idle"
         /\ a = "confirm" => actor["startup"].pc = "idle"
  BY <1>5 DEF Recovering, Attends, Recoverers, Engaged
<1>7. actor["confirm"].pc # "idle" => a = "confirm"
  BY <1>5 DEF Recovering, Attends, Recoverers, Engaged
<1>8. Recovering'
  <2>1. ASSUME NEW b \in Recoverers, Engaged(b)' PROVE Attends(b)'
    <3>1. b # a /\ actor'[b] = actor[b] /\ Engaged(b) /\ Attends(b)
      BY <1>2, <2>1 DEF Engaged, Recovering
    <3>2. kind # "handoff"
      BY <1>6, <3>1 DEF Engaged, Recoverers
    <3>3. /\ \A i \in Jobs : jobs'[i].committed = jobs[i].committed
          /\ jobs'[actor[b].job].status # "none"
          /\ jobs[actor[b].job].status # "pending" => jobs'[actor[b].job].status # "pending"
      BY <3>1, <3>2 DEF Attends
    <3>4. Runner' = Runner
      BY <1>2 DEF Runner
    <3> QED  BY <1>1, <3>1, <3>2, <3>3, <3>4 DEF Attends
  <2>2. \A b \in Recoverers : b # a => actor'[b] = actor[b]
    BY <1>2
  <2>3. \A b \in Recoverers :
          \/ actor'[b].pc \in {"idle", "call", "wait", "back"}
          \/ b = "startup" /\ actor'[b].pc \in {"scan", "admit"}
          \/ b = "confirm" /\ actor'[b].pc = "scan"
    BY <1>2, <2>2 DEF Recovering
  <2>4. {"startup", "confirm", "console", "worker"} = Recoverers
    BY DEF Recoverers
  <2>5. actor'["startup"].pc # "idle" => web' = "starting"
    BY <1>2, <2>2, <2>4 DEF Recovering
  <2>6. actor'["console"].pc # "idle" => kind' # "handoff"
    BY <1>2, <2>2, <2>4 DEF Recovering
  <2>7. actor'["confirm"].pc = "idle"
    BY <1>2, <1>7, <2>2, <2>4
  <2> QED  BY <2>1, <2>3, <2>5, <2>6, <2>7 DEF Recovering
<1>9. helper.caller \in Actors => actor'[helper.caller] = actor[helper.caller]
  BY <1>2 DEF Helping
<1> QED  BY <1>2, <1>3, <1>4, <1>8, <1>9

\* Recovery gives the lock back only where nothing is outstanding.
LEMMA WriteBackInv == ASSUME IInv, NEW a \in Recoverers, WriteBack(a) PROVE IInv'
<1> USE DEF IInv
<1> DEFINE m == actor[a].job
           seen == actor[a].seen
           ans == actor[a].ans
           r == Rewritten(a, seen, ans, jobs[m])
           c == IF a = "startup" THEN [Resting EXCEPT !.pc = "admit"] ELSE Resting
<1>1. /\ UNCHANGED <<kind, desired, baseline, runtime, journal, receipt,
                     helper, web, crashes, faults>>
      /\ a # "worker" /\ actor[a].pc = "back" /\ a \in Actors
      /\ jobs' = [jobs EXCEPT ![m] = r] /\ actor' = [actor EXCEPT ![a] = c]
  BY DEF WriteBack, base, host, Actors
<1>2. /\ m \in Jobs /\ Newest(m) /\ Runner.pc = "idle" /\ jobs[m].status # "none"
      /\ a = "console" => jobs[m].status # "pending"
      /\ seen.committed = jobs[m].committed /\ actor[a].doing # "apply"
      /\ kind # "handoff" /\ ~seen.pend => actor[a].doing = "none"
      /\ actor[a].doing = "none" => ~Outstanding
  BY <1>1 DEF Recovering, Engaged, Attends
<1>3. /\ ans = "readiness" => kind = "handoff"
      /\ ans \notin {"failed", "readiness"} => ~Outstanding
  BY <1>1, <1>2 DEF Answered, Trusted
<1>4. Recovered(seen, ans) => ~Outstanding
  <2>1. Recovered(seen, ans) =>
          \/ kind = "handoff" /\ ans \in {"committed", "rolledback", "none"}
          \/ kind # "handoff" /\ seen.pend /\ ans # "failed"
          \/ kind # "handoff" /\ ~seen.pend
    <3>1. seen.pend \in BOOLEAN
      BY <1>1 DEF Typed, Callers, Row
    <3> QED  BY <3>1 DEF Recovered
  <2> QED  BY <1>2, <1>3, <2>1
<1>5. c \in Callers /\ c.ans = "none" /\ (c.pc = "idle" \/ (a = "startup" /\ c.pc = "admit"))
  <2>1. Resting \in Callers /\ Resting.ans = "none" /\ Resting.pc = "idle"
    BY Records DEF Resting
  <2> QED  BY <2>1 DEF Callers
<1>6. /\ r \in Row /\ r.status \notin {"none", "pending"} /\ r.by = jobs[m].by
      /\ r.captured = jobs[m].captured
      /\ r.pend <=> ~Recovered(seen, ans)
      /\ r.committed <=> jobs[m].committed /\ ~(Recovered(seen, ans) /\ kind = "handoff")
      /\ r.cleanup => kind = "network"
      /\ r.readiness => kind = "handoff"
  <2>1. PICK s \in {"running", "failed"} \cup {jobs[m].status},
             p \in BOOLEAN, q \in BOOLEAN, h \in BOOLEAN, d \in BOOLEAN :
          /\ r = [jobs[m] EXCEPT !.status = s, !.pend = p, !.committed = q, !.cleanup = h,
                                 !.readiness = d]
          /\ s \notin {"running", "failed"} => a = "console"
          /\ p <=> ~Recovered(seen, ans)
          /\ q <=> seen.committed /\ ~(Recovered(seen, ans) /\ kind = "handoff")
          /\ h <=> ~Recovered(seen, ans) /\ kind = "network" /\ a # "console"
          /\ d <=> ans = "readiness"
    <3> DEFINE held == ~Recovered(seen, ans) /\ kind = "network" /\ a # "console"
               s == IF a = "console" THEN jobs[m].status ELSE IF held THEN "running" ELSE "failed"
    <3>1. r = [jobs[m] EXCEPT !.status = s, !.pend = ~Recovered(seen, ans),
                   !.committed = seen.committed /\ ~(Recovered(seen, ans) /\ kind = "handoff"),
                   !.cleanup = held, !.readiness = (ans = "readiness")]
      BY Zenon DEF Rewritten
    <3>2. /\ s \in {"running", "failed"} \cup {jobs[m].status}
          /\ (s \notin {"running", "failed"} => a = "console")
      OBVIOUS
    <3>3. /\ (~Recovered(seen, ans)) \in BOOLEAN /\ held \in BOOLEAN
          /\ (ans = "readiness") \in BOOLEAN
          /\ (seen.committed /\ ~(Recovered(seen, ans) /\ kind = "handoff")) \in BOOLEAN
      OBVIOUS
    <3> HIDE DEF s, r
    <3> QED  BY <3>1, <3>2, <3>3, Zenon
  <2> HIDE DEF r
  <2>2. /\ jobs[m] \in Row
        /\ {"running", "failed"} \subseteq {"none", "pending", "running"} \cup Terminal
    BY <1>2 DEF Typed, Terminal
  <2>3. s \in {"none", "pending", "running"} \cup Terminal
    BY <2>2 DEF Row
  <2>4. s \notin {"none", "pending"}
    BY <1>2, <2>1
  <2>5. r \in Row
    BY <2>1, <2>2, <2>3 DEF Row
  <2>6. /\ r.status = s /\ r.by = jobs[m].by /\ r.captured = jobs[m].captured /\ r.pend = p
        /\ r.committed = q /\ r.cleanup = h /\ r.readiness = d
    BY <2>1, <2>2 DEF Row
  <2> QED  BY <1>2, <1>3, <2>1, <2>4, <2>5, <2>6
<1> HIDE DEF r, c
<1>7. /\ jobs' \in [Jobs -> Row] /\ jobs'[m] = r /\ \A i \in Jobs : i # m => jobs'[i] = jobs[i]
  BY <1>1, <1>2, <1>6 DEF Typed
<1>8. jobs[m].committed /\ kind # "handoff" => r.committed
  BY <1>6
<1>9. kind # "handoff" => r.committed = jobs[m].committed
  <2>1. r.committed \in BOOLEAN /\ jobs[m].committed \in BOOLEAN
    BY <1>2, <1>6 DEF Typed, Row
  <2>2. kind # "handoff" => (r.committed <=> jobs[m].committed)
    BY <1>6
  <2> QED  BY <2>1, <2>2
<1> HIDE DEF m, seen, ans
<1>10. actor[a].job = m
  BY DEF m
<1>11. /\ Running' /\ Recovering' /\ Answered' /\ actor' \in [Actors -> Callers]
       /\ helper.caller \in Actors => actor'[helper.caller] = actor[helper.caller]
  <2>1. UNCHANGED <<kind, journal, helper, web>>
    BY <1>1
  <2>2. r.status \notin {"none", "pending"}
    BY <1>6
  <2> QED  BY <1>1, <1>2, <1>5, <1>7, <1>9, <1>10, <2>1, <2>2, RecovererWrites
<1>12. Rows' /\ Helping' /\ Journalled'
  <2>1. UNCHANGED <<kind, baseline, runtime, journal, receipt, helper>>
    BY <1>1
  <2> QED  BY <1>2, <1>4, <1>6, <1>7, <1>11, <2>1, RowInv
<1>13. Typed'
  BY <1>1, <1>7, <1>11 DEF Typed
<1> QED  BY <1>11, <1>12, <1>13

\* The worker, however late, writes only a row nobody changed meanwhile.
LEMMA WorkerWriteInv == ASSUME IInv, WorkerWrite PROVE IInv'
<1> USE DEF IInv
<1> DEFINE me == actor["worker"]
           m == me.job
<1>1. /\ UNCHANGED <<kind, desired, baseline, runtime, journal, receipt,
                     helper, web, crashes, faults>>
      /\ me.pc = "back" /\ "worker" \in Recoverers /\ "worker" \in Actors
      /\ actor' = [actor EXCEPT !["worker"] = Resting]
      /\ Resting \in Callers /\ Resting.ans = "none" /\ Resting.pc = "idle"
  BY Records DEF WorkerWrite, base, host, Actors, Recoverers, Rest, Resting
<1>2. /\ m \in Jobs /\ kind = "network" /\ me.seen.pend /\ me.doing # "apply"
      /\ Runner.pc # "idle" => Runner.job # m
  BY <1>1 DEF Recovering, Engaged, Attends
<1>3. CASE Payload(jobs[m]) = Payload(me.seen) /\ me.ans # "failed"
  <2>1. jobs' = [jobs EXCEPT ![m].pend = FALSE, ![m].cleanup = FALSE, ![m].status = "failed"]
    BY <1>3 DEF WorkerWrite
  <2>2. Newest(m) /\ Active(m)
    BY <1>2, <1>3 DEF Payload, Rows, Told, Active
  <2>3. Runner.pc = "idle"
    BY <1>2, <2>2, OneNewest DEF Running
  <2>4. ~Outstanding
    BY <1>1, <1>2, <1>3, <2>2 DEF Answered, Trusted
  <2> DEFINE r == [jobs[m] EXCEPT !.pend = FALSE, !.cleanup = FALSE, !.status = "failed"]
  <2>5. /\ r \in Row /\ r.status = "failed" /\ r.by = jobs[m].by
        /\ r.captured = jobs[m].captured /\ ~r.pend /\ ~r.cleanup
        /\ r.committed = jobs[m].committed /\ r.readiness = jobs[m].readiness
    <3>1. jobs[m] \in Row /\ "failed" \in Terminal
      BY <1>2 DEF Typed, Terminal
    <3> HIDE DEF m
    <3> QED  BY <3>1 DEF Row
  <2>6. jobs' = [jobs EXCEPT ![m] = r]
    BY <1>2, <2>1 DEF Typed
  <2> HIDE DEF r
  <2>7. /\ jobs' \in [Jobs -> Row] /\ jobs'[m] = r /\ \A i \in Jobs : i # m => jobs'[i] = jobs[i]
    BY <1>2, <2>5, <2>6 DEF Typed
  <2>8. actor["worker"].job = m
    OBVIOUS
  <2> HIDE DEF m
  <2>9. /\ Running' /\ Recovering' /\ Answered' /\ actor' \in [Actors -> Callers]
        /\ helper.caller \in Actors => actor'[helper.caller] = actor[helper.caller]
    BY <1>1, <1>2, <2>2, <2>3, <2>5, <2>7, <2>8, RecovererWrites
  <2>10. jobs[m].readiness => kind = "handoff"
    BY <1>2 DEF Rows, Told
  <2>11. Rows' /\ Helping' /\ Journalled'
    BY <1>1, <1>2, <2>2, <2>4, <2>5, <2>7, <2>9, <2>10, RowInv
  <2>12. Typed'
    BY <1>1, <2>7, <2>9 DEF Typed
  <2> QED  BY <2>9, <2>11, <2>12
<1>4. CASE ~(Payload(jobs[m]) = Payload(me.seen) /\ me.ans # "failed")
  <2>1. jobs' = jobs /\ Outstanding' = Outstanding /\ \A i \in Jobs : Newest(i)' <=> Newest(i)
    BY <1>1, <1>4, NewestKept DEF WorkerWrite, Outstanding
  <2>2. /\ actor' \in [Actors -> Callers] /\ actor'["worker"] = Resting
        /\ \A b \in Actors : b # "worker" => actor'[b] = actor[b]
        /\ {"runner", "startup", "confirm", "console"} \subseteq Actors
        /\ Recoverers \subseteq Actors
    BY <1>1 DEF Typed, Actors, Recoverers
  <2>3. Rows' /\ Journalled' /\ Typed'
    BY <1>1, <2>1, <2>2 DEF Rows, Told, Active, Journalled, Typed
  <2>4. Running'
    BY <1>1, <2>1, <2>2 DEF Running, Calling, Runner
  <2>5. Recovering'
    <3>1. ASSUME NEW b \in Recoverers, Engaged(b)' PROVE Attends(b)'
      <4>1. actor'[b] = actor[b] /\ Engaged(b) /\ Attends(b)
        BY <1>1, <2>2, <3>1 DEF Engaged, Recovering
      <4> QED  BY <1>1, <2>1, <2>2, <4>1 DEF Attends, Runner
    <3> QED  BY <1>1, <2>1, <2>2, <3>1 DEF Recovering
  <2>6. Answered'
    BY <1>1, <2>1, <2>2 DEF Answered, Trusted
  <2>7. Helping'
    BY <1>1, <2>1, <2>2 DEF Helping, Active
  <2> QED  BY <2>3, <2>4, <2>5, <2>6, <2>7
<1> QED  BY <1>3, <1>4

-----------------------------------------------------------------------------
(* The theorems. *)

\* A fresh appliance: nothing is outstanding and nobody is at work.
LEMMA InitInv == ASSUME Init PROVE IInv
<1>1. /\ kind \in Kinds /\ desired = 1 /\ baseline = 0 /\ runtime = 0 /\ journal = NoJournal
      /\ receipt = 0 /\ jobs = [j \in Jobs |-> NoJob] /\ helper = Free
      /\ actor = [a \in Actors |-> Resting] /\ web = "up" /\ crashes = 0 /\ faults = 0
  BY DEF Init
<1>2. /\ NoJob.status = "none" /\ NoJob.by = "web" /\ ~NoJob.pend /\ ~NoJob.committed
      /\ ~NoJob.cleanup /\ ~NoJob.readiness
  BY DEF NoJob
<1>3. Resting.pc = "idle" /\ Resting.ans = "none"
  BY DEF Resting
<1>4. NoJournal.phase = "none" /\ Free.op = "none" /\ Free.caller = "none" /\ Free.step = "none"
  BY DEF NoJournal, Free
<1>5. Typed
  BY <1>1, Records DEF Typed, Versions
<1>6. Rows
  BY <1>1, <1>2 DEF Rows, Told, Active
<1>7. /\ Runner.pc = "idle" /\ \A a \in Actors : actor[a].pc = "idle" /\ actor[a].ans = "none"
      /\ Recoverers \subseteq Actors /\ "none" \notin Actors
  BY <1>1, <1>3 DEF Runner, Actors, Recoverers
<1>8. Running /\ Recovering /\ Answered
  BY <1>7 DEF Running, Recovering, Engaged, Answered, Trusted, Recoverers
<1>9. Helping /\ Journalled
  BY <1>1, <1>4, <1>7 DEF Helping, Journalled, Unresolved, Settled
<1> QED  BY <1>5, <1>6, <1>8, <1>9 DEF IInv

\* Every step keeps the invariant.
LEMMA NextInv == ASSUME WebOnly, IInv, Next PROVE IInv'
<1>1. CASE HelperStep
  BY <1>1, HelperInv
<1>2. CASE GiveUp
  BY <1>2, GiveUpInv
<1>3. CASE Edit
  BY <1>3, EditInv
<1>4. CASE \E by \in Runners, j \in Jobs : Submit(by, j)
  BY <1>4, SubmitInv
<1>5. CASE \E j \in Jobs : Cancel(j)
  BY <1>5, CancelInv
<1>6. CASE RunnerStep
  BY <1>6, ClaimInv, BeginInv, RunnerCallsInv, RefusedInv, CommitBaselineInv,
     WithdrawInv,
     ConcludeInv, FinalInv DEF RunnerStep
<1>7. ASSUME NEW a \in Recoverers, RecoveryStep(a) PROVE IInv'
  BY <1>7, ReconcileInv, WriteBackInv, StartInv, ScanInv, AdmitInv, ConfirmInv,
     WorkerScanInv,
     WorkerWriteInv DEF RecoveryStep
<1>8. CASE Retry
  BY <1>8, RetryInv
<1>9. CASE \E p \in {"web", "console", "worker"} : Crash(p)
  BY <1>9, CrashInv
<1>10. CASE Reboot
  BY <1>10, RebootInv
<1> QED  BY <1>1, <1>2, <1>3, <1>4, <1>5, <1>6, <1>7, <1>8, <1>9, <1>10 DEF Next

\* Nothing moves in a stuttering step.
LEMMA StutterInv == ASSUME IInv, UNCHANGED vars PROVE IInv'
<1> USE DEF IInv, vars
<1>1. (\A j \in Jobs : Newest(j)' <=> Newest(j)) /\ (Outstanding' <=> Outstanding)
  BY NewestKept DEF Outstanding
<1>2. Typed' /\ Rows' /\ Running' /\ Journalled'
  BY <1>1 DEF Typed, Rows, Told, Active, Running, Calling, Runner, Journalled
<1>3. Recovering' /\ Answered' /\ Helping'
  BY <1>1 DEF Recovering, Engaged, Attends, Runner, Answered, Trusted, Helping,
              Active
<1> QED  BY <1>2, <1>3

\* The inductive invariant holds throughout.
THEOREM Invariance == WebOnly => (Spec => []IInv)
<1> SUFFICES ASSUME WebOnly PROVE Spec => []IInv
  OBVIOUS
<1>1. Init => IInv
  BY InitInv
<1>2. IInv /\ [Next]_vars => IInv'
  BY NextInv, StutterInv
<1> QED  BY <1>1, <1>2, PTL DEF Spec

\* Every variable keeps its type.
THEOREM TypeCorrect == WebOnly => (Spec => []TypeOK)
<1>1. IInv => TypeOK
  BY TypedOK DEF IInv
<1> QED  BY <1>1, Invariance, PTL

\* Whenever no task holds the mutation lock and the web process serves, the
\* baselines record what the host runs, no apply is under way and no journal is
\* left, whichever helper stage failed, whichever answer was lost and wherever
\* a process or the host died before.
THEOREM AppliedWhenUnlocked == WebOnly => (Spec => []AppliedIsRunning)
<1>1. IInv => AppliedIsRunning
  BY NothingLeft DEF AppliedIsRunning, IInv, Journalled, Outstanding, Unresolved
<1> QED  BY <1>1, Invariance, PTL

\* The task named by an unresolved journal holds the lock.
THEOREM RollbackIsOwned == WebOnly => (Spec => []RollbackOwned)
<1>1. IInv => RollbackOwned
  BY DEF RollbackOwned, IInv, Journalled
<1> QED  BY <1>1, Invariance, PTL

\* A committed task whose rollback is settled runs what it captured.
THEOREM CommitKept == WebOnly => (Spec => []CommitNotUndone)
<1>1. ASSUME IInv PROVE CommitNotUndone
  <2> SUFFICES ASSUME NEW j \in Jobs, jobs[j].committed, jobs[j].pend,
                      journal.phase \notin Unresolved
               PROVE  journal.phase # "rolledback" /\ runtime = jobs[j].captured
    BY DEF CommitNotUndone
  <2>1. Newest(j) /\ baseline = jobs[j].captured
    BY <1>1 DEF IInv, Rows, Told, Active
  <2> QED  BY <1>1, <2>1 DEF IInv, Journalled
<1> QED  BY <1>1, Invariance, PTL
=============================================================================

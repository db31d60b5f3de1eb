----------------------- MODULE ApplianceUpdateProofs -----------------------
(***************************************************************************)
(* The installation task of Appliance Update for any streams, any order of *)
(* them, any number of restart attempts and any faults.                    *)
(***************************************************************************)
EXTENDS ApplianceUpdate, TLAPS

\* Where a worker executes the task, where it handles one stream, where that
\* stream is about to be applied, and where it deals with the finished task.
Streaming == {"prepublish", "check", "mark", "apply", "applying", "record", "postpublish"}
Executing == Streaming \cup {"publish", "loop"}
Preparing == {"prepublish", "check", "mark", "apply"}
Dispatching == {"dispatch", "bootDispatch"}
Finished == Dispatching \cup FinishPcs \cup RestoringPcs \cup {"surface", "retry"}

Typed == TypeOK /\ plan \in Plans /\ timely \in BOOLEAN

\* The row of the parent, where the worker is, and the children.
Parent ==
    /\ wpc \in Executing \cup {"failing"} => job = "running"
    /\ wpc \in Finished => Terminal
    /\ Terminal => \A s \in Streams : StepEnded(s)
    /\ job \in {"pending", "cancelled"} => \A s \in Streams : step[s] # "running"
    /\ Terminal /\ step[Photon] = "succeeded" => owed

\* Streams are handled one at a time and in order, and a failure is remembered.
Ordered ==
    /\ wpc \in Streaming => idx <= Len(Order)
    /\ wpc \in Executing =>
          /\ \A k \in 1 .. Len(Order) : k < idx => StepEnded(Order[k])
          /\ ~efail => \A k \in 1 .. Len(Order) : k < idx => step[Order[k]] = "succeeded"
    /\ wpc = "postpublish" =>
          StepEnded(Stream) /\ (~efail => step[Stream] = "succeeded")
    /\ wpc \in {"publish", "loop", "postpublish"} => \A s \in Streams : step[s] # "running"
    /\ wpc \in Streaming => \A s \in Streams : step[s] = "running" => s = Stream

\* A stream is applied at most once, and only as a running child.
Once ==
    /\ \A s \in Streams : /\ applies[s] <= 1
                          /\ step[s] \in {"pending", "skipped"} => applies[s] = 0
    /\ wpc \in Preparing =>
          /\ step[Stream] = "running" /\ applies[Stream] = 0
          /\ CurrentContract \/ Stream = Photon =>
                \A k \in 1 .. Len(Order) : k < idx => step[Order[k]] = "succeeded"
    /\ wpc = "applying" => helper = Stream
    /\ wpc = "record" => ~StepEnded(Stream) /\ out.status # "none"
    /\ wpc = "record" /\ out.status = "skipped" => applies[Stream] = 0

\* A helper that runs belongs to a running child, whoever waits for it, and
\* its hold survives a restart of the worker.
Owned ==
    helper # "none" =>
        /\ wpc \in {"applying", "down", "boot", "idle"}
        /\ job = "running" /\ step[helper] = "running" /\ applies[helper] = 1
        /\ marker = "job" /\ activated /\ rec # "absent"

\* The hold and its restoration.
Holding ==
    /\ rec \in {"pending", "restored"} => Terminal
    /\ rec = "restored" => marker = "none"
    /\ wpc \in {"check", "mark", "apply", "applying"} =>
          marker = "job" /\ activated /\ rec # "absent"
    /\ wpc \in RestoringPcs => marker = "none" /\ rec = "pending"

\* Changed packages, and what stands for their restart.
Changed ==
    /\ dirty => applies[Photon] = 1 /\ activated /\ rec # "absent"
    /\ proving \/ receipt => Terminal /\ ~dirty
    /\ wpc = "finish" => ~owed
    /\ wpc = "refinish" /\ dirty => ~owed

\* The restart units that are under way.
Restarting ==
    /\ timers > 0 => Terminal
    /\ timers <= attempts + 1
    /\ wpc = "retry" => timers <= attempts
    /\ wpc \in Dispatching => timers = 0 /\ ~proving
    /\ timely =>
          /\ dispatch # "fresh" =>
                timers = 0 /\ ~proving /\ wpc \notin Dispatching \cup {"retry"}
          /\ wpc = "retry" => timers = 0 /\ ~proving

\* The hold ends over changed packages only after a failed Photon child.
Opening ==
    marker = "none" /\ dirty => Terminal /\ step[Photon] = "failed" /\ ~owed

\* An apply of Photon is on its child's row until a result replaces it; only a
\* result that was never read leaves it out, and a parent that ends without the
\* duty of a row that has it recomputed the duty from the others.
Duty ==
    /\ wpc = "apply" /\ Stream = Photon => applied[Photon]
    /\ step[Photon] = "running" /\ applies[Photon] = 1 => applied[Photon]
    /\ wpc = "record" /\ Stream = Photon /\ applies[Photon] = 1 /\ ~out.applied =>
          "unread" \in lapses
    /\ step[Photon] = "failed" /\ applies[Photon] = 1 /\ ~applied[Photon] =>
          "unread" \in lapses
    /\ Terminal /\ step[Photon] = "failed" /\ applied[Photon] /\ ~owed =>
          "recomputed" \in lapses

IInv ==
    /\ Typed
    /\ Parent
    /\ Ordered
    /\ Once
    /\ Owned
    /\ Holding
    /\ Changed
    /\ Restarting
    /\ NoReplay
    /\ Opening
    /\ OneRestartAtATime
    /\ Duty

USE PlansAssumption, PhotonAssumption, BoundAssumption, ChoiceAssumption

----------------------------------------------------------------------------

\* What the stored order of a task says about its streams: each of them once.
LEMMA OrderFacts ==
    ASSUME plan \in Plans
    PROVE  /\ Len(Order) \in Nat
           /\ \A i \in 1 .. Len(Order) : Order[i] \in Streams
           /\ \A i, k \in 1 .. Len(Order) : Order[i] = Order[k] => i = k
           /\ \A s \in Streams : \E i \in 1 .. Len(Order) : Order[i] = s
<1>1. Order \in Seq(Streams) /\ Elements(Order) = Streams
  BY DEF Order
<1>2. Len(Order) \in Nat /\ \A i \in 1 .. Len(Order) : Order[i] \in Streams
  BY <1>1
<1>3. \A i, k \in 1 .. Len(Order) : Order[i] = Order[k] => i = k
  BY DEF Order
<1>4. \A s \in Streams : \E i \in 1 .. Len(Order) : Order[i] = s
  BY <1>1 DEF Elements
<1> QED  BY <1>2, <1>3, <1>4

\* No step changes the task; every step is one of the listed actions.
LEMMA Steps ==
    ASSUME [Next]_vars
    PROVE  /\ plan' = plan /\ timely' = timely
           /\ Order' = Order /\ CurrentContract' = CurrentContract
           /\ \/ Worker \/ HelperMutates \/ HelperExits \/ RestartUnit \/ GraceExpires
              \/ CancelPending \/ Crash \/ Reboot \/ UNCHANGED vars
BY DEF Next, Steady, vars, Order, CurrentContract

\* A task that ends early leaves no child open and changes no ended one.
LEMMA InterruptedFacts ==
    ASSUME TypeOK
    PROVE  /\ Interrupted \in [Streams -> {"succeeded", "failed", "skipped"}]
           /\ \A s \in Streams :
                 /\ Interrupted[s] = "succeeded" <=> step[s] = "succeeded"
                 /\ Interrupted[s] = "skipped" <=> step[s] \in {"pending", "skipped"}
                 /\ StepEnded(s) => Interrupted[s] = step[s]
BY DEF TypeOK, Interrupted, StepEnded

\* Failing the task keeps the duty to restart after a completed Photon child.
LEMMA FailJobEnds ==
    ASSUME TypeOK, FailJob
    PROVE  /\ job' = "failed" /\ \A s \in Streams : StepEnded(s)'
           /\ step'[Photon] = "succeeded" => owed'
<1>1. \A s \in Streams : StepEnded(s)'
  BY InterruptedFacts DEF FailJob, StepEnded
<1>2. step'[Photon] = "succeeded" => PhotonDuty
  BY InterruptedFacts DEF FailJob, PhotonDuty
<1> QED  BY <1>1, <1>2 DEF FailJob

\* So does completing it, with the children as they are or interrupted.
LEMMA CompleteTaskEnds ==
    ASSUME TypeOK, NEW ok, NEW st, CompleteTask(st, ok),
           \A s \in Streams : st[s] \in {"succeeded", "failed", "skipped"}
    PROVE  /\ job' \in {"succeeded", "failed"} /\ \A s \in Streams : StepEnded(s)'
           /\ step'[Photon] = "succeeded" => owed'
           /\ owed' => dispatch' = "fresh"
BY DEF CompleteTask, StepEnded, PhotonChanged

\* The Boolean variables.
Flags ==
    /\ owed \in BOOLEAN /\ startedAfter \in BOOLEAN /\ activated \in BOOLEAN
    /\ dirty \in BOOLEAN /\ proving \in BOOLEAN /\ receipt \in BOOLEAN
    /\ sfail \in BOOLEAN /\ efail \in BOOLEAN

\* What a step assigns to a Boolean variable is a Boolean.
LEMMA FlagStep == Flags /\ [Next]_vars => Flags'
<1> SUFFICES ASSUME Flags, [Next]_vars PROVE Flags'
  OBVIOUS
<1> USE DEF Flags, db, restart, surface, units, history, host, locals, NoOut, WorkerDies,
            Scheduled, FailJob, CompleteTask, Requeue, PublishOk, PublishRaises,
            PhotonChanged, PhotonDuty, Terminal
<1>1. CASE ReconcileClear
  BY <1>1, Zenon DEF ReconcileClear
<1>2. CASE ReconcileCancelled
  BY <1>2, Zenon DEF ReconcileCancelled
<1>3. CASE ReconcilePending
  BY <1>3, Zenon DEF ReconcilePending
<1>4. CASE ReconcileFinish
  BY <1>4, Zenon DEF ReconcileFinish
<1>5. CASE ReconcileRetry
  BY <1>5, Zenon DEF ReconcileRetry
<1>6. CASE AdmitOther
  BY <1>6, Zenon DEF AdmitOther
<1>7. CASE Claim
  BY <1>7, Zenon DEF Claim
<1>8. CASE Publish
  BY <1>8, Zenon DEF Publish
<1>9. CASE PublishFails
  BY <1>9, Zenon DEF PublishFails
<1>10. CASE ReuseStep
  BY <1>10, Zenon DEF ReuseStep
<1>11. CASE SkipStep
  BY <1>11, Zenon DEF SkipStep
<1>12. CASE SetStepRunning
  BY <1>12, Zenon DEF SetStepRunning
<1>13. CASE CheckPasses
  BY <1>13, Zenon DEF CheckPasses
<1>14. CASE CheckFails
  BY <1>14, Zenon DEF CheckFails
<1>15. CASE OwnershipUnresolved
  BY <1>15, Zenon DEF OwnershipUnresolved
<1>16. CASE MarkApplyStarted
  BY <1>16, Zenon DEF MarkApplyStarted
<1>17. CASE ApplyStarts
  BY <1>17, Zenon DEF ApplyStarts
<1>18. CASE ApplyRaises
  BY <1>18, Zenon DEF ApplyRaises
<1>19. CASE CompleteStep
  BY <1>19, Zenon DEF CompleteStep
<1>20. CASE Complete
  BY <1>20, Zenon DEF Complete
<1>21. CASE SurfaceVerdict
  BY <1>21, Zenon DEF SurfaceVerdict
<1>22. CASE HelperBusy
  BY <1>22, Zenon DEF HelperBusy
<1>23. CASE Escapes
  BY <1>23, Zenon DEF Escapes
<1>24. CASE FailEscaped
  BY <1>24, Zenon DEF FailEscaped
<1>25. CASE Dispatch
  BY <1>25, Zenon DEF Dispatch
<1>26. CASE DispatchFails
  BY <1>26, Zenon DEF DispatchFails
<1>27. CASE DispatchBusy
  BY <1>27, Zenon DEF DispatchBusy
<1>28. CASE Retry
  BY <1>28, Zenon DEF Retry
<1>29. CASE RetryFails
  BY <1>29, Zenon DEF RetryFails
<1>30. CASE RetryBusy
  BY <1>30, Zenon DEF RetryBusy
<1>31. CASE FinishBegins
  BY <1>31, Zenon DEF FinishBegins
<1>32. CASE Restored
  BY <1>32, Zenon DEF Restored
<1>33. CASE RestoreFails
  BY <1>33, Zenon DEF RestoreFails
<1>34. CASE FinishBusy
  BY <1>34, Zenon DEF FinishBusy
<1>35. CASE Start
  <2>1. startedAfter' \in BOOLEAN
    BY <1>35, SMT DEF Start
  <2> QED  BY <1>35, <2>1, Zenon DEF Start
<1>36. CASE BootIdle
  BY <1>36, Zenon DEF BootIdle
<1>37. CASE RecoverResume
  BY <1>37, Zenon DEF RecoverResume
<1>38. CASE QuiesceFails
  BY <1>38, Zenon DEF QuiesceFails
<1>39. CASE RecoverFails
  BY <1>39, Zenon DEF RecoverFails
<1>40. CASE HelperMutates
  BY <1>40, Zenon DEF HelperMutates
<1>41. CASE HelperExits
  BY <1>41, Zenon DEF HelperExits
<1>42. CASE RestartServices
  BY <1>42, Zenon DEF RestartServices
<1>43. CASE RestartFails
  BY <1>43, Zenon DEF RestartFails
<1>44. CASE WriteReceipt
  BY <1>44, Zenon DEF WriteReceipt
<1>45. CASE ProofTimesOut
  BY <1>45, Zenon DEF ProofTimesOut
<1>46. CASE GraceExpires
  BY <1>46, Zenon DEF GraceExpires
<1>47. CASE CancelPending
  BY <1>47, Zenon DEF CancelPending
<1>48. CASE Crash
  BY <1>48, Zenon DEF Crash
<1>49. CASE Reboot
  BY <1>49, Zenon DEF Reboot
<1>50. CASE UNCHANGED vars
  BY <1>50, Zenon DEF vars
<1> QED  BY <1>1, <1>2, <1>3, <1>4, <1>5, <1>6, <1>7, <1>8, <1>9, <1>10,
            <1>11, <1>12, <1>13, <1>14, <1>15, <1>16, <1>17, <1>18, <1>19,
            <1>20, <1>21, <1>22, <1>23, <1>24, <1>25, <1>26, <1>27, <1>28,
            <1>29, <1>30, <1>31, <1>32, <1>33, <1>34, <1>35, <1>36, <1>37,
            <1>38, <1>39, <1>40, <1>41, <1>42, <1>43, <1>44, <1>45, <1>46,
            <1>47, <1>48, <1>49, <1>50, Steps
            DEF Worker, RestartUnit

\* The events noted are the two that are told apart.
LEMMA LapseStep ==
    ASSUME lapses \subseteq {"unread", "recomputed"}, [Next]_vars
    PROVE  lapses' \subseteq {"unread", "recomputed"}
<1> USE Steps DEF history, host
<1>1. ASSUME UNCHANGED lapses PROVE lapses' \subseteq {"unread", "recomputed"}
  BY <1>1
<1>2. CASE ReconcileCancelled \/ SurfaceVerdict \/ FailEscaped \/ RestoreFails \/ ApplyRaises
  BY <1>2 DEF ReconcileCancelled, SurfaceVerdict, FailEscaped, RestoreFails, ApplyRaises,
              FailJob
<1>3. CASE \/ ReconcileClear \/ ReconcilePending \/ ReconcileFinish \/ ReconcileRetry
           \/ AdmitOther \/ Claim \/ Publish \/ PublishFails \/ ReuseStep \/ SkipStep
           \/ SetStepRunning \/ CheckPasses \/ CheckFails \/ OwnershipUnresolved
  BY <1>1, <1>3
     DEF ReconcileClear, ReconcilePending, ReconcileFinish, ReconcileRetry, AdmitOther,
         Claim, Publish, PublishFails, ReuseStep, SkipStep, SetStepRunning, CheckPasses,
         CheckFails, OwnershipUnresolved
<1>4. CASE \/ MarkApplyStarted \/ ApplyStarts \/ CompleteStep \/ Complete \/ HelperBusy
           \/ Escapes \/ Dispatch \/ DispatchFails \/ DispatchBusy \/ Retry \/ RetryFails
           \/ RetryBusy \/ FinishBegins \/ Restored \/ FinishBusy \/ Start \/ BootIdle
  BY <1>1, <1>4
     DEF MarkApplyStarted, ApplyStarts, CompleteStep, Complete, HelperBusy, Escapes,
         Dispatch, DispatchFails, DispatchBusy, Retry, RetryFails, RetryBusy,
         FinishBegins, Restored, FinishBusy, Start, BootIdle
<1>5. CASE \/ RecoverResume \/ QuiesceFails \/ RecoverFails \/ HelperMutates \/ HelperExits
           \/ RestartUnit \/ GraceExpires \/ CancelPending \/ Crash \/ Reboot
           \/ UNCHANGED vars
  BY <1>1, <1>5
     DEF RecoverResume, QuiesceFails, RecoverFails, HelperMutates, HelperExits,
         RestartUnit, RestartServices, RestartFails, WriteReceipt, ProofTimesOut,
         GraceExpires, CancelPending, Crash, Reboot, vars
<1> QED  BY <1>2, <1>3, <1>4, <1>5 DEF Worker

\* Every step keeps every variable in its range.
LEMMA TypeStep == IInv /\ [Next]_vars => Typed'
<1> SUFFICES ASSUME IInv, [Next]_vars PROVE TypeOK'
  BY Steps DEF IInv, Typed
<1> Flags'
  BY FlagStep DEF IInv, Typed, TypeOK, Flags
<1> lapses' \subseteq {"unread", "recomputed"}
  BY LapseStep DEF IInv, Typed, TypeOK
<1> USE OrderFacts, Steps
    DEF IInv, Typed, TypeOK, Flags, Ordered, Restarting, Streaming, Executing,
        Dispatching, db, restart, surface, units, history, host, locals, Goto, Fault, Stream,
        NoOut, WorkerDies, Scheduled
<1>1. CASE ReconcileClear
  BY <1>1 DEF ReconcileClear
<1>2. CASE ReconcileCancelled
  BY <1>2, InterruptedFacts DEF ReconcileCancelled, FailJob, PhotonDuty
<1>3. CASE ReconcilePending
  BY <1>3 DEF ReconcilePending
<1>4. CASE ReconcileFinish
  BY <1>4 DEF ReconcileFinish
<1>5. CASE ReconcileRetry
  BY <1>5 DEF ReconcileRetry
<1>6. CASE AdmitOther
  BY <1>6 DEF AdmitOther
<1>7. CASE Claim
  BY <1>7 DEF Claim
<1>8. CASE Publish
  BY <1>8 DEF Publish, Publishing, PublishOk, AfterPublish, NextIdx
<1>9. CASE PublishFails
  <2>1. out' \in [status : {"none", "succeeded", "failed", "skipped"}, applied : BOOLEAN]
    <3>1. CASE wpc = "prepublish"
      <4>1. out' = [status |-> "failed", applied |-> FALSE]
        BY <1>9, <3>1 DEF PublishFails
      <4> QED  BY <4>1
    <3>2. CASE wpc # "prepublish"
      BY <1>9, <3>2 DEF PublishFails
    <3> QED  BY <3>1, <3>2
  <2>2. idx' \in 1 .. Len(Order) + 1 /\ faults' \in 0 .. MaxFaults
    BY <1>9 DEF PublishFails, NextIdx, Publishing
  <2>3. /\ rec' \in {"absent", "held", "pending", "restored"}
        /\ marker' \in {"none", "job", "attention"}
    BY <1>9 DEF PublishFails, PublishRaises
  <2>4. wpc' \in {"record", "check", "loop"}
    BY <1>9 DEF PublishFails, AfterPublish
  <2> QED  BY <1>9, <2>1, <2>2, <2>3, <2>4 DEF PublishFails
<1>10. CASE ReuseStep
  BY <1>10 DEF ReuseStep
<1>11. CASE SkipStep
  BY <1>11 DEF SkipStep, MustSkip
<1>12. CASE SetStepRunning
  BY <1>12 DEF SetStepRunning, MustSkip
<1>13. CASE CheckPasses
  BY <1>13 DEF CheckPasses
<1>14. CASE CheckFails
  BY <1>14 DEF CheckFails
<1>15. CASE OwnershipUnresolved
  BY <1>15 DEF OwnershipUnresolved
<1>16. CASE MarkApplyStarted
  BY <1>16 DEF MarkApplyStarted
<1>17. CASE ApplyStarts
  BY <1>17 DEF ApplyStarts
<1>18. CASE ApplyRaises
  BY <1>18 DEF ApplyRaises
<1>19. CASE CompleteStep
  <2>1. step' \in [Streams -> {"pending", "running", "succeeded", "failed", "skipped"}]
    BY <1>19 DEF CompleteStep, Once
  <2>2. applied' \in [Streams -> BOOLEAN]
    BY <1>19 DEF CompleteStep
  <2>3. wpc' = "postpublish" /\ UNCHANGED <<surface, host, job, restart, idx, out, faults>>
    BY <1>19 DEF CompleteStep
  <2> QED  BY <2>1, <2>2, <2>3
<1>20. CASE Complete
  BY <1>20 DEF Complete, CompleteTask, PhotonChanged
<1>21. CASE SurfaceVerdict
  <2>1. CASE sfail
    BY <1>21, <2>1, InterruptedFacts DEF SurfaceVerdict, FailJob
  <2>2. CASE ~sfail
    BY <1>21, <2>2 DEF SurfaceVerdict
  <2> QED  BY <2>1, <2>2
<1>22. CASE HelperBusy
  BY <1>22 DEF HelperBusy, Publishing, Requeue
<1>23. CASE Escapes
  BY <1>23 DEF Escapes
<1>24. CASE FailEscaped
  BY <1>24, InterruptedFacts DEF FailEscaped, FailJob, PhotonDuty
<1>25. CASE Dispatch
  BY <1>25 DEF Dispatch, Scheduled
<1>26. CASE DispatchFails
  BY <1>26 DEF DispatchFails
<1>27. CASE DispatchBusy
  BY <1>27 DEF DispatchBusy
<1>28. CASE Retry
  BY <1>28 DEF Retry, Scheduled
<1>29. CASE RetryFails
  BY <1>29 DEF RetryFails
<1>30. CASE RetryBusy
  BY <1>30 DEF RetryBusy
<1>31. CASE FinishBegins
  BY <1>31 DEF FinishBegins
<1>32. CASE Restored
  BY <1>32 DEF Restored
<1>33. CASE RestoreFails
  <2>1. CASE FailJob
    BY <1>33, <2>1, InterruptedFacts DEF RestoreFails, FinishPcs, RestoringPcs, FailJob
  <2>2. CASE UNCHANGED db
    BY <1>33, <2>2 DEF RestoreFails, FinishPcs, RestoringPcs
  <2> QED  BY <1>33, <2>1, <2>2 DEF RestoreFails
<1>34. CASE FinishBusy
  BY <1>34 DEF FinishBusy
<1>35. CASE Start
  BY <1>35 DEF Start, GuardedMarker, Terminal
<1>36. CASE BootIdle
  BY <1>36 DEF BootIdle
<1>37. CASE RecoverResume
  BY <1>37 DEF RecoverResume, Resumable
<1>38. CASE QuiesceFails
  BY <1>38 DEF QuiesceFails
<1>39. CASE RecoverFails
  BY <1>39, InterruptedFacts DEF RecoverFails, CompleteTask, PhotonChanged
<1>40. CASE HelperMutates
  BY <1>40 DEF HelperMutates
<1>41. CASE HelperExits
  <2>1. out' \in [status : {"none", "succeeded", "failed", "skipped"}, applied : BOOLEAN]
    <3>1. CASE wpc = "applying"
      <4>1. PICK s \in {"succeeded", "failed"} : out' = [status |-> s, applied |-> TRUE]
        BY <1>41, <3>1 DEF HelperExits
      <4> QED  BY <4>1
    <3>2. CASE wpc # "applying"
      BY <1>41, <3>2 DEF HelperExits
    <3> QED  BY <3>1, <3>2
  <2>2. wpc' \in {"record", wpc}
    BY <1>41 DEF HelperExits
  <2>3. helper' = "none" /\ UNCHANGED <<db, surface, dirty, units, history, idx, faults>>
    BY <1>41 DEF HelperExits
  <2> QED  BY <2>1, <2>2, <2>3
<1>42. CASE RestartServices
  BY <1>42 DEF RestartServices
<1>43. CASE RestartFails
  BY <1>43 DEF RestartFails
<1>44. CASE WriteReceipt
  BY <1>44 DEF WriteReceipt
<1>45. CASE ProofTimesOut
  BY <1>45 DEF ProofTimesOut
<1>46. CASE GraceExpires
  BY <1>46 DEF GraceExpires
<1>47. CASE CancelPending
  BY <1>47 DEF CancelPending
<1>48. CASE Crash
  BY <1>48 DEF Crash
<1>49. CASE Reboot
  BY <1>49 DEF Reboot, GuardedMarker, Terminal
<1>50. CASE UNCHANGED vars
  BY <1>50 DEF vars
<1> QED  BY <1>1, <1>2, <1>3, <1>4, <1>5, <1>6, <1>7, <1>8, <1>9, <1>10,
            <1>11, <1>12, <1>13, <1>14, <1>15, <1>16, <1>17, <1>18, <1>19,
            <1>20, <1>21, <1>22, <1>23, <1>24, <1>25, <1>26, <1>27, <1>28,
            <1>29, <1>30, <1>31, <1>32, <1>33, <1>34, <1>35, <1>36, <1>37,
            <1>38, <1>39, <1>40, <1>41, <1>42, <1>43, <1>44, <1>45, <1>46,
            <1>47, <1>48, <1>49, <1>50, Steps
            DEF Worker, RestartUnit

\* Failing the task either records the duty or notes that it lapsed.
LEMMA FailJobDuty ==
    ASSUME IInv, FailJob, Order' = Order, UNCHANGED applies, wpc' = "idle" \/ wpc' = "finish"
    PROVE  Duty'
<1>1. wpc' \notin {"apply", "record"} /\ step'[Photon] # "running" /\ applied' = applied
  BY InterruptedFacts DEF FailJob, IInv, Typed
<1>2. step'[Photon] = "failed" => step[Photon] \in {"failed", "running"}
  BY InterruptedFacts DEF FailJob, IInv, Typed, TypeOK
<1>3. lapses \subseteq lapses'
  BY DEF FailJob
<1>4. step'[Photon] = "failed" /\ applies[Photon] = 1 /\ ~applied[Photon] =>
         "unread" \in lapses'
  BY <1>2, <1>3 DEF IInv, Duty
<1>5. ~owed' => ~owed /\ ~PhotonDuty
  BY DEF FailJob
<1>6. step'[Photon] = "failed" /\ applied[Photon] /\ ~owed' => "recomputed" \in lapses'
  BY <1>2, <1>5 DEF FailJob, PhotonDuty
<1> QED  BY <1>1, <1>4, <1>6 DEF Duty

\* Every step keeps the duty, or notes the event that loses it.
LEMMA DutyStep == IInv /\ [Next]_vars => Duty'
<1> SUFFICES ASSUME IInv, [Next]_vars PROVE Duty'
  OBVIOUS
<1> USE Steps DEF db, restart, surface, units, history, host, locals, Goto
<1>1. ASSUME UNCHANGED <<step, applied, applies, owed, lapses>>, Terminal' => Terminal,
             wpc' \notin {"apply", "record"} \/ UNCHANGED <<wpc, idx, out>>
      PROVE  Duty'
  BY <1>1 DEF IInv, Duty, Stream
<1>2. CASE \/ ReconcileClear \/ ReconcilePending \/ ReconcileFinish \/ ReconcileRetry
            \/ AdmitOther \/ Claim \/ Publish \/ ReuseStep
  BY <1>1, <1>2 DEF ReconcileClear, ReconcilePending, ReconcileFinish, ReconcileRetry,
              AdmitOther, Claim, Publish, ReuseStep, Publishing, AfterPublish, Terminal,
              IInv, Parent, Finished, Dispatching
<1>3. CASE \/ CheckPasses \/ OwnershipUnresolved \/ Escapes \/ Dispatch \/ DispatchFails
            \/ DispatchBusy \/ Retry \/ RetryFails
  BY <1>1, <1>3 DEF CheckPasses, OwnershipUnresolved, Escapes, Dispatch, DispatchFails,
              DispatchBusy, Retry, RetryFails, Scheduled, Terminal, IInv, Parent,
              Finished, Dispatching
<1>4. CASE \/ RetryBusy \/ FinishBegins \/ Restored \/ FinishBusy \/ Start \/ BootIdle
            \/ RecoverResume \/ QuiesceFails
  BY <1>1, <1>4 DEF RetryBusy, FinishBegins, Restored, FinishBusy, Start, BootIdle,
              RecoverResume, QuiesceFails, Terminal, IInv, Parent, Finished, Dispatching
<1>5. CASE \/ HelperMutates \/ RestartServices \/ RestartFails \/ WriteReceipt
            \/ ProofTimesOut \/ GraceExpires \/ Crash \/ Reboot
  BY <1>1, <1>5 DEF HelperMutates, RestartServices, RestartFails, WriteReceipt,
              ProofTimesOut, GraceExpires, Crash, Reboot, WorkerDies, Terminal, IInv,
              Parent, Finished, Dispatching
<1>6. CASE ReconcileCancelled
  BY <1>6, FailJobDuty, OrderFacts DEF ReconcileCancelled, IInv, Typed, TypeOK, Duty,
              Stream, Once, Preparing, Ordered, Streaming, Executing, Terminal
<1>7. CASE PublishFails
  <2>1. UNCHANGED <<job, step, applied, applies, owed, lapses>>
    BY <1>7 DEF PublishFails
  <2>2. CASE wpc = "prepublish"
    <3>1. wpc' = "record" /\ Stream' = Stream /\ applies[Stream] = 0
      BY <1>7, <2>2 DEF PublishFails, NextIdx, IInv, Once, Preparing, Stream
    <3> QED  BY <2>1, <3>1 DEF IInv, Duty, Terminal
  <2>3. CASE wpc # "prepublish"
    BY <1>1, <1>7, <2>1, <2>3 DEF PublishFails, AfterPublish, Terminal
  <2> QED  BY <2>2, <2>3
<1>8. CASE SkipStep
  <2>1. UNCHANGED <<job, step, applied, applies, owed, lapses>> /\ wpc' = "record"
    BY <1>8 DEF SkipStep
  <2>2. Stream' = Stream /\ applies[Stream] = 0
    BY <1>8, OrderFacts DEF SkipStep, Stream, StepEnded, IInv, Typed, TypeOK, Ordered, Once
  <2> QED  BY <2>1, <2>2 DEF IInv, Duty, Terminal
<1>9. CASE SetStepRunning
  <2>1. UNCHANGED <<job, applied, applies, owed, lapses>> /\ wpc' = "prepublish"
    BY <1>9 DEF SetStepRunning
  <2>2. Stream \in Streams /\ applies[Stream] = 0
    BY <1>9, OrderFacts DEF SetStepRunning, Stream, StepEnded, IInv, Typed, TypeOK, Ordered, Once
  <2>3. step'[Photon] = step[Photon] \/ (step'[Photon] = "running" /\ applies[Photon] = 0)
    BY <1>9, <2>2 DEF SetStepRunning, IInv, Typed, TypeOK
  <2> QED  BY <2>1, <2>3 DEF IInv, Duty, Terminal
<1>10. CASE CheckFails
  BY <1>10, OrderFacts DEF CheckFails, IInv, Typed, TypeOK, Duty, Stream, Once,
              Preparing, Ordered, Streaming, Executing, Terminal
<1>11. CASE MarkApplyStarted
  BY <1>11, OrderFacts DEF MarkApplyStarted, IInv, Typed, TypeOK, Duty, Stream, Once,
              Preparing, Ordered, Streaming, Executing, Terminal
<1>12. CASE ApplyStarts
  BY <1>12, OrderFacts DEF ApplyStarts, IInv, Typed, TypeOK, Duty, Stream, Once,
              Preparing, Ordered, Streaming, Executing, Terminal
<1>13. CASE ApplyRaises
  BY <1>13, OrderFacts DEF ApplyRaises, IInv, Typed, TypeOK, Duty, Stream, Once,
              Preparing, Ordered, Streaming, Executing, Terminal
<1>14. CASE CompleteStep
  <2>1. /\ UNCHANGED <<job, applies, owed, lapses>> /\ wpc = "record" /\ wpc' = "postpublish"
        /\ step' = [step EXCEPT ![Stream] = out.status]
        /\ applied' = [applied EXCEPT ![Stream] = out.applied]
    BY <1>14 DEF CompleteStep
  <2>2. ~Terminal' /\ out.status # "running"
    BY <2>1 DEF IInv, Parent, Executing, Streaming, Terminal, Typed, TypeOK
  <2>3. CASE Stream = Photon
    <3>1. step'[Photon] = out.status /\ applied'[Photon] = out.applied
      BY <2>1, <2>3 DEF IInv, Typed, TypeOK
    <3> QED  BY <2>1, <2>2, <2>3, <3>1 DEF IInv, Duty
  <2>4. CASE Stream # Photon
    <3>1. step'[Photon] = step[Photon] /\ applied'[Photon] = applied[Photon]
      BY <2>1, <2>4 DEF IInv, Typed, TypeOK
    <3> QED  BY <2>1, <2>2, <3>1 DEF IInv, Duty
  <2> QED  BY <2>3, <2>4
<1>15. CASE Complete
  <2>1. UNCHANGED <<step, applied, applies, lapses>> /\ wpc' \in {"dispatch", "surface"}
    BY <1>15 DEF Complete, CompleteTask
  <2>2. applied[Photon] => owed'
    BY <1>15 DEF Complete, CompleteTask, PhotonChanged
  <2> QED  BY <2>1, <2>2 DEF IInv, Duty
<1>16. CASE SurfaceVerdict
  BY <1>16, FailJobDuty, OrderFacts DEF SurfaceVerdict, IInv, Typed, TypeOK, Duty,
              Stream, Once, Preparing, Ordered, Streaming, Executing, Terminal
<1>17. CASE HelperBusy
  <2>1. UNCHANGED <<applies, owed, lapses>> /\ wpc' = "idle" /\ job' = "pending"
    BY <1>17 DEF HelperBusy, Requeue
  <2>2. /\ step[Photon] = "running" => step'[Photon] = "pending"
        /\ step[Photon] # "running" =>
              step'[Photon] = step[Photon] /\ (applied'[Photon] <=> applied[Photon])
    BY <1>17 DEF HelperBusy, Requeue, IInv, Typed, TypeOK
  <2>3. step'[Photon] # "running" /\ ~Terminal'
    BY <2>1, <2>2 DEF Terminal
  <2> QED  BY <2>1, <2>2, <2>3 DEF IInv, Duty
<1>18. CASE FailEscaped
  BY <1>18, FailJobDuty, OrderFacts DEF FailEscaped, IInv, Typed, TypeOK, Duty, Stream,
              Once, Preparing, Ordered, Streaming, Executing, Terminal
<1>19. CASE RestoreFails
  BY <1>19, FailJobDuty, OrderFacts DEF RestoreFails, IInv, Typed, TypeOK, Duty, Stream,
              Once, Preparing, Ordered, Streaming, Executing, Terminal
<1>20. CASE RecoverFails
  <2>1. UNCHANGED <<applied, applies, lapses>> /\ wpc' \in {"bootDispatch", "finish"}
    BY <1>20 DEF RecoverFails, CompleteTask
  <2>2. applied[Photon] => owed'
    BY <1>20 DEF RecoverFails, CompleteTask, PhotonChanged
  <2>3. /\ step'[Photon] # "running"
        /\ step'[Photon] = "failed" => step[Photon] \in {"failed", "running"}
    BY <1>20, InterruptedFacts DEF RecoverFails, CompleteTask, IInv, Typed, TypeOK
  <2> QED  BY <2>1, <2>2, <2>3 DEF IInv, Duty
<1>21. CASE HelperExits
  BY <1>21, OrderFacts DEF HelperExits, IInv, Typed, TypeOK, Duty, Stream, Once,
              Preparing, Ordered, Streaming, Executing, Terminal
<1>22. CASE CancelPending
  BY <1>22, OrderFacts DEF CancelPending, IInv, Typed, TypeOK, Duty, Stream, Once,
              Preparing, Ordered, Streaming, Executing, Terminal
<1>23. CASE UNCHANGED vars
  BY <1>1, <1>23 DEF vars, Terminal
<1> QED  BY <1>2, <1>3, <1>4, <1>5, <1>6, <1>7, <1>8, <1>9, <1>10, <1>11, <1>12, <1>13,
            <1>14, <1>15, <1>16, <1>17, <1>18, <1>19, <1>20, <1>21, <1>22, <1>23, Steps
            DEF Worker, RestartUnit

\* Every step of the worker, of its helper, of the restart units and of the
\* environment keeps IInv.
LEMMA InvStep == IInv /\ [Next]_vars => IInv'
<1> DEFINE Goal == /\ Parent' /\ Ordered' /\ Once' /\ Owned' /\ Holding' /\ Changed'
                   /\ Restarting' /\ NoReplay' /\ Opening' /\ OneRestartAtATime'
<1> SUFFICES ASSUME IInv, [Next]_vars PROVE Goal
  BY TypeStep, DutyStep DEF IInv
<1> USE OrderFacts, Steps, TypeStep DEF IInv, Typed, TypeOK, Parent, Ordered, Once, Owned,
        Holding, Changed, Restarting, NoReplay, Opening, OneRestartAtATime,
        Streaming, Executing, Preparing, Dispatching, Finished, FinishPcs, RestoringPcs,
        Terminal, StepEnded, Stream, db, restart, surface, units, history, host, locals, Goto,
        Fault, NoOut, WorkerDies
<1>1. CASE ReconcileClear
  BY <1>1 DEF ReconcileClear
<1>2. CASE ReconcileCancelled
  <2>1. Parent'
    BY <1>2, FailJobEnds DEF ReconcileCancelled
  <2>2. Ordered'
    BY <1>2, InterruptedFacts DEF ReconcileCancelled, FailJob, PhotonDuty
  <2>3. Once'
    BY <1>2, InterruptedFacts DEF ReconcileCancelled, FailJob, PhotonDuty
  <2>4. Owned'
    BY <1>2, InterruptedFacts DEF ReconcileCancelled, FailJob, PhotonDuty
  <2>5. Holding'
    BY <1>2, InterruptedFacts DEF ReconcileCancelled, FailJob, PhotonDuty
  <2>6. Changed'
    BY <1>2, InterruptedFacts DEF ReconcileCancelled, FailJob, PhotonDuty
  <2>7. Restarting'
    BY <1>2, InterruptedFacts DEF ReconcileCancelled, FailJob, PhotonDuty
  <2>8. NoReplay'
    <3>1. /\ UNCHANGED <<applies, Order, CurrentContract>>
          /\ \A s \in Streams : step[s] = "succeeded" => step'[s] = "succeeded"
      BY <1>2, InterruptedFacts DEF ReconcileCancelled, FailJob
    <3> QED  BY ONLY IInv, <3>1, OrderFacts DEF IInv, Typed, NoReplay
  <2>9. Opening'
    BY <1>2, InterruptedFacts DEF ReconcileCancelled, FailJob, PhotonDuty
  <2>10. OneRestartAtATime'
    BY <1>2, InterruptedFacts DEF ReconcileCancelled, FailJob, PhotonDuty
  <2> QED  BY <2>1, <2>2, <2>3, <2>4, <2>5, <2>6, <2>7, <2>8, <2>9, <2>10
<1>3. CASE ReconcilePending
  BY <1>3 DEF ReconcilePending
<1>4. CASE ReconcileFinish
  BY <1>4 DEF ReconcileFinish
<1>5. CASE ReconcileRetry
  BY <1>5 DEF ReconcileRetry
<1>6. CASE AdmitOther
  BY <1>6 DEF AdmitOther
<1>7. CASE Claim
  BY <1>7 DEF Claim
<1>8. CASE Publish
  BY <1>8 DEF Publish, Publishing, PublishOk, AfterPublish, NextIdx
<1>9. CASE PublishFails
  <2>1. Parent'
    BY <1>9 DEF PublishFails, Publishing, PublishRaises, AfterPublish, NextIdx
  <2>2. Ordered'
    <3>1. CASE wpc = "prepublish"
      BY <3>1, <1>9 DEF PublishFails, Publishing, PublishRaises, AfterPublish, NextIdx
    <3>2. CASE wpc # "prepublish"
      BY <3>2, <1>9 DEF PublishFails, Publishing, PublishRaises, AfterPublish, NextIdx
    <3> QED  BY <3>1, <3>2
  <2>3. Once'
    <3>1. CASE wpc = "prepublish"
      BY <3>1, <1>9 DEF PublishFails, Publishing, PublishRaises, AfterPublish, NextIdx
    <3>2. CASE wpc # "prepublish"
      BY <3>2, <1>9 DEF PublishFails, Publishing, PublishRaises, AfterPublish, NextIdx
    <3> QED  BY <3>1, <3>2
  <2>4. Owned'
    BY <1>9 DEF PublishFails, Publishing, PublishRaises, AfterPublish, NextIdx
  <2>5. Holding'
    BY <1>9 DEF PublishFails, Publishing, PublishRaises, AfterPublish, NextIdx
  <2>6. Changed'
    BY <1>9 DEF PublishFails, Publishing, PublishRaises, AfterPublish, NextIdx
  <2>7. Restarting'
    BY <1>9 DEF PublishFails, Publishing, PublishRaises, AfterPublish, NextIdx
  <2>8. NoReplay'
    BY <1>9 DEF PublishFails, Publishing, PublishRaises, AfterPublish, NextIdx
  <2>9. Opening'
    BY <1>9 DEF PublishFails, Publishing, PublishRaises, AfterPublish, NextIdx
  <2>10. OneRestartAtATime'
    BY <1>9 DEF PublishFails, Publishing, PublishRaises, AfterPublish, NextIdx
  <2> QED  BY <2>1, <2>2, <2>3, <2>4, <2>5, <2>6, <2>7, <2>8, <2>9, <2>10
<1>10. CASE ReuseStep
  <2>1. Parent'
    BY <1>10 DEF ReuseStep
  <2>2. Ordered'
    <3>1. ~efail' => ~efail /\ step[Stream] = "succeeded"
      BY <1>10, Zenon DEF ReuseStep
    <3> QED  BY <1>10, <3>1 DEF ReuseStep
  <2>3. Once'
    BY <1>10 DEF ReuseStep
  <2>4. Owned'
    BY <1>10 DEF ReuseStep
  <2>5. Holding'
    BY <1>10 DEF ReuseStep
  <2>6. Changed'
    BY <1>10 DEF ReuseStep
  <2>7. Restarting'
    BY <1>10 DEF ReuseStep
  <2>8. NoReplay'
    BY <1>10 DEF ReuseStep
  <2>9. Opening'
    BY <1>10 DEF ReuseStep
  <2>10. OneRestartAtATime'
    BY <1>10 DEF ReuseStep
  <2> QED  BY <2>1, <2>2, <2>3, <2>4, <2>5, <2>6, <2>7, <2>8, <2>9, <2>10
<1>11. CASE SkipStep
  BY <1>11 DEF SkipStep, MustSkip
<1>12. CASE SetStepRunning
  <2>1. Parent'
    BY <1>12 DEF SetStepRunning, MustSkip
  <2>2. Ordered'
    BY <1>12 DEF SetStepRunning, MustSkip
  <2>3. Once'
    BY <1>12 DEF SetStepRunning, MustSkip
  <2>4. Owned'
    BY <1>12 DEF SetStepRunning, MustSkip
  <2>5. Holding'
    BY <1>12 DEF SetStepRunning, MustSkip
  <2>6. Changed'
    BY <1>12 DEF SetStepRunning, MustSkip
  <2>7. Restarting'
    BY <1>12 DEF SetStepRunning, MustSkip
  <2>8. NoReplay'
    BY <1>12 DEF SetStepRunning, MustSkip
  <2>9. Opening'
    BY <1>12 DEF SetStepRunning, MustSkip
  <2>10. OneRestartAtATime'
    BY <1>12 DEF SetStepRunning, MustSkip
  <2> QED  BY <2>1, <2>2, <2>3, <2>4, <2>5, <2>6, <2>7, <2>8, <2>9, <2>10
<1>13. CASE CheckPasses
  BY <1>13 DEF CheckPasses
<1>14. CASE CheckFails
  BY <1>14 DEF CheckFails
<1>15. CASE OwnershipUnresolved
  BY <1>15 DEF OwnershipUnresolved
<1>16. CASE MarkApplyStarted
  BY <1>16 DEF MarkApplyStarted
<1>17. CASE ApplyStarts
  <2>1. Parent'
    BY <1>17 DEF ApplyStarts
  <2>2. Ordered'
    BY <1>17 DEF ApplyStarts
  <2>3. Once'
    BY <1>17 DEF ApplyStarts
  <2>4. Owned'
    BY <1>17 DEF ApplyStarts
  <2>5. Holding'
    BY <1>17 DEF ApplyStarts
  <2>6. Changed'
    BY <1>17 DEF ApplyStarts
  <2>7. Restarting'
    BY <1>17 DEF ApplyStarts
  <2>8. NoReplay'
    BY <1>17 DEF ApplyStarts
  <2>9. Opening'
    BY <1>17 DEF ApplyStarts
  <2>10. OneRestartAtATime'
    BY <1>17 DEF ApplyStarts
  <2> QED  BY <2>1, <2>2, <2>3, <2>4, <2>5, <2>6, <2>7, <2>8, <2>9, <2>10
<1>18. CASE ApplyRaises
  BY <1>18 DEF ApplyRaises
<1>19. CASE CompleteStep
  <2>1. Parent'
    BY <1>19 DEF CompleteStep
  <2>2. Ordered'
    <3>1. ~efail' => ~efail /\ out.status = "succeeded"
      BY <1>19, Zenon DEF CompleteStep
    <3> QED  BY <1>19, <3>1 DEF CompleteStep
  <2>3. Once'
    BY <1>19 DEF CompleteStep
  <2>4. Owned'
    BY <1>19 DEF CompleteStep
  <2>5. Holding'
    BY <1>19 DEF CompleteStep
  <2>6. Changed'
    BY <1>19 DEF CompleteStep
  <2>7. Restarting'
    BY <1>19 DEF CompleteStep
  <2>8. NoReplay'
    BY <1>19 DEF CompleteStep
  <2>9. Opening'
    BY <1>19 DEF CompleteStep
  <2>10. OneRestartAtATime'
    BY <1>19 DEF CompleteStep
  <2> QED  BY <2>1, <2>2, <2>3, <2>4, <2>5, <2>6, <2>7, <2>8, <2>9, <2>10
<1>20. CASE Complete
  <2>1. Parent'
    <3>1. \A s \in Streams : step[s] \in {"succeeded", "failed", "skipped"}
      <4>1. SUFFICES ASSUME NEW s \in Streams PROVE StepEnded(s)
        OBVIOUS
      <4>2. PICK i \in 1 .. Len(Order) : Order[i] = s
        OBVIOUS
      <4> QED  BY <1>20, <4>2 DEF Complete
    <3> QED  BY <1>20, <3>1, CompleteTaskEnds DEF Complete
  <2>2. Ordered'
    BY <1>20 DEF Complete, CompleteTask, PhotonChanged
  <2>3. Once'
    BY <1>20 DEF Complete, CompleteTask, PhotonChanged
  <2>4. Owned'
    BY <1>20 DEF Complete, CompleteTask, PhotonChanged
  <2>5. Holding'
    BY <1>20 DEF Complete, CompleteTask, PhotonChanged
  <2>6. Changed'
    BY <1>20 DEF Complete, CompleteTask, PhotonChanged
  <2>7. Restarting'
    BY <1>20 DEF Complete, CompleteTask, PhotonChanged
  <2>8. NoReplay'
    BY <1>20 DEF Complete, CompleteTask, PhotonChanged
  <2>9. Opening'
    BY <1>20 DEF Complete, CompleteTask, PhotonChanged
  <2>10. OneRestartAtATime'
    BY <1>20 DEF Complete, CompleteTask, PhotonChanged
  <2> QED  BY <2>1, <2>2, <2>3, <2>4, <2>5, <2>6, <2>7, <2>8, <2>9, <2>10
<1>21. CASE SurfaceVerdict
  <2>1. CASE sfail
    <3>1. Parent'
      BY <1>21, <2>1, InterruptedFacts, FailJobEnds DEF SurfaceVerdict, FailJob, PhotonDuty
    <3>2. Ordered'
      BY <1>21, <2>1, InterruptedFacts, FailJobEnds DEF SurfaceVerdict, FailJob, PhotonDuty
    <3>3. Once'
      BY <1>21, <2>1, InterruptedFacts, FailJobEnds DEF SurfaceVerdict, FailJob, PhotonDuty
    <3>4. Owned'
      BY <1>21, <2>1, InterruptedFacts, FailJobEnds DEF SurfaceVerdict, FailJob, PhotonDuty
    <3>5. Holding'
      BY <1>21, <2>1, InterruptedFacts, FailJobEnds DEF SurfaceVerdict, FailJob, PhotonDuty
    <3>6. Changed'
      BY <1>21, <2>1, InterruptedFacts, FailJobEnds DEF SurfaceVerdict, FailJob, PhotonDuty
    <3>7. Restarting'
      BY <1>21, <2>1, InterruptedFacts, FailJobEnds DEF SurfaceVerdict, FailJob, PhotonDuty
    <3>8. NoReplay'
      BY <1>21, <2>1, InterruptedFacts, FailJobEnds DEF SurfaceVerdict, FailJob, PhotonDuty
    <3>9. Opening'
      BY <1>21, <2>1, InterruptedFacts, FailJobEnds DEF SurfaceVerdict, FailJob, PhotonDuty
    <3>10. OneRestartAtATime'
      BY <1>21, <2>1, InterruptedFacts, FailJobEnds DEF SurfaceVerdict, FailJob, PhotonDuty
    <3> QED  BY <3>1, <3>2, <3>3, <3>4, <3>5, <3>6, <3>7, <3>8, <3>9, <3>10
  <2>2. CASE ~sfail
    BY <1>21, <2>2 DEF SurfaceVerdict
  <2> QED  BY <2>1, <2>2
<1>22. CASE HelperBusy
  BY <1>22 DEF HelperBusy, Publishing, Requeue
<1>23. CASE Escapes
  BY <1>23 DEF Escapes
<1>24. CASE FailEscaped
  <2>1. Parent'
    BY <1>24, FailJobEnds DEF FailEscaped
  <2>2. Ordered'
    BY <1>24, InterruptedFacts DEF FailEscaped, FailJob, PhotonDuty
  <2>3. Once'
    BY <1>24, InterruptedFacts DEF FailEscaped, FailJob, PhotonDuty
  <2>4. Owned'
    BY <1>24, InterruptedFacts DEF FailEscaped, FailJob, PhotonDuty
  <2>5. Holding'
    BY <1>24, InterruptedFacts DEF FailEscaped, FailJob, PhotonDuty
  <2>6. Changed'
    BY <1>24, InterruptedFacts DEF FailEscaped, FailJob, PhotonDuty
  <2>7. Restarting'
    BY <1>24, InterruptedFacts DEF FailEscaped, FailJob, PhotonDuty
  <2>8. NoReplay'
    BY <1>24, InterruptedFacts DEF FailEscaped, FailJob, PhotonDuty
  <2>9. Opening'
    BY <1>24, InterruptedFacts DEF FailEscaped, FailJob, PhotonDuty
  <2>10. OneRestartAtATime'
    BY <1>24, InterruptedFacts DEF FailEscaped, FailJob, PhotonDuty
  <2> QED  BY <2>1, <2>2, <2>3, <2>4, <2>5, <2>6, <2>7, <2>8, <2>9, <2>10
<1>25. CASE Dispatch
  BY <1>25 DEF Dispatch, Scheduled
<1>26. CASE DispatchFails
  <2>1. Parent'
    BY <1>26 DEF DispatchFails
  <2>2. Ordered'
    BY <1>26 DEF DispatchFails
  <2>3. Once'
    BY <1>26 DEF DispatchFails
  <2>4. Owned'
    BY <1>26 DEF DispatchFails
  <2>5. Holding'
    BY <1>26 DEF DispatchFails
  <2>6. Changed'
    BY <1>26 DEF DispatchFails
  <2>7. Restarting'
    BY <1>26 DEF DispatchFails
  <2>8. NoReplay'
    <3>1. UNCHANGED <<step, applies, Order, CurrentContract>>
      BY <1>26 DEF DispatchFails
    <3> QED  BY ONLY IInv, <3>1 DEF IInv, NoReplay
  <2>9. Opening'
    BY <1>26 DEF DispatchFails
  <2>10. OneRestartAtATime'
    BY <1>26 DEF DispatchFails
  <2> QED  BY <2>1, <2>2, <2>3, <2>4, <2>5, <2>6, <2>7, <2>8, <2>9, <2>10
<1>27. CASE DispatchBusy
  BY <1>27 DEF DispatchBusy
<1>28. CASE Retry
  BY <1>28 DEF Retry, Scheduled
<1>29. CASE RetryFails
  BY <1>29 DEF RetryFails
<1>30. CASE RetryBusy
  BY <1>30 DEF RetryBusy
<1>31. CASE FinishBegins
  BY <1>31 DEF FinishBegins
<1>32. CASE Restored
  BY <1>32 DEF Restored
<1>33. CASE RestoreFails
  <2>1. Parent'
    <3>1. CASE FailJob
      BY <1>33, <3>1, FailJobEnds DEF RestoreFails
    <3>2. CASE UNCHANGED db
      BY <1>33, <3>2 DEF RestoreFails
    <3> QED  BY <1>33, <3>1, <3>2 DEF RestoreFails
  <2>2. Ordered'
    BY <1>33, InterruptedFacts DEF RestoreFails, FailJob, PhotonDuty
  <2>3. Once'
    BY <1>33, InterruptedFacts DEF RestoreFails, FailJob, PhotonDuty
  <2>4. Owned'
    BY <1>33, InterruptedFacts DEF RestoreFails, FailJob, PhotonDuty
  <2>5. Holding'
    BY <1>33, InterruptedFacts DEF RestoreFails, FailJob, PhotonDuty
  <2>6. Changed'
    BY <1>33, InterruptedFacts DEF RestoreFails, FailJob, PhotonDuty
  <2>7. Restarting'
    <3>1. CASE FailJob
      BY <1>33, <3>1 DEF RestoreFails, FailJob
    <3>2. CASE UNCHANGED db
      BY <1>33, <3>2 DEF RestoreFails
    <3> QED  BY <1>33, <3>1, <3>2 DEF RestoreFails
  <2>8. NoReplay'
    <3>1. /\ UNCHANGED <<applies, Order, CurrentContract>>
          /\ \A s \in Streams : step[s] = "succeeded" => step'[s] = "succeeded"
      BY <1>33, InterruptedFacts DEF RestoreFails, FailJob
    <3> QED  BY ONLY IInv, <3>1, OrderFacts DEF IInv, Typed, NoReplay
  <2>9. Opening'
    BY <1>33, InterruptedFacts DEF RestoreFails, FailJob, PhotonDuty
  <2>10. OneRestartAtATime'
    BY <1>33, InterruptedFacts DEF RestoreFails, FailJob, PhotonDuty
  <2> QED  BY <2>1, <2>2, <2>3, <2>4, <2>5, <2>6, <2>7, <2>8, <2>9, <2>10
<1>34. CASE FinishBusy
  BY <1>34 DEF FinishBusy
<1>35. CASE Start
  BY <1>35 DEF Start, GuardedMarker
<1>36. CASE BootIdle
  BY <1>36 DEF BootIdle
<1>37. CASE RecoverResume
  <2>1. Parent'
    BY <1>37 DEF RecoverResume, Resumable
  <2>2. Ordered'
    BY <1>37 DEF RecoverResume, Resumable
  <2>3. Once'
    BY <1>37 DEF RecoverResume, Resumable
  <2>4. Owned'
    BY <1>37 DEF RecoverResume, Resumable
  <2>5. Holding'
    BY <1>37 DEF RecoverResume, Resumable
  <2>6. Changed'
    BY <1>37 DEF RecoverResume, Resumable
  <2>7. Restarting'
    BY <1>37 DEF RecoverResume, Resumable
  <2>8. NoReplay'
    BY <1>37 DEF RecoverResume, Resumable
  <2>9. Opening'
    BY <1>37 DEF RecoverResume, Resumable
  <2>10. OneRestartAtATime'
    BY <1>37 DEF RecoverResume, Resumable
  <2> QED  BY <2>1, <2>2, <2>3, <2>4, <2>5, <2>6, <2>7, <2>8, <2>9, <2>10
<1>38. CASE QuiesceFails
  BY <1>38 DEF QuiesceFails
<1>39. CASE RecoverFails
  <2>1. Parent'
    <3>1. CompleteTask(Interrupted, FALSE) /\ wpc' \in {"bootDispatch", "finish"}
      BY <1>39 DEF RecoverFails
    <3>2. /\ job' \in {"succeeded", "failed"} /\ \A s \in Streams : StepEnded(s)'
          /\ step'[Photon] = "succeeded" => owed'
      <4>1. \A s \in Streams : Interrupted[s] \in {"succeeded", "failed", "skipped"}
        BY InterruptedFacts
      <4> QED  BY ONLY <3>1, <4>1, IInv, CompleteTaskEnds DEF IInv, Typed
    <3> QED  BY <3>1, <3>2
  <2>2. Ordered'
    BY <1>39, InterruptedFacts DEF RecoverFails, CompleteTask, PhotonChanged
  <2>3. Once'
    BY <1>39, InterruptedFacts DEF RecoverFails, CompleteTask, PhotonChanged
  <2>4. Owned'
    BY <1>39, InterruptedFacts DEF RecoverFails, CompleteTask, PhotonChanged
  <2>5. Holding'
    BY <1>39, InterruptedFacts DEF RecoverFails, CompleteTask, PhotonChanged
  <2>6. Changed'
    BY <1>39, InterruptedFacts DEF RecoverFails, CompleteTask, PhotonChanged
  <2>7. Restarting'
    BY <1>39, InterruptedFacts DEF RecoverFails, CompleteTask, PhotonChanged
  <2>8. NoReplay'
    BY <1>39, InterruptedFacts DEF RecoverFails, CompleteTask, PhotonChanged
  <2>9. Opening'
    BY <1>39, InterruptedFacts DEF RecoverFails, CompleteTask, PhotonChanged
  <2>10. OneRestartAtATime'
    BY <1>39, InterruptedFacts DEF RecoverFails, CompleteTask, PhotonChanged
  <2> QED  BY <2>1, <2>2, <2>3, <2>4, <2>5, <2>6, <2>7, <2>8, <2>9, <2>10
<1>40. CASE HelperMutates
  BY <1>40 DEF HelperMutates
<1>41. CASE HelperExits
  BY <1>41 DEF HelperExits
<1>42. CASE RestartServices
  BY <1>42 DEF RestartServices
<1>43. CASE RestartFails
  BY <1>43 DEF RestartFails
<1>44. CASE WriteReceipt
  BY <1>44 DEF WriteReceipt
<1>45. CASE ProofTimesOut
  BY <1>45 DEF ProofTimesOut
<1>46. CASE GraceExpires
  BY <1>46 DEF GraceExpires
<1>47. CASE CancelPending
  BY <1>47 DEF CancelPending
<1>48. CASE Crash
  <2>1. Parent'
    BY <1>48 DEF Crash
  <2>2. Ordered'
    BY <1>48 DEF Crash
  <2>3. Once'
    BY <1>48 DEF Crash
  <2>4. Owned'
    BY <1>48 DEF Crash
  <2>5. Holding'
    BY <1>48 DEF Crash
  <2>6. Changed'
    BY <1>48 DEF Crash
  <2>7. Restarting'
    <3>1. wpc' = "down" /\ UNCHANGED <<job, attempts, dispatch, timers, proving, timely>>
      BY <1>48 DEF Crash
    <3> QED  BY ONLY IInv, <3>1 DEF IInv, Restarting, Dispatching, Terminal
  <2>8. NoReplay'
    <3>1. UNCHANGED <<step, applies, Order, CurrentContract>>
      BY <1>48 DEF Crash
    <3> QED  BY ONLY IInv, <3>1 DEF IInv, NoReplay
  <2>9. Opening'
    BY <1>48 DEF Crash
  <2>10. OneRestartAtATime'
    BY <1>48 DEF Crash
  <2> QED  BY <2>1, <2>2, <2>3, <2>4, <2>5, <2>6, <2>7, <2>8, <2>9, <2>10
<1>49. CASE Reboot
  <2>1. Parent'
    BY <1>49 DEF Reboot, GuardedMarker
  <2>2. Ordered'
    BY <1>49 DEF Reboot, GuardedMarker
  <2>3. Once'
    BY <1>49 DEF Reboot, GuardedMarker
  <2>4. Owned'
    BY <1>49 DEF Reboot, GuardedMarker
  <2>5. Holding'
    BY <1>49 DEF Reboot, GuardedMarker
  <2>6. Changed'
    BY <1>49 DEF Reboot, GuardedMarker
  <2>7. Restarting'
    BY <1>49 DEF Reboot, GuardedMarker
  <2>8. NoReplay'
    <3>1. UNCHANGED <<step, applies, Order, CurrentContract>>
      BY <1>49 DEF Reboot
    <3> QED  BY ONLY IInv, <3>1 DEF IInv, NoReplay
  <2>9. Opening'
    BY <1>49 DEF Reboot, GuardedMarker
  <2>10. OneRestartAtATime'
    BY <1>49 DEF Reboot, GuardedMarker
  <2> QED  BY <2>1, <2>2, <2>3, <2>4, <2>5, <2>6, <2>7, <2>8, <2>9, <2>10
<1>50. CASE UNCHANGED vars
  BY <1>50 DEF vars
<1> QED  BY <1>1, <1>2, <1>3, <1>4, <1>5, <1>6, <1>7, <1>8, <1>9, <1>10,
            <1>11, <1>12, <1>13, <1>14, <1>15, <1>16, <1>17, <1>18, <1>19,
            <1>20, <1>21, <1>22, <1>23, <1>24, <1>25, <1>26, <1>27, <1>28,
            <1>29, <1>30, <1>31, <1>32, <1>33, <1>34, <1>35, <1>36, <1>37,
            <1>38, <1>39, <1>40, <1>41, <1>42, <1>43, <1>44, <1>45, <1>46,
            <1>47, <1>48, <1>49, <1>50, Steps
            DEF Worker, RestartUnit

\* A task that nobody claimed yet, without a hold.
LEMMA InitInv == Init => IInv
<1> SUFFICES ASSUME Init PROVE IInv
  OBVIOUS
<1> USE OrderFacts DEF Init
<1>1. Flags /\ timely \in BOOLEAN /\ plan \in Plans
  BY DEF Flags
<1>2. Typed
  <2>1. idx \in 1 .. Len(Order) + 1
    BY <1>1
  <2>2. /\ applied \in [Streams -> BOOLEAN]
        /\ out \in [status : {"none", "succeeded", "failed", "skipped"}, applied : BOOLEAN]
    BY DEF NoOut
  <2> QED  BY <1>1, <2>1, <2>2 DEF Typed, TypeOK, Flags
<1>3. Parent /\ Ordered /\ Once /\ Owned
  BY DEF Parent, Ordered, Once, Owned, Executing, Streaming, Preparing,
     Finished, Dispatching, FinishPcs, RestoringPcs, Terminal
<1>4. Holding /\ Changed /\ Restarting
  BY DEF Holding, Changed, Restarting, RestoringPcs, Dispatching
<1>5. NoReplay /\ Opening /\ OneRestartAtATime /\ Duty
  BY <1>1 DEF NoReplay, Opening, OneRestartAtATime, Duty, Terminal
<1> QED  BY <1>2, <1>3, <1>4, <1>5 DEF IInv

\* IInv holds in every reachable state.
THEOREM Invariance == Spec => []IInv
<1> QED  BY InitInv, InvStep, PTL DEF Spec

\* Every variable keeps its type; the attempts at a lost restart and the restart
\* units they leave behind stay within their bounds.
THEOREM TypeCorrect == Spec => []TypeOK
<1>1. IInv => TypeOK
  BY DEF IInv, Typed
<1> QED  BY <1>1, Invariance, PTL

\* The ordinary UIs are held while a privileged apply may still run.
THEOREM HoldCoversApply == Spec => []HeldWhileMutating
<1>1. IInv => HeldWhileMutating
  BY DEF IInv, Owned, HeldWhileMutating
<1> QED  BY <1>1, Invariance, PTL

\* No crash, requeue or resumption applies a stream twice or past a failure.
THEOREM ApplyOnce == Spec => []NoReplay
<1>1. IInv => NoReplay
  BY DEF IInv
<1> QED  BY <1>1, Invariance, PTL

\* The UIs reopen over changed Photon packages only after one of two events: an
\* apply of Photon whose answer raised, or a _fail_job that found the Photon child
\* already failed.  Every other failed Photon child keeps its restart duty.
THEOREM OpensClean == Spec => []OpensCleanOutsideGap
<1>1. IInv => OpensCleanOutsideGap
  <2> SUFFICES ASSUME IInv, marker = "none", dirty
               PROVE  /\ Terminal /\ step[Photon] = "failed" /\ ~owed
                      /\ (IF applied[Photon] THEN "recomputed" ELSE "unread") \in lapses
    BY DEF OpensCleanOutsideGap
  <2>1. Terminal /\ step[Photon] = "failed" /\ ~owed /\ applies[Photon] = 1
    BY DEF IInv, Opening, Changed
  <2> QED  BY <2>1 DEF IInv, Duty
<1> QED  BY <1>1, Invariance, PTL

\* A retry never adds a second restart to one that is under way, while the grace
\* outlasts a restart.
THEOREM SingleRestart == Spec => []OneRestartAtATime
<1>1. IInv => OneRestartAtATime
  BY DEF IInv
<1> QED  BY <1>1, Invariance, PTL

----------------------------------------------------------------------------

\* No step takes a restored surface back: publications belong to a running task,
\* whose surface is not restored.
LEMMA RestoredStep ==
    IInv /\ [Next]_vars => [rec = "restored" => rec' = "restored" /\ marker' = "none"]_vars
<1> SUFFICES ASSUME IInv, [Next]_vars, rec = "restored" PROVE rec' = "restored"
  BY InvStep DEF IInv, Holding
<1> USE DEF surface
<1>1. CASE Publish
  BY <1>1 DEF Publish, Publishing, IInv, Parent, Holding, Executing, Streaming,
              Terminal
<1>2. CASE PublishFails
  BY <1>2 DEF PublishFails, Publishing, IInv, Parent, Holding, Executing,
              Streaming, Terminal
<1>3. CASE FinishBegins
  BY <1>3 DEF FinishBegins, IInv, Holding
<1>4. CASE Restored
  BY <1>4 DEF Restored
<1>5. CASE \/ ReconcileClear \/ ReconcileCancelled \/ ReconcilePending
           \/ ReconcileFinish \/ ReconcileRetry \/ AdmitOther \/ Claim \/ ReuseStep
           \/ SkipStep \/ SetStepRunning \/ CheckPasses \/ CheckFails
           \/ OwnershipUnresolved \/ MarkApplyStarted \/ ApplyStarts \/ ApplyRaises
  BY <1>5 DEF ReconcileClear, ReconcileCancelled, ReconcilePending,
              ReconcileFinish,
              ReconcileRetry, AdmitOther, Claim, ReuseStep, SkipStep,
              SetStepRunning, CheckPasses, CheckFails, OwnershipUnresolved,
              MarkApplyStarted, ApplyStarts, ApplyRaises
<1>6. CASE \/ CompleteStep \/ Complete \/ SurfaceVerdict \/ HelperBusy \/ Escapes
           \/ FailEscaped \/ Dispatch \/ DispatchFails \/ DispatchBusy \/ Retry
           \/ RetryFails \/ RetryBusy \/ RestoreFails \/ FinishBusy \/ Start
           \/ BootIdle
  BY <1>6 DEF CompleteStep, Complete, SurfaceVerdict, HelperBusy, Escapes,
              FailEscaped, Dispatch, DispatchFails, DispatchBusy, Retry, RetryFails,
              RetryBusy, RestoreFails, FinishBusy, Start, BootIdle
<1>7. CASE \/ RecoverResume \/ QuiesceFails \/ RecoverFails \/ HelperMutates
           \/ HelperExits \/ RestartServices \/ RestartFails \/ WriteReceipt
           \/ ProofTimesOut \/ GraceExpires \/ CancelPending \/ Crash \/ Reboot
  BY <1>7 DEF RecoverResume, QuiesceFails, RecoverFails, HelperMutates,
              HelperExits,
              RestartServices, RestartFails, WriteReceipt, ProofTimesOut,
              GraceExpires, CancelPending, Crash, Reboot
<1>8. CASE UNCHANGED vars
  BY <1>8 DEF vars
<1> QED  BY <1>1, <1>2, <1>3, <1>4, <1>5, <1>6, <1>7, <1>8, Steps
            DEF Worker, RestartUnit

\* A restored surface stays restored, whatever restart unit fires late and
\* whoever starts again.
THEOREM RestoredStays == Spec => RestorationFinal
<1>1. IInv /\ [Next]_vars => [rec = "restored" => rec' = "restored" /\ marker' = "none"]_vars
  BY RestoredStep
<1> QED  BY <1>1, Invariance, PTL DEF Spec, RestorationFinal
============================================================================

------------------------- MODULE WorkflowExecProofs -------------------------
(***************************************************************************)
(* Proofs about WorkflowExec for every workflow definition (jobs, needs,   *)
(* steps, flags) and every bound on faults, cancels and crashes:           *)
(*   - the stored run and all snapshots stay well formed (TypeCorrect);    *)
(*   - a finished job or run is never resurrected (FinishedNeverLeft);     *)
(*   - no job is with a worker while a need of it is unsettled             *)
(*     (NeedsSettledAlways), and the engine keeps the promise of           *)
(*     DagPromise (EngineKeepsPromise);                                    *)
(*   - only a Cancel touches a run left blocked (BlockedStays);            *)
(* where the workflow has no wait steps, or a pass that parks a job is     *)
(* over before the instant of the wait passes, so that there is one pass   *)
(* at a time (PassesApart):                                                *)
(*   - no work is in flight after the verdict (NoWorkAfterVerdict);        *)
(*   - the verdict is that of the jobs (VerdictTrue);                      *)
(* and, where the workflow has no wait steps:                              *)
(*   - the work of a step is begun at most once (NoStepTwice).             *)
(***************************************************************************)
EXTENDS WorkflowExec, TLAPS

----------------------------------------------------------------------------
(* Facts about the operators of WorkflowRun.                               *)

\* Ranks order the statuses from 1 (queued) to 5 (finished).
LEMMA RankRange == ASSUME NEW s \in Status PROVE StatusRank(s) \in 1 .. 5
  BY DEF StatusRank, Status

\* The run that StartRun stores is well formed.
LEMMA NewRunType == NewRun \in Run
  BY DEF NewRun, Run, JobRun, Status, NoWake

\* MergeStatus yields one of its arguments.
LEMMA MergeStatusType ==
  ASSUME NEW a \in Status, NEW b \in Status PROVE MergeStatus(a, b) \in Status
  BY DEF MergeStatus

\* MergeJobRun yields one of its arguments.
LEMMA MergeJobType ==
  ASSUME NEW a \in JobRun, NEW b \in JobRun PROVE MergeJobRun(a, b) \in JobRun
  BY DEF MergeJobRun

\* Merging two runs yields a run.
LEMMA MergeRunType ==
  ASSUME NEW a \in Run, NEW b \in Run PROVE MergeRun(a, b) \in Run
  BY MergeStatusType, MergeJobType DEF MergeRun, Run

\* The merge never takes a settled job back to a lower rank.
LEMMA MergeJobKeepsRank ==
  ASSUME NEW a \in JobRun, NEW b \in JobRun, StatusRank(a.status) >= 4
  PROVE  StatusRank(MergeJobRun(a, b).status) >= StatusRank(a.status)
  <1>1. a.status \in Status /\ b.status \in Status
    BY DEF JobRun
  <1>2. a.status # "waiting"
    BY DEF StatusRank
  <1>3. ~Yields(a.status, b.status)
    BY <1>2 DEF Yields
  <1>4. StatusRank(a.status) \in Int /\ StatusRank(b.status) \in Int
    BY <1>1, RankRange
  <1>. QED
    BY <1>3, <1>4 DEF MergeJobRun

\* The merge never takes a settled run back to a lower rank.
LEMMA MergeStatusKeepsRank ==
  ASSUME NEW a \in Status, NEW b \in Status, StatusRank(a) >= 4
  PROVE  StatusRank(MergeStatus(a, b)) >= StatusRank(a)
  <1>1. ~Yields(a, b)
    BY DEF Yields, StatusRank
  <1>2. StatusRank(a) \in Int /\ StatusRank(b) \in Int
    BY RankRange
  <1>. QED
    BY <1>1, <1>2 DEF MergeStatus

----------------------------------------------------------------------------
(* Every transition of a run yields a run.                                 *)

\* Setting the status of a job or of a step.
LEMMA SetTypes ==
  ASSUME NEW run \in Run, NEW j, NEW k, NEW s \in Status
  PROVE  SetJob(run, j, s) \in Run /\ SetStep(run, j, k, s) \in Run
  BY ZenonT(60) DEF SetJob, SetStep, Run, JobRun

\* BeginRunning sets the status of the run at most.
LEMMA BeginRunningType == ASSUME NEW run \in Run PROVE BeginRunning(run) \in Run
  BY DEF BeginRunning, Run, Status

\* ParkWait sets step, job, run and wake time.
LEMMA ParkWaitType ==
  ASSUME NEW run \in Run, NEW j \in Jobs, NEW k \in Steps PROVE ParkWait(run, j, k) \in Run
  <1>1. "waiting" \in Status
    BY DEF Status
  <1>2. SetJob(SetStep(run, j, k, "waiting"), j, "waiting") \in Run
    BY <1>1, SetTypes
  <1>. QED
    BY <1>1, <1>2 DEF ParkWait, Run

\* A job run with another status is a job run.
LEMMA JobStatusType ==
  ASSUME NEW jr \in JobRun, NEW s \in Status PROVE [jr EXCEPT !.status = s] \in JobRun
  BY DEF JobRun

\* A run with other job runs is a run.
LEMMA JobsType ==
  ASSUME NEW run \in Run, NEW f \in [Jobs -> JobRun] PROVE [run EXCEPT !.jobs = f] \in Run
  BY DEF Run

\* failJob fails one job and blocks dependents.
LEMMA FailJobType == ASSUME NEW run \in Run, NEW j \in Jobs PROVE FailJob(run, j) \in Run
  <1>1. "failed" \in Status /\ "blocked" \in Status
    BY DEF Status
  <1>2. SetJob(run, j, "failed") \in Run
    BY <1>1, SetTypes
  <1>3. ASSUME NEW r \in Run, NEW S
        PROVE [r EXCEPT !.jobs = [i \in Jobs |-> IF i \in S THEN [r.jobs[i] EXCEPT !.status = "blocked"]
                                                           ELSE r.jobs[i]]] \in Run
    <2>. DEFINE Blocked(i) == IF i \in S THEN [r.jobs[i] EXCEPT !.status = "blocked"] ELSE r.jobs[i]
    <2>1. ASSUME NEW i \in Jobs PROVE Blocked(i) \in JobRun
      <3>1. r.jobs[i] \in JobRun
        BY DEF Run
      <3>. QED
        BY <1>1, <3>1, JobStatusType
    <2>2. [i \in Jobs |-> Blocked(i)] \in [Jobs -> JobRun]
      BY <2>1
    <2>. HIDE DEF Blocked
    <2>3. [r EXCEPT !.jobs = [i \in Jobs |-> Blocked(i)]] \in Run
      BY <2>2, JobsType
    <2>. QED
      BY <2>3 DEF Blocked
  <1>. QED
    BY <1>2, <1>3 DEF FailJob

\* ClaimJobs marks jobs running.
LEMMA ClaimType == ASSUME NEW run \in Run, NEW S PROVE ClaimJobs(run, S) \in Run
  <1>1. "running" \in Status
    BY DEF Status
  <1>. QED
    BY <1>1 DEF ClaimJobs, Run, JobRun

\* WakeWaitingRun requeues what is parked.
LEMMA WakeType == ASSUME NEW run \in Run PROVE WakeWaitingRun(run) \in Run
  <1>1. "queued" \in Status
    BY DEF Status
  <1>. DEFINE Steps2(j) == [k \in Steps |-> IF run.jobs[j].steps[k] = "waiting" THEN "queued" ELSE run.jobs[j].steps[k]]
              Job2(j) == IF run.jobs[j].status # "waiting" THEN run.jobs[j]
                         ELSE [run.jobs[j] EXCEPT !.status = "queued", !.steps = Steps2(j)]
  <1>2. ASSUME NEW j \in Jobs PROVE Job2(j) \in JobRun
    <2>1. run.jobs[j] \in JobRun
      BY DEF Run
    <2>2. Steps2(j) \in [Steps -> Status]
      BY SMTT(60), <1>1, <2>1 DEF JobRun
    <2>. QED
      BY <1>1, <2>1, <2>2 DEF JobRun
  <1>3. [j \in Jobs |-> Job2(j)] \in [Jobs -> JobRun]
    BY <1>2
  <1>4. WakeWaitingRun(run) = [run EXCEPT !.status = "queued", !.wakeAt = NoWake, !.jobs = [j \in Jobs |-> Job2(j)]]
    BY DEF WakeWaitingRun
  <1>. HIDE DEF Job2
  <1>. QED
    BY ZenonT(60), <1>1, <1>3, <1>4 DEF Run

\* Finalize sets the verdict at most.
LEMMA FinalizeType == ASSUME NEW run \in Run PROVE Finalize(run) \in Run
  BY DEF Finalize, Run, Status

\* Cancel ends the run and its active jobs.
LEMMA CancelType == ASSUME NEW run \in Run PROVE Cancel(run) \in Run
  <1>1. "cancelled" \in Status
    BY DEF Status
  <1>. QED
    BY ZenonT(60), <1>1 DEF Cancel, Run, JobRun

\* recordAsyncFailure fails the run and its open jobs.
LEMMA FailAllType == ASSUME NEW run \in Run PROVE FailAll(run) \in Run
  <1>1. "failed" \in Status
    BY DEF Status
  <1>. QED
    BY <1>1 DEF FailAll, Run, JobRun

\* RecoverStale fails stale jobs.
LEMMA StaleFailedType == ASSUME NEW run \in Run PROVE StaleFailed(run) \in Run
  <1>1. "failed" \in Status
    BY DEF Status
  <1>. QED
    BY ZenonT(60), <1>1 DEF StaleFailed, Run, JobRun

----------------------------------------------------------------------------
(* The type invariant.  TypeOK is not inductive: a worker that executes or *)
(* parks a step must be at a step of its job, or the next position would   *)
(* leave the range.                                                        *)

StepBound == worker \in [Ticks \X Jobs ->
    {w \in [pc : WorkerPC, snap : Run, step : 1 .. MaxSteps + 1] :
        w.pc \in {"park", "exec", "unavailable"} => w.step <= MaxSteps}]

TypeInv == TypeOK /\ StepBound

\* Every write of the stored run is a merge of some snapshot into it.
StoreMerges == store' = store \/ \E run \in Run : store' = MergeRun(store, run)

\* persist keeps the store well formed and is a merge.
LEMMA PersistType ==
  ASSUME TypeInv, NEW run \in Run, Persist(run) PROVE store' \in Run /\ StoreMerges
  BY MergeRunType DEF TypeInv, TypeOK, Persist, StoreMerges

\* Releasing the lock leaves truth values.
LEMMA ReleaseType == ASSUME Release PROVE row' \in BOOLEAN /\ held' \in BOOLEAN
  BY DEF Release

\* A budget is only spent while it is positive.
LEMMA SpendType ==
  ASSUME TypeInv, NEW what \in {"faults", "cancels", "crashes"}, Spend(what)
  PROVE  budget' \in [faults : Nat, cancels : Nat, crashes : Nat]
  BY DEF TypeInv, TypeOK, Spend

\* A pass moves to a control point with a well-formed snapshot.
LEMMA TickGoesType ==
  ASSUME TypeInv, NEW t \in Ticks, NEW pc \in TickPC, NEW run \in Run, TickGoes(t, pc, run)
  PROVE  tick' \in [Ticks -> [pc : TickPC, snap : Run]]
  BY DEF TypeInv, TypeOK, TickGoes

\* A pass returns.
LEMMA TickEndsType ==
  ASSUME TypeInv, NEW t \in Ticks, TickEnds(t)
  PROVE  tick' \in [Ticks -> [pc : TickPC, snap : Run]]
  BY NewRunType DEF TypeInv, TypeOK, TickEnds, NoTick, TickPC

\* A pass fails.
LEMMA TickErrsType ==
  ASSUME TypeInv, NEW t \in Ticks, TickErrs(t)
  PROVE  tick' \in [Ticks -> [pc : TickPC, snap : Run]]
  <1>1. "failed" \in TickPC
    BY DEF TickPC
  <1>. QED
    BY <1>1, NewRunType, TickGoesType, TickEndsType DEF TickErrs

\* A worker moves within the steps of its job.
LEMMA WGoesType ==
  ASSUME TypeInv, NEW t \in Ticks, NEW j \in Jobs, NEW pc \in WorkerPC, NEW run \in Run,
         NEW k \in 1 .. MaxSteps + 1, pc \in {"park", "exec", "unavailable"} => k <= MaxSteps,
         WGoes(t, j, pc, run, k)
  PROVE  StepBound'
  <1>. DEFINE W == {w \in [pc : WorkerPC, snap : Run, step : 1 .. MaxSteps + 1] :
                      w.pc \in {"park", "exec", "unavailable"} => w.step <= MaxSteps}
  <1>1. [pc |-> pc, snap |-> run, step |-> k] \in W
    OBVIOUS
  <1>2. worker \in [Ticks \X Jobs -> W]
    BY DEF TypeInv, StepBound
  <1>. HIDE DEF W
  <1>3. worker' \in [Ticks \X Jobs -> W]
    BY <1>1, <1>2 DEF WGoes
  <1>. QED
    BY <1>3 DEF StepBound, W

\* A worker returns.
LEMMA WEndsType ==
  ASSUME TypeInv, NEW t \in Ticks, NEW j \in Jobs, NEW pc \in {"done", "err"}, WEnds(t, j, pc)
  PROVE  StepBound'
  <1>1. pc \in WorkerPC /\ pc \notin {"park", "exec", "unavailable"} /\ 1 \in 1 .. MaxSteps + 1
    BY StepsAssumption DEF WorkerPC
  <1>2. [NoWorker EXCEPT !.pc = pc] = [pc |-> pc, snap |-> NewRun, step |-> 1]
    BY DEF NoWorker
  <1>3. WGoes(t, j, pc, NewRun, 1)
    BY <1>2, Zenon DEF WEnds, WGoes
  <1>. QED
    BY <1>1, <1>3, NewRunType, WGoesType

\* What the invariant says of one worker.
LEMMA WorkerType ==
  ASSUME TypeInv, NEW t \in Ticks, NEW j \in Jobs
  PROVE  /\ worker[<<t, j>>].snap \in Run
         /\ worker[<<t, j>>].step \in 1 .. MaxSteps + 1
         /\ worker[<<t, j>>].pc \in {"park", "exec", "unavailable"} => worker[<<t, j>>].step \in Steps
  BY StepsAssumption DEF TypeInv, StepBound, Steps

\* A worker that has a step left to look at is inside the range.
LEMMA AtStepRange ==
  ASSUME TypeInv, NEW t \in Ticks, NEW j \in Jobs, worker[<<t, j>>].step <= Len(Kind[j])
  PROVE  worker[<<t, j>>].step \in Steps /\ worker[<<t, j>>].step + 1 \in 1 .. MaxSteps + 1
  <1>1. Len(Kind[j]) \in Nat /\ Len(Kind[j]) <= MaxSteps /\ MaxSteps \in Nat
    BY StepsAssumption
  <1>2. worker[<<t, j>>].step \in 1 .. MaxSteps + 1
    BY WorkerType
  <1>. QED
    BY <1>1, <1>2 DEF Steps

\* Every step of a scheduling pass keeps the type invariant and merges into the store.
LEMMA TickStepType ==
  ASSUME TypeInv, NEW t \in Ticks, TickStep(t) \/ TickFault(t) PROVE TypeInv' /\ StoreMerges
  <1>. USE DEF TypeInv, TickAt
  <1>0. /\ tick[t] \in [pc : TickPC, snap : Run] /\ store \in Run /\ StepBound
        /\ {"idle", "enter", "wake", "loop", "decide", "join", "failed", "record"} \subseteq TickPC
    BY DEF TypeOK, TickPC
  <1>1. CASE TickEnter(t)
    <2>1. tick' \in [Ticks -> [pc : TickPC, snap : Run]]
      BY <1>0, <1>1, WakeType, NewRunType, TickEndsType, TickGoesType DEF TickEnter
    <2>. QED
      BY <1>0, <1>1, <2>1 DEF TickEnter, TypeOK, StepBound, StoreMerges
  <1>2. CASE TickWake(t)
    <2>1. store' \in Run /\ StoreMerges
      BY <1>0, <1>2, PersistType DEF TickWake
    <2>2. tick' \in [Ticks -> [pc : TickPC, snap : Run]]
      BY <1>0, <1>2, NewRunType, TickGoesType DEF TickWake
    <2>. QED
      BY <1>0, <1>2, <2>1, <2>2 DEF TickWake, TypeOK, StepBound
  <1>3. CASE TickLoop(t)
    <2>1. tick' \in [Ticks -> [pc : TickPC, snap : Run]]
      BY <1>0, <1>3, TickEndsType, TickGoesType DEF TickLoop
    <2>. QED
      BY <1>0, <1>3, <2>1 DEF TickLoop, TypeOK, StepBound, StoreMerges
  <1>4. CASE TickClaim(t)
    <2>. DEFINE ready == ReadyJobs(tick[t].snap)
    <2>1. ClaimJobs(tick[t].snap, ready) \in Run
      BY <1>0, ClaimType
    <2>2. store' \in Run /\ StoreMerges
      BY <2>1, <1>4, PersistType DEF TickClaim
    <2>3. tick' \in [Ticks -> [pc : TickPC, snap : Run]]
      BY <1>0, <1>4, NewRunType, TickGoesType DEF TickClaim
    <2>4. StepBound'
      <3>. DEFINE W == {w \in [pc : WorkerPC, snap : Run, step : 1 .. MaxSteps + 1] :
                          w.pc \in {"park", "exec", "unavailable"} => w.step <= MaxSteps}
      <3>1. [NoWorker EXCEPT !.pc = "launch"] \in W
        BY NewRunType, StepsAssumption DEF NoWorker, WorkerPC
      <3>2. worker \in [Ticks \X Jobs -> W]
        BY <1>0 DEF StepBound
      <3>3. worker' = [w \in Ticks \X Jobs |-> IF w[1] = t /\ w[2] \in ready
                                                THEN [NoWorker EXCEPT !.pc = "launch"] ELSE worker[w]]
        BY <1>4 DEF TickClaim
      <3>. HIDE DEF W, ready
      <3>4. worker' \in [Ticks \X Jobs -> W]
        BY <3>1, <3>2, <3>3
      <3>. QED
        BY <3>4 DEF StepBound, W
    <2>. QED
      BY <1>0, <1>4, <2>2, <2>3, <2>4 DEF TickClaim, TypeOK, StepBound
  <1>5. CASE TickFinalize(t)
    <2>1. store' \in Run /\ StoreMerges
      BY <1>0, <1>5, FinalizeType, PersistType DEF TickFinalize
    <2>2. tick' \in [Ticks -> [pc : TickPC, snap : Run]]
      BY <1>5, TickEndsType DEF TickFinalize
    <2>3. row' \in BOOLEAN /\ held' \in BOOLEAN
      BY <1>5, ReleaseType DEF TickFinalize, TypeOK
    <2>. QED
      BY <1>0, <1>5, <2>1, <2>2, <2>3 DEF TickFinalize, TypeOK, StepBound
  <1>6. CASE TickJoin(t)
    <2>1. tick' \in [Ticks -> [pc : TickPC, snap : Run]]
      BY <1>0, <1>6, NewRunType, TickErrsType, TickGoesType DEF TickJoin
    <2>2. StepBound'
      <3>. DEFINE W == {w \in [pc : WorkerPC, snap : Run, step : 1 .. MaxSteps + 1] :
                          w.pc \in {"park", "exec", "unavailable"} => w.step <= MaxSteps}
      <3>1. NoWorker \in W
        BY NewRunType, StepsAssumption DEF NoWorker, WorkerPC
      <3>2. worker \in [Ticks \X Jobs -> W]
        BY <1>0 DEF StepBound
      <3>3. worker' = [w \in Ticks \X Jobs |-> IF w[1] = t THEN NoWorker ELSE worker[w]]
        BY <1>6 DEF TickJoin
      <3>. HIDE DEF W
      <3>4. worker' \in [Ticks \X Jobs -> W]
        BY <3>1, <3>2, <3>3
      <3>. QED
        BY <3>4 DEF StepBound, W
    <2>. QED
      BY <1>0, <1>6, <2>1, <2>2 DEF TickJoin, TypeOK, StepBound, StoreMerges
  <1>7. CASE TickFault(t)
    <2>1. tick' \in [Ticks -> [pc : TickPC, snap : Run]]
      BY <1>7, TickErrsType DEF TickFault
    <2>2. budget' \in [faults : Nat, cancels : Nat, crashes : Nat]
      BY <1>7, SpendType DEF TickFault
    <2>. QED
      BY <1>0, <1>7, <2>1, <2>2 DEF TickFault, TypeOK, StepBound, StoreMerges
  <1>8. CASE RecordRead(t)
    <2>1. tick' \in [Ticks -> [pc : TickPC, snap : Run]]
      BY <1>0, <1>8, FailAllType, TickEndsType, TickGoesType DEF RecordRead
    <2>2. budget' \in [faults : Nat, cancels : Nat, crashes : Nat]
      BY <1>8, SpendType DEF RecordRead, TypeOK
    <2>. QED
      BY <1>0, <1>8, <2>1, <2>2 DEF RecordRead, TypeOK, StepBound, StoreMerges
  <1>9. CASE RecordPersist(t)
    <2>1. store' \in Run /\ StoreMerges
      BY <1>0, <1>9, PersistType DEF RecordPersist, StoreMerges
    <2>2. tick' \in [Ticks -> [pc : TickPC, snap : Run]]
      BY <1>9, TickEndsType DEF RecordPersist
    <2>3. row' \in BOOLEAN /\ held' \in BOOLEAN
      BY <1>9, ReleaseType DEF RecordPersist
    <2>4. budget' \in [faults : Nat, cancels : Nat, crashes : Nat]
      BY <1>9, SpendType DEF RecordPersist, TypeOK
    <2>. QED
      BY <1>0, <1>9, <2>1, <2>2, <2>3, <2>4 DEF RecordPersist, TypeOK, StepBound
  <1>. QED
    BY <1>1, <1>2, <1>3, <1>4, <1>5, <1>6, <1>7, <1>8, <1>9 DEF TickStep

\* Every step of a worker keeps the type invariant and merges into the store.
LEMMA WorkerStepType ==
  ASSUME TypeInv, NEW t \in Ticks, NEW j \in Jobs,
         WorkerStep(t, j) \/ WFault(t, j) \/ WPanic(t, j) \/ AgentUpdate(t, j)
  PROVE  TypeInv' /\ StoreMerges
  <1>. USE DEF TypeInv, WAt
  <1>0. /\ worker[<<t, j>>].snap \in Run /\ worker[<<t, j>>].step \in 1 .. MaxSteps + 1
        /\ worker[<<t, j>>].pc \in {"park", "exec", "unavailable"} =>
              /\ worker[<<t, j>>].step \in Steps /\ worker[<<t, j>>].step <= MaxSteps
              /\ worker[<<t, j>>].step + 1 \in 1 .. MaxSteps + 1
        /\ store \in Run /\ StepBound /\ 1 \in 1 .. MaxSteps + 1
        /\ {"start", "begin", "prepare", "step", "park", "exec", "unavailable"} \subseteq WorkerPC
        /\ {"running", "skipped", "success", "failed", "blocked"} \subseteq Status
    BY SMTT(60), WorkerType, StepsAssumption DEF TypeOK, WorkerPC, Status, Steps
  <1>1. CASE WLaunch(t, j)
    <2>1. StepBound'
      BY <1>0, <1>1, NewRunType, WGoesType DEF WLaunch
    <2>. QED
      BY <1>0, <1>1, <2>1 DEF WLaunch, TypeOK, StepBound, StoreMerges
  <1>2. CASE WStart(t, j)
    <2>1. StepBound'
      BY <1>0, <1>2, WGoesType, WEndsType DEF WStart
    <2>. QED
      BY <1>0, <1>2, <2>1 DEF WStart, TypeOK, StepBound, StoreMerges
  <1>3. CASE WBegin(t, j)
    <2>. DEFINE snap == worker[<<t, j>>].snap
    <2>1. BeginRunning(SetJob(snap, j, "running")) \in Run
      BY <1>0, SetTypes, BeginRunningType
    <2>2. SetJob(snap, j, "skipped") \in Run /\ FailJob(snap, j) \in Run
      BY <1>0, SetTypes, FailJobType
    <2>3. store' \in Run /\ StoreMerges
      BY <1>3, <2>1, <2>2, PersistType DEF WBegin
    <2>4. StepBound'
      BY <1>0, <1>3, <2>1, WGoesType, WEndsType DEF WBegin
    <2>. QED
      BY <1>0, <1>3, <2>3, <2>4 DEF WBegin, TypeOK, StepBound
  <1>4. CASE WPrepare(t, j)
    <2>1. store' \in Run /\ StoreMerges
      BY <1>0, <1>4, FailJobType, PersistType DEF WPrepare, StoreMerges
    <2>2. StepBound'
      BY <1>0, <1>4, WGoesType, WEndsType DEF WPrepare
    <2>. QED
      BY <1>0, <1>4, <2>1, <2>2 DEF WPrepare, TypeOK, StepBound
  <1>5. CASE WSkipDone(t, j)
    <2>1. StepBound'
      BY <1>0, <1>5, AtStepRange, WGoesType DEF WSkipDone
    <2>. QED
      BY <1>0, <1>5, <2>1 DEF WSkipDone, TypeOK, StepBound, StoreMerges
  <1>6. CASE WPark(t, j)
    <2>1. worker[<<t, j>>].step \in Steps /\ worker[<<t, j>>].step <= MaxSteps
      BY <1>6, AtStepRange, StepsAssumption DEF WPark, AtStep, Steps
    <2>2. ParkWait(worker[<<t, j>>].snap, j, worker[<<t, j>>].step) \in Run
      BY <1>0, <2>1, ParkWaitType
    <2>3. StepBound'
      BY <1>0, <1>6, <2>1, <2>2, WGoesType DEF WPark
    <2>4. waits' \in [Jobs \X Steps -> Nat]
      BY <1>6, <2>1 DEF WPark, PutWait, TypeOK
    <2>. QED
      BY <1>0, <1>6, <2>3, <2>4 DEF WPark, TypeOK, StepBound, StoreMerges
  <1>7. CASE WParked(t, j)
    <2>1. store' \in Run /\ StoreMerges
      BY <1>0, <1>7, PersistType DEF WParked
    <2>2. StepBound'
      BY <1>0, <1>7, WEndsType DEF WParked
    <2>. QED
      BY <1>0, <1>7, <2>1, <2>2 DEF WParked, TypeOK, StepBound
  <1>8. CASE WBeginStep(t, j)
    <2>1. worker[<<t, j>>].step \in Steps /\ worker[<<t, j>>].step <= MaxSteps
      BY <1>8, AtStepRange, StepsAssumption DEF WBeginStep, AtStep, Steps
    <2>2. SetStep(worker[<<t, j>>].snap, j, worker[<<t, j>>].step, "running") \in Run
      BY <1>0, SetTypes
    <2>3. store' \in Run /\ StoreMerges
      BY <1>8, <2>2, PersistType DEF WBeginStep
    <2>4. StepBound'
      BY <1>0, <1>8, <2>1, <2>2, WGoesType DEF WBeginStep
    <2>5. ran' \in [Jobs \X Steps -> Nat]
      <3>1. <<j, worker[<<t, j>>].step>> \in Jobs \X Steps /\ ran \in [Jobs \X Steps -> Nat]
        BY <2>1 DEF TypeOK
      <3>2. ran' = ran \/ ran' = [ran EXCEPT ![<<j, worker[<<t, j>>].step>>] = @ + 1]
        BY <1>8 DEF WBeginStep
      <3>. QED
        BY <3>1, <3>2
    <2>. QED
      BY <1>0, <1>8, <2>3, <2>4, <2>5 DEF WBeginStep, TypeOK, StepBound
  <1>9. CASE WStepOk(t, j)
    <2>1. SetStep(worker[<<t, j>>].snap, j, worker[<<t, j>>].step, "success") \in Run
      BY <1>0, SetTypes
    <2>2. store' \in Run /\ StoreMerges
      BY <1>9, <2>1, PersistType DEF WStepOk
    <2>3. StepBound'
      BY <1>0, <1>9, <2>1, WGoesType DEF WStepOk
    <2>. QED
      BY <1>0, <1>9, <2>2, <2>3 DEF WStepOk, TypeOK, StepBound
  <1>10. CASE WStepFail(t, j)
    <2>. DEFINE failed == FailJob(SetStep(worker[<<t, j>>].snap, j, worker[<<t, j>>].step, "failed"), j)
    <2>1. failed \in Run
      BY <1>0, SetTypes, FailJobType
    <2>2. store' \in Run /\ StoreMerges
      BY <1>10, <2>1, PersistType DEF WStepFail
    <2>3. StepBound'
      BY <1>10, WEndsType DEF WStepFail
    <2>4. late' \subseteq Run
      BY <1>10, <2>1 DEF WStepFail, TypeOK
    <2>. QED
      BY <1>0, <1>10, <2>2, <2>3, <2>4 DEF WStepFail, TypeOK, StepBound
  <1>11. CASE WUnavailable(t, j)
    <2>1. [worker[<<t, j>>].snap EXCEPT !.status = "blocked"] \in Run
      BY <1>0 DEF Run
    <2>2. store' \in Run /\ StoreMerges
      BY <1>0, <1>11, <2>1, PersistType DEF WUnavailable, StoreMerges
    <2>3. StepBound'
      BY <1>0, <1>11, <2>1, WGoesType DEF WUnavailable
    <2>4. budget' \in [faults : Nat, cancels : Nat, crashes : Nat]
      BY <1>11, SpendType DEF WUnavailable, TypeOK
    <2>. QED
      BY <1>0, <1>11, <2>2, <2>3, <2>4 DEF WUnavailable, TypeOK, StepBound
  <1>12. CASE WSucceed(t, j)
    <2>1. store' \in Run /\ StoreMerges
      BY <1>0, <1>12, SetTypes, PersistType DEF WSucceed
    <2>2. StepBound'
      BY <1>0, <1>12, WEndsType DEF WSucceed
    <2>. QED
      BY <1>0, <1>12, <2>1, <2>2 DEF WSucceed, TypeOK, StepBound
  <1>13. CASE WFault(t, j)
    <2>1. StepBound'
      BY <1>0, <1>13, WEndsType DEF WFault
    <2>2. budget' \in [faults : Nat, cancels : Nat, crashes : Nat]
      BY <1>13, SpendType DEF WFault
    <2>. QED
      BY <1>0, <1>13, <2>1, <2>2 DEF WFault, TypeOK, StepBound, StoreMerges
  <1>14. CASE WPanic(t, j)
    <2>1. store' \in Run /\ StoreMerges
      BY <1>0, <1>14, FailJobType, PersistType DEF WPanic
    <2>2. StepBound'
      BY <1>0, <1>14, WEndsType DEF WPanic
    <2>3. budget' \in [faults : Nat, cancels : Nat, crashes : Nat]
      BY <1>14, SpendType DEF WPanic
    <2>. QED
      BY <1>0, <1>14, <2>1, <2>2, <2>3 DEF WPanic, TypeOK, StepBound
  <1>15. CASE AgentUpdate(t, j)
    <2>1. store' \in Run /\ StoreMerges
      BY <1>0, <1>15, PersistType DEF AgentUpdate
    <2>. QED
      BY <1>0, <1>15, <2>1 DEF AgentUpdate, TypeOK, StepBound
  <1>. QED
    BY <1>1, <1>2, <1>3, <1>4, <1>5, <1>6, <1>7, <1>8, <1>9, <1>10, <1>11, <1>12, <1>13, <1>14, <1>15
       DEF WorkerStep

\* So do waits, cancellation, late agents, the clock, crashes and restarts.
LEMMA OtherStepType ==
  ASSUME TypeInv,
         ResumeWaits \/ TimePasses \/ LateUpdate \/ CancelRead \/ CancelPersist \/ Crash \/ RecoverStale
  PROVE  TypeInv' /\ StoreMerges
  <1>. USE DEF TypeInv
  <1>0. store \in Run /\ StepBound /\ "resume" \in Ticks /\ "enter" \in TickPC
    BY DEF TypeOK, Ticks, TickPC
  <1>1. CASE ResumeWaits
    <2>1. tick' \in [Ticks -> [pc : TickPC, snap : Run]]
      BY <1>0, <1>1, NewRunType, TickGoesType DEF ResumeWaits
    <2>2. waits' \in [Jobs \X Steps -> Nat]
      BY <1>1 DEF ResumeWaits, TypeOK
    <2>. QED
      BY <1>0, <1>1, <2>1, <2>2 DEF ResumeWaits, TypeOK, StepBound, StoreMerges
  <1>2. CASE TimePasses
    <2>1. due' \subseteq Jobs \X Steps
      BY <1>2 DEF TimePasses, WaitSteps, TypeOK
    <2>. QED
      BY <1>0, <1>2, <2>1 DEF TimePasses, TypeOK, StepBound, StoreMerges
  <1>3. CASE LateUpdate
    <2>1. PICK run \in late : Persist(run) /\ late' \in {late, late \ {run}}
      BY <1>3 DEF LateUpdate
    <2>2. store' \in Run /\ StoreMerges
      BY <2>1, PersistType DEF TypeOK
    <2>. QED
      BY <1>0, <1>3, <2>1, <2>2 DEF LateUpdate, TypeOK, StepBound
  <1>4. CASE CancelRead
    <2>1. canceller' \in [pc : {"idle", "read"}, snap : Run]
      BY <1>0, <1>4, CancelType DEF CancelRead
    <2>2. budget' \in [faults : Nat, cancels : Nat, crashes : Nat]
      BY <1>4, SpendType DEF CancelRead
    <2>. QED
      BY <1>0, <1>4, <2>1, <2>2 DEF CancelRead, TypeOK, StepBound, StoreMerges
  <1>5. CASE CancelPersist
    <2>1. store' \in Run /\ StoreMerges
      BY <1>5, PersistType DEF CancelPersist, TypeOK, StoreMerges
    <2>2. row' \in BOOLEAN /\ held' \in BOOLEAN
      BY <1>5, ReleaseType DEF CancelPersist, TypeOK
    <2>3. canceller' \in [pc : {"idle", "read"}, snap : Run]
      BY <1>5, NewRunType DEF CancelPersist, NoCaller
    <2>4. budget' \in [faults : Nat, cancels : Nat, crashes : Nat]
      BY <1>5, SpendType DEF CancelPersist, TypeOK
    <2>. QED
      BY <1>0, <1>5, <2>1, <2>2, <2>3, <2>4 DEF CancelPersist, TypeOK, StepBound
  <1>6. CASE Crash
    <2>1. NoTick \in [pc : TickPC, snap : Run] /\ NoCaller \in [pc : {"idle", "read"}, snap : Run]
      BY NewRunType DEF NoTick, NoCaller, TickPC
    <2>2. NoWorker \in [pc : WorkerPC, snap : Run, step : 1 .. MaxSteps + 1] /\ NoWorker.pc = "idle"
      BY NewRunType, StepsAssumption DEF NoWorker, WorkerPC
    <2>3. budget' \in [faults : Nat, cancels : Nat, crashes : Nat]
      BY <1>6, SpendType DEF Crash
    <2>4. tick' \in [Ticks -> [pc : TickPC, snap : Run]] /\ StepBound'
      BY <1>6, <2>1, <2>2 DEF Crash, StepBound
    <2>. QED
      BY <1>0, <1>6, <2>1, <2>3, <2>4 DEF Crash, TypeOK, StepBound, StoreMerges
  <1>7. CASE RecoverStale
    <2>1. store' \in Run /\ StoreMerges
      BY <1>0, <1>7, StaleFailedType, PersistType DEF RecoverStale
    <2>. QED
      BY <1>0, <1>7, <2>1 DEF RecoverStale, TypeOK, StepBound
  <1>. QED
    BY <1>1, <1>2, <1>3, <1>4, <1>5, <1>6, <1>7

\* So does every step.
LEMMA NextType == ASSUME TypeInv, [Next]_vars PROVE TypeInv' /\ StoreMerges
  <1>1. CASE UNCHANGED vars
    BY <1>1 DEF vars, TypeInv, TypeOK, StepBound, StoreMerges
  <1>2. CASE Next
    BY <1>2, TickStepType, WorkerStepType, OtherStepType DEF Next, Environment
  <1>. QED
    BY <1>1, <1>2

\* The type invariant holds when the first pass is about to begin.
LEMMA InitType == Init => TypeInv
  <1>1. NoTick \in [pc : TickPC, snap : Run] /\ NoCaller \in [pc : {"idle", "read"}, snap : Run]
        /\ [NoTick EXCEPT !.pc = "enter"] \in [pc : TickPC, snap : Run]
    BY NewRunType DEF NoTick, NoCaller, TickPC
  <1>2. NoWorker \in [pc : WorkerPC, snap : Run, step : 1 .. MaxSteps + 1] /\ NoWorker.pc = "idle"
    BY NewRunType, StepsAssumption DEF NoWorker, WorkerPC
  <1>. QED
    BY <1>1, <1>2, NewRunType, ExecAssumption DEF Init, TypeInv, TypeOK, StepBound

\* The strengthened type invariant holds always.
LEMMA TypeInvariance == Spec => []TypeInv
  <1>1. TypeInv /\ [Next]_vars => TypeInv'
    BY NextType
  <1>. QED
    BY <1>1, InitType, PTL DEF Spec

\* The stored run, the snapshots in flight, the wait records and the worker positions
\* stay well formed, whatever is interleaved with whatever (persist, runJob, parkWait).
THEOREM TypeCorrect == Spec => []TypeOK
  BY TypeInvariance, PTL DEF TypeInv

----------------------------------------------------------------------------
(* A merge keeps what is settled: blocked and skipped (rank 4) and the     *)
(* finished statuses (rank 5) never go back to a lower rank.               *)

\* What is settled in the store before a merge is settled after it.
LEMMA SettledKept ==
  ASSUME TypeInv, StoreMerges
  PROVE  /\ StatusRank(store.status) = 5 => StatusRank(store'.status) = 5
         /\ \A j \in Jobs : /\ StatusRank(store.jobs[j].status) = 5
                                => StatusRank(store'.jobs[j].status) = 5
                            /\ StatusRank(store.jobs[j].status) >= 4
                                => StatusRank(store'.jobs[j].status) >= 4
  <1>1. CASE store' = store
    BY <1>1
  <1>2. ASSUME NEW run \in Run, store' = MergeRun(store, run)
        PROVE  /\ StatusRank(store.status) = 5 => StatusRank(store'.status) = 5
               /\ \A j \in Jobs : /\ StatusRank(store.jobs[j].status) = 5
                                      => StatusRank(store'.jobs[j].status) = 5
                                  /\ StatusRank(store.jobs[j].status) >= 4
                                      => StatusRank(store'.jobs[j].status) >= 4
    <2>0. store \in Run /\ store' \in Run
      BY <1>2, MergeRunType DEF TypeInv, TypeOK
    <2>1. /\ store'.status = MergeStatus(store.status, run.status)
          /\ \A j \in Jobs : store'.jobs[j] = MergeJobRun(store.jobs[j], run.jobs[j])
      BY <1>2 DEF MergeRun
    <2>2. /\ store.status \in Status /\ store'.status \in Status /\ run.status \in Status
      BY <1>2, <2>0 DEF Run
    <2>3. StatusRank(store.status) = 5 => StatusRank(store'.status) = 5
      <3>1. StatusRank(store.status) \in 1 .. 5 /\ StatusRank(store'.status) \in 1 .. 5
        BY <2>2, RankRange
      <3>2. StatusRank(store.status) >= 4 => StatusRank(store'.status) >= StatusRank(store.status)
        BY <2>1, <2>2, MergeStatusKeepsRank
      <3>. QED
        BY <3>1, <3>2
    <2>4. ASSUME NEW j \in Jobs
          PROVE  /\ StatusRank(store.jobs[j].status) = 5 => StatusRank(store'.jobs[j].status) = 5
                 /\ StatusRank(store.jobs[j].status) >= 4 => StatusRank(store'.jobs[j].status) >= 4
      <3>1. store.jobs[j] \in JobRun /\ store'.jobs[j] \in JobRun /\ run.jobs[j] \in JobRun
        BY <1>2, <2>0 DEF Run
      <3>2. StatusRank(store.jobs[j].status) \in 1 .. 5 /\ StatusRank(store'.jobs[j].status) \in 1 .. 5
        BY <3>1, RankRange DEF JobRun
      <3>3. StatusRank(store.jobs[j].status) >= 4
              => StatusRank(store'.jobs[j].status) >= StatusRank(store.jobs[j].status)
        BY <2>1, <3>1, MergeJobKeepsRank
      <3>. QED
        BY <3>2, <3>3
    <2>. QED
      BY <2>3, <2>4
  <1>. QED
    BY <1>1, <1>2 DEF StoreMerges

\* No goroutine resurrects what is finished: once the stored run, or a stored job, is
\* success, failed, cancelled or expired, no write of a stale snapshot through persist
\* takes it back, for any workflow, any interleaving and any number of crashes.
THEOREM FinishedNeverLeft == Spec => FinishedStays
  <1>. DEFINE Stays == /\ StatusRank(store.status) = 5 => StatusRank(store'.status) = 5
                       /\ \A j \in Jobs : StatusRank(store.jobs[j].status) = 5
                                           => StatusRank(store'.jobs[j].status) = 5
  <1>1. TypeInv /\ [Next]_vars => [Stays]_vars
    BY NextType, SettledKept
  <1>. HIDE DEF Stays
  <1>2. Spec => [][Stays]_vars
    BY <1>1, TypeInvariance, PTL DEF Spec
  <1>. QED
    BY <1>2 DEF FinishedStays, Stays

----------------------------------------------------------------------------
(* Dependencies first.  A pass decides on a snapshot that may be stale, so *)
(* the invariant needs the snapshot: what is settled in it is settled in   *)
(* the store.                                                              *)

SnapshotSettled ==
    \A t \in Ticks : tick[t].pc = "decide" =>
        \A j \in Jobs : StatusRank(tick[t].snap.jobs[j].status) >= 4
                        => StatusRank(store.jobs[j].status) >= 4

NeedsInv == TypeInv /\ SnapshotSettled /\ NeedsSettled

\* A step that neither claims jobs nor starts a decision keeps the invariant.
LEMMA QuietStep ==
  ASSUME NeedsInv, TypeInv', StoreMerges,
         \A t \in Ticks : tick'[t].pc = "decide" =>
             tick'[t] = tick[t] \/ tick'[t].snap = store',
         \A t \in Ticks, j \in Jobs : Busy(t, j)' => Busy(t, j)
  PROVE  NeedsInv'
  <1>1. \A j \in Jobs : StatusRank(store.jobs[j].status) >= 4 => StatusRank(store'.jobs[j].status) >= 4
    BY SettledKept DEF NeedsInv
  <1>2. SnapshotSettled'
    BY <1>1 DEF NeedsInv, SnapshotSettled
  <1>3. NeedsSettled'
    <2>. SUFFICES ASSUME NEW t \in Ticks, NEW j \in Jobs, Busy(t, j)', NEW d \in Needs[j]
                  PROVE  StatusRank(store'.jobs[d].status) >= 4
      BY DEF NeedsSettled
    <2>1. d \in Jobs
      BY NeedsAssumption
    <2>2. StatusRank(store.jobs[d].status) >= 4
      BY DEF NeedsInv, NeedsSettled
    <2>. QED
      BY <1>1, <2>1, <2>2
  <1>. QED
    BY <1>2, <1>3 DEF NeedsInv

\* A worker step is a step of a busy worker and touches no other.
LEMMA WorkerQuiet ==
  ASSUME TypeInv, NEW t \in Ticks, NEW j \in Jobs,
         WorkerStep(t, j) \/ WFault(t, j) \/ WPanic(t, j) \/ AgentUpdate(t, j)
  PROVE  /\ tick' = tick
         /\ \A u \in Ticks, i \in Jobs : Busy(u, i)' => Busy(u, i)
  <1>1. tick' = tick /\ Busy(t, j)
    BY DEF WorkerStep, WLaunch, WStart, WBegin, WPrepare, WSkipDone, WPark, WParked, WBeginStep, WStepOk,
           WStepFail, WUnavailable, WSucceed, WFault, WPanic, AgentUpdate, WAt, Busy
  <1>2. \E x : worker' = [worker EXCEPT ![<<t, j>>] = x]
    <2>1. CASE AgentUpdate(t, j)
      <3>1. worker' = [worker EXCEPT ![<<t, j>>] = worker[<<t, j>>]]
        BY <2>1 DEF AgentUpdate, TypeInv, StepBound
      <3>. QED
        BY <3>1
    <2>2. CASE WorkerStep(t, j) \/ WFault(t, j) \/ WPanic(t, j)
      <3>1. (\E pc, run, k : WGoes(t, j, pc, run, k)) \/ (\E pc : WEnds(t, j, pc))
        BY <2>2, Zenon
           DEF WorkerStep, WLaunch, WStart, WBegin, WPrepare, WSkipDone, WPark, WParked, WBeginStep, WStepOk,
               WStepFail, WUnavailable, WSucceed, WFault, WPanic
      <3>. QED
        BY <3>1, Zenon DEF WGoes, WEnds
    <2>. QED
      BY <2>1, <2>2
  <1>3. ASSUME NEW u \in Ticks, NEW i \in Jobs, Busy(u, i)' PROVE Busy(u, i)
    <2>1. CASE u = t /\ i = j
      BY <1>1, <2>1
    <2>2. CASE ~(u = t /\ i = j)
      <3>1. worker'[<<u, i>>] = worker[<<u, i>>]
        BY <1>2, <2>2 DEF TypeInv, StepBound
      <3>. QED
        BY <1>3, <3>1 DEF Busy
    <2>. QED
      BY <2>1, <2>2
  <1>. QED
    BY <1>1, <1>3

\* Of a pass's steps only TickLoop makes a snapshot, and only TickClaim makes workers busy.
LEMMA TickQuiet ==
  ASSUME TypeInv, NEW t \in Ticks, TickStep(t) \/ TickFault(t), ~TickClaim(t)
  PROVE  /\ \A u \in Ticks : tick'[u].pc = "decide" => tick'[u] = tick[u] \/ tick'[u].snap = store'
         /\ \A u \in Ticks, i \in Jobs : Busy(u, i)' => Busy(u, i)
  <1>. USE DEF TypeInv, TypeOK
  <1>1. \A u \in Ticks : tick'[u].pc = "decide" => tick'[u] = tick[u] \/ tick'[u].snap = store'
    <2>1. CASE TickLoop(t)
      BY <2>1 DEF TickLoop, TickGoes, TickEnds, NoTick
    <2>2. ASSUME TickEnds(t) \/ \E pc \in TickPC \ {"decide"}, run \in Run : TickGoes(t, pc, run)
          PROVE  \A u \in Ticks : tick'[u].pc = "decide" => tick'[u] = tick[u]
      BY <2>2 DEF TickGoes, TickEnds, NoTick
    <2>3. CASE ~TickLoop(t)
      <3>1. TickEnds(t) \/ \E pc \in TickPC \ {"decide"}, run \in Run : TickGoes(t, pc, run)
        <4>1. {"idle", "enter", "wake", "loop", "join", "failed", "record"} \subseteq TickPC \ {"decide"}
          BY DEF TickPC
        <4>2. store \in Run /\ WakeWaitingRun(store) \in Run /\ FailAll(store) \in Run
          BY WakeType, FailAllType
        <4>. QED
          BY <2>3, <4>1, <4>2, NewRunType
             DEF TickStep, TickEnter, TickWake, TickFinalize, TickJoin, TickFault, TickErrs,
                 RecordRead, RecordPersist
      <3>. QED
        BY <2>2, <3>1
    <2>. QED
      BY <2>1, <2>3
  <1>2. \A u \in Ticks, i \in Jobs : Busy(u, i)' => Busy(u, i)
    <2>1. CASE TickJoin(t)
      <3>1. worker' = [w \in Ticks \X Jobs |-> IF w[1] = t THEN NoWorker ELSE worker[w]]
        BY <2>1 DEF TickJoin
      <3>. QED
        BY <3>1 DEF Busy, NoWorker
    <2>2. CASE ~TickJoin(t)
      <3>1. worker' = worker
        BY <2>2 DEF TickStep, TickEnter, TickWake, TickLoop, TickFinalize, TickFault, RecordRead, RecordPersist
      <3>. QED
        BY <3>1 DEF Busy
    <2>. QED
      BY <2>1, <2>2
  <1>. QED
    BY <1>1, <1>2

\* A pass hands out the jobs whose needs are met in its snapshot, hence settled in the store.
LEMMA ClaimSettled ==
  ASSUME NeedsInv, TypeInv', StoreMerges, NEW t \in Ticks, TickClaim(t) PROVE NeedsInv'
  <1>. DEFINE ready == ReadyJobs(tick[t].snap)
  <1>1. \A j \in Jobs : StatusRank(store.jobs[j].status) >= 4 => StatusRank(store'.jobs[j].status) >= 4
    BY SettledKept DEF NeedsInv
  <1>2. SnapshotSettled'
    <2>1. \A u \in Ticks : tick'[u].pc = "decide" => tick'[u] = tick[u]
      BY DEF TickClaim, TickGoes, NeedsInv, TypeInv, TypeOK
    <2>. QED
      BY <1>1, <2>1 DEF NeedsInv, SnapshotSettled
  <1>3. NeedsSettled'
    <2>. SUFFICES ASSUME NEW u \in Ticks, NEW j \in Jobs, Busy(u, j)', NEW d \in Needs[j]
                  PROVE  StatusRank(store'.jobs[d].status) >= 4
      BY DEF NeedsSettled
    <2>0. d \in Jobs
      BY NeedsAssumption
    <2>1. worker' = [w \in Ticks \X Jobs |-> IF w[1] = t /\ w[2] \in ready
                                              THEN [NoWorker EXCEPT !.pc = "launch"] ELSE worker[w]]
      BY DEF TickClaim
    <2>2. CASE u = t /\ j \in ready
      <3>1. NeedMet(tick[t].snap, d)
        BY <2>2 DEF ReadyJobs
      <3>2. StatusRank(tick[t].snap.jobs[d].status) >= 4
        BY <3>1 DEF NeedMet, StatusRank
      <3>3. StatusRank(store.jobs[d].status) >= 4
        BY <2>0, <3>2 DEF NeedsInv, SnapshotSettled, TickClaim, TickAt
      <3>. QED
        BY <1>1, <2>0, <3>3
    <2>3. CASE ~(u = t /\ j \in ready)
      <3>1. worker'[<<u, j>>] = worker[<<u, j>>]
        <4>. HIDE DEF ready
        <4>. QED
          BY <2>1, <2>3
      <3>2. Busy(u, j)
        BY <3>1 DEF Busy
      <3>. QED
        BY <1>1, <2>0, <3>2 DEF NeedsInv, NeedsSettled
    <2>. QED
      BY <2>2, <2>3
  <1>. QED
    BY <1>2, <1>3 DEF NeedsInv

\* Every step keeps the invariant behind NeedsSettledAlways.
LEMMA NeedsStep == ASSUME NeedsInv, [Next]_vars PROVE NeedsInv'
  <1>0. TypeInv /\ TypeInv' /\ StoreMerges
    BY NextType DEF NeedsInv
  <1>1. ASSUME NEW t \in Ticks, TickStep(t) \/ TickFault(t) PROVE NeedsInv'
    BY <1>0, <1>1, TickQuiet, ClaimSettled, QuietStep
  <1>2. ASSUME NEW t \in Ticks, NEW j \in Jobs,
               WorkerStep(t, j) \/ WFault(t, j) \/ WPanic(t, j) \/ AgentUpdate(t, j)
        PROVE  NeedsInv'
    BY <1>0, <1>2, WorkerQuiet, QuietStep
  <1>3. CASE \/ ResumeWaits \/ TimePasses \/ LateUpdate \/ CancelRead \/ CancelPersist
             \/ RecoverStale \/ UNCHANGED vars
    <2>1. \A t \in Ticks : tick'[t].pc = "decide" => tick'[t] = tick[t]
      BY <1>0, <1>3 DEF ResumeWaits, TimePasses, LateUpdate, CancelRead, CancelPersist, RecoverStale,
                        vars, TickGoes, TypeInv, TypeOK
    <2>2. worker' = worker
      BY <1>3 DEF ResumeWaits, TimePasses, LateUpdate, CancelRead, CancelPersist, RecoverStale, vars
    <2>3. \A t \in Ticks, j \in Jobs : Busy(t, j)' => Busy(t, j)
      BY <2>2 DEF Busy
    <2>. QED
      BY <1>0, <2>1, <2>3, QuietStep
  <1>4. CASE Crash
    <2>1. \A t \in Ticks : tick'[t].pc # "decide"
      BY <1>4 DEF Crash, NoTick
    <2>2. \A t \in Ticks, j \in Jobs : ~Busy(t, j)'
      BY <1>4 DEF Crash, NoWorker, Busy
    <2>. QED
      BY <1>0, <2>1, <2>2, QuietStep
  <1>. QED
    BY <1>1, <1>2, <1>3, <1>4 DEF Next, Environment

\* The invariant behind NeedsSettledAlways and EngineKeepsPromise.
LEMMA NeedsInvariance == Spec => []NeedsInv
  <1>1. Init => NeedsInv
    <2>1. ASSUME Init PROVE SnapshotSettled /\ NeedsSettled
      <3>1. \A t \in Ticks : tick[t].pc # "decide"
        BY <2>1 DEF Init, NoTick
      <3>2. \A t \in Ticks, j \in Jobs : ~Busy(t, j)
        BY <2>1 DEF Init, Busy, NoWorker
      <3>. QED
        BY <3>1, <3>2 DEF SnapshotSettled, NeedsSettled
    <2>. QED
      BY <2>1, InitType DEF NeedsInv
  <1>2. NeedsInv /\ [Next]_vars => NeedsInv'
    BY NeedsStep
  <1>. QED
    BY <1>1, <1>2, PTL DEF Spec

\* Dependencies first, for every workflow definition: while a job is with a worker, each
\* of its needs is settled in the store for good, although passes decide on snapshots
\* that other goroutines have overtaken (Tick, ReadyJobs, persist).
THEOREM NeedsSettledAlways == Spec => []NeedsSettled
  BY NeedsInvariance, PTL DEF NeedsInv

----------------------------------------------------------------------------
(* The engine implements DagPromise.                                       *)

Active == {j \in Jobs : \E t \in Ticks : Busy(t, j)}

\* Whatever a step writes to the store, the record of the promise only grows.
LEMMA RecordedStep == ASSUME TypeInv, TypeInv', StoreMerges PROVE Promise!Recorded
  <1>1. JobsRanked(4) \subseteq JobsRanked(4)' /\ JobsRanked(5) \subseteq JobsRanked(5)'
    <2>1. \A j \in Jobs : StatusRank(store.jobs[j].status) \in 1 .. 5
                          /\ StatusRank(store'.jobs[j].status) \in 1 .. 5
      BY RankRange DEF TypeInv, TypeOK, Run, JobRun
    <2>. QED
      BY <2>1, SettledKept DEF JobsRanked
  <1>2. JobsRanked(5)' \subseteq JobsRanked(4)'
    <2>1. \A j \in Jobs : StatusRank(store'.jobs[j].status) \in 1 .. 5
      BY RankRange DEF TypeInv, TypeOK, Run, JobRun
    <2>. QED
      BY <2>1 DEF JobsRanked
  <1>3. StatusRank(store.status) = 5 => StatusRank(store'.status) = 5
    BY SettledKept
  <1>. QED
    BY <1>1, <1>2, <1>3 DEF Promise!Recorded

\* A step that gives nobody a job leaves jobs at most.
LEMMA QuietLeaves ==
  ASSUME TypeInv, TypeInv', StoreMerges, \A t \in Ticks, j \in Jobs : Busy(t, j)' => Busy(t, j)
  PROVE  Promise!Leave
  <1>1. Active' \subseteq Active
    BY DEF Active
  <1>. QED
    BY <1>1, RecordedStep DEF Active, Promise!Leave

\* A pass that hands out jobs begins those whose needs are settled in the store.
LEMMA ClaimBegins ==
  ASSUME NeedsInv, TypeInv', StoreMerges, NEW t \in Ticks, TickClaim(t)
  PROVE  Promise!Next
  <1>. DEFINE ready == ReadyJobs(tick[t].snap)
              J == Active' \ Active
  <1>0. worker' = [w \in Ticks \X Jobs |-> IF w[1] = t /\ w[2] \in ready
                                            THEN [NoWorker EXCEPT !.pc = "launch"] ELSE worker[w]]
    BY DEF TickClaim
  <1>1. \A u \in Ticks, j \in Jobs : Busy(u, j) => Busy(u, j)'
    <2>. SUFFICES ASSUME NEW u \in Ticks, NEW j \in Jobs, Busy(u, j) PROVE Busy(u, j)'
      OBVIOUS
    <2>1. CASE u = t /\ j \in ready
      <3>1. worker'[<<u, j>>].pc = "launch"
        <4>. HIDE DEF ready
        <4>. QED
          BY <1>0, <2>1 DEF NoWorker
      <3>. QED
        BY <3>1 DEF Busy
    <2>2. CASE ~(u = t /\ j \in ready)
      <3>1. worker'[<<u, j>>] = worker[<<u, j>>]
        <4>. HIDE DEF ready
        <4>. QED
          BY <1>0, <2>2
      <3>. QED
        BY <3>1 DEF Busy
    <2>. QED
      BY <2>1, <2>2
  <1>2. \A u \in Ticks, j \in Jobs : Busy(u, j)' /\ ~Busy(u, j) => j \in ready
    <2>. SUFFICES ASSUME NEW u \in Ticks, NEW j \in Jobs, Busy(u, j)', j \notin ready PROVE Busy(u, j)
      OBVIOUS
    <2>1. worker'[<<u, j>>] = worker[<<u, j>>]
      <3>. HIDE DEF ready
      <3>. QED
        BY <1>0
    <2>. QED
      BY <2>1 DEF Busy
  <1>3. J \subseteq ready /\ Active' = Active \cup J
    BY <1>1, <1>2 DEF Active
  <1>4. \A j \in ready : Needs[j] \subseteq JobsRanked(4)
    <2>. SUFFICES ASSUME NEW j \in ready, NEW d \in Needs[j] PROVE d \in JobsRanked(4)
      OBVIOUS
    <2>1. j \in Jobs /\ NeedMet(tick[t].snap, d)
      BY DEF ReadyJobs
    <2>2. d \in Jobs
      BY <2>1, NeedsAssumption
    <2>3. StatusRank(tick[t].snap.jobs[d].status) >= 4
      BY <2>1 DEF NeedMet, StatusRank
    <2>4. StatusRank(store.jobs[d].status) >= 4
      BY <2>2, <2>3 DEF NeedsInv, SnapshotSettled, TickClaim, TickAt
    <2>. QED
      BY <2>2, <2>4 DEF JobsRanked
  <1>5. Promise!Recorded
    BY RecordedStep DEF NeedsInv
  <1>6. J \in SUBSET Jobs
    BY DEF Active
  <1>7. \A j \in J : Needs[j] \subseteq JobsRanked(4)
    BY <1>3, <1>4
  <1>8. Promise!Begin(J)
    BY <1>3, <1>5, <1>7 DEF Active, Promise!Begin
  <1>. QED
    BY <1>6, <1>8 DEF Promise!Next

\* Every step of the engine is a step of the promise or leaves its variables alone.
LEMMA PromiseStep == ASSUME NeedsInv, [Next]_vars PROVE [Promise!Next]_(Promise!vars)
  <1>0. TypeInv /\ TypeInv' /\ StoreMerges
    BY NextType DEF NeedsInv
  <1>1. ASSUME NEW t \in Ticks, TickStep(t) \/ TickFault(t) PROVE Promise!Next
    BY <1>0, <1>1, TickQuiet, ClaimBegins, QuietLeaves DEF Promise!Next
  <1>2. ASSUME NEW t \in Ticks, NEW j \in Jobs,
               WorkerStep(t, j) \/ WFault(t, j) \/ WPanic(t, j) \/ AgentUpdate(t, j)
        PROVE  Promise!Next
    BY <1>0, <1>2, WorkerQuiet, QuietLeaves DEF Promise!Next
  <1>3. CASE \/ ResumeWaits \/ TimePasses \/ LateUpdate \/ CancelRead \/ CancelPersist
             \/ RecoverStale \/ UNCHANGED vars
    <2>1. worker' = worker
      BY <1>3 DEF ResumeWaits, TimePasses, LateUpdate, CancelRead, CancelPersist, RecoverStale, vars
    <2>2. \A t \in Ticks, j \in Jobs : Busy(t, j)' => Busy(t, j)
      BY <2>1 DEF Busy
    <2>. QED
      BY <1>0, <2>2, QuietLeaves DEF Promise!Next
  <1>4. CASE Crash
    <2>1. \A t \in Ticks, j \in Jobs : ~Busy(t, j)'
      BY <1>4 DEF Crash, NoWorker, Busy
    <2>. QED
      BY <1>0, <2>1, QuietLeaves DEF Promise!Next
  <1>. QED
    BY <1>1, <1>2, <1>3, <1>4 DEF Next, Environment

\* The engine implements its promise, for every workflow definition: jobs are handed out
\* dependencies first and the record of what is settled, finished and over only grows,
\* under every interleaving, store error, cancellation and crash (Tick, runJob, persist).
THEOREM EngineKeepsPromise == Spec => PromiseKept
  <1>1. Init => Promise!Init
    <2>. SUFFICES ASSUME Init PROVE Promise!Init
      OBVIOUS
    <2>1. \A t \in Ticks, j \in Jobs : ~Busy(t, j)
      BY DEF Init, Busy, NoWorker
    <2>2. store = NewRun
      BY DEF Init
    <2>3. JobsRanked(4) = {} /\ JobsRanked(5) = {} /\ StatusRank(store.status) # 5
      BY <2>2 DEF JobsRanked, NewRun, StatusRank
    <2>. QED
      BY <2>1, <2>3 DEF Promise!Init
  <1>2. NeedsInv /\ [Next]_vars => [Promise!Next]_(Promise!vars)
    BY PromiseStep
  <1>3. Spec => []NeedsInv
    BY NeedsInvariance
  <1>. QED
    BY <1>1, <1>2, <1>3, PTL DEF Spec, PromiseKept, Promise!Spec

----------------------------------------------------------------------------
(* One pass at a time, where no instant passes while the pass that parked  *)
(* a job is at work (PromptPark), or where nothing is ever parked.         *)

PassesApart == PromptPark \/ WaitSteps = {}

\* The bounds, and what was spent where a fault, a cancel or a crash led to.
Spent ==
    /\ budget.cancels <= MaxCancels /\ budget.faults <= MaxFaults /\ budget.crashes <= MaxCrashes
    /\ canceller.pc = "read" => budget.cancels < MaxCancels
    /\ \A t \in Ticks : tick[t].pc \in {"failed", "record"} => budget.faults < MaxFaults
    /\ \A t \in Ticks, j \in Jobs : WAt(t, j, "err") => budget.faults < MaxFaults
    /\ ~up => budget.crashes < MaxCrashes /\ \A t \in Ticks : TickAt(t, "idle")

\* Only wait steps have wait records, and as long as the first pass is at work none of them is due.
OnePass ==
    /\ \A s \in Jobs \X Steps : waits[s] > 0 => s \in WaitSteps
    /\ ~TickAt("start", "idle") => TickAt("resume", "idle") /\ \A s \in due : waits[s] = 0

\* The pass of a worker waits for it.
Joined == \A t \in Ticks, j \in Jobs : ~WAt(t, j, "idle") => TickAt(t, "join")

PassInv == TypeInv /\ Spent /\ OnePass /\ Joined

\* What a fault, a cancel or a crash leaves of the bounds.
LEMMA SpendFacts ==
  ASSUME TypeInv, NEW what \in {"faults", "cancels", "crashes"}, Spend(what)
  PROVE  /\ budget'.faults <= budget.faults /\ budget'.cancels <= budget.cancels
         /\ budget'.crashes <= budget.crashes
         /\ budget'[what] < budget[what]
         /\ \A x \in {"faults", "cancels", "crashes"} : x # what => budget'[x] = budget[x]
  <1>1. budget \in [faults : Nat, cancels : Nat, crashes : Nat]
    BY DEF TypeInv, TypeOK
  <1>2. CASE what = "faults"
    BY <1>1, <1>2 DEF Spend
  <1>3. CASE what = "cancels"
    BY <1>1, <1>3 DEF Spend
  <1>4. CASE what = "crashes"
    BY <1>1, <1>4 DEF Spend
  <1>. QED
    BY <1>2, <1>3, <1>4

\* The numbers the bounds are compared with.
LEMMA BudgetTypes ==
  ASSUME TypeInv
  PROVE  /\ budget.faults \in Nat /\ budget.cancels \in Nat /\ budget.crashes \in Nat
         /\ MaxFaults \in Nat /\ MaxCancels \in Nat /\ MaxCrashes \in Nat
  BY ExecAssumption DEF TypeInv, TypeOK

\* What a pass that goes on or ends does to the passes.
LEMMA TickGoesFacts ==
  ASSUME TypeInv, NEW t \in Ticks, NEW pc, NEW run, TickGoes(t, pc, run)
  PROVE  tick'[t].pc = pc /\ tick'[t].snap = run /\ \A u \in Ticks : u # t => tick'[u] = tick[u]
  BY DEF TypeInv, TypeOK, TickGoes

LEMMA TickEndsFacts ==
  ASSUME TypeInv, NEW t \in Ticks, TickEnds(t)
  PROVE  tick'[t] = NoTick /\ tick'[t].pc = "idle" /\ \A u \in Ticks : u # t => tick'[u] = tick[u]
  BY DEF TypeInv, TypeOK, TickEnds, NoTick

LEMMA TickErrsFacts ==
  ASSUME TypeInv, NEW t \in Ticks, TickErrs(t)
  PROVE  /\ tick'[t].pc \in {"idle", "failed"} /\ tick'[t].snap = NewRun
         /\ \A u \in Ticks : u # t => tick'[u] = tick[u]
  BY TickGoesFacts, TickEndsFacts DEF TickErrs, NoTick

\* What a step of a pass leaves alone, and which of its steps are about workers.
LEMMA TickRest ==
  ASSUME TypeInv, NEW t \in Ticks, TickStep(t) \/ TickFault(t)
  PROVE  /\ tick[t].pc # "idle" /\ \A u \in Ticks : u # t => tick'[u] = tick[u]
         /\ UNCHANGED <<waits, due, canceller, late, up, ran>>
         /\ budget' = budget \/ Spend("faults")
         /\ tick[t].pc = "join" => TickJoin(t)
         /\ worker' = worker \/ TickClaim(t) \/ TickJoin(t)
  <1>1. UNCHANGED <<waits, due, canceller, late, up, ran>> /\ tick[t].pc # "idle"
        /\ (budget' = budget \/ Spend("faults")) /\ (tick[t].pc = "join" => TickJoin(t))
    BY DEF TickStep, TickEnter, TickWake, TickLoop, TickClaim, TickFinalize, TickJoin, TickFault,
           RecordRead, RecordPersist, TickAt
  <1>2. worker' = worker \/ TickClaim(t) \/ TickJoin(t)
    BY DEF TickStep, TickEnter, TickWake, TickLoop, TickFinalize, TickFault, RecordRead, RecordPersist
  <1>3. (\E pc, run : TickGoes(t, pc, run)) \/ TickEnds(t) \/ TickErrs(t)
    BY Zenon DEF TickStep, TickEnter, TickWake, TickLoop, TickClaim, TickFinalize, TickJoin, TickFault,
                 RecordRead, RecordPersist
  <1>4. \A u \in Ticks : u # t => tick'[u] = tick[u]
    BY <1>3, TickGoesFacts, TickEndsFacts, TickErrsFacts
  <1>. QED
    BY <1>1, <1>2, <1>4

\* A pass records a failure only after an error.
LEMMA TickSpends ==
  ASSUME PassInv, NEW t \in Ticks, TickStep(t) \/ TickFault(t), tick'[t].pc \in {"failed", "record"}
  PROVE  budget'.faults < MaxFaults
  <1>0. TypeInv /\ budget.faults <= MaxFaults
    BY DEF PassInv, Spent
  <1>1. CASE TickFault(t)
    <2>1. budget'.faults < budget.faults
      BY <1>0, <1>1, SpendFacts DEF TickFault
    <2>2. budget'.faults \in Nat
      BY <1>0, <1>1, SpendType DEF TickFault
    <2>. QED
      BY <1>0, <2>1, <2>2, BudgetTypes
  <1>2. CASE TickJoin(t)
    <2>1. \E j \in Jobs : WAt(t, j, "err")
      BY SMTT(60), <1>0, <1>2, TickGoesFacts DEF TickJoin, WAt
    <2>. QED
      BY <1>2, <2>1 DEF TickJoin, PassInv, Spent
  <1>3. CASE RecordRead(t)
    <2>1. tick[t].pc = "failed" /\ budget' = budget
      BY <1>0, <1>3, TickEndsFacts DEF RecordRead, TickAt
    <2>. QED
      BY <2>1 DEF PassInv, Spent
  <1>4. CASE TickEnter(t) \/ TickWake(t) \/ TickLoop(t) \/ TickClaim(t) \/ TickFinalize(t) \/ RecordPersist(t)
    BY <1>0, <1>4, TickGoesFacts, TickEndsFacts
       DEF TickEnter, TickWake, TickLoop, TickClaim, TickFinalize, RecordPersist
  <1>. QED
    BY <1>1, <1>2, <1>3, <1>4 DEF TickStep

\* Workers are launched by a pass that then waits for them, and are gone when it goes on.
LEMMA TickJoins ==
  ASSUME PassInv, NEW t \in Ticks, TickStep(t) \/ TickFault(t)
  PROVE  Joined' /\ \A u \in Ticks, j \in Jobs : WAt(u, j, "err")' => WAt(u, j, "err")
  <1>0. TypeInv /\ Joined /\ \A u \in Ticks : u # t => tick'[u] = tick[u]
    BY TickRest DEF PassInv
  <1>1. CASE TickClaim(t)
    <2>. DEFINE ready == ReadyJobs(tick[t].snap)
    <2>1. worker' = [w \in Ticks \X Jobs |-> IF w[1] = t /\ w[2] \in ready
                                              THEN [NoWorker EXCEPT !.pc = "launch"] ELSE worker[w]]
      BY <1>1 DEF TickClaim
    <2>. HIDE DEF ready
    <2>2. [NoWorker EXCEPT !.pc = "launch"].pc = "launch"
      BY DEF NoWorker
    <2>3. tick'[t].pc = "join"
      BY <1>0, <1>1, TickGoesFacts DEF TickClaim
    <2>4. ASSUME NEW u \in Ticks, NEW j \in Jobs
          PROVE  worker'[<<u, j>>] = worker[<<u, j>>] \/ (u = t /\ worker'[<<u, j>>].pc = "launch")
      BY <2>1, <2>2
    <2>. QED
      BY <1>0, <2>3, <2>4 DEF Joined, WAt, TickAt
  <1>2. CASE TickJoin(t)
    <2>1. worker' = [w \in Ticks \X Jobs |-> IF w[1] = t THEN NoWorker ELSE worker[w]]
      BY <1>2 DEF TickJoin
    <2>2. ASSUME NEW u \in Ticks, NEW j \in Jobs
          PROVE  (u # t /\ worker'[<<u, j>>] = worker[<<u, j>>]) \/ worker'[<<u, j>>].pc = "idle"
      BY <2>1 DEF NoWorker
    <2>. QED
      BY <1>0, <2>2 DEF Joined, WAt, TickAt
  <1>3. CASE ~TickClaim(t) /\ ~TickJoin(t)
    <2>1. worker' = worker /\ tick[t].pc # "join"
      BY <1>0, <1>3, TickRest
    <2>. QED
      BY <1>0, <2>1 DEF Joined, WAt, TickAt
  <1>. QED
    BY <1>1, <1>2, <1>3

\* What a worker's step does to the worker and leaves alone.
LEMMA WorkerRest ==
  ASSUME TypeInv, NEW t \in Ticks, NEW j \in Jobs,
         WorkerStep(t, j) \/ WFault(t, j) \/ WPanic(t, j) \/ AgentUpdate(t, j)
  PROVE  /\ ~WAt(t, j, "idle") /\ ~WAt(t, j, "err") /\ Busy(t, j)
         /\ \A w \in Ticks \X Jobs : w # <<t, j>> => worker'[w] = worker[w]
         /\ worker'[<<t, j>>].pc = "err" => Spend("faults")
         /\ UNCHANGED <<row, due, tick, canceller, held, up>>
         /\ waits' = waits \/ WPark(t, j)
         /\ budget' = budget \/ Spend("faults")
  <1>1. ~WAt(t, j, "idle") /\ ~WAt(t, j, "err") /\ Busy(t, j)
    BY DEF WorkerStep, WLaunch, WStart, WBegin, WPrepare, WSkipDone, WPark, WParked, WBeginStep, WStepOk,
           WStepFail, WUnavailable, WSucceed, WFault, WPanic, AgentUpdate, WAt, Busy
  <1>2. UNCHANGED <<row, due, tick, canceller, held, up>> /\ (waits' = waits \/ WPark(t, j))
    BY Zenon DEF WorkerStep, WLaunch, WStart, WBegin, WPrepare, WSkipDone, WPark, WParked, WBeginStep, WStepOk,
           WStepFail, WUnavailable, WSucceed, WFault, WPanic, AgentUpdate
  <1>3. budget' = budget \/ Spend("faults")
    BY Zenon DEF WorkerStep, WLaunch, WStart, WBegin, WPrepare, WSkipDone, WPark, WParked, WBeginStep, WStepOk,
           WStepFail, WUnavailable, WSucceed, WFault, WPanic, AgentUpdate
  <1>4. (\E pc, run, k : WGoes(t, j, pc, run, k) /\ pc # "err") \/ WEnds(t, j, "done")
        \/ (WEnds(t, j, "err") /\ Spend("faults")) \/ worker' = worker
    <2>1. CASE WLaunch(t, j) \/ WStart(t, j) \/ WBegin(t, j) \/ WPrepare(t, j) \/ WSkipDone(t, j)
      BY <2>1 DEF WLaunch, WStart, WBegin, WPrepare, WSkipDone
    <2>2. CASE WPark(t, j) \/ WParked(t, j) \/ WBeginStep(t, j) \/ WStepOk(t, j) \/ WStepFail(t, j)
      BY <2>2 DEF WPark, WParked, WBeginStep, WStepOk, WStepFail
    <2>3. CASE WUnavailable(t, j) \/ WSucceed(t, j) \/ WFault(t, j) \/ WPanic(t, j) \/ AgentUpdate(t, j)
      BY <2>3 DEF WUnavailable, WSucceed, WFault, WPanic, AgentUpdate
    <2>. QED
      BY <2>1, <2>2, <2>3 DEF WorkerStep
  <1>5. ASSUME NEW pc, NEW run, NEW k, WGoes(t, j, pc, run, k), pc # "err"
        PROVE  /\ worker'[<<t, j>>].pc # "err"
               /\ \A w \in Ticks \X Jobs : w # <<t, j>> => worker'[w] = worker[w]
    BY <1>5 DEF WGoes, TypeInv, StepBound
  <1>6. ASSUME NEW pc, WEnds(t, j, pc)
        PROVE  /\ worker'[<<t, j>>].pc = pc
               /\ \A w \in Ticks \X Jobs : w # <<t, j>> => worker'[w] = worker[w]
    BY <1>6 DEF WEnds, TypeInv, StepBound, NoWorker
  <1>7. \A w \in Ticks \X Jobs : w # <<t, j>> => worker'[w] = worker[w]
    BY <1>4, <1>5, <1>6
  <1>8. worker'[<<t, j>>].pc = "err" => Spend("faults")
    BY <1>1, <1>4, <1>5, <1>6 DEF WAt
  <1>. QED
    BY <1>1, <1>2, <1>3, <1>7, <1>8

\* Everything else is at an idle resume pass, or starts none.
LEMMA OtherRest ==
  ASSUME TypeInv, ResumeWaits \/ TimePasses \/ LateUpdate \/ CancelRead \/ CancelPersist \/ RecoverStale
  PROVE  /\ worker' = worker
         /\ tick' = tick \/ ResumeWaits
         /\ waits' = waits \/ ResumeWaits
         /\ due' = due \/ TimePasses
         /\ budget' = budget \/ Spend("faults") \/ Spend("cancels")
         /\ up' = up \/ RecoverStale
         /\ canceller'.pc = "read" => canceller' = canceller \/ Spend("cancels")
  BY DEF ResumeWaits, TimePasses, LateUpdate, CancelRead, CancelPersist, RecoverStale, NoCaller

\* Spending keeps the bounds.
LEMMA SpentKept ==
  ASSUME PassInv, TypeInv', budget' = budget \/ Spend("faults") \/ Spend("cancels") \/ Spend("crashes")
  PROVE  /\ budget'.cancels <= MaxCancels /\ budget'.faults <= MaxFaults /\ budget'.crashes <= MaxCrashes
         /\ budget.cancels < MaxCancels \/ Spend("cancels") => budget'.cancels < MaxCancels
         /\ budget.faults < MaxFaults \/ Spend("faults") => budget'.faults < MaxFaults
         /\ budget.crashes < MaxCrashes \/ Spend("crashes") => budget'.crashes < MaxCrashes
  <1>1. /\ budget'.faults \in Nat /\ budget'.cancels \in Nat /\ budget'.crashes \in Nat
    BY DEF TypeInv, TypeOK
  <1>2. TypeInv /\ budget.cancels <= MaxCancels /\ budget.faults <= MaxFaults /\ budget.crashes <= MaxCrashes
    BY DEF PassInv, Spent
  <1>3. /\ budget.faults \in Nat /\ budget.cancels \in Nat /\ budget.crashes \in Nat
        /\ MaxFaults \in Nat /\ MaxCancels \in Nat /\ MaxCrashes \in Nat
    BY <1>2, BudgetTypes
  <1>4. /\ budget'.faults <= budget.faults /\ budget'.cancels <= budget.cancels
        /\ budget'.crashes <= budget.crashes
    BY <1>2, <1>3, SpendFacts
  <1>5. /\ Spend("faults") => budget'.faults < budget.faults
        /\ Spend("cancels") => budget'.cancels < budget.cancels
        /\ Spend("crashes") => budget'.crashes < budget.crashes
    BY <1>2, SpendFacts
  <1>. QED
    BY <1>1, <1>2, <1>3, <1>4, <1>5

\* A pass keeps the invariant: it starts none, and puts or takes no wait record.
LEMMA PassTick ==
  ASSUME PassInv, TypeInv', NEW t \in Ticks, TickStep(t) \/ TickFault(t)
  PROVE  PassInv'
  <1>0. TypeInv /\ Spent /\ OnePass
    BY DEF PassInv
  <1>1. /\ tick[t].pc # "idle" /\ \A u \in Ticks : u # t => tick'[u] = tick[u]
        /\ UNCHANGED <<waits, due, canceller, up>> /\ (budget' = budget \/ Spend("faults"))
    BY <1>0, TickRest
  <1>2. Joined' /\ \A u \in Ticks, j \in Jobs : WAt(u, j, "err")' => WAt(u, j, "err")
    BY TickJoins
  <1>3. Spent'
    <2>1. \A u \in Ticks : tick'[u].pc \in {"failed", "record"} => budget'.faults < MaxFaults
      BY <1>0, <1>1, TickSpends, SpentKept DEF Spent
    <2>2. \A u \in Ticks, j \in Jobs : WAt(u, j, "err")' => budget'.faults < MaxFaults
      BY <1>0, <1>1, <1>2, SpentKept DEF Spent
    <2>3. up
      BY <1>0, <1>1 DEF Spent, TickAt
    <2>. QED
      BY <1>0, <1>1, <2>1, <2>2, <2>3, SpentKept DEF Spent
  <1>4. OnePass'
    <2>1. \A u \in Ticks : TickAt(u, "idle") => TickAt(u, "idle")'
      BY <1>1 DEF TickAt
    <2>. QED
      BY <1>0, <1>1, <2>1 DEF OnePass, Ticks
  <1>. QED
    BY <1>2, <1>3, <1>4 DEF PassInv

\* A worker keeps it: the wait record it puts is not due.
LEMMA PassWorker ==
  ASSUME PassInv, TypeInv', NEW t \in Ticks, NEW j \in Jobs,
         WorkerStep(t, j) \/ WFault(t, j) \/ WPanic(t, j) \/ AgentUpdate(t, j)
  PROVE  PassInv'
  <1>0. TypeInv /\ Spent /\ OnePass /\ Joined
    BY DEF PassInv
  <1>1. /\ ~WAt(t, j, "idle") /\ \A w \in Ticks \X Jobs : w # <<t, j>> => worker'[w] = worker[w]
        /\ worker'[<<t, j>>].pc = "err" => Spend("faults")
        /\ UNCHANGED <<due, tick, canceller, up>> /\ (waits' = waits \/ WPark(t, j))
        /\ budget' = budget \/ Spend("faults")
    BY <1>0, WorkerRest
  <1>2. Joined'
    BY <1>0, <1>1 DEF Joined, WAt, TickAt
  <1>3. Spent'
    <2>1. \A u \in Ticks, i \in Jobs : WAt(u, i, "err")' => budget'.faults < MaxFaults
      BY <1>0, <1>1, SpentKept DEF Spent, WAt
    <2>. QED
      BY <1>0, <1>1, <2>1, SpentKept DEF Spent, TickAt
  <1>4. OnePass'
    <2>1. CASE waits' = waits
      BY <1>0, <1>1, <2>1 DEF OnePass, TickAt
    <2>2. CASE WPark(t, j)
      <3>. DEFINE s == <<j, worker[<<t, j>>].step>>
      <3>1. /\ s \in WaitSteps /\ s \in Jobs \X Steps /\ s \notin due /\ waits' = [waits EXCEPT ![s] = @ + 1]
        BY <1>0, <2>2, AtStepRange DEF WPark, AtStep, PutWait, WaitSteps
      <3>. HIDE DEF s
      <3>2. \A r \in Jobs \X Steps : r # s => waits'[r] = waits[r]
        BY <1>0, <3>1 DEF TypeInv, TypeOK
      <3>3. due \subseteq Jobs \X Steps
        BY <1>0 DEF TypeInv, TypeOK
      <3>. QED
        BY <1>0, <1>1, <3>1, <3>2, <3>3 DEF OnePass, TickAt
    <2>. QED
      BY <1>1, <2>1, <2>2
  <1>. QED
    BY <1>2, <1>3, <1>4 DEF PassInv

\* So do the clock, which waits for a pass that parked a job, and the rest.
LEMMA PassOther ==
  ASSUME PassesApart, PassInv, TypeInv',
         ResumeWaits \/ TimePasses \/ LateUpdate \/ CancelRead \/ CancelPersist \/ RecoverStale
  PROVE  PassInv'
  <1>0. TypeInv /\ Spent /\ OnePass /\ Joined
    BY DEF PassInv
  <1>1. /\ worker' = worker /\ (tick' = tick \/ ResumeWaits) /\ (waits' = waits \/ ResumeWaits)
        /\ due' = due \/ TimePasses
        /\ budget' = budget \/ Spend("faults") \/ Spend("cancels")
        /\ up' = up \/ RecoverStale
        /\ canceller'.pc = "read" => canceller' = canceller \/ Spend("cancels")
    BY <1>0, OtherRest
  <1>2. CASE ResumeWaits
    <2>1. PICK s \in due : waits[s] > 0 /\ waits' = [waits EXCEPT ![s] = @ - 1]
      BY <1>2 DEF ResumeWaits
    <2>2. /\ up /\ TickAt("resume", "idle") /\ tick'["resume"].pc = "enter"
          /\ tick'["start"] = tick["start"]
          /\ UNCHANGED <<due, canceller, up, budget>>
      BY <1>0, <1>2, TickGoesFacts DEF ResumeWaits, Ticks
    <2>3. TickAt("start", "idle")
      BY <1>0, <2>1 DEF OnePass
    <2>4. \A r \in Jobs \X Steps : waits'[r] > 0 => waits[r] > 0
      <3>1. waits \in [Jobs \X Steps -> Nat] /\ s \in Jobs \X Steps
        BY <1>0 DEF TypeInv, TypeOK
      <3>. QED
        BY <2>1, <3>1
    <2>5. OnePass'
      BY <1>0, <2>2, <2>3, <2>4 DEF OnePass, TickAt
    <2>6. Joined'
      BY <1>0, <1>1, <2>2 DEF Joined, WAt, TickAt, Ticks
    <2>7. Spent'
      BY <1>0, <1>1, <2>2 DEF Spent, WAt, TickAt, Ticks
    <2>. QED
      BY <2>5, <2>6, <2>7 DEF PassInv
  <1>3. CASE ~ResumeWaits
    <2>1. tick' = tick /\ waits' = waits
      BY <1>1, <1>3
    <2>2. Joined'
      BY <1>0, <1>1, <2>1 DEF Joined, WAt, TickAt
    <2>3. Spent'
      <3>1. ~up' => ~up
        BY <1>1 DEF RecoverStale
      <3>. QED
        BY <1>0, <1>1, <2>1, <3>1, SpentKept DEF Spent, TickAt, WAt
    <2>4. OnePass'
      <3>1. CASE due' = due
        BY <1>0, <2>1, <3>1 DEF OnePass, TickAt
      <3>2. CASE TimePasses
        <4>1. TickAt("start", "idle") \/ \A s \in WaitSteps : waits[s] = 0
          BY <3>2 DEF TimePasses, Ticks, PassesApart
        <4>2. \A s \in due' : s \in due \/ s \in WaitSteps
          BY <3>2 DEF TimePasses
        <4>. QED
          BY <1>0, <2>1, <4>1, <4>2 DEF OnePass, TickAt
      <3>. QED
        BY <1>1, <3>1, <3>2
    <2>. QED
      BY <2>2, <2>3, <2>4 DEF PassInv
  <1>. QED
    BY <1>2, <1>3

\* Every step keeps it; a crash ends all passes and workers.
LEMMA PassStep == ASSUME PassesApart, PassInv, [Next]_vars PROVE PassInv'
  <1>0. TypeInv /\ TypeInv'
    BY NextType DEF PassInv
  <1>1. CASE Crash
    <2>1. /\ \A t \in Ticks : tick'[t].pc = "idle" /\ \A j \in Jobs : worker'[<<t, j>>].pc = "idle"
          /\ canceller'.pc = "idle" /\ UNCHANGED <<waits, due>> /\ Spend("crashes")
      BY <1>1 DEF Crash, NoTick, NoWorker, NoCaller
    <2>2. Joined' /\ OnePass'
      BY <2>1 DEF PassInv, Joined, OnePass, WAt, TickAt, Ticks
    <2>3. Spent'
      BY <1>0, <2>1, SpentKept DEF PassInv, Spent, WAt, TickAt
    <2>. QED
      BY <1>0, <2>2, <2>3 DEF PassInv
  <1>2. CASE UNCHANGED vars
    BY <1>0, <1>2 DEF vars, PassInv, Spent, OnePass, Joined, WAt, TickAt
  <1>. QED
    BY <1>0, <1>1, <1>2, PassTick, PassWorker, PassOther DEF Next, Environment

\* It holds at the start.
LEMMA PassInit == Init => PassInv
  <1>. SUFFICES ASSUME Init PROVE PassInv
    OBVIOUS
  <1>1. TypeInv
    BY InitType
  <1>2. /\ \A t \in Ticks, j \in Jobs : worker[<<t, j>>].pc = "idle"
        /\ \A t \in Ticks : tick[t].pc \in {"idle", "enter"}
        /\ tick["resume"].pc = "idle" /\ canceller.pc = "idle" /\ up /\ due = {}
        /\ \A s \in Jobs \X Steps : waits[s] = 0
        /\ budget.cancels = MaxCancels /\ budget.faults = MaxFaults /\ budget.crashes = MaxCrashes
    BY DEF Init, NoTick, NoWorker, NoCaller, Ticks
  <1>. QED
    BY <1>1, <1>2, ExecAssumption DEF PassInv, Spent, OnePass, Joined, WAt, TickAt

\* One pass at a time, whatever the environment did so far.
LEMMA PassInvariance == ASSUME PassesApart PROVE Spec => []PassInv
  <1>1. PassInv /\ [Next]_vars => PassInv'
    BY PassStep
  <1>. QED
    BY <1>1, PassInit, PTL DEF Spec

\* The other pass sleeps.
LEMMA OnlyPass ==
  ASSUME PassInv, NEW t \in Ticks, tick[t].pc # "idle", NEW u \in Ticks, u # t
  PROVE  tick[u].pc = "idle" /\ \A j \in Jobs : worker[<<u, j>>].pc = "idle"
  <1>1. tick[u].pc = "idle"
    BY DEF PassInv, OnePass, TickAt, Ticks
  <1>. QED
    BY <1>1 DEF PassInv, Joined, WAt, TickAt

----------------------------------------------------------------------------
(* A terminal run has no work in flight.  All that is written while a pass *)
(* is at work comes from snapshots of a run that was not over.             *)

Uncancelled == budget.cancels = MaxCancels
Watched == Uncancelled /\ budget.faults + 1 >= MaxFaults

Live(run) == ~IsTerminal(run.status)

\* Who works on a snapshot works on one of a live run.
LiveSnaps ==
    /\ \A t \in Ticks : IF tick[t].pc = "record" THEN tick[t].snap.status = "failed" ELSE Live(tick[t].snap)
    /\ \A w \in Ticks \X Jobs : Live(worker[w].snap)
    /\ \A run \in late : Live(run)

\* A pass that decides or waits for workers has a live run.
LiveStore ==
    /\ \A t \in Ticks : tick[t].pc \in {"decide", "join"} => Live(store)
    /\ store.status # "skipped"

\* A live run has its lock.
RowHeld == row \/ ~Live(store)

LiveInv == (Uncancelled => LiveSnaps /\ LiveStore) /\ (Watched => RowHeld)

\* A merge ends a run exactly if one of the two has ended.
LEMMA LiveMerge ==
  ASSUME NEW a \in Run, NEW b \in Run, a.status # "skipped", b.status # "skipped"
  PROVE  /\ MergeRun(a, b).status # "skipped"
         /\ Live(MergeRun(a, b)) <=> Live(a) /\ Live(b)
  <1>1. a.status \in Status /\ b.status \in Status
    BY DEF Run
  <1>2. MergeRun(a, b).status = MergeStatus(a.status, b.status)
    BY DEF MergeRun
  <1>3. MergeStatus(a.status, b.status) \in {a.status, b.status}
    BY DEF MergeStatus
  <1>4. \A s \in {a.status, b.status} :
          StatusRank(s) \in 1 .. 5 /\ (StatusRank(s) = 5 <=> IsTerminal(s))
    BY <1>1, RankRange DEF StatusRank, IsTerminal, Status
  <1>5. StatusRank(a.status) = 5 => ~Yields(a.status, b.status)
    BY DEF StatusRank, Yields
  <1>6. IsTerminal(a.status) => StatusRank(MergeStatus(a.status, b.status)) = 5
    BY <1>4, <1>5 DEF MergeStatus
  <1>7. IsTerminal(b.status) => StatusRank(MergeStatus(a.status, b.status)) = 5
    BY <1>4 DEF MergeStatus
  <1>. QED
    BY <1>2, <1>3, <1>4, <1>6, <1>7 DEF Live

\* What the transitions do to the status of the run.
LEMMA LiveFacts ==
  ASSUME NEW run \in Run
  PROVE  /\ Live(NewRun)
         /\ Live(WakeWaitingRun(run))
         /\ FailAll(run).status = "failed"
         /\ Finalize(run).status = run.status \/ Finalize(run).status \in {"success", "failed"}
         /\ \A S : ClaimJobs(run, S).status = run.status
         /\ StaleFailed(run).status = run.status
         /\ \A j, s : SetJob(run, j, s).status = run.status
         /\ \A j, k, s : SetStep(run, j, k, s).status = run.status
         /\ \A j : FailJob(run, j).status = run.status
         /\ \A j, k : ParkWait(run, j, k).status = "waiting"
         /\ BeginRunning(run).status = run.status \/ BeginRunning(run).status = "running"
  BY DEF Run, NewRun, WakeWaitingRun, FailAll, Finalize, ClaimJobs, StaleFailed, SetJob, SetStep, FailJob,
         ParkWait, BeginRunning, Live, IsTerminal

\* The premise of the property only ever goes away.
LEMMA WatchedBefore ==
  ASSUME PassInv, TypeInv', [Next]_vars
  PROVE  (Uncancelled' => Uncancelled) /\ (Watched' => Watched)
  <1>0. TypeInv
    BY DEF PassInv
  <1>1. budget' = budget \/ Spend("faults") \/ Spend("cancels") \/ Spend("crashes")
    <2>1. CASE UNCHANGED vars
      BY <2>1 DEF vars
    <2>2. CASE Crash
      BY <2>2 DEF Crash
    <2>. QED
      BY <1>0, <2>1, <2>2, TickRest, WorkerRest, OtherRest DEF Next, Environment
  <1>2. /\ budget'.faults \in Nat /\ budget'.cancels \in Nat
        /\ budget.cancels <= MaxCancels
    BY DEF TypeInv, TypeOK, PassInv, Spent
  <1>3. budget'.faults <= budget.faults /\ budget'.cancels <= budget.cancels
    BY <1>0, <1>1, BudgetTypes, SpendFacts
  <1>. QED
    BY <1>0, <1>2, <1>3, BudgetTypes DEF Watched, Uncancelled

\* Nobody has an error behind him that the premise does not count.
LEMMA NoSecondFault ==
  ASSUME PassInv, TypeInv', Watched', Spend("faults"), budget.faults < MaxFaults PROVE FALSE
  <1>1. budget'.faults < budget.faults /\ budget'.faults \in Nat
    BY SpendFacts DEF PassInv, TypeInv, TypeOK
  <1>. QED
    BY <1>1, BudgetTypes DEF PassInv, Watched

\* A pass that is over, or goes on without a snapshot, leaves live snapshots.
LEMMA LiveTickKeeps ==
  ASSUME TypeInv, LiveSnaps, NEW t \in Ticks, \A u \in Ticks : u # t => tick'[u] = tick[u],
         IF tick'[t].pc = "record" THEN tick'[t].snap.status = "failed" ELSE Live(tick'[t].snap),
         late' = late, worker' = worker \/ \A w \in Ticks \X Jobs : worker'[w] = worker[w] \/ worker'[w].snap = NewRun
  PROVE  LiveSnaps'
  <1>1. Live(NewRun)
    BY NewRunType, LiveFacts
  <1>2. \A w \in Ticks \X Jobs : Live(worker'[w].snap)
    BY <1>1 DEF LiveSnaps
  <1>. QED
    BY <1>2 DEF LiveSnaps

\* A pass keeps the invariant: the verdict ends a run nobody else works on.
LEMMA LiveTick ==
  ASSUME PassInv, TypeInv', LiveSnaps, LiveStore, NEW t \in Ticks, TickStep(t) \/ TickFault(t)
  PROVE  LiveSnaps' /\ LiveStore' /\ (Watched' /\ RowHeld => RowHeld')
  <1>0. /\ TypeInv /\ store \in Run /\ tick[t].snap \in Run /\ store.status # "skipped"
        /\ Live(NewRun)
    BY NewRunType, LiveFacts DEF PassInv, TypeInv, TypeOK, LiveStore
  <1>1. /\ tick[t].pc # "idle" /\ (\A u \in Ticks : u # t => tick'[u] = tick[u]) /\ late' = late
        /\ (worker' = worker \/ TickClaim(t) \/ TickJoin(t))
    BY <1>0, TickRest
  <1>2. \A u \in Ticks : u # t => tick[u].pc = "idle" /\ tick'[u].pc = "idle"
    BY <1>1, OnlyPass
  <1>3. worker' = worker \/ \A w \in Ticks \X Jobs : worker'[w] = worker[w] \/ worker'[w].snap = NewRun
    <2>1. CASE TickClaim(t)
      <3>. DEFINE ready == ReadyJobs(tick[t].snap)
      <3>1. worker' = [w \in Ticks \X Jobs |-> IF w[1] = t /\ w[2] \in ready
                                                THEN [NoWorker EXCEPT !.pc = "launch"] ELSE worker[w]]
        BY <2>1 DEF TickClaim
      <3>. HIDE DEF ready
      <3>2. [NoWorker EXCEPT !.pc = "launch"].snap = NewRun
        BY DEF NoWorker
      <3>. QED
        BY <3>1, <3>2
    <2>2. CASE TickJoin(t)
      BY <2>2 DEF TickJoin, NoWorker
    <2>. QED
      BY <1>1, <2>1, <2>2
  <1>4. tick[t].pc # "record" => Live(tick[t].snap) /\ tick[t].snap.status # "skipped"
    BY DEF LiveSnaps, Live, IsTerminal
  <1>5. tick[t].pc = "record" => tick[t].snap.status = "failed"
    BY DEF LiveSnaps
  <1>6. CASE TickEnter(t)
    <2>1. /\ store' = store /\ row' = row /\ tick'[t].pc \in {"idle", "wake", "loop"}
          /\ Live(tick'[t].snap)
      BY <1>0, <1>6, TickGoesFacts, TickEndsFacts, LiveFacts DEF TickEnter, NoTick
    <2>2. LiveSnaps'
      BY <1>0, <1>1, <1>3, <2>1, LiveTickKeeps
    <2>. QED
      BY <1>2, <2>1, <2>2 DEF LiveStore, RowHeld
  <1>7. CASE TickWake(t)
    <2>1. /\ store' = MergeRun(store, tick[t].snap) /\ row' = row /\ tick'[t].pc = "loop"
          /\ tick'[t].snap = NewRun /\ tick[t].pc = "wake"
      BY <1>0, <1>7, TickGoesFacts DEF TickWake, TickAt, Persist
    <2>2. LiveSnaps'
      BY <1>0, <1>1, <1>3, <2>1, LiveTickKeeps
    <2>3. store'.status # "skipped" /\ (Live(store') <=> Live(store))
      BY <1>0, <1>4, <2>1, LiveMerge
    <2>. QED
      BY <1>2, <2>1, <2>2, <2>3 DEF LiveStore, RowHeld
  <1>8. CASE TickLoop(t)
    <2>1. /\ store' = store /\ row' = row
          /\ tick'[t].snap \in {store, NewRun} /\ tick'[t].pc \in {"idle", "decide"}
          /\ tick'[t].pc = "decide" \/ tick'[t].snap = store => Live(store) \/ tick'[t].snap = NewRun
          /\ tick'[t].pc = "decide" => Live(store)
      BY <1>0, <1>8, TickGoesFacts, TickEndsFacts DEF TickLoop, NoTick, Live
    <2>2. LiveSnaps'
      BY <1>0, <1>1, <1>3, <2>1, LiveTickKeeps
    <2>. QED
      BY <1>2, <2>1, <2>2 DEF LiveStore, RowHeld
  <1>9. CASE TickClaim(t)
    <2>. DEFINE claimed == ClaimJobs(tick[t].snap, ReadyJobs(tick[t].snap))
    <2>1. /\ store' = MergeRun(store, claimed) /\ row' = row /\ tick'[t].pc = "join"
          /\ tick'[t].snap = NewRun /\ tick[t].pc = "decide"
      BY <1>0, <1>9, TickGoesFacts DEF TickClaim, TickAt, Persist
    <2>2. LiveSnaps'
      BY <1>0, <1>1, <1>3, <2>1, LiveTickKeeps
    <2>3. claimed \in Run /\ claimed.status = tick[t].snap.status
      BY <1>0, ClaimType, LiveFacts
    <2>. HIDE DEF claimed
    <2>4. store'.status # "skipped" /\ (Live(store') <=> Live(store))
      BY <1>0, <1>4, <2>1, <2>3, LiveMerge DEF Live
    <2>. QED
      BY <2>1, <2>2, <2>4 DEF LiveStore, RowHeld
  <1>10. CASE TickFinalize(t)
    <2>. DEFINE final == Finalize(tick[t].snap)
    <2>1. /\ store' = MergeRun(store, final) /\ tick'[t] = NoTick /\ tick'[t].pc = "idle" /\ tick[t].pc = "decide"
          /\ IsTerminal(final.status) \/ row' = row
      BY <1>0, <1>10, TickEndsFacts DEF TickFinalize, TickAt, Persist
    <2>2. LiveSnaps'
      BY <1>0, <1>1, <1>3, <2>1, LiveTickKeeps DEF NoTick
    <2>3. final \in Run /\ final.status # "skipped"
      BY <1>0, <1>4, <2>1, FinalizeType, LiveFacts
    <2>. HIDE DEF final
    <2>4. store'.status # "skipped" /\ (Live(store') <=> Live(store) /\ Live(final))
      BY <1>0, <2>1, <2>3, LiveMerge
    <2>5. RowHeld => RowHeld'
      BY <2>1, <2>4 DEF LiveStore, Live, RowHeld
    <2>. QED
      BY <1>2, <2>1, <2>2, <2>4, <2>5 DEF LiveStore, RowHeld
  <1>11. CASE TickJoin(t) \/ TickFault(t)
    <2>1. /\ store' = store /\ row' = row /\ tick'[t].pc \in {"idle", "failed", "loop"}
          /\ tick'[t].snap = NewRun
      BY <1>0, <1>11, TickGoesFacts, TickErrsFacts DEF TickJoin, TickFault
    <2>2. LiveSnaps'
      BY <1>0, <1>1, <1>3, <2>1, LiveTickKeeps
    <2>. QED
      BY <1>2, <2>1, <2>2 DEF LiveStore, RowHeld
  <1>12. CASE RecordRead(t)
    <2>1. /\ store' = store /\ row' = row
          /\ \/ tick'[t].pc = "record" /\ tick'[t].snap = FailAll(store)
             \/ tick'[t].pc = "idle" /\ tick'[t].snap = NewRun
      BY <1>0, <1>12, TickGoesFacts, TickEndsFacts DEF RecordRead, NoTick
    <2>2. LiveSnaps'
      BY <1>0, <1>1, <1>3, <2>1, LiveTickKeeps, LiveFacts
    <2>. QED
      BY <1>2, <2>1, <2>2 DEF LiveStore, RowHeld
  <1>13. CASE RecordPersist(t)
    <2>0. store' = MergeRun(store, tick[t].snap) \/ (store' = store /\ Spend("faults"))
      BY <1>13 DEF RecordPersist, Persist
    <2>1. tick'[t] = NoTick /\ tick'[t].pc = "idle" /\ tick[t].pc = "record"
      BY <1>0, <1>13, TickEndsFacts DEF RecordPersist, TickAt
    <2>2. LiveSnaps'
      BY <1>0, <1>1, <1>3, <2>1, LiveTickKeeps DEF NoTick
    <2>3. store' = MergeRun(store, tick[t].snap) => store'.status # "skipped" /\ ~Live(store')
      BY <1>0, <1>5, <2>1, LiveMerge DEF Live, IsTerminal
    <2>4. Watched' => store' = MergeRun(store, tick[t].snap)
      BY <2>0, <2>1, NoSecondFault DEF PassInv, Spent
    <2>. QED
      BY <1>0, <1>2, <2>0, <2>1, <2>2, <2>3, <2>4 DEF LiveStore, RowHeld
  <1>. QED
    BY <1>6, <1>7, <1>8, <1>9, <1>10, <1>11, <1>12, <1>13 DEF TickStep

\* Where a worker that goes on or returns is, and with which snapshot.
LEMMA WGoesFacts ==
  ASSUME TypeInv, NEW t \in Ticks, NEW j \in Jobs, NEW pc, NEW run, NEW k, WGoes(t, j, pc, run, k)
  PROVE  /\ worker'[<<t, j>>].pc = pc /\ worker'[<<t, j>>].snap = run /\ worker'[<<t, j>>].step = k
         /\ \A w \in Ticks \X Jobs : w # <<t, j>> => worker'[w] = worker[w]
  BY DEF WGoes, TypeInv, StepBound

LEMMA WEndsFacts ==
  ASSUME TypeInv, NEW t \in Ticks, NEW j \in Jobs, NEW pc, WEnds(t, j, pc)
  PROVE  /\ worker'[<<t, j>>].pc = pc /\ worker'[<<t, j>>].snap = NewRun
         /\ \A w \in Ticks \X Jobs : w # <<t, j>> => worker'[w] = worker[w]
  BY DEF WEnds, TypeInv, StepBound, NoWorker

\* A snapshot with some progress of a job: it is parked no more than before.
Progress(run, snap) == run.wakeAt = snap.wakeAt /\ run.status \in {snap.status, "running", "blocked"}

\* What a worker writes and hands to an agent is progress of its own snapshot; what it keeps
\* is that, the stored run it starts from, or its parking of the run.
WorkerWrites(t, j) ==
    LET w == worker[<<t, j>>]
        kept == worker'[<<t, j>>].snap
    IN  /\ store' = store \/ \E run \in Run : Progress(run, w.snap) /\ store' = MergeRun(store, run)
        /\ late' \subseteq late \cup {run \in Run : Progress(run, w.snap)}
        /\ \/ kept \in {store, NewRun} \/ Progress(kept, w.snap)
           \/ WPark(t, j) /\ kept.status = "waiting" /\ kept.wakeAt = <<j, w.step>>

\* The setters touch neither the wake time nor, but for BeginRunning, the status of the run.
LEMMA ProgressFacts ==
  ASSUME NEW run \in Run, NEW snap, Progress(run, snap), NEW j \in Jobs
  PROVE  /\ \A s \in Status : /\ SetJob(run, j, s) \in Run /\ Progress(SetJob(run, j, s), snap)
                              /\ \A k : /\ SetStep(run, j, k, s) \in Run
                                        /\ Progress(SetStep(run, j, k, s), snap)
         /\ FailJob(run, j) \in Run /\ Progress(FailJob(run, j), snap)
         /\ BeginRunning(run) \in Run /\ Progress(BeginRunning(run), snap)
  <1>1. /\ \A s \in Status : SetJob(run, j, s) \in Run /\ \A k : SetStep(run, j, k, s) \in Run
        /\ FailJob(run, j) \in Run /\ BeginRunning(run) \in Run
    BY SetTypes, FailJobType, BeginRunningType
  <1>2. \A s, k : /\ Progress(SetJob(run, j, s), snap) /\ Progress(SetStep(run, j, k, s), snap)
    BY DEF Progress, SetJob, SetStep, Run
  <1>3. Progress(FailJob(run, j), snap) /\ Progress(BeginRunning(run), snap)
    BY DEF Progress, FailJob, BeginRunning, SetJob, Run
  <1>. QED
    BY <1>1, <1>2, <1>3

LEMMA WorkerWritesProgress ==
  ASSUME TypeInv, NEW t \in Ticks, NEW j \in Jobs,
         WorkerStep(t, j) \/ WFault(t, j) \/ WPanic(t, j) \/ AgentUpdate(t, j)
  PROVE  WorkerWrites(t, j)
  <1>. DEFINE w == worker[<<t, j>>]
  <1>0. w.snap \in Run /\ Progress(w.snap, w.snap)
        /\ {"running", "skipped", "success", "failed", "waiting"} \subseteq Status
    BY WorkerType DEF Progress, Status
  <1>1. CASE WLaunch(t, j) \/ WStart(t, j) \/ WSkipDone(t, j) \/ WFault(t, j) \/ AgentUpdate(t, j)
    <2>1. /\ late' = late
          /\ store' = store \/ store' = MergeRun(store, w.snap)
          /\ (\E pc, k : \E run \in {NewRun, store, w.snap} : WGoes(t, j, pc, run, k))
             \/ (\E pc : WEnds(t, j, pc)) \/ worker' = worker
      BY <1>1 DEF WLaunch, WStart, WSkipDone, WFault, AgentUpdate, Persist
    <2>2. worker'[<<t, j>>].snap \in {NewRun, store, w.snap}
      BY <2>1, WGoesFacts, WEndsFacts
    <2>. QED
      BY <1>0, <2>1, <2>2 DEF WorkerWrites
  <1>2. CASE WBegin(t, j)
    <2>. DEFINE running == BeginRunning(SetJob(w.snap, j, "running"))
    <2>1. /\ running \in Run /\ Progress(running, w.snap)
          /\ SetJob(w.snap, j, "skipped") \in Run /\ Progress(SetJob(w.snap, j, "skipped"), w.snap)
          /\ FailJob(w.snap, j) \in Run /\ Progress(FailJob(w.snap, j), w.snap)
      BY <1>0, ProgressFacts
    <2>2. /\ late' = late
          /\ \/ store' = MergeRun(store, running) /\ WGoes(t, j, "prepare", running, 1)
             \/ store' = MergeRun(store, SetJob(w.snap, j, "skipped")) /\ WEnds(t, j, "done")
             \/ store' = MergeRun(store, FailJob(w.snap, j)) /\ WEnds(t, j, "done")
      BY <1>2 DEF WBegin, Persist
    <2>. HIDE DEF running
    <2>3. worker'[<<t, j>>].snap \in {NewRun, running}
      BY <2>2, WGoesFacts, WEndsFacts
    <2>. QED
      BY <2>1, <2>2, <2>3 DEF WorkerWrites
  <1>3. CASE WPrepare(t, j) \/ WPanic(t, j)
    <2>1. /\ late' = late
          /\ store' = store \/ store' = MergeRun(store, FailJob(w.snap, j))
          /\ WGoes(t, j, "step", w.snap, 1) \/ \E pc : WEnds(t, j, pc)
      BY <1>3 DEF WPrepare, WPanic, Persist
    <2>2. worker'[<<t, j>>].snap \in {NewRun, w.snap}
      BY <2>1, WGoesFacts, WEndsFacts
    <2>. QED
      BY <1>0, <2>1, <2>2, ProgressFacts DEF WorkerWrites
  <1>4. CASE WPark(t, j)
    <2>. DEFINE parked == ParkWait(w.snap, j, w.step)
    <2>1. parked.status = "waiting" /\ parked.wakeAt = <<j, w.step>>
      <3>1. SetJob(SetStep(w.snap, j, w.step, "waiting"), j, "waiting") \in Run
        BY <1>0, SetTypes
      <3>. QED
        BY <3>1 DEF ParkWait, Run
    <2>2. late' = late /\ store' = store /\ WGoes(t, j, "park", parked, w.step)
      BY <1>4 DEF WPark
    <2>. HIDE DEF parked
    <2>3. worker'[<<t, j>>].snap = parked
      BY <2>2, WGoesFacts
    <2>. QED
      BY <1>4, <2>1, <2>2, <2>3 DEF WorkerWrites
  <1>5. CASE WParked(t, j) \/ WSucceed(t, j)
    <2>1. late' = late /\ WEnds(t, j, "done")
          /\ \E run \in {w.snap, SetJob(w.snap, j, "success")} : store' = MergeRun(store, run)
      BY <1>5 DEF WParked, WSucceed, Persist
    <2>2. worker'[<<t, j>>].snap = NewRun
      BY <2>1, WEndsFacts
    <2>. QED
      BY <1>0, <2>1, <2>2, ProgressFacts DEF WorkerWrites
  <1>6. CASE WBeginStep(t, j) \/ WStepOk(t, j)
    <2>1. PICK s \in {"running", "success"} :
               /\ store' = MergeRun(store, SetStep(w.snap, j, w.step, s))
               /\ \E pc, k : WGoes(t, j, pc, SetStep(w.snap, j, w.step, s), k)
      BY <1>6 DEF WBeginStep, WStepOk, Persist
    <2>2. SetStep(w.snap, j, w.step, s) \in Run /\ Progress(SetStep(w.snap, j, w.step, s), w.snap)
      BY <1>0, ProgressFacts
    <2>3. worker'[<<t, j>>].snap = SetStep(w.snap, j, w.step, s) /\ late' = late
      BY <1>6, <2>1, WGoesFacts DEF WBeginStep, WStepOk
    <2>. QED
      BY <2>1, <2>2, <2>3 DEF WorkerWrites
  <1>7. CASE WStepFail(t, j)
    <2>. DEFINE stopped == SetStep(w.snap, j, w.step, "failed")
                failed == FailJob(stopped, j)
    <2>1. stopped \in Run /\ Progress(stopped, w.snap)
      BY <1>0, ProgressFacts
    <2>2. failed \in Run /\ Progress(failed, w.snap)
      BY <2>1, ProgressFacts
    <2>3. store' = MergeRun(store, failed) /\ WEnds(t, j, "done") /\ late' \subseteq late \cup {failed}
      BY <1>7 DEF WStepFail, Persist
    <2>. HIDE DEF failed
    <2>4. worker'[<<t, j>>].snap = NewRun
      BY <2>3, WEndsFacts
    <2>. QED
      BY <2>2, <2>3, <2>4 DEF WorkerWrites
  <1>8. CASE WUnavailable(t, j)
    <2>. DEFINE parked == [w.snap EXCEPT !.status = "blocked"]
    <2>1. parked \in Run /\ Progress(parked, w.snap)
      BY <1>0 DEF Run, Status, Progress
    <2>2. /\ late' = late /\ WGoes(t, j, "unavailable", parked, w.step)
          /\ store' = store \/ store' = MergeRun(store, parked)
      BY <1>8 DEF WUnavailable, Persist
    <2>. HIDE DEF parked
    <2>3. worker'[<<t, j>>].snap = parked
      BY <2>2, WGoesFacts
    <2>. QED
      BY <2>1, <2>2, <2>3 DEF WorkerWrites
  <1>. QED
    BY <1>1, <1>2, <1>3, <1>4, <1>5, <1>6, <1>7, <1>8 DEF WorkerStep

\* A worker keeps the invariant.
LEMMA LiveWorker ==
  ASSUME PassInv, TypeInv', LiveSnaps, LiveStore, NEW t \in Ticks, NEW j \in Jobs,
         WorkerStep(t, j) \/ WFault(t, j) \/ WPanic(t, j) \/ AgentUpdate(t, j)
  PROVE  LiveSnaps' /\ LiveStore' /\ (RowHeld => RowHeld')
  <1>. DEFINE w == worker[<<t, j>>]
  <1>0. TypeInv /\ store \in Run /\ store.status # "skipped"
    BY DEF PassInv, TypeInv, TypeOK, LiveStore
  <1>1. tick[t].pc = "join" /\ Live(store) /\ Live(NewRun) /\ Live(w.snap)
    <2>1. tick[t].pc = "join"
      BY <1>0, WorkerRest DEF PassInv, Joined, TickAt
    <2>. QED
      BY <2>1, NewRunType, LiveFacts DEF LiveStore, LiveSnaps
  <1>2. /\ \A x \in Ticks \X Jobs : x # <<t, j>> => worker'[x] = worker[x]
        /\ UNCHANGED <<row, tick>>
    BY <1>0, WorkerRest
  <1>3. WorkerWrites(t, j) /\ \A run : Progress(run, w.snap) => Live(run)
    BY <1>0, <1>1, WorkerWritesProgress DEF Progress, Live, IsTerminal
  <1>4. Live(worker'[<<t, j>>].snap)
    BY <1>1, <1>3 DEF WorkerWrites, Live, IsTerminal
  <1>5. LiveSnaps'
    BY <1>2, <1>3, <1>4 DEF LiveSnaps, WorkerWrites
  <1>6. store'.status # "skipped" /\ (Live(store') <=> Live(store))
    <2>1. CASE store' = store
      BY <1>0, <2>1
    <2>2. ASSUME NEW run \in Run, Live(run), store' = MergeRun(store, run)
          PROVE  store'.status # "skipped" /\ (Live(store') <=> Live(store))
      BY <1>0, <2>2, LiveMerge DEF Live, IsTerminal
    <2>. QED
      BY <1>3, <2>1, <2>2 DEF WorkerWrites
  <1>. QED
    BY <1>2, <1>5, <1>6 DEF LiveStore, RowHeld

\* So does everything else but a cancel, which the premise excludes.
LEMMA LiveOther ==
  ASSUME PassInv, TypeInv', LiveSnaps, LiveStore, Uncancelled',
         ResumeWaits \/ TimePasses \/ LateUpdate \/ CancelRead \/ CancelPersist \/ RecoverStale
  PROVE  LiveSnaps' /\ LiveStore' /\ (RowHeld => RowHeld')
  <1>0. TypeInv /\ store \in Run /\ store.status # "skipped" /\ Live(NewRun)
        /\ late \subseteq Run /\ budget.cancels <= MaxCancels
    BY NewRunType, LiveFacts DEF PassInv, Spent, TypeInv, TypeOK, LiveStore
  <1>1. CASE ResumeWaits
    <2>1. /\ tick'["resume"].pc = "enter" /\ tick'["resume"].snap = NewRun
          /\ \A u \in Ticks : u # "resume" => tick'[u] = tick[u]
          /\ UNCHANGED <<store, row, worker, late>>
      BY <1>0, <1>1, TickGoesFacts DEF ResumeWaits, Ticks
    <2>. QED
      BY <1>0, <2>1 DEF LiveSnaps, LiveStore, RowHeld
  <1>2. CASE TimePasses
    BY <1>2 DEF TimePasses, LiveSnaps, LiveStore, RowHeld
  <1>3. CASE LateUpdate
    <2>1. PICK run \in late : store' = MergeRun(store, run) /\ late' \subseteq late
      BY <1>3 DEF LateUpdate, Persist
    <2>2. UNCHANGED <<row, worker, tick>>
      BY <1>3 DEF LateUpdate
    <2>3. Live(run) /\ run \in Run
      BY <1>0 DEF LiveSnaps
    <2>4. store'.status # "skipped" /\ (Live(store') <=> Live(store))
      BY <1>0, <2>1, <2>3, LiveMerge DEF Live, IsTerminal
    <2>. QED
      BY <2>1, <2>2, <2>4 DEF LiveSnaps, LiveStore, RowHeld
  <1>4. CASE CancelRead
    <2>1. budget'.cancels < budget.cancels /\ budget'.cancels \in Nat
      BY <1>0, <1>4, SpendFacts DEF CancelRead, TypeInv, TypeOK
    <2>. QED
      BY <1>0, <2>1, BudgetTypes DEF Uncancelled
  <1>5. CASE CancelPersist
    <2>1. budget.cancels < MaxCancels /\ (budget' = budget \/ Spend("faults"))
      BY <1>5 DEF CancelPersist, PassInv, Spent
    <2>2. budget'.cancels = budget.cancels
      BY <1>0, <2>1, SpendFacts
    <2>. QED
      BY <1>0, <2>1, <2>2, BudgetTypes DEF Uncancelled
  <1>6. CASE RecoverStale
    <2>. DEFINE stale == StaleFailed(store)
    <2>1. store' = MergeRun(store, stale) /\ UNCHANGED <<row, tick, worker, late>>
      BY <1>6 DEF RecoverStale, Persist
    <2>2. stale \in Run /\ stale.status = store.status
      BY <1>0, StaleFailedType, LiveFacts
    <2>. HIDE DEF stale
    <2>3. store'.status # "skipped" /\ (Live(store') <=> Live(store))
      BY <1>0, <2>1, <2>2, LiveMerge DEF Live
    <2>. QED
      BY <2>1, <2>3 DEF LiveSnaps, LiveStore, RowHeld
  <1>. QED
    BY <1>1, <1>2, <1>3, <1>4, <1>5, <1>6

\* Every step keeps it; a crash leaves no snapshot.
LEMMA LiveStep == ASSUME PassInv, LiveInv, [Next]_vars PROVE LiveInv'
  <1>0. TypeInv' /\ Live(NewRun)
    BY NextType, NewRunType, LiveFacts DEF PassInv
  <1>. SUFFICES ASSUME Uncancelled' PROVE LiveSnaps' /\ LiveStore' /\ (Watched' /\ RowHeld => RowHeld')
    BY <1>0, WatchedBefore DEF LiveInv, Watched
  <1>1. LiveSnaps /\ LiveStore
    BY <1>0, WatchedBefore DEF LiveInv
  <1>2. CASE Crash
    <2>1. /\ \A t \in Ticks : tick'[t] = NoTick
          /\ \A w \in Ticks \X Jobs : worker'[w] = NoWorker
          /\ late' = {} /\ UNCHANGED <<store, row>>
      BY <1>2 DEF Crash
    <2>. QED
      BY <1>0, <1>1, <2>1 DEF LiveSnaps, LiveStore, RowHeld, NoTick, NoWorker
  <1>3. CASE UNCHANGED vars
    BY <1>1, <1>3 DEF vars, LiveSnaps, LiveStore, RowHeld
  <1>. QED
    BY <1>0, <1>1, <1>2, <1>3, LiveTick, LiveWorker, LiveOther DEF Next, Environment

\* It holds at the start.
LEMMA LiveInit == Init => LiveInv
  <1>1. Live(NewRun) /\ NewRun.status # "skipped"
    BY NewRunType, LiveFacts DEF NewRun
  <1>. QED
    BY <1>1 DEF Init, LiveInv, LiveSnaps, LiveStore, RowHeld, NoTick, NoWorker

\* Barring a cancel and a second error, a run that reached its verdict has no step at work,
\* and a step is only at work under the run's concurrency lock (maybeFinalize,
\* recordAsyncFailure): no pass sets the verdict, or gives the lock back, while a worker of
\* it or of the other pass executes.  What a stale snapshot could still do to the verdict
\* is covered: all that goes into a merge was read from a run that was not over.
THEOREM NoWorkAfterVerdict == ASSUME PassesApart PROVE Spec => []QuiescentWhenTerminal
  <1>1. PassInv /\ LiveInv /\ [Next]_vars => LiveInv'
    BY LiveStep
  <1>2. PassInv /\ LiveInv => QuiescentWhenTerminal
    <2>. SUFFICES ASSUME PassInv, LiveSnaps, LiveStore, RowHeld, NEW t \in Ticks, NEW j \in Jobs, Executing(t, j)
                  PROVE  ~IsTerminal(store.status) /\ row
      BY DEF QuiescentWhenTerminal, LiveInv, Watched, Uncancelled
    <2>1. tick[t].pc = "join"
      BY DEF PassInv, Joined, WAt, TickAt, Executing
    <2>. QED
      BY <2>1 DEF LiveStore, RowHeld, Live
  <1>. QED
    BY <1>1, <1>2, LiveInit, PassInvariance, PTL DEF Spec

----------------------------------------------------------------------------
(* What merges and setters do to the jobs.                                 *)

SettledJob(jr) == StatusRank(jr.status) >= 4

\* A merge takes each job from one of the two, and a settled one rather than one that is not.
LEMMA MergeJobs ==
  ASSUME NEW a \in Run, NEW b \in Run, NEW j \in Jobs
  PROVE  /\ MergeRun(a, b).jobs[j] = MergeJobRun(a.jobs[j], b.jobs[j])
         /\ MergeRun(a, b).jobs[j] \in {a.jobs[j], b.jobs[j]}
         /\ SettledJob(a.jobs[j]) \/ SettledJob(b.jobs[j]) => SettledJob(MergeRun(a, b).jobs[j])
  <1>1. MergeRun(a, b).jobs[j] = MergeJobRun(a.jobs[j], b.jobs[j])
    BY DEF MergeRun
  <1>2. a.jobs[j] \in JobRun /\ b.jobs[j] \in JobRun
    BY DEF Run
  <1>3. MergeJobRun(a.jobs[j], b.jobs[j]) \in {a.jobs[j], b.jobs[j]}
    BY DEF MergeJobRun
  <1>4. /\ a.jobs[j].status \in Status /\ b.jobs[j].status \in Status
        /\ StatusRank(a.jobs[j].status) \in 1 .. 5 /\ StatusRank(b.jobs[j].status) \in 1 .. 5
    BY <1>2, RankRange DEF JobRun
  <1>5. SettledJob(a.jobs[j]) => SettledJob(MergeJobRun(a.jobs[j], b.jobs[j]))
    <2>. SUFFICES ASSUME SettledJob(a.jobs[j]) PROVE SettledJob(MergeJobRun(a.jobs[j], b.jobs[j]))
      OBVIOUS
    <2>1. StatusRank(MergeJobRun(a.jobs[j], b.jobs[j]).status) >= StatusRank(a.jobs[j].status)
      BY <1>2, MergeJobKeepsRank DEF SettledJob
    <2>2. StatusRank(MergeJobRun(a.jobs[j], b.jobs[j]).status) \in 1 .. 5
      BY <1>3, <1>4
    <2>. QED
      BY <1>4, <2>1, <2>2 DEF SettledJob
  <1>6. SettledJob(b.jobs[j]) => SettledJob(MergeJobRun(a.jobs[j], b.jobs[j]))
    BY <1>4 DEF SettledJob, MergeJobRun
  <1>. QED
    BY <1>1, <1>3, <1>5, <1>6

\* What the transitions do to the jobs.
LEMMA SetJobFacts ==
  ASSUME NEW run \in Run, NEW j \in Jobs, NEW s
  PROVE  /\ SetJob(run, j, s).jobs[j].status = s
         /\ SetJob(run, j, s).jobs[j].steps = run.jobs[j].steps
         /\ \A i \in Jobs \ {j} : SetJob(run, j, s).jobs[i] = run.jobs[i]
  <1>1. run.jobs \in [Jobs -> JobRun] /\ run.jobs[j] \in JobRun
    BY DEF Run
  <1>2. SetJob(run, j, s).jobs = [run.jobs EXCEPT ![j].status = s]
    BY DEF SetJob, Run
  <1>. QED
    BY <1>1, <1>2 DEF JobRun

LEMMA SetStepFacts ==
  ASSUME NEW run \in Run, NEW j \in Jobs, NEW k \in Steps, NEW s
  PROVE  /\ SetStep(run, j, k, s).jobs[j].status = run.jobs[j].status
         /\ SetStep(run, j, k, s).jobs[j].steps[k] = s
         /\ \A x \in Steps \ {k} : SetStep(run, j, k, s).jobs[j].steps[x] = run.jobs[j].steps[x]
         /\ \A i \in Jobs \ {j} : SetStep(run, j, k, s).jobs[i] = run.jobs[i]
  <1>1. run.jobs \in [Jobs -> JobRun] /\ run.jobs[j] \in JobRun /\ run.jobs[j].steps \in [Steps -> Status]
    BY DEF Run, JobRun
  <1>2. SetStep(run, j, k, s).jobs = [run.jobs EXCEPT ![j].steps[k] = s]
    BY DEF SetStep, Run
  <1>3. SetStep(run, j, k, s).jobs[j] = [run.jobs[j] EXCEPT !.steps = [run.jobs[j].steps EXCEPT ![k] = s]]
    BY <1>1, <1>2
  <1>4. /\ SetStep(run, j, k, s).jobs[j].status = run.jobs[j].status
        /\ SetStep(run, j, k, s).jobs[j].steps = [run.jobs[j].steps EXCEPT ![k] = s]
    BY <1>1, <1>3 DEF JobRun
  <1>5. \A i \in Jobs \ {j} : SetStep(run, j, k, s).jobs[i] = run.jobs[i]
    BY <1>1, <1>2
  <1>. QED
    BY <1>1, <1>4, <1>5

LEMMA FailJobFacts ==
  ASSUME NEW run \in Run, NEW j \in Jobs
  PROVE  /\ FailJob(run, j).jobs[j].status \in {"failed", "blocked"}
         /\ \A i \in Jobs \ {j} : \/ FailJob(run, j).jobs[i] = run.jobs[i]
                                  \/ FailJob(run, j).jobs[i].status = "blocked"
  <1>. DEFINE failed == SetJob(run, j, "failed")
              stuck == BlockedByFailure(failed, j)
  <1>1. failed \in Run
    BY SetTypes DEF Status
  <1>2. /\ failed.jobs[j].status = "failed" /\ \A i \in Jobs \ {j} : failed.jobs[i] = run.jobs[i]
    BY SetJobFacts
  <1>3. FailJob(run, j) = [failed EXCEPT !.jobs = [x \in Jobs |->
            IF x \in stuck THEN [failed.jobs[x] EXCEPT !.status = "blocked"] ELSE failed.jobs[x]]]
    BY DEF FailJob
  <1>. HIDE DEF failed, stuck
  <1>4. \A i \in Jobs : \/ FailJob(run, j).jobs[i] = failed.jobs[i]
                        \/ FailJob(run, j).jobs[i].status = "blocked"
    <2>1. \A i \in Jobs : FailJob(run, j).jobs[i] = IF i \in stuck THEN [failed.jobs[i] EXCEPT !.status = "blocked"]
                                                                   ELSE failed.jobs[i]
      BY <1>1, <1>3 DEF Run
    <2>2. \A i \in Jobs : [failed.jobs[i] EXCEPT !.status = "blocked"].status = "blocked"
      BY <1>1 DEF Run, JobRun
    <2>. QED
      BY <2>1, <2>2
  <1>. QED
    BY <1>2, <1>4

\* A status in its rank.
LEMMA RankFacts ==
  ASSUME NEW jr \in JobRun
  PROVE  SettledJob(jr) <=> jr.status \notin {"queued", "pending", "running", "waiting"}
  <1>1. jr.status \in Status
    BY DEF JobRun
  <1>. QED
    BY <1>1 DEF SettledJob, StatusRank, Status

----------------------------------------------------------------------------
(* The work of a step is begun at most once in a workflow without pauses.  *)
(* No snapshot has a waiting job, so no write takes a job back to a lower  *)
(* rank: a job whose work was begun is never handed out again.             *)

Awake(run) == \A j \in Jobs : run.jobs[j].status # "waiting"

AwakeInv ==
    /\ Awake(store) /\ Awake(canceller.snap)
    /\ \A t \in Ticks : Awake(tick[t].snap)
    /\ \A w \in Ticks \X Jobs : Awake(worker[w].snap)
    /\ \A run \in late : Awake(run)

\* No step of j was begun.
Untried(j) == \A k \in Steps : ran[<<j, k>>] = 0

\* A worker only begins steps ahead of those that were begun.
InOrder(w, j) ==
    \A k \in Steps : ran[<<j, k>>] > 0 =>
        /\ w.pc \in {"step", "exec", "unavailable"}
        /\ k < w.step \/ (k = w.step /\ w.pc # "step")

OnceInv ==
    /\ \A j \in Jobs : StatusRank(store.jobs[j].status) = 1 => Untried(j)
    /\ \A t \in Ticks : tick[t].pc = "decide" =>
          \A j \in Jobs : StatusRank(tick[t].snap.jobs[j].status) = 1 => Untried(j)
    /\ \A t \in Ticks, j \in Jobs : Busy(t, j) =>
          StatusRank(store.jobs[j].status) >= 2 /\ InOrder(worker[<<t, j>>], j)
    /\ StepAtMostOnce

\* No transition but the parking of a job makes one wait.
LEMMA AwakeFacts ==
  ASSUME NEW run \in Run, Awake(run)
  PROVE  /\ Awake(WakeWaitingRun(run)) /\ Awake(FailAll(run)) /\ Awake(Finalize(run))
         /\ Awake(Cancel(run)) /\ Awake(StaleFailed(run)) /\ \A S : Awake(ClaimJobs(run, S))
         /\ Awake(BeginRunning(run)) /\ Awake([run EXCEPT !.status = "blocked"])
  <1>0. run.jobs \in [Jobs -> JobRun] /\ \A j \in Jobs : run.jobs[j].status # "waiting"
    BY DEF Run, Awake
  <1>1. Awake(WakeWaitingRun(run))
    BY <1>0 DEF WakeWaitingRun, Run, Awake
  <1>2. Awake(FailAll(run))
    BY <1>0 DEF FailAll, Run, JobRun, Awake
  <1>3. Awake(Finalize(run)) /\ Awake(BeginRunning(run)) /\ Awake([run EXCEPT !.status = "blocked"])
    BY <1>0 DEF Finalize, BeginRunning, Run, Awake
  <1>4. Awake(Cancel(run))
    BY <1>0 DEF Cancel, Run, JobRun, Awake
  <1>5. Awake(StaleFailed(run))
    BY <1>0 DEF StaleFailed, Run, JobRun, Awake
  <1>6. ASSUME NEW S PROVE Awake(ClaimJobs(run, S))
    BY <1>0 DEF ClaimJobs, Run, JobRun, Awake
  <1>. QED
    BY <1>1, <1>2, <1>3, <1>4, <1>5, <1>6

LEMMA AwakeSetters ==
  ASSUME NEW run \in Run, Awake(run), NEW j \in Jobs
  PROVE  /\ Awake(FailJob(run, j))
         /\ \A s \in Status \ {"waiting"} : Awake(SetJob(run, j, s))
         /\ \A k \in Steps, s \in Status : Awake(SetStep(run, j, k, s))
  <1>1. Awake(FailJob(run, j))
    <2>1. \A i \in Jobs \ {j} : \/ FailJob(run, j).jobs[i] = run.jobs[i]
                                \/ FailJob(run, j).jobs[i].status = "blocked"
      BY FailJobFacts
    <2>2. FailJob(run, j).jobs[j].status \in {"failed", "blocked"}
      BY FailJobFacts
    <2>. QED
      BY <2>1, <2>2, Zenon DEF Awake
  <1>2. ASSUME NEW s \in Status \ {"waiting"} PROVE Awake(SetJob(run, j, s))
    BY SetJobFacts DEF Awake
  <1>3. ASSUME NEW k \in Steps, NEW s \in Status PROVE Awake(SetStep(run, j, k, s))
    BY SetStepFacts DEF Awake
  <1>. QED
    BY <1>1, <1>2, <1>3

LEMMA AwakeNew == Awake(NewRun)
  BY DEF Awake, NewRun

LEMMA AwakeMerge ==
  ASSUME NEW a \in Run, NEW b \in Run, Awake(a), Awake(b) PROVE Awake(MergeRun(a, b))
  BY MergeJobs DEF Awake

LEMMA NoPark == ASSUME WaitSteps = {}, TypeInv, NEW t \in Ticks, NEW j \in Jobs PROVE ~WPark(t, j)
  <1>. SUFFICES ASSUME WPark(t, j) PROVE FALSE
    OBVIOUS
  <1>1. AtStep(t, j, {"wait"}) /\ worker[<<t, j>>].step \in Steps
    BY AtStepRange DEF WPark, AtStep
  <1>2. <<j, worker[<<t, j>>].step>> \in WaitSteps
    BY <1>1 DEF AtStep, WaitSteps
  <1>. QED
    BY <1>2

\* In a workflow without wait steps a worker writes, keeps and hands out no waiting job.
LEMMA AwakeWorker ==
  ASSUME WaitSteps = {}, TypeInv, AwakeInv, NEW t \in Ticks, NEW j \in Jobs,
         WorkerStep(t, j) \/ WFault(t, j) \/ WPanic(t, j) \/ AgentUpdate(t, j)
  PROVE  /\ store' = store \/ \E run \in Run : Awake(run) /\ store' = MergeRun(store, run)
         /\ Awake(worker'[<<t, j>>].snap)
         /\ late' \subseteq late \cup {run \in Run : Awake(run)}
  <1>. DEFINE w == worker[<<t, j>>]
  <1>0. /\ w.snap \in Run /\ Awake(w.snap) /\ Awake(store) /\ Awake(NewRun)
        /\ {"running", "skipped", "success", "failed"} \subseteq Status \ {"waiting"}
        /\ w.pc \in {"park", "exec", "unavailable"} => w.step \in Steps
    BY WorkerType, AwakeNew DEF Status, AwakeInv
  <1>1. CASE WLaunch(t, j) \/ WStart(t, j) \/ WSkipDone(t, j) \/ WFault(t, j) \/ AgentUpdate(t, j)
    <2>1. /\ late' = late
          /\ store' = store \/ store' = MergeRun(store, w.snap)
          /\ (\E pc, k : \E run \in {NewRun, store, w.snap} : WGoes(t, j, pc, run, k))
             \/ (\E pc : WEnds(t, j, pc)) \/ worker' = worker
      BY <1>1 DEF WLaunch, WStart, WSkipDone, WFault, AgentUpdate, Persist
    <2>2. worker'[<<t, j>>].snap \in {NewRun, store, w.snap}
      BY <2>1, WGoesFacts, WEndsFacts
    <2>. QED
      BY <1>0, <2>1, <2>2
  <1>2. CASE WBegin(t, j)
    <2>. DEFINE begun == SetJob(w.snap, j, "running")
                running == BeginRunning(begun)
    <2>1. begun \in Run /\ Awake(begun)
      BY <1>0, SetTypes, AwakeSetters
    <2>2. /\ running \in Run /\ Awake(running)
          /\ SetJob(w.snap, j, "skipped") \in Run /\ Awake(SetJob(w.snap, j, "skipped"))
          /\ FailJob(w.snap, j) \in Run /\ Awake(FailJob(w.snap, j))
      BY <1>0, <2>1, BeginRunningType, SetTypes, FailJobType, AwakeFacts, AwakeSetters
    <2>3. /\ late' = late
          /\ \/ store' = MergeRun(store, running) /\ WGoes(t, j, "prepare", running, 1)
             \/ store' = MergeRun(store, SetJob(w.snap, j, "skipped")) /\ WEnds(t, j, "done")
             \/ store' = MergeRun(store, FailJob(w.snap, j)) /\ WEnds(t, j, "done")
      BY <1>2 DEF WBegin, Persist
    <2>. HIDE DEF begun, running
    <2>4. worker'[<<t, j>>].snap \in {NewRun, running}
      BY <2>3, WGoesFacts, WEndsFacts
    <2>. QED
      BY <1>0, <2>2, <2>3, <2>4
  <1>3. CASE WPrepare(t, j) \/ WPanic(t, j)
    <2>1. /\ late' = late
          /\ store' = store \/ store' = MergeRun(store, FailJob(w.snap, j))
          /\ WGoes(t, j, "step", w.snap, 1) \/ \E pc : WEnds(t, j, pc)
      BY <1>3 DEF WPrepare, WPanic, Persist
    <2>2. worker'[<<t, j>>].snap \in {NewRun, w.snap}
      BY <2>1, WGoesFacts, WEndsFacts
    <2>3. FailJob(w.snap, j) \in Run /\ Awake(FailJob(w.snap, j))
      BY <1>0, FailJobType, AwakeSetters
    <2>. QED
      BY <1>0, <2>1, <2>2, <2>3
  <1>4. ~WPark(t, j)
    BY NoPark
  <1>5. CASE WParked(t, j) \/ WSucceed(t, j)
    <2>1. late' = late /\ WEnds(t, j, "done")
          /\ \E run \in {w.snap, SetJob(w.snap, j, "success")} : store' = MergeRun(store, run)
      BY <1>5 DEF WParked, WSucceed, Persist
    <2>2. worker'[<<t, j>>].snap = NewRun
      BY <2>1, WEndsFacts
    <2>3. SetJob(w.snap, j, "success") \in Run /\ Awake(SetJob(w.snap, j, "success"))
      BY <1>0, SetTypes, AwakeSetters
    <2>. QED
      BY <1>0, <2>1, <2>2, <2>3
  <1>6. CASE WBeginStep(t, j) \/ WStepOk(t, j)
    <2>1. PICK s \in {"running", "success"} :
               /\ store' = MergeRun(store, SetStep(w.snap, j, w.step, s))
               /\ \E pc, k : WGoes(t, j, pc, SetStep(w.snap, j, w.step, s), k)
      BY <1>6 DEF WBeginStep, WStepOk, Persist
    <2>2. w.step \in Steps
      BY <1>0, <1>6, AtStepRange DEF WBeginStep, WStepOk, AtStep, WAt
    <2>3. SetStep(w.snap, j, w.step, s) \in Run /\ Awake(SetStep(w.snap, j, w.step, s))
      BY <1>0, <2>2, SetTypes, AwakeSetters
    <2>4. worker'[<<t, j>>].snap = SetStep(w.snap, j, w.step, s) /\ late' = late
      BY <1>6, <2>1, WGoesFacts DEF WBeginStep, WStepOk
    <2>. QED
      BY <2>1, <2>3, <2>4
  <1>7. CASE WStepFail(t, j)
    <2>. DEFINE stopped == SetStep(w.snap, j, w.step, "failed")
                failed == FailJob(stopped, j)
    <2>1. stopped \in Run /\ Awake(stopped)
      BY <1>0, <1>7, SetTypes, AwakeSetters DEF WStepFail, WAt
    <2>2. failed \in Run /\ Awake(failed)
      BY <2>1, FailJobType, AwakeSetters
    <2>3. store' = MergeRun(store, failed) /\ WEnds(t, j, "done") /\ late' \subseteq late \cup {failed}
      BY <1>7 DEF WStepFail, Persist
    <2>. HIDE DEF failed
    <2>4. worker'[<<t, j>>].snap = NewRun
      BY <2>3, WEndsFacts
    <2>. QED
      BY <1>0, <2>2, <2>3, <2>4
  <1>8. CASE WUnavailable(t, j)
    <2>. DEFINE parked == [w.snap EXCEPT !.status = "blocked"]
    <2>1. parked \in Run /\ Awake(parked)
      BY <1>0, AwakeFacts DEF Run, Status
    <2>2. /\ late' = late /\ WGoes(t, j, "unavailable", parked, w.step)
          /\ store' = store \/ store' = MergeRun(store, parked)
      BY <1>8 DEF WUnavailable, Persist
    <2>. HIDE DEF parked
    <2>3. worker'[<<t, j>>].snap = parked
      BY <2>2, WGoesFacts
    <2>. QED
      BY <2>1, <2>2, <2>3
  <1>. QED
    BY <1>1, <1>2, <1>3, <1>4, <1>5, <1>6, <1>7, <1>8 DEF WorkerStep

\* So does everybody else.
LEMMA AwakeStep == ASSUME WaitSteps = {}, TypeInv, AwakeInv, [Next]_vars PROVE AwakeInv'
  <1>0. /\ store \in Run /\ \A t \in Ticks : tick[t].snap \in Run
        /\ canceller.snap \in Run /\ late \subseteq Run
        /\ Awake(NewRun) /\ Awake(store) /\ Awake(canceller.snap)
    BY AwakeNew DEF TypeInv, TypeOK, AwakeInv
  <1>1. ASSUME NEW run \in Run, Awake(run), store' = MergeRun(store, run) PROVE Awake(store')
    BY <1>0, <1>1, AwakeMerge
  <1>2. ASSUME NEW t \in Ticks, TickStep(t) \/ TickFault(t) PROVE AwakeInv'
    <2>0. Awake(tick[t].snap) /\ tick[t].snap \in Run
      BY <1>0 DEF AwakeInv
    <2>1. /\ \A u \in Ticks : u # t => tick'[u] = tick[u]
          /\ canceller' = canceller /\ late' = late
          /\ worker' = worker \/ TickClaim(t) \/ TickJoin(t)
      BY <1>2, TickRest
    <2>2. Awake(store') /\ Awake(tick'[t].snap)
      <3>1. CASE TickEnter(t) \/ TickLoop(t) \/ TickJoin(t) \/ TickFault(t) \/ RecordRead(t)
        <4>1. store' = store
          BY <3>1 DEF TickEnter, TickLoop, TickJoin, TickFault, RecordRead
        <4>2. tick'[t].snap \in {NewRun, store, WakeWaitingRun(store), FailAll(store)}
          BY SMTT(60), <3>1, TickGoesFacts, TickEndsFacts, TickErrsFacts
             DEF TickEnter, TickLoop, TickJoin, TickFault, RecordRead, NoTick
        <4>. QED
          BY <1>0, <4>1, <4>2, AwakeFacts
      <3>2. CASE TickWake(t) \/ TickClaim(t) \/ TickFinalize(t) \/ RecordPersist(t)
        <4>1. store' = store \/ \E run \in Run : Awake(run) /\ store' = MergeRun(store, run)
          <5>1. /\ Awake(Finalize(tick[t].snap)) /\ \A S : Awake(ClaimJobs(tick[t].snap, S))
                /\ Finalize(tick[t].snap) \in Run /\ \A S : ClaimJobs(tick[t].snap, S) \in Run
            BY <2>0, AwakeFacts, FinalizeType, ClaimType
          <5>. QED
            BY <2>0, <3>2, <5>1, Zenon DEF TickWake, TickClaim, TickFinalize, RecordPersist, Persist
        <4>2. tick'[t].snap = NewRun
          BY <3>2, TickGoesFacts, TickEndsFacts DEF TickWake, TickClaim, TickFinalize, RecordPersist, NoTick
        <4>. QED
          BY <1>0, <1>1, <4>1, <4>2
      <3>. QED
        BY <1>2, <3>1, <3>2 DEF TickStep
    <2>3. \A w \in Ticks \X Jobs : worker'[w] = worker[w] \/ worker'[w].snap = NewRun
      <3>1. CASE TickClaim(t)
        <4>. DEFINE ready == ReadyJobs(tick[t].snap)
        <4>1. worker' = [w \in Ticks \X Jobs |-> IF w[1] = t /\ w[2] \in ready
                                                  THEN [NoWorker EXCEPT !.pc = "launch"] ELSE worker[w]]
          BY <3>1 DEF TickClaim
        <4>. HIDE DEF ready
        <4>2. [NoWorker EXCEPT !.pc = "launch"].snap = NewRun
          BY DEF NoWorker
        <4>. QED
          BY <4>1, <4>2
      <3>2. CASE TickJoin(t)
        BY <3>2 DEF TickJoin, NoWorker
      <3>. QED
        BY <2>1, <3>1, <3>2
    <2>. QED
      BY <1>0, <2>1, <2>2, <2>3 DEF AwakeInv
  <1>3. ASSUME NEW t \in Ticks, NEW j \in Jobs,
               WorkerStep(t, j) \/ WFault(t, j) \/ WPanic(t, j) \/ AgentUpdate(t, j)
        PROVE  AwakeInv'
    <2>1. /\ \A x \in Ticks \X Jobs : x # <<t, j>> => worker'[x] = worker[x]
          /\ UNCHANGED <<tick, canceller>>
      BY <1>3, WorkerRest
    <2>2. /\ store' = store \/ \E run \in Run : Awake(run) /\ store' = MergeRun(store, run)
          /\ Awake(worker'[<<t, j>>].snap)
          /\ late' \subseteq late \cup {run \in Run : Awake(run)}
      BY <1>3, AwakeWorker
    <2>3. Awake(store')
      BY <1>0, <1>1, <2>2
    <2>. QED
      BY <2>1, <2>2, <2>3 DEF AwakeInv
  <1>4. CASE ResumeWaits \/ TimePasses
    <2>1. /\ UNCHANGED <<store, canceller, worker, late>>
          /\ \A t \in Ticks : tick'[t] = tick[t] \/ tick'[t].snap = NewRun
      BY <1>4, TickGoesFacts DEF ResumeWaits, TimePasses, Ticks
    <2>. QED
      BY <1>0, <2>1 DEF AwakeInv
  <1>5. CASE LateUpdate \/ CancelRead \/ CancelPersist \/ RecoverStale
    <2>1. UNCHANGED <<tick, worker>> /\ late' \subseteq late
      BY <1>5 DEF LateUpdate, CancelRead, CancelPersist, RecoverStale
    <2>2. canceller'.snap \in {canceller.snap, NewRun, Cancel(store)}
      BY <1>5 DEF LateUpdate, CancelRead, CancelPersist, RecoverStale, NoCaller
    <2>3. store' = store \/ \E run \in late \cup {canceller.snap, StaleFailed(store)} : store' = MergeRun(store, run)
      BY <1>5 DEF LateUpdate, CancelRead, CancelPersist, RecoverStale, Persist
    <2>4. Awake(Cancel(store)) /\ Awake(StaleFailed(store)) /\ StaleFailed(store) \in Run
      BY <1>0, AwakeFacts, StaleFailedType
    <2>5. Awake(store')
      BY <1>0, <1>1, <2>3, <2>4 DEF AwakeInv
    <2>. QED
      BY <1>0, <2>1, <2>2, <2>4, <2>5 DEF AwakeInv
  <1>6. CASE Crash \/ UNCHANGED vars
    <2>1. /\ store' = store /\ late' \subseteq late
          /\ canceller' = canceller \/ canceller'.snap = NewRun
          /\ \A t \in Ticks : tick'[t] = tick[t] \/ tick'[t].snap = NewRun
          /\ \A x \in Ticks \X Jobs : worker'[x] = worker[x] \/ worker'[x].snap = NewRun
      BY <1>6 DEF Crash, vars, NoTick, NoWorker, NoCaller
    <2>. QED
      BY <1>0, <2>1 DEF AwakeInv
  <1>. QED
    BY <1>2, <1>3, <1>4, <1>5, <1>6 DEF Next, Environment

\* The merge with a job that is not waiting in the store takes the higher rank.
LEMMA RankMerge ==
  ASSUME NEW a \in JobRun, NEW b \in JobRun, a.status # "waiting"
  PROVE  /\ StatusRank(MergeJobRun(a, b).status) >= StatusRank(a.status)
         /\ StatusRank(MergeJobRun(a, b).status) >= StatusRank(b.status)
  <1>1. a.status \in Status /\ b.status \in Status
    BY DEF JobRun
  <1>2. StatusRank(a.status) \in Int /\ StatusRank(b.status) \in Int
    BY <1>1, RankRange
  <1>3. ~Yields(a.status, b.status)
    BY DEF Yields
  <1>. QED
    BY <1>2, <1>3 DEF MergeJobRun

\* No step takes a stored job back to a lower rank.
LEMMA RanksRise ==
  ASSUME TypeInv, AwakeInv, [Next]_vars, NEW j \in Jobs
  PROVE  /\ StatusRank(store'.jobs[j].status) >= StatusRank(store.jobs[j].status)
         /\ StatusRank(store.jobs[j].status) \in 1 .. 5 /\ StatusRank(store'.jobs[j].status) \in 1 .. 5
  <1>1. /\ store.jobs[j] \in JobRun /\ store'.jobs[j] \in JobRun /\ store.jobs[j].status # "waiting"
        /\ StoreMerges
    BY NextType DEF TypeInv, TypeOK, Run, AwakeInv, Awake
  <1>2. StatusRank(store.jobs[j].status) \in 1 .. 5 /\ StatusRank(store'.jobs[j].status) \in 1 .. 5
    BY <1>1, RankRange DEF JobRun
  <1>3. ASSUME NEW run \in Run, store' = MergeRun(store, run)
        PROVE  StatusRank(store'.jobs[j].status) >= StatusRank(store.jobs[j].status)
    <2>1. store'.jobs[j] = MergeJobRun(store.jobs[j], run.jobs[j]) /\ run.jobs[j] \in JobRun
      BY <1>3 DEF MergeRun, Run
    <2>. QED
      BY <1>1, <2>1, RankMerge
  <1>. QED
    BY <1>1, <1>2, <1>3 DEF StoreMerges

\* A claim hands out jobs of which no step was begun.
LEMMA OnceClaim ==
  ASSUME PassInv, AwakeInv, OnceInv, [Next]_vars, NEW t \in Ticks, TickClaim(t) PROVE OnceInv'
  <1>. DEFINE snap == tick[t].snap
              ready == ReadyJobs(snap)
              claimed == ClaimJobs(snap, ready)
  <1>0. TypeInv /\ store \in Run /\ snap \in Run /\ snap.jobs \in [Jobs -> JobRun] /\ tick[t].pc = "decide"
    BY DEF PassInv, TypeInv, TypeOK, TickClaim, TickAt, Run
  <1>1. /\ (\A u \in Ticks : tick'[u].pc # "decide") /\ ran' = ran
    <2>1. tick'[t].pc = "join" /\ (\A u \in Ticks : u # t => tick'[u] = tick[u] /\ tick[u].pc = "idle")
      BY <1>0, OnlyPass, TickGoesFacts DEF TickClaim
    <2>. QED
      BY <2>1 DEF TickClaim
  <1>2. /\ store' = MergeRun(store, claimed)
        /\ worker' = [w \in Ticks \X Jobs |-> IF w[1] = t /\ w[2] \in ready
                                              THEN [NoWorker EXCEPT !.pc = "launch"] ELSE worker[w]]
    BY DEF TickClaim, Persist
  <1>3. claimed \in Run
    BY <1>0, ClaimType
  <1>4. ASSUME NEW j \in ready
        PROVE  /\ j \in Jobs /\ StatusRank(snap.jobs[j].status) = 1
               /\ StatusRank(claimed.jobs[j].status) = 2
    <2>1. j \in Jobs /\ snap.jobs[j].status \in {"queued", "pending"}
      BY <1>4 DEF ReadyJobs
    <2>2. claimed.jobs[j] = [snap.jobs[j] EXCEPT !.status = "running"]
      <3>. HIDE DEF ready
      <3>. QED
        BY <1>0, <1>4, <2>1 DEF ClaimJobs, Run
    <2>3. claimed.jobs[j].status = "running"
      <3>1. snap.jobs[j] \in JobRun
        BY <1>0, <2>1
      <3>. HIDE DEF claimed, snap
      <3>. QED
        BY <2>2, <3>1 DEF JobRun
    <2>. HIDE DEF claimed, snap
    <2>. QED
      BY <2>1, <2>3 DEF StatusRank
  <1>. HIDE DEF claimed, ready
  <1>5. ASSUME NEW u \in Ticks, NEW j \in Jobs, Busy(u, j)'
        PROVE  StatusRank(store'.jobs[j].status) >= 2 /\ InOrder(worker[<<u, j>>], j)'
    <2>1. \A v \in Ticks, i \in Jobs : worker[<<v, i>>].pc = "idle"
      BY <1>0, OnlyPass, Zenon DEF PassInv, Joined, WAt, TickAt
    <2>2. j \in ready
      BY <1>2, <1>5, <2>1 DEF Busy
    <2>3. Untried(j)
      BY <1>0, <1>4, <2>2 DEF OnceInv
    <2>4. StatusRank(store'.jobs[j].status) >= 2
      <3>1. store'.jobs[j] = MergeJobRun(store.jobs[j], claimed.jobs[j])
        BY <1>2 DEF MergeRun
      <3>2. store.jobs[j] \in JobRun /\ claimed.jobs[j] \in JobRun /\ store.jobs[j].status # "waiting"
        BY <1>0, <1>3 DEF Run, AwakeInv, Awake
      <3>3. StatusRank(store'.jobs[j].status) >= StatusRank(claimed.jobs[j].status)
        BY <3>1, <3>2, RankMerge
      <3>. QED
        BY <1>4, <2>2, <3>3
    <2>. QED
      BY <1>1, <2>3, <2>4 DEF InOrder, Untried
  <1>6. ASSUME NEW j \in Jobs, StatusRank(store'.jobs[j].status) = 1 PROVE Untried(j)'
    <2>1. StatusRank(store.jobs[j].status) = 1
      BY <1>0, <1>6, RanksRise
    <2>. QED
      BY <1>1, <2>1 DEF OnceInv, Untried
  <1>7. StepAtMostOnce'
    BY <1>1 DEF OnceInv, StepAtMostOnce
  <1>. QED
    BY <1>1, <1>5, <1>6, <1>7 DEF OnceInv

\* Who begins no step, hands out no job and decides on the stored run keeps the invariant.
LEMMA OnceQuiet ==
  ASSUME TypeInv, AwakeInv, OnceInv, [Next]_vars, ran' = ran,
         \A w \in Ticks \X Jobs : worker'[w] = worker[w] \/ worker'[w].pc = "idle",
         \A t \in Ticks : tick'[t].pc = "decide" => tick'[t] = tick[t] \/ tick'[t].snap = store
  PROVE  OnceInv'
  <1>1. ASSUME NEW j \in Jobs, StatusRank(store'.jobs[j].status) = 1 PROVE Untried(j)'
    <2>1. StatusRank(store.jobs[j].status) = 1
      BY <1>1, RanksRise
    <2>. QED
      BY <2>1 DEF OnceInv, Untried
  <1>2. ASSUME NEW t \in Ticks, tick'[t].pc = "decide", NEW j \in Jobs,
               StatusRank(tick'[t].snap.jobs[j].status) = 1
        PROVE  Untried(j)'
    <2>1. CASE tick'[t] = tick[t]
      BY <1>2, <2>1 DEF OnceInv, Untried
    <2>2. CASE tick'[t].snap = store
      BY <1>2, <2>2 DEF OnceInv, Untried
    <2>. QED
      BY <1>2, <2>1, <2>2
  <1>3. ASSUME NEW t \in Ticks, NEW j \in Jobs, Busy(t, j)'
        PROVE  StatusRank(store'.jobs[j].status) >= 2 /\ InOrder(worker[<<t, j>>], j)'
    <2>1. worker'[<<t, j>>] = worker[<<t, j>>] /\ Busy(t, j)
      BY <1>3 DEF Busy
    <2>2. StatusRank(store.jobs[j].status) >= 2 /\ InOrder(worker[<<t, j>>], j)
      BY <2>1 DEF OnceInv
    <2>3. StatusRank(store'.jobs[j].status) >= 2
      BY <2>2, RanksRise
    <2>. QED
      BY <2>1, <2>2, <2>3 DEF InOrder
  <1>4. StepAtMostOnce'
    BY DEF OnceInv, StepAtMostOnce
  <1>. QED
    BY <1>1, <1>2, <1>3, <1>4 DEF OnceInv

\* A worker goes through the steps of its job once.
LEMMA OnceWorker ==
  ASSUME WaitSteps = {}, PassInv, AwakeInv, OnceInv, [Next]_vars, NEW t \in Ticks, NEW j \in Jobs,
         WorkerStep(t, j) \/ WFault(t, j) \/ WPanic(t, j) \/ AgentUpdate(t, j)
  PROVE  OnceInv'
  <1>. DEFINE w == worker[<<t, j>>]
              w2 == worker'[<<t, j>>]
  <1>0. /\ TypeInv /\ ran \in [Jobs \X Steps -> Nat] /\ w.step \in Nat /\ Steps \subseteq Nat
    <2>1. TypeInv /\ ran \in [Jobs \X Steps -> Nat]
      BY DEF PassInv, TypeInv, TypeOK
    <2>2. w.step \in 1 .. MaxSteps + 1 /\ MaxSteps \in Nat
      BY <2>1, WorkerType, StepsAssumption
    <2>. HIDE DEF w
    <2>. QED
      BY <2>1, <2>2 DEF Steps
  <1>1. /\ Busy(t, j) /\ tick' = tick
        /\ \A x \in Ticks \X Jobs : x # <<t, j>> => worker'[x] = worker[x]
    BY <1>0, WorkerRest
  <1>2. /\ \A u \in Ticks : tick[u].pc # "decide"
        /\ \A u \in Ticks : u # t => \A i \in Jobs : worker[<<u, i>>].pc = "idle"
    <2>1. tick[t].pc = "join"
      BY <1>0, WorkerRest DEF PassInv, Joined, TickAt
    <2>. QED
      BY <2>1, OnlyPass
  <1>3. StatusRank(store.jobs[j].status) >= 2 /\ InOrder(w, j) /\ StepAtMostOnce
    BY <1>1 DEF OnceInv
  <1>4. ran' = ran \/ WBeginStep(t, j)
    BY Zenon DEF WorkerStep, WLaunch, WStart, WBegin, WPrepare, WSkipDone, WPark, WParked, WBeginStep, WStepOk,
           WStepFail, WUnavailable, WSucceed, WFault, WPanic, AgentUpdate
  <1>5. /\ \A i \in Jobs, k \in Steps : i # j => ran'[<<i, k>>] = ran[<<i, k>>]
        /\ StepAtMostOnce'
        /\ Busy(t, j)' => InOrder(worker[<<t, j>>], j)'
    <2>1. CASE WBeginStep(t, j)
      <3>1. w.pc = "step" /\ w.step \in Steps /\ w2.pc = "exec" /\ w2.step = w.step
        BY <1>0, <2>1, WGoesFacts, AtStepRange DEF WBeginStep, AtStep, WAt
      <3>2. ran' = ran \/ ran' = [ran EXCEPT ![<<j, w.step>>] = @ + 1]
        BY <2>1 DEF WBeginStep
      <3>. HIDE DEF w, w2
      <3>3. ran[<<j, w.step>>] = 0
        BY <1>0, <1>3, <3>1 DEF InOrder
      <3>4. /\ \A s \in Jobs \X Steps : s # <<j, w.step>> => ran'[s] = ran[s]
            /\ ran'[<<j, w.step>>] <= 1
        BY <1>0, <3>1, <3>2, <3>3
      <3>5. ASSUME NEW k \in Steps, ran'[<<j, k>>] > 0 PROVE k < w.step \/ k = w.step
        BY <1>3, <3>1, <3>4, <3>5 DEF InOrder
      <3>6. InOrder(worker[<<t, j>>], j)'
        BY <3>1, <3>5 DEF InOrder, w2
      <3>7. StepAtMostOnce'
        BY <1>3, <3>4 DEF StepAtMostOnce
      <3>8. \A i \in Jobs, k \in Steps : i # j => ran'[<<i, k>>] = ran[<<i, k>>]
        BY <3>4
      <3>. QED
        BY <3>6, <3>7, <3>8
    <2>2. CASE ran' = ran
      <3>1. CASE w.pc \notin {"step", "exec", "unavailable"}
        BY <1>3, <2>2, <3>1 DEF InOrder, StepAtMostOnce
      <3>2. CASE WSkipDone(t, j) \/ WStepOk(t, j)
        <4>1. w2.pc = "step" /\ w2.step = w.step + 1
          BY <1>0, <3>2, WGoesFacts DEF WSkipDone, WStepOk
        <4>2. ASSUME NEW k \in Steps, ran[<<j, k>>] > 0 PROVE k < w2.step
          <5>1. k < w.step \/ k = w.step
            BY <1>3, <4>2 DEF InOrder
          <5>. HIDE DEF w, w2
          <5>. QED
            BY <1>0, <4>1, <5>1
        <4>3. InOrder(worker[<<t, j>>], j)'
          BY <2>2, <4>1, <4>2 DEF InOrder
        <4>. QED
          BY <1>3, <2>2, <4>3 DEF StepAtMostOnce
      <3>3. CASE WUnavailable(t, j) \/ AgentUpdate(t, j)
        <4>1. w.pc = "exec" /\ w2.pc \in {"exec", "unavailable"} /\ w2.step = w.step
          BY <1>0, <3>3, WGoesFacts DEF WUnavailable, AgentUpdate, WAt
        <4>2. InOrder(worker[<<t, j>>], j)'
          BY <1>3, <2>2, <4>1 DEF InOrder
        <4>. QED
          BY <1>3, <2>2, <4>2 DEF StepAtMostOnce
      <3>4. CASE WStepFail(t, j) \/ WSucceed(t, j) \/ WFault(t, j) \/ WPanic(t, j)
        <4>1. w2.pc \in {"done", "err"}
          BY <1>0, <3>4, WEndsFacts DEF WStepFail, WSucceed, WFault, WPanic
        <4>. QED
          BY <1>3, <2>2, <4>1 DEF StepAtMostOnce, Busy
      <3>5. WLaunch(t, j) \/ WStart(t, j) \/ WBegin(t, j) \/ WPrepare(t, j) \/ WParked(t, j)
            => w.pc \notin {"step", "exec", "unavailable"}
        BY DEF WLaunch, WStart, WBegin, WPrepare, WParked, WAt
      <3>. QED
        BY <1>0, <2>1, <3>1, <3>2, <3>3, <3>4, <3>5, NoPark DEF WorkerStep
    <2>. QED
      BY <1>4, <2>1, <2>2
  <1>6. ASSUME NEW u \in Ticks, NEW i \in Jobs, Busy(u, i)'
        PROVE  StatusRank(store'.jobs[i].status) >= 2 /\ InOrder(worker[<<u, i>>], i)'
    <2>1. u = t
      BY <1>1, <1>2, <1>6 DEF Busy
    <2>2. CASE i = j
      BY <1>0, <1>3, <1>5, <1>6, <2>1, <2>2, RanksRise
    <2>3. CASE i # j
      <3>1. worker'[<<u, i>>] = worker[<<u, i>>] /\ Busy(u, i)
        BY <1>1, <1>6, <2>3 DEF Busy
      <3>2. StatusRank(store.jobs[i].status) >= 2 /\ InOrder(worker[<<u, i>>], i)
        BY <3>1 DEF OnceInv
      <3>. QED
        BY <1>0, <1>5, <2>3, <3>1, <3>2, RanksRise DEF InOrder
    <2>. QED
      BY <2>2, <2>3
  <1>7. ASSUME NEW i \in Jobs, StatusRank(store'.jobs[i].status) = 1 PROVE Untried(i)'
    <2>1. StatusRank(store.jobs[i].status) = 1
      BY <1>0, <1>7, RanksRise
    <2>2. i # j
      BY <1>3, <2>1
    <2>. QED
      BY <1>5, <2>1, <2>2 DEF OnceInv, Untried
  <1>. QED
    BY <1>1, <1>2, <1>5, <1>6, <1>7 DEF OnceInv

\* Every step keeps the invariant; after a crash nobody is at work.
LEMMA OnceStep == ASSUME WaitSteps = {}, PassInv, AwakeInv, OnceInv, [Next]_vars PROVE OnceInv'
  <1>0. TypeInv
    BY DEF PassInv
  <1>1. ASSUME NEW t \in Ticks, TickStep(t) \/ TickFault(t) PROVE OnceInv'
    <2>1. CASE TickClaim(t)
      BY <2>1, OnceClaim
    <2>2. CASE ~TickClaim(t)
      <3>1. /\ ran' = ran /\ \A u \in Ticks : u # t => tick'[u] = tick[u]
            /\ worker' = worker \/ TickJoin(t)
        BY <1>0, <1>1, <2>2, TickRest
      <3>2. \A w \in Ticks \X Jobs : worker'[w] = worker[w] \/ worker'[w].pc = "idle"
        BY <3>1 DEF TickJoin, NoWorker
      <3>3. tick'[t].pc = "decide" => tick'[t].snap = store
        BY <1>0, <1>1, <2>2, TickGoesFacts, TickEndsFacts, TickErrsFacts
           DEF TickStep, TickEnter, TickWake, TickLoop, TickFinalize, TickJoin, TickFault, RecordRead, RecordPersist
      <3>. QED
        BY <1>0, <3>1, <3>2, <3>3, OnceQuiet
    <2>. QED
      BY <2>1, <2>2
  <1>2. CASE ResumeWaits \/ TimePasses \/ LateUpdate \/ CancelRead \/ CancelPersist \/ RecoverStale
    <2>1. /\ UNCHANGED <<ran, worker>>
          /\ \A t \in Ticks : tick'[t] = tick[t] \/ tick'[t].pc = "enter"
      BY <1>0, <1>2, TickGoesFacts
         DEF ResumeWaits, TimePasses, LateUpdate, CancelRead, CancelPersist, RecoverStale, Ticks
    <2>. QED
      BY <1>0, <2>1, OnceQuiet
  <1>3. CASE Crash \/ UNCHANGED vars
    <2>1. /\ ran' = ran
          /\ \A t \in Ticks : tick'[t] = tick[t] \/ tick'[t].pc = "idle"
          /\ \A w \in Ticks \X Jobs : worker'[w] = worker[w] \/ worker'[w].pc = "idle"
      BY <1>3 DEF Crash, vars, NoTick, NoWorker
    <2>. QED
      BY <1>0, <2>1, OnceQuiet
  <1>. QED
    BY <1>1, <1>2, <1>3, OnceWorker DEF Next, Environment

\* It holds at the start.
LEMMA OnceInit == Init => AwakeInv /\ OnceInv
  <1>. SUFFICES ASSUME Init PROVE AwakeInv /\ OnceInv
    OBVIOUS
  <1>1. /\ store = NewRun /\ canceller.snap = NewRun /\ late = {}
        /\ \A t \in Ticks : tick[t].pc \in {"idle", "enter"} /\ tick[t].snap = NewRun
        /\ \A w \in Ticks \X Jobs : worker[w].pc = "idle" /\ worker[w].snap = NewRun
        /\ \A s \in Jobs \X Steps : ran[s] = 0
    BY DEF Init, NoTick, NoWorker, NoCaller
  <1>. QED
    BY <1>1, AwakeNew DEF AwakeInv, OnceInv, Untried, StepAtMostOnce, Busy

\* In a workflow without wait steps the side effects of a step happen at most once in a run,
\* whatever fails, is cancelled or crashes and whatever agents that were given up write back
\* (runJob: "never re-run side effects"): jobs are handed out on a snapshot, while others
\* write snapshots older than that, and still a job whose work was begun is out of reach.
\* With wait steps the code does not guarantee it (README 7).
THEOREM NoStepTwice == ASSUME WaitSteps = {} PROVE Spec => []StepAtMostOnce
  <1>1. PassInv /\ AwakeInv /\ [Next]_vars => AwakeInv'
    BY AwakeStep DEF PassInv
  <1>2. PassInv /\ AwakeInv /\ OnceInv /\ [Next]_vars => OnceInv'
    BY OnceStep
  <1>3. OnceInv => StepAtMostOnce
    BY DEF OnceInv
  <1>4. PassesApart
    BY DEF PassesApart
  <1>5. Spec => []PassInv
    BY <1>4, PassInvariance
  <1>. QED
    BY <1>1, <1>2, <1>3, <1>5, OnceInit, PTL DEF Spec

----------------------------------------------------------------------------
(* The verdict says what happened.  Barring a cancel, whatever says that a *)
(* job is settled agrees with the store on how; a job that was ever begun  *)
(* has its needs behind it wherever somebody decides about it, so that no  *)
(* failure can block it; and where a job is blocked, one has failed.       *)

Has(run, s) == \E j \in Jobs : run.jobs[j].status = s
Begun(run) == {j \in Jobs : run.jobs[j].status \in {"running", "waiting", "success", "failed", "skipped"}}
Done(run) == {j \in Jobs : run.jobs[j].status \in {"success", "failed", "skipped"}}
Fed(run) == {j \in Jobs : Needs[j] \subseteq Done(run)}

\* Nobody has cancelled a job of the run.
Plain(run) == \A j \in Jobs : run.jobs[j].status \notin {"cancelled", "expired"}

\* What is settled in run is settled in st in the same way.
Agrees(run, st) == \A j \in Jobs : SettledJob(run.jobs[j]) => st.jobs[j].status = run.jobs[j].status

\* What is settled in both is settled in the same way.
Compatible(a, b) ==
    \A j \in Jobs : SettledJob(a.jobs[j]) /\ SettledJob(b.jobs[j]) => a.jobs[j].status = b.jobs[j].status

\* A snapshot that may be written back to st, and that begins no job outside of base.
Good(run, st, base) == Plain(run) /\ Agrees(run, st) /\ Begun(run) \subseteq base

\* Where a job is blocked, one has failed.
Blame(run) == Has(run, "blocked") => Has(run, "failed")

\* The verdict of the run is that of its jobs.
Told(run) ==
    /\ run.status = "success" => \A j \in Jobs : run.jobs[j].status \in {"success", "skipped"}
    /\ run.status = "failed" => Has(run, "failed")

\* What a write may say beyond what the store says.
Fit(run, st, base) ==
    /\ Plain(run) /\ Compatible(st, run) /\ Begun(run) \subseteq base
    /\ Has(run, "blocked") => Has(run, "failed") \/ Has(st, "blocked")

Midway(w) == w.pc \in {"begin", "prepare", "step", "park", "exec", "unavailable"}

\* The jobs whose needs are done in the store and in the eyes of all who decide or fail a job.
Ripe ==
    {k \in Fed(store) :
        /\ \A u \in Ticks : tick[u].pc = "decide" => k \in Fed(tick[u].snap)
        /\ \A w \in Ticks \X Jobs : Midway(worker[w]) => k \in Fed(worker[w].snap)}

AllGood ==
    /\ Good(store, store, Ripe)
    /\ \A u \in Ticks : tick[u].pc # "record" => Good(tick[u].snap, store, Ripe)
    /\ \A w \in Ticks \X Jobs : Good(worker[w].snap, store, Ripe)
    /\ \A run \in late : Good(run, store, Ripe)

\* A worker's job is ripe, and until the worker returns it is settled nowhere.
Hands ==
    \A u \in Ticks, i \in Jobs :
        /\ Busy(u, i) => i \in Ripe
        /\ Midway(worker[<<u, i>>]) => /\ ~SettledJob(store.jobs[i])
                                       /\ ~SettledJob(worker[<<u, i>>].snap.jobs[i])

Judged == AllGood /\ Hands /\ Blame(store) /\ Told(store)

\* recordAsyncFailure fails a run whatever its jobs say; after that there is nothing to tell.
GivenUp == store.status = "failed" /\ budget.faults < MaxFaults

VerdictInv == Uncancelled /\ ~GivenUp => Judged

\* A compatible write settles nothing anew but what it says itself.
LEMMA MergeSettled ==
  ASSUME NEW a \in Run, NEW b \in Run, Compatible(a, b)
  PROVE  Agrees(a, MergeRun(a, b)) /\ Agrees(b, MergeRun(a, b))
  BY MergeJobs DEF Compatible, Agrees, SettledJob

\* The store goes on to agree with whom it agreed with.
LEMMA GoodKept ==
  ASSUME NEW run, NEW st, NEW st2, NEW base, NEW base2,
         Good(run, st, base), Agrees(st, st2), base \subseteq base2
  PROVE  Good(run, st2, base2)
  BY DEF Good, Agrees, SettledJob

\* The record of what is done grows.
LEMMA DoneKept ==
  ASSUME NEW run \in Run, NEW st, Agrees(run, st)
  PROVE  Done(run) \subseteq Done(st) /\ Fed(run) \subseteq Fed(st)
  <1>1. \A j \in Jobs : run.jobs[j] \in JobRun
    BY DEF Run
  <1>2. Done(run) \subseteq Done(st)
    BY <1>1, RankFacts DEF Done, Agrees
  <1>. QED
    BY <1>2 DEF Fed

\* A fit write keeps the store in agreement with itself and with the written run.
LEMMA FitWrite ==
  ASSUME NEW st \in Run, NEW run \in Run, NEW base, NEW base2, base \subseteq base2,
         Good(st, st, base), Fit(run, st, base2), Blame(st)
  PROVE  LET m == MergeRun(st, run)
         IN  Agrees(st, m) /\ Good(m, m, base2) /\ Good(run, m, base2) /\ Blame(m)
  <1>. DEFINE m == MergeRun(st, run)
  <1>1. Agrees(st, m) /\ Agrees(run, m)
    BY MergeSettled DEF Fit
  <1>2. \A j \in Jobs : m.jobs[j] \in {st.jobs[j], run.jobs[j]}
    BY MergeJobs
  <1>. HIDE DEF m
  <1>3. Plain(m) /\ Begun(m) \subseteq base2
    BY <1>2 DEF Good, Fit, Plain, Begun
  <1>4. Agrees(m, m)
    BY DEF Agrees
  <1>5. \A x \in {st, run} : Has(x, "failed") => Has(m, "failed")
    <2>1. \A x \in {st, run} : \A j \in Jobs : x.jobs[j].status = "failed" => SettledJob(x.jobs[j])
      BY DEF SettledJob, StatusRank
    <2>. QED
      BY <1>1, <2>1 DEF Has, Agrees
  <1>6. Has(m, "blocked") => Has(st, "blocked") \/ Has(run, "blocked")
    BY <1>2 DEF Has
  <1>. QED
    BY <1>1, <1>3, <1>4, <1>5, <1>6 DEF Good, Fit, Blame, m

\* A good snapshot is fit to be written.
LEMMA GoodFits ==
  ASSUME NEW st, NEW run \in Run, NEW base, Good(run, st, base) PROVE Fit(run, st, base)
  <1>1. \A j \in Jobs : run.jobs[j].status = "blocked" => SettledJob(run.jobs[j])
    BY DEF SettledJob, StatusRank
  <1>2. Has(run, "blocked") => Has(st, "blocked")
    BY <1>1 DEF Has, Good, Agrees
  <1>. QED
    BY <1>2 DEF Good, Fit, Agrees, Compatible

\* A write with no other verdict leaves the verdict as it is.
LEMMA ToldMerge ==
  ASSUME NEW st \in Run, NEW run \in Run, Live(run) \/ run.status = st.status, Told(st), Agrees(st, MergeRun(st, run))
  PROVE  Told(MergeRun(st, run))
  <1>. DEFINE m == MergeRun(st, run)
  <1>1. m.status \in {st.status, run.status}
    BY DEF MergeRun, MergeStatus
  <1>. HIDE DEF m
  <1>2. \A j \in Jobs : st.jobs[j].status \in {"success", "skipped", "failed"} => SettledJob(st.jobs[j])
    BY DEF SettledJob, StatusRank
  <1>3. Agrees(st, m)
    BY DEF m
  <1>4. \A s \in {"success", "skipped", "failed"}, j \in Jobs : st.jobs[j].status = s => m.jobs[j].status = s
    BY <1>2, <1>3 DEF Agrees
  <1>5. m.status = st.status => Told(m)
    BY <1>4 DEF Told, Has
  <1>6. Live(run) /\ m.status = run.status => Told(m)
    BY DEF Told, Live, IsTerminal
  <1>. QED
    BY <1>1, <1>5, <1>6 DEF m

\* The run before anything happened.
LEMMA NewRunGood == ASSUME NEW st, NEW base PROVE Good(NewRun, st, base) /\ Blame(NewRun) /\ Told(NewRun)
  <1>1. NewRun.status = "queued" /\ \A j \in Jobs : NewRun.jobs[j].status = "queued"
    BY DEF NewRun
  <1>2. \A j \in Jobs : ~SettledJob(NewRun.jobs[j])
    BY <1>1 DEF SettledJob, StatusRank
  <1>. QED
    BY <1>1, <1>2 DEF Good, Plain, Agrees, Begun, Blame, Told, Has

\* What a worker of job j makes of its snapshot: its own job goes on, and if it fails, jobs
\* outside of base are blocked.
Stride(run, snap, j, base) ==
    /\ run.jobs[j].status \in {snap.jobs[j].status, "running", "waiting", "success", "skipped", "failed"}
    /\ \A i \in Jobs \ {j} :
        \/ run.jobs[i].status = snap.jobs[i].status
        \/ run.jobs[i].status = "blocked" /\ i \notin base /\ run.jobs[j].status = "failed"

LEMMA StrideFits ==
  ASSUME NEW st \in Run, NEW snap \in Run, NEW run \in Run, NEW base, NEW j \in Jobs \cap base,
         Good(st, st, base), Good(snap, st, base), ~SettledJob(st.jobs[j]), ~SettledJob(snap.jobs[j]),
         Stride(run, snap, j, base)
  PROVE  /\ Fit(run, st, base)
         /\ Done(snap) \subseteq Done(run)
         /\ \A i \in base : i # j => (i \in Jobs /\ SettledJob(run.jobs[i]) => SettledJob(st.jobs[i]))
         /\ ~SettledJob(run.jobs[j]) => Good(run, st, base)
  <1>1. \A x \in {st, snap, run}, i \in Jobs :
          /\ x.jobs[i] \in JobRun
          /\ SettledJob(x.jobs[i]) <=> x.jobs[i].status \notin {"queued", "pending", "running", "waiting"}
    BY RankFacts DEF Run
  <1>2. \A x \in {st, snap, run}, i \in Jobs : x.jobs[i].status \in Status
    BY <1>1 DEF JobRun
  <1>3. \A i \in Jobs : run.jobs[i].status \in {"running", "waiting", "success", "failed", "skipped"} => i \in base
    BY DEF Stride, Good, Begun
  <1>4. Plain(run)
    BY DEF Stride, Good, Plain
  <1>5. ASSUME NEW i \in Jobs, i # j, SettledJob(run.jobs[i])
        PROVE  /\ SettledJob(st.jobs[i]) => st.jobs[i].status = run.jobs[i].status
               /\ i \in base \/ run.jobs[j].status # "failed" => SettledJob(st.jobs[i])
    <2>1. CASE run.jobs[i].status = snap.jobs[i].status
      <3>1. SettledJob(snap.jobs[i])
        BY <1>5, <2>1 DEF SettledJob
      <3>2. st.jobs[i].status = run.jobs[i].status
        BY <2>1, <3>1 DEF Good, Agrees
      <3>. QED
        BY <1>5, <3>2 DEF SettledJob
    <2>2. CASE run.jobs[i].status = "blocked" /\ i \notin base /\ run.jobs[j].status = "failed"
      <3>1. st.jobs[i].status \notin {"running", "waiting", "success", "failed", "skipped", "cancelled", "expired"}
        BY <2>2 DEF Good, Plain, Begun
      <3>. QED
        BY <1>1, <1>2, <2>2, <3>1 DEF Status
    <2>. QED
      BY <1>5, <2>1, <2>2 DEF Stride
  <1>6. Compatible(st, run)
    BY <1>5 DEF Compatible
  <1>7. Has(run, "blocked") => Has(run, "failed") \/ Has(st, "blocked")
    <2>. SUFFICES ASSUME NEW i \in Jobs, run.jobs[i].status = "blocked", run.jobs[j].status # "failed"
                  PROVE  st.jobs[i].status = "blocked"
      BY DEF Has
    <2>1. i # j
      BY <1>1 DEF Stride
    <2>2. SettledJob(run.jobs[i])
      BY <1>1
    <2>. QED
      BY <1>5, <2>1, <2>2
  <1>8. Done(snap) \subseteq Done(run)
    <2>. SUFFICES ASSUME NEW i \in Done(snap) PROVE i \in Done(run)
      OBVIOUS
    <2>1. i \in Jobs /\ i # j /\ i \in base
      BY <1>1 DEF Done, Good, Begun
    <2>. QED
      BY <2>1 DEF Stride, Done
  <1>9. ~SettledJob(run.jobs[j]) => Good(run, st, base)
    <2>. SUFFICES ASSUME ~SettledJob(run.jobs[j]) PROVE Agrees(run, st)
      BY <1>3, <1>4 DEF Good, Begun
    <2>1. run.jobs[j].status # "failed"
      BY <1>1
    <2>. QED
      BY <1>5, <2>1 DEF Agrees
  <1>. QED
    BY <1>3, <1>4, <1>5, <1>6, <1>7, <1>8, <1>9 DEF Fit, Begun

\* The walk of BlockedByFailure enters no job whose needs are done: not from the failed job,
\* which is not done, nor from a job it has entered.
LEMMA StuckOutside ==
  ASSUME NEW run \in Run, NEW snap, NEW base \in SUBSET Jobs, NEW j \in Jobs,
         base \subseteq Fed(snap), Done(snap) \subseteq base, j \notin Done(snap)
  PROVE  BlockedByFailure(run, j) \cap base = {}
  <1>. DEFINE S == Jobs \ base
  <1>1. \A k \in Jobs : Needs[k] \cap (S \cup {j}) # {} => k \in S
    BY DEF Fed
  <1>2. S \in SUBSET Jobs
    OBVIOUS
  <1>. HIDE DEF S
  <1>3. BlockedByFailure(run, j) \subseteq S
    BY <1>1, <1>2 DEF BlockedByFailure
  <1>. QED
    BY <1>3 DEF S

\* A failing worker blocks none of the jobs in base.
LEMMA FailStride ==
  ASSUME NEW run \in Run, NEW snap \in Run, NEW base \in SUBSET Jobs, NEW j \in base,
         base \subseteq Fed(snap), Begun(snap) \subseteq base, ~SettledJob(snap.jobs[j]),
         \A i \in Jobs \ {j} : run.jobs[i].status = snap.jobs[i].status
  PROVE  Stride(FailJob(run, j), snap, j, base)
  <1>. DEFINE failed == SetJob(run, j, "failed")
              stuck == BlockedByFailure(failed, j)
  <1>0. j \in Jobs /\ "failed" \in Status
    BY DEF Status
  <1>1. failed \in Run /\ failed.jobs[j].status = "failed" /\ \A i \in Jobs \ {j} : failed.jobs[i] = run.jobs[i]
    <2>1. failed \in Run
      BY <1>0, SetTypes
    <2>2. failed.jobs[j].status = "failed" /\ \A i \in Jobs \ {j} : failed.jobs[i] = run.jobs[i]
      BY <1>0, SetJobFacts
    <2>. QED
      BY <2>1, <2>2
  <1>2. j \notin Done(snap) /\ Done(snap) \subseteq base
    BY DEF Done, Begun, SettledJob, StatusRank
  <1>3. stuck \cap base = {}
    BY <1>1, <1>2, StuckOutside
  <1>4. FailJob(run, j) = [failed EXCEPT !.jobs = [x \in Jobs |->
            IF x \in stuck THEN [failed.jobs[x] EXCEPT !.status = "blocked"] ELSE failed.jobs[x]]]
    BY DEF FailJob
  <1>. HIDE DEF failed, stuck
  <1>5. \A i \in Jobs : FailJob(run, j).jobs[i] = IF i \in stuck THEN [failed.jobs[i] EXCEPT !.status = "blocked"]
                                                                 ELSE failed.jobs[i]
    BY <1>1, <1>4 DEF Run
  <1>6. \A i \in Jobs : [failed.jobs[i] EXCEPT !.status = "blocked"].status = "blocked"
    BY <1>1 DEF Run, JobRun
  <1>7. FailJob(run, j).jobs[j].status = "failed"
    BY <1>1, <1>3, <1>5
  <1>8. ASSUME NEW i \in Jobs \ {j}
        PROVE  \/ FailJob(run, j).jobs[i].status = snap.jobs[i].status
               \/ FailJob(run, j).jobs[i].status = "blocked" /\ i \notin base
    <2>1. CASE i \in stuck
      <3>1. FailJob(run, j).jobs[i] = [failed.jobs[i] EXCEPT !.status = "blocked"]
        BY <1>5, <2>1
      <3>. QED
        BY <1>3, <1>6, <2>1, <3>1
    <2>2. CASE i \notin stuck
      <3>1. FailJob(run, j).jobs[i] = failed.jobs[i] /\ failed.jobs[i] = run.jobs[i]
        BY <1>1, <1>5, <2>2
      <3>. QED
        BY <3>1
    <2>. QED
      BY <2>1, <2>2
  <1>. QED
    BY ZenonT(60), <1>7, <1>8 DEF Stride

\* What the transitions of a pass do to the statuses of the jobs.
LEMMA WokenGood ==
  ASSUME NEW run \in Run, NEW base, Good(run, run, base) PROVE Good(WakeWaitingRun(run), run, base)
  <1>. DEFINE woken == WakeWaitingRun(run)
  <1>0. run.jobs \in [Jobs -> JobRun]
    BY DEF Run
  <1>1. ASSUME NEW j \in Jobs
        PROVE  woken.jobs[j].status = IF run.jobs[j].status = "waiting" THEN "queued" ELSE run.jobs[j].status
    <2>. DEFINE steps2 == [k \in Steps |-> IF run.jobs[j].steps[k] = "waiting" THEN "queued" ELSE run.jobs[j].steps[k]]
    <2>1. woken.jobs[j] = IF run.jobs[j].status # "waiting" THEN run.jobs[j]
                          ELSE [run.jobs[j] EXCEPT !.status = "queued", !.steps = steps2]
      BY DEF WakeWaitingRun, Run
    <2>. HIDE DEF steps2, woken
    <2>. QED
      BY <1>0, <2>1 DEF JobRun
  <1>. HIDE DEF woken
  <1>2. Agrees(woken, run)
    BY <1>1 DEF Agrees, SettledJob, StatusRank
  <1>3. Plain(woken) /\ Begun(woken) \subseteq base
    BY <1>1 DEF Good, Plain, Begun
  <1>. QED
    BY <1>2, <1>3 DEF Good, woken

LEMMA ClaimFit ==
  ASSUME NEW st, NEW snap \in Run, NEW base, NEW base2, Good(snap, st, base),
         ReadyJobs(snap) \subseteq base2, base \subseteq base2
  PROVE  Fit(ClaimJobs(snap, ReadyJobs(snap)), st, base2)
  <1>. DEFINE ready == ReadyJobs(snap)
              claimed == ClaimJobs(snap, ready)
  <1>1. \A j \in Jobs : claimed.jobs[j].status = IF j \in ready THEN "running" ELSE snap.jobs[j].status
    BY DEF ClaimJobs, Run, JobRun
  <1>2. ready \subseteq base2
    OBVIOUS
  <1>. HIDE DEF ready, claimed
  <1>3. Plain(claimed) /\ Begun(claimed) \subseteq base2
    BY <1>1, <1>2 DEF Good, Plain, Begun
  <1>4. Agrees(claimed, st)
    BY <1>1 DEF Good, Agrees, SettledJob, StatusRank
  <1>5. \A j \in Jobs : claimed.jobs[j].status = "blocked" => SettledJob(claimed.jobs[j])
    BY DEF SettledJob, StatusRank
  <1>6. Has(claimed, "blocked") => Has(st, "blocked")
    BY <1>4, <1>5 DEF Has, Agrees
  <1>. QED
    BY <1>3, <1>4, <1>6 DEF Fit, Agrees, Compatible, claimed, ready

\* The needs of a ready job are done.
LEMMA ReadyFed ==
  ASSUME NEW snap \in Run, Plain(snap) PROVE ReadyJobs(snap) \subseteq Fed(snap)
  <1>1. Needs \in [Jobs -> SUBSET Jobs]
    BY NeedsAssumption
  <1>2. \A d \in Jobs : NeedMet(snap, d) => d \in Done(snap)
    BY DEF NeedMet, Plain, Done
  <1>. QED
    BY <1>1, <1>2 DEF ReadyJobs, Fed

\* A verdict is given on settled jobs: success if each succeeded or was skipped.
LEMMA FinalizeTells ==
  ASSUME NEW snap \in Run, Live(snap), Plain(snap)
  PROVE  /\ Finalize(snap).jobs = snap.jobs
         /\ \/ Live(Finalize(snap))
            \/ Finalize(snap).status = "success" /\ \A j \in Jobs : snap.jobs[j].status \in {"success", "skipped"}
            \/ Finalize(snap).status = "failed" /\ (Has(snap, "failed") \/ Has(snap, "blocked"))
  <1>. DEFINE bad == \/ JobsIn(snap, {"failed"}) # {}
                     \/ JobsIn(snap, {"blocked"}) # {} /\ JobsIn(snap, {"success", "skipped"}) # Jobs
  <1>1. Finalize(snap).jobs = snap.jobs
    BY DEF Finalize, Run
  <1>2. CASE Finalize(snap) = snap
    BY <1>1, <1>2
  <1>3. CASE Finalize(snap) # snap
    <2>1. JobsIn(snap, {"running", "queued", "pending", "waiting"}) = {}
      BY <1>3 DEF Finalize
    <2>2. Finalize(snap).status = IF bad THEN "failed" ELSE "success"
      BY <1>3 DEF Finalize, Run
    <2>3. bad => Has(snap, "failed") \/ Has(snap, "blocked")
      BY DEF JobsIn, Has
    <2>4. ASSUME ~bad, NEW j \in Jobs PROVE snap.jobs[j].status \in {"success", "skipped"}
      <3>1. snap.jobs[j].status \in Status
        BY DEF Run, JobRun
      <3>2. snap.jobs[j].status \notin {"running", "queued", "pending", "waiting", "failed", "cancelled", "expired"}
        BY <2>1, <2>4 DEF JobsIn, Plain
      <3>3. snap.jobs[j].status # "blocked"
        BY <2>4 DEF JobsIn
      <3>. QED
        BY <3>1, <3>2, <3>3 DEF Status
    <2>. HIDE DEF bad
    <2>. QED
      BY <1>1, <2>2, <2>3, <2>4
  <1>. QED
    BY <1>2, <1>3

\* Recovery fails only jobs that were running.
LEMMA StaleFit ==
  ASSUME NEW run \in Run, NEW base, Good(run, run, base) PROVE Fit(StaleFailed(run), run, base)
  <1>. DEFINE stale == StaleFailed(run)
  <1>1. \A j \in Jobs : \/ stale.jobs[j].status = run.jobs[j].status
                        \/ stale.jobs[j].status = "failed" /\ run.jobs[j].status = "running"
    <2>1. CASE run.status # "running"
      BY <2>1 DEF StaleFailed
    <2>2. CASE run.status = "running"
      <3>1. \A j \in Jobs : stale.jobs[j] = IF run.jobs[j].status = "running" /\ run.jobs[j].beat
                                            THEN [run.jobs[j] EXCEPT !.status = "failed"] ELSE run.jobs[j]
        BY <2>2 DEF StaleFailed, Run
      <3>2. \A j \in Jobs : [run.jobs[j] EXCEPT !.status = "failed"].status = "failed"
        BY DEF Run, JobRun
      <3>. HIDE DEF stale
      <3>. QED
        BY <3>1, <3>2
    <2>. QED
      BY <2>1, <2>2
  <1>. HIDE DEF stale
  <1>2. Plain(stale) /\ Begun(stale) \subseteq base
    BY <1>1 DEF Good, Plain, Begun
  <1>3. Compatible(run, stale)
    BY <1>1 DEF Compatible, SettledJob, StatusRank
  <1>4. Has(stale, "blocked") => Has(run, "blocked")
    BY <1>1 DEF Has
  <1>. QED
    BY <1>2, <1>3, <1>4 DEF Fit, stale

\* A job stays ripe: who starts to decide takes the stored run, and who decides forgets nothing.
LEMMA RipeGrows ==
  ASSUME store \in Run, Agrees(store, store'),
         \A u \in Ticks : tick'[u].pc = "decide" => tick'[u] = tick[u] \/ tick'[u].snap = store,
         \A w \in Ticks \X Jobs : Midway(worker'[w]) =>
            \/ worker'[w] = worker[w] \/ worker'[w].snap = store
            \/ Midway(worker[w]) /\ Done(worker[w].snap) \subseteq Done(worker'[w].snap)
  PROVE  Ripe \subseteq Ripe'
  <1>. SUFFICES ASSUME NEW k \in Ripe PROVE k \in Ripe'
    OBVIOUS
  <1>1. k \in Fed(store) /\ k \in Fed(store')
    BY DoneKept DEF Ripe
  <1>2. ASSUME NEW u \in Ticks, tick'[u].pc = "decide" PROVE k \in Fed(tick'[u].snap)
    BY <1>1, <1>2 DEF Ripe
  <1>3. ASSUME NEW w \in Ticks \X Jobs, Midway(worker'[w]) PROVE k \in Fed(worker'[w].snap)
    <2>1. CASE worker'[w] = worker[w] \/ worker'[w].snap = store
      BY <1>1, <1>3, <2>1 DEF Ripe
    <2>2. CASE Midway(worker[w]) /\ Done(worker[w].snap) \subseteq Done(worker'[w].snap)
      BY <2>2 DEF Ripe, Fed
    <2>. QED
      BY <1>3, <2>1, <2>2
  <1>. QED
    BY <1>1, <1>2, <1>3 DEF Ripe

\* What a step that hands out no job has to leave behind.
LEMMA JudgedKept ==
  ASSUME TypeInv, TypeInv', Judged, Told(store'),
         store' = store \/ \E run \in Run : store' = MergeRun(store, run) /\ Fit(run, store, Ripe),
         \A u \in Ticks :
            \/ tick'[u] = tick[u] \/ tick'[u].pc = "record"
            \/ /\ Good(tick'[u].snap, store, Ripe)
               /\ tick'[u].pc = "decide" => tick'[u].snap = store,
         \A w \in Ticks \X Jobs : worker'[w] = worker[w] \/ worker'[w] = NoWorker,
         \A u \in Ticks, i \in Jobs : Midway(worker'[<<u, i>>]) => ~SettledJob(store'.jobs[i]),
         late' \subseteq late
  PROVE  Judged'
  <1>0. store \in Run /\ store' \in Run /\ Good(store, store, Ripe) /\ Blame(store)
    BY DEF TypeInv, TypeOK, Judged, AllGood
  <1>1. Agrees(store, store') /\ Good(store', store', Ripe) /\ Blame(store')
    <2>1. CASE store' = store
      BY <1>0, <2>1 DEF Agrees
    <2>2. ASSUME NEW run \in Run, store' = MergeRun(store, run), Fit(run, store, Ripe)
          PROVE  Agrees(store, store') /\ Good(store', store', Ripe) /\ Blame(store')
      BY <1>0, <2>2, FitWrite
    <2>. QED
      BY <2>1, <2>2
  <1>2. NoWorker.pc = "idle" /\ NoWorker.snap = NewRun /\ ~Midway(NoWorker)
    BY DEF NoWorker, Midway
  <1>3. Ripe \subseteq Ripe'
    BY <1>0, <1>1, <1>2, RipeGrows
  <1>4. \A run : Good(run, store, Ripe) => Good(run, store', Ripe')
    BY <1>1, <1>3, GoodKept
  <1>5. Good(store', store', Ripe')
    BY <1>1, <1>3 DEF Good
  <1>6. \A u \in Ticks : tick'[u].pc # "record" => Good(tick'[u].snap, store', Ripe')
    BY <1>4 DEF Judged, AllGood
  <1>7. \A w \in Ticks \X Jobs : Good(worker'[w].snap, store', Ripe')
    BY <1>2, <1>4, NewRunGood DEF Judged, AllGood
  <1>8. \A run \in late' : Good(run, store', Ripe')
    BY <1>4 DEF Judged, AllGood
  <1>9. ASSUME NEW u \in Ticks, NEW i \in Jobs
        PROVE  /\ Busy(u, i)' => i \in Ripe'
               /\ Midway(worker'[<<u, i>>]) => ~SettledJob(worker'[<<u, i>>].snap.jobs[i])
    <2>1. worker'[<<u, i>>] = worker[<<u, i>>] \/ worker'[<<u, i>>] = NoWorker
      OBVIOUS
    <2>. QED
      BY <1>2, <1>3, <2>1 DEF Judged, Hands, Busy
  <1>. QED
    BY <1>1, <1>5, <1>6, <1>7, <1>8, <1>9 DEF Judged, AllGood, Hands

\* A pass keeps the verdict sound: it gives one on the snapshot it decides on, whose settled
\* jobs the store has settled in the same way, and nobody but recordAsyncFailure gives another.
LEMMA JudgedTick ==
  ASSUME PassInv, TypeInv', LiveSnaps, LiveStore, Judged, ~GivenUp', NEW t \in Ticks,
         TickStep(t) \/ TickFault(t), ~TickClaim(t)
  PROVE  Judged'
  <1>. DEFINE snap == tick[t].snap
  <1>0. /\ TypeInv /\ store \in Run /\ snap \in Run /\ store.status # "skipped"
        /\ Good(store, store, Ripe) /\ Good(NewRun, store, Ripe) /\ Told(store) /\ Blame(store)
        /\ tick[t].pc # "record" => Good(snap, store, Ripe) /\ Live(snap)
    BY NewRunGood DEF PassInv, TypeInv, TypeOK, LiveStore, LiveSnaps, Judged, AllGood
  <1>1. /\ tick[t].pc # "idle" /\ (\A u \in Ticks : u # t => tick'[u] = tick[u]) /\ late' = late
        /\ tick[t].pc = "join" => TickJoin(t)
        /\ worker' = worker \/ TickJoin(t)
    BY <1>0, TickRest
  <1>2. \A u \in Ticks : u # t => \A j \in Jobs : worker[<<u, j>>].pc = "idle"
    BY <1>1, OnlyPass
  <1>3. /\ \A w \in Ticks \X Jobs : worker'[w] = worker[w] \/ worker'[w] = NoWorker
        /\ \A u \in Ticks, i \in Jobs : ~Midway(worker'[<<u, i>>])
    <2>1. CASE TickJoin(t)
      <3>1. worker' = [w \in Ticks \X Jobs |-> IF w[1] = t THEN NoWorker ELSE worker[w]]
        BY <2>1 DEF TickJoin
      <3>2. ASSUME NEW u \in Ticks, NEW i \in Jobs PROVE worker'[<<u, i>>].pc = "idle"
        <4>1. worker'[<<u, i>>] = IF u = t THEN NoWorker ELSE worker[<<u, i>>]
          BY <3>1
        <4>. QED
          BY <1>2, <4>1 DEF NoWorker
      <3>3. \A w \in Ticks \X Jobs : worker'[w] = worker[w] \/ worker'[w] = NoWorker
        BY <3>1
      <3>. QED
        BY <3>2, <3>3 DEF Midway
    <2>2. CASE worker' = worker /\ tick[t].pc # "join"
      <3>1. \A i \in Jobs : worker[<<t, i>>].pc = "idle"
        BY <2>2 DEF PassInv, Joined, WAt, TickAt
      <3>2. ASSUME NEW u \in Ticks, NEW i \in Jobs PROVE worker[<<u, i>>].pc = "idle"
        <4>1. CASE u = t
          BY <3>1, <4>1
        <4>2. CASE u # t
          BY <1>2, <4>2
        <4>. QED
          BY <4>1, <4>2
      <3>. QED
        BY <2>2, <3>2 DEF Midway
    <2>. QED
      BY <1>1, <2>1, <2>2
  <1>. DEFINE Write == store' = store \/ \E run \in Run : store' = MergeRun(store, run) /\ Fit(run, store, Ripe)
              Keeps == \/ tick'[t].pc = "record"
                       \/ /\ Good(tick'[t].snap, store, Ripe)
                          /\ tick'[t].pc = "decide" => tick'[t].snap = store
  <1>4. CASE TickEnter(t)
    <2>1. /\ store' = store /\ tick'[t].pc \in {"idle", "wake", "loop"}
          /\ tick'[t].snap \in {NewRun, WakeWaitingRun(store)}
      BY <1>0, <1>4, TickGoesFacts, TickEndsFacts DEF TickEnter, NoTick
    <2>2. Write /\ Keeps /\ Told(store')
      BY <1>0, <2>1, WokenGood
    <2>. QED
      BY <1>0, <1>1, <1>3, <2>2, JudgedKept
  <1>5. CASE TickWake(t)
    <2>1. /\ store' = MergeRun(store, snap) /\ tick'[t].pc = "loop" /\ tick'[t].snap = NewRun
          /\ tick[t].pc = "wake"
      BY <1>0, <1>5, TickGoesFacts DEF TickWake, TickAt, Persist
    <2>2. Fit(snap, store, Ripe)
      BY <1>0, <2>1, GoodFits
    <2>3. Told(store')
      BY <1>0, <2>1, <2>2, MergeSettled, ToldMerge DEF Fit
    <2>4. Write /\ Keeps
      BY <1>0, <2>1, <2>2
    <2>. QED
      BY <1>0, <1>1, <1>3, <2>3, <2>4, JudgedKept
  <1>6. CASE TickLoop(t)
    <2>1. /\ store' = store /\ tick'[t].snap \in {store, NewRun}
          /\ tick'[t].pc = "decide" => tick'[t].snap = store
      BY <1>0, <1>6, TickGoesFacts, TickEndsFacts DEF TickLoop, NoTick
    <2>2. Write /\ Keeps /\ Told(store')
      BY <1>0, <2>1
    <2>. QED
      BY <1>0, <1>1, <1>3, <2>2, JudgedKept
  <1>7. CASE TickFinalize(t)
    <2>. DEFINE final == Finalize(snap)
    <2>1. /\ store' = MergeRun(store, final) /\ tick[t].pc = "decide"
          /\ tick'[t].pc = "idle" /\ tick'[t].snap = NewRun
      BY <1>0, <1>7, TickEndsFacts DEF TickFinalize, TickAt, Persist, NoTick
    <2>2. final \in Run /\ final.jobs = snap.jobs
      BY <1>0, <2>1, FinalizeType, FinalizeTells DEF Good
    <2>3. \/ Live(final)
          \/ final.status = "success" /\ \A j \in Jobs : snap.jobs[j].status \in {"success", "skipped"}
          \/ final.status = "failed" /\ (Has(snap, "failed") \/ Has(snap, "blocked"))
      BY <1>0, <2>1, FinalizeTells DEF Good
    <2>. HIDE DEF final
    <2>4. Good(final, store, Ripe)
      BY <1>0, <2>1, <2>2 DEF Good, Plain, Agrees, Begun
    <2>5. Fit(final, store, Ripe)
      BY <2>2, <2>4, GoodFits
    <2>6. Agrees(store, store') /\ Good(final, store', Ripe) /\ Blame(store')
      BY <1>0, <2>1, <2>2, <2>5, FitWrite
    <2>7. Told(store')
      <3>1. \A j \in Jobs : \A s \in {"success", "skipped", "failed", "blocked"} :
              snap.jobs[j].status = s => store'.jobs[j].status = s
        BY <2>2, <2>6 DEF Good, Agrees, SettledJob, StatusRank
      <3>2. store'.status \in {store.status, final.status}
        BY <2>1 DEF MergeRun, MergeStatus
      <3>3. Live(store)
        BY <2>1 DEF LiveStore
      <3>4. Live(store') => Told(store')
        BY DEF Told, Live, IsTerminal
      <3>. QED
        BY <2>3, <2>6, <3>1, <3>2, <3>3, <3>4 DEF Told, Has, Blame, Live
    <2>8. Write /\ Keeps
      BY <1>0, <2>1, <2>2, <2>5
    <2>. QED
      BY <1>0, <1>1, <1>3, <2>7, <2>8, JudgedKept
  <1>8. CASE TickJoin(t) \/ TickFault(t)
    <2>1. /\ store' = store /\ tick'[t].pc \in {"idle", "failed", "loop"} /\ tick'[t].snap = NewRun
      BY SMTT(60), <1>0, <1>8, TickGoesFacts, TickErrsFacts DEF TickJoin, TickFault
    <2>2. Write /\ Keeps /\ Told(store')
      BY <1>0, <2>1
    <2>. QED
      BY <1>0, <1>1, <1>3, <2>2, JudgedKept
  <1>9. CASE RecordRead(t)
    <2>1. store' = store /\ (tick'[t].pc = "record" \/ tick'[t] = NoTick)
      BY <1>0, <1>9, TickGoesFacts, TickEndsFacts DEF RecordRead
    <2>2. Write /\ Keeps /\ Told(store')
      BY <1>0, <2>1 DEF NoTick
    <2>. QED
      BY <1>0, <1>1, <1>3, <2>2, JudgedKept
  <1>10. CASE RecordPersist(t)
    <2>1. /\ tick[t].pc = "record" /\ tick'[t] = NoTick
          /\ (store' = MergeRun(store, snap) /\ budget' = budget) \/ store' = store
      BY <1>0, <1>10, TickEndsFacts DEF RecordPersist, TickAt, Persist
    <2>2. ASSUME store' = MergeRun(store, snap), budget' = budget PROVE FALSE
      <3>1. snap.status = "failed" /\ budget.faults < MaxFaults
        BY <2>1 DEF LiveSnaps, PassInv, Spent
      <3>2. StatusRank(store.status) \in 1 .. 5 /\ StatusRank("failed") = 5
        BY <1>0, RankRange DEF Run, StatusRank
      <3>3. store'.status = "failed"
        BY <2>2, <3>1, <3>2 DEF MergeRun, MergeStatus
      <3>. QED
        BY <2>2, <3>1, <3>3 DEF GivenUp
    <2>3. Write /\ Keeps /\ Told(store')
      BY <1>0, <2>1, <2>2 DEF NoTick
    <2>. QED
      BY <1>0, <1>1, <1>3, <2>3, JudgedKept
  <1>. QED
    BY <1>4, <1>5, <1>6, <1>7, <1>8, <1>9, <1>10 DEF TickStep

\* A claim hands out ripe jobs only: their needs are done in the snapshot, hence in the store.
LEMMA JudgedClaim ==
  ASSUME PassInv, TypeInv', LiveSnaps, Judged, NEW t \in Ticks, TickClaim(t) PROVE Judged'
  <1>. DEFINE snap == tick[t].snap
              ready == ReadyJobs(snap)
              claimed == ClaimJobs(snap, ready)
  <1>0. /\ TypeInv /\ store \in Run /\ store' \in Run /\ snap \in Run /\ tick[t].pc = "decide"
        /\ Good(store, store, Ripe) /\ Good(snap, store, Ripe) /\ Told(store) /\ Blame(store) /\ Live(snap)
    BY DEF PassInv, TypeInv, TypeOK, TickClaim, TickAt, LiveSnaps, Judged, AllGood
  <1>1. /\ (\A u \in Ticks : u # t => tick'[u] = tick[u] /\ tick'[u].pc = "idle")
        /\ tick'[t].pc = "join" /\ tick'[t].snap = NewRun /\ late' = late
    BY <1>0, OnlyPass, TickGoesFacts DEF TickClaim
  <1>2. /\ store' = MergeRun(store, claimed)
        /\ worker' = [w \in Ticks \X Jobs |-> IF w[1] = t /\ w[2] \in ready
                                              THEN [NoWorker EXCEPT !.pc = "launch"] ELSE worker[w]]
    BY DEF TickClaim, Persist
  <1>3. claimed \in Run /\ Live(claimed)
    BY <1>0, ClaimType, LiveFacts DEF Live
  <1>4. Fit(claimed, store, Jobs)
    <2>1. ready \subseteq Jobs /\ Ripe \subseteq Jobs
      BY DEF ReadyJobs, Ripe, Fed
    <2>. QED
      BY <1>0, <2>1, ClaimFit
  <1>5. Agrees(store, store')
    BY <1>0, <1>2, <1>3, <1>4, MergeSettled DEF Fit
  <1>6. ready \subseteq Fed(store')
    BY <1>0, <1>5, ReadyFed, DoneKept DEF Good
  <1>7. ASSUME NEW u \in Ticks, NEW i \in Jobs
        PROVE  /\ worker'[<<u, i>>].pc \in {"idle", "launch"}
               /\ worker'[<<u, i>>].pc = "launch" => u = t /\ i \in ready
               /\ worker'[<<u, i>>].snap = NewRun \/ worker'[<<u, i>>] = worker[<<u, i>>]
    <2>1. worker[<<u, i>>].pc = "idle"
      BY <1>0, OnlyPass, Zenon DEF PassInv, Joined, WAt, TickAt
    <2>2. [NoWorker EXCEPT !.pc = "launch"].pc = "launch" /\ [NoWorker EXCEPT !.pc = "launch"].snap = NewRun
      BY DEF NoWorker
    <2>3. worker'[<<u, i>>] = IF u = t /\ i \in ready THEN [NoWorker EXCEPT !.pc = "launch"] ELSE worker[<<u, i>>]
      BY <1>2
    <2>. QED
      BY <2>1, <2>2, <2>3
  <1>8. \A w \in Ticks \X Jobs : ~Midway(worker'[w])
    BY <1>7 DEF Midway
  <1>9. Ripe \subseteq Ripe'
    BY <1>0, <1>1, <1>5, <1>8, RipeGrows
  <1>10. ready \subseteq Ripe'
    BY <1>1, <1>6, <1>8 DEF Ripe, Ticks
  <1>11. Fit(claimed, store, Ripe')
    BY <1>0, <1>9, <1>10, ClaimFit
  <1>12. Good(store', store', Ripe') /\ Blame(store')
    BY <1>0, <1>2, <1>3, <1>9, <1>11, FitWrite
  <1>13. Told(store')
    BY <1>0, <1>2, <1>3, <1>5, ToldMerge
  <1>14. \A run : Good(run, store, Ripe) => Good(run, store', Ripe')
    BY <1>5, <1>9, GoodKept
  <1>15. \A u \in Ticks : tick'[u].pc # "record" => Good(tick'[u].snap, store', Ripe')
    BY <1>1, <1>14, NewRunGood DEF Judged, AllGood
  <1>16. \A w \in Ticks \X Jobs : Good(worker'[w].snap, store', Ripe')
    BY <1>7, <1>14, NewRunGood DEF Judged, AllGood
  <1>17. \A run \in late' : Good(run, store', Ripe')
    BY <1>1, <1>14 DEF Judged, AllGood
  <1>18. ASSUME NEW u \in Ticks, NEW i \in Jobs
         PROVE  (Busy(u, i)' => i \in Ripe') /\ ~Midway(worker'[<<u, i>>])
    <2>1. worker'[<<u, i>>].pc = "idle" \/ (worker'[<<u, i>>].pc = "launch" /\ i \in Ripe')
      BY <1>7, <1>10
    <2>. QED
      BY <2>1 DEF Busy, Midway
  <1>19. Hands'
    BY <1>18, Zenon DEF Hands
  <1>. QED
    BY <1>12, <1>13, <1>15, <1>16, <1>17, <1>19 DEF Judged, AllGood

\* The setters that a worker applies to its own job.
LEMMA StrideFacts ==
  ASSUME NEW snap \in Run, NEW j \in Jobs, NEW base
  PROVE  /\ Stride(snap, snap, j, base)
         /\ \A s \in {"running", "waiting", "success", "skipped"} : Stride(SetJob(snap, j, s), snap, j, base)
         /\ Stride(BeginRunning(SetJob(snap, j, "running")), snap, j, base)
         /\ \A k \in Steps : \A s : Stride(SetStep(snap, j, k, s), snap, j, base)
         /\ Stride([snap EXCEPT !.status = "blocked"], snap, j, base)
         /\ BeginRunning(SetJob(snap, j, "running")).jobs[j].status = "running"
         /\ [snap EXCEPT !.status = "blocked"].jobs[j].status = snap.jobs[j].status
  <1>1. {"running", "waiting", "success", "skipped"} \subseteq Status
    BY DEF Status
  <1>2. \A s \in {"running", "waiting", "success", "skipped"} : Stride(SetJob(snap, j, s), snap, j, base)
    BY SetJobFacts DEF Stride
  <1>3. \A run \in Run : BeginRunning(run).jobs = run.jobs
    BY DEF BeginRunning, Run
  <1>4. SetJob(snap, j, "running") \in Run
    BY <1>1, SetTypes
  <1>5. /\ BeginRunning(SetJob(snap, j, "running")).jobs = SetJob(snap, j, "running").jobs
        /\ SetJob(snap, j, "running").jobs[j].status = "running"
    BY <1>3, <1>4, SetJobFacts
  <1>6. Stride(BeginRunning(SetJob(snap, j, "running")), snap, j, base)
    BY <1>2, <1>5 DEF Stride
  <1>7. \A k \in Steps : \A s : Stride(SetStep(snap, j, k, s), snap, j, base)
    BY SetStepFacts DEF Stride
  <1>8. [snap EXCEPT !.status = "blocked"].jobs = snap.jobs
    BY DEF Run
  <1>. QED
    BY <1>2, <1>5, <1>6, <1>7, <1>8 DEF Stride

LEMMA ParkStride ==
  ASSUME NEW snap \in Run, NEW j \in Jobs, NEW k \in Steps, NEW base
  PROVE  Stride(ParkWait(snap, j, k), snap, j, base) /\ ParkWait(snap, j, k).jobs[j].status = "waiting"
  <1>. DEFINE stepped == SetStep(snap, j, k, "waiting")
              parked == SetJob(stepped, j, "waiting")
  <1>0. "waiting" \in Status
    BY DEF Status
  <1>1. stepped \in Run
    BY <1>0, SetTypes
  <1>2. \A i \in Jobs \ {j} : stepped.jobs[i] = snap.jobs[i]
    BY SetStepFacts
  <1>. HIDE DEF stepped
  <1>3. parked \in Run
    BY <1>0, <1>1, SetTypes
  <1>4. parked.jobs[j].status = "waiting" /\ \A i \in Jobs \ {j} : parked.jobs[i] = stepped.jobs[i]
    BY <1>1, SetJobFacts
  <1>. HIDE DEF parked
  <1>5. ParkWait(snap, j, k).jobs = parked.jobs
    BY <1>3 DEF ParkWait, parked, stepped, Run
  <1>. QED
    BY <1>2, <1>4, <1>5 DEF Stride

\* What a worker writes and hands to an agent is a stride from its own snapshot; what it keeps
\* is that, as long as its job is not settled there, or the stored run it starts from.
WorkerStrides(t, j) ==
    LET w == worker[<<t, j>>]
        kept == worker'[<<t, j>>]
    IN  \/ store' = store /\ late' = late /\ kept.snap = NewRun /\ ~Midway(kept)
        \/ store' = store /\ late' = late /\ kept.snap = store /\ ~SettledJob(store.jobs[j])
        \/ /\ Midway(w)
           /\ \E run \in Run :
                /\ Stride(run, w.snap, j, Ripe)
                /\ \/ store' = MergeRun(store, run) /\ late' \subseteq late \cup {run}
                   \/ store' = store /\ late' = late /\ ~SettledJob(run.jobs[j])
                /\ \/ kept.snap = NewRun /\ ~Midway(kept)
                   \/ kept.snap = run /\ ~SettledJob(run.jobs[j])

LEMMA WorkerStridesOn ==
  ASSUME TypeInv, Judged, NEW t \in Ticks, NEW j \in Jobs,
         WorkerStep(t, j) \/ WFault(t, j) \/ WPanic(t, j) \/ AgentUpdate(t, j)
  PROVE  WorkerStrides(t, j)
  <1>. DEFINE w == worker[<<t, j>>]
              kept == worker'[<<t, j>>]
  <1>0. /\ w.snap \in Run /\ {"running", "skipped", "success", "failed", "waiting"} \subseteq Status
        /\ w.pc \in {"park", "exec", "unavailable"} => w.step \in Steps
        /\ Ripe \in SUBSET Jobs /\ Begun(w.snap) \subseteq Ripe
    BY WorkerType DEF Status, Ripe, Fed, Judged, AllGood, Good
  <1>1. ASSUME Midway(w) PROVE j \in Ripe /\ ~SettledJob(w.snap.jobs[j]) /\ Ripe \subseteq Fed(w.snap)
    <2>1. Busy(t, j)
      BY <1>1 DEF Midway, Busy
    <2>2. j \in Ripe /\ ~SettledJob(w.snap.jobs[j])
      BY <1>1, <2>1 DEF Judged, Hands
    <2>3. Ripe \subseteq Fed(w.snap)
      BY <1>1 DEF Ripe
    <2>. QED
      BY <2>2, <2>3
  <1>2. ASSUME Midway(w), NEW run \in Run, \A i \in Jobs \ {j} : run.jobs[i].status = w.snap.jobs[i].status
        PROVE  FailJob(run, j) \in Run /\ Stride(FailJob(run, j), w.snap, j, Ripe)
    BY <1>0, <1>1, <1>2, FailStride, FailJobType
  <1>3. \A pc : pc \in {"done", "err"} /\ WEnds(t, j, pc) => kept.snap = NewRun /\ ~Midway(kept)
    BY WEndsFacts DEF Midway
  <1>4. \A jr : jr.status \in {"running", "waiting"} => ~SettledJob(jr)
    BY DEF SettledJob, StatusRank
  <1>. DEFINE Writes(run) == store' = MergeRun(store, run) /\ late' \subseteq late \cup {run}
              Rests(run) == store' = store /\ late' = late /\ ~SettledJob(run.jobs[j])
              Ends == kept.snap = NewRun /\ ~Midway(kept)
              Keeps(run) == kept.snap = run /\ ~SettledJob(run.jobs[j])
  <1>5. ASSUME Midway(w), NEW run \in Run, Stride(run, w.snap, j, Ripe),
               Writes(run) \/ Rests(run), Ends \/ Keeps(run)
        PROVE  WorkerStrides(t, j)
    BY <1>5, Zenon DEF WorkerStrides
  <1>6. CASE WLaunch(t, j) \/ WStart(t, j) \/ WFault(t, j)
    <2>1. store' = store /\ late' = late
      BY <1>6 DEF WLaunch, WStart, WFault
    <2>2. CASE WLaunch(t, j)
      BY <2>1, <2>2, WGoesFacts DEF WLaunch, Midway, WorkerStrides
    <2>3. CASE WStart(t, j) /\ store.jobs[j].status \in {"queued", "pending", "running"}
      BY <2>1, <2>3, WGoesFacts DEF WStart, WorkerStrides, SettledJob, StatusRank
    <2>4. CASE WEnds(t, j, "done") \/ WEnds(t, j, "err")
      BY <1>3, <2>1, <2>4 DEF WorkerStrides
    <2>. QED
      BY <1>6, <2>2, <2>3, <2>4 DEF WStart, WFault
  <1>7. CASE WBegin(t, j)
    <2>. DEFINE running == BeginRunning(SetJob(w.snap, j, "running"))
                skipped == SetJob(w.snap, j, "skipped")
                failed == FailJob(w.snap, j)
    <2>1. Midway(w)
      BY <1>7 DEF WBegin, WAt, Midway
    <2>2. /\ running \in Run /\ Stride(running, w.snap, j, Ripe) /\ running.jobs[j].status = "running"
          /\ skipped \in Run /\ Stride(skipped, w.snap, j, Ripe)
          /\ failed \in Run /\ Stride(failed, w.snap, j, Ripe)
      BY <1>0, <1>2, <2>1, StrideFacts, SetTypes, BeginRunningType
    <2>3. /\ late' = late
          /\ \/ store' = MergeRun(store, running) /\ WGoes(t, j, "prepare", running, 1)
             \/ store' = MergeRun(store, skipped) /\ WEnds(t, j, "done")
             \/ store' = MergeRun(store, failed) /\ WEnds(t, j, "done")
      BY <1>7 DEF WBegin, Persist
    <2>. HIDE DEF running, skipped, failed
    <2>4. CASE store' = MergeRun(store, running) /\ WGoes(t, j, "prepare", running, 1)
      <3>1. Writes(running) /\ Keeps(running)
        BY <1>4, <2>2, <2>3, <2>4, WGoesFacts
      <3>. QED
        BY <1>5, <2>1, <2>2, <3>1
    <2>5. ASSUME NEW run \in {skipped, failed}, store' = MergeRun(store, run), WEnds(t, j, "done")
          PROVE  WorkerStrides(t, j)
      <3>1. Writes(run) /\ Ends
        BY <1>3, <2>3, <2>5
      <3>. QED
        BY <1>5, <2>1, <2>2, <3>1
    <2>. QED
      BY <2>3, <2>4, <2>5
  <1>8. CASE WPrepare(t, j) \/ WPanic(t, j)
    <2>1. Midway(w)
      BY <1>8 DEF WPrepare, WPanic, WAt, Midway
    <2>2. /\ late' = late
          /\ \/ store' = store /\ WGoes(t, j, "step", w.snap, 1)
             \/ /\ store' = MergeRun(store, FailJob(w.snap, j))
                /\ WEnds(t, j, "done") \/ WEnds(t, j, "err")
      BY <1>8 DEF WPrepare, WPanic, Persist
    <2>3. CASE store' = store /\ WGoes(t, j, "step", w.snap, 1)
      <3>1. Rests(w.snap) /\ Keeps(w.snap)
        BY <1>1, <2>1, <2>2, <2>3, WGoesFacts
      <3>. QED
        BY <1>0, <1>5, <2>1, <3>1, StrideFacts
    <2>4. CASE store' = MergeRun(store, FailJob(w.snap, j)) /\ (WEnds(t, j, "done") \/ WEnds(t, j, "err"))
      <3>1. Writes(FailJob(w.snap, j)) /\ Ends
        BY <1>3, <2>2, <2>4
      <3>. QED
        BY <1>0, <1>2, <1>5, <2>1, <3>1
    <2>. QED
      BY <2>2, <2>3, <2>4
  <1>9. CASE WSkipDone(t, j) \/ WParked(t, j) \/ AgentUpdate(t, j)
    <2>1. Midway(w)
      BY <1>9 DEF WSkipDone, WParked, AgentUpdate, WAt, Midway
    <2>2. Writes(w.snap) \/ Rests(w.snap)
      BY <1>1, <1>9, <2>1 DEF WSkipDone, WParked, AgentUpdate, Persist
    <2>3. Ends \/ Keeps(w.snap)
      BY <1>1, <1>3, <1>9, <2>1, WGoesFacts DEF WSkipDone, WParked, AgentUpdate
    <2>. QED
      BY <1>0, <1>5, <2>1, <2>2, <2>3, StrideFacts
  <1>10. CASE WPark(t, j)
    <2>. DEFINE parked == ParkWait(w.snap, j, w.step)
    <2>1. Midway(w) /\ w.step \in Steps
      BY <1>10, AtStepRange DEF WPark, WAt, AtStep, Midway
    <2>2. parked \in Run /\ Stride(parked, w.snap, j, Ripe) /\ parked.jobs[j].status = "waiting"
      <3>1. parked \in Run
        BY <1>0, <2>1, ParkWaitType
      <3>2. Stride(parked, w.snap, j, Ripe) /\ parked.jobs[j].status = "waiting"
        BY <1>0, <2>1, ParkStride
      <3>. QED
        BY <3>1, <3>2
    <2>3. store' = store /\ late' = late /\ WGoes(t, j, "park", parked, w.step)
      BY <1>10 DEF WPark
    <2>. HIDE DEF parked
    <2>4. Rests(parked) /\ Keeps(parked)
      BY <1>4, <2>2, <2>3, WGoesFacts
    <2>. QED
      BY <1>5, <2>1, <2>2, <2>4
  <1>11. CASE WBeginStep(t, j) \/ WStepOk(t, j)
    <2>1. Midway(w) /\ w.step \in Steps
      BY <1>0, <1>11, AtStepRange DEF WBeginStep, WStepOk, WAt, AtStep, Midway
    <2>2. PICK s \in {"running", "success"} :
               /\ store' = MergeRun(store, SetStep(w.snap, j, w.step, s))
               /\ \E pc, k : WGoes(t, j, pc, SetStep(w.snap, j, w.step, s), k)
      BY <1>11 DEF WBeginStep, WStepOk, Persist
    <2>. DEFINE run == SetStep(w.snap, j, w.step, s)
    <2>3. run \in Run /\ Stride(run, w.snap, j, Ripe) /\ run.jobs[j].status = w.snap.jobs[j].status
      <3>. HIDE DEF w
      <3>1. run \in Run
        BY <1>0, SetTypes
      <3>2. Stride(run, w.snap, j, Ripe)
        BY <1>0, <2>1, StrideFacts
      <3>3. run.jobs[j].status = w.snap.jobs[j].status
        BY <1>0, <2>1, SetStepFacts
      <3>. QED
        BY <3>1, <3>2, <3>3
    <2>4. kept.snap = run /\ late' = late
      BY <1>11, <2>2, WGoesFacts DEF WBeginStep, WStepOk
    <2>. HIDE DEF run
    <2>5. ~SettledJob(run.jobs[j])
      BY <1>1, <2>1, <2>3 DEF SettledJob
    <2>6. Writes(run) /\ Keeps(run)
      BY <2>2, <2>4, <2>5 DEF run
    <2>. QED
      BY <1>5, <2>1, <2>3, <2>6
  <1>12. CASE WStepFail(t, j)
    <2>. DEFINE stopped == SetStep(w.snap, j, w.step, "failed")
                failed == FailJob(stopped, j)
    <2>1. Midway(w) /\ w.step \in Steps
      BY <1>0, <1>12 DEF WStepFail, WAt, Midway
    <2>2. stopped \in Run /\ \A i \in Jobs \ {j} : stopped.jobs[i].status = w.snap.jobs[i].status
      BY SMTT(60), <1>0, <2>1, SetTypes, SetStepFacts
    <2>3. store' = MergeRun(store, failed) /\ WEnds(t, j, "done") /\ late' \subseteq late \cup {failed}
      BY <1>12 DEF WStepFail, Persist
    <2>. HIDE DEF stopped
    <2>4. failed \in Run /\ Stride(failed, w.snap, j, Ripe)
      BY <1>2, <2>1, <2>2
    <2>5. Writes(failed) /\ Ends
      BY <1>3, <2>3
    <2>. QED
      BY <1>5, <2>1, <2>4, <2>5
  <1>13. CASE WUnavailable(t, j)
    <2>. DEFINE parked == [w.snap EXCEPT !.status = "blocked"]
    <2>1. Midway(w)
      BY <1>13 DEF WUnavailable, WAt, Midway
    <2>2. parked \in Run /\ parked.jobs[j].status = w.snap.jobs[j].status /\ Stride(parked, w.snap, j, Ripe)
      BY <1>0, StrideFacts DEF Run, Status
    <2>3. /\ late' = late /\ WGoes(t, j, "unavailable", parked, w.step)
          /\ store' = store \/ store' = MergeRun(store, parked)
      BY <1>13 DEF WUnavailable, Persist
    <2>. HIDE DEF parked
    <2>4. ~SettledJob(parked.jobs[j])
      BY <1>1, <2>1, <2>2 DEF SettledJob
    <2>5. (Writes(parked) \/ Rests(parked)) /\ Keeps(parked)
      BY <2>3, <2>4, WGoesFacts
    <2>. QED
      BY <1>5, <2>1, <2>2, <2>5
  <1>14. CASE WSucceed(t, j)
    <2>. DEFINE done == SetJob(w.snap, j, "success")
    <2>1. Midway(w)
      BY <1>14 DEF WSucceed, WAt, Midway
    <2>2. done \in Run /\ Stride(done, w.snap, j, Ripe)
      BY <1>0, StrideFacts, SetTypes
    <2>3. late' = late /\ WEnds(t, j, "done") /\ store' = MergeRun(store, done)
      BY <1>14 DEF WSucceed, Persist
    <2>. HIDE DEF done
    <2>4. Writes(done) /\ Ends
      BY <1>3, <2>3
    <2>. QED
      BY <1>5, <2>1, <2>2, <2>4
  <1>. QED
    BY <1>6, <1>7, <1>8, <1>9, <1>10, <1>11, <1>12, <1>13, <1>14 DEF WorkerStep

\* A worker keeps the verdict sound: it gives none, it settles its own job, which is settled
\* nowhere, and the jobs it blocks are not ripe, hence in nobody else's hands.
LEMMA JudgedWorker ==
  ASSUME PassInv, TypeInv', LiveStore', Judged, NEW t \in Ticks, NEW j \in Jobs,
         WorkerStep(t, j) \/ WFault(t, j) \/ WPanic(t, j) \/ AgentUpdate(t, j)
  PROVE  Judged'
  <1>. DEFINE w == worker[<<t, j>>]
              kept == worker'[<<t, j>>]
  <1>0. /\ TypeInv /\ store \in Run /\ store' \in Run /\ w.snap \in Run
        /\ Good(store, store, Ripe) /\ Good(w.snap, store, Ripe) /\ Blame(store)
        /\ Good(NewRun, store, Ripe) /\ \A run \in late : Good(run, store, Ripe)
    BY WorkerType, NewRunGood DEF PassInv, TypeInv, TypeOK, Judged, AllGood
  <1>1. /\ Busy(t, j) /\ j \in Ripe /\ tick' = tick
        /\ \A x \in Ticks \X Jobs : x # <<t, j>> => worker'[x] = worker[x]
    BY <1>0, WorkerRest DEF Judged, Hands
  <1>2. tick[t].pc = "join"
    BY <1>0, WorkerRest DEF PassInv, Joined, TickAt
  <1>3. \A u \in Ticks, i \in Jobs : u # t => worker[<<u, i>>].pc = "idle"
    BY <1>2, OnlyPass
  <1>4. Told(store')
    BY <1>1, <1>2 DEF LiveStore, Told, Live, IsTerminal
  <1>. DEFINE Stays == /\ Agrees(store, store') /\ Good(store', store', Ripe) /\ Blame(store')
                       /\ \A run \in late' : Good(run, store', Ripe)
                       /\ Good(kept.snap, store', Ripe)
              Mine == Midway(kept) =>
                        /\ ~SettledJob(store'.jobs[j]) /\ ~SettledJob(kept.snap.jobs[j])
                        /\ kept.snap = store \/ (Midway(w) /\ Done(w.snap) \subseteq Done(kept.snap))
              Others == \A i \in Ripe : i # j /\ i \in Jobs /\ SettledJob(store'.jobs[i]) => SettledJob(store.jobs[i])
  <1>5. ASSUME store' = store, late' = late,
               (kept.snap = NewRun /\ ~Midway(kept)) \/ (kept.snap = store /\ ~SettledJob(store.jobs[j]))
        PROVE  Stays /\ Mine /\ Others
    BY <1>0, <1>5 DEF Agrees
  <1>6. ASSUME Midway(w), NEW run \in Run, Stride(run, w.snap, j, Ripe),
               \/ store' = MergeRun(store, run) /\ late' \subseteq late \cup {run}
               \/ store' = store /\ late' = late /\ ~SettledJob(run.jobs[j]),
               (kept.snap = NewRun /\ ~Midway(kept)) \/ (kept.snap = run /\ ~SettledJob(run.jobs[j]))
        PROVE  Stays /\ Mine /\ Others
    <2>1. ~SettledJob(store.jobs[j]) /\ ~SettledJob(w.snap.jobs[j])
      BY <1>6 DEF Judged, Hands
    <2>2. /\ Fit(run, store, Ripe) /\ Done(w.snap) \subseteq Done(run)
          /\ \A i \in Ripe : i # j => (i \in Jobs /\ SettledJob(run.jobs[i]) => SettledJob(store.jobs[i]))
          /\ ~SettledJob(run.jobs[j]) => Good(run, store, Ripe)
      BY <1>0, <1>1, <1>6, <2>1, StrideFits
    <2>3. CASE store' = MergeRun(store, run) /\ late' \subseteq late \cup {run}
      <3>1. Agrees(store, store') /\ Good(store', store', Ripe) /\ Good(run, store', Ripe) /\ Blame(store')
        BY <1>0, <2>2, <2>3, FitWrite
      <3>2. \A x : Good(x, store, Ripe) => Good(x, store', Ripe)
        BY <3>1, GoodKept
      <3>3. Stays
        BY <1>0, <1>6, <2>3, <3>1, <3>2
      <3>4. \A i \in Jobs : store'.jobs[i] \in {store.jobs[i], run.jobs[i]}
        BY <1>0, <1>6, <2>3, MergeJobs
      <3>5. Mine
        BY <1>6, <2>1, <2>2, <3>4
      <3>6. Others
        BY <2>2, <3>4
      <3>. QED
        BY <3>3, <3>5, <3>6
    <2>4. CASE store' = store /\ late' = late /\ ~SettledJob(run.jobs[j])
      BY <1>0, <1>6, <2>1, <2>2, <2>4 DEF Agrees
    <2>. QED
      BY <1>6, <2>3, <2>4
  <1>7. Stays /\ Mine /\ Others
    BY <1>0, <1>5, <1>6, WorkerStridesOn, Zenon DEF WorkerStrides
  <1>. HIDE DEF Mine
  <1>8. Midway(kept) => /\ ~SettledJob(store'.jobs[j]) /\ ~SettledJob(kept.snap.jobs[j])
                        /\ kept.snap = store \/ (Midway(w) /\ Done(w.snap) \subseteq Done(kept.snap))
    BY <1>7 DEF Mine
  <1>9. Ripe \subseteq Ripe'
    <2>1. ASSUME NEW x \in Ticks \X Jobs, Midway(worker'[x])
          PROVE  \/ worker'[x] = worker[x] \/ worker'[x].snap = store
                 \/ Midway(worker[x]) /\ Done(worker[x].snap) \subseteq Done(worker'[x].snap)
      BY <1>1, <1>8, <2>1
    <2>. QED
      BY <1>0, <1>1, <1>7, <2>1, RipeGrows
  <1>10. \A x : Good(x, store', Ripe) => Good(x, store', Ripe')
    BY <1>9 DEF Good
  <1>11. \A x : Good(x, store, Ripe) => Good(x, store', Ripe')
    BY <1>7, <1>9, GoodKept
  <1>12. AllGood'
    <2>1. \A u \in Ticks : tick'[u].pc # "record" => Good(tick'[u].snap, store', Ripe')
      BY <1>1, <1>11 DEF Judged, AllGood
    <2>2. ASSUME NEW x \in Ticks \X Jobs PROVE Good(worker'[x].snap, store', Ripe')
      BY <1>1, <1>7, <1>10, <1>11 DEF Judged, AllGood
    <2>. QED
      BY <1>7, <1>10, <2>1, <2>2 DEF AllGood
  <1>13. ASSUME NEW u \in Ticks, NEW i \in Jobs
         PROVE  /\ Busy(u, i)' => i \in Ripe'
                /\ Midway(worker'[<<u, i>>]) => /\ ~SettledJob(store'.jobs[i])
                                                /\ ~SettledJob(worker'[<<u, i>>].snap.jobs[i])
    <2>1. CASE u = t /\ i = j
      BY <1>1, <1>8, <1>9, <2>1
    <2>2. CASE <<u, i>> # <<t, j>>
      <3>1. worker'[<<u, i>>] = worker[<<u, i>>]
        BY <1>1, <2>2
      <3>2. Busy(u, i)' => i \in Ripe
        BY <3>1 DEF Judged, Hands, Busy
      <3>3. Midway(worker'[<<u, i>>]) => ~SettledJob(store.jobs[i]) /\ ~SettledJob(worker'[<<u, i>>].snap.jobs[i])
        BY <3>1 DEF Judged, Hands
      <3>4. Midway(worker'[<<u, i>>]) => i # j /\ i \in Ripe
        <4>1. Midway(worker'[<<u, i>>]) => worker[<<u, i>>].pc # "idle" /\ Busy(u, i)'
          BY <3>1 DEF Midway, Busy
        <4>2. u = t \/ worker[<<u, i>>].pc = "idle"
          BY <1>3
        <4>. QED
          BY <2>2, <3>2, <4>1, <4>2
      <3>. QED
        BY <1>7, <1>9, <3>2, <3>3, <3>4
    <2>. QED
      BY <2>1, <2>2
  <1>14. Hands'
    BY <1>13, Zenon DEF Hands
  <1>. QED
    BY <1>4, <1>7, <1>12, <1>14 DEF Judged

\* What is done besides the passes keeps the verdict sound: an agent that was given up writes
\* what the store agrees with, and recovery meets no worker.
LEMMA JudgedOther ==
  ASSUME PassInv, TypeInv', Uncancelled, LiveSnaps, Judged,
         ResumeWaits \/ TimePasses \/ LateUpdate \/ CancelRead \/ CancelPersist \/ RecoverStale \/ Crash
  PROVE  Judged'
  <1>0. /\ TypeInv /\ store \in Run /\ late \subseteq Run /\ Told(store)
        /\ Good(store, store, Ripe) /\ Good(NewRun, store, Ripe)
        /\ \A run \in late : Good(run, store, Ripe) /\ Live(run)
    BY NewRunGood DEF PassInv, TypeInv, TypeOK, LiveSnaps, Judged, AllGood
  <1>1. \A u \in Ticks, i \in Jobs : Midway(worker[<<u, i>>]) => ~SettledJob(store.jobs[i])
    BY DEF Judged, Hands
  <1>2. CASE ResumeWaits
    <2>1. /\ tick'["resume"].pc = "enter" /\ tick'["resume"].snap = NewRun
          /\ \A u \in Ticks : u # "resume" => tick'[u] = tick[u]
          /\ UNCHANGED <<store, worker, late>>
      BY <1>0, <1>2, TickGoesFacts DEF ResumeWaits, Ticks
    <2>2. ASSUME NEW u \in Ticks
          PROVE  tick'[u] = tick[u] \/ (Good(tick'[u].snap, store, Ripe) /\ tick'[u].pc # "decide")
      BY <1>0, <2>1
    <2>. QED
      BY <1>0, <1>1, <2>1, <2>2, JudgedKept
  <1>3. CASE TimePasses \/ CancelRead
    <2>1. UNCHANGED <<store, tick, worker, late>>
      BY <1>3 DEF TimePasses, CancelRead
    <2>. QED
      BY <1>0, <1>1, <2>1, JudgedKept
  <1>4. CASE LateUpdate
    <2>1. PICK run \in late : store' = MergeRun(store, run) /\ late' \subseteq late
      BY <1>4 DEF LateUpdate, Persist
    <2>2. UNCHANGED <<worker, tick>>
      BY <1>4 DEF LateUpdate
    <2>3. run \in Run /\ Good(run, store, Ripe) /\ Live(run)
      BY <1>0
    <2>4. Fit(run, store, Ripe)
      BY <2>3, GoodFits
    <2>5. Told(store')
      BY <1>0, <2>1, <2>3, <2>4, MergeSettled, ToldMerge DEF Fit
    <2>6. \A i \in Jobs : SettledJob(store'.jobs[i]) => SettledJob(store.jobs[i])
      <3>1. \A i \in Jobs : store'.jobs[i] \in {store.jobs[i], run.jobs[i]}
        BY <1>0, <2>1, <2>3, MergeJobs
      <3>2. \A i \in Jobs : SettledJob(run.jobs[i]) => SettledJob(store.jobs[i])
        BY <2>3 DEF Good, Agrees, SettledJob
      <3>. QED
        BY <3>1, <3>2
    <2>7. \A u \in Ticks, i \in Jobs : Midway(worker'[<<u, i>>]) => ~SettledJob(store'.jobs[i])
      BY <1>1, <2>2, <2>6
    <2>. QED
      BY <1>0, <2>1, <2>2, <2>3, <2>4, <2>5, <2>7, JudgedKept
  <1>5. CASE CancelPersist
    BY <1>0, <1>5, BudgetTypes DEF CancelPersist, PassInv, Spent, Uncancelled
  <1>6. CASE RecoverStale
    <2>. DEFINE stale == StaleFailed(store)
    <2>1. store' = MergeRun(store, stale) /\ UNCHANGED <<tick, worker, late>>
      BY <1>6 DEF RecoverStale, Persist
    <2>2. stale \in Run /\ stale.status = store.status /\ Fit(stale, store, Ripe)
      BY <1>0, StaleFit, StaleFailedType, LiveFacts
    <2>. HIDE DEF stale
    <2>3. Told(store')
      BY <1>0, <2>1, <2>2, MergeSettled, ToldMerge DEF Fit
    <2>4. ASSUME NEW u \in Ticks, NEW i \in Jobs PROVE ~Midway(worker'[<<u, i>>])
      <3>1. tick[u].pc = "idle"
        BY <1>6 DEF RecoverStale, PassInv, Spent, TickAt
      <3>2. worker[<<u, i>>].pc = "idle"
        BY <3>1 DEF PassInv, Joined, TickAt, WAt
      <3>. QED
        BY <2>1, <3>2 DEF Midway
    <2>. QED
      BY <1>0, <2>1, <2>2, <2>3, <2>4, JudgedKept
  <1>7. CASE Crash
    <2>1. /\ \A u \in Ticks : tick'[u].pc = "idle" /\ tick'[u].snap = NewRun
          /\ \A x \in Ticks \X Jobs : worker'[x] = NoWorker
          /\ store' = store /\ late' = {}
      BY <1>7 DEF Crash, NoTick
    <2>2. ASSUME NEW u \in Ticks, NEW i \in Jobs PROVE ~Midway(worker'[<<u, i>>])
      BY <2>1 DEF NoWorker, Midway
    <2>. QED
      BY <1>0, <2>1, <2>2, JudgedKept
  <1>. QED
    BY <1>2, <1>3, <1>4, <1>5, <1>6, <1>7

\* A failed run stays failed: whoever gives another verdict has a live run before him.
LEMMA FailedStays ==
  ASSUME PassInv, Uncancelled, LiveSnaps, LiveStore, store.status = "failed", [Next]_vars
  PROVE  store'.status = "failed"
  <1>0. TypeInv /\ store \in Run /\ ~Live(store) /\ late \subseteq Run
    BY DEF PassInv, TypeInv, TypeOK, Live, IsTerminal
  <1>1. ASSUME NEW run \in Run, Live(run) \/ run.status = "failed", store' = MergeRun(store, run)
        PROVE  store'.status = "failed"
    <2>1. run.status \in Status /\ StatusRank("failed") = 5
      BY DEF Run, StatusRank
    <2>2. Live(run) => StatusRank(run.status) \in 1 .. 4
      BY <2>1 DEF Live, IsTerminal, Status, StatusRank
    <2>3. MergeStatus("failed", run.status) = "failed"
      BY <1>1, <2>1, <2>2 DEF MergeStatus, Yields
    <2>. QED
      BY <1>1, <2>3 DEF MergeRun
  <1>2. ASSUME NEW t \in Ticks, TickStep(t) \/ TickFault(t) PROVE store'.status = "failed"
    <2>1. tick[t].snap \in Run /\ tick[t].pc # "decide"
      BY <1>0 DEF TypeInv, TypeOK, LiveStore
    <2>2. CASE TickWake(t) \/ RecordPersist(t)
      <3>1. store' = store \/ store' = MergeRun(store, tick[t].snap)
        BY <2>2 DEF TickWake, RecordPersist, Persist
      <3>2. Live(tick[t].snap) \/ tick[t].snap.status = "failed"
        BY DEF LiveSnaps
      <3>. QED
        BY <1>1, <2>1, <3>1, <3>2
    <2>3. CASE TickEnter(t) \/ TickLoop(t) \/ TickJoin(t) \/ RecordRead(t) \/ TickFault(t)
      BY <2>3 DEF TickEnter, TickLoop, TickJoin, RecordRead, TickFault
    <2>. QED
      BY <1>2, <2>1, <2>2, <2>3 DEF TickStep, TickClaim, TickFinalize, TickAt
  <1>3. ASSUME NEW t \in Ticks, NEW j \in Jobs,
               WorkerStep(t, j) \/ WFault(t, j) \/ WPanic(t, j) \/ AgentUpdate(t, j)
        PROVE  FALSE
    BY <1>0, <1>3, WorkerRest DEF PassInv, Joined, TickAt, LiveStore
  <1>4. CASE LateUpdate
    BY <1>0, <1>1, <1>4 DEF LateUpdate, Persist, LiveSnaps
  <1>5. CASE RecoverStale
    <2>1. StaleFailed(store) \in Run /\ StaleFailed(store).status = "failed"
      BY <1>0, StaleFailedType, LiveFacts
    <2>. QED
      BY <1>1, <1>5, <2>1 DEF RecoverStale, Persist
  <1>6. CASE ResumeWaits \/ TimePasses \/ CancelRead \/ Crash \/ UNCHANGED vars
    BY <1>6 DEF ResumeWaits, TimePasses, CancelRead, Crash, vars
  <1>7. CASE CancelPersist
    BY <1>0, <1>7, BudgetTypes DEF CancelPersist, PassInv, Spent, Uncancelled
  <1>. QED
    BY <1>2, <1>3, <1>4, <1>5, <1>6, <1>7 DEF Next, Environment

\* Every step keeps it.
LEMMA VerdictStep == ASSUME PassInv, LiveInv, VerdictInv, [Next]_vars PROVE VerdictInv'
  <1>. SUFFICES ASSUME Uncancelled', ~GivenUp' PROVE Judged'
    BY DEF VerdictInv
  <1>0. TypeInv /\ TypeInv'
    BY NextType DEF PassInv
  <1>1. Uncancelled /\ LiveSnaps /\ LiveStore /\ LiveStore'
    BY <1>0, WatchedBefore, LiveStep DEF LiveInv
  <1>2. Judged
    <2>1. budget' = budget \/ Spend("faults") \/ Spend("cancels") \/ Spend("crashes")
      <3>1. CASE UNCHANGED vars
        BY <3>1 DEF vars
      <3>2. CASE Crash
        BY <3>2 DEF Crash
      <3>. QED
        BY <1>0, <3>1, <3>2, TickRest, WorkerRest, OtherRest DEF Next, Environment
    <2>2. budget'.faults <= budget.faults
      BY <1>0, <2>1, BudgetTypes, SpendFacts
    <2>3. GivenUp => GivenUp'
      <3>1. store.status = "failed" => store'.status = "failed"
        BY <1>1, FailedStays
      <3>2. budget.faults \in Nat /\ budget'.faults \in Nat /\ MaxFaults \in Nat
        BY <1>0, ExecAssumption DEF TypeInv, TypeOK
      <3>. QED
        BY <2>2, <3>1, <3>2 DEF GivenUp
    <2>. QED
      BY <1>1, <2>3 DEF VerdictInv
  <1>3. CASE UNCHANGED vars
    BY <1>2, <1>3 DEF vars, Judged, AllGood, Hands, Ripe, Busy
  <1>. QED
    BY <1>0, <1>1, <1>2, <1>3, JudgedTick, JudgedClaim, JudgedWorker, JudgedOther DEF Next, Environment

\* It holds at the start.
LEMMA VerdictInit == Init => VerdictInv
  <1>. SUFFICES ASSUME Init PROVE Judged
    BY DEF VerdictInv
  <1>1. /\ store = NewRun /\ late = {}
        /\ \A t \in Ticks : tick[t].snap = NewRun
        /\ \A x \in Ticks \X Jobs : worker[x].pc = "idle" /\ worker[x].snap = NewRun
    BY DEF Init, NoTick, NoWorker
  <1>2. AllGood
    BY <1>1, NewRunGood DEF AllGood
  <1>3. ASSUME NEW u \in Ticks, NEW i \in Jobs PROVE ~Busy(u, i) /\ ~Midway(worker[<<u, i>>])
    BY <1>1 DEF Busy, Midway
  <1>4. Hands
    BY <1>3, Zenon DEF Hands
  <1>. QED
    BY <1>1, <1>2, <1>4, NewRunGood DEF Judged

\* Barring a cancel, a run that ended as a success has only jobs that succeeded or were
\* skipped, and one that ended as a failure has a failed job, unless the scheduler itself
\* met an error (Finalize, recordAsyncFailure): what a pass decides on a snapshot that
\* other goroutines have long written past still holds for the stored run.
THEOREM VerdictTrue == ASSUME PassesApart PROVE Spec => []VerdictSound
  <1>1. PassInv /\ LiveInv /\ [Next]_vars => LiveInv'
    BY LiveStep
  <1>2. PassInv /\ LiveInv /\ VerdictInv /\ [Next]_vars => VerdictInv'
    BY VerdictStep
  <1>3. PassInv /\ VerdictInv => VerdictSound
    <2>. SUFFICES ASSUME Uncancelled, ~GivenUp => Told(store)
                  PROVE  /\ store.status = "success" => JobsIn(store, {"success", "skipped"}) = Jobs
                         /\ store.status = "failed" => JobsIn(store, {"failed"}) # {} \/ budget.faults < MaxFaults
      BY DEF VerdictSound, VerdictInv, Judged, Uncancelled
    <2>. QED
      BY DEF GivenUp, Told, Has, JobsIn
  <1>. QED
    BY <1>1, <1>2, <1>3, LiveInit, VerdictInit, PassInvariance, PTL DEF Spec

----------------------------------------------------------------------------
(* A run parked as blocked.                                                *)

\* The run is parked as blocked and the goroutines that worked on it are gone; a pass that
\* resumeWaits has just begun is the only one that may be about to look at it.
AtRest ==
    /\ store.status = "blocked"
    /\ TickAt("start", "idle") /\ tick["resume"].pc \in {"idle", "enter"}
    /\ \A t \in Ticks, j \in Jobs : ~Busy(t, j)
    /\ canceller.pc = "idle" /\ late = {}

\* Only a Cancel touches a run that its goroutines left blocked: no due wait, pass, crash or
\* restart changes the run, its lock row or what was begun (ParkBlocked, Tick, RecoverStale).
BlockedForGood ==
    [][AtRest /\ canceller'.pc = "idle" => AtRest' /\ UNCHANGED <<store, row, ran>>]_vars

\* A worker that is not at work can neither take a step nor fail, panic or update.
LEMMA IdleWorker ==
  ASSUME NEW t \in Ticks, NEW j \in Jobs, ~Busy(t, j)
  PROVE  ~WorkerStep(t, j) /\ ~WFault(t, j) /\ ~WPanic(t, j) /\ ~AgentUpdate(t, j)
  <1>1. worker[<<t, j>>].pc \in {"idle", "done", "err"}
    BY DEF Busy
  <1>2. ~WLaunch(t, j) /\ ~WStart(t, j) /\ ~WBegin(t, j) /\ ~WPrepare(t, j)
    BY <1>1 DEF WLaunch, WStart, WBegin, WPrepare, WAt
  <1>3. ~WSkipDone(t, j) /\ ~WPark(t, j) /\ ~WParked(t, j) /\ ~WBeginStep(t, j)
    BY <1>1 DEF WSkipDone, WPark, WParked, WBeginStep, WAt
  <1>4. ~WStepOk(t, j) /\ ~WStepFail(t, j) /\ ~WUnavailable(t, j) /\ ~WSucceed(t, j)
    BY <1>1 DEF WStepOk, WStepFail, WUnavailable, WSucceed, WAt
  <1>5. ~WFault(t, j) /\ ~WPanic(t, j) /\ ~AgentUpdate(t, j)
    BY <1>1 DEF WFault, WPanic, AgentUpdate, WAt
  <1>. QED
    BY <1>2, <1>3, <1>4, <1>5 DEF WorkerStep

\* A pass that finds the run blocked ends without a write (the switch at the head of Tick).
LEMMA BlockedTick ==
  ASSUME TypeInv, AtRest, NEW t \in Ticks, TickStep(t) \/ TickFault(t)
  PROVE  TickEnds(t) /\ UNCHANGED <<store, row, worker, canceller, late, ran>>
  <1>1. tick["start"].pc = "idle" /\ tick["resume"].pc \in {"idle", "enter"}
    BY DEF AtRest, TickAt
  <1>2. t \in {"start", "resume"}
    BY DEF Ticks
  <1>3. ~TickWake(t) /\ ~TickLoop(t) /\ ~TickClaim(t) /\ ~TickFinalize(t)
    BY <1>1, <1>2 DEF TickWake, TickLoop, TickClaim, TickFinalize, TickAt
  <1>4. ~TickJoin(t) /\ ~RecordRead(t) /\ ~RecordPersist(t)
    BY <1>1, <1>2 DEF TickJoin, RecordRead, RecordPersist, TickAt
  <1>5. CASE TickEnter(t)
    <2>1. store.status = "blocked"
      BY DEF AtRest
    <2>. QED
      BY <1>5, <2>1 DEF TickEnter
  <1>6. CASE TickFault(t)
    <2>1. t = "resume"
      BY <1>1, <1>2, <1>6 DEF TickFault
    <2>. QED
      BY <1>6, <2>1 DEF TickFault, TickErrs
  <1>. QED
    BY <1>3, <1>4, <1>5, <1>6 DEF TickStep

\* RecoverStale passes a run over that is not running.
LEMMA BlockedRecovers ==
  ASSUME TypeInv, AtRest, RecoverStale
  PROVE  store' = store
  <1>1. store.status = "blocked" /\ store \in Run
    BY DEF AtRest, TypeInv, TypeOK
  <1>2. store' = MergeRun(store, store)
    BY <1>1 DEF RecoverStale, Persist, StaleFailed
  <1>3. MergeStatus(store.status, store.status) = store.status
    BY Zenon DEF MergeStatus
  <1>4. \A j \in Jobs : MergeJobRun(store.jobs[j], store.jobs[j]) = store.jobs[j]
    BY Zenon DEF MergeJobRun
  <1>5. /\ store'.status = store.status /\ store'.wakeAt = store.wakeAt
        /\ store'.jobs = [j \in Jobs |-> store.jobs[j]]
    BY <1>2, <1>3, <1>4 DEF MergeRun
  <1>6. store.jobs = [j \in Jobs |-> store.jobs[j]]
    BY <1>1 DEF Run
  <1>7. store' \in Run
    BY <1>1, <1>2, MergeRunType
  <1>. QED
    BY <1>1, <1>5, <1>6, <1>7 DEF Run

\* Every step but a Cancel leaves the run as it is, and at rest.
LEMMA BlockedStep ==
  ASSUME TypeInv, AtRest, [Next]_vars, canceller'.pc = "idle"
  PROVE  AtRest' /\ UNCHANGED <<store, row, ran>>
  <1>1. /\ store.status = "blocked" /\ tick["start"].pc = "idle"
        /\ tick["resume"].pc \in {"idle", "enter"}
        /\ \A t \in Ticks, j \in Jobs : worker[<<t, j>>].pc \in {"idle", "done", "err"}
        /\ canceller.pc = "idle" /\ late = {}
    BY DEF AtRest, TickAt, Busy
  <1>2. /\ tick \in [Ticks -> [pc : TickPC, snap : Run]]
        /\ "start" \in Ticks /\ "resume" \in Ticks
    BY DEF TypeInv, TypeOK, Ticks
  <1>. DEFINE StillAtRest == /\ tick'["start"].pc = "idle" /\ tick'["resume"].pc \in {"idle", "enter"}
                             /\ \A t \in Ticks, j \in Jobs :
                                   worker'[<<t, j>>].pc \in {"idle", "done", "err"}
                             /\ late' = {}
  <1>3. SUFFICES StillAtRest /\ UNCHANGED <<store, row, ran>>
    BY <1>1 DEF AtRest, TickAt, Busy
  <1>4. CASE UNCHANGED vars
    BY <1>1, <1>4 DEF vars
  <1>5. CASE \E t \in Ticks : TickStep(t) \/ TickFault(t)
    <2>1. PICK t \in Ticks : TickEnds(t) /\ UNCHANGED <<store, row, worker, canceller, late, ran>>
      BY <1>5, BlockedTick
    <2>2. tick' = [tick EXCEPT ![t] = NoTick] /\ NoTick.pc = "idle"
      BY <2>1 DEF TickEnds, NoTick
    <2>3. tick'["start"].pc = "idle" /\ tick'["resume"].pc \in {"idle", "enter"}
      BY <1>1, <1>2, <2>2
    <2>. QED
      BY <1>1, <2>1, <2>3
  <1>6. CASE \E t \in Ticks, j \in Jobs : WorkerStep(t, j) \/ WFault(t, j) \/ WPanic(t, j) \/ AgentUpdate(t, j)
    BY <1>6, IdleWorker DEF AtRest
  <1>7. CASE ResumeWaits
    <2>1. TickGoes("resume", "enter", NewRun) /\ UNCHANGED <<store, row, worker, late, ran>>
      BY <1>7 DEF ResumeWaits
    <2>2. tick'["start"].pc = "idle" /\ tick'["resume"].pc = "enter"
      BY <1>1, <1>2, <2>1 DEF TickGoes
    <2>. QED
      BY <1>1, <2>1, <2>2
  <1>8. CASE TimePasses
    BY <1>1, <1>8 DEF TimePasses
  <1>9. CASE CancelPersist \/ CancelRead \/ LateUpdate
    BY <1>1, <1>9 DEF CancelPersist, CancelRead, LateUpdate
  <1>10. CASE RecoverStale
    <2>1. store' = store /\ UNCHANGED <<row, tick, worker, late, ran>>
      BY <1>10, BlockedRecovers DEF RecoverStale
    <2>. QED
      BY <1>1, <2>1
  <1>11. CASE Crash
    <2>1. /\ tick' = [t \in Ticks |-> NoTick] /\ worker' = [w \in Ticks \X Jobs |-> NoWorker]
          /\ late' = {} /\ UNCHANGED <<store, row, ran>>
      BY <1>11 DEF Crash
    <2>2. NoTick.pc = "idle" /\ NoWorker.pc = "idle"
      BY DEF NoTick, NoWorker
    <2>. QED
      BY <1>2, <2>1, <2>2
  <1>. QED
    BY <1>4, <1>5, <1>6, <1>7, <1>8, <1>9, <1>10, <1>11 DEF Next, Environment

\* A run that runUses parked as blocked stays blocked once its goroutines are gone, and so
\* does its concurrency lock row: no due wait, no pass, no crash and no restart changes
\* either, only a call of Cancel (ParkBlocked, Tick, resumeWaits, RecoverStale).
THEOREM BlockedStays == Spec => BlockedForGood
  <1>1. TypeInv /\ [Next]_vars => [AtRest /\ canceller'.pc = "idle" => AtRest' /\ UNCHANGED <<store, row, ran>>]_vars
    BY BlockedStep
  <1>. QED
    BY <1>1, TypeInvariance, PTL DEF Spec, BlockedForGood

============================================================================

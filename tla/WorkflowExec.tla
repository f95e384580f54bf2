--------------------------- MODULE WorkflowExec ---------------------------
(***************************************************************************)
(* Execution of one workflow run by application/automation/execution.go.   *)
(*                                                                         *)
(* The actors are goroutines that share nothing but the stored run:        *)
(*   Tick "start"  - the scheduling pass StartRun or StartRunAsync begins  *)
(*   Tick "resume" - the pass resumeWaits runs when a wait record is due   *)
(*   a worker per pass and job (runJob), which keeps its own snapshot of   *)
(*                   the run for as long as the job lasts                  *)
(*   a caller of Cancel, and agent goroutines that outlive their step      *)
(* Reads are whole snapshots; every write is persist, a merge of the       *)
(* writer's snapshot into the stored run under the run's mutex.  One       *)
(* action is what a goroutine does between two accesses to shared state.   *)
(*                                                                         *)
(* A pc names the next thing its goroutine does.  A snapshot nobody will   *)
(* read again is reset to NewRun.                                          *)
(***************************************************************************)
EXTENDS WorkflowRun

CONSTANTS
    Async,        \* the first pass runs detached, under runTickAsync
    MaxJobs,      \* the semaphore of one pass
    MaxFaults,    \* bound: store errors and panics
    MaxCancels,   \* bound: calls of Cancel
    MaxCrashes,   \* bound: process crashes
    PromptPark    \* environment: a pass that parks a job is over before the instant passes

ASSUME ExecAssumption ==
    /\ Async \in BOOLEAN /\ PromptPark \in BOOLEAN
    /\ MaxJobs \in Nat \ {0}
    /\ MaxFaults \in Nat /\ MaxCancels \in Nat /\ MaxCrashes \in Nat

VARIABLES
    store,      \* the run in the run store (durable)
    waits,      \* pending wait records per wait step (durable)
    row,        \* the run's concurrency lock row (durable)
    due,        \* the wait steps whose instant has passed
    tick,       \* the scheduling passes
    worker,     \* the runJob goroutines
    canceller,  \* the caller of Cancel
    late,       \* snapshots held by agent goroutines whose step was given up
    held,       \* heldLocks has an entry for the run (in memory)
    up,         \* the process is running
    ran,        \* history: how often the work of a step was begun
    budget      \* what is left of the faults, cancels and crashes

vars == <<store, waits, row, due, tick, worker, canceller, late, held, up, ran, budget>>

Ticks == {"start", "resume"}
TickPC == {"idle", "enter", "wake", "loop", "decide", "join", "failed", "record"}
WorkerPC == {"idle", "launch", "start", "begin", "prepare", "step", "park", "exec",
             "unavailable", "done", "err"}

NoTick == [pc |-> "idle", snap |-> NewRun]
NoWorker == [pc |-> "idle", snap |-> NewRun, step |-> 1]
NoCaller == [pc |-> "idle", snap |-> NewRun]

TypeOK ==
    /\ store \in Run
    /\ waits \in [Jobs \X Steps -> Nat]
    /\ row \in BOOLEAN /\ held \in BOOLEAN /\ up \in BOOLEAN
    /\ due \subseteq Jobs \X Steps
    /\ tick \in [Ticks -> [pc : TickPC, snap : Run]]
    /\ worker \in [Ticks \X Jobs -> [pc : WorkerPC, snap : Run, step : 1 .. MaxSteps + 1]]
    /\ canceller \in [pc : {"idle", "read"}, snap : Run]
    /\ late \subseteq Run
    /\ ran \in [Jobs \X Steps -> Nat]
    /\ budget \in [faults : Nat, cancels : Nat, crashes : Nat]

Init ==
    /\ store = NewRun
    /\ waits = [s \in Jobs \X Steps |-> 0]
    /\ row = TRUE /\ held = TRUE /\ up = TRUE
    /\ due = {}
    /\ tick = [t \in Ticks |-> IF t = "start" THEN [NoTick EXCEPT !.pc = "enter"] ELSE NoTick]
    /\ worker = [w \in Ticks \X Jobs |-> NoWorker]
    /\ canceller = NoCaller
    /\ late = {}
    /\ ran = [s \in Jobs \X Steps |-> 0]
    /\ budget = [faults |-> MaxFaults, cancels |-> MaxCancels, crashes |-> MaxCrashes]

Persist(run) == store' = MergeRun(store, run)

\* releaseConcurrencyLock: only a lock this process tracks is released.
Release ==
    /\ held' = FALSE
    /\ row' = (row /\ ~held)

Spend(what) == budget[what] > 0 /\ budget' = [budget EXCEPT ![what] = @ - 1]

----------------------------------------------------------------------------
(* The scheduling pass: Tick, maybeFinalize, runTickAsync.                 *)

TickAt(t, pc) == tick[t].pc = pc
TickGoes(t, pc, snap) == tick' = [tick EXCEPT ![t] = [pc |-> pc, snap |-> snap]]
TickEnds(t) == tick' = [tick EXCEPT ![t] = NoTick]

TickErrsSilently(t) == TickEnds(t)

\* Only the detached first pass has somebody to record its error.
TickErrs(t) == IF t = "start" /\ Async THEN TickGoes(t, "failed", NewRun) ELSE TickEnds(t)

TickEnter(t) ==
    /\ TickAt(t, "enter")
    /\ \/ /\ \/ IsTerminal(store.status) \/ store.status = "blocked"
             \/ store.status = "waiting" /\ store.wakeAt # NoWake /\ store.wakeAt \notin due
          /\ TickEnds(t)
       \/ /\ store.status = "waiting" /\ (store.wakeAt = NoWake \/ store.wakeAt \in due)
          /\ TickGoes(t, "wake", WakeWaitingRun(store))
       \/ /\ store.status \in {"queued", "pending", "running"}
          /\ TickGoes(t, "loop", NewRun)
    /\ UNCHANGED <<store, waits, row, due, worker, canceller, late, held, up, ran, budget>>

TickWake(t) ==
    /\ TickAt(t, "wake")
    /\ Persist(tick[t].snap)
    /\ TickGoes(t, "loop", NewRun)
    /\ UNCHANGED <<waits, row, due, worker, canceller, late, held, up, ran, budget>>

TickLoop(t) ==
    /\ TickAt(t, "loop")
    /\ IF IsTerminal(store.status) \/ store.status = "blocked"
       THEN TickEnds(t) ELSE TickGoes(t, "decide", store)
    /\ UNCHANGED <<store, waits, row, due, worker, canceller, late, held, up, ran, budget>>

TickClaim(t) ==
    LET ready == ReadyJobs(tick[t].snap)
    IN  /\ TickAt(t, "decide")
        /\ ready # {}
        /\ Persist(ClaimJobs(tick[t].snap, ready))
        /\ worker' = [w \in Ticks \X Jobs |-> IF w[1] = t /\ w[2] \in ready
                                              THEN [NoWorker EXCEPT !.pc = "launch"] ELSE worker[w]]
        /\ TickGoes(t, "join", NewRun)
        /\ UNCHANGED <<waits, row, due, canceller, late, held, up, ran, budget>>

\* maybeFinalize: the lock goes when the pass's own snapshot became terminal.
TickFinalize(t) ==
    LET final == Finalize(tick[t].snap)
    IN  /\ TickAt(t, "decide")
        /\ ReadyJobs(tick[t].snap) = {}
        /\ Persist(final)
        /\ IF IsTerminal(final.status) THEN Release ELSE UNCHANGED <<row, held>>
        /\ TickEnds(t)
        /\ UNCHANGED <<waits, due, worker, canceller, late, up, ran, budget>>

TickJoinFirst(t) ==
    /\ TickAt(t, "join")
    /\ \E j \in Jobs : worker[<<t, j>>].pc \in {"done", "err"}
    /\ IF \E j \in Jobs : worker[<<t, j>>].pc = "err" THEN TickErrs(t) ELSE TickGoes(t, "loop", NewRun)
    /\ UNCHANGED <<store, waits, row, due, worker, canceller, late, held, up, ran, budget>>

TickJoin(t) ==
    /\ TickAt(t, "join")
    /\ \A j \in Jobs : worker[<<t, j>>].pc \in {"idle", "done", "err"}
    /\ IF \E j \in Jobs : worker[<<t, j>>].pc = "err" THEN TickErrs(t) ELSE TickGoes(t, "loop", NewRun)
    /\ worker' = [w \in Ticks \X Jobs |-> IF w[1] = t THEN NoWorker ELSE worker[w]]
    /\ UNCHANGED <<store, waits, row, due, canceller, late, held, up, ran, budget>>

TickFault(t) ==
    /\ tick[t].pc \in {"enter", "wake", "loop", "decide"}
    /\ Spend("faults")
    /\ TickErrs(t)
    /\ UNCHANGED <<store, waits, row, due, worker, canceller, late, held, up, ran>>

\* recordAsyncFailure reads the run ...
RecordRead(t) ==
    /\ TickAt(t, "failed")
    /\ \/ /\ IF IsTerminal(store.status) THEN TickEnds(t) ELSE TickGoes(t, "record", FailAll(store))
          /\ UNCHANGED budget
       \/ Spend("faults") /\ TickEnds(t)
    /\ UNCHANGED <<store, waits, row, due, worker, canceller, late, held, up, ran>>

\* ... and writes it back failed; the lock is released even when the write fails.
RecordPersist(t) ==
    /\ TickAt(t, "record")
    /\ \/ Persist(tick[t].snap) /\ UNCHANGED budget
       \/ Spend("faults") /\ UNCHANGED store
    /\ Release
    /\ TickEnds(t)
    /\ UNCHANGED <<waits, due, worker, canceller, late, up, ran>>

----------------------------------------------------------------------------
(* The worker: runJob, parkWait, runUses, failJob.                         *)

WAt(t, j, pc) == worker[<<t, j>>].pc = pc
WGoes(t, j, pc, snap, k) == worker' = [worker EXCEPT ![<<t, j>>] = [pc |-> pc, snap |-> snap, step |-> k]]
WEnds(t, j, pc) == worker' = [worker EXCEPT ![<<t, j>>] = [NoWorker EXCEPT !.pc = pc]]

Launched(t) == {j \in Jobs : worker[<<t, j>>].pc \notin {"idle", "launch", "done", "err"}}

WLaunch(t, j) ==
    /\ WAt(t, j, "launch")
    /\ Cardinality(Launched(t)) < MaxJobs
    /\ WGoes(t, j, "start", NewRun, 1)
    /\ UNCHANGED <<store, waits, row, due, tick, canceller, late, held, up, ran, budget>>

WStart(t, j) ==
    /\ WAt(t, j, "start")
    /\ IF store.jobs[j].status \in {"queued", "pending", "running"}
       THEN WGoes(t, j, "begin", store, 1)
       ELSE WEnds(t, j, "done")
    /\ UNCHANGED <<store, waits, row, due, tick, canceller, late, held, up, ran, budget>>

\* The if: condition holds, does not hold, or cannot be evaluated.
WBegin(t, j) ==
    LET snap == worker[<<t, j>>].snap
        running == BeginRunning(SetJob(snap, j, "running"))
    IN  /\ WAt(t, j, "begin")
        /\ \/ Persist(running) /\ WGoes(t, j, "prepare", running, 1)
           \/ /\ j \in Conditional
              /\ \/ Persist(SetJob(snap, j, "skipped"))
                 \/ Persist(FailJob(snap, j))
              /\ WEnds(t, j, "done")
        /\ UNCHANGED <<waits, row, due, tick, canceller, late, held, up, ran, budget>>

WPrepare(t, j) ==
    LET snap == worker[<<t, j>>].snap
    IN  /\ WAt(t, j, "prepare")
        /\ \/ WGoes(t, j, "step", snap, 1) /\ UNCHANGED store
           \/ Persist(FailJob(snap, j)) /\ WEnds(t, j, "done")
        /\ UNCHANGED <<waits, row, due, tick, canceller, late, held, up, ran, budget>>

\* The head of the loop over the steps: skip what an earlier pass finished.
WSkipDone(t, j) ==
    LET w == worker[<<t, j>>]
    IN  /\ WAt(t, j, "step")
        /\ w.step <= Len(Kind[j])
        /\ IsTerminal(w.snap.jobs[j].steps[w.step])
        /\ WGoes(t, j, "step", w.snap, w.step + 1)
        /\ UNCHANGED <<store, waits, row, due, tick, canceller, late, held, up, ran, budget>>

AtStep(t, j, kinds) ==
    LET w == worker[<<t, j>>]
    IN  /\ w.step <= Len(Kind[j])
        /\ Kind[j][w.step] \in kinds

DropWait(j, k) == UNCHANGED waits
PutWait(j, k) == waits' = [waits EXCEPT ![<<j, k>>] = @ + 1]

\* parkWait: the wait record first ...
WPark(t, j) ==
    LET w == worker[<<t, j>>]
    IN  /\ WAt(t, j, "step")
        /\ AtStep(t, j, {"wait"})
        /\ ~IsTerminal(w.snap.jobs[j].steps[w.step])
        /\ <<j, w.step>> \notin due
        /\ PutWait(j, w.step)
        /\ WGoes(t, j, "park", ParkWait(w.snap, j, w.step), w.step)
        /\ UNCHANGED <<store, row, due, tick, canceller, late, held, up, ran, budget>>

\* ... then the parked run.
WParked(t, j) ==
    /\ WAt(t, j, "park")
    /\ Persist(worker[<<t, j>>].snap)
    /\ WEnds(t, j, "done")
    /\ UNCHANGED <<waits, row, due, tick, canceller, late, held, up, ran, budget>>

WBeginStep(t, j) ==
    LET w == worker[<<t, j>>]
        running == SetStep(w.snap, j, w.step, "running")
    IN  /\ WAt(t, j, "step")
        /\ AtStep(t, j, StepKinds)
        /\ ~IsTerminal(w.snap.jobs[j].steps[w.step])
        /\ AtStep(t, j, {"wait"}) => <<j, w.step>> \in due
        /\ Persist(running)
        /\ ran' = IF AtStep(t, j, {"wait"}) THEN ran ELSE [ran EXCEPT ![<<j, w.step>>] = @ + 1]
        /\ WGoes(t, j, "exec", running, w.step)
        /\ UNCHANGED <<waits, row, due, tick, canceller, late, held, up, budget>>

WStepOk(t, j) ==
    LET w == worker[<<t, j>>]
        done == SetStep(w.snap, j, w.step, "success")
    IN  /\ WAt(t, j, "exec")
        /\ Persist(done)
        /\ WGoes(t, j, "step", done, w.step + 1)
        /\ UNCHANGED <<waits, row, due, tick, canceller, late, held, up, ran, budget>>

\* The step failed; an agent that was given up keeps the snapshot it updates.
WStepFail(t, j) ==
    LET w == worker[<<t, j>>]
        failed == FailJob(SetStep(w.snap, j, w.step, "failed"), j)
    IN  /\ WAt(t, j, "unavailable") \/ (WAt(t, j, "exec") /\ ~AtStep(t, j, {"wait"}))
        /\ Persist(failed)
        /\ \/ UNCHANGED late
           \/ AtStep(t, j, {"agent"}) /\ late' = late \cup {failed}
        /\ WEnds(t, j, "done")
        /\ UNCHANGED <<waits, row, due, tick, canceller, held, up, ran, budget>>

\* runUses: the capability is unavailable; the run is parked, then the step fails.
WUnavailable(t, j) ==
    LET w == worker[<<t, j>>]
        parked == [w.snap EXCEPT !.status = "blocked"]
    IN  /\ WAt(t, j, "exec")
        /\ AtStep(t, j, {"uses"})
        /\ \/ Persist(parked) /\ UNCHANGED budget
           \/ Spend("faults") /\ UNCHANGED store
        /\ WGoes(t, j, "unavailable", parked, w.step)
        /\ UNCHANGED <<waits, row, due, tick, canceller, late, held, up, ran>>

WSucceed(t, j) ==
    LET w == worker[<<t, j>>]
    IN  /\ WAt(t, j, "step")
        /\ w.step > Len(Kind[j])
        /\ Persist(SetJob(w.snap, j, "success"))
        /\ WEnds(t, j, "done")
        /\ UNCHANGED <<waits, row, due, tick, canceller, late, held, up, ran, budget>>

\* A store error ends the worker with the snapshot it could not write.
WFault(t, j) ==
    /\ worker[<<t, j>>].pc \in {"start", "begin", "prepare", "step", "park", "exec", "unavailable"}
    /\ Spend("faults")
    /\ WEnds(t, j, "err")
    /\ UNCHANGED <<store, waits, row, due, tick, canceller, late, held, up, ran>>

\* The executor, an agent or a capability panics: runJob recovers and fails the job.
WPanic(t, j) ==
    /\ worker[<<t, j>>].pc \in {"prepare", "exec"}
    /\ Spend("faults")
    /\ Persist(FailJob(worker[<<t, j>>].snap, j))
    /\ WEnds(t, j, "err")
    /\ UNCHANGED <<waits, row, due, tick, canceller, late, held, up, ran>>

\* onUpdate: a running agent step persists the worker's snapshot as it is.
AgentUpdate(t, j) ==
    /\ WAt(t, j, "exec")
    /\ AtStep(t, j, {"agent"})
    /\ Persist(worker[<<t, j>>].snap)
    /\ UNCHANGED <<waits, row, due, tick, worker, canceller, late, held, up, ran, budget>>

LateUpdate ==
    /\ \E run \in late :
        /\ Persist(run)
        /\ late' \in {late, late \ {run}}
    /\ UNCHANGED <<waits, row, due, tick, worker, canceller, held, up, ran, budget>>

----------------------------------------------------------------------------
(* Waits, cancellation, time, crashes.                                     *)

\* resumeWaits claims a due record, then ticks the run before the next record.
ResumeWaits ==
    /\ up /\ TickAt("resume", "idle")
    /\ \E s \in due :
        /\ waits[s] > 0
        /\ waits' = [waits EXCEPT ![s] = @ - 1]
    /\ TickGoes("resume", "enter", NewRun)
    /\ UNCHANGED <<store, row, due, worker, canceller, late, held, up, ran, budget>>

TimePasses ==
    /\ PromptPark => \/ \A s \in WaitSteps : waits[s] = 0
                     \/ \A t \in Ticks : TickAt(t, "idle")
    /\ \E s \in WaitSteps \ due : due' = due \cup {s}
    /\ UNCHANGED <<store, waits, row, tick, worker, canceller, late, held, up, ran, budget>>

CancelRead ==
    /\ up /\ canceller.pc = "idle"
    /\ Spend("cancels")
    /\ canceller' = [pc |-> "read", snap |-> Cancel(store)]
    /\ UNCHANGED <<store, waits, row, due, tick, worker, late, held, up, ran>>

CancelPersist ==
    /\ canceller.pc = "read"
    /\ \/ Persist(canceller.snap) /\ Release /\ UNCHANGED budget
       \/ Spend("faults") /\ UNCHANGED <<store, row, held>>
    /\ canceller' = NoCaller
    /\ UNCHANGED <<waits, due, tick, worker, late, up, ran>>

Crash ==
    /\ up /\ Spend("crashes")
    /\ up' = FALSE /\ held' = FALSE
    /\ tick' = [t \in Ticks |-> NoTick]
    /\ worker' = [w \in Ticks \X Jobs |-> NoWorker]
    /\ canceller' = NoCaller
    /\ late' = {}
    /\ UNCHANGED <<store, waits, row, due, ran>>

\* The boot sequence: RecoverStale, after which FireDue runs again.
RecoverStale ==
    /\ ~up
    /\ up' = TRUE
    /\ Persist(StaleFailed(store))
    /\ UNCHANGED <<waits, row, due, tick, worker, canceller, late, held, ran, budget>>

----------------------------------------------------------------------------
TickStep(t) ==
    \/ TickEnter(t) \/ TickWake(t) \/ TickLoop(t) \/ TickClaim(t) \/ TickFinalize(t)
    \/ TickJoin(t) \/ RecordRead(t) \/ RecordPersist(t)

WorkerStep(t, j) ==
    \/ WLaunch(t, j) \/ WStart(t, j) \/ WBegin(t, j) \/ WPrepare(t, j) \/ WSkipDone(t, j)
    \/ WPark(t, j) \/ WParked(t, j) \/ WBeginStep(t, j) \/ WStepOk(t, j) \/ WStepFail(t, j)
    \/ WUnavailable(t, j) \/ WSucceed(t, j)

Environment ==
    \/ \E t \in Ticks : TickFault(t)
    \/ \E t \in Ticks, j \in Jobs : WFault(t, j) \/ WPanic(t, j) \/ AgentUpdate(t, j)
    \/ LateUpdate \/ CancelRead \/ Crash

Next ==
    \/ \E t \in Ticks : TickStep(t)
    \/ \E t \in Ticks, j \in Jobs : WorkerStep(t, j)
    \/ ResumeWaits \/ TimePasses \/ CancelPersist \/ RecoverStale
    \/ Environment

Spec == Init /\ [][Next]_vars

\* Goroutines keep running, steps return, the FireDue ticker keeps ticking,
\* the clock advances and a crashed process is started again.
Fairness ==
    /\ \A t \in Ticks : WF_vars(TickStep(t))
    /\ \A t \in Ticks, j \in Jobs : WF_vars(WorkerStep(t, j))
    /\ WF_vars(ResumeWaits) /\ WF_vars(TimePasses)
    /\ WF_vars(CancelPersist) /\ WF_vars(RecoverStale)

FairSpec == Spec /\ Fairness

----------------------------------------------------------------------------
(* Properties.                                                             *)

Busy(t, j) == worker[<<t, j>>].pc \notin {"idle", "done", "err"}
Executing(t, j) == worker[<<t, j>>].pc \in {"exec", "unavailable"}

\* Dependencies first (Tick, ReadyJobs): from the moment a job is handed to a worker,
\* each of its needs has left queued, running and waiting for good in the store,
\* whatever stale snapshots other goroutines write back.
NeedsSettled ==
    \A t \in Ticks, j \in Jobs : Busy(t, j) =>
        \A d \in Needs[j] : StatusRank(store.jobs[d].status) >= 4

\* The side effects of a step happen at most once in a run, across pauses, faults and
\* restarts (runJob: "never re-run side effects").  A resumed pass that overlaps the pass
\* that parked the job is excluded by PromptPark; README 7 has what it does.
StepAtMostOnce == \A s \in Jobs \X Steps : ran[s] <= 1

\* persist never resurrects: once the stored run, or a stored job, is success,
\* failed, cancelled or expired it stays one of these.
FinishedStays ==
    [][/\ StatusRank(store.status) = 5 => StatusRank(store'.status) = 5
       /\ \A j \in Jobs : StatusRank(store.jobs[j].status) = 5
                          => StatusRank(store'.jobs[j].status) = 5]_vars

JobsRanked(rank) == {j \in Jobs : StatusRank(store.jobs[j].status) >= rank}

Promise == INSTANCE DagPromise WITH
    active <- {j \in Jobs : \E t \in Ticks : Busy(t, j)},
    settled <- JobsRanked(4),
    finished <- JobsRanked(5),
    over <- StatusRank(store.status) = 5

\* The engine keeps its promise: Tick hands out no job before its needs are settled in
\* the store, and no persist takes back what the store has settled (DagPromise).
PromiseKept == Promise!Spec

\* Barring a Cancel, the verdict says what happened (Finalize): success means every job
\* succeeded or was skipped; failed means some job failed, or the scheduler itself met
\* an error.
VerdictSound ==
    budget.cancels = MaxCancels =>
        /\ store.status = "success" => JobsIn(store, {"success", "skipped"}) = Jobs
        /\ store.status = "failed" => JobsIn(store, {"failed"}) # {} \/ budget.faults < MaxFaults

\* Barring a Cancel and a second error, a terminal run has no work in flight, and work is
\* only in flight under the run's concurrency lock (maybeFinalize).  recordAsyncFailure is
\* what a second error can hit: it releases the lock although its write failed.
QuiescentWhenTerminal ==
    budget.cancels = MaxCancels /\ budget.faults + 1 >= MaxFaults =>
        \A t \in Ticks, j \in Jobs : Executing(t, j) => ~IsTerminal(store.status) /\ row

Unharmed == budget.faults = MaxFaults /\ budget.crashes = MaxCrashes

\* Barring faults and crashes, a parked run can be woken: a wait record is pending, or a
\* goroutine that will see the run is still at work (parkWait, resumeWaits).  PromptPark
\* excludes that the record falls due before the parked run is written.
ParkedHasWake ==
    Unharmed /\ store.status = "waiting" =>
        \/ \E s \in WaitSteps : waits[s] > 0
        \/ \E t \in Ticks : tick[t].pc # "idle"

\* Barring crashes, every run of a workflow whose conditional jobs continue on error, and
\* which never pauses, reaches a verdict, whatever fails or is cancelled, or is parked on an
\* unavailable capability.  For pauses see EndsUnlessHarmed; a skipped need without
\* continue_on_error leaves its dependents queued for ever (README 7).
EventuallyEnds ==
    <>(IsTerminal(store.status) \/ store.status = "blocked" \/ budget.crashes < MaxCrashes)

\* Barring faults and crashes, and under PromptPark, every pause is resumed and the run
\* reaches its verdict.
EndsUnlessHarmed == <>(IsTerminal(store.status) \/ store.status = "blocked" \/ ~Unharmed)
============================================================================

# NusaShell: verification of the automation engine, the agent turn and what runs around it

NusaShell is a local agent shell: a Go core (`application/`, `domain/`, `infrastructure/`)
with a web/desktop front end.  Three parts of it carry the concurrency.  The automation
engine runs workflow definitions (DAGs of jobs made of steps) on schedules and events, in
goroutines that share a SQLite store.  The agent turn works on a chat room, which users,
other rooms, background jobs and automations change meanwhile, behind three locks.  Around
the turn run subagents and learning jobs, and an event bus and run
streams tell the clients what happens.  Their failures are silent: a workflow that never
finishes, runs twice or overlaps itself, a message that disappears, a room that is busy for
ever, a screen that shows an old state.  This directory models these parts in TLA+, checks
them with TLC and proves central properties of the engine and of the bus with TLAPS.

## 1. Inventory

### The automation engine

| Part | Source | State | Operations |
|---|---|---|---|
| run model | `domain/run.go`, `workflow_run.go`, `dag.go` | a run: status, wake time, per job and step a status | transitions (park, wake, cancel, finalize, ...), `ReadyJobs`, `BlockedByFailure`, `MergeRun` |
| execution | `application/automation/execution.go` | stored runs; per goroutine a private snapshot of the run; `cancels` | `StartRun(Async)`, `Tick`, `runJob`, `parkWait`, `runUses`, `failJob`, `maybeFinalize`, `Cancel`, `RecoverStale`, `recordAsyncFailure`, `persist` |
| concurrency lock | `application/automation/concurrency.go` | lock row per key (durable); `heldLocks`, `queueByKey`, waiter channels (memory, under `lockMu`) | `startUnderConcurrency`, `acquireAndStart`, `enqueueRun`, `awaitQueueSlot`, `releaseConcurrencyLock`, `detachConcurrencyLock`, `wakeNextWaiter`, `abandonQueuedRun` |
| trigger scheduler | `application/automation/scheduler.go`, `domain/schedule.go`, `trigger.go`, `event.go` | pending schedules, wait records, event deliveries, cooldown times | `EnableWorkflow`, `DisableWorkflow`, `FireDue`, `resumeWaits`, `IngestEvent`, `startFromTrigger` |
| store | `infrastructure/automation/sqlite_store.go` | the tables behind all of these | single statements, no transaction across two of them |

How they interact.  `cmd/nusashell/main.go` calls `RecoverStale` at boot, then a ticker
calls `FireDue`; each MCP notification calls `IngestEvent` on a goroutine of its own, so
triggers are concurrent.  A trigger ends in `startUnderConcurrency`, which drops, queues
or starts the run; a started run is executed by a scheduling pass (`Tick`) on a detached
goroutine.  A pass claims all ready jobs, starts a worker per job (bounded by a
semaphore), joins them, and repeats until no job is ready; then it finalizes.  A worker
that meets a `wait_until` step stores a wait record, parks the run and returns; later
`FireDue` consumes the record and runs a second pass.  Whoever makes the run terminal
releases the lock, which wakes the next waiter of the key.

What is hard.  Goroutines do not share the run: each reads a snapshot, works on it and
writes it *whole* back through `persist`, which merges it into the stored run by status
rank.  Everything depends on what that merge does with stale snapshots.  A pass of a
resumed run can overlap the pass that parked it.  The lock is looked at and taken in two
statements.  Steps can fail or panic, the store can fail between any two writes, agents
can outlive their step, users can cancel at any moment, and the process can crash between
any two writes.

What makes it correct.  Dependencies first; a step's side effects at most once; the
verdict matches the jobs and is final; nothing finished is resurrected; a terminal run has
no work in flight; every run ends and every pause is resumed, also after a restart; the
runs of a key do not overlap; the queue is FIFO, bounded, and drains.

### The agent turn

| Part | Source (`application/agent/` unless said) | State | Operations |
|---|---|---|---|
| room | `domain/conversation.go`, `application/conversation/repository.go` | status idle or running, queue of announcements, transcript; loaded and saved *whole* | `QueueAnnouncement`, `DrainPendingAnnouncements`, `recoverRunningTurn`, `Add`, `Save` |
| starts | `agent_turn_handlers.go`, `background.go` | registry of runs (`runsMu`), `startMu`, the room's turn lock | `HandleTurnsStart`, `startIdleConversationTurn` |
| turn | `agent_turn_run.go`, `agentengine.go`, `conversation_agent_rules.go`, `agent_round_*.go` | the run: steer slot, queue of background results, cancellation | `RunTurn`, the rounds, `finishTurn`, `FailTurn`, `InterruptTurn`, `RecoverOrphanedTurn`, auto-continue |
| publishers | `announcement.go`, `peer_message.go`, `automation_wake.go`, `background.go` | announcement lock; tracked background runs | `queueAnnouncement`, `DeliverPeerMessage`, `DeliverAutomationWake`, `DeliverRunDone` |
| compaction | `manual_compaction.go`, `agent_compaction.go` | set of rooms being compacted | `HandleConversationsCompact`, `PersistCompactedConversation` |

How they interact.  A turn is started by a user or by a wake (a peer message, an automation
event, a finished background job, the cleanup of the previous turn).  Its goroutine holds
the turn lock to the end.  At every round boundary it completes queued background results,
drains the announcements and applies a queued steer; when nothing was injected it ends, and
perhaps continues by itself on open todos.  Publishers hold only the announcement lock.

What is hard.  Everybody loads the room, changes a copy and saves it whole, under locks that
do not exclude each other.  A message can arrive between a turn's last drain and its removal
from the registry.  Saves fail, tools panic, the process dies, the user stops the turn in
the middle of a question.

What makes it correct.  One turn at a time; nothing injected twice; nothing accepted is
lost; the room is released however the turn ends; a stopped turn ends; a peer message is
answered whenever it arrives; a steer is applied or visibly cancelled.

### Subagents, background work and their audience

| Part | Source | State | Operations |
|---|---|---|---|
| event bus | `application/bus.go`, `transport/ws.go` | subscribers, each with a bounded channel, a list of critical events and a pump | `Subscribe`, `Publish`, `publish`, `deliver`, `close`; the websocket's writer |
| ACP runs | `infrastructure/acp/runtime.go`, `client/client.go`, `application/subagent/spawn.go`, `completion.go` | pool of agent processes; runs with prompt, queued steer, status; tracked runs of the parent | `Spawn`, `ensureConn`, `drivePrompt`, `Steer`, `Stop`, `OnRunDone` |
| delegate runs | `application/subagent/delegate_runtime.go` | one run: transcript, dirty flag and timer, heartbeat, done channel | `Spawn`, `exec`, `appendTranscript`, `attachConversation`, `updateActivity`, `flushDelegateEmit`, `finish`, `Wait`, `Stop`, `Close` |
| run streams | `application/subagent/runstream.go`, `transport/stream.go` | per conversation: last frame of each run, pending updates, subscribers with a small buffer | `publish`, `flushPending`, `Subscribe`, `unsubscribe`, `pruneLocked` |
| background processes | `infrastructure/tools/exec_registry.go`, `exec.go` | registered processes, slots per conversation, wait loops, timeouts | `add`, spawn, `waitLoop`, `terminate`, `close` (read, not modelled) |
| learning | `application/learn/` | active jobs, job and experience rows, the conversation's cursor | `RecordExperience`, `RunLearningJob`, `AdvanceLearningCursor`, deletion, `RecoverStaleLearningJobs` |

How they interact.  A tool call of a turn spawns subagents and processes and tracks them as
pending; each ends on a goroutine of its own, which hands the result to the parent's turn or
wakes the room (`TurnLifecycle`).  Every change of a run is snapshot under the run's lock and
published after it, through two coalescing timers, to the streams.  The end of a turn counts
unreviewed messages and queues a learning job, which reads the transcript without a lock and
moves the cursor under the turn lock.

What is hard.  Snapshots overtake each other between the lock and the stream.  Steer, stop,
timeout and natural end race for the same run or process, and messages to an external
process cannot be called back.  Readers stop reading.  Processes die, or leave somebody
behind that holds their output.  A compaction renumbers what a cursor points into.

What makes it correct.  Order is kept and nothing critical is lost on the way to a reader;
nobody blocks a publisher; an ended run stays ended and its result reaches the parent once;
caps hold under parallel spawns; kill and shutdown return and are effective; every message is
reviewed once.

### The rest of the repository

`PROJECT.json` lists every part.  With control worth modelling: pairing.  Not worth a model
here: provider clients, file and web tools, media and speech, plugins and MCP plumbing,
memory (heuristics over text and files), settings, logs, telemetry, pets, the front end.

## 2. Plan

Done: `WorkflowRun`, `WorkflowExec`, `ConcurrencyKey`; `TriggerScheduler`; the abstract
`DagPromise` and the refinement, model-checked and proved; `TurnLifecycle` with announcement
queue, steering, background results, auto-continue and compaction; `EventBus` and the
abstract `LossyFifo`, the refinement model-checked and proved; `RunStream`, `AcpRun`,
`DelegateRun`, `LearnJob`.

Most safety properties are proved for every value of the constants; section 8 names those that
are not.

Left, in this order:

1. `DagAlgorithms`: `BuildDAG`, `findCycle`, `topological` and the walk of
   `BlockedByFailure` as the code performs it, against the reachability definition used in
   `WorkflowRun`, over all graphs of up to four jobs.
2. Compositions: `WorkflowExec` with `ConcurrencyKey` (a run parked as blocked keeps its
   key), `DelegateRun` as a producer of `RunStream`, two rooms of `TurnLifecycle` that
   message each other.
3. The queue of a key: order of the waiters, and that each leaves it (by its signal or by its
   timeout).  `RunStream` with two runs, where the cap evicts one.
4. Background processes (`exec_registry.go`): slots, hard timeout, kill, shutdown.  Pairing.

## 3. Modules

**`WorkflowRun`** – the pure part.  A run is a record of status, wake time and, per job,
status, step statuses and whether a heartbeat was recorded.  The operators carry the names
of the Go functions.  `MergeRun` is the merge; `StatusRank` its order; `Yields` the
exception that lets a parked run be woken.  `BlockedByFailure` is stated as the least set
of open dependents closed under "needs", which is what the code's walk computes.  The
definition (`Jobs`, `Needs`, `Kind`, flags) is a parameter; cyclic graphs are excluded by
`BuildDAG` in the code and by the choice of instances here (the proofs do not need it).

**`WorkflowExec`** – one run and the goroutines around it.  State: the stored run, its wait
records and its lock row (durable); two scheduling passes, `start` and `resume`; a worker
per pass and job with its private snapshot and position; a caller of `Cancel`; snapshots
of agents that outlived their step.  An action is what a goroutine does between two
accesses to shared state, so the interleavings are those of the code:

| Code | Actions |
|---|---|
| `Tick` | `TickEnter`, `TickWake`, `TickLoop`, `TickClaim`, `TickJoin`, `TickFault` |
| `maybeFinalize` | `TickFinalize` |
| `recordAsyncFailure` | `RecordRead`, `RecordPersist` |
| `runJob` | `WLaunch` ... `WSucceed`, `WFault`, `WPanic`, `AgentUpdate`, `LateUpdate` |
| `parkWait` | `WPark` (wait record), `WParked` (parked run) |
| `runUses` on an unavailable capability | `WUnavailable`, then `WStepFail` |
| `resumeWaits` | `ResumeWaits` |
| `Cancel` | `CancelRead`, `CancelPersist` |
| crash and boot | `Crash`, `RecoverStale` |

**`ConcurrencyKey`** – one rendered key and the runs that want it.  Each run has a starter
(`startUnderConcurrency` on the trigger's goroutine), possibly a waiter, an execution, a
release and a caller of `Cancel`.  An action is one database statement or one critical
section of `lockMu`.  Every run carries the policy of its workflow, since workflows may
render to the same key; `allow` takes no lock and is left out.

**`DagPromise`** – what the engine promises, without its goroutines: four variables (jobs
being worked on, settled jobs, finished jobs, whether the run is over); jobs are handed out
in groups whose needs are settled, and the record only grows.  `WorkflowExec` instantiates
it with `active` = the jobs some worker holds, `settled`, `finished`, `over` = what the
stored run says; `PromiseKept` is its specification under that mapping.

**`TriggerScheduler`** – all workflows behind one scheduler, over the tables the SQLite store
keeps.  Goroutines: the `FireDue` ticker, one in `EnableWorkflow` or `DisableWorkflow` (a
user's request, or `DiscoverPipelines` at boot), one per ingested event.  An action is one
statement.

| Code | Actions |
|---|---|
| `NextFire`, `CronSpec.Next` | `NextFire`, `FirstFrom`, `CronNext` |
| `DiscoverPipelines`, the request handlers | `Discover`, `CallUser` |
| `EnableWorkflow`, `DisableWorkflow`, `cancelWorkflowSchedules` | `AdmPut`, `AdmList`, `AdmCancel`, `AdmRegister`, `AdmRegistered`, `AdmUndo`, `AdmFault` |
| `FireDue`, `resumeWaits` | `FireList`, `FireClaim`, `FireGet`, `FireStart`, `FireReschedule`, `FireWaits`, `FireResume`, `FireTicked`, `FireFault` |
| `IngestEvent`, `startFromTrigger` | `IngestList`, `IngestCheck`, `IngestRecord`, `IngestStart`, `IngestStartFails`, `IngestRollback`, `IngestTouch`, `IngestFault` |

Instants are whole minutes, and a calendar is the multiples of a period; the fields of a cron
expression and time zones are left out.  A start is one step with the outcomes run created,
dropped by the concurrency policy, capability blocked, failed before or after the run was
stored; the inside of that step is `ConcurrencyKey` and `WorkflowExec`.

**`TurnLifecycle`** – one room.  Goroutines: a user starting a turn, the wakes, the
publishers, the deliverers of background jobs, the turn goroutines, steering requests, a
manual compaction.  The locks `startMu`, `turnLock` and `annLock` are variables with their
holder.  A load-modify-save is two actions, a load that takes a snapshot and a save that
writes the changed snapshot, except where all three locks, or turn and announcement lock, are
held and the state cannot change between them.  `clash` records that a save overwrote a
change its snapshot had not seen.

| Code | Actions |
|---|---|
| `HandleTurnsStart`, `AddTurnMessages` | `UserStart`, `UserLoad`, `UserSave` |
| `startIdleConversationTurn` | `WakeEnter`, `WakeTurn`, `WakeGo` |
| `queueAnnouncement`, `DeliverPeerMessage`, `DeliverAutomationWake` | `PubLoad`, `PubSave` |
| `DeliverRunDone` | `JobDone`, `JobLoad`, `JobSave` |
| `RunTurn`, `RunTurnChain` | `TurnEnter`, `TurnChain`, `TurnCleanup`, `TurnRecover`, `TurnUnlock`, `TurnWake` |
| rounds | `TurnStream`, `TurnCompact`, `TurnLoad`, `TurnPersist`, `TurnTools`, `TurnAskEnds`, `AskAnswer`, `TurnResults`, `TurnComplete`, `TurnCompleted`, `TurnDrain`, `TurnSteer`, `TurnSteered`, `TurnSettle` |
| `finishTurn`, `FailTurn`, `InterruptTurn`, `discardQueuedSteer`, `DecideAutoContinue` | `TurnFinish`, `TurnDiscard`, `TurnDecide` |
| errors and panics | `TurnFault`, `TurnPanic`, and a branch in every other save |
| stop, steer, cancel-steer | `UserStop`, `SteerLook`, `SteerQueue`, `CancelSteer` |
| manual compaction | `CmpStart`, `CmpLoad`, `CmpRefresh`, `CmpSave`, `CmpFault`, `CmpClear` |
| crash and restart | `Crash` |

The transcript holds only what the properties tell apart: injected announcements, results
and steers.  Archived messages count as part of it.  A compaction in the middle of a tool
round saves the room as one before a request does.  Every announcement is distinct, so the
suppression of identical pending ones does not arise.  The room has its first user message
(`HasDurableAnchor`) and a provider.

**`LossyFifo`** – what a subscription to the bus promises: order, no loss of critical events
while it is open, nothing more.  **`EventBus`** – any number of publishers and subscribers.
The bus lock is explicit (publishers hold its read side, an unsubscribe its write side until
the pump has ended); a section under a subscriber's mutex is one action; the channel, the
token of the pump and the event in its hands are separate, so that a publisher can overtake,
block or send too late if the code let it.  `FifoKept` maps channel, pump and list, in this
order, to the queue of `LossyFifo`.

**`RunStream`** – the producers of ACP runs (spawn, first prompt, session updates with the
runtime's coalescing timer, mode changes and steers, end, stop), the snapshots in flight, the
registry with its own coalescing timer, and the handlers of subscribers.  An operation of the
registry is one critical section; what it does is a function of the registry record, with the
names of the Go functions (`Prune`, `Accepted`, `Emit`, `EmitPending`).  A snapshot is its
version, its `UpdatedAt` and whether it is live.

**`AcpRun`** – spawns of one agent in one workspace (one place in the pool), the prompt
goroutines, calls of `Steer` and `Stop`, the agent process, and the way back: `emitDone`,
`OnRunDone`, the parent's queue of results and its turn.  The agent may end a prompt in any
way, answer a cancel late, or die.

| Code | Actions |
|---|---|
| `Spawn`, `ensureConn`, `SpawnSubagents` | `SpawnCheck`, `SpawnLookup`, `SpawnDial`, `SpawnPool`, `SpawnSession`, `SpawnLaunch`, `SpawnReturn`, `SpawnTrack` |
| `drivePrompt` | `DriveBegin`, `DriveSend`, `DriveAnswer`, `DriveEmit` |
| `Steer`, `Stop` | `SteerAccept`, `SteerCancel`, `SteerDirect`; `StopCancel`, `StopFinish`, `StopEmit` |
| `DeliverRunDone`, `ApplyQueuedRunResults` | `DeliverQueued`, `DeliverIdle`, `TurnTakes`; `TurnEnds`, `TurnStarts` |
| the agent's process | `AgentExit` |

**`DelegateRun`** – one internal delegate: `exec` with its headless turn, chunks, the refresh
from the stored conversation, heartbeat, coalescing timer, `finish`, and callers of `Wait` and
`Stop` (which looks at the run and cancels it in two steps).  A timer that fired before it was
stopped keeps its callback.  The disarm in `finish` turns out to be redundant: `updateActivity`
disarmed the timer just before, and nothing marks the run dirty in between.

**`LearnJob`** – one conversation: turns append messages and end, a job captures the
unreviewed range, has it reviewed, saves its row and moves the cursor; compactions, failing
saves, panics, restarts and deletions come in between.  Notices and renames load the whole
conversation and save it later, without the turn lock, over whatever was stored meanwhile
(`CopyLoad`, `CopySave`).  Messages are numbers, a summary is 0.

**`MC...`** – one per component, with the definitions its `.cfg` files need: the DAGs
of `MCWorkflowExec`, the triggers of `MCTriggerScheduler`, the announcements of
`MCTurnLifecycle`, the symmetry of `MCConcurrencyKey`.  **`...Proofs`** – theorems about the
module of that name, with the inductive invariants and lemmas they need: `WorkflowExecProofs`,
`ConcurrencyKeyProofs`, `TriggerSchedulerProofs`, `TurnLifecycleProofs`, `EventBusProofs`,
`AcpRunProofs`, `LearnJobProofs`, `RunStreamProofs`.  The last one holds the proofs about
`DelegateRun` as well: both are about what is published of subagent runs.  It extends both
modules, so their names differ (`DelegateSpec`, `DelegateNext`, `emitted` for what was shown).

Abstractions.  Outputs, logs, webhooks, emitted events, conversation ids and timestamps
carry no control.  The outcome of a condition, a step or an executor is a choice.  An
instant of a wait step is a member of `due` once it has passed.  A context cancellation
only makes a step end sooner, which the choice of outcomes already allows.  Workers of a
pass are launched in any order.  A snapshot nobody reads again is reset, which merges
states that behave alike.  Errors that leave no trace (a failed read in `Cancel`, a failed
claim of a wait record) are stuttering steps.  `RecoverStale` has no failing write: with no
heartbeat ever recorded it changes nothing.  In `ConcurrencyKey` a run is absent, live or
ended, and a started run eventually ends; one that parks as blocked does not (section 9).

## 4. Runs

| Run | Instance | What it shows |
|---|---|---|
| `WorkflowExec_dag` | fork of four jobs, one optional agent job with a condition, one capability job; detached; a store error or panic, a cancel, a crash with restart; fair | `NeedsSettled`, `FinishedStays` and the refinement `PromiseKept` survive all of it; barring a cancel the verdict matches the jobs (`VerdictSound`); barring a cancel and a second error a terminal run has no work in flight (`QuiescentWhenTerminal`); barring a crash every run ends (`EventuallyEnds`) |
| `WorkflowExec_pause` | chain of two jobs, each with a wait; synchronous start; an error, a cancel, a crash; fair | `TypeOK`, `StepAtMostOnce`, `ParkedHasWake`, `EndsUnlessHarmed`: pauses are resumed, and repeat nothing, also across a restart |
| `WorkflowExec_lost_job` | two parallel jobs, one pauses; fair | violation of `EventuallyEnds`, section 7 |
| `ConcurrencyKey_policies` | three runs, each with any policy, cap 1, serial triggers; an error, a cancel, a crash | `ActiveHoldsRow`: among skip and replace, barring the error, the executing run has the row or is just being replaced; `WaiterInLine`: no waiter drops out of the line unsignalled; `AbandonedNeverRuns` |
| `TriggerScheduler_triggers` | two pipeline files, one with an interval trigger under policy all, one with an event trigger, which capabilities may block; a wait; two minutes; two ingesting goroutines with the same event; a user call; an error or a crash; fair | `NextFireSound`; `OccurrenceOnce`, `EnabledStaysScheduled`: firing, enabling and disabling neither repeat an occurrence nor lose the schedule; `DeliveredOnce`: no delivery starts two runs; `DueServed`: everything due is served |
| `TurnLifecycle_room` | a peer message, a background job, a user start, two turns with one tool round and one continuation each, a compaction, an error or panic, a crash | `OneTurn`, `Conserved`, `RoomReleased`: one turn at a time, no announcement disappears but by an overwriting save, and the room is released however the turn ends |
| `TurnLifecycle_serve` | a peer message, a steer, a stop, two turns, an error or panic; fair | `SteerSettled`, `StoppedEnds`, `PeerServed` |
| `EventBus_delivery` | one subscriber with a channel of one, two publishers, two critical and two other events, a reader that may hang up; fair | `NoSendAfterClose`, the refinement `FifoKept`, `UnsubscribeReturns` although the pump may be blocked, `CriticalReceived`: no wake-up of the pump is lost |
| `RunStream_view` | one run with three versions, one subscriber with a buffer of two; fair | `NothingMissed`, `EndedStaysEnded`, `ChangeShown`: whatever overtakes what, an open subscriber agrees with the registry, an ended run is not shown live, and what the two timers coalesce is shown in the end |
| `AcpRun_results` | two parallel spawns, cap 1; a steer, a stop or a dying process; fair | `NoStrayProcess`, `NoStaleTracking`, `ResultArrives`: no process outside the pool, no run tracked for ever, every ended run reports to its parent |
| `DelegateRun_publish` | two chunks, two ticks, two callbacks still to come, two callers; fair | `PendingHasTimer`, `DoneIsLast`, `WaitAnswered`: the end reaches a waiting caller unless another took the snapshot |
| `LearnJob_cursor` | two jobs, three messages, a notice or rename; one of: a compaction, a failing save or panic, a restart, a deletion; fair | `NothingSkipped`, `NotReviewedTwice`, `ActiveDrains` |

No run checks deadlock: a run that has ended, or a key nobody wants, is a state in which
the system rightly does nothing.  Every module states `TypeOK`; it documents the state, is
checked by `WorkflowExec_pause` and is part of the inductive invariant of all eight modules that
have theorems.

Each property of a passing run has a mutant, an operator next to the definition it replaces,
which makes the change a plausible bug would make: `ReadyJobsAnyNeed` (one need suffices),
`MergeJobRunBySteps`, `MergeStatusLast` (other merges), `FinalizeOptimistic`,
`CancelMisspelt`, `WakeRunOnly`, `WakeAllSteps`, `TickErrsSilently`, `TickJoinFirst`,
`DropWait`; `ReleaseAnyRow` (a release that does not compare the run), `RemoveWaiterFirst`,
`WaiterRemoveFallsThrough`; `FirstFromLate` (an occurrence at this very instant is passed
over), `FireRescheduleSame`, `FireRescheduleStarted` (a dropped start is not put back),
`FireListLate`, `IngestStartRollsBack` (every failed start gives its delivery back);
`WakeEnterUnlocked` (the registry is read before the lock is taken), `TurnCleanupNoDrain`,
`TurnRecoverNothing`, `TurnDiscardFinished`, `TurnAskStays`, `TurnUnlockFlushed` (only flushed
results wake the room); `CloseOutEarly` (the channel is closed while the pump runs),
`DirectAlways` (a critical event overtakes the list), `PumpEndWaiting`, `NotifyForgotten`;
`OverflowingNever`, `AcceptedByStamp`, `CoalescedLast`; `SpawnPoolLeaks`, `DeliverQueuedNow`,
`FailsSilently`; `FlushDelegateEmitKeeps`, `UpdateActivityAlways`, `SendCompleted`;
`TargetEnd` (the cursor goes to the end there is), `RangeStartZero`, `JobLoadGone`.

## 5. Bounds and environment assumptions

- Four jobs with two branches that join are the smallest DAG with parallel jobs, a chain
  and a join; two steps show a job being interrupted between steps; two waits in two jobs
  show a pause after a pause.  `MaxJobs` = 2 makes the semaphore matter only in wider
  graphs; it does not block here, and no property depends on it.
- `MaxFaults`, `MaxCancels`, `MaxCrashes` bound store errors and panics, calls of `Cancel`
  and crashes.  Every action with a failing write has a branch that spends a fault.  A
  property that speaks of executions without a fault, a cancel or a crash says so by its
  premise and is checked in the same run as the others, up to that event.
- `PromptPark`: the pass that parks a job is over before the wait's instant passes.  This
  is an assumption about the environment (waits are usually hours, passes seconds), and
  without it the engine misbehaves (section 7).
- `Serial`: triggers of a key arrive one at a time.  Not guaranteed by the code (each
  notification has its goroutine); section 7 says what happens otherwise.
- Three runs of a key are a holder, a waiter and a third that overflows, queues behind or
  takes over.  Runs are symmetric, and the run has no temporal property.  `QueueCap` is 1
  instead of the code's constant, to reach overflow.
- `TriggerScheduler`: `MaxTime` = 2 lets the trigger fire twice from one registration to the
  next, on time or catching up, beside a user call without a harm or a harm without a call, which
  is what `OccurrenceOnce` compares.  Policy all is the one under which a missed occurrence is due
  before the clock; the theorem `OccurrencesOnce` is for every policy.  There is one time trigger
  because a second row takes the run out of reach; the theorems are for any number, with rows
  shared or not.  `NextFireSound` compares `NextFire` with its definition by least elements two
  minutes ahead of every clock value, for periods 1 and 2 and all earlier occurrences.  Two
  ingestions at once of one event are what deduplication is about.  `MaxHarms` bounds errors and
  crashes together; `MaxOutside` = 3 bounds these with the events ingested and, counted twice, the
  user's call: a repeated event beside a harm, a call beside a harm, or a call beside one event.
- `TurnLifecycle`: two turns are one that ends and one that the cleanup or a wake starts;
  once both are used no third can start, which is why `PeerServed` is checked with one
  message.  One tool round, one continuation and one compaction visit every position of a
  turn.  `MaxPending` is 1, where the code has 64; with two announcements (a peer message and
  a notice) and no crash the cap drops one, and the invariants of `TurnLifecycle_room` hold
  in the 5.5 million states of that larger instance too.
- `EventBus`: a channel of one is full after one event, so drops, parking and a blocked pump
  all happen; two critical events are needed to overtake one another.  Events are published
  once each, which bounds the histories.  Subscribers do not touch one another's state; the
  proofs are for any number.
- `RunStream`: three versions are a first snapshot, a change and an end, or two changes that
  race; a buffer of two holds a drained update and the event that drained it.  `Expire` takes
  ninety seconds to be longer than any call of `publish` takes.  With one run the cap on
  snapshots evicts none.
- `AcpRun`: two spawns are enough for the cap and the pool.  `MaxEvents` bounds steers, stops
  and deaths of a process together: each meets every position of the spawn, of the prompt and
  of the way back.
- `LearnJob`: three messages are a range, a range after it and growth during a review; the
  second job is the one that must not start, or must pick up what the first left.  One writer
  without the turn lock may hold its copy over all of that.  `MaxHarms` bounds compactions,
  faults, restarts and deletions together; the proofs are for any number of all of these.
- `clash`, `acked`, `dropped` and `sealed` (of `RunStream`: they say of which runs a property
  speaks), `sent`, `offered`, `received`, `results`, `reviewed`, `again`, `slipped`, `outrun`, `lost`,
  `back`, and `fired` and `runs` of `TriggerScheduler` are history variables: no guard reads them.

## 6. Fairness

Weak fairness of each goroutine's steps (the Go scheduler runs every goroutine; steps have
timeouts, so they return), of `ResumeWaits` and of `FireDue` (the ticker), of time and of
`RecoverStale` (somebody starts the program again).  In `TurnLifecycle` a step that needs a
lock is enabled only while the lock is free; the instance is bounded, so nobody takes a lock
for ever, and Go's mutexes hand over to a waiter that starved.  On the bus, publishers, pumps
and a reader that has not hung up go on.  In `RunStream` timers fire, `publish` is not held up
and handlers write.  In `AcpRun` goroutines and the parent's turn go on; the agent's answer
and its process are not fair, and `ResultArrives` is about runs that have ended.  In
`DelegateRun` the headless turn returns (strongly fair, since chunks and refreshes interleave
with it), timers fire, and `Stop` gives up after ten seconds; the context of a `Wait` need not
expire.  In `LearnJob` a model answers or fails, a turn ends, and a job that waits for the turn
lock gets it in the end (strongly fair: turns take the lock again and again, and Go's mutexes
hand over to a waiter that starved).  `ConcurrencyKey` is checked for safety only.  No fairness
for faults, panics, cancels, crashes, agent updates, new triggers, events, announcements,
steers, stops, or the user's answer to a question.

## 7. Disagreements between code and documentation

One run ends with a counterexample; `PROJECT.json` quotes both sides of it.

- `WorkflowExec_lost_job`: a parallel worker's stale snapshot takes a parked job from waiting to
  running (`Yields` cannot tell it from a wake-up); nothing resumes it, and the run never ends.

The others were found with the same modules, each with the change of an instance or of a
property that is named.  The claims that are definitions of their own stand at the end of the
modules; four of them quote the repository.

- `NobodyStranded` (`ConcurrencyKey_policies` with policy queue only, two runs, no harm): the
  holder releases between a newcomer's look at the row and its enqueue
  (`concurrency.go:183`, `:207`); the release finds an empty queue, and the newcomer waits for a
  free key until its timeout skips it.  The comment over `enqueueRun` says "Waiters are woken FIFO
  when the holder releases."
- `EnabledIsScheduled` (`TriggerScheduler_triggers` with a recurring trigger in either workflow,
  both in one row, no call, harm or event): the row of a trigger has the trigger's id for
  its key (`scheduler.go:125`), and ids are unique within a workflow only: the YAML loader numbers
  the triggers of every file from `trg_1` (`yaml_loader.go:272`), and the schedule tools call theirs
  `t1` (`family_automation.go:250`, `:269`).  Enabling one workflow takes the other off the
  schedule, although "Creating a schedule through a dispatcher persists it"
  (`docs/design/automation-engine.md:41`).
- `WaitReturns` (`DelegateRun_publish`, which has two callers): the end of a run is one snapshot in
  a channel (`delegate_runtime.go:448`), so that of two callers that wait for it one is never
  answered.  The comment over `Wait` says it "blocks until the run is terminal or ctx expires".
- `NeverTakenBack` (`LearnJob_cursor`, no harm): a notice or a rename saves a copy of the
  conversation that it loaded before the cursor moved (`announcement.go:184`), and the range is
  reviewed again, although the cursor "remains at the captured boundary"
  (`domain/conversation.go:190`).

Automation engine:

- `EventuallyEnds` without its exemption of crashes fails in `WorkflowExec_dag`: `RecoverStale`
  requires a heartbeat, and nothing assigns one, although `main.go:473` says it heals these
  runs.
- `EventuallyEnds` fails there with `ContinueOnError` = {}: a need skipped by its `if:` leaves
  its dependents queued, which `ReadyJobs` never offers and `BlockedByFailure` never blocks.
- `StepAtMostOnce` and `EndsUnlessHarmed` fail in `WorkflowExec_pause` with `PromptPark` FALSE:
  the first pass, still joining a parallel job, and the resumed pass both claim the woken job,
  and a wait record can be consumed between `WPark` and `WParked`, after which the run waits
  for ever.  So does `VerdictSound` (no cancel, a detached first pass, jobs with a condition):
  the resumed pass gives the verdict while a worker of the first still holds a snapshot from
  which it begins, skips or fails its job.
- Both also fail with `PromptPark` once an agent that was given up writes an old snapshot back
  (`onUpdate`, `execution.go:463`), since a parked job yields to it: `ParkedHasWake` in
  `WorkflowExec_pause` with the jobs pause = `<<wait, run>>` and work = `<<agent>>`, and
  `StepAtMostOnce` with a third job, whose need is an agent job with `continue_on_error`.
- `VerdictSound` without its exemption of cancels fails: a `Cancel` that races `maybeFinalize`
  changes a verdict that was already given.
- `ActiveHoldsRow` fails with `Serial` FALSE: two triggers under policy skip both see a free key
  and both execute.  It fails for policy queue even with serial triggers: a newcomer between
  the release and the waiter's acquire does the same.  And it fails after one failing read of a
  live holder, which makes skip heal its lock away.
- A waiter that is signalled as its timeout fires may still take the timeout (`select` picks
  either channel): it is skipped, and it does not pass the wake-up on to the waiter behind it.
- A one-shot of a pipeline file fires again after every restart: `DiscoverPipelines` enables
  the file, `NextFire` of a past instant is that instant, and the new row is due at once;
  `docs/design/automation-engine.md:24` says "Does not re-fire".
- `OccurrenceOnce` without its exemption fails once a user call and a crash or error meet: a
  pass that dies between starting the run (`FireStart`) and writing the next occurrence leaves
  the claimed row behind, and an `EnableWorkflow` whose `now` was read earlier registers the
  same occurrence as pending; it fires a second time.

Agent turn:

- `NotesKept` (a publisher and a user start, no fault): `HandleTurnsStart` drains and saves the
  room without the announcement lock; a publisher that saved in between was told its
  announcement is queued, and it is gone.  The same happens in the other direction, and between
  a publisher and every save of a running turn; `Conserved` says that nothing else loses an
  announcement.
- A steer accepted after its turn's last `discardQueuedSteer` is dropped without an event
  (the `late` of `SteerSettled`); a peer message that arrives during a manual compaction
  waits for the next turn (the exemption in `PeerServed`).

Subagents, streams and learning:

- `ProducerOrder` (the instance of `RunStream_view`): `publish` compares a frame with the last
  one emitted, not with the one pending; a late `started` frame drains a newer update and goes
  out behind it.
- `DisarmedIsEmitted` (the same instance): the first `drivePrompt` drops the snapshot left to
  the runtime's timer and emits none; a session update that came in before it is not shown
  until the next change.
- `LiveCapped` (`AcpRun_results`, `MaxEvents` = 0): parallel spawns count the live runs before
  any of them registers.
- `SteerKeepsOpen` (`AcpRun_results` with one run): the `session/cancel` of a steer is sent
  after the lock is released; when the old prompt ends by itself in between, the cancel ends
  the steered prompt and the run.
- `DeliveredOnce` of `AcpRun` (one run, a stop): `Stop` emits done although `finish` found the
  run closed, and the parent gets the result of a run that had just ended a second time.
- `NothingSkipped` without its exemption (`LearnJob_cursor`): a compaction leaves the cursor
  where it was in the longer transcript, and what is written below it is never reviewed.
- `NotReviewedTwice` without its exemption of `outrun` (`LearnJob_cursor`): when a compaction
  leaves the transcript shorter than the cursor, `LearningMessageRangeForConversation`
  (`learn/llm.go:304`) starts over at 0, and what was kept of the transcript is reviewed again.
- A learning job deleted while it runs is written back by its next save (`Saved` of
  `LearnJob`).

Observed while modelling, outside the modules: nothing removes a dead ACP connection from the
pool, so every later spawn of that agent fails until restart.

## 8. Proofs

`WorkflowExecProofs`, for every workflow definition and every value of the bounds, from the
named assumptions on the constants (`NeedsAssumption`, `StepsAssumption`,
`ExecAssumption`), which TLC evaluates in every run of `MCWorkflowExec`:

- `TypeCorrect`: `Spec => []TypeOK`.  `TypeOK` is not inductive, since a worker that
  finishes a step moves to the next position; `StepBound` adds that a worker executing or
  parking is at a real step.  One case per action; the lemmas before it show that each
  transition of `WorkflowRun` yields a run.
- `FinishedNeverLeft`: `Spec => FinishedStays`.  The step lemmas also show `StoreMerges`:
  every write of the stored run is `MergeRun` of some snapshot.  `SettledKept` then follows
  from the merge alone, whatever the snapshot is.
- `NeedsSettledAlways`: `Spec => []NeedsSettled`.  A pass decides on a snapshot, so the
  invariant needs `SnapshotSettled`: what is settled in a deciding pass's snapshot is
  settled in the store.  `TickClaim` is the only step that makes workers busy
  (`TickQuiet`, `WorkerQuiet`), and `TickLoop` the only one that takes a snapshot.

- `EngineKeepsPromise`: `Spec => PromiseKept`, the refinement of `DagPromise`.  Initial
  states map to initial states.  For steps, `RecordedStep` takes the growth of the record
  from `StoreMerges`; every action but `TickClaim` maps to `Leave` (`QuietLeaves`), since it
  makes no worker busy; `TickClaim` maps to `Begin` of the jobs it claims (`ClaimBegins`),
  whose needs are settled in the snapshot by `ReadyJobs` and in the store by
  `SnapshotSettled`.  The inductive invariant behind both is `NeedsInv`, the conjunction of
  `TypeInv` (`TypeOK` with `StepBound`), `SnapshotSettled` and `NeedsSettled`, shown
  invariant by `NeedsInvariance`.
- `BlockedStays`: `Spec => BlockedForGood`, an action property that no run checks.  Once the
  goroutines of a run that `runUses` parked as blocked are gone (`AtRest`), no due wait, pass,
  crash or restart changes the run or its lock row; only a Cancel does.  It is a limit of the
  code, stated so that a reader need not guess: `EventuallyEnds` counts blocked as an end, but
  the lock of such a run is kept until somebody cancels it.  No invariant beyond `TypeInv` is
  needed: idle workers have no step (`IdleWorker`), a pass that meets the run ends without a
  write (`BlockedTick`), and `RecoverStale` passes it over (`BlockedRecovers`).

Two more theorems have `PassesApart` as a hypothesis: the workflow has no wait steps, or it is
run under `PromptPark`.  Otherwise two passes work at once, and the properties fail (section 7):

- `NoWorkAfterVerdict`: `Spec => []QuiescentWhenTerminal`.  `PassInv` says that there is one
  pass at a time (`OnePass`), that busy workers belong to a pass that joins them (`Joined`), and
  what the budget has to do with failed positions (`Spent`).  `LiveInv` says that until a cancel
  every snapshot, but the one `recordAsyncFailure` is about to write, is of a run without a
  verdict, that a pass decides or joins only while the stored run has none, and that until a
  second error a stored run without a verdict has its row.
- `VerdictTrue`: `Spec => []VerdictSound`.  A pass gives its verdict on a snapshot, and the
  stored run is a merge of that with what the others wrote, so the verdict holds for the store
  only if all of them agree.  `VerdictInv` says so until a cancel or the failure of the whole
  run: what a snapshot holds as settled the store has settled in the same way (`Good`); where a
  job is blocked one has failed (`Blame`); and a job that was ever begun, or is with a worker, is
  `Ripe`: its needs are done in the store and in every snapshot on which somebody decides or
  may fail a job.  The walk of `BlockedByFailure` enters no ripe job (`StuckOutside`), since it
  starts at a job that is not done and goes on through jobs that are not ripe; hence no failing
  worker writes blocked over a job that is at work or has succeeded (`FailStride`).  A write
  that settles only the writer's own job, and blocks jobs that are not ripe, is a `Stride`;
  `WorkerStridesOn` shows that workers make no others.

One theorem is about workflows without wait steps (`WaitSteps` = {}), with faults, cancels,
crashes and late agents:

- `NoStepTwice`: `Spec => []StepAtMostOnce`.  `AwakeInv` says that no job is waiting in the store
  or in any snapshot that may be written back, so a merge never lowers the rank of a stored job
  (`RanksRise`).  `OnceInv` says that no step was begun of a job that is queued in the store, or
  in the snapshot on which a pass decides, and that a worker has only begun steps behind its
  position.  With wait steps the parked job yields to older snapshots, and section 7 has
  what the code then does twice; there `StepAtMostOnce` is checked under `PromptPark` only.

`EventBusProofs`, for every set of subscribers, publishers and events and every capacity of
the channels, from `BusAssumption` (critical events are events, the capacity is positive,
`None` is neither), which TLC evaluates in `EventBus_delivery`:

- `BusInvariance`: `Spec => []BusInv`.  `NoSendAfterClose` is not inductive: it speaks of
  goroutines that are about to send, and whether they may depends on the locks.  `BusInv` is
  `TypeOK` with `PublisherInv` (the subscribers a publisher still goes to are registered, and an
  idle publisher goes to none), `EndInv` (a subscriber is closed after it left the map, its pump
  ends after that, and its channel is closed last) and `PendingInv` (the pump holds one event
  exactly while it sends, and its hands and the list are empty whenever `criticalPending` is
  off, which is what lets an event go to the channel directly).  One lemma per conjunct, one
  case per action.
- `NoSendAlways`: `Spec => []NoSendAfterClose`, from `BusInv`.
- `EachSubscriptionIsFifo`: `Spec => FifoKept`, the refinement of `LossyFifo` for each
  subscriber.  A publication maps to `Publish` (`PublishFifo`: by `PendingInv` the pump and the
  list are empty when the event goes to the channel), a receive to `Take` (`ReceiveFifo`), the
  end of the pump to `Cut`, its other steps to stuttering (`PumpFifo`), and everything else
  leaves the subscriber alone (`UntouchedFifo`).  The lemmas about sequences in front say how
  appending, taking the head and cutting act on a concatenation.

`RunStreamProofs`, for every set of runs and subscribers, every cap and buffer size
(`StreamAssumption`, and `NoneAssumption`: `None` is neither a frame nor an entry):

- The operations of the registry are functions of its record, and each has a lemma about its
  result (`PruneKeeps`, `EmitKeeps`, `EmitPendingKeeps`, `CoalescedKeeps`): the record keeps its
  `Shape` (numbers and buffers are within limits, what is pending is a live update of its run)
  and the subscribers stay `Served`, which is `NothingMissed` as a predicate on a record.
  `PublishRegistry` and `FlushRegistry` put them together as `publish` and the timer do.
- `StreamInvariance`: `Spec => []StreamInv`.  `EndedStaysEnded` needs what is on its way.  `Aged`:
  of the snapshots of a run that are in flight, pending or retained, none is newer than the run,
  and no live one is newer than one that shows the end.  `Sealed`: what is retained after done
  was published shows the end, and either came as done or is newer than every live snapshot to
  come (a done that is older than a retained end is rejected).  `ExpiredInv` and `Capped` say
  that only an entry which nothing live can follow is ever pruned to make room for a frame of
  its own run.
- `NothingIsMissed`: `Spec => []NothingMissed`; `EndIsFinal`: `Spec => []EndedStaysEnded`.

About `DelegateRun`, in `RunStreamProofs` as well, for every set of callers and every bound
(`DelegateAssumption`):

- `DelegateInvariance`: `DelegateSpec => []DelegateInv`, one lemma per group of actions.
  `PendingHasTimer` alone is not inductive: it does not say which callbacks are left when a
  timer is disarmed.  `TimerInv` ties the dirty flag to the armed timer and an armed timer to a
  callback still to come, also among callbacks that fired before they were stopped.  `SealInv`
  ties the status to the position of `exec`: a terminal run is not dirty.
- `PendingAlways`: `DelegateSpec => []PendingHasTimer`.  `DoneStaysLast`:
  `DelegateSpec => DoneIsLast`, from `SealInv`: behind the done event a late callback finds nothing to publish.

`ConcurrencyKeyProofs`, for every set of runs, policies and bounds and every cap
(`KeyAssumption`):

- `KeyInvariance`: `Spec => []KeyInv`.  A run is queued once (`QueuedOnce`), and a popped run is
  signalled by one release (`PoppedOnce`); `AbandonedNeverRuns` needs `WaitInv`, which says for each position of a starter and a waiter
  whether its run may be queued, popped, signalled or given up.  The interesting case is a
  release that pops a waiter whose select is about to choose its timeout (`WakeNextKeeps`,
  `SignalKeeps`, `WaiterRemoveKeeps`).
- `AbandonedStaysOut`: `Spec => []AbandonedNeverRuns`, from `KeyInv`.
- `NoWaiterLost`: `Spec => []WaiterInLine`, also for triggers that race each other.  `LineInv`, on
  top of `KeyInv`: a run that is to wait is queued, popped, signalled or given up from the moment
  it is pushed, before its waiter exists (`InLine`).  A release must not un-pop a waiter when it
  begins, so a run is released once (`ReleaseLast`), which for a replaced run rests on its starter
  being done (`HolderKnown`, `StoredDone`).

`LearnJobProofs`, for every set of jobs, interval and bound (`LearnAssumption`):

- `LearnInvariance`: `Spec => []LearnInv`.  `OneJob`: the active set lets one job at a time
  work.  `Numbered`: a message is in the transcript once, and in a copy.  `Covered` (until
  messages are taken away): everything before the cursor is reviewed, in the stored
  conversation and in the copies that may be saved over it, and so is the range of a job that
  still owes its cursor and what lies before it, wherever the cursor is by then.  `Ahead` (while
  no cursor was lost, outrun or taken back): nothing behind the cursor is reviewed, except by
  that job.
- `CursorHonest` (`NothingSkipped`) follows from `Covered`, `ReviewedOnce` (`NotReviewedTwice`)
  from `Ahead`.  `SuffixFacts` says what a compaction keeps.

`AcpRunProofs`, for every number of spawns and steers and every cap (`AcpAssumption`):

- `AcpInvariance`: `Spec => []AcpInv`.  `SpawnsInTurn`: who spawns is part of a turn of the
  parent, so the turn cannot end in between.  `DriversFresh`: a prompt's goroutine is started
  once.  `TrackedSoon`: a run that was live when its spawn returned is live or its result is on
  its way.
- `NoProcessStrays` and `TrackingStaysFresh`, from `AcpInv`.

`TriggerSchedulerProofs`, for every set of workflows, triggers, events and goroutines
(`TriggerAssumption`, `BoundAssumption`):

- `DeliveredAtMostOnce`: `Spec => []DeliveredOnce`.  `DeliveryInv` adds `Claimed`: between
  `RecordDelivery` and the end of its start a goroutine is the only one with its delivery, and
  there is no run for it yet; `Recorded`: where there is a run, there is the delivery.
- `ShapeInvariance`: `TypeOK`, with `Belong` (a row, a due row and a row to cancel belong to a
  trigger of their workflow) and `AdminOf` (what a call is about to do).
- `OccurrencesOnce`: `Spec => []OccurrenceOnce`.  `Later` says that a trigger's next instants are
  behind all it was started for, but while `FireDue` is about to put the row back.  It speaks of
  the row only while the trigger's own workflow is stored in it (`Stored`), so that triggers may
  share rows as they like; of the triggers of one workflow a row stands for one
  (`TriggerAssumption`, `StoredFor`).  It rests on `NextFireLater` (for a pass that reads the clock no earlier than the occurrence,
  the next one is later), on `OnePass` and on `HandFree` (before a user calls, nobody registers a
  row that `FireDue` has in hand).
- `EnabledAlwaysScheduled`: `Spec => []EnabledStaysScheduled`, of the triggers whose row is no
  other's (`Alone`), whatever the rest share.  `KeptSo` is the property with the triggers registered so far of a workflow whose registration is under way;
  `Written` says that the workflow is written before its rows.
- `NextOccurrence`: for every period, clock value and last occurrence that is not ahead,
  `NextFire` is the least element the missed-run policy names (`FirstFromLeast`, `CronLeast`).
  `NextInstant`: `Spec => []NextFireSound`, from it.

`TurnLifecycleProofs`, for every set of announcements, jobs and steers and every bound
(`TurnAssumption`, and `NamesAssumption`: the names of actors, which are lock holders, differ):

- `TurnTypeCorrect`.  `Shape` is `TypeOK` with `Copies` (who is about to save has a copy),
  `Hands` and `Snapped` (where a turn has a steer in its hand or a copy of the room).  One lemma
  about each operation of a turn (`LoadFacts` ... `PanicFacts`) says what it does to the
  goroutine and the stored room; the later invariants use those and not the definitions.
- `OneTurnAlways`: `Spec => []OneTurn`.  Starters look at the registry under `startMu`, and turns
  run under `turnLock`.  `LockInv` ties the two: `OneRun` (the registry has one run, and whoever
  works has the turn lock), `Starting` (who starts has `startMu`, and from its last look on the
  registry is empty), `Savers`, `Callers` (a finished run or job that wakes the room does not
  hold a lock under the same name).
- `SteersSettled`: `Spec => []SteerSettled`.  `SteerInv`: a steer that was queued in time is in
  the turn's slot or hand as long as the last discard is to come.
- `RoomAlwaysReleased`: `Spec => []RoomReleased`.  `RoomInv`: barring an overwriting save and a
  second failure, a running room has a turn that will release it (`Owned`); after the turn's
  last save it is idle, unless that save failed (`Released`); and the copy the recovery works on
  is not older than the room (`Recovering`).
- `ConservedAlways`: `Spec => []Conserved`.  The property is inductive relative to `Shape` and
  `LockInv`.  Each save of a copy nobody has overtaken makes the room grow (`Grows`: what was in
  the transcript stays there, what was pending stays pending or is in the transcript), and a
  step of a turn moves a result from its queue to its hands, to the transcript or back
  (`Moves`, `Carries`); every other save sets `clash`.

Only model-checked: all liveness properties (fairness and ENABLED are out of the prover's
reach), and two invariants that the code keeps only under an assumption about its environment:
`ParkedHasWake` (under `PromptPark`, with no agent step beside the pause) and `ActiveHoldsRow`
(under `Serial`).  A theorem under such an assumption would leave out the races that matter,
which section 7 describes.  Outside workflows without wait steps the same holds for
`StepAtMostOnce`.

## 9. Not modelled

Most of the repository is not control: provider clients and their wire formats, transfer
objects (`contracts/`), tools, media, search and ranking of memories, skills and plugins,
prompt text, the front end.  A model of these would restate the code line by line and check
nothing, so the share of all source lines that is modelled stays small, although the
automation engine, the agent turn, the event bus and the life cycle of subagents are
nearly complete.

Within the modelled parts: `HandleTurnsRetry`, `HandleToolStop`, headless turns and writers
that change a room with no lock (`HandleRename`) in `TurnLifecycle`; waits for events in
`IngestEvent`, which no code creates; what a run that parks as blocked and keeps its lock
(`BlockedStays`) does to other runs of its key, since `WorkflowExec` and `ConcurrencyKey` are
not composed; several rooms.  Of the ACP runtime: `Runtime.Close`,
probing, authentication, the model and mode catalog, file requests; `RequestPermission`
answers at once, so that a permission never pends.  Steering a delegate is the steer of
`TurnLifecycle`.  Of learning: what a review writes, and the legacy skill and evaluation
jobs.

Background processes (`infrastructure/tools/exec_registry.go`) have control of their own and
are a module still to write.  Read from the code: a slot is freed when `cmd.Wait` returns
(line 192), which a detached grandchild that holds the output pipe prevents after a kill too,
against the comment at line 26; a process reserved before the shutdown and started after it
(line 164) outlives the application, against `resources/agent/docs/tools.md:18`; and the entries of finished
processes stay registered, so that a shutdown signals their process ids as well.

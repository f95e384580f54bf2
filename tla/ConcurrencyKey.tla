-------------------------- MODULE ConcurrencyKey --------------------------
(***************************************************************************)
(* The identity-scoped lock of application/automation/concurrency.go, for  *)
(* one rendered key.  Each run goes through startUnderConcurrency once, on *)
(* the goroutine of the trigger that created it; depending on the policy   *)
(* it is dropped, queued behind the holder, or replaces it.                *)
(*                                                                         *)
(* The lock is a row in the database (durable); heldLocks, the FIFO queue  *)
(* and the ready/cancel channels of its waiters are process memory guarded *)
(* by lockMu.  An action is one database statement or one critical section *)
(* of lockMu, so goroutines interleave exactly between those.              *)
(*                                                                         *)
(* What a started run does is left to WorkflowExec: here it executes until *)
(* it persists a terminal status and releases the lock.                    *)
(***************************************************************************)
EXTENDS Integers, Sequences, SequencesExt

CONSTANTS
    Runs, NoRun,
    Policies,     \* the policies of the workflows whose key renders to this one
    QueueCap,     \* defaultConcurrencyQueueCap
    Serial,       \* environment: triggers are delivered one at a time
    MaxFaults,    \* bound: store errors
    MaxCancels,   \* bound: calls of Cancel
    MaxCrashes    \* bound: process crashes

ASSUME KeyAssumption ==
    /\ NoRun \notin Runs
    /\ Policies \subseteq {"skip", "queue", "replace"}
    /\ QueueCap \in Nat
    /\ Serial \in BOOLEAN
    /\ MaxFaults \in Nat /\ MaxCancels \in Nat /\ MaxCrashes \in Nat

VARIABLES
    row,       \* the run in the lock row of the key (durable)
    status,    \* the stored status of each run (durable): absent, live, ended
    held,      \* the runs with an entry in heldLocks
    queue,     \* queueByKey: the waiting runs, first in first out
    ready,     \* the waiters whose ready channel is closed
    gaveUp,    \* the waiters whose cancel channel is closed
    starter,   \* the startUnderConcurrency call of each run
    waiter,    \* the awaitQueueSlot goroutine of each run
    exec,      \* the execution of each run (runTickAsync)
    rel,       \* the releaseConcurrencyLock call for each run
    caller,    \* the caller of Cancel for each run
    budget     \* what is left of the faults, cancels and crashes

memory == <<held, queue, ready, gaveUp>>
actors == <<starter, waiter, exec, rel, caller>>
vars == <<row, status, memory, actors, budget>>

StarterPC == {"idle", "inspect", "holder", "heal", "detach", "detachRow", "cancel", "cancelled",
              "free", "acquire", "track", "create", "enqueue", "overflow", "createQueued", "done"}

StarterRec == [pc : StarterPC, policy : Policies, active : Runs \cup {NoRun}]
ReleaseRec == [pc : {"none", "row", "wake", "signal"}, next : Runs \cup {NoRun}]
BudgetRec == [faults : Nat, cancels : Nat, crashes : Nat]

TypeOK ==
    /\ row \in Runs \cup {NoRun}
    /\ status \in [Runs -> {"absent", "live", "ended"}]
    /\ held \subseteq Runs /\ ready \subseteq Runs /\ gaveUp \subseteq Runs
    /\ queue \in Seq(Runs)
    /\ starter \in [Runs -> StarterRec]
    /\ waiter \in [Runs -> {"none", "await", "remove", "skip", "acquire", "track"}]
    /\ exec \in [Runs -> {"none", "tick", "running", "release"}]
    /\ rel \in [Runs -> ReleaseRec]
    /\ caller \in [Runs -> {"none", "persist", "release"}]
    /\ budget \in BudgetRec

Init ==
    /\ row = NoRun
    /\ status = [r \in Runs |-> "absent"]
    /\ held = {} /\ ready = {} /\ gaveUp = {}
    /\ queue = <<>>
    /\ starter \in [Runs -> [pc : {"idle"}, policy : Policies, active : {NoRun}]]
    /\ waiter = [r \in Runs |-> "none"]
    /\ exec = [r \in Runs |-> "none"]
    /\ rel = [r \in Runs |-> [pc |-> "none", next |-> NoRun]]
    /\ caller = [r \in Runs |-> "none"]
    /\ budget = [faults |-> MaxFaults, cancels |-> MaxCancels, crashes |-> MaxCrashes]

Spend(what) == budget[what] > 0 /\ budget' = [budget EXCEPT ![what] = @ - 1]

----------------------------------------------------------------------------
(* RunLockStore: one row per key, keyed by the key alone.                  *)

AcquireRow(r) == row' = r
ReleaseAnyRow(r) == row' = NoRun
ReleaseRow(r) == row' = IF row = r THEN NoRun ELSE row

\* Callers ignore an error of Release.
TryReleaseRow(r) ==
    \/ ReleaseRow(r) /\ UNCHANGED budget
    \/ Spend("faults") /\ UNCHANGED row

(* The in-memory side of a lock.                                           *)

Push(r) == queue' = Append(queue, r)

QueueFull == Len(queue) >= QueueCap

\* Mutant of RemoveWaiter: the head of the queue goes, whoever it is.
RemoveWaiterFirst(r) == queue' = IF queue = <<>> THEN queue ELSE Tail(queue)

\* removeWaiterLocked; a run has one waiter.
RemoveWaiter(r) ==
    queue' = IF Contains(queue, r)
             THEN RemoveAt(queue, CHOOSE i \in 1..Len(queue) : queue[i] = r)
             ELSE queue

\* The critical section of releaseConcurrencyLock; the row and the waiters follow.
BeginRelease(r) ==
    IF r \in held
    THEN held' = held \ {r} /\ rel' = [rel EXCEPT ![r].pc = "row"]
    ELSE UNCHANGED <<held, rel>>

\* abandonQueuedRun: only a run still in the queue is abandoned.
Abandon(r) ==
    /\ RemoveWaiter(r)
    /\ gaveUp' = IF Contains(queue, r) THEN gaveUp \cup {r} ELSE gaveUp

----------------------------------------------------------------------------
(* startUnderConcurrency, acquireAndStart, enqueueRun for run r.           *)

At(r, pc) == starter[r].pc = pc
Goes(r, pc) == starter' = [starter EXCEPT ![r].pc = pc]

Start(r) ==
    /\ At(r, "idle")
    /\ Serial => \A s \in Runs : starter[s].pc \in {"idle", "done"}
    /\ Goes(r, "inspect")
    /\ UNCHANGED <<row, status, memory, waiter, exec, rel, caller, budget>>

HolderGone(a) == status[a] # "live"

Inspect(r) ==
    /\ At(r, "inspect")
    /\ \/ /\ starter' = [starter EXCEPT ![r].pc = IF row = NoRun THEN "acquire" ELSE "holder",
                                        ![r].active = row]
          /\ UNCHANGED budget
       \/ Spend("faults") /\ Goes(r, "done")
    /\ UNCHANGED <<row, status, memory, waiter, exec, rel, caller>>

\* A terminal, missing or unreadable holder is healed away; otherwise the policy decides.
CheckHolder(r) ==
    /\ At(r, "holder")
    /\ \/ /\ Goes(r, IF HolderGone(starter[r].active) THEN "heal"
                     ELSE CASE starter[r].policy = "skip"    -> "done"
                            [] starter[r].policy = "replace" -> "detach"
                            [] starter[r].policy = "queue"   -> "enqueue")
          /\ UNCHANGED budget
       \/ Spend("faults") /\ Goes(r, "heal")
    /\ UNCHANGED <<row, status, memory, waiter, exec, rel, caller>>

Heal(r) ==
    /\ At(r, "heal")
    /\ TryReleaseRow(starter[r].active)
    /\ Goes(r, "acquire")
    /\ UNCHANGED <<status, memory, waiter, exec, rel, caller>>

\* detachConcurrencyLock: release without waking a waiter.
Detach(r) ==
    LET a == starter[r].active
    IN  /\ At(r, "detach")
        /\ held' = held \ {a}
        /\ Goes(r, IF a \in held THEN "detachRow" ELSE "cancel")
        /\ UNCHANGED <<row, status, queue, ready, gaveUp, waiter, exec, rel, caller, budget>>

DetachRow(r) ==
    /\ At(r, "detachRow")
    /\ TryReleaseRow(starter[r].active)
    /\ Goes(r, "cancel")
    /\ UNCHANGED <<status, memory, waiter, exec, rel, caller>>

\* Cancel(active): abandon it in the queue, then persist it as cancelled and release.
ReplaceCancel(r) ==
    /\ At(r, "cancel")
    /\ Abandon(starter[r].active)
    /\ Goes(r, "cancelled")
    /\ UNCHANGED <<row, status, held, ready, waiter, exec, rel, caller, budget>>

ReplaceCancelled(r) ==
    LET a == starter[r].active
    IN  /\ At(r, "cancelled")
        /\ \/ /\ status' = [status EXCEPT ![a] = "ended"]
              /\ BeginRelease(a)
              /\ Goes(r, "free")
              /\ UNCHANGED budget
           \/ /\ Spend("faults")
              /\ Goes(r, "done")
              /\ UNCHANGED <<status, held, rel>>
        /\ UNCHANGED <<row, queue, ready, gaveUp, waiter, exec, caller>>

Free(r) ==
    /\ At(r, "free")
    /\ TryReleaseRow(starter[r].active)
    /\ Goes(r, "acquire")
    /\ UNCHANGED <<status, memory, waiter, exec, rel, caller>>

Acquire(r) ==
    /\ At(r, "acquire")
    /\ \/ AcquireRow(r) /\ Goes(r, "track") /\ UNCHANGED budget
       \/ Spend("faults") /\ Goes(r, "done") /\ UNCHANGED row
    /\ UNCHANGED <<status, memory, waiter, exec, rel, caller>>

Track(r) ==
    /\ At(r, "track")
    /\ held' = held \cup {r}
    /\ Goes(r, "create")
    /\ UNCHANGED <<row, status, queue, ready, gaveUp, waiter, exec, rel, caller, budget>>

\* StartRunAsync stores the run and detaches its first pass; a failed start lets go.
Create(r) ==
    /\ At(r, "create")
    /\ \/ /\ status' = [status EXCEPT ![r] = "live"]
          /\ exec' = [exec EXCEPT ![r] = "tick"]
          /\ UNCHANGED <<held, rel, budget>>
       \/ /\ Spend("faults")
          /\ BeginRelease(r)
          /\ UNCHANGED <<status, exec>>
    /\ Goes(r, "done")
    /\ UNCHANGED <<row, queue, ready, gaveUp, waiter, caller>>

Enqueue(r) ==
    /\ At(r, "enqueue")
    /\ IF QueueFull
       THEN Goes(r, "overflow") /\ UNCHANGED queue
       ELSE /\ Push(r)
            /\ Goes(r, "createQueued")
    /\ UNCHANGED <<row, status, held, ready, gaveUp, waiter, exec, rel, caller, budget>>

\* The run is stored as skipped, or not at all.
Overflow(r) ==
    /\ At(r, "overflow")
    /\ \/ status' = [status EXCEPT ![r] = "ended"] /\ UNCHANGED budget
       \/ Spend("faults") /\ UNCHANGED status
    /\ Goes(r, "done")
    /\ UNCHANGED <<row, memory, waiter, exec, rel, caller>>

CreateQueued(r) ==
    /\ At(r, "createQueued")
    /\ \/ /\ status' = [status EXCEPT ![r] = "live"]
          /\ waiter' = [waiter EXCEPT ![r] = "await"]
          /\ UNCHANGED <<queue, gaveUp, budget>>
       \/ /\ Spend("faults")
          /\ RemoveWaiter(r)
          /\ gaveUp' = gaveUp \cup {r}
          /\ UNCHANGED <<status, waiter>>
    /\ Goes(r, "done")
    /\ UNCHANGED <<row, held, ready, exec, rel, caller>>

----------------------------------------------------------------------------
(* awaitQueueSlot for run r.  With both channels readable, select picks    *)
(* either branch.                                                          *)

WGoes(r, pc) == waiter' = [waiter EXCEPT ![r] = pc]

WaiterReady(r) ==
    /\ waiter[r] = "await" /\ r \in ready
    /\ WGoes(r, "acquire")
    /\ UNCHANGED <<row, status, memory, starter, exec, rel, caller, budget>>

\* Closing a cancel channel that Cancel closed already panics: the goroutine ends.
WaiterTimeout(r) ==
    /\ waiter[r] = "await"
    /\ gaveUp' = gaveUp \cup {r}
    /\ WGoes(r, IF r \in gaveUp THEN "none" ELSE "remove")
    /\ UNCHANGED <<row, status, held, queue, ready, starter, exec, rel, caller, budget>>

WaiterRemoveFallsThrough(r) ==
    /\ waiter[r] = "remove"
    /\ RemoveWaiter(r)
    /\ WGoes(r, "acquire")
    /\ UNCHANGED <<row, status, held, ready, gaveUp, starter, exec, rel, caller, budget>>

WaiterRemove(r) ==
    /\ waiter[r] = "remove"
    /\ RemoveWaiter(r)
    /\ WGoes(r, "skip")
    /\ UNCHANGED <<row, status, held, ready, gaveUp, starter, exec, rel, caller, budget>>

WaiterSkip(r) ==
    /\ waiter[r] = "skip"
    /\ \/ status' = [status EXCEPT ![r] = "ended"] /\ UNCHANGED budget
       \/ Spend("faults") /\ UNCHANGED status
    /\ WGoes(r, "none")
    /\ UNCHANGED <<row, memory, starter, exec, rel, caller>>

\* A waiter that cannot acquire is skipped, if it can be stored, and passes the wake-up on.
WaiterAcquire(r) ==
    /\ waiter[r] = "acquire"
    /\ \/ AcquireRow(r) /\ WGoes(r, "track") /\ UNCHANGED <<status, rel, budget>>
       \/ /\ Spend("faults")
          /\ status' \in {status, [status EXCEPT ![r] = "ended"]}
          /\ rel' = [rel EXCEPT ![r].pc = "wake"]
          /\ WGoes(r, "none")
          /\ UNCHANGED row
    /\ UNCHANGED <<memory, starter, exec, caller>>

WaiterTrack(r) ==
    /\ waiter[r] = "track"
    /\ held' = held \cup {r}
    /\ exec' = [exec EXCEPT ![r] = "tick"]
    /\ WGoes(r, "none")
    /\ UNCHANGED <<row, status, queue, ready, gaveUp, starter, rel, caller, budget>>

----------------------------------------------------------------------------
(* Execution, cancellation and release.                                    *)

\* Tick returns at once on a terminal run, and leaves the lock alone.
ExecTick(r) ==
    /\ exec[r] = "tick"
    /\ exec' = [exec EXCEPT ![r] = IF status[r] = "ended" THEN "none" ELSE "running"]
    /\ UNCHANGED <<row, status, memory, starter, waiter, rel, caller, budget>>

\* The run ends by itself, or its pass finds it cancelled.  When the verdict cannot be
\* stored, recordAsyncFailure releases the lock unless it cannot read the run either.
ExecEnd(r) ==
    /\ exec[r] = "running"
    /\ \/ /\ status[r] = "ended"
          /\ exec' = [exec EXCEPT ![r] = "none"]
          /\ UNCHANGED <<status, budget>>
       \/ /\ status[r] = "live"
          /\ status' = [status EXCEPT ![r] = "ended"]
          /\ exec' = [exec EXCEPT ![r] = "release"]
          /\ UNCHANGED budget
       \/ /\ status[r] = "live"
          /\ Spend("faults")
          /\ \E pc \in {"release", "none"} : exec' = [exec EXCEPT ![r] = pc]
          /\ UNCHANGED status
    /\ UNCHANGED <<row, memory, starter, waiter, rel, caller>>

ExecRelease(r) ==
    /\ exec[r] = "release"
    /\ BeginRelease(r)
    /\ exec' = [exec EXCEPT ![r] = "none"]
    /\ UNCHANGED <<row, status, queue, ready, gaveUp, starter, waiter, caller, budget>>

ReleaseRows(r) ==
    /\ rel[r].pc = "row"
    /\ TryReleaseRow(r)
    /\ rel' = [rel EXCEPT ![r].pc = "wake"]
    /\ UNCHANGED <<status, memory, starter, waiter, exec, caller>>

\* wakeNextWaiter pops the head of the queue ...
WakeNext(r) ==
    /\ rel[r].pc = "wake"
    /\ IF queue = <<>>
       THEN rel' = [rel EXCEPT ![r].pc = "none"] /\ UNCHANGED queue
       ELSE /\ queue' = Tail(queue)
            /\ rel' = [rel EXCEPT ![r] = [pc |-> "signal", next |-> Head(queue)]]
    /\ UNCHANGED <<row, status, held, ready, gaveUp, starter, waiter, exec, caller, budget>>

\* ... and signals it outside the mutex, or goes on when it gave up.
Signal(r) ==
    LET n == rel[r].next
    IN  /\ rel[r].pc = "signal"
        /\ IF n \in gaveUp
           THEN rel' = [rel EXCEPT ![r] = [pc |-> "wake", next |-> NoRun]] /\ UNCHANGED ready
           ELSE /\ ready' = ready \cup {n}
                /\ rel' = [rel EXCEPT ![r] = [pc |-> "none", next |-> NoRun]]
        /\ UNCHANGED <<row, status, held, queue, gaveUp, starter, waiter, exec, caller, budget>>

CancelRun(r) ==
    /\ status[r] = "live" /\ caller[r] = "none"
    /\ Spend("cancels")
    /\ Abandon(r)
    /\ caller' = [caller EXCEPT ![r] = "persist"]
    /\ UNCHANGED <<row, status, held, ready, starter, waiter, exec, rel>>

CancelPersist(r) ==
    /\ caller[r] = "persist"
    /\ \/ /\ status' = [status EXCEPT ![r] = "ended"]
          /\ caller' = [caller EXCEPT ![r] = "release"]
          /\ UNCHANGED budget
       \/ /\ Spend("faults")
          /\ caller' = [caller EXCEPT ![r] = "none"]
          /\ UNCHANGED status
    /\ UNCHANGED <<row, memory, starter, waiter, exec, rel>>

CancelRelease(r) ==
    /\ caller[r] = "release"
    /\ BeginRelease(r)
    /\ caller' = [caller EXCEPT ![r] = "none"]
    /\ UNCHANGED <<row, status, queue, ready, gaveUp, starter, waiter, exec, budget>>

\* The process dies and starts again: only the row and the stored runs are left.
Crash ==
    /\ Spend("crashes")
    /\ held' = {} /\ queue' = <<>> /\ ready' = {} /\ gaveUp' = {}
    /\ starter' = [r \in Runs |-> IF At(r, "idle") THEN starter[r] ELSE [starter[r] EXCEPT !.pc = "done"]]
    /\ waiter' = [r \in Runs |-> "none"]
    /\ exec' = [r \in Runs |-> "none"]
    /\ rel' = [r \in Runs |-> [pc |-> "none", next |-> NoRun]]
    /\ caller' = [r \in Runs |-> "none"]
    /\ UNCHANGED <<row, status>>

----------------------------------------------------------------------------
StarterStep(r) ==
    \/ Inspect(r) \/ CheckHolder(r) \/ Heal(r) \/ Detach(r) \/ DetachRow(r) \/ ReplaceCancel(r)
    \/ ReplaceCancelled(r) \/ Free(r) \/ Acquire(r) \/ Track(r) \/ Create(r)
    \/ Enqueue(r) \/ Overflow(r) \/ CreateQueued(r)

WaiterStep(r) == WaiterReady(r) \/ WaiterRemove(r) \/ WaiterSkip(r) \/ WaiterAcquire(r) \/ WaiterTrack(r)
ExecStep(r) == ExecTick(r) \/ ExecEnd(r) \/ ExecRelease(r)
ReleaseStep(r) == ReleaseRows(r) \/ WakeNext(r) \/ Signal(r)
CancelStep(r) == CancelPersist(r) \/ CancelRelease(r)

Next ==
    \/ \E r \in Runs : \/ Start(r) \/ StarterStep(r) \/ WaiterStep(r) \/ WaiterTimeout(r)
                       \/ ExecStep(r) \/ ReleaseStep(r) \/ CancelRun(r) \/ CancelStep(r)
    \/ Crash

Spec == Init /\ [][Next]_vars

----------------------------------------------------------------------------
(* Properties.                                                             *)

Active(r) == exec[r] = "running" /\ status[r] = "live"

\* Barring store errors, a run that executes holds the lock row of its key, or a replacing
\* trigger has taken the row from it and is about to cancel it; so no second run of the
\* key can execute (startUnderConcurrency, skip and replace).
Replacing(s, r) == starter[s].active = r /\ starter[s].pc \in {"cancel", "cancelled"}
ActiveHoldsRow ==
    budget.faults = MaxFaults /\ (\A r \in Runs : starter[r].policy # "queue") =>
        \A r \in Runs : Active(r) => row = r \/ \E s \in Runs : Replacing(s, r)

\* No waiter is forgotten: one that waits, was not woken and did not give up is in the queue,
\* or a release has popped it and is about to signal it outside the mutex, whatever releases,
\* cancels, timeouts and failed starts of other waiters did to the queue meanwhile
\* (wakeNextWaiter, removeWaiterLocked, abandonQueuedRun).
Popped(r) == \E s \in Runs : rel[s].pc = "signal" /\ rel[s].next = r
WaiterInLine ==
    \A r \in Runs : waiter[r] = "await" /\ r \notin ready \cup gaveUp =>
        Contains(queue, r) \/ Popped(r)

\* "Waiters are woken FIFO when the holder releases" (the comment over enqueueRun): nobody
\* waits for a key that is free while nothing is under way that could wake it.  A claim that
\* fails: a newcomer enqueues behind a holder that has released since it looked.
Quiet == \A r \in Runs :
    /\ starter[r].pc \in {"idle", "done"} /\ exec[r] = "none" /\ rel[r].pc = "none"
    /\ caller[r] = "none" /\ waiter[r] \in {"none", "await"}
NobodyStranded == Quiet /\ row = NoRun => \A r \in Runs : waiter[r] = "await" => r \in ready \cup gaveUp

\* A waiter that was abandoned, by Cancel or by its timeout, never executes, even when a
\* release is about to signal it (awaitQueueSlot, abandonQueuedRun).
AbandonedNeverRuns == \A r \in gaveUp : exec[r] = "none" /\ r \notin held
============================================================================

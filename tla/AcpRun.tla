-------------------------------- MODULE AcpRun --------------------------------
(***************************************************************************)
(* Subagent runs on external agents (infrastructure/acp/runtime.go) and    *)
(* the way their results take back to the parent room                      *)
(* (application/subagent/spawn.go, completion.go, agent/background.go).    *)
(*                                                                         *)
(* A spawn checks the cap, gets the pooled connection of the agent (or     *)
(* dials it), opens a session and registers the run.  A goroutine drives   *)
(* the prompt; a steer replaces it, a stop ends the run.  Whoever ends the *)
(* run emits done, and a goroutine delivers the result to the parent.      *)
(*                                                                         *)
(* An action is one critical section of the runtime's or the run's mutex,  *)
(* or one message to the agent.  The runs share one agent and workspace,   *)
(* hence one place in the pool, and one parent room.                       *)
(***************************************************************************)
EXTENDS Naturals, Sequences, FiniteSets

CONSTANTS
    Runs,
    MaxLive,      \* domain.MaxAcpConcurrentRuns
    MaxSteers,    \* bound: steers of a run
    MaxEvents,    \* bound: steers, stops and deaths of an agent process, of all runs together
    None

ASSUME AcpAssumption ==
    /\ IsFiniteSet(Runs) /\ None \notin Runs
    /\ MaxLive \in Nat \ {0} /\ MaxSteers \in Nat /\ MaxEvents \in Nat

VARIABLES
    spawner,    \* the goroutine of each spawn: position, and its connection
    pool,       \* rt.conns of the agent; a connection has the name of the run that dialed it
    open,       \* the connections whose agent process lives
    exits,      \* processes that have died
    lr,         \* the registered runs: liveRun
    driver,     \* the goroutines in drivePrompt of each run: 0, and one per direct steer
    steer,      \* the calls of Steer
    stop,       \* the call of Stop
    delivery,   \* calls of OnRunDone under way, per run
    tracked,    \* pendingRuns of the parent
    room,       \* whether the parent room has a turn
    queue,      \* runDone of the parent's turn
    results     \* history: subagent_result messages of the run in the parent

spawnVars == <<spawner, pool, open, exits>>
runVars == <<lr, driver, steer, stop>>
parentVars == <<delivery, tracked, room, queue, results>>
vars == <<spawner, pool, open, exits, lr, driver, steer, stop, delivery, tracked, room, queue, results>>

Drivers == 0..MaxSteers
Steers == 1..MaxSteers

LiveStatus == {"running"}
EndStatus == {"completed", "cancelled", "failed"}

Init ==
    /\ spawner = [r \in Runs |-> [pc |-> "idle", conn |-> None]]
    /\ pool = None /\ open = {} /\ exits = 0
    /\ lr = [r \in Runs |-> [status |-> "absent", closed |-> FALSE, prompting |-> FALSE, queued |-> 0]]
    /\ driver = [r \in Runs |-> [d \in Drivers |-> "none"]]
    /\ steer = [r \in Runs |-> [k \in Steers |-> "idle"]]
    /\ stop = [r \in Runs |-> "idle"]
    /\ delivery = [r \in Runs |-> 0] /\ tracked = {}
    /\ room = "turn" /\ queue = <<>> /\ results = [r \in Runs |-> 0]

Live(r) == lr[r].status \in LiveStatus
LiveRuns == {r \in Runs : Live(r)}

\* The bound on what comes from outside.
Steered == {e \in Runs \X Steers : steer[e[1]][e[2]] # "idle"}
Stopped == {r \in Runs : stop[r] # "idle"}
EventLeft == exits + Cardinality(Steered) + Cardinality(Stopped) < MaxEvents

-----------------------------------------------------------------------------
(* The spawn: SpawnSubagents and Spawn, in a tool call of the parent's     *)
(* turn.                                                                   *)

At(r, pc) == spawner[r].pc = pc
Goes(r, pc) == spawner' = [spawner EXCEPT ![r].pc = pc]

\* Mutant of Fails: the error is only returned to the tool call.
FailsSilently(r) ==
    /\ Goes(r, "refused")
    /\ UNCHANGED <<delivery, tracked, room, queue, results>>

\* A run that never came to be gets a record that is failed from the start, which is
\* tracked and handed to the parent before the tool call returns: to its live turn.
Fails(r) ==
    /\ Goes(r, "refused")
    /\ tracked' = tracked \cup {r}
    /\ queue' = Append(queue, r)
    /\ UNCHANGED <<delivery, room, results>>

\* The cap is looked at.
SpawnCheck(r) ==
    /\ At(r, "idle") /\ room = "turn"
    /\ \/ Cardinality(LiveRuns) < MaxLive /\ Goes(r, "lookup") /\ UNCHANGED parentVars
       \/ Cardinality(LiveRuns) >= MaxLive /\ Fails(r)
    /\ UNCHANGED <<pool, open, exits, runVars>>

\* ensureConn: the pooled connection, if there is one, dead or alive.
SpawnLookup(r) ==
    /\ At(r, "lookup")
    /\ spawner' = [spawner EXCEPT ![r] =
                     IF pool = None THEN [pc |-> "dial", conn |-> None]
                                    ELSE [pc |-> "session", conn |-> pool]]
    /\ UNCHANGED <<pool, open, exits, runVars, parentVars>>

\* The process is started and answers initialize, or not.
SpawnDial(r) ==
    /\ At(r, "dial")
    /\ \/ Goes(r, "pool") /\ open' = open \cup {r} /\ UNCHANGED parentVars
       \/ Fails(r) /\ open' = open
    /\ UNCHANGED <<pool, exits, runVars>>

\* Mutant of SpawnPool: the connection that lost the race is left open.
SpawnPoolLeaks(r) ==
    /\ At(r, "pool")
    /\ pool' = IF pool = None THEN r ELSE pool
    /\ spawner' = [spawner EXCEPT ![r] = [pc |-> "session", conn |-> pool']]
    /\ UNCHANGED <<open, exits, runVars, parentVars>>

\* The connection goes to the pool, unless another spawn was faster.
SpawnPool(r) ==
    /\ At(r, "pool")
    /\ pool' = IF pool = None THEN r ELSE pool
    /\ open' = IF pool = None THEN open ELSE open \ {r}
    /\ spawner' = [spawner EXCEPT ![r] = [pc |-> "session", conn |-> pool']]
    /\ UNCHANGED <<exits, runVars, parentVars>>

\* session/new and the mode, on a connection that may be dead; the run is registered.
SpawnSession(r) ==
    /\ At(r, "session")
    /\ \/ /\ spawner[r].conn \in open
          /\ Goes(r, "registered")
          /\ lr' = [lr EXCEPT ![r].status = "running"]
          /\ UNCHANGED parentVars
       \/ Fails(r) /\ lr' = lr
    /\ UNCHANGED <<pool, open, exits, driver, steer, stop>>

SpawnLaunch(r) ==
    /\ At(r, "registered")
    /\ Goes(r, "launched")
    /\ driver' = [driver EXCEPT ![r][0] = "begin"]
    /\ UNCHANGED <<pool, open, exits, lr, steer, stop, parentVars>>

\* Spawn returns a snapshot; a run that has ended already is left to its done callback.
SpawnReturn(r) ==
    /\ At(r, "launched")
    /\ Goes(r, IF Live(r) THEN "track" ELSE "returned")
    /\ UNCHANGED <<pool, open, exits, runVars, parentVars>>

SpawnTrack(r) ==
    /\ At(r, "track")
    /\ Goes(r, "returned")
    /\ tracked' = tracked \cup {r}
    /\ UNCHANGED <<pool, open, exits, runVars, delivery, room, queue, results>>

\* The process of the pooled agent dies; nothing takes it out of the pool.
AgentExit(c) ==
    /\ c \in open /\ c = pool /\ EventLeft
    /\ open' = open \ {c} /\ exits' = exits + 1
    /\ UNCHANGED <<spawner, pool, runVars, parentVars>>

-----------------------------------------------------------------------------
(* drivePrompt.                                                            *)

ConnOpen(r) == spawner[r].conn \in open

\* finishLocked: only the first one has an effect.
Finished(l, status) ==
    IF l.closed THEN l ELSE [l EXCEPT !.closed = TRUE, !.status = status]

DriverGoes(r, d, pc) == driver' = [driver EXCEPT ![r][d] = pc]

DriveBegin(r, d) ==
    /\ driver[r][d] = "begin"
    /\ IF lr[r].closed
         THEN DriverGoes(r, d, "ended") /\ lr' = lr
         ELSE DriverGoes(r, d, "send") /\ lr' = [lr EXCEPT ![r].prompting = TRUE]
    /\ UNCHANGED <<spawnVars, steer, stop, parentVars>>

\* The session/prompt reaches the agent.
DriveSend(r, d) ==
    /\ driver[r][d] = "send"
    /\ DriverGoes(r, d, "prompt")
    /\ UNCHANGED <<spawnVars, lr, steer, stop, parentVars>>

\* How the prompt can come back: a cancelled one may have ended just before.
Outcomes(r, d) ==
    {"failed"} \cup (IF ConnOpen(r) THEN {"completed"} ELSE {})
               \cup (IF ConnOpen(r) /\ driver[r][d] = "cancelling" THEN {"cancelled"} ELSE {})

\* The section after the prompt: the queued steer is taken; the run may have been ended
\* meanwhile, goes on with the steer, or ends.
Answered(l) == [l EXCEPT !.prompting = FALSE, !.queued = 0]

DriveAnswer(r, d) ==
    /\ driver[r][d] \in {"prompt", "cancelling"}
    /\ \E outcome \in Outcomes(r, d) :
          LET l == Answered(lr[r]) IN
          \/ l.closed /\ lr' = [lr EXCEPT ![r] = l] /\ DriverGoes(r, d, "ended")
          \/ /\ ~l.closed /\ outcome # "failed" /\ lr[r].queued # 0
             /\ lr' = [lr EXCEPT ![r] = [l EXCEPT !.status = "running"]]
             /\ DriverGoes(r, d, "begin")
          \/ /\ ~l.closed /\ (outcome = "failed" \/ lr[r].queued = 0)
             /\ lr' = [lr EXCEPT ![r] = Finished(l, outcome)]
             /\ DriverGoes(r, d, "emit")
    /\ UNCHANGED <<spawnVars, steer, stop, parentVars>>

\* emitDone: OnRunDone is called on a goroutine of its own.
EmitDone(r) == delivery' = [delivery EXCEPT ![r] = @ + 1]

DriveEmit(r, d) ==
    /\ driver[r][d] = "emit"
    /\ DriverGoes(r, d, "ended")
    /\ EmitDone(r)
    /\ UNCHANGED <<spawnVars, lr, steer, stop, tracked, room, queue, results>>

-----------------------------------------------------------------------------
(* Steer and Stop.                                                         *)

\* The session/cancel reaches the agent: it takes the prompts that are there by now.
CancelPrompts(r) ==
    driver' = [driver EXCEPT ![r] = [d \in Drivers |-> IF @[d] = "prompt" THEN "cancelling" ELSE @[d]]]

SteerAccept(r, k) ==
    /\ steer[r][k] = "idle" /\ EventLeft /\ lr[r].status # "absent"
    /\ \A j \in 1..k - 1 : steer[r][j] # "idle"
    /\ \/ /\ ~Live(r)
          /\ steer' = [steer EXCEPT ![r][k] = "refused"] /\ lr' = lr
       \/ /\ Live(r)
          /\ lr' = [lr EXCEPT ![r].queued = k]
          /\ steer' = [steer EXCEPT ![r][k] = IF lr[r].prompting THEN "cancel" ELSE "direct"]
    /\ UNCHANGED <<spawnVars, driver, stop, parentVars>>

SteerCancel(r, k) ==
    /\ steer[r][k] = "cancel"
    /\ steer' = [steer EXCEPT ![r][k] = "done"]
    /\ CancelPrompts(r)
    /\ UNCHANGED <<spawnVars, lr, stop, parentVars>>

\* Between prompts: the steer is sent directly.
SteerDirect(r, k) ==
    /\ steer[r][k] = "direct"
    /\ steer' = [steer EXCEPT ![r][k] = "done"]
    /\ lr' = [lr EXCEPT ![r].queued = 0]
    /\ DriverGoes(r, k, "begin")
    /\ UNCHANGED <<spawnVars, stop, parentVars>>

StopCancel(r) ==
    /\ stop[r] = "idle" /\ EventLeft /\ lr[r].status # "absent"
    /\ stop' = [stop EXCEPT ![r] = "finish"]
    /\ CancelPrompts(r)
    /\ UNCHANGED <<spawnVars, lr, steer, parentVars>>

StopFinish(r) ==
    /\ stop[r] = "finish"
    /\ stop' = [stop EXCEPT ![r] = "emit"]
    /\ lr' = [lr EXCEPT ![r] = Finished(@, "cancelled")]
    /\ UNCHANGED <<spawnVars, driver, steer, parentVars>>

StopEmit(r) ==
    /\ stop[r] = "emit"
    /\ stop' = [stop EXCEPT ![r] = "done"]
    /\ EmitDone(r)
    /\ UNCHANGED <<spawnVars, lr, driver, steer, tracked, room, queue, results>>

-----------------------------------------------------------------------------
(* The way back to the parent: OnRunDone and DeliverRunDone.               *)

Delivering(r) == delivery[r] > 0 /\ delivery' = [delivery EXCEPT ![r] = @ - 1]

\* Mutant of DeliverQueued: the result is injected into the room of a live turn.
DeliverQueuedNow(r) ==
    /\ Delivering(r) /\ room = "turn"
    /\ results' = [results EXCEPT ![r] = @ + 1]
    /\ tracked' = tracked \ {r}
    /\ UNCHANGED <<spawnVars, runVars, room, queue>>

\* The parent has a turn: the result waits for its next round boundary.
DeliverQueued(r) ==
    /\ Delivering(r) /\ room = "turn"
    /\ queue' = Append(queue, r)
    /\ UNCHANGED <<spawnVars, runVars, tracked, room, results>>

\* The parent is idle: the result is injected, and starts a turn if it was awaited.
DeliverIdle(r) ==
    /\ Delivering(r) /\ room = "idle"
    /\ results' = [results EXCEPT ![r] = @ + 1]
    /\ tracked' = tracked \ {r}
    /\ room' = IF r \in tracked THEN "turn" ELSE room
    /\ UNCHANGED <<spawnVars, runVars, queue>>

\* No tool call is under way: the turn is at a round boundary.
Boundary == room = "turn" /\ \A r \in Runs : spawner[r].pc \in {"idle", "refused", "returned"}

TurnTakes ==
    /\ Boundary /\ queue # <<>>
    /\ results' = [results EXCEPT ![Head(queue)] = @ + 1]
    /\ tracked' = tracked \ {Head(queue)}
    /\ queue' = Tail(queue)
    /\ UNCHANGED <<spawnVars, runVars, delivery, room>>

TurnEnds ==
    /\ Boundary /\ queue = <<>>
    /\ room' = "idle"
    /\ UNCHANGED <<spawnVars, runVars, delivery, tracked, queue, results>>

\* A user starts a turn.
TurnStarts ==
    /\ room = "idle" /\ \E r \in Runs : At(r, "idle")
    /\ room' = "turn"
    /\ UNCHANGED <<spawnVars, runVars, delivery, tracked, queue, results>>

-----------------------------------------------------------------------------
Spawning(r) ==
    \/ SpawnLookup(r) \/ SpawnDial(r) \/ SpawnPool(r) \/ SpawnSession(r)
    \/ SpawnLaunch(r) \/ SpawnReturn(r) \/ SpawnTrack(r)

Driving(r, d) == DriveBegin(r, d) \/ DriveSend(r, d) \/ DriveEmit(r, d)

Steering(r, k) == SteerCancel(r, k) \/ SteerDirect(r, k)

Stopping(r) == StopFinish(r) \/ StopEmit(r)

Next ==
    \/ \E r \in Runs :
          \/ SpawnCheck(r) \/ Spawning(r) \/ AgentExit(r)
          \/ \E d \in Drivers : Driving(r, d) \/ DriveAnswer(r, d)
          \/ \E k \in Steers : SteerAccept(r, k) \/ Steering(r, k)
          \/ StopCancel(r) \/ Stopping(r)
          \/ DeliverQueued(r) \/ DeliverIdle(r)
    \/ TurnTakes \/ TurnEnds \/ TurnStarts

Spec == Init /\ [][Next]_vars

\* Goroutines run on.  The agent need not answer; nobody has to spawn, steer or stop.
FairSpec ==
    /\ Spec
    /\ \A r \in Runs :
          /\ WF_vars(Spawning(r)) /\ WF_vars(Stopping(r))
          /\ WF_vars(DeliverQueued(r) \/ DeliverIdle(r))
          /\ \A d \in Drivers : WF_vars(Driving(r, d))
          /\ \A k \in Steers : WF_vars(Steering(r, k))
    /\ WF_vars(TurnTakes)

-----------------------------------------------------------------------------
(* Properties.                                                             *)

TypeOK ==
    /\ spawner \in [Runs -> [pc : {"idle", "lookup", "dial", "pool", "session", "registered",
                                   "launched", "track", "returned", "refused"},
                             conn : Runs \cup {None}]]
    /\ pool \in Runs \cup {None} /\ open \subseteq Runs /\ exits \in 0..MaxEvents
    /\ lr \in [Runs -> [status : {"absent"} \cup LiveStatus \cup EndStatus, closed : BOOLEAN,
                        prompting : BOOLEAN, queued : 0..MaxSteers]]
    /\ driver \in [Runs -> [Drivers -> {"none", "begin", "send", "prompt", "cancelling", "emit",
                                        "ended"}]]
    /\ steer \in [Runs -> [Steers -> {"idle", "refused", "cancel", "direct", "done"}]]
    /\ stop \in [Runs -> {"idle", "finish", "emit", "done"}]
    /\ delivery \in [Runs -> Nat] /\ results \in [Runs -> Nat]
    /\ tracked \subseteq Runs /\ room \in {"turn", "idle"} /\ queue \in Seq(Runs)

\* Every agent process is the pooled one or about to be pooled or closed: two spawns that
\* dial at once leave no process behind that nobody can reach.
NoStrayProcess == \A c \in open : pool = c \/ At(c, "pool")

\* A tracked run is live or its result is on the way: otherwise the parent would be told
\* for ever that it still waits for a background run, and never continue by itself.
Underway(r) ==
    \/ Live(r) \/ delivery[r] > 0 \/ stop[r] \in {"finish", "emit"}
    \/ \E i \in DOMAIN queue : queue[i] = r
    \/ \E d \in Drivers : driver[r][d] = "emit"
NoStaleTracking == \A r \in tracked : Underway(r)

\* However a run ends (by itself, with its process, by a stop, or before it began), its
\* result reaches the parent.
ResultArrives ==
    \A r \in Runs : (lr[r].closed \/ At(r, "refused")) ~> results[r] > 0

-----------------------------------------------------------------------------
(* What comments of the code say and the model does not confirm (README,    *)
(* section 7).                                                              *)

\* "MaxAcpConcurrentRuns caps live ACP sessions process-wide."
LiveCapped == Cardinality(LiveRuns) <= MaxLive

\* A steer "replaces the turn with session/prompt(text) on the same session (the run stays
\* open)": a run that nobody stopped does not end as cancelled.
SteerKeepsOpen == \A r \in Runs : lr[r].status = "cancelled" => stop[r] # "idle"

\* The result of a run is delivered once: a second delivery is what SpawnSubagents takes
\* care to avoid ("would double-deliver the result").
DeliveredOnce == \A r \in Runs : results[r] <= 1

=============================================================================

------------------------------ MODULE DelegateRun ------------------------------
(***************************************************************************)
(* One internal delegate run (application/subagent/delegate_runtime.go).   *)
(* A goroutine runs a headless turn and seals the run; a heartbeat and a   *)
(* coalescing timer publish snapshots of it; callers wait for it and stop  *)
(* it.  Everything done under DelegateRuntime.mu is one step.              *)
(*                                                                         *)
(* The transcript is the number of chunks in it.  An emitted snapshot is   *)
(* its event and the number of chunks it shows.  The names of this module  *)
(* differ from those of RunStream, to which the snapshots go.              *)
(***************************************************************************)
EXTENDS Naturals, FiniteSets

CONSTANTS
    Callers,       \* calls of Wait and of Stop
    MaxChunks,     \* bound: transcript chunks of the turn
    MaxTicks,      \* bound: ticks of the heartbeat
    MaxTimers      \* bound: callbacks of timers still to come when a chunk arms one more

ASSUME DelegateAssumption ==
    IsFiniteSet(Callers) /\ MaxChunks \in Nat /\ MaxTicks \in Nat /\ MaxTimers \in Nat \ {0}

VARIABLES
    status,      \* run.Status; "none" before the run is registered
    pc,          \* where exec is
    chunks,      \* the transcript of the run
    read,        \* the transcript attachConversation has read and not stored yet, if any
    cancelled,   \* the context of the run is done
    emitDirty,   \* a change is left to the timer
    armed,       \* emitTimer is not nil
    timers,      \* timers whose callback is still to come, stopped ones apart
    heart,       \* the heartbeat goroutine
    beating,     \* its stop channel is open
    ticks,       \* ticks so far
    done,        \* the snapshot in the done channel
    event,       \* the last event published for the run
    emitted,     \* the chunks it showed
    delivered,   \* OnRunDone has been given the run
    call         \* the calls of Wait and Stop

runVars == <<status, chunks, cancelled>>
timerVars == <<emitDirty, armed, timers>>
heartVars == <<heart, beating, ticks>>
outVars == <<event, emitted>>
delegateVars == <<status, pc, chunks, read, cancelled, emitDirty, armed, timers,
                  heart, beating, ticks, done, event, emitted, delivered, call>>

Terminal == {"completed", "failed", "cancelled"}
Live == status = "running"

DelegateInit ==
    /\ status = "none" /\ pc = "none" /\ chunks = 0 /\ read = {} /\ cancelled = FALSE
    /\ emitDirty = FALSE /\ armed = FALSE /\ timers = 0
    /\ heart = "none" /\ beating = FALSE /\ ticks = 0 /\ done = "none"
    /\ event = "none" /\ emitted = 0 /\ delivered = FALSE
    /\ call = [c \in Callers |-> "none"]

\* EmitRun with a clone of the run.
EmitRun(e) == event' = e /\ emitted' = chunks'

\* disarmDelegateEmitLocked: a timer that has fired already keeps its callback.
Disarm ==
    /\ emitDirty' = FALSE /\ armed' = FALSE
    /\ timers' \in IF armed THEN {timers, timers - 1} ELSE {timers}

-----------------------------------------------------------------------------
(* The run.                                                                *)

SpawnDelegate ==
    /\ status = "none"
    /\ status' = "running" /\ pc' = "announce"
    /\ UNCHANGED <<chunks, read, cancelled, timerVars, heartVars, done, outVars, delivered, call>>

SpawnEmit ==
    /\ pc = "announce" /\ pc' = "begin"
    /\ chunks' = chunks /\ EmitRun("started")
    /\ heart' = "wait" /\ beating' = TRUE
    /\ UNCHANGED <<status, read, cancelled, timerVars, ticks, done, delivered, call>>

\* Mutant of UpdateActivity: it does not ask whether the run is live.
UpdateActivityAlways ==
    /\ chunks' = chunks /\ Disarm /\ EmitRun("updated")

\* updateActivity
UpdateActivity ==
    /\ chunks' = chunks
    /\ IF Live THEN Disarm /\ EmitRun("updated") ELSE UNCHANGED <<timerVars, outVars>>

Think ==
    /\ pc = "begin" /\ pc' = "turn"
    /\ UpdateActivity
    /\ UNCHANGED <<status, read, cancelled, heartVars, done, delivered, call>>

\* One timer per run, for the first chunk since the last snapshot.
ArmTimer ==
    IF armed THEN UNCHANGED <<armed, timers>> ELSE armed' = TRUE /\ timers' = timers + 1

\* appendTranscript
AppendTranscript ==
    /\ pc = "turn" /\ read = {} /\ Live
    /\ chunks < MaxChunks /\ (armed \/ timers < MaxTimers)
    /\ chunks' = chunks + 1
    /\ emitDirty' = TRUE /\ ArmTimer
    /\ UNCHANGED <<status, pc, read, cancelled, heartVars, done, outVars, delivered, call>>

\* attachConversation reads the stored conversation without the lock: it may be behind
\* the stream.
AttachRead ==
    /\ pc = "turn" /\ read = {} /\ Live
    /\ \E n \in 0..MaxChunks : read' = {n}
    /\ UNCHANGED <<runVars, pc, timerVars, heartVars, done, outVars, delivered, call>>

AttachWrite ==
    /\ pc = "turn" /\ read # {} /\ Live
    /\ chunks' \in read /\ read' = {}
    /\ Disarm /\ EmitRun("updated")
    /\ UNCHANGED <<status, pc, cancelled, heartVars, done, delivered, call>>

\* The headless turn returns, by itself or since its context is done.
TurnReturns ==
    /\ pc = "turn" /\ read = {}
    /\ pc' \in {"ok", "error"}
    /\ beating' = FALSE
    /\ UNCHANGED <<runVars, read, timerVars, heart, ticks, done, outVars, delivered, call>>

Finalizing ==
    /\ pc \in {"ok", "error"}
    /\ pc' = IF pc = "ok" THEN "seal" ELSE "seal_error"
    /\ UpdateActivity
    /\ UNCHANGED <<status, read, cancelled, heartVars, done, delivered, call>>

Outcome == IF cancelled THEN "cancelled" ELSE IF pc = "seal_error" THEN "failed" ELSE "completed"

\* finish, under the lock; the transcript is that of the stored conversation, if it is there.
Seal ==
    /\ pc \in {"seal", "seal_error"} /\ pc' = "send"
    /\ status' = Outcome /\ chunks' \in 0..MaxChunks
    /\ Disarm
    /\ UNCHANGED <<read, cancelled, heartVars, done, outVars, delivered, call>>

\* Mutant of SendDone: only a run that completed is announced on the channel.
SendCompleted ==
    /\ pc = "send" /\ pc' = "emit"
    /\ done' = IF status = "completed" THEN status ELSE done
    /\ UNCHANGED <<runVars, read, timerVars, heartVars, outVars, delivered, call>>

\* The channel holds one snapshot; a full one is left as it is.
SendDone ==
    /\ pc = "send" /\ pc' = "emit"
    /\ done' = IF done = "none" THEN status ELSE done
    /\ UNCHANGED <<runVars, read, timerVars, heartVars, outVars, delivered, call>>

EmitDone ==
    /\ pc = "emit" /\ pc' = "deliver"
    /\ chunks' = chunks /\ EmitRun("done")
    /\ UNCHANGED <<status, read, cancelled, timerVars, heartVars, done, delivered, call>>

OnRunDone ==
    /\ pc = "deliver" /\ pc' = "end"
    /\ delivered' = TRUE
    /\ UNCHANGED <<runVars, read, timerVars, heartVars, done, outVars, call>>

-----------------------------------------------------------------------------
(* The coalescing timer and the heartbeat.                                 *)

\* Mutant of FlushDelegateEmit: the timer stays set, so that no later chunk arms one.
FlushDelegateEmitKeeps ==
    /\ timers > 0 /\ timers' = timers - 1
    /\ chunks' = chunks /\ armed' = armed
    /\ IF emitDirty THEN emitDirty' = FALSE /\ EmitRun("updated") ELSE UNCHANGED <<emitDirty, outVars>>
    /\ UNCHANGED <<status, pc, read, cancelled, heartVars, done, delivered, call>>

\* flushDelegateEmit; a callback whose run is not dirty does nothing.
FlushDelegateEmit ==
    /\ timers > 0 /\ timers' = timers - 1
    /\ chunks' = chunks
    /\ IF emitDirty THEN emitDirty' = FALSE /\ armed' = FALSE /\ EmitRun("updated")
                ELSE UNCHANGED <<emitDirty, armed, outVars>>
    /\ UNCHANGED <<status, pc, read, cancelled, heartVars, done, delivered, call>>

\* The select takes a tick although it has been told to stop.
HeartTick ==
    /\ heart = "wait" /\ ticks < MaxTicks
    /\ heart' = "due" /\ ticks' = ticks + 1
    /\ UNCHANGED <<runVars, pc, read, timerVars, beating, done, outVars, delivered, call>>

HeartBeat ==
    /\ heart = "due" /\ heart' = "wait"
    /\ UpdateActivity
    /\ UNCHANGED <<status, pc, read, cancelled, beating, ticks, done, delivered, call>>

HeartStop ==
    /\ heart = "wait" /\ (~beating \/ cancelled)
    /\ heart' = "end"
    /\ UNCHANGED <<runVars, pc, read, timerVars, beating, ticks, done, outVars, delivered, call>>

-----------------------------------------------------------------------------
(* Wait, Stop and Close.                                                   *)

Calling(c, to) == call' = [call EXCEPT ![c] = to]

\* Wait and Stop look at the run; an ended one answers at once.
WaitLook(c) ==
    /\ call[c] = "none" /\ status # "none"
    /\ Calling(c, IF Live THEN "waiting" ELSE "returned")
    /\ UNCHANGED <<runVars, pc, read, timerVars, heartVars, done, outVars, delivered>>

StopLook(c) ==
    /\ call[c] = "none" /\ status # "none"
    /\ Calling(c, IF Live THEN "cancelling" ELSE "returned")
    /\ UNCHANGED <<runVars, pc, read, timerVars, heartVars, done, outVars, delivered>>

\* The run may have ended between the look and the cancel.
StopCancel(c) ==
    /\ call[c] = "cancelling" /\ Calling(c, "stopping")
    /\ cancelled' = TRUE
    /\ UNCHANGED <<status, chunks, pc, read, timerVars, heartVars, done, outVars, delivered>>

\* A receive takes the snapshot out of the channel.
Receive(c) ==
    /\ call[c] \in {"waiting", "stopping"} /\ done # "none"
    /\ Calling(c, "received") /\ done' = "none"
    /\ UNCHANGED <<runVars, pc, read, timerVars, heartVars, outVars, delivered>>

\* The context of a Wait expires.
WaitExpires(c) ==
    /\ call[c] = "waiting" /\ Calling(c, "expired")
    /\ UNCHANGED <<runVars, pc, read, timerVars, heartVars, done, outVars, delivered>>

\* Stop waits no longer than 10 seconds.
StopGivesUp(c) ==
    /\ call[c] = "stopping" /\ Calling(c, "expired")
    /\ UNCHANGED <<runVars, pc, read, timerVars, heartVars, done, outVars, delivered>>

\* Close of the runtime cancels a live run.
CloseRuntime ==
    /\ Live /\ ~cancelled /\ cancelled' = TRUE
    /\ UNCHANGED <<status, chunks, pc, read, timerVars, heartVars, done, outVars, delivered, call>>

-----------------------------------------------------------------------------
Exec == \/ SpawnEmit \/ Think \/ AttachWrite \/ TurnReturns \/ Finalizing
        \/ Seal \/ SendDone \/ EmitDone \/ OnRunDone
Heartbeat == HeartTick \/ HeartBeat \/ HeartStop

DelegateNext ==
    \/ SpawnDelegate \/ Exec \/ AppendTranscript \/ AttachRead
    \/ FlushDelegateEmit \/ Heartbeat \/ CloseRuntime
    \/ \E c \in Callers :
          \/ WaitLook(c) \/ StopLook(c) \/ StopCancel(c) \/ Receive(c)
          \/ WaitExpires(c) \/ StopGivesUp(c)

DelegateSpec == DelegateInit /\ [][DelegateNext]_delegateVars

\* The goroutine runs on, its turn returns, timers fire, and a receive that stays possible
\* is made; the context of a Wait need not expire.
DelegateFairSpec ==
    /\ DelegateSpec
    /\ WF_delegateVars(Exec) /\ SF_delegateVars(TurnReturns)
    /\ WF_delegateVars(FlushDelegateEmit)
    /\ \A c \in Callers :
          WF_delegateVars(StopCancel(c)) /\ WF_delegateVars(Receive(c)) /\ WF_delegateVars(StopGivesUp(c))

-----------------------------------------------------------------------------
(* Properties.                                                             *)

DelegateTypeOK ==
    /\ status \in Terminal \cup {"none", "running"}
    /\ pc \in {"none", "announce", "begin", "turn", "ok", "error", "seal", "seal_error", "send",
               "emit", "deliver", "end"}
    /\ chunks \in 0..MaxChunks /\ emitted \in 0..MaxChunks /\ read \subseteq 0..MaxChunks
    /\ cancelled \in BOOLEAN /\ emitDirty \in BOOLEAN /\ armed \in BOOLEAN /\ timers \in 0..MaxTimers
    /\ heart \in {"none", "wait", "due", "end"} /\ beating \in BOOLEAN /\ ticks \in 0..MaxTicks
    /\ done \in Terminal \cup {"none"} /\ event \in {"none", "started", "updated", "done"}
    /\ delivered \in BOOLEAN
    /\ call \in [Callers -> {"none", "waiting", "cancelling", "stopping", "received", "returned", "expired"}]

\* A pending coalesced update "must not fire after done": nothing is published for the run
\* behind its done event, though a fired timer's callback and a late heartbeat may be left.
DoneIsLast == [][event = "done" => UNCHANGED outVars]_delegateVars

\* What the live transcript has and its last snapshot has not is on its way: the run is
\* dirty, and a callback is still to come that finds it so.
PendingHasTimer == (event # "none" /\ status = "running" /\ emitted # chunks) => emitDirty /\ timers > 0

\* The end of the run is not lost on those who wait for it: once the run is terminal, a call
\* of Wait returns, unless another Wait or Stop took the one snapshot the channel holds, by a
\* cancel that races the run's own end or not.
WaitAnswered ==
    \A c \in Callers :
        (call[c] = "waiting" /\ status \in Terminal) ~>
            (call[c] # "waiting" \/ \E o \in Callers \ {c} : call[o] = "received")

\* Wait "blocks until the run is terminal or ctx expires" (the comment over Wait): once the
\* run is terminal, every call that waits on it returns, although its context does not expire.
\* A claim that fails: there is one snapshot, and two callers may wait for it.
WaitReturns == \A c \in Callers : (call[c] = "waiting" /\ status \in Terminal) ~> call[c] # "waiting"

=============================================================================

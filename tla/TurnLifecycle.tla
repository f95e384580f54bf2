--------------------------- MODULE TurnLifecycle ---------------------------
(***************************************************************************)
(* The turns of one conversation room (application/agent).  A user starts  *)
(* a turn; its goroutine streams rounds, executes tools, and at every      *)
(* round boundary injects what has arrived: results of background jobs,    *)
(* announcements and the user's steer.  Publishers queue announcements on  *)
(* the stored conversation, finished jobs deliver their results, and both  *)
(* wake an idle room.  Every writer loads the whole conversation, changes  *)
(* its copy and saves the whole copy, under the turn lock, the             *)
(* announcement lock, or both.                                             *)
(*                                                                         *)
(* The room exists, has a user message and is not renamed or deleted.      *)
(***************************************************************************)
EXTENDS Integers, Sequences, FiniteSets

CONSTANTS
    Notes,          \* announcements; each is published once
    NoteKind,       \* [Notes -> {"peer", "wake", "plain"}]: peer_message, automation_event, other
    Jobs,           \* background jobs (subagents, delegates) a tool may launch
    Steers,         \* steer messages of the user
    MaxRuns,        \* bound on the number of turns
    Nobody,         \* no holder, no run, no steer
    User,           \* the goroutine of HandleTurnsStart
    Compactor,      \* the goroutine of a manual compaction
    MaxPending,     \* maxPendingAnnouncements
    MaxRounds,      \* settings.MaxToolRounds
    MaxContinues,   \* settings.MaxAutoContinues
    MaxStarts,      \* bound on the turns users start
    MaxStops,       \* bound on the turns users stop
    MaxCompactions, \* bound on manual compactions
    MaxFaults,      \* bound on provider errors, store errors and panics
    MaxCrashes      \* bound on crashes

ASSUME TurnAssumption ==
    /\ NoteKind \in [Notes -> {"peer", "wake", "plain"}]
    /\ MaxRuns \in Nat
    /\ MaxPending \in Nat \ {0}
    /\ MaxRounds \in Nat /\ MaxContinues \in Nat
    /\ MaxStarts \in Nat /\ MaxStops \in Nat /\ MaxCompactions \in Nat
    /\ MaxFaults \in Nat /\ MaxCrashes \in Nat

Runs == 1..MaxRuns
Facts == Notes \cup Jobs \cup Steers
Wakers == Notes \cup Jobs \cup Runs
Actors == Wakers \cup {User, Compactor}

\* Goroutines are not mistaken for each other.
ASSUME NamesAssumption ==
    /\ Nobody \notin Actors \cup Steers
    /\ User # Compactor /\ User \notin Wakers /\ Compactor \notin Wakers
    /\ Notes \cap Jobs = {} /\ Notes \cap Runs = {} /\ Jobs \cap Runs = {}

VARIABLES
    conv,       \* the stored conversation
    runs,       \* registered runs
    turn,       \* per run, its goroutine and its TurnRun
    pub,        \* per note, its publisher
    job,        \* per job, the job and then the goroutine that delivers it
    wake,       \* per waker, its call of startIdleConversationTurn
    usr,        \* the goroutine of HandleTurnsStart
    cmp,        \* the goroutine of HandleConversationsCompact
    str,        \* per steer, its HandleTurnsSteer call and what became of it
    startMu, turnLock, annLock,
    tracked,    \* pendingRuns: jobs launched and not yet delivered
    clash,      \* history: a save overwrote what its copy had not seen
    acked,      \* history: notes whose queue write was acknowledged
    dropped,    \* history: notes that fell off a full queue
    starts, stops, compactions, faults, crashes

locks == <<startMu, turnLock, annLock>>
history == <<clash, acked, dropped>>
bounds == <<starts, stops, compactions, crashes>>
goroutines == <<turn, pub, job, wake, usr, cmp, str>>
vars == <<conv, runs, goroutines, locks, tracked, history, bounds, faults>>

-----------------------------------------------------------------------------
(* The stored conversation.                                                *)

Conversation == [status : {"idle", "running"}, pend : Seq(Notes), log : Seq(Facts)]
NoConv == [status |-> "none", pend |-> <<>>, log |-> <<>>]

\* QueueAnnouncement and the cap of the pending queue.
QueueAnnouncement(c, n) ==
    LET q == Append(c.pend, n)
    IN  [c EXCEPT !.pend = IF Len(q) > MaxPending THEN Tail(q) ELSE q]

\* DrainPendingAnnouncements: all notes are injected as one message.
DrainPendingAnnouncements(c) == [c EXCEPT !.pend = <<>>, !.log = @ \o c.pend]

Add(c, f) == [c EXCEPT !.log = Append(@, f)]

SetStatus(c, s) == [c EXCEPT !.status = s]

InLog(f) == \E i \in 1..Len(conv.log) : conv.log[i] = f
InPend(n) == \E i \in 1..Len(conv.pend) : conv.pend[i] = n

\* Save replaces the stored conversation by the copy c made from the snapshot.
Save(snap, c) == conv' = c /\ clash' = (clash \/ snap # conv)

NewTurn == [pc |-> "new", snap |-> NoConv, tool |-> FALSE, injected |-> FALSE,
            rounds |-> 0, chain |-> 0, todo |-> <<>>, queue |-> <<>>,
            steer |-> Nobody, hand |-> Nobody, stopped |-> FALSE, flushed |-> FALSE]
Idle == [pc |-> "idle", snap |-> NoConv]

Writing == {"persist", "toolsave", "result", "steering", "next", "compact", "finish",
            "boundary", "append", "fail", "left", "recover"}
\* Where a queued steer is still certain to be drained or discarded.
BeforeDiscard == {"enter", "stream", "persist", "tools", "ask", "toolsave", "results", "result",
                  "drain", "steer", "steering", "settle", "next", "compact", "finish",
                  "discard", "fail", "failed"}
InTurn == {"stream", "persist", "tools", "ask", "toolsave", "results", "result", "drain",
           "steer", "steering", "settle", "next", "compact", "finish", "discard", "decide",
           "boundary", "append", "chain", "fail", "failed"}
TurnPcs == InTurn \cup {"new", "enter", "cleanup", "left", "recover", "unlock", "wake", "done"}
Snaps == Conversation \cup {NoConv}

TurnRec == [pc : TurnPcs, snap : Snaps, tool : BOOLEAN, injected : BOOLEAN,
            rounds : Nat, chain : Nat, todo : Seq(Jobs), queue : Seq(Jobs),
            steer : Steers \cup {Nobody}, hand : Steers \cup {Nobody},
            stopped : BOOLEAN, flushed : BOOLEAN]
PubRec == [pc : {"idle", "save", "done"}, snap : Snaps]
JobRec == [pc : {"idle", "live", "wait", "save", "done", "lost"}, snap : Snaps]
WakeRec == [pc : {"no", "want", "turn", "go"}, peer : BOOLEAN]
UsrRec == [pc : {"idle", "turn", "save"}, snap : Snaps]
CmpRec == [pc : {"idle", "turn", "call", "save", "clear"}, snap : Snaps]
SteerRec == [pc : {"idle", "look", "queued", "rejected", "applied", "cancelled", "lost"},
             run : Runs \cup {Nobody}, late : BOOLEAN]

TypeOK ==
    /\ conv \in Conversation /\ runs \subseteq Runs
    /\ turn \in [Runs -> TurnRec]
    /\ pub \in [Notes -> PubRec] /\ job \in [Jobs -> JobRec] /\ wake \in [Wakers -> WakeRec]
    /\ usr \in UsrRec /\ cmp \in CmpRec /\ str \in [Steers -> SteerRec]
    /\ {startMu, turnLock, annLock} \subseteq Actors \cup {Nobody}
    /\ tracked \subseteq Jobs
    /\ clash \in BOOLEAN /\ acked \subseteq Notes /\ dropped \subseteq Notes
    /\ starts \in 0..MaxStarts /\ stops \in 0..MaxStops
    /\ compactions \in 0..MaxCompactions
    /\ faults \in 0..MaxFaults /\ crashes \in 0..MaxCrashes

Init ==
    /\ conv = [status |-> "idle", pend |-> <<>>, log |-> <<>>]
    /\ runs = {} /\ turn = [r \in Runs |-> NewTurn]
    /\ pub = [n \in Notes |-> Idle] /\ job = [j \in Jobs |-> Idle]
    /\ wake = [p \in Wakers |-> [pc |-> "no", peer |-> FALSE]]
    /\ usr = Idle /\ cmp = Idle
    /\ str = [s \in Steers |-> [pc |-> "idle", run |-> Nobody, late |-> FALSE]]
    /\ startMu = Nobody /\ turnLock = Nobody /\ annLock = Nobody
    /\ tracked = {} /\ clash = FALSE /\ acked = {} /\ dropped = {}
    /\ starts = 0 /\ stops = 0 /\ compactions = 0 /\ faults = 0 /\ crashes = 0

NoFault == faults' = faults
AFault == faults < MaxFaults /\ faults' = faults + 1

\* A run is registered for an unused id and its goroutine launched.
Fresh == CHOOSE r \in Runs : turn[r].pc = "new"
HasFresh == \E r \in Runs : turn[r].pc = "new"
Launch == runs' = runs \cup {Fresh} /\ turn' = [turn EXCEPT ![Fresh].pc = "enter"]

-----------------------------------------------------------------------------
(* HandleTurnsStart: drains the queue with the turn lock only.             *)

UserStart ==
    /\ usr.pc = "idle" /\ starts < MaxStarts /\ starts' = starts + 1
    /\ startMu = Nobody /\ runs = {} /\ cmp.pc = "idle"
    /\ startMu' = User /\ usr' = [usr EXCEPT !.pc = "turn"]
    /\ NoFault
    /\ UNCHANGED <<conv, runs, turn, pub, job, wake, cmp, str, turnLock, annLock, tracked,
                   history, stops, compactions, crashes>>

UserLoad ==
    /\ usr.pc = "turn" /\ turnLock = Nobody
    /\ turnLock' = User /\ usr' = [pc |-> "save", snap |-> conv]
    /\ NoFault
    /\ UNCHANGED <<conv, runs, turn, pub, job, wake, cmp, str, startMu, annLock, tracked,
                   history, bounds>>

\* A stale running status is healed; a failing save starts nothing.
UserSave ==
    /\ usr.pc = "save"
    /\ \/ /\ HasFresh /\ NoFault
          /\ Save(usr.snap, SetStatus(DrainPendingAnnouncements(usr.snap), "running"))
          /\ Launch
       \/ AFault /\ UNCHANGED <<conv, clash, runs, turn>>
    /\ usr' = Idle /\ startMu' = Nobody /\ turnLock' = Nobody
    /\ UNCHANGED <<pub, job, wake, cmp, str, annLock, tracked, acked, dropped, bounds>>

-----------------------------------------------------------------------------
(* startIdleConversationTurn, called by publishers, by deliverers and by   *)
(* the cleanup of a turn.                                                  *)

Call(p, peer) == wake' = [wake EXCEPT ![p] = [pc |-> "want", peer |-> peer]]
Return(p) == wake' = [wake EXCEPT ![p].pc = "no"]

\* Mutant: the registry is read before the start lock is taken.
WakeEnterUnlocked(p) ==
    /\ wake[p].pc = "want"
    /\ IF runs # {} \/ cmp.pc # "idle"
       THEN Return(p) ELSE wake' = [wake EXCEPT ![p].pc = "turn"]
    /\ startMu' = startMu
    /\ NoFault
    /\ UNCHANGED <<conv, runs, turn, pub, job, usr, cmp, str, turnLock, annLock, tracked,
                   history, bounds>>

WakeEnter(p) ==
    /\ wake[p].pc = "want" /\ startMu = Nobody
    /\ IF runs # {} \/ cmp.pc # "idle"
       THEN Return(p) /\ startMu' = startMu
       ELSE wake' = [wake EXCEPT ![p].pc = "turn"] /\ startMu' = p
    /\ NoFault
    /\ UNCHANGED <<conv, runs, turn, pub, job, usr, cmp, str, turnLock, annLock, tracked,
                   history, bounds>>

WakeTurn(p) ==
    /\ wake[p].pc = "turn" /\ turnLock = Nobody
    /\ IF runs # {}
       THEN Return(p) /\ startMu' = Nobody /\ turnLock' = turnLock
       ELSE wake' = [wake EXCEPT ![p].pc = "go"] /\ turnLock' = p /\ startMu' = startMu
    /\ NoFault
    /\ UNCHANGED <<conv, runs, turn, pub, job, usr, cmp, str, annLock, tracked, history, bounds>>

\* With all three locks held.  Only a peer wake heals a stale running status.
Startable(peer) ==
    /\ conv.status = "idle" \/ peer
    /\ peer => \E i \in 1..Len(conv.pend) : NoteKind[conv.pend[i]] = "peer"

WakeGo(p) ==
    /\ wake[p].pc = "go" /\ annLock = Nobody
    /\ \/ /\ Startable(wake[p].peer) /\ HasFresh /\ NoFault /\ Launch
          /\ Save(conv, SetStatus(DrainPendingAnnouncements(conv), "running"))
       \/ ~Startable(wake[p].peer) /\ NoFault /\ UNCHANGED <<conv, clash, runs, turn>>
       \/ Startable(wake[p].peer) /\ AFault /\ UNCHANGED <<conv, clash, runs, turn>>
    /\ Return(p) /\ startMu' = Nobody /\ turnLock' = Nobody
    /\ UNCHANGED <<pub, job, usr, cmp, str, annLock, tracked, acked, dropped, bounds>>

-----------------------------------------------------------------------------
(* queueAnnouncement, with the announcement lock only; DeliverPeerMessage  *)
(* and DeliverAutomationWake then wake the room.                           *)

PubLoad(n) ==
    /\ pub[n].pc = "idle" /\ annLock = Nobody
    /\ annLock' = n /\ pub' = [pub EXCEPT ![n] = [pc |-> "save", snap |-> conv]]
    /\ NoFault
    /\ UNCHANGED <<conv, runs, turn, job, wake, usr, cmp, str, startMu, turnLock, tracked,
                   history, bounds>>

PubSave(n) ==
    /\ pub[n].pc = "save"
    /\ \/ /\ NoFault
          /\ LET c == QueueAnnouncement(pub[n].snap, n)
             IN  /\ Save(pub[n].snap, c)
                 /\ dropped' = IF Len(c.pend) > Len(pub[n].snap.pend) THEN dropped
                               ELSE dropped \cup {pub[n].snap.pend[1]}
          /\ acked' = acked \cup {n}
          /\ IF NoteKind[n] = "plain" THEN wake' = wake ELSE Call(n, NoteKind[n] = "peer")
       \/ AFault /\ UNCHANGED <<conv, history, wake>>
    /\ annLock' = Nobody /\ pub' = [pub EXCEPT ![n] = [pc |-> "done", snap |-> NoConv]]
    /\ UNCHANGED <<runs, turn, job, usr, cmp, str, startMu, turnLock, tracked, bounds>>

-----------------------------------------------------------------------------
(* DeliverRunDone.                                                         *)

SetJobPc(j, pc, snap) == job' = [job EXCEPT ![j] = [pc |-> pc, snap |-> snap]]

\* One critical section of runsMu: queued on the active turn, if there is one.
JobDone(j) ==
    /\ job[j].pc = "live"
    /\ \/ \E r \in runs : /\ turn' = [turn EXCEPT ![r].queue = Append(@, j)]
                          /\ SetJobPc(j, "done", NoConv)
       \/ runs = {} /\ turn' = turn /\ SetJobPc(j, "wait", NoConv)
    /\ NoFault
    /\ UNCHANGED <<conv, runs, pub, wake, usr, cmp, str, locks, tracked, history, bounds>>

JobLoad(j) ==
    /\ job[j].pc = "wait" /\ turnLock = Nobody
    /\ turnLock' = j /\ SetJobPc(j, "save", conv)
    /\ NoFault
    /\ UNCHANGED <<conv, runs, turn, pub, wake, usr, cmp, str, startMu, annLock, tracked,
                   history, bounds>>

\* Complete and UntrackPendingRun.  A failed one is logged and given up.
JobSave(j) ==
    /\ job[j].pc = "save"
    /\ \/ /\ NoFault /\ Save(job[j].snap, Add(job[j].snap, j))
          /\ tracked' = tracked \ {j} /\ Call(j, FALSE) /\ SetJobPc(j, "done", NoConv)
       \/ AFault /\ SetJobPc(j, "lost", NoConv) /\ UNCHANGED <<conv, clash, tracked, wake>>
    /\ turnLock' = Nobody
    /\ UNCHANGED <<runs, turn, pub, usr, cmp, str, startMu, annLock, acked, dropped, bounds>>

-----------------------------------------------------------------------------
(* RunTurn: the goroutine of a run.  It holds the turn lock throughout.    *)

\* The other variables of a step that touches only the goroutine.
Local == /\ NoFault
         /\ UNCHANGED <<conv, runs, pub, job, wake, usr, cmp, str, locks, tracked, history, bounds>>

Goto(r, pc) == turn' = [turn EXCEPT ![r].pc = pc]

TurnEnter(r) ==
    /\ turn[r].pc = "enter" /\ turnLock = Nobody /\ turnLock' = r
    /\ Goto(r, "stream")
    /\ NoFault
    /\ UNCHANGED <<conv, runs, pub, job, wake, usr, cmp, str, startMu, annLock, tracked,
                   history, bounds>>

\* One provider request: interrupted, answered with tool calls, or terminal.
TurnStream(r) ==
    /\ turn[r].pc = "stream" /\ Local
    /\ \/ turn[r].stopped /\ Goto(r, "fail")
       \/ /\ ~turn[r].stopped /\ turn[r].rounds < MaxRounds
          /\ turn' = [turn EXCEPT ![r].pc = "persist", ![r].tool = TRUE,
                                  ![r].rounds = @ + 1, ![r].injected = FALSE]
       \/ /\ ~turn[r].stopped
          /\ turn' = [turn EXCEPT ![r].pc = "persist", ![r].tool = FALSE, ![r].injected = FALSE]

\* Proactive or emergency compaction of the running turn, before a request.
TurnCompact(r) ==
    /\ turn[r].pc = "stream" /\ ~turn[r].stopped
    /\ compactions < MaxCompactions /\ compactions' = compactions + 1
    /\ Goto(r, "compact") /\ NoFault
    /\ UNCHANGED <<conv, runs, pub, job, wake, usr, cmp, str, locks, tracked, history, starts,
                   stops, crashes>>

\* The first half of every load-modify-save of the goroutine.
TurnLoad(r) ==
    /\ turn[r].pc \in Writing /\ turn[r].snap = NoConv
    /\ turn[r].pc \in {"result", "left"} => turn[r].todo # <<>>
    /\ turn' = [turn EXCEPT ![r].snap = conv]
    /\ Local

\* Saves copy c of the snapshot and goes on at pc.
Saved(r, c, pc) ==
    /\ turn[r].snap # NoConv /\ NoFault
    /\ Save(turn[r].snap, c)
    /\ turn' = [turn EXCEPT ![r].pc = pc, ![r].snap = NoConv]
    /\ UNCHANGED <<runs, pub, job, wake, usr, cmp, str, locks, tracked, acked, dropped, bounds>>

\* PersistTurnRound, the tool results, the next assistant message, a compacted
\* transcript and the auto-continue notice change only messages of the turn.
TurnPersist(r) ==
    \/ /\ turn[r].pc = "persist"
       /\ Saved(r, turn[r].snap, IF turn[r].tool THEN "tools" ELSE "results")
    \/ /\ turn[r].pc = "toolsave"
       /\ Saved(r, turn[r].snap, IF turn[r].stopped THEN "fail" ELSE "results")
    \/ turn[r].pc \in {"next", "compact"} /\ Saved(r, turn[r].snap, "stream")
    \/ turn[r].pc = "boundary" /\ Saved(r, turn[r].snap, "append")
    \/ turn[r].pc = "append" /\ Saved(r, turn[r].snap, "chain")

\* ExecuteTurnTools: a tool that returns, at once after a stop, one that asks
\* the user, or one that launches a background job.
TurnTools(r) ==
    /\ turn[r].pc = "tools" /\ NoFault
    /\ \/ Goto(r, "toolsave") /\ UNCHANGED <<job, tracked>>
       \/ /\ ~turn[r].stopped /\ Goto(r, "ask") /\ UNCHANGED <<job, tracked>>
       \/ /\ ~turn[r].stopped /\ Goto(r, "toolsave")
          /\ \E j \in Jobs : /\ job[j].pc = "idle" /\ tracked' = tracked \cup {j}
                             /\ SetJobPc(j, "live", NoConv)
    /\ UNCHANGED <<conv, runs, pub, wake, usr, cmp, str, locks, history, bounds>>

\* Mutant: stopping the run leaves its question open.
TurnAskStays(r) == turn[r].pc = "ask" /\ turn[r].stopped /\ UNCHANGED vars

\* ask_question returns once the run is stopped ...
TurnAskEnds(r) ==
    /\ turn[r].pc = "ask" /\ turn[r].stopped /\ Goto(r, "toolsave")
    /\ Local

\* ... or the user answers or dismisses the question, which need not happen.
AskAnswer(r) ==
    /\ turn[r].pc = "ask" /\ Goto(r, "toolsave")
    /\ Local

\* ApplyQueuedRunResults takes the queued results, then completes each.
TurnResults(r) ==
    /\ turn[r].pc = "results"
    /\ turn' = [turn EXCEPT ![r].pc = "result", ![r].todo = turn[r].queue, ![r].queue = <<>>]
    /\ Local

\* Complete of the first result in hand; pc "result" at a boundary, "left" at the end.
TurnComplete(r) ==
    /\ turn[r].pc \in {"result", "left"} /\ turn[r].todo # <<>> /\ turn[r].snap # NoConv
    /\ LET j == Head(turn[r].todo) IN
          /\ Save(turn[r].snap, Add(turn[r].snap, j))
          /\ tracked' = tracked \ {j}
    /\ turn' = [turn EXCEPT ![r].snap = NoConv, ![r].todo = Tail(@), ![r].injected = TRUE,
                            ![r].flushed = turn[r].pc = "left" /\ Len(turn[r].todo) = 1]
    /\ NoFault
    /\ UNCHANGED <<runs, pub, job, wake, usr, cmp, str, locks, acked, dropped, bounds>>

TurnCompleted(r) ==
    /\ turn[r].pc \in {"result", "left"} /\ turn[r].todo = <<>>
    /\ Goto(r, IF turn[r].pc = "result" THEN "drain" ELSE "recover")
    /\ Local

\* DrainAnnouncements, under both locks.
TurnDrain(r) ==
    /\ turn[r].pc = "drain" /\ annLock = Nobody
    /\ Save(conv, DrainPendingAnnouncements(conv))
    /\ turn' = [turn EXCEPT ![r].pc = "steer", ![r].injected = @ \/ conv.pend # <<>>]
    /\ NoFault
    /\ UNCHANGED <<runs, pub, job, wake, usr, cmp, str, locks, tracked, acked, dropped, bounds>>

\* ApplyQueuedSteer: the slot is emptied before the message is saved.
TurnSteer(r) ==
    /\ turn[r].pc = "steer"
    /\ turn' = IF turn[r].steer = Nobody
               THEN [turn EXCEPT ![r].pc = "settle"]
               ELSE [turn EXCEPT ![r].pc = "steering", ![r].hand = turn[r].steer, ![r].steer = Nobody]
    /\ Local

TurnSteered(r) ==
    /\ turn[r].pc = "steering" /\ turn[r].snap # NoConv
    /\ Save(turn[r].snap, Add(turn[r].snap, turn[r].hand))
    /\ str' = [str EXCEPT ![turn[r].hand].pc = "applied"]
    /\ turn' = [turn EXCEPT ![r].pc = "settle", ![r].snap = NoConv, ![r].hand = Nobody,
                            ![r].injected = TRUE]
    /\ NoFault
    /\ UNCHANGED <<runs, pub, job, wake, usr, cmp, locks, tracked, acked, dropped, bounds>>

\* AfterRound: another round after tools or an injection, else the turn is over.
TurnSettle(r) ==
    /\ turn[r].pc = "settle"
    /\ Goto(r, IF turn[r].tool \/ turn[r].injected THEN "next" ELSE "finish")
    /\ Local

\* finishTurn, and FailTurn or InterruptTurn: the room is idle again.
TurnFinish(r) ==
    \/ turn[r].pc = "finish" /\ Saved(r, SetStatus(turn[r].snap, "idle"), "discard")
    \/ turn[r].pc = "fail" /\ Saved(r, SetStatus(turn[r].snap, "idle"), "failed")

\* Mutant: a failed turn leaves the slot alone.
TurnDiscardFinished(r) ==
    /\ turn[r].pc \in {"discard", "failed"}
    /\ IF turn[r].pc = "discard"
       THEN /\ turn' = [turn EXCEPT ![r].pc = "decide", ![r].steer = Nobody]
            /\ str' = IF turn[r].steer = Nobody THEN str
                      ELSE [str EXCEPT ![turn[r].steer].pc = "cancelled"]
       ELSE Goto(r, "cleanup") /\ str' = str
    /\ NoFault
    /\ UNCHANGED <<conv, runs, pub, job, wake, usr, cmp, locks, tracked, history, bounds>>

\* discardQueuedSteer.
TurnDiscard(r) ==
    /\ turn[r].pc \in {"discard", "failed"}
    /\ turn' = [turn EXCEPT ![r].pc = IF @ = "discard" THEN "decide" ELSE "cleanup",
                            ![r].steer = Nobody]
    /\ str' = IF turn[r].steer = Nobody THEN str ELSE [str EXCEPT ![turn[r].steer].pc = "cancelled"]
    /\ NoFault
    /\ UNCHANGED <<conv, runs, pub, job, wake, usr, cmp, locks, tracked, history, bounds>>

\* DecideAutoContinue: with open todos, no background job and budget left.
TurnDecide(r) ==
    /\ turn[r].pc = "decide"
    /\ \/ tracked = {} /\ turn[r].chain < MaxContinues /\ Goto(r, "boundary")
       \/ Goto(r, "cleanup")
    /\ Local

\* RunTurnChain goes on unless the run was stopped.
TurnChain(r) ==
    /\ turn[r].pc = "chain"
    /\ turn' = IF turn[r].stopped THEN [turn EXCEPT ![r].pc = "cleanup"]
               ELSE [turn EXCEPT ![r].pc = "stream", ![r].chain = @ + 1, ![r].rounds = 0]
    /\ Local

\* Mutant: the results taken at the last boundary are all there are.
TurnCleanupNoDrain(r) ==
    /\ turn[r].pc = "cleanup" /\ runs' = runs \ {r}
    /\ turn' = [turn EXCEPT ![r].pc = "left", ![r].todo = <<>>]
    /\ NoFault
    /\ UNCHANGED <<conv, pub, job, wake, usr, cmp, str, locks, tracked, history, bounds>>

\* The cleanup takes the queued results and removes the run in one critical
\* section of runsMu.
TurnCleanup(r) ==
    /\ turn[r].pc = "cleanup" /\ runs' = runs \ {r}
    /\ turn' = [turn EXCEPT ![r].pc = "left", ![r].todo = turn[r].queue, ![r].queue = <<>>]
    /\ NoFault
    /\ UNCHANGED <<conv, pub, job, wake, usr, cmp, str, locks, tracked, history, bounds>>

\* Mutant: a room left running stays so.
TurnRecoverNothing(r) ==
    /\ turn[r].pc = "recover" /\ turn[r].snap # NoConv /\ Local
    /\ turn' = [turn EXCEPT ![r].pc = "unlock", ![r].snap = NoConv]

\* RecoverOrphanedTurn: a room left running is made idle.
TurnRecover(r) ==
    /\ turn[r].pc = "recover" /\ turn[r].snap # NoConv
    /\ \/ turn[r].snap.status = "running" /\ Saved(r, SetStatus(turn[r].snap, "idle"), "unlock")
       \/ /\ turn[r].snap.status = "idle" /\ Local
          /\ turn' = [turn EXCEPT ![r].pc = "unlock", ![r].snap = NoConv]

\* Mutant: only flushed results wake the room.
TurnUnlockFlushed(r) ==
    /\ turn[r].pc = "unlock" /\ turnLock' = Nobody
    /\ Goto(r, "done")
    /\ IF turn[r].flushed THEN Call(r, FALSE) ELSE wake' = wake
    /\ NoFault
    /\ UNCHANGED <<conv, runs, pub, job, usr, cmp, str, startMu, annLock, tracked, history, bounds>>

\* The turn lock is released; then the room is woken, for flushed results and for peers.
TurnUnlock(r) ==
    /\ turn[r].pc = "unlock" /\ turnLock' = Nobody
    /\ IF turn[r].flushed THEN Goto(r, "wake") /\ Call(r, FALSE)
                          ELSE Goto(r, "done") /\ Call(r, TRUE)
    /\ NoFault
    /\ UNCHANGED <<conv, runs, pub, job, usr, cmp, str, startMu, annLock, tracked, history, bounds>>

TurnWake(r) ==
    /\ turn[r].pc = "wake" /\ wake[r].pc = "no"
    /\ Goto(r, "done") /\ Call(r, TRUE)
    /\ NoFault
    /\ UNCHANGED <<conv, runs, pub, job, usr, cmp, str, locks, tracked, history, bounds>>

-----------------------------------------------------------------------------
(* Provider errors, store errors and panics of a turn.                     *)

Holds(q, j) == \E i \in 1..Len(q) : q[i] = j

AfterFault(pc) ==
    CASE pc = "fail" -> "failed"
      [] pc \in {"boundary", "append"} -> "cleanup"
      [] pc = "left" -> "recover"
      [] pc = "recover" -> "unlock"
      [] OTHER -> "fail"

\* Results in hand go back to the queue, except at the end of the turn, where
\* they are given up; a steer in hand goes back unless the slot is taken.
TurnFault(r) ==
    /\ turn[r].pc \in Writing \cup {"stream", "drain"} /\ AFault
    /\ turn[r].pc \in {"result", "left"} => turn[r].todo # <<>>
    /\ LET t == turn[r]
           back == t.pc = "steering" /\ t.steer = Nobody
       IN  /\ turn' = [turn EXCEPT ![r] =
                 [t EXCEPT !.pc = AfterFault(t.pc), !.snap = NoConv, !.hand = Nobody,
                           !.todo = <<>>, !.queue = IF t.pc = "result" THEN t.todo \o @ ELSE @,
                           !.steer = IF back THEN t.hand ELSE @, !.flushed = FALSE]]
           /\ job' = [j \in Jobs |-> IF t.pc = "left" /\ Holds(t.todo, j)
                                     THEN [Idle EXCEPT !.pc = "lost"] ELSE job[j]]
           /\ str' = IF t.pc = "steering" /\ ~back
                     THEN [str EXCEPT ![t.hand].pc = "lost"] ELSE str
    /\ UNCHANGED <<conv, runs, pub, wake, usr, cmp, locks, tracked, history, bounds>>

\* goSafe recovers the panic after the deferred cleanup; what was in hand is lost.
TurnPanic(r) ==
    /\ turn[r].pc \in InTurn /\ AFault
    /\ turn' = [turn EXCEPT ![r].pc = "cleanup", ![r].snap = NoConv, ![r].todo = <<>>,
                            ![r].hand = Nobody]
    /\ job' = [j \in Jobs |-> IF Holds(turn[r].todo, j) THEN [Idle EXCEPT !.pc = "lost"] ELSE job[j]]
    /\ str' = [s \in Steers |-> IF s = turn[r].hand THEN [str[s] EXCEPT !.pc = "lost"]
                                ELSE IF s = turn[r].steer THEN [str[s] EXCEPT !.late = TRUE]
                                ELSE str[s]]
    /\ UNCHANGED <<conv, runs, pub, wake, usr, cmp, locks, tracked, history, bounds>>

-----------------------------------------------------------------------------
(* The user stops the turn, or steers it: one steer at a time.             *)

Others == <<conv, runs, pub, job, wake, usr, cmp, locks, tracked, history>>

UserStop(r) ==
    /\ r \in runs /\ ~turn[r].stopped /\ stops < MaxStops /\ stops' = stops + 1
    /\ turn' = [turn EXCEPT ![r].stopped = TRUE]
    /\ NoFault /\ UNCHANGED <<Others, str, starts, compactions, crashes>>

\* HandleTurnsSteer finds the run, saves the attachments, then queues.
SteerLook(s) ==
    /\ str[s].pc = "idle"
    /\ \E r \in runs : str' = [str EXCEPT ![s].pc = "look", ![s].run = r]
    /\ NoFault /\ UNCHANGED <<Others, turn, bounds>>

SteerQueue(s) ==
    /\ str[s].pc = "look"
    /\ LET r == str[s].run IN
       IF turn[r].steer # Nobody
       THEN str' = [str EXCEPT ![s].pc = "rejected"] /\ turn' = turn
       ELSE /\ turn' = [turn EXCEPT ![r].steer = s]
            /\ str' = [str EXCEPT ![s].pc = "queued", ![s].late = turn[r].pc \notin BeforeDiscard]
    /\ NoFault /\ UNCHANGED <<Others, bounds>>

CancelSteer(r) ==
    /\ r \in runs /\ turn[r].steer # Nobody
    /\ turn' = [turn EXCEPT ![r].steer = Nobody]
    /\ str' = [str EXCEPT ![turn[r].steer].pc = "cancelled"]
    /\ NoFault /\ UNCHANGED <<Others, bounds>>

-----------------------------------------------------------------------------
(* HandleConversationsCompact and the goroutine it starts.  The transcript *)
(* is the one read before the model call, the queue the one after it.      *)

CmpStart ==
    /\ cmp.pc = "idle" /\ startMu = Nobody /\ runs = {}
    /\ compactions < MaxCompactions /\ compactions' = compactions + 1
    /\ cmp' = [cmp EXCEPT !.pc = "turn"]
    /\ NoFault
    /\ UNCHANGED <<conv, runs, turn, pub, job, wake, usr, str, locks, tracked, history, starts,
                   stops, crashes>>

CmpStep(pc, next) ==
    /\ cmp.pc = pc /\ cmp' = next
    /\ UNCHANGED <<runs, turn, pub, job, wake, usr, str, startMu, annLock, tracked, acked,
                   dropped, bounds>>

CmpLoad ==
    /\ turnLock = Nobody /\ turnLock' = Compactor
    /\ CmpStep("turn", [pc |-> "call", snap |-> conv]) /\ NoFault /\ UNCHANGED <<conv, clash>>

\* keepLiveCompactHeader.
CmpRefresh ==
    /\ CmpStep("call", [pc |-> "save", snap |-> [cmp.snap EXCEPT !.pend = conv.pend]])
    /\ NoFault /\ UNCHANGED <<conv, clash, turnLock>>

CmpSave ==
    /\ CmpStep("save", [pc |-> "clear", snap |-> NoConv])
    /\ Save(cmp.snap, cmp.snap) /\ NoFault /\ turnLock' = Nobody

\* The model call, the archive or the save fails.
CmpFault ==
    /\ cmp.pc \in {"call", "save"} /\ CmpStep(cmp.pc, [pc |-> "clear", snap |-> NoConv])
    /\ AFault /\ turnLock' = Nobody /\ UNCHANGED <<conv, clash>>

CmpClear == CmpStep("clear", Idle) /\ NoFault /\ UNCHANGED <<conv, clash, turnLock>>

-----------------------------------------------------------------------------
\* The process dies and restarts.  A room stored as running is loaded as idle.
Crash ==
    /\ crashes < MaxCrashes /\ crashes' = crashes + 1
    /\ conv' = SetStatus(conv, "idle")
    /\ runs' = {} /\ tracked' = {}
    /\ turn' = [r \in Runs |-> IF turn[r].pc = "new" THEN NewTurn ELSE [NewTurn EXCEPT !.pc = "done"]]
    /\ pub' = [n \in Notes |-> IF pub[n].pc = "idle" THEN Idle ELSE [Idle EXCEPT !.pc = "done"]]
    /\ job' = [j \in Jobs |-> IF job[j].pc = "idle" \/ (job[j].pc = "done" /\ InLog(j))
                              THEN job[j] ELSE [Idle EXCEPT !.pc = "lost"]]
    /\ wake' = [p \in Wakers |-> [pc |-> "no", peer |-> FALSE]]
    /\ usr' = Idle /\ cmp' = Idle
    /\ str' = [s \in Steers |-> IF str[s].pc \in {"look", "queued"}
                                THEN [str[s] EXCEPT !.pc = "lost"] ELSE str[s]]
    /\ startMu' = Nobody /\ turnLock' = Nobody /\ annLock' = Nobody
    /\ NoFault /\ UNCHANGED <<history, starts, stops, compactions>>

TurnStep(r) ==
    \/ TurnEnter(r) \/ TurnStream(r) \/ TurnLoad(r) \/ TurnPersist(r) \/ TurnTools(r)
    \/ TurnAskEnds(r) \/ TurnResults(r) \/ TurnComplete(r) \/ TurnCompleted(r) \/ TurnDrain(r)
    \/ TurnSteer(r) \/ TurnSteered(r) \/ TurnSettle(r) \/ TurnFinish(r) \/ TurnDiscard(r)
    \/ TurnDecide(r) \/ TurnChain(r) \/ TurnCleanup(r) \/ TurnRecover(r) \/ TurnUnlock(r)
    \/ TurnWake(r)

Next ==
    \/ UserStart \/ UserLoad \/ UserSave
    \/ \E p \in Wakers : WakeEnter(p) \/ WakeTurn(p) \/ WakeGo(p)
    \/ \E n \in Notes : PubLoad(n) \/ PubSave(n)
    \/ \E j \in Jobs : JobDone(j) \/ JobLoad(j) \/ JobSave(j)
    \/ \E r \in Runs : TurnStep(r)
    \/ \E r \in Runs : TurnCompact(r) \/ AskAnswer(r) \/ TurnFault(r) \/ TurnPanic(r)
    \/ \E r \in Runs : UserStop(r) \/ CancelSteer(r)
    \/ \E s \in Steers : SteerLook(s) \/ SteerQueue(s)
    \/ CmpStart \/ CmpLoad \/ CmpRefresh \/ CmpSave \/ CmpFault \/ CmpClear
    \/ Crash

Spec == Init /\ [][Next]_vars

\* Goroutines that have started go on; users, tools and questions need not.
FairSpec ==
    /\ Spec
    /\ WF_vars(UserLoad) /\ WF_vars(UserSave)
    /\ \A p \in Wakers : WF_vars(WakeEnter(p)) /\ WF_vars(WakeTurn(p)) /\ WF_vars(WakeGo(p))
    /\ \A n \in Notes : WF_vars(PubSave(n))
    /\ \A j \in Jobs : WF_vars(JobLoad(j)) /\ WF_vars(JobSave(j))
    /\ \A r \in Runs : WF_vars(TurnStep(r))
    /\ WF_vars(CmpLoad) /\ WF_vars(CmpRefresh) /\ WF_vars(CmpSave) /\ WF_vars(CmpClear)

-----------------------------------------------------------------------------
(* Properties.                                                             *)

\* One turn at a time works on the room: a run registered by HandleTurnsStart
\* or by a wake excludes every other, up to its removal from the registry.
OneTurn ==
    /\ \A q, r \in runs : q = r
    /\ \A q, r \in Runs : turn[q].pc \in InTurn /\ turn[r].pc \in InTurn => q = r

\* Through drains, failures, panics, compactions and crashes, an acknowledged
\* announcement is queued, injected or was dropped by the cap, and a result
\* that a turn accepted is in its queue, in its hands or in the transcript:
\* only a save over a change its copy had not seen loses either.
Conserved ==
    clash \/ /\ \A n \in acked : InPend(n) \/ InLog(n) \/ n \in dropped
             /\ \A j \in Jobs : job[j].pc = "done" =>
                   \/ InLog(j)
                   \/ \E r \in runs : Holds(turn[r].queue, j)
                   \/ \E r \in Runs : turn[r].pc \in {"result", "left"} /\ Holds(turn[r].todo, j)

\* A steer accepted before its turn's last discard is applied or cancelled by
\* the time the turn is over, however it ended (discardQueuedSteer).
SteerSettled ==
    \A s \in Steers : str[s].pc = "queued" /\ turn[str[s].run].pc = "done" => str[s].late

\* When no turn owns the room and nobody is starting one, the room is idle,
\* after a panic or a failed save too (RecoverOrphanedTurn); only a second
\* failure, or a stale save, leaves it running.
RoomReleased ==
    (\A r \in Runs : turn[r].pc \in {"new", "unlock", "wake", "done"})
        => conv.status = "idle" \/ clash \/ faults > 1

\* A stopped turn is over eventually, also out of an unanswered question
\* (HandleTurnsStop rejects the run's questions).
StoppedEnds ==
    \A r \in Runs : (r \in runs /\ turn[r].stopped) ~> r \notin runs

Harmed == clash \/ faults > 0 \/ crashes > 0 \/ compactions > 0

\* A peer message is injected, whenever it arrives in the life of a turn: the
\* cleanup of the turn wakes the room again (startIdleConversationTurn).  A
\* turn may wait for the user's answer for ever.
PeerServed ==
    \A n \in Notes : (NoteKind[n] = "peer" /\ InPend(n)) ~>
        (~InPend(n) \/ Harmed \/ \E r \in Runs : turn[r].pc = "ask")

-----------------------------------------------------------------------------
(* What comments of the code say and the model does not confirm (README,   *)
(* section 7).                                                             *)

\* "Entries are never lost": an acknowledged announcement that the cap did not
\* drop is queued or injected (queueAnnouncement, DrainAnnouncements).
NotesKept == \A n \in acked \ dropped : InPend(n) \/ InLog(n)
=============================================================================

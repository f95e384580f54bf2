------------------------------ MODULE RunStream ------------------------------
(***************************************************************************)
(* The run stream of a conversation (application/subagent/runstream.go):   *)
(* the snapshots of its subagent runs, published by many goroutines, are   *)
(* filtered, coalesced, numbered, retained for newcomers and broadcast to  *)
(* subscribers with a small buffer each.                                   *)
(*                                                                         *)
(* A run is changed under its own lock and its snapshot published after    *)
(* the lock is released (infrastructure/acp/runtime.go), so snapshots are  *)
(* in flight and arrive in any order.  Every operation of the registry is  *)
(* one critical section of its mutex, hence one action.                    *)
(***************************************************************************)
EXTENDS Integers, Sequences, FiniteSets

CONSTANTS
    Runs, Subscribers,
    MaxVersion,      \* bound: changes of a run
    MaxSnapshots,    \* runStreamMaxSnapshots
    MaxSubscribers,  \* runStreamMaxSubscribers
    Buffer,          \* runStreamSubscriberBuffer
    None

ASSUME StreamAssumption ==
    /\ IsFiniteSet(Runs) /\ IsFiniteSet(Subscribers)
    /\ {MaxVersion, MaxSnapshots, MaxSubscribers, Buffer} \subseteq Nat \ {0}

VARIABLES
    run,      \* the runs: version (0 before Spawn), UpdatedAt, whether ended
    spawn,    \* where the goroutine that spawns the run is
    driven,   \* runs whose first prompt has begun
    dirty,    \* runs with a change whose snapshot the runtime's timer will emit
    sent,     \* history: the latest version of a run that was handed to publish
    flight,   \* frames on their way to publish
    sealed,   \* history: runs of which a done frame has been published
    dropped,  \* history: sealed runs whose entry was pruned
    reg,      \* the registry: seq, runs, pending, subscribers, count, frames
    sub,      \* each subscriber: not yet there, open, closed by the registry, left
    shown     \* what the connection of a subscriber has written, per run

vars == <<run, spawn, driven, dirty, sent, flight, sealed, dropped, reg, sub, shown>>
producers == <<run, spawn, driven, dirty, sent>>
consumers == <<sealed, dropped, reg, sub, shown>>

Event == {"started", "updated", "done"}
Frame == [run : Runs, type : Event, ver : 1..MaxVersion, stamp : 0..MaxVersion, live : BOOLEAN]

\* What the registry keeps of the last frame of a run.
Entry == [type : Event, ver : 1..MaxVersion, stamp : 0..MaxVersion, live : BOOLEAN,
          seq : Nat \ {0}, expired : BOOLEAN]

ASSUME NoneAssumption == None \notin Frame /\ None \notin Entry

Init ==
    /\ run = [r \in Runs |-> [ver |-> 0, stamp |-> 0, live |-> TRUE]]
    /\ spawn = [r \in Runs |-> "none"]
    /\ driven = {} /\ dirty = {} /\ sent = [r \in Runs |-> 0]
    /\ flight = {} /\ sealed = {} /\ dropped = {}
    /\ reg = [seq |-> 0, runs |-> [r \in Runs |-> None], pending |-> [r \in Runs |-> None],
              subscribers |-> {}, count |-> 0, frames |-> [s \in Subscribers |-> <<>>]]
    /\ sub = [s \in Subscribers |-> "none"]
    /\ shown = [s \in Subscribers |-> [r \in Runs |-> None]]

-----------------------------------------------------------------------------
(* The producers: the ACP runtime.                                         *)

\* The snapshot of r is handed to publish as an event; what the timer was to emit is in it.
Send(r, type) ==
    /\ dirty' = dirty \ {r}
    /\ sent' = [sent EXCEPT ![r] = run'[r].ver]
    /\ flight' = flight \cup
          {[run |-> r, type |-> type, ver |-> run'[r].ver, stamp |-> run'[r].stamp, live |-> run'[r].live]}

\* The run changes; UpdatedAt may stay the same when the clock is coarse.
Changes(r, live) ==
    /\ run[r].ver \in 1..MaxVersion - 1
    /\ \E tick \in {0, 1} :
          run' = [run EXCEPT ![r] = [ver |-> @.ver + 1, stamp |-> @.stamp + tick, live |-> live]]

\* Spawn registers the run and emits its first snapshot as an update.
Spawn(r) ==
    /\ spawn[r] = "none"
    /\ run' = [run EXCEPT ![r].ver = 1]
    /\ spawn' = [spawn EXCEPT ![r] = "update"]
    /\ Send(r, "updated")
    /\ UNCHANGED <<driven, consumers>>

\* The first snapshot has been published, so that Spawn has come past emitUpdate.
Announced(r) == spawn[r] # "none" /\ \A f \in flight : f.run = r => f.ver # 1

\* Spawn returns a snapshot, which SpawnSubagents publishes as started if it is live.
Spawned(r) ==
    /\ spawn[r] = "update" /\ Announced(r)
    /\ spawn' = [spawn EXCEPT ![r] = "returned"]
    /\ run' = run
    /\ flight' = IF run[r].live
                   THEN flight \cup {[run |-> r, type |-> "started", ver |-> run[r].ver,
                                      stamp |-> run[r].stamp, live |-> TRUE]}
                   ELSE flight
    /\ UNCHANGED <<driven, dirty, sent, consumers>>

\* drivePrompt sends the first prompt: it drops what the timer was to emit, and emits
\* nothing itself.
DrivePrompt(r) ==
    /\ Announced(r) /\ r \notin driven /\ run[r].live
    /\ driven' = driven \cup {r} /\ dirty' = dirty \ {r}
    /\ UNCHANGED <<run, spawn, sent, flight, consumers>>

\* A session update: its snapshot is left to the timer.
SessionUpdate(r) ==
    /\ Changes(r, run[r].live)
    /\ dirty' = dirty \cup {r}
    /\ UNCHANGED <<spawn, driven, sent, flight, consumers>>

\* flushEmit, the callback of the timer; on an ended run it does nothing.
FlushEmit(r) ==
    /\ r \in dirty /\ run[r].live /\ run' = run
    /\ Send(r, "updated")
    /\ UNCHANGED <<spawn, driven, consumers>>

\* A mode change, also of an ended run, or a steer: emitted at once.
Change(r) ==
    /\ Changes(r, run[r].live)
    /\ Send(r, "updated")
    /\ UNCHANGED <<spawn, driven, consumers>>

\* The run ends, and its last snapshot is emitted as done.
End(r) == run[r].live /\ Changes(r, FALSE) /\ Send(r, "done")

\* The prompt of the run returns.
Finish(r) ==
    /\ r \in driven
    /\ End(r)
    /\ UNCHANGED <<spawn, driven, consumers>>

\* Somebody stops the run, which may have ended already: done is emitted all the same.
Stop(r) ==
    /\ spawn[r] = "returned"
    /\ spawn' = [spawn EXCEPT ![r] = "stopped"]
    /\ \/ End(r)
       \/ ~run[r].live /\ run' = run /\ Send(r, "done")
    /\ UNCHANGED <<driven, consumers>>

-----------------------------------------------------------------------------
(* What the registry does under its mutex, as functions of the registry.   *)

Has(w, r) == w.runs[r] # None

Unexpired(w) == {r \in Runs : Has(w, r) /\ ~w.runs[r].expired}

\* Of the entries that are not expired, the latest.
Retained(w) ==
    {r \in Unexpired(w) :
        Cardinality({q \in Unexpired(w) : w.runs[q].seq > w.runs[r].seq}) < MaxSnapshots}

\* pruneLocked; a conversation with nothing in it is deleted, and its numbers with it.
Prune(w) ==
    LET p == [w EXCEPT !.runs = [r \in Runs |-> IF r \in Retained(w) THEN w.runs[r] ELSE None]]
        empty == p.subscribers = {} /\ \A r \in Runs : ~Has(p, r) /\ p.pending[r] = None
    IN  [p EXCEPT !.seq = IF empty THEN 0 ELSE @]

Priority(type) == CASE type = "started" -> 1 [] type = "updated" -> 2 [] type = "done" -> 3

\* Mutant of Accepted: the type of the last frame is not looked at.
AcceptedByStamp(w, f) ==
    LET previous == w.runs[f.run] IN
    Has(w, f.run) => f.stamp >= previous.stamp

\* runStreamAccepted: against the last emitted frame of the run.
Accepted(w, f) ==
    LET previous == w.runs[f.run] IN
    Has(w, f.run) =>
        /\ previous.type = "done" => f.type = "done"
        /\ f.stamp >= previous.stamp
        /\ f.stamp = previous.stamp =>
              /\ Priority(f.type) >= Priority(previous.type)
              /\ Priority(f.type) = Priority(previous.type) => f.ver # previous.ver

\* Mutant of Overflowing: the frame is dropped for a subscriber with a full buffer.
OverflowingNever(w) == {}

\* The subscribers with a full buffer.
Overflowing(w) == {s \in w.subscribers : Len(w.frames[s]) = Buffer}

\* emitLocked: the frame gets the next number, is retained and is broadcast; a subscriber
\* that has fallen behind is closed.
Emit(w, f) ==
    LET entry == [type |-> f.type, ver |-> f.ver, stamp |-> f.stamp, live |-> f.live,
                  seq |-> w.seq + 1, expired |-> FALSE]
        slow == Overflowing(w)
    IN  [w EXCEPT
            !.seq = @ + 1,
            !.runs[f.run] = entry,
            !.subscribers = @ \ slow,
            !.count = @ - Cardinality(slow),
            !.frames = [s \in Subscribers |->
                          IF s \in w.subscribers /\ Len(w.frames[s]) < Buffer
                            THEN Append(w.frames[s], [frame |-> f, seq |-> w.seq + 1])
                            ELSE w.frames[s]]]

\* emitPendingLocked
EmitPending(w, r) ==
    LET f == w.pending[r]
        v == [w EXCEPT !.pending[r] = None]
        stale == Has(w, r) /\ (w.runs[r].type = "done" \/ f.stamp < w.runs[r].stamp)
    IN  IF f = None \/ stale THEN v ELSE Emit(v, f)

\* Does not wait out the coalescing interval.
Immediate(f) == f.type # "updated" \/ ~f.live

\* An immediate event drains the pending update first.
Drained(w, r) == EmitPending(w, r)

\* Mutant of Coalesced: an older snapshot displaces the pending one.
CoalescedLast(w, f) == [w EXCEPT !.pending[f.run] = f]

\* The pending update of the run is replaced, unless it is newer.
Coalesced(w, f) ==
    [w EXCEPT !.pending[f.run] = IF @ = None \/ f.stamp >= @.stamp THEN f ELSE @]

-----------------------------------------------------------------------------
(* The operations of the registry.                                         *)

\* Sealed runs that lose their entry, for the properties.
Drops(w) == dropped \cup {r \in sealed \cup sealed' : Has(reg, r) /\ ~Has(w, r)}

\* The subscribers that were closed on the way.
Cut(w) == [s \in Subscribers |-> IF s \in reg.subscribers \ w.subscribers THEN "cut" ELSE sub[s]]

\* publish: within the interval since the last frame of the run, or after it.
Publish(f, recent) ==
    LET w == Prune(reg)
        r == f.run
        next == CASE ~Accepted(w, f) -> w
                  [] Accepted(w, f) /\ Immediate(f) -> Prune(Emit(Drained(w, r), f))
                  [] Accepted(w, f) /\ ~Immediate(f) /\ (w.pending[r] # None \/ (Has(w, r) /\ recent)) ->
                        Coalesced(w, f)
                  [] OTHER -> Prune(Emit(w, f))
    IN  /\ f \in flight
        /\ flight' = flight \ {f}
        /\ sealed' = IF f.type = "done" THEN sealed \cup {r} ELSE sealed
        /\ reg' = next /\ dropped' = Drops(next) /\ sub' = Cut(next)
        /\ UNCHANGED <<producers, shown>>

\* The timer of a pending update fires.
FlushPending(r) ==
    LET next == Prune(EmitPending(reg, r))
    IN  /\ reg.pending[r] # None
        /\ reg' = next /\ sub' = Cut(next) /\ sealed' = sealed /\ dropped' = Drops(next)
        /\ UNCHANGED <<producers, flight, shown>>

\* Ninety seconds pass after the last frame of an ended run; no call takes that long.
Expire(r) ==
    /\ Has(reg, r) /\ (reg.runs[r].type = "done" \/ ~reg.runs[r].live) /\ ~reg.runs[r].expired
    /\ \A f \in flight : f.run # r
    /\ reg' = [reg EXCEPT !.runs[r].expired = TRUE]
    /\ UNCHANGED <<producers, flight, sealed, dropped, sub, shown>>

\* What a client sees of a frame: the run, with its UpdatedAt.
Payload(f) == [ver |-> f.ver, stamp |-> f.stamp]

\* What a subscription starts from: the snapshots of the retained runs.
SnapshotOf(w) == [r \in Runs |-> IF Has(w, r) THEN Payload(w.runs[r]) ELSE None]

\* Subscribe, and the handler writes the snapshot to the connection.
Subscribe(s) ==
    LET w == Prune(reg)
        v == [w EXCEPT !.subscribers = @ \cup {s}, !.count = @ + 1]
        ok == w.count < MaxSubscribers
    IN  /\ sub[s] = "none" /\ sealed' = sealed
        /\ reg' = IF ok THEN v ELSE w
        /\ sub' = [sub EXCEPT ![s] = IF ok THEN "open" ELSE "left"]
        /\ shown' = [shown EXCEPT ![s] = IF ok THEN SnapshotOf(v) ELSE @]
        /\ dropped' = Drops(w)
        /\ UNCHANGED <<producers, flight>>

\* The handler writes the next frame; it may do so after the subscription was closed.
Deliver(s) ==
    LET next == Head(reg.frames[s]).frame
    IN  /\ sub[s] \in {"open", "cut"} /\ reg.frames[s] # <<>>
        /\ reg' = [reg EXCEPT !.frames[s] = Tail(@)]
        /\ shown' = [shown EXCEPT ![s][next.run] = Payload(next)]
        /\ UNCHANGED <<producers, flight, sealed, dropped, sub>>

\* unsubscribe counts down only a subscriber the registry still has.
Unregistered(w, s) ==
    IF s \in w.subscribers
      THEN [w EXCEPT !.subscribers = @ \ {s}, !.count = @ - 1]
      ELSE w

\* The client goes away, or the handler sees that it was closed.
Close(s) ==
    LET next == Prune([Unregistered(reg, s) EXCEPT !.frames[s] = <<>>])
    IN  /\ sub[s] \in {"open", "cut"} /\ sealed' = sealed
        /\ reg' = next /\ dropped' = Drops(next)
        /\ sub' = [sub EXCEPT ![s] = "left"]
        /\ UNCHANGED <<producers, flight, shown>>

-----------------------------------------------------------------------------
Next ==
    \/ \E r \in Runs : Spawn(r) \/ Spawned(r) \/ DrivePrompt(r) \/ SessionUpdate(r) \/ FlushEmit(r)
                      \/ Change(r) \/ Finish(r) \/ Stop(r)
                      \/ FlushPending(r) \/ Expire(r)
    \/ \E f \in flight, recent \in BOOLEAN : Publish(f, recent)
    \/ \E s \in Subscribers : Subscribe(s) \/ Deliver(s) \/ Close(s)

Spec == Init /\ [][Next]_vars

\* Timers fire, publish is never held up, and the connection of a subscriber is served.
FairSpec ==
    /\ Spec
    /\ \A r \in Runs : WF_vars(FlushPending(r)) /\ WF_vars(FlushEmit(r))
    /\ WF_vars(\E f \in flight, recent \in BOOLEAN : Publish(f, recent))
    /\ \A s \in Subscribers : WF_vars(Deliver(s))

-----------------------------------------------------------------------------
(* Properties.                                                             *)

TypeOK ==
    /\ run \in [Runs -> [ver : 0..MaxVersion, stamp : 0..MaxVersion, live : BOOLEAN]]
    /\ spawn \in [Runs -> {"none", "update", "returned", "stopped"}]
    /\ driven \subseteq Runs /\ dirty \subseteq Runs /\ sent \in [Runs -> 0..MaxVersion]
    /\ flight \subseteq Frame /\ sealed \subseteq Runs /\ dropped \subseteq Runs
    /\ reg.seq \in Nat /\ reg.subscribers \subseteq Subscribers
    /\ \A r \in Runs :
          /\ Has(reg, r) => reg.runs[r] \in Entry /\ reg.runs[r].seq <= reg.seq
          /\ reg.pending[r] # None => reg.pending[r] \in Frame /\ ~Immediate(reg.pending[r])
    /\ \A s \in Subscribers : Len(reg.frames[s]) <= Buffer
    /\ sub \in [Subscribers -> {"none", "open", "cut", "left"}]

\* Once it has drained its buffer, a subscriber shows x of r: that is in the last frame of r
\* there, or on the connection if there is none.
WillShow(s, r, x) ==
    LET mine == {i \in DOMAIN reg.frames[s] : reg.frames[s][i].frame.run = r}
    IN  \/ mine = {} /\ shown[s][r] = x
        \/ \E i \in mine : (\A k \in mine : k <= i) /\ Payload(reg.frames[s][i].frame) = x

\* An open subscriber misses nothing: its buffer ends with the latest number and has no
\* gap, and once it has drained it shows every retained run as the registry has it.
NothingMissed ==
    \A s \in reg.subscribers :
        /\ \A i \in DOMAIN reg.frames[s] :
              reg.frames[s][i].seq = reg.seq - Len(reg.frames[s]) + i
        /\ \A r \in Runs : Has(reg, r) => WillShow(s, r, Payload(reg.runs[r]))

\* Once done has been published, no late or coalesced frame brings the run back to life as
\* long as the registry remembers it.
EndedStaysEnded == \A r \in sealed \ dropped : Has(reg, r) => ~reg.runs[r].live

\* A change of a live run whose first prompt has begun, or a published snapshot, is left to
\* a timer: the runtime's or the registry's.
LeftToTimer(r, t) ==
    \/ r \in driven \cap dirty /\ run[r].live /\ run[r].stamp = t
    \/ reg.pending[r] # None /\ reg.pending[r].stamp = t

\* What two timers coalesce reaches the clients, although snapshots are published out of
\* order and immediate events go past it: a subscriber that stays in the end shows the run
\* as of that change or later.
ChangeShown ==
    \A r \in Runs, s \in Subscribers : \A t \in 0..MaxVersion - 1 :
        (s \in reg.subscribers /\ LeftToTimer(r, t)) ~>
            (s \notin reg.subscribers \/ (shown[s][r] # None /\ shown[s][r].stamp >= t))

-----------------------------------------------------------------------------
(* What comments of the code say and the model does not confirm (README,   *)
(* section 7).                                                             *)

\* "the caller is emitting a snapshot that already carries the dirty state": every change
\* of a live run has been handed to publish, or is left to the timer.
DisarmedIsEmitted == \A r \in Runs : run[r].live /\ sent[r] < run[r].ver => r \in dirty

\* "They also drain any pending update first so emit order follows producer order": the
\* frames of a run are in the buffer in the order in which the run produced them.
ProducerOrder ==
    \A s \in Subscribers : \A i, j \in DOMAIN reg.frames[s] :
        i < j /\ reg.frames[s][i].frame.run = reg.frames[s][j].frame.run =>
            reg.frames[s][i].frame.stamp <= reg.frames[s][j].frame.stamp

=============================================================================

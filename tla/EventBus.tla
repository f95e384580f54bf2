------------------------------ MODULE EventBus ------------------------------
(***************************************************************************)
(* The event bus of the application (application/bus.go): publishers fan   *)
(* an event out to every subscriber under the read side of the bus lock,   *)
(* each subscriber has a bounded channel for its reader, an unbounded list *)
(* of critical events that did not fit, and a pump goroutine that moves    *)
(* the list into the channel.  The reader is the writer goroutine of a     *)
(* websocket (transport/ws.go), which may stop reading at any time.        *)
(*                                                                         *)
(* A section under the subscriber's mutex is one step.  The bus lock is    *)
(* explicit: publishers hold its read side from Publish to EndPublish,     *)
(* Unsubscribe its write side from Close to CloseOut.                      *)
(***************************************************************************)
EXTENDS Naturals, Sequences, FiniteSets

CONSTANTS
    Subscribers, Publishers,
    Events,      \* what is published, each event once
    Critical,    \* the events whose type isCriticalBusEvent accepts
    Limit,       \* busNormalQueueLimit
    None

ASSUME BusAssumption ==
    /\ Critical \subseteq Events
    /\ Limit \in Nat \ {0}
    /\ None \notin Events /\ None \notin Subscribers

VARIABLES
    subs,        \* Bus.subs: the subscribers in the map
    writer,      \* the subscriber whose Unsubscribe holds the bus lock
    pub,         \* each publisher: its event, whom it still goes to, whom to notify
    published,   \* the events somebody has published
    critical,    \* busSubscriber.critical
    criticalPending,
    out,         \* the events in the channel
    notify,      \* the notify channel holds its token
    closed,      \* busSubscriber.closed, and done is closed with it
    outClosed,   \* close(s.out) has happened
    pump,        \* where deliver is
    held,        \* the event deliver is sending: a sequence of at most one
    reader,      \* the goroutine that receives from out
    offered,     \* history: what was published to the subscriber
    received     \* history: what its reader received

busVars == <<subs, writer, published>>
fifoVars == <<critical, criticalPending, out, notify>>
endVars == <<closed, outClosed>>
vars == <<subs, writer, pub, published, critical, criticalPending, out, notify,
          closed, outClosed, pump, held, reader, offered, received>>

Idle == [ev |-> None, todo |-> {}, nudge |-> None]

TypeOK ==
    /\ subs \subseteq Subscribers /\ writer \in Subscribers \cup {None}
    /\ pub \in [Publishers -> [ev : Events \cup {None}, todo : SUBSET Subscribers,
                               nudge : Subscribers \cup {None}]]
    /\ published \subseteq Events
    /\ critical \in [Subscribers -> Seq(Events)] /\ out \in [Subscribers -> Seq(Events)]
    /\ \A s \in Subscribers : Len(out[s]) <= Limit
    /\ held \in [Subscribers -> Seq(Events)]
    /\ offered \in [Subscribers -> Seq(Events)] /\ received \in [Subscribers -> Seq(Events)]
    /\ criticalPending \in [Subscribers -> BOOLEAN] /\ notify \in [Subscribers -> BOOLEAN]
    /\ closed \in [Subscribers -> BOOLEAN] /\ outClosed \in [Subscribers -> BOOLEAN]
    /\ pump \in [Subscribers -> {"none", "check", "wait", "send", "ended"}]
    /\ reader \in [Subscribers -> {"none", "reading", "gone"}]

Init ==
    /\ subs = {} /\ writer = None /\ published = {}
    /\ pub = [p \in Publishers |-> Idle]
    /\ critical = [s \in Subscribers |-> <<>>] /\ out = [s \in Subscribers |-> <<>>]
    /\ held = [s \in Subscribers |-> <<>>]
    /\ offered = [s \in Subscribers |-> <<>>] /\ received = [s \in Subscribers |-> <<>>]
    /\ criticalPending = [s \in Subscribers |-> FALSE] /\ notify = [s \in Subscribers |-> FALSE]
    /\ closed = [s \in Subscribers |-> FALSE] /\ outClosed = [s \in Subscribers |-> FALSE]
    /\ pump = [s \in Subscribers |-> "none"] /\ reader = [s \in Subscribers |-> "none"]

-----------------------------------------------------------------------------
(* Subscribe, and the handler's deferred unsubscribe.                      *)

\* The write side of the bus lock is free.
WriteLockFree == writer = None /\ \A p \in Publishers : pub[p].ev = None

Subscribe(s) ==
    /\ WriteLockFree /\ pump[s] = "none"
    /\ subs' = subs \cup {s}
    /\ pump' = [pump EXCEPT ![s] = "check"]
    /\ reader' = [reader EXCEPT ![s] = "reading"]
    /\ UNCHANGED <<writer, pub, published, fifoVars, endVars, held, offered, received>>

\* The subscriber leaves the map, is marked closed, and its done channel is closed.
Close(s) ==
    /\ WriteLockFree /\ s \in subs
    /\ subs' = subs \ {s} /\ writer' = s
    /\ closed' = [closed EXCEPT ![s] = TRUE]
    /\ UNCHANGED <<pub, published, fifoVars, outClosed, pump, held, reader, offered, received>>

\* Mutant of CloseOut: close does not wait for deliver to return.
CloseOutEarly(s) ==
    /\ writer = s
    /\ outClosed' = [outClosed EXCEPT ![s] = TRUE]
    /\ writer' = None
    /\ UNCHANGED <<subs, pub, published, fifoVars, closed, pump, held, reader, offered, received>>

\* deliver has returned: the channel is closed and the bus lock released.
CloseOut(s) ==
    /\ writer = s /\ pump[s] = "ended"
    /\ outClosed' = [outClosed EXCEPT ![s] = TRUE]
    /\ writer' = None
    /\ UNCHANGED <<subs, pub, published, fifoVars, closed, pump, held, reader, offered, received>>

-----------------------------------------------------------------------------
(* Publish.                                                                *)

Publish(p, e) ==
    /\ pub[p].ev = None /\ writer = None /\ e \notin published
    /\ published' = published \cup {e}
    /\ pub' = [pub EXCEPT ![p] = [ev |-> e, todo |-> subs, nudge |-> None]]
    /\ UNCHANGED <<subs, writer, fifoVars, endVars, pump, held, reader, offered, received>>

HasRoom(s) == Len(out[s]) < Limit

\* publish returns without queueing the event anywhere.
Drops(s, e) == closed[s] \/ (e \notin Critical /\ (criticalPending[s] \/ ~HasRoom(s)))

\* Mutant of Direct: a critical event overtakes the ones that wait in the list.
DirectAlways(s) == HasRoom(s)

\* The event goes to the channel, or to the list behind what is already there.
Direct(s) == ~criticalPending[s] /\ HasRoom(s)

\* p is done with s, but for the notification of n.
Visited(p, s, n) ==
    pub' = [pub EXCEPT ![p] = [ev |-> @.ev, todo |-> @.todo \ {s}, nudge |-> n]]

\* The event of p is taken to s, under the mutex of s.
Handed(p, s) ==
    /\ s \in pub[p].todo /\ pub[p].nudge = None
    /\ offered' = [offered EXCEPT ![s] = Append(@, pub[p].ev)]
    /\ UNCHANGED <<busVars, notify, endVars, pump, held, reader, received>>

PublishDrop(p, s) ==
    /\ Handed(p, s) /\ Drops(s, pub[p].ev)
    /\ Visited(p, s, None)
    /\ UNCHANGED <<critical, criticalPending, out>>

PublishDirect(p, s) ==
    /\ Handed(p, s) /\ ~Drops(s, pub[p].ev) /\ Direct(s)
    /\ out' = [out EXCEPT ![s] = Append(@, pub[p].ev)]
    /\ Visited(p, s, None)
    /\ UNCHANGED <<critical, criticalPending>>

PublishParked(p, s) ==
    /\ Handed(p, s) /\ ~Drops(s, pub[p].ev) /\ ~Direct(s)
    /\ critical' = [critical EXCEPT ![s] = Append(@, pub[p].ev)]
    /\ criticalPending' = [criticalPending EXCEPT ![s] = TRUE]
    /\ Visited(p, s, s)
    /\ UNCHANGED out

\* Mutant of Notify: the token is never put.
NotifyForgotten(p) ==
    /\ pub[p].nudge # None
    /\ pub' = [pub EXCEPT ![p] = [ev |-> @.ev, todo |-> @.todo, nudge |-> None]]
    /\ UNCHANGED <<busVars, fifoVars, endVars, pump, held, reader, offered, received>>

\* After the mutex: the token is put into notify unless one is there already.
Notify(p) ==
    /\ pub[p].nudge # None
    /\ notify' = [notify EXCEPT ![pub[p].nudge] = TRUE]
    /\ pub' = [pub EXCEPT ![p] = [ev |-> @.ev, todo |-> @.todo, nudge |-> None]]
    /\ UNCHANGED <<busVars, critical, criticalPending, out, endVars, pump, held, reader,
                   offered, received>>

EndPublish(p) ==
    /\ pub[p].ev # None /\ pub[p].todo = {} /\ pub[p].nudge = None
    /\ pub' = [pub EXCEPT ![p] = Idle]
    /\ UNCHANGED <<busVars, fifoVars, endVars, pump, held, reader, offered, received>>

-----------------------------------------------------------------------------
(* deliver, the pump goroutine of a subscriber.                            *)

PumpIdle(s) ==
    /\ pump[s] = "check" /\ critical[s] = <<>>
    /\ criticalPending' = [criticalPending EXCEPT ![s] = FALSE]
    /\ pump' = [pump EXCEPT ![s] = "wait"]
    /\ UNCHANGED <<busVars, pub, critical, out, notify, endVars, held, reader, offered, received>>

PumpPop(s) ==
    /\ pump[s] = "check" /\ critical[s] # <<>>
    /\ held' = [held EXCEPT ![s] = <<Head(critical[s])>>]
    /\ critical' = [critical EXCEPT ![s] = Tail(@)]
    /\ pump' = [pump EXCEPT ![s] = "send"]
    /\ UNCHANGED <<busVars, pub, criticalPending, out, notify, endVars, reader, offered, received>>

PumpWoken(s) ==
    /\ pump[s] = "wait" /\ notify[s]
    /\ notify' = [notify EXCEPT ![s] = FALSE]
    /\ pump' = [pump EXCEPT ![s] = "check"]
    /\ UNCHANGED <<busVars, pub, critical, criticalPending, out, endVars, held, reader,
                   offered, received>>

PumpSend(s) ==
    /\ pump[s] = "send" /\ HasRoom(s)
    /\ out' = [out EXCEPT ![s] = @ \o held[s]]
    /\ held' = [held EXCEPT ![s] = <<>>]
    /\ pump' = [pump EXCEPT ![s] = "check"]
    /\ UNCHANGED <<busVars, pub, critical, criticalPending, notify, endVars, reader,
                   offered, received>>

\* Mutant of PumpEnd: the send does not watch the done channel.
PumpEndWaiting(s) ==
    /\ pump[s] = "wait" /\ closed[s]
    /\ held' = [held EXCEPT ![s] = <<>>]
    /\ pump' = [pump EXCEPT ![s] = "ended"]
    /\ UNCHANGED <<busVars, pub, fifoVars, endVars, reader, offered, received>>

\* done is closed: from either select deliver returns, and what it held is gone.
PumpEnd(s) ==
    /\ pump[s] \in {"wait", "send"} /\ closed[s]
    /\ held' = [held EXCEPT ![s] = <<>>]
    /\ pump' = [pump EXCEPT ![s] = "ended"]
    /\ UNCHANGED <<busVars, pub, fifoVars, endVars, reader, offered, received>>

-----------------------------------------------------------------------------
(* The reader of the channel.                                              *)

Receive(s) ==
    /\ reader[s] = "reading" /\ out[s] # <<>>
    /\ received' = [received EXCEPT ![s] = Append(@, Head(out[s]))]
    /\ out' = [out EXCEPT ![s] = Tail(@)]
    /\ UNCHANGED <<busVars, pub, critical, criticalPending, notify, endVars, pump, held,
                   reader, offered>>

\* The context of the connection ends, or the channel is closed and empty.
HangUp(s) ==
    /\ reader[s] = "reading"
    /\ reader' = [reader EXCEPT ![s] = "gone"]
    /\ UNCHANGED <<busVars, pub, fifoVars, endVars, pump, held, offered, received>>

-----------------------------------------------------------------------------
Publishing(p) ==
    \/ \E s \in Subscribers :
          PublishDrop(p, s) \/ PublishDirect(p, s) \/ PublishParked(p, s)
    \/ Notify(p) \/ EndPublish(p)

Pumping(s) == PumpIdle(s) \/ PumpPop(s) \/ PumpWoken(s) \/ PumpSend(s) \/ PumpEnd(s)

Next ==
    \/ \E p \in Publishers : Publishing(p) \/ \E e \in Events : Publish(p, e)
    \/ \E s \in Subscribers :
          \/ Subscribe(s) \/ Close(s) \/ CloseOut(s)
          \/ Pumping(s) \/ Receive(s) \/ HangUp(s)

Spec == Init /\ [][Next]_vars

\* The goroutines run on; nobody has to publish, subscribe, leave or hang up.
FairSpec ==
    /\ Spec
    /\ \A p \in Publishers : WF_vars(Publishing(p))
    /\ \A s \in Subscribers : WF_vars(Pumping(s)) /\ WF_vars(CloseOut(s)) /\ WF_vars(Receive(s))

-----------------------------------------------------------------------------
(* Properties.                                                             *)

\* What the reader of s is still going to get: the channel, then the event in the
\* hands of the pump, then the list, as long as the pump runs.
Coming(s) == out[s] \o (IF pump[s] = "ended" THEN <<>> ELSE held[s] \o critical[s])

Fifo(s) == INSTANCE LossyFifo WITH
    offered <- offered[s], queue <- Coming(s), received <- received[s], open <- ~closed[s]

\* Each subscription keeps the promise of LossyFifo, across the two paths an event can
\* take to the channel: order is kept, and no critical event is lost before the
\* subscription is closed, however full the channel is (bus.go, "per-subscriber delivery
\* order" and "turn terminal events remain queued").
FifoKept ==
    /\ \A s \in Subscribers : Fifo(s)!Init
    /\ [][\A s \in Subscribers : [Fifo(s)!Next]_(Fifo(s)!vars)]_vars

\* Nobody sends on a closed channel, which would panic: when out is closed the pump has
\* ended and no publisher still has the subscriber on its way.
NoSendAfterClose ==
    \A s \in Subscribers : outClosed[s] =>
        pump[s] = "ended" /\ \A p \in Publishers : s \notin pub[p].todo

\* A critical event published to a subscriber is received in the end, unless its reader
\* leaves or the subscription is closed: no wakeup of the pump is lost.
CriticalReceived ==
    \A s \in Subscribers : \A e \in Critical :
        (\E i \in DOMAIN offered[s] : offered[s][i] = e) ~>
            \/ \E i \in DOMAIN received[s] : received[s][i] = e
            \/ reader[s] = "gone" \/ closed[s]

\* Unsubscribe, which waits for the pump with the bus lock held, comes back even when the
\* pump is in the middle of a send to a full channel that nobody reads.
UnsubscribeReturns == writer # None ~> writer = None

=============================================================================

------------------------------ MODULE LossyFifo ------------------------------
(***************************************************************************)
(* What a subscription to the event bus promises its reader: events arrive *)
(* in the order in which they were published to it, an event that is not   *)
(* critical may be left out, a critical one is not, and only closing the   *)
(* subscription cuts off a tail of what is still to come.  EventBus        *)
(* implements this specification for each of its subscribers.              *)
(***************************************************************************)
EXTENDS Naturals, Sequences

CONSTANTS
    Events,     \* what can be published
    Critical    \* the events that must not be left out

VARIABLES
    offered,    \* everything published to this subscription, in order
    queue,      \* what the reader is still going to receive
    received,   \* what it has received
    open        \* the subscription has not been closed

vars == <<offered, queue, received, open>>

Init == offered = <<>> /\ queue = <<>> /\ received = <<>> /\ open = TRUE

\* An event is published; only one that is not critical may be dropped.
Publish(e) ==
    /\ open
    /\ offered' = Append(offered, e)
    /\ \/ queue' = Append(queue, e)
       \/ e \notin Critical /\ queue' = queue
    /\ UNCHANGED <<received, open>>

Take ==
    /\ queue # <<>>
    /\ received' = Append(received, Head(queue))
    /\ queue' = Tail(queue)
    /\ UNCHANGED <<offered, open>>

Close == open' = FALSE /\ UNCHANGED <<offered, queue, received>>

\* A closed subscription loses the end of its queue.
Cut ==
    /\ ~open
    /\ \E n \in 0 .. Len(queue) : queue' = SubSeq(queue, 1, n)
    /\ UNCHANGED <<offered, received, open>>

Next == (\E e \in Events : Publish(e)) \/ Take \/ Close \/ Cut

Spec == Init /\ [][Next]_vars
=============================================================================

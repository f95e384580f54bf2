--------------------------- MODULE EventBusProofs ---------------------------
(***************************************************************************)
(* Proofs about EventBus for every set of subscribers, publishers and      *)
(* events and every channel capacity: nobody sends on a closed channel     *)
(* (NoSendAlways), and every subscription implements LossyFifo             *)
(* (EachSubscriptionIsFifo).                                               *)
(***************************************************************************)
EXTENDS EventBus, SequenceTheorems, TLAPS

----------------------------------------------------------------------------
(* Facts about sequences.                                                  *)

\* An event appended to the last part is appended to the whole.
LEMMA AppendBehind ==
  ASSUME NEW S, NEW a \in Seq(S), NEW b \in Seq(S), NEW e \in S
  PROVE  a \o Append(b, e) = Append(a \o b, e)
  <1>1. <<e>> \in Seq(S) /\ a \o b \in Seq(S)
    BY ConcatProperties
  <1>2. a \o (b \o <<e>>) = (a \o b) \o <<e>>
    BY <1>1, ConcatAssociative
  <1>. QED
    BY <1>1, <1>2, AppendIsConcat

\* Taking the head off the first part takes it off the whole.
LEMMA TakeInFront ==
  ASSUME NEW S, NEW a \in Seq(S), NEW b \in Seq(S), a # <<>>
  PROVE  a \o b # <<>> /\ Head(a \o b) = Head(a) /\ Tail(a \o b) = Tail(a) \o b
  <1>1. a \o b \in Seq(S) /\ Len(a \o b) = Len(a) + Len(b)
        /\ \A i \in 1 .. Len(a) + Len(b) :
              (a \o b)[i] = IF i <= Len(a) THEN a[i] ELSE b[i - Len(a)]
    BY ConcatProperties
  <1>2. Len(a) \in Nat \ {0} /\ Len(b) \in Nat
    BY EmptySeq, LenProperties
  <1>3. a \o b # <<>>
    BY <1>1, <1>2
  <1>4. Head(a \o b) = Head(a)
    BY <1>1, <1>2
  <1>5. /\ Tail(a) \in Seq(S) /\ Len(Tail(a)) = Len(a) - 1
        /\ \A i \in 1 .. Len(Tail(a)) : Tail(a)[i] = a[i + 1]
    BY HeadTailProperties
  <1>6. /\ Tail(a \o b) \in Seq(S) /\ Len(Tail(a \o b)) = Len(a) + Len(b) - 1
        /\ \A i \in 1 .. Len(a) + Len(b) - 1 : Tail(a \o b)[i] = (a \o b)[i + 1]
    BY <1>1, <1>3, HeadTailProperties
  <1>7. /\ Tail(a) \o b \in Seq(S) /\ Len(Tail(a) \o b) = Len(a) - 1 + Len(b)
        /\ \A i \in 1 .. Len(a) - 1 + Len(b) :
              (Tail(a) \o b)[i] = IF i <= Len(a) - 1 THEN Tail(a)[i] ELSE b[i - (Len(a) - 1)]
    BY <1>5, ConcatProperties
  <1>8. \A i \in 1 .. Len(Tail(a \o b)) : Tail(a \o b)[i] = (Tail(a) \o b)[i]
    <2>. SUFFICES ASSUME NEW i \in 1 .. Len(a) + Len(b) - 1
                  PROVE  Tail(a \o b)[i] = (Tail(a) \o b)[i]
      BY <1>6
    <2>1. Tail(a \o b)[i] = IF i + 1 <= Len(a) THEN a[i + 1] ELSE b[i + 1 - Len(a)]
      BY <1>1, <1>2, <1>6
    <2>2. (Tail(a) \o b)[i] = IF i <= Len(a) - 1 THEN a[i + 1] ELSE b[i + 1 - Len(a)]
      BY <1>2, <1>5, <1>7
    <2>. QED
      BY <1>2, <2>1, <2>2
  <1>9. Len(Tail(a \o b)) = Len(Tail(a) \o b)
    BY <1>2, <1>6, <1>7
  <1>10. Tail(a \o b) = Tail(a) \o b
    BY <1>6, <1>7, <1>8, <1>9, SeqEqual
  <1>. QED
    BY <1>3, <1>4, <1>10

\* The first part is a prefix of the whole.
LEMMA PrefixOfConcat ==
  ASSUME NEW S, NEW a \in Seq(S), NEW b \in Seq(S)
  PROVE  Len(a) \in 0 .. Len(a \o b) /\ a = SubSeq(a \o b, 1, Len(a))
  <1>1. a \o b \in Seq(S) /\ Len(a \o b) = Len(a) + Len(b)
        /\ \A i \in 1 .. Len(a) + Len(b) :
              (a \o b)[i] = IF i <= Len(a) THEN a[i] ELSE b[i - Len(a)]
    BY ConcatProperties
  <1>2. Len(a) \in Nat /\ Len(b) \in Nat /\ \A i \in 1 .. Len(a) : a[i] \in S
    BY LenProperties, ElementOfSeq
  <1>3. \A i \in 1 .. Len(a) : (a \o b)[i] = a[i] /\ (a \o b)[i] \in S
    BY <1>1, <1>2
  <1>4. /\ SubSeq(a \o b, 1, Len(a)) \in Seq(S)
        /\ Len(SubSeq(a \o b, 1, Len(a))) = IF 1 <= Len(a) THEN Len(a) - 1 + 1 ELSE 0
        /\ \A i \in 1 .. Len(a) - 1 + 1 : SubSeq(a \o b, 1, Len(a))[i] = (a \o b)[1 + i - 1]
    BY <1>2, <1>3, SubSeqProperties
  <1>5. Len(SubSeq(a \o b, 1, Len(a))) = Len(a)
    BY <1>2, <1>4
  <1>6. \A i \in 1 .. Len(a) : a[i] = SubSeq(a \o b, 1, Len(a))[i]
    BY <1>2, <1>3, <1>4
  <1>7. a = SubSeq(a \o b, 1, Len(a))
    BY <1>4, <1>5, <1>6, SeqEqual
  <1>. QED
    BY <1>1, <1>2, <1>7

----------------------------------------------------------------------------
(* The inductive invariant.                                                *)

\* Whoever publishes holds the bus lock, and goes only to registered subscribers.
PublisherInv ==
    \A p \in Publishers :
        /\ pub[p].todo \subseteq subs
        /\ pub[p].ev = None => pub[p].todo = {} /\ pub[p].nudge = None

\* A subscriber is closed after it left the map, its pump ends after that, and the
\* channel is closed last.
EndInv ==
    \A s \in Subscribers :
        /\ pump[s] = "none" => ~closed[s] /\ s \notin subs
        /\ closed[s] => s \notin subs
        /\ pump[s] = "ended" => closed[s]
        /\ outClosed[s] => pump[s] = "ended"

\* The pump holds one event exactly while it sends, and the list and its hands are empty
\* whenever criticalPending is off.
PendingInv ==
    \A s \in Subscribers :
        /\ pump[s] = "send" <=> held[s] # <<>>
        /\ Len(held[s]) <= 1
        /\ ~criticalPending[s] => held[s] = <<>> /\ critical[s] = <<>>

BusInv == TypeOK /\ PublisherInv /\ EndInv /\ PendingInv

\* The initial state satisfies the invariant.
LEMMA InitInv == Init => BusInv
  <1>. SUFFICES ASSUME Init PROVE BusInv
    OBVIOUS
  <1>. USE BusAssumption
  <1>1. <<>> \in Seq(Events) /\ Len(<<>>) = 0
    BY EmptySeq
  <1>2. TypeOK
    BY <1>1 DEF Init, TypeOK, Idle
  <1>3. PublisherInv /\ EndInv
    BY DEF Init, PublisherInv, EndInv, Idle
  <1>4. PendingInv
    BY <1>1 DEF Init, PendingInv
  <1>. QED
    BY <1>2, <1>3, <1>4 DEF BusInv

\* What every step of the bus does to the variables it touches has the right type.
LEMMA NextType == ASSUME BusInv, Next PROVE TypeOK'
  <1>. USE BusAssumption
  <1>. TypeOK
    BY DEF BusInv
  <1>. USE DEF TypeOK, busVars, fifoVars, endVars
  <1>1. ASSUME NEW s \in Subscribers, Subscribe(s) PROVE TypeOK'
    BY <1>1 DEF Subscribe
  <1>2. ASSUME NEW s \in Subscribers, Close(s) PROVE TypeOK'
    BY <1>2 DEF Close
  <1>3. ASSUME NEW s \in Subscribers, CloseOut(s) PROVE TypeOK'
    BY <1>3 DEF CloseOut
  <1>4. ASSUME NEW p \in Publishers, NEW e \in Events, Publish(p, e) PROVE TypeOK'
    BY <1>4 DEF Publish
  <1>5. ASSUME NEW p \in Publishers, NEW s \in Subscribers, s \in pub[p].todo
        PROVE pub[p].ev \in Events
    BY <1>5 DEF BusInv, PublisherInv
  <1>6. ASSUME NEW p \in Publishers, NEW s \in Subscribers, PublishDrop(p, s) PROVE TypeOK'
    <2>1. pub[p].ev \in Events
      BY <1>5, <1>6 DEF PublishDrop, Handed
    <2>2. Append(offered[s], pub[p].ev) \in Seq(Events)
      BY <2>1, AppendProperties
    <2>4. pub' \in [Publishers -> [ev : Events \cup {None}, todo : SUBSET Subscribers,
                               nudge : Subscribers \cup {None}]]
      BY <1>6, <2>1 DEF PublishDrop, Visited
    <2>. QED
      BY <1>6, <2>2, <2>4 DEF PublishDrop, Handed
  <1>7. ASSUME NEW p \in Publishers, NEW s \in Subscribers, PublishDirect(p, s) PROVE TypeOK'
    <2>1. pub[p].ev \in Events
      BY <1>5, <1>7 DEF PublishDirect, Handed
    <2>2. /\ Append(offered[s], pub[p].ev) \in Seq(Events)
          /\ Append(out[s], pub[p].ev) \in Seq(Events)
          /\ Len(Append(out[s], pub[p].ev)) = Len(out[s]) + 1
      BY <2>1, AppendProperties
    <2>3. Len(out[s]) \in Nat /\ Len(out[s]) < Limit
      BY <1>7, LenProperties DEF PublishDirect, Direct, HasRoom
    <2>4. pub' \in [Publishers -> [ev : Events \cup {None}, todo : SUBSET Subscribers,
                               nudge : Subscribers \cup {None}]]
      BY <1>7, <2>1 DEF PublishDirect, Visited
    <2>5. out' \in [Subscribers -> Seq(Events)]
      BY <1>7, <2>2 DEF PublishDirect
    <2>6. \A r \in Subscribers : Len(out'[r]) <= Limit
      BY <1>7, <2>2, <2>3 DEF PublishDirect
    <2>7. offered' \in [Subscribers -> Seq(Events)]
      BY <1>7, <2>2 DEF PublishDirect, Handed
    <2>. QED
      BY <1>7, <2>4, <2>5, <2>6, <2>7 DEF PublishDirect, Handed
  <1>8. ASSUME NEW p \in Publishers, NEW s \in Subscribers, PublishParked(p, s) PROVE TypeOK'
    <2>1. pub[p].ev \in Events
      BY <1>5, <1>8 DEF PublishParked, Handed
    <2>2. Append(offered[s], pub[p].ev) \in Seq(Events) /\ Append(critical[s], pub[p].ev) \in Seq(Events)
      BY <2>1, AppendProperties
    <2>4. pub' \in [Publishers -> [ev : Events \cup {None}, todo : SUBSET Subscribers,
                               nudge : Subscribers \cup {None}]]
      BY <1>8, <2>1 DEF PublishParked, Visited
    <2>. QED
      BY <1>8, <2>2, <2>4 DEF PublishParked, Handed
  <1>9. ASSUME NEW p \in Publishers, Notify(p) PROVE TypeOK'
    <2>1. pub' \in [Publishers -> [ev : Events \cup {None}, todo : SUBSET Subscribers,
                               nudge : Subscribers \cup {None}]]
      BY <1>9 DEF Notify
    <2>2. notify' \in [Subscribers -> BOOLEAN]
      BY <1>9 DEF Notify
    <2>. QED
      BY <1>9, <2>1, <2>2 DEF Notify
  <1>10. ASSUME NEW p \in Publishers, EndPublish(p) PROVE TypeOK'
    BY <1>10 DEF EndPublish, Idle
  <1>11. ASSUME NEW s \in Subscribers, PumpIdle(s) PROVE TypeOK'
    BY <1>11 DEF PumpIdle
  <1>12. ASSUME NEW s \in Subscribers, PumpPop(s) PROVE TypeOK'
    <2>1. Head(critical[s]) \in Events /\ Tail(critical[s]) \in Seq(Events)
      BY <1>12, HeadTailProperties DEF PumpPop
    <2>. QED
      BY <1>12, <2>1 DEF PumpPop
  <1>13. ASSUME NEW s \in Subscribers, PumpWoken(s) PROVE TypeOK'
    BY <1>13 DEF PumpWoken
  <1>14. ASSUME NEW s \in Subscribers, PumpSend(s) PROVE TypeOK'
    <2>1. /\ out[s] \o held[s] \in Seq(Events)
          /\ Len(out[s] \o held[s]) = Len(out[s]) + Len(held[s])
      BY ConcatProperties
    <2>2. Len(out[s]) \in Nat /\ Len(held[s]) \in Nat /\ Len(held[s]) <= 1 /\ Len(out[s]) < Limit
      BY <1>14, LenProperties DEF PumpSend, HasRoom, BusInv, PendingInv
    <2>3. <<>> \in Seq(Events)
      BY EmptySeq
    <2>. QED
      BY <1>14, <2>1, <2>2, <2>3 DEF PumpSend
  <1>15. ASSUME NEW s \in Subscribers, PumpEnd(s) PROVE TypeOK'
    BY <1>15, EmptySeq DEF PumpEnd
  <1>16. ASSUME NEW s \in Subscribers, Receive(s) PROVE TypeOK'
    <2>1. /\ Head(out[s]) \in Events /\ Tail(out[s]) \in Seq(Events)
          /\ Len(Tail(out[s])) = Len(out[s]) - 1
      BY <1>16, HeadTailProperties DEF Receive
    <2>2. Append(received[s], Head(out[s])) \in Seq(Events) /\ Len(out[s]) \in Nat
      BY <2>1, AppendProperties, LenProperties
    <2>. QED
      BY SMTT(60), <1>16, <2>1, <2>2 DEF Receive
  <1>17. ASSUME NEW s \in Subscribers, HangUp(s) PROVE TypeOK'
    BY <1>17 DEF HangUp
  <1>. QED
    BY <1>1, <1>2, <1>3, <1>4, <1>6, <1>7, <1>8, <1>9, <1>10, <1>11, <1>12, <1>13, <1>14,
       <1>15, <1>16, <1>17 DEF Next, Publishing, Pumping

\* Publishers hold the bus lock, so the map changes only when none of them is at work.
LEMMA NextPublisherInv == ASSUME BusInv, Next PROVE PublisherInv'
  <1>. USE BusAssumption DEF PublisherInv, busVars
  <1>. TypeOK /\ PublisherInv
    BY DEF BusInv
  <1>1. ASSUME NEW s \in Subscribers, Subscribe(s) \/ Close(s) PROVE PublisherInv'
    BY <1>1 DEF Subscribe, Close, WriteLockFree
  <1>2. ASSUME NEW p \in Publishers, NEW e \in Events, Publish(p, e) PROVE PublisherInv'
    BY <1>2 DEF Publish, TypeOK
  <1>3. ASSUME NEW p \in Publishers, NEW s \in Subscribers,
               PublishDrop(p, s) \/ PublishDirect(p, s) \/ PublishParked(p, s)
        PROVE PublisherInv'
    <2>1. subs' = subs /\ s \in pub[p].todo /\ pub[p].ev # None
      BY <1>3 DEF PublishDrop, PublishDirect, PublishParked, Handed
    <2>2. \E n : Visited(p, s, n)
      BY <1>3 DEF PublishDrop, PublishDirect, PublishParked
    <2>. QED
      BY <2>1, <2>2 DEF Visited, TypeOK
  <1>4. ASSUME NEW p \in Publishers, Notify(p) PROVE PublisherInv'
    <2>1. /\ subs' = subs
          /\ pub' = [pub EXCEPT ![p] = [ev |-> @.ev, todo |-> @.todo, nudge |-> None]]
      BY <1>4 DEF Notify
    <2>. QED
      BY <2>1 DEF TypeOK
  <1>6. ASSUME NEW p \in Publishers, EndPublish(p) PROVE PublisherInv'
    <2>1. subs' = subs /\ pub' = [pub EXCEPT ![p] = Idle]
      BY <1>6 DEF EndPublish
    <2>. QED
      BY <2>1 DEF TypeOK, Idle
  <1>5. ASSUME NEW s \in Subscribers, CloseOut(s) \/ Pumping(s) \/ Receive(s) \/ HangUp(s)
        PROVE PublisherInv'
    <2>1. UNCHANGED <<subs, pub>>
      BY <1>5 DEF CloseOut, Pumping, PumpIdle, PumpPop, PumpWoken, PumpSend, PumpEnd,
                  Receive, HangUp
    <2>. QED
      BY <2>1
  <1>. QED
    BY <1>1, <1>2, <1>3, <1>4, <1>5, <1>6 DEF Next, Publishing

\* The order in which a subscriber is taken down.
LEMMA NextEndInv == ASSUME BusInv, Next PROVE EndInv'
  <1>. USE BusAssumption DEF EndInv, busVars, endVars, TypeOK
  <1>. TypeOK /\ EndInv
    BY DEF BusInv
  <1>1. ASSUME NEW s \in Subscribers, Subscribe(s) PROVE EndInv'
    <2>1. ~closed[s]
      <3>1. pump[s] = "none"
        BY <1>1 DEF Subscribe
      <3>. QED
        BY <3>1
    <2>. QED
      BY <1>1, <2>1 DEF Subscribe
  <1>2. ASSUME NEW s \in Subscribers, Close(s) PROVE EndInv'
    BY <1>2 DEF Close
  <1>3. ASSUME NEW s \in Subscribers, CloseOut(s) PROVE EndInv'
    BY <1>3 DEF CloseOut
  <1>4. ASSUME NEW s \in Subscribers, Pumping(s) PROVE EndInv'
    BY <1>4 DEF Pumping, PumpIdle, PumpPop, PumpWoken, PumpSend, PumpEnd
  <1>5. ASSUME UNCHANGED <<subs, closed, outClosed, pump>> PROVE EndInv'
    BY <1>5
  <1>6. ASSUME NEW p \in Publishers, Publishing(p) \/ \E e \in Events : Publish(p, e)
        PROVE EndInv'
    <2>1. UNCHANGED <<subs, closed, outClosed, pump>>
      BY <1>6 DEF Publishing, Publish, PublishDrop, PublishDirect, PublishParked, Handed,
                  Notify, EndPublish
    <2>. QED
      BY <1>5, <2>1
  <1>7. ASSUME NEW s \in Subscribers, Receive(s) \/ HangUp(s) PROVE EndInv'
    BY <1>5, <1>7 DEF Receive, HangUp
  <1>. QED
    BY <1>1, <1>2, <1>3, <1>4, <1>6, <1>7 DEF Next

\* The flag criticalPending covers the list and the hands of the pump.
LEMMA NextPendingInv == ASSUME BusInv, Next PROVE PendingInv'
  <1>. USE DEF PendingInv, TypeOK
  <1>. TypeOK /\ PendingInv
    BY DEF BusInv
  <1>1. ASSUME UNCHANGED <<held, critical, criticalPending, pump>> PROVE PendingInv'
    BY <1>1
  <1>2. ASSUME NEW p \in Publishers, NEW s \in Subscribers, PublishParked(p, s)
        PROVE PendingInv'
    BY <1>2 DEF PublishParked, Handed
  <1>3. ASSUME NEW p \in Publishers,
               \/ \E s \in Subscribers : PublishDrop(p, s) \/ PublishDirect(p, s)
               \/ Notify(p) \/ EndPublish(p) \/ \E e \in Events : Publish(p, e)
        PROVE PendingInv'
    BY <1>1, <1>3 DEF PublishDrop, PublishDirect, Handed, Notify, EndPublish, Publish, fifoVars
  <1>4. ASSUME NEW s \in Subscribers, Subscribe(s) PROVE PendingInv'
    BY <1>4 DEF Subscribe, fifoVars
  <1>5. ASSUME NEW s \in Subscribers, Close(s) \/ CloseOut(s) \/ Receive(s) \/ HangUp(s)
        PROVE PendingInv'
    BY <1>1, <1>5 DEF Close, CloseOut, Receive, HangUp, fifoVars
  <1>6. ASSUME NEW s \in Subscribers, PumpIdle(s) \/ PumpWoken(s) PROVE PendingInv'
    <2>1. pump[s] # "send"
      BY <1>6 DEF PumpIdle, PumpWoken
    <2>2. held[s] = <<>>
      BY <2>1
    <2>3. CASE PumpIdle(s)
      BY <2>2, <2>3 DEF PumpIdle
    <2>4. CASE PumpWoken(s)
      BY <2>2, <2>4 DEF PumpWoken
    <2>. QED
      BY <1>6, <2>3, <2>4
  <1>7. ASSUME NEW s \in Subscribers, PumpPop(s) PROVE PendingInv'
    <2>1. criticalPending[s]
      BY <1>7 DEF PumpPop
    <2>2. Len(<<Head(critical[s])>>) = 1 /\ <<Head(critical[s])>> # <<>>
      OBVIOUS
    <2>. QED
      BY <1>7, <2>1, <2>2 DEF PumpPop
  <1>8. ASSUME NEW s \in Subscribers, PumpSend(s) \/ PumpEnd(s) PROVE PendingInv'
    <2>1. Len(<<>>) = 0
      BY EmptySeq
    <2>. QED
      BY SMTT(60), <1>8, <2>1 DEF PumpSend, PumpEnd, fifoVars
  <1>. QED
    BY <1>2, <1>3, <1>4, <1>5, <1>6, <1>7, <1>8 DEF Next, Publishing, Pumping

\* The invariant holds in every reachable state.
THEOREM BusInvariance == Spec => []BusInv
  <1>1. BusInv /\ [Next]_vars => BusInv'
    <2>1. ASSUME BusInv, Next PROVE BusInv'
      BY <2>1, NextType, NextPublisherInv, NextEndInv, NextPendingInv DEF BusInv
    <2>2. ASSUME BusInv, UNCHANGED vars PROVE BusInv'
      BY <2>2 DEF vars, BusInv, TypeOK, PublisherInv, EndInv, PendingInv
    <2>. QED
      BY <2>1, <2>2
  <1>. QED
    BY <1>1, InitInv, PTL DEF Spec

\* Nobody ever sends on a closed channel: close(s.out) in busSubscriber.close comes after
\* the pump has returned and after the last publisher that had the subscriber on its way.
THEOREM NoSendAlways == Spec => []NoSendAfterClose
  <1>1. BusInv => NoSendAfterClose
    BY DEF BusInv, PublisherInv, EndInv, NoSendAfterClose, TypeOK
  <1>. QED
    BY <1>1, BusInvariance, PTL

----------------------------------------------------------------------------
(* Each subscription implements LossyFifo.                                 *)

\* The channel, the hands of the pump and the list are sequences of events.
LEMMA ComingType ==
  ASSUME BusInv, NEW t \in Subscribers
  PROVE  /\ held[t] \o critical[t] \in Seq(Events) /\ Coming(t) \in Seq(Events)
         /\ pump[t] # "ended" => Coming(t) = out[t] \o (held[t] \o critical[t])
         /\ pump[t] = "ended" => Coming(t) = out[t]
  <1>1. out[t] \in Seq(Events) /\ held[t] \in Seq(Events) /\ critical[t] \in Seq(Events)
    BY DEF BusInv, TypeOK
  <1>2. held[t] \o critical[t] \in Seq(Events)
    BY <1>1, ConcatProperties
  <1>3. out[t] \o (held[t] \o critical[t]) \in Seq(Events)
    BY <1>1, <1>2, ConcatProperties
  <1>4. out[t] \o <<>> = out[t]
    BY <1>1, ConcatEmptySeq
  <1>. QED
    BY <1>1, <1>2, <1>3, <1>4 DEF Coming

\* A step that leaves the parts of a subscription alone leaves its promise alone.
LEMMA UntouchedFifo ==
  ASSUME NEW t \in Subscribers,
         offered'[t] = offered[t], received'[t] = received[t], closed'[t] = closed[t],
         Coming(t)' = Coming(t)
  PROVE  UNCHANGED Fifo(t)!vars
  BY DEF Fifo!vars

\* What publishing an event to a subscription does to its promise.
LEMMA PublishFifo ==
  ASSUME BusInv, NEW p \in Publishers, NEW t \in Subscribers,
         PublishDrop(p, t) \/ PublishDirect(p, t) \/ PublishParked(p, t)
  PROVE  \E e \in Events : Fifo(t)!Publish(e)
  <1>. DEFINE e == pub[p].ev
  <1>1. TypeOK /\ t \in pub[p].todo
    BY DEF BusInv, PublishDrop, PublishDirect, PublishParked, Handed
  <1>2. e \in Events
    BY <1>1 DEF BusInv, PublisherInv, TypeOK
  <1>3. ~closed[t] /\ pump[t] # "ended"
    BY <1>1 DEF BusInv, PublisherInv, EndInv, TypeOK
  <1>4. /\ offered'[t] = Append(offered[t], e) /\ received'[t] = received[t]
        /\ closed' = closed /\ pump' = pump /\ held' = held
    BY <1>1 DEF PublishDrop, PublishDirect, PublishParked, Handed, endVars, TypeOK
  <1>5. Coming(t) = out[t] \o (held[t] \o critical[t]) /\ Coming(t)' = out'[t] \o (held[t] \o critical'[t])
    BY <1>3, <1>4 DEF Coming
  <1>6. out[t] \in Seq(Events) /\ held[t] \in Seq(Events) /\ critical[t] \in Seq(Events)
        /\ held[t] \o critical[t] \in Seq(Events)
    BY <1>1, ConcatProperties DEF TypeOK
  <1>7. CASE PublishDrop(p, t)
    <2>1. e \notin Critical /\ Coming(t)' = Coming(t)
      BY <1>3, <1>5, <1>7 DEF PublishDrop, Drops
    <2>. QED
      BY <1>2, <1>3, <1>4, <2>1 DEF Fifo!Publish
  <1>8. CASE PublishDirect(p, t)
    <2>1. held[t] = <<>> /\ critical[t] = <<>>
      BY <1>8 DEF PublishDirect, Direct, BusInv, PendingInv
    <2>2. out'[t] = Append(out[t], e) /\ critical'[t] = critical[t]
      BY <1>1, <1>8 DEF PublishDirect, TypeOK
    <2>3. <<>> \o <<>> = <<>> /\ out[t] \o <<>> = out[t] /\ Append(out[t], e) \o <<>> = Append(out[t], e)
      BY <1>2, <1>6, EmptySeq, AppendProperties, ConcatEmptySeq
    <2>4. Coming(t)' = Append(Coming(t), e)
      BY <1>5, <2>1, <2>2, <2>3
    <2>. QED
      BY <1>2, <1>3, <1>4, <2>4 DEF Fifo!Publish
  <1>9. CASE PublishParked(p, t)
    <2>1. out'[t] = out[t] /\ critical'[t] = Append(critical[t], e)
      BY <1>1, <1>9 DEF PublishParked, TypeOK
    <2>0. \A a, b \in Seq(Events) : \A x \in Events : a \o Append(b, x) = Append(a \o b, x)
      BY AppendBehind
    <2>. HIDE DEF e
    <2>2. held[t] \o Append(critical[t], e) = Append(held[t] \o critical[t], e)
      BY <1>2, <1>6, <2>0, Zenon
    <2>3. out[t] \o Append(held[t] \o critical[t], e) = Append(out[t] \o (held[t] \o critical[t]), e)
      BY <1>2, <1>6, <2>0, Zenon
    <2>4. Coming(t)' = Append(Coming(t), e)
      BY <1>5, <2>1, <2>2, <2>3, Zenon
    <2>. QED
      BY <1>2, <1>3, <1>4, <2>4 DEF Fifo!Publish
  <1>. QED
    BY <1>7, <1>8, <1>9

\* The pump moves events along without changing what is coming, until it ends.
LEMMA PumpFifo ==
  ASSUME BusInv, NEW t \in Subscribers, Pumping(t)
  PROVE  Fifo(t)!Cut \/ UNCHANGED Fifo(t)!vars
  <1>1. TypeOK
    BY DEF BusInv
  <1>2. UNCHANGED <<offered, received, closed>>
    BY DEF Pumping, PumpIdle, PumpPop, PumpWoken, PumpSend, PumpEnd, endVars
  <1>3. out[t] \in Seq(Events) /\ held[t] \in Seq(Events) /\ critical[t] \in Seq(Events)
    BY <1>1 DEF TypeOK
  <1>4. <<>> \o critical[t] = critical[t]
    BY <1>3, ConcatEmptySeq
  <1>5. CASE PumpIdle(t) \/ PumpWoken(t)
    <2>1. Coming(t)' = Coming(t)
      BY <1>1, <1>5 DEF PumpIdle, PumpWoken, Coming, TypeOK
    <2>. QED
      BY <1>2, <2>1, UntouchedFifo
  <1>6. CASE PumpPop(t)
    <2>1. held[t] = <<>> /\ pump[t] # "ended"
      BY <1>6 DEF PumpPop, BusInv, PendingInv
    <2>2. /\ held'[t] = <<Head(critical[t])>> /\ critical'[t] = Tail(critical[t])
          /\ out' = out /\ pump'[t] # "ended" /\ critical[t] # <<>>
      BY <1>1, <1>6 DEF PumpPop, TypeOK
    <2>3. <<Head(critical[t])>> \o Tail(critical[t]) = critical[t]
      BY <1>3, <2>2
    <2>4. Coming(t)' = Coming(t)
      BY <1>4, <2>1, <2>2, <2>3 DEF Coming
    <2>. QED
      BY <1>2, <2>4, UntouchedFifo
  <1>7. CASE PumpSend(t)
    <2>1. /\ pump[t] # "ended" /\ pump'[t] # "ended" /\ critical' = critical
          /\ out'[t] = out[t] \o held[t] /\ held'[t] = <<>>
      BY <1>1, <1>7 DEF PumpSend, TypeOK
    <2>0. \A a, b, c \in Seq(Events) : (a \o b) \o c = a \o (b \o c)
      BY ConcatAssociative
    <2>2. (out[t] \o held[t]) \o critical[t] = out[t] \o (held[t] \o critical[t])
      BY <1>3, <2>0, Zenon
    <2>3. Coming(t)' = Coming(t)
      BY <1>4, <2>1, <2>2 DEF Coming
    <2>. QED
      BY <1>2, <2>3, UntouchedFifo
  <1>8. CASE PumpEnd(t)
    <2>1. pump[t] # "ended" /\ pump'[t] = "ended" /\ out' = out /\ closed[t]
      BY <1>1, <1>8 DEF PumpEnd, TypeOK, fifoVars
    <2>2. Coming(t) = out[t] \o (held[t] \o critical[t]) /\ held[t] \o critical[t] \in Seq(Events)
      BY <2>1, ComingType
    <2>3. Coming(t)' = out[t]
      BY <1>3, <2>1, ConcatEmptySeq DEF Coming
    <2>4. Len(out[t]) \in 0 .. Len(Coming(t)) /\ out[t] = SubSeq(Coming(t), 1, Len(out[t]))
      BY <1>3, <2>2, PrefixOfConcat
    <2>5. \E n \in 0 .. Len(Coming(t)) : Coming(t)' = SubSeq(Coming(t), 1, n)
      BY <2>3, <2>4
    <2>. QED
      BY <1>2, <2>1, <2>5 DEF Fifo!Cut
  <1>. QED
    BY <1>5, <1>6, <1>7, <1>8 DEF Pumping

\* The reader takes the first of what is coming.
LEMMA ReceiveFifo ==
  ASSUME BusInv, NEW t \in Subscribers, Receive(t)
  PROVE  Fifo(t)!Take
  <1>. DEFINE rest == IF pump[t] = "ended" THEN <<>> ELSE held[t] \o critical[t]
  <1>1. TypeOK
    BY DEF BusInv
  <1>2. out[t] \in Seq(Events) /\ out[t] # <<>>
    BY <1>1 DEF Receive, TypeOK
  <1>3. rest \in Seq(Events)
    BY ComingType, EmptySeq
  <1>4. /\ out'[t] = Tail(out[t]) /\ received'[t] = Append(received[t], Head(out[t]))
        /\ UNCHANGED <<offered, closed, pump, held, critical>>
    BY <1>1 DEF Receive, TypeOK, endVars
  <1>5. Coming(t) = out[t] \o rest /\ Coming(t)' = Tail(out[t]) \o rest
    BY <1>4 DEF Coming
  <1>. HIDE DEF rest
  <1>6. out[t] \o rest # <<>> /\ Head(out[t] \o rest) = Head(out[t])
        /\ Tail(out[t] \o rest) = Tail(out[t]) \o rest
    BY <1>2, <1>3, TakeInFront
  <1>. QED
    BY <1>4, <1>5, <1>6 DEF Fifo!Take

\* Every step of the bus is a step of the promise to each subscriber, or none.
LEMMA NextFifo ==
  ASSUME BusInv, Next, NEW t \in Subscribers
  PROVE  [Fifo(t)!Next]_(Fifo(t)!vars)
  <1>1. TypeOK
    BY DEF BusInv
  <1>2. ASSUME offered'[t] = offered[t], received'[t] = received[t], closed'[t] = closed[t],
               out'[t] = out[t], held'[t] = held[t], critical'[t] = critical[t],
               pump'[t] = pump[t] \/ {pump[t], pump'[t]} \cap {"ended"} = {}
        PROVE  UNCHANGED Fifo(t)!vars
    <2>1. Coming(t)' = Coming(t)
      BY <1>2 DEF Coming
    <2>. QED
      BY <1>2, <2>1, UntouchedFifo
  <1>3. ASSUME NEW p \in Publishers, NEW s \in Subscribers,
               PublishDrop(p, s) \/ PublishDirect(p, s) \/ PublishParked(p, s)
        PROVE  [Fifo(t)!Next]_(Fifo(t)!vars)
    <2>1. CASE s = t
      BY <1>3, <2>1, PublishFifo DEF Fifo!Next
    <2>2. CASE s # t
      BY <1>1, <1>2, <1>3, <2>2 DEF PublishDrop, PublishDirect, PublishParked, Handed, endVars, TypeOK
    <2>. QED
      BY <2>1, <2>2
  <1>4. ASSUME NEW p \in Publishers, Notify(p) \/ EndPublish(p) \/ \E e \in Events : Publish(p, e)
        PROVE  UNCHANGED Fifo(t)!vars
    BY <1>2, <1>4 DEF Notify, EndPublish, Publish, fifoVars, endVars
  <1>5. ASSUME NEW s \in Subscribers, Pumping(s) PROVE [Fifo(t)!Next]_(Fifo(t)!vars)
    <2>1. CASE s = t
      BY <1>5, <2>1, PumpFifo DEF Fifo!Next
    <2>2. CASE s # t
      BY <1>1, <1>2, <1>5, <2>2 DEF Pumping, PumpIdle, PumpPop, PumpWoken, PumpSend, PumpEnd,
                                    fifoVars, endVars, TypeOK
    <2>. QED
      BY <2>1, <2>2
  <1>6. ASSUME NEW s \in Subscribers, Receive(s) PROVE [Fifo(t)!Next]_(Fifo(t)!vars)
    <2>1. CASE s = t
      BY <1>6, <2>1, ReceiveFifo DEF Fifo!Next
    <2>2. CASE s # t
      BY <1>1, <1>2, <1>6, <2>2 DEF Receive, endVars, TypeOK
    <2>. QED
      BY <2>1, <2>2
  <1>7. ASSUME NEW s \in Subscribers, Close(s) PROVE [Fifo(t)!Next]_(Fifo(t)!vars)
    <2>1. UNCHANGED <<offered, received, out, held, critical, pump>>
      BY <1>7 DEF Close, fifoVars
    <2>2. CASE s = t
      <3>1. closed'[t] = TRUE
        BY <1>1, <1>7, <2>2 DEF Close, TypeOK
      <3>2. Coming(t)' = Coming(t)
        BY <2>1 DEF Coming
      <3>. QED
        BY <2>1, <3>1, <3>2 DEF Fifo!Next, Fifo!Close
    <2>3. CASE s # t
      BY <1>1, <1>2, <1>7, <2>1, <2>3 DEF Close, TypeOK
    <2>. QED
      BY <2>2, <2>3
  <1>8. ASSUME NEW s \in Subscribers, Subscribe(s) PROVE UNCHANGED Fifo(t)!vars
    <2>1. UNCHANGED <<offered, received, out, held, critical, closed>>
      BY <1>8 DEF Subscribe, fifoVars, endVars
    <2>2. pump'[t] = pump[t] \/ {pump[t], pump'[t]} \cap {"ended"} = {}
      BY <1>1, <1>8 DEF Subscribe, TypeOK
    <2>. QED
      BY <1>2, <2>1, <2>2
  <1>9. ASSUME NEW s \in Subscribers, CloseOut(s) \/ HangUp(s) PROVE UNCHANGED Fifo(t)!vars
    BY <1>2, <1>9 DEF CloseOut, HangUp, fifoVars, endVars
  <1>. QED
    BY <1>3, <1>4, <1>5, <1>6, <1>7, <1>8, <1>9 DEF Next, Publishing

\* Every subscription is a FIFO that loses no critical event before it is closed, for any
\* number of publishers and subscribers and any channel capacity (busSubscriber.publish
\* and deliver).
THEOREM EachSubscriptionIsFifo == Spec => FifoKept
  <1>1. Init => \A s \in Subscribers : Fifo(s)!Init
    <2>. SUFFICES ASSUME Init, NEW s \in Subscribers PROVE Fifo(s)!Init
      OBVIOUS
    <2>1. Coming(s) = <<>>
      BY ConcatEmptySeq, EmptySeq DEF Init, Coming
    <2>. QED
      BY <2>1 DEF Init, Fifo!Init
  <1>2. BusInv /\ [Next]_vars =>
          [\A s \in Subscribers : [Fifo(s)!Next]_(Fifo(s)!vars)]_vars
    BY NextFifo
  <1>. QED
    BY <1>1, <1>2, BusInvariance, PTL DEF Spec, FifoKept
=============================================================================

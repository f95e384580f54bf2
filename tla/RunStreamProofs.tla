-------------------------- MODULE RunStreamProofs --------------------------
(***************************************************************************)
(* Proofs about what is published of subagent runs.                        *)
(*                                                                         *)
(* RunStream, for any numbers of runs and subscribers and for every cap    *)
(* and buffer size: the state is well formed (StreamTypeCorrect), an open  *)
(* subscriber misses nothing that is retained (NothingIsMissed), and a run *)
(* whose done was published is not shown live again (EndIsFinal).          *)
(*                                                                         *)
(* DelegateRun, one internal run, for every number of callers, chunks,     *)
(* ticks and timers: the state is well formed                              *)
(* (DelegateTypeCorrect), an unpublished part of a live transcript has a   *)
(* callback coming (PendingAlways), and nothing is published behind the    *)
(* done event (DoneStaysLast).                                             *)
(***************************************************************************)
EXTENDS RunStream, DelegateRun, FiniteSetTheorems, TLAPS

----------------------------------------------------------------------------
(* The registry of a run stream as a value.                                *)

Item == [frame : Frame, seq : Nat \ {0}]

Registry == [seq : Nat, runs : [Runs -> Entry \cup {None}], pending : [Runs -> Frame \cup {None}],
             subscribers : SUBSET Subscribers, count : Int, frames : [Subscribers -> Seq(Item)]]

\* Numbers are up to date, what is pending waits out the interval, buffers are within the limit.
Shape(w) ==
    /\ w \in Registry
    /\ \A r \in Runs : w.runs[r] # None => w.runs[r].seq <= w.seq
    /\ \A r \in Runs : w.pending[r] # None =>
          w.pending[r].run = r /\ w.pending[r].type = "updated" /\ w.pending[r].live
    /\ \A s \in Subscribers : Len(w.frames[s]) <= Buffer

\* What a buffer and what is written already will show of r in the end (WillShow).
Ends(q, old, r, x) ==
    \/ (\A i \in DOMAIN q : q[i].frame.run # r) /\ old[r] = x
    \/ \E i \in DOMAIN q : /\ q[i].frame.run = r /\ Payload(q[i].frame) = x
                           /\ \A k \in DOMAIN q : q[k].frame.run = r => k <= i

\* A buffer ends with the latest number and has no gap, and shows what is retained.
ServedOne(w, s, old) ==
    /\ \A i \in DOMAIN w.frames[s] : w.frames[s][i].seq = w.seq - Len(w.frames[s]) + i
    /\ \A r \in Runs : w.runs[r] # None => Ends(w.frames[s], old, r, Payload(w.runs[r]))

Served(w, sh) == \A s \in w.subscribers : ServedOne(w, s, sh[s])

\* No subscriber is added, and nobody else's buffer is touched.
Follows(a, b) ==
    /\ b.subscribers \subseteq a.subscribers
    /\ \A s \in Subscribers \ a.subscribers : b.frames[s] = a.frames[s]

\* The cap on the retained runs holds.
Capped(w) == Unexpired(w) \subseteq Retained(w)

\* The entry of a frame.
EntryOf(f, n) ==
    [type |-> f.type, ver |-> f.ver, stamp |-> f.stamp, live |-> f.live, seq |-> n, expired |-> FALSE]

\* The entry of a frame is an entry.
LEMMA EntryType ==
  ASSUME NEW f \in Frame, NEW n \in Nat \ {0}
  PROVE  EntryOf(f, n) \in Entry /\ EntryOf(f, n) # None
  <1>1. EntryOf(f, n) \in Entry
    BY Zenon DEF EntryOf, Frame, Entry
  <1>. QED
    BY <1>1, NoneAssumption

\* A frame at the end of a buffer is what is shown of its run, and leaves the others alone.
LEMMA EndsAppend ==
  ASSUME NEW q \in Seq(Item), NEW x \in Item, NEW old, NEW r \in Runs, NEW v
  PROVE  /\ x.frame.run = r => Ends(Append(q, x), old, r, Payload(x.frame))
         /\ x.frame.run # r /\ Ends(q, old, r, v) => Ends(Append(q, x), old, r, v)
  <1>. DEFINE p == Append(q, x)
  <1>1. /\ DOMAIN p = 1 .. Len(q) + 1 /\ DOMAIN q = 1 .. Len(q) /\ Len(q) \in Nat
        /\ p[Len(q) + 1] = x /\ \A i \in DOMAIN q : p[i] = q[i]
    OBVIOUS
  <1>. HIDE DEF p
  <1>2. ASSUME x.frame.run = r PROVE Ends(p, old, r, Payload(x.frame))
    BY <1>1, <1>2 DEF Ends
  <1>3. ASSUME x.frame.run # r, Ends(q, old, r, v) PROVE Ends(p, old, r, v)
    <2>1. CASE (\A i \in DOMAIN q : q[i].frame.run # r) /\ old[r] = v
      BY <1>1, <1>3, <2>1 DEF Ends
    <2>2. ASSUME NEW i \in DOMAIN q, q[i].frame.run = r, Payload(q[i].frame) = v,
                 \A k \in DOMAIN q : q[k].frame.run = r => k <= i
          PROVE  Ends(p, old, r, v)
      <3>1. i \in DOMAIN p /\ p[i].frame.run = r /\ Payload(p[i].frame) = v
        BY <1>1, <2>2
      <3>2. \A k \in DOMAIN p : p[k].frame.run = r => k <= i
        BY <1>1, <1>3, <2>2
      <3>. QED
        BY <3>1, <3>2 DEF Ends
    <2>. QED
      BY <1>3, <2>1, <2>2 DEF Ends
  <1>. QED
    BY <1>2, <1>3 DEF p

\* A frame that is taken from the front and written shows the same in the end.
LEMMA EndsTail ==
  ASSUME NEW q \in Seq(Item), q # <<>>, NEW S, NEW old \in [Runs -> S],
         NEW r \in Runs, NEW v, Ends(q, old, r, v)
  PROVE  Ends(Tail(q), [old EXCEPT ![Head(q).frame.run] = Payload(Head(q).frame)], r, v)
  <1>. DEFINE p == Tail(q)
              h == Head(q).frame
              new == [old EXCEPT ![h.run] = Payload(h)]
  <1>1. /\ DOMAIN p = 1 .. Len(q) - 1 /\ DOMAIN q = 1 .. Len(q) /\ Len(q) \in Nat \ {0}
        /\ h = q[1].frame /\ \A i \in DOMAIN p : p[i] = q[i + 1]
    OBVIOUS
  <1>2. new[r] = IF r = h.run THEN Payload(h) ELSE old[r]
    OBVIOUS
  <1>. HIDE DEF p, h, new
  <1>3. CASE (\A i \in DOMAIN q : q[i].frame.run # r) /\ old[r] = v
    BY <1>1, <1>2, <1>3 DEF Ends
  <1>4. ASSUME NEW i \in DOMAIN q, q[i].frame.run = r, Payload(q[i].frame) = v,
               \A k \in DOMAIN q : q[k].frame.run = r => k <= i
        PROVE  Ends(p, new, r, v)
    <2>1. CASE i = 1
      <3>1. \A k \in DOMAIN p : p[k].frame.run # r
        BY <1>1, <1>4, <2>1
      <3>. QED
        BY <1>1, <1>2, <1>4, <2>1, <3>1 DEF Ends
    <2>2. CASE i > 1
      <3>1. i - 1 \in DOMAIN p /\ p[i - 1] = q[i]
        BY <1>1, <2>2
      <3>2. \A k \in DOMAIN p : p[k].frame.run = r => k <= i - 1
        BY <1>1, <1>4
      <3>. QED
        BY <1>4, <3>1, <3>2 DEF Ends
    <2>. QED
      BY <1>1, <2>1, <2>2
  <1>. QED
    BY <1>3, <1>4 DEF Ends, p, h, new

----------------------------------------------------------------------------
(* pruneLocked.                                                            *)

\* pruneLocked takes entries away, and numbers only when nothing is left.
LEMMA PruneFacts ==
  ASSUME NEW w \in Registry
  PROVE  LET p == Prune(w)
         IN  /\ p \in Registry
             /\ p.pending = w.pending /\ p.subscribers = w.subscribers /\ p.frames = w.frames
             /\ p.runs = [r \in Runs |-> IF r \in Retained(w) THEN w.runs[r] ELSE None]
             /\ p.seq # w.seq => p.seq = 0 /\ p.subscribers = {} /\ \A r \in Runs : p.runs[r] = None
  <1>. DEFINE kept == [r \in Runs |-> IF r \in Retained(w) THEN w.runs[r] ELSE None]
              v == [w EXCEPT !.runs = kept]
              empty == v.subscribers = {} /\ \A r \in Runs : ~Has(v, r) /\ v.pending[r] = None
  <1>1. kept \in [Runs -> Entry \cup {None}]
    BY DEF Registry
  <1>2. /\ v \in Registry /\ v.seq = w.seq /\ v.runs = kept
        /\ v.pending = w.pending /\ v.subscribers = w.subscribers /\ v.frames = w.frames
    BY <1>1 DEF Registry
  <1>3. Prune(w) = [v EXCEPT !.seq = IF empty THEN 0 ELSE w.seq]
    BY <1>2 DEF Prune
  <1>4. empty => v.subscribers = {} /\ \A r \in Runs : v.runs[r] = None
    BY DEF Has
  <1>. HIDE DEF v, empty
  <1>5. LET p == Prune(w)
        IN  /\ p \in Registry /\ p.runs = v.runs
            /\ p.pending = v.pending /\ p.subscribers = v.subscribers /\ p.frames = v.frames
            /\ p.seq = IF empty THEN 0 ELSE w.seq
    <2>. DEFINE n == IF empty THEN 0 ELSE w.seq
    <2>1. n \in Nat /\ Prune(w) = [v EXCEPT !.seq = n]
      BY <1>2, <1>3 DEF Registry
    <2>. HIDE DEF n
    <2>2. /\ Prune(w) \in Registry /\ Prune(w).runs = v.runs
          /\ Prune(w).pending = v.pending /\ Prune(w).subscribers = v.subscribers
          /\ Prune(w).frames = v.frames /\ Prune(w).seq = n
      BY <1>2, <2>1 DEF Registry
    <2>. QED
      BY <2>2, Zenon DEF n
  <1>. HIDE DEF kept
  <1>6. v.runs = [r \in Runs |-> IF r \in Retained(w) THEN w.runs[r] ELSE None]
    BY <1>2 DEF kept
  <1>. QED
    BY <1>2, <1>4, <1>5, <1>6

\* Of fewer runs each is still among the latest.
LEMMA RetainedStays ==
  ASSUME NEW v, NEW w, Unexpired(v) \subseteq Unexpired(w),
         \A q \in Unexpired(v) : v.runs[q].seq = w.runs[q].seq,
         NEW r \in Unexpired(v), r \in Retained(w)
  PROVE  r \in Retained(v)
  <1>. DEFINE above == {q \in Unexpired(v) : v.runs[q].seq > v.runs[r].seq}
              before == {q \in Unexpired(w) : w.runs[q].seq > w.runs[r].seq}
  <1>1. above \subseteq before /\ before \subseteq Runs /\ IsFiniteSet(Runs)
    BY StreamAssumption DEF Unexpired
  <1>2. IsFiniteSet(before) /\ IsFiniteSet(above) /\ Cardinality(above) <= Cardinality(before)
    BY <1>1, FS_Subset
  <1>3. Cardinality(above) \in Nat /\ Cardinality(before) \in Nat /\ MaxSnapshots \in Nat
    BY <1>2, FS_CardinalityType, StreamAssumption
  <1>4. Cardinality(before) < MaxSnapshots /\ r \in Runs
    BY DEF Retained, Unexpired
  <1>. HIDE DEF above, before
  <1>5. Cardinality(above) < MaxSnapshots
    BY <1>2, <1>3, <1>4
  <1>. QED
    BY <1>4, <1>5 DEF above, Retained

\* Pruning enforces the cap.
LEMMA PruneCaps == ASSUME NEW w \in Registry PROVE Capped(Prune(w)) /\ Unexpired(Prune(w)) = Retained(w)
  <1>. DEFINE p == Prune(w)
  <1>1. p.runs = [r \in Runs |-> IF r \in Retained(w) THEN w.runs[r] ELSE None]
    BY PruneFacts
  <1>. HIDE DEF p
  <1>2. Unexpired(p) = Retained(w) /\ \A q \in Unexpired(p) : p.runs[q].seq = w.runs[q].seq
    BY <1>1 DEF Unexpired, Has, Retained
  <1>3. Unexpired(p) \subseteq Unexpired(w)
    BY <1>2 DEF Retained
  <1>. QED
    BY <1>2, <1>3, RetainedStays DEF Capped, p

\* Pruning leaves the subscribers served.
LEMMA PruneKeeps ==
  ASSUME NEW w, Shape(w), NEW sh, Served(w, sh)
  PROVE  /\ Shape(Prune(w)) /\ Served(Prune(w), sh) /\ Follows(w, Prune(w)) /\ Capped(Prune(w))
         /\ Prune(w).pending = w.pending
         /\ \A r \in Runs : Prune(w).runs[r] = IF r \in Retained(w) THEN w.runs[r] ELSE None
  <1>. DEFINE p == Prune(w)
  <1>1. /\ p \in Registry
        /\ p.pending = w.pending /\ p.subscribers = w.subscribers /\ p.frames = w.frames
        /\ p.runs = [r \in Runs |-> IF r \in Retained(w) THEN w.runs[r] ELSE None]
        /\ p.seq # w.seq => p.seq = 0 /\ p.subscribers = {} /\ \A r \in Runs : p.runs[r] = None
    BY PruneFacts DEF Shape
  <1>2. Capped(p)
    BY PruneCaps DEF Shape
  <1>. HIDE DEF p
  <1>3. \A r \in Runs : p.runs[r] \in {w.runs[r], None}
    BY <1>1
  <1>4. Shape(p)
    BY <1>1, <1>3 DEF Shape
  <1>5. Served(p, sh)
    <2>. SUFFICES ASSUME NEW s \in p.subscribers PROVE ServedOne(p, s, sh[s])
      BY DEF Served
    <2>1. p.seq = w.seq /\ p.frames = w.frames /\ ServedOne(w, s, sh[s])
      BY <1>1 DEF Served
    <2>. QED
      BY <1>3, <2>1 DEF ServedOne
  <1>6. Follows(w, p)
    BY <1>1 DEF Follows
  <1>. QED
    BY <1>1, <1>2, <1>4, <1>5, <1>6 DEF p

----------------------------------------------------------------------------
(* emitLocked, emitPendingLocked and the coalescing.                       *)

\* The fields of the registry after emitLocked.
LEMMA EmitFacts ==
  ASSUME NEW w \in Registry, NEW f \in Frame
  PROVE  LET e == Emit(w, f)
         IN  /\ e \in Registry /\ e.seq = w.seq + 1 /\ e.pending = w.pending
             /\ e.runs = [w.runs EXCEPT ![f.run] = EntryOf(f, w.seq + 1)]
             /\ e.subscribers = w.subscribers \ Overflowing(w)
             /\ \A s \in Subscribers :
                   e.frames[s] = IF s \in w.subscribers /\ Len(w.frames[s]) < Buffer
                                   THEN Append(w.frames[s], [frame |-> f, seq |-> w.seq + 1])
                                   ELSE w.frames[s]
  <1>. DEFINE x == [frame |-> f, seq |-> w.seq + 1]
              runs == [w.runs EXCEPT ![f.run] = EntryOf(f, w.seq + 1)]
              slow == Overflowing(w)
              frames == [s \in Subscribers |->
                           IF s \in w.subscribers /\ Len(w.frames[s]) < Buffer
                             THEN Append(w.frames[s], x) ELSE w.frames[s]]
              e == [w EXCEPT !.seq = w.seq + 1, !.runs = runs, !.subscribers = w.subscribers \ slow,
                             !.count = w.count - Cardinality(slow), !.frames = frames]
  <1>1. w.seq + 1 \in Nat \ {0} /\ x \in Item /\ f.run \in Runs
    BY DEF Registry, Item, Frame
  <1>2. runs \in [Runs -> Entry \cup {None}]
    BY <1>1, EntryType DEF Registry
  <1>3. frames \in [Subscribers -> Seq(Item)]
    BY <1>1 DEF Registry
  <1>4. slow \subseteq Subscribers /\ Cardinality(slow) \in Nat
    <2>1. slow \subseteq Subscribers
      BY DEF Overflowing, Registry
    <2>. QED
      BY <2>1, FS_Subset, FS_CardinalityType, StreamAssumption
  <1>5. w.count - Cardinality(slow) \in Int /\ w.subscribers \ slow \in SUBSET Subscribers
    BY <1>4 DEF Registry
  <1>6. Emit(w, f) = e
    BY DEF Emit, EntryOf, Registry
  <1>. HIDE DEF runs, slow, frames
  <1>7. /\ e \in Registry /\ e.seq = w.seq + 1 /\ e.pending = w.pending /\ e.runs = runs
        /\ e.subscribers = w.subscribers \ slow /\ e.frames = frames
    BY <1>1, <1>2, <1>3, <1>5 DEF Registry
  <1>. HIDE DEF e
  <1>. QED
    BY <1>6, <1>7 DEF runs, slow, frames

\* emitLocked leaves the subscribers served, except those it closes; its frame is the latest.
LEMMA EmitKeeps ==
  ASSUME NEW w, Shape(w), NEW sh, Served(w, sh), NEW f \in Frame
  PROVE  /\ Shape(Emit(w, f)) /\ Served(Emit(w, f), sh) /\ Follows(w, Emit(w, f))
         /\ Emit(w, f).pending = w.pending /\ Emit(w, f).seq \in Nat \ {0}
         /\ Emit(w, f).runs = [w.runs EXCEPT ![f.run] = EntryOf(f, Emit(w, f).seq)]
         /\ f.run \in Retained(Emit(w, f))
  <1>. DEFINE e == Emit(w, f)
              n == w.seq + 1
              x == [frame |-> f, seq |-> n]
  <1>1. w \in Registry /\ w.seq \in Nat /\ n \in Nat \ {0} /\ n > w.seq /\ f.run \in Runs
        /\ x \in Item /\ w.runs \in [Runs -> Entry \cup {None}] /\ w.frames \in [Subscribers -> Seq(Item)]
        /\ w.subscribers \subseteq Subscribers
    <2>1. w \in Registry
      BY DEF Shape
    <2>2. /\ w.seq \in Nat /\ n \in Nat \ {0} /\ n > w.seq /\ w.subscribers \subseteq Subscribers
          /\ w.runs \in [Runs -> Entry \cup {None}] /\ w.frames \in [Subscribers -> Seq(Item)]
      BY <2>1 DEF Registry
    <2>3. x \in Item
      BY <2>2 DEF Item
    <2>. QED
      BY <2>1, <2>2, <2>3 DEF Frame
  <1>2. /\ e \in Registry /\ e.seq = n /\ e.pending = w.pending
        /\ e.runs = [w.runs EXCEPT ![f.run] = EntryOf(f, n)]
        /\ e.subscribers = w.subscribers \ Overflowing(w)
        /\ \A s \in Subscribers :
              e.frames[s] = IF s \in w.subscribers /\ Len(w.frames[s]) < Buffer
                              THEN Append(w.frames[s], x) ELSE w.frames[s]
    BY <1>1, EmitFacts
  <1>. HIDE DEF e, n
  <1>3. EntryOf(f, n) # None /\ EntryOf(f, n).seq = n /\ ~EntryOf(f, n).expired
        /\ Payload(EntryOf(f, n)) = Payload(f)
    BY <1>1, EntryType DEF EntryOf, Payload
  <1>4. \A r \in Runs : e.runs[r] = IF r = f.run THEN EntryOf(f, n) ELSE w.runs[r]
    BY <1>1, <1>2
  <1>5. \A r \in Runs : w.runs[r] # None => w.runs[r] \in Entry /\ w.runs[r].seq \in Nat /\ w.runs[r].seq <= w.seq
    BY <1>1 DEF Shape, Entry
  <1>6. Shape(e)
    <2>1. \A r \in Runs : e.runs[r] # None => e.runs[r].seq <= e.seq
      BY <1>1, <1>2, <1>3, <1>4, <1>5
    <2>2. ASSUME NEW s \in Subscribers PROVE Len(e.frames[s]) <= Buffer
      <3>1. w.frames[s] \in Seq(Item) /\ Len(w.frames[s]) \in Nat /\ Len(w.frames[s]) <= Buffer
        BY <1>1 DEF Shape
      <3>2. Len(Append(w.frames[s], x)) = Len(w.frames[s]) + 1
        BY <1>1, <3>1
      <3>3. e.frames[s] = IF s \in w.subscribers /\ Len(w.frames[s]) < Buffer
                            THEN Append(w.frames[s], x) ELSE w.frames[s]
        BY <1>2
      <3>. HIDE DEF x
      <3>. QED
        BY <3>1, <3>2, <3>3, StreamAssumption
    <2>. QED
      BY <1>2, <2>1, <2>2 DEF Shape
  <1>7. Served(e, sh)
    <2>. SUFFICES ASSUME NEW s \in e.subscribers PROVE ServedOne(e, s, sh[s])
      BY DEF Served
    <2>. DEFINE q == w.frames[s]
    <2>1. /\ s \in w.subscribers /\ s \in Subscribers /\ q \in Seq(Item)
          /\ Len(q) \in Nat /\ Len(q) <= Buffer /\ Len(q) # Buffer
      BY <1>1, <1>2 DEF Overflowing, Shape
    <2>2. Len(q) < Buffer
      BY <2>1, StreamAssumption
    <2>3. e.frames[s] = Append(q, x)
      BY <1>2, <2>1, <2>2
    <2>4. ServedOne(w, s, sh[s])
      BY <2>1 DEF Served
    <2>. HIDE DEF q, x
    <2>5. \A i \in DOMAIN q : q[i].seq = w.seq - Len(q) + i
      BY <2>4 DEF ServedOne, q
    <2>6. \A r \in Runs : w.runs[r] # None => Ends(q, sh[s], r, Payload(w.runs[r]))
      BY <2>4 DEF ServedOne, q
    <2>7. x \in Item /\ x.seq = n /\ x.frame = f
      BY <1>1 DEF x
    <2>8. \A i \in DOMAIN Append(q, x) : Append(q, x)[i].seq = e.seq - Len(Append(q, x)) + i
      <3>1. ASSUME NEW i \in 1 .. Len(q) PROVE Append(q, x)[i].seq = e.seq - Len(Append(q, x)) + i
        <4>1. Append(q, x)[i] = q[i] /\ q[i].seq = w.seq - Len(q) + i /\ Len(Append(q, x)) = Len(q) + 1
          BY <2>1, <2>5, <2>7
        <4>. QED
          BY <1>1, <1>2, <2>1, <4>1 DEF n
      <3>2. Append(q, x)[Len(q) + 1].seq = e.seq - Len(Append(q, x)) + (Len(q) + 1)
        <4>1. Append(q, x)[Len(q) + 1] = x /\ Len(Append(q, x)) = Len(q) + 1
          BY <2>1, <2>7
        <4>. QED
          BY <1>1, <1>2, <2>1, <2>7, <4>1
      <3>3. DOMAIN Append(q, x) = 1 .. Len(q) + 1
        BY <2>1, <2>7
      <3>. QED
        BY <2>1, <3>1, <3>2, <3>3
    <2>9. ASSUME NEW r \in Runs, e.runs[r] # None PROVE Ends(Append(q, x), sh[s], r, Payload(e.runs[r]))
      <3>1. CASE r = f.run
        BY <1>3, <1>4, <2>1, <2>7, <3>1, EndsAppend
      <3>2. CASE r # f.run
        BY <1>4, <2>1, <2>6, <2>7, <2>9, <3>2, EndsAppend
      <3>. QED
        BY <3>1, <3>2
    <2>. QED
      BY <2>3, <2>8, <2>9 DEF ServedOne
  <1>8. Follows(w, e)
    BY <1>2 DEF Follows
  <1>9. f.run \in Retained(e)
    <2>. DEFINE above == {q \in Unexpired(e) : e.runs[q].seq > e.runs[f.run].seq}
    <2>1. above = {}
      BY <1>1, <1>3, <1>4, <1>5 DEF Unexpired, Has
    <2>2. f.run \in Unexpired(e)
      BY <1>1, <1>3, <1>4 DEF Unexpired, Has
    <2>. HIDE DEF above
    <2>3. Cardinality(above) < MaxSnapshots
      <3>1. Cardinality(above) = 0
        BY <2>1, FS_EmptySet, Zenon
      <3>. QED
        BY <3>1, StreamAssumption
    <2>. QED
      BY <2>2, <2>3, Zenon DEF above, Retained
  <1>. QED
    BY <1>1, <1>2, <1>6, <1>7, <1>8, <1>9 DEF e

\* Follows is transitive.
LEMMA FollowsFurther == ASSUME NEW a, NEW b, NEW c, Follows(a, b), Follows(b, c) PROVE Follows(a, c)
  BY DEF Follows

\* What is pending is taken away, and emitted unless the run has gone past it.
LEMMA EmitPendingKeeps ==
  ASSUME NEW w, Shape(w), NEW sh, Served(w, sh), NEW r \in Runs
  PROVE  LET e == EmitPending(w, r)
             f == w.pending[r]
         IN  /\ Shape(e) /\ Served(e, sh) /\ Follows(w, e)
             /\ e.pending = [w.pending EXCEPT ![r] = None]
             /\ \/ e.runs = w.runs
                \/ /\ f # None /\ (Has(w, r) => w.runs[r].type # "done" /\ ~(f.stamp < w.runs[r].stamp))
                   /\ e.runs = [w.runs EXCEPT ![r] = EntryOf(f, e.seq)]
  <1>. DEFINE v == [w EXCEPT !.pending = [w.pending EXCEPT ![r] = None]]
              f == w.pending[r]
              e == EmitPending(w, r)
              stale == Has(w, r) /\ (w.runs[r].type = "done" \/ f.stamp < w.runs[r].stamp)
  <1>1. w \in Registry /\ w.pending \in [Runs -> Frame \cup {None}]
    BY DEF Shape, Registry
  <1>2. [w.pending EXCEPT ![r] = None] \in [Runs -> Frame \cup {None}]
    BY <1>1
  <1>3. /\ v \in Registry /\ v.pending = [w.pending EXCEPT ![r] = None]
        /\ v.seq = w.seq /\ v.runs = w.runs /\ v.subscribers = w.subscribers /\ v.frames = w.frames
    BY <1>1, <1>2 DEF Registry
  <1>4. e = IF f = None \/ stale THEN v ELSE Emit(v, f)
    BY DEF EmitPending
  <1>. HIDE DEF v, e
  <1>5. Shape(v) /\ Served(v, sh) /\ Follows(w, v)
    <2>1. \A q \in Runs : v.pending[q] # None => v.pending[q] = w.pending[q]
      BY <1>1, <1>3
    <2>2. Shape(v)
      BY <1>3, <2>1 DEF Shape
    <2>. QED
      BY <1>3, <2>2 DEF Served, ServedOne, Follows
  <1>6. CASE f = None \/ stale
    BY <1>3, <1>4, <1>5, <1>6 DEF e
  <1>7. CASE ~(f = None \/ stale)
    <2>1. f \in Frame /\ f.run = r
      BY <1>1, <1>7 DEF Shape
    <2>2. /\ Shape(e) /\ Served(e, sh) /\ Follows(v, e) /\ e.pending = v.pending
          /\ e.runs = [v.runs EXCEPT ![f.run] = EntryOf(f, e.seq)]
      BY <1>4, <1>5, <1>7, <2>1, EmitKeeps
    <2>. QED
      BY <1>3, <1>5, <1>7, <2>1, <2>2, FollowsFurther DEF e
  <1>. QED
    BY <1>6, <1>7

\* An update that waits out the interval.
LEMMA CoalescedKeeps ==
  ASSUME NEW w, Shape(w), NEW sh, Served(w, sh), NEW f \in Frame, ~Immediate(f)
  PROVE  LET e == Coalesced(w, f)
         IN  /\ Shape(e) /\ Served(e, sh) /\ Follows(w, e) /\ e.runs = w.runs
             /\ \A r \in Runs : e.pending[r] = w.pending[r] \/ (r = f.run /\ e.pending[r] = f)
  <1>. DEFINE x == IF w.pending[f.run] = None \/ f.stamp >= w.pending[f.run].stamp
                     THEN f ELSE w.pending[f.run]
              v == [w EXCEPT !.pending = [w.pending EXCEPT ![f.run] = x]]
  <1>1. w \in Registry /\ w.pending \in [Runs -> Frame \cup {None}] /\ f.run \in Runs
    BY DEF Shape, Registry, Frame
  <1>2. Coalesced(w, f) = v
    BY <1>1 DEF Coalesced
  <1>3. x \in Frame \cup {None} /\ x \in {f, w.pending[f.run]}
    BY <1>1
  <1>. HIDE DEF x
  <1>4. /\ v \in Registry /\ v.pending = [w.pending EXCEPT ![f.run] = x]
        /\ v.seq = w.seq /\ v.runs = w.runs /\ v.subscribers = w.subscribers /\ v.frames = w.frames
    BY <1>1, <1>3 DEF Registry
  <1>. HIDE DEF v
  <1>5. \A r \in Runs : v.pending[r] = w.pending[r] \/ (r = f.run /\ v.pending[r] = f)
    BY <1>1, <1>3, <1>4
  <1>6. f.type = "updated" /\ f.live
    BY DEF Immediate
  <1>7. Shape(v)
    BY <1>4, <1>5, <1>6 DEF Shape
  <1>8. Served(v, sh) /\ Follows(w, v)
    BY <1>4 DEF Served, ServedOne, Follows
  <1>. QED
    BY <1>2, <1>4, <1>5, <1>7, <1>8

----------------------------------------------------------------------------
(* publish and the timer of a pending update, as steps of the registry.    *)

Sound(a, b, sh) == Shape(b) /\ Served(b, sh) /\ Follows(a, b) /\ Capped(b)

\* What publish does to the run of the frame: it is rejected; or it is emitted at once, and
\* nothing is pending any more; or it waits, or is emitted, behind what is pending.
Filed(b, f, recent) ==
    LET w == Prune(reg)
        r == f.run
    IN  \/ ~Accepted(w, f) /\ b.pending[r] = reg.pending[r] /\ b.runs[r] = w.runs[r]
        \/ /\ Accepted(w, f) /\ Immediate(f) /\ b.pending[r] = None
           /\ b.runs[r] = EntryOf(f, b.runs[r].seq) /\ b.runs[r] # None
        \/ /\ Accepted(w, f) /\ ~Immediate(f) /\ b.pending[r] \in {reg.pending[r], f}
           /\ b.runs[r] \in {w.runs[r], None} \/ b.runs[r] = EntryOf(f, b.runs[r].seq)

\* emitLocked and the pruning behind it: the entry of the frame survives.
LEMMA EmitAndPrune ==
  ASSUME NEW w, Shape(w), NEW sh, Served(w, sh), NEW f \in Frame
  PROVE  LET e == Prune(Emit(w, f))
         IN  /\ Sound(w, e, sh) /\ e.pending = w.pending
             /\ \A q \in Runs \ {f.run} : e.runs[q] \in {w.runs[q], None}
             /\ e.runs[f.run] = EntryOf(f, e.runs[f.run].seq) /\ e.runs[f.run] # None
  <1>. DEFINE v == Emit(w, f)
              e == Prune(v)
  <1>1. /\ Shape(v) /\ Served(v, sh) /\ Follows(w, v) /\ v.pending = w.pending
        /\ v.runs = [w.runs EXCEPT ![f.run] = EntryOf(f, v.seq)] /\ f.run \in Retained(v)
        /\ v.seq \in Nat \ {0}
    BY EmitKeeps
  <1>2. f.run \in Runs /\ w.runs \in [Runs -> Entry \cup {None}]
    BY DEF Frame, Shape, Registry
  <1>. HIDE DEF v
  <1>3. /\ Shape(e) /\ Served(e, sh) /\ Follows(v, e) /\ Capped(e) /\ e.pending = v.pending
        /\ \A q \in Runs : e.runs[q] = IF q \in Retained(v) THEN v.runs[q] ELSE None
    BY <1>1, PruneKeeps
  <1>. HIDE DEF e
  <1>4. Sound(w, e, sh) /\ e.pending = w.pending
    BY <1>1, <1>3, FollowsFurther DEF Sound
  <1>5. \A q \in Runs \ {f.run} : e.runs[q] \in {w.runs[q], None}
    BY <1>1, <1>2, <1>3
  <1>6. e.runs[f.run] = EntryOf(f, v.seq) /\ EntryOf(f, v.seq).seq = v.seq /\ e.runs[f.run] # None
    <2>1. EntryOf(f, v.seq).seq = v.seq
      BY DEF EntryOf
    <2>2. EntryOf(f, v.seq) # None
      BY <1>1, EntryType
    <2>. QED
      BY <1>1, <1>2, <1>3, <2>1, <2>2
  <1>. QED
    BY <1>4, <1>5, <1>6 DEF e, v

\* publish keeps the registry sound, and touches no other run but to prune it.
LEMMA PublishRegistry ==
  ASSUME Shape(reg), Served(reg, shown), NEW f \in Frame, NEW recent, Publish(f, recent)
  PROVE  /\ Sound(reg, reg', shown) /\ Filed(reg', f, recent)
         /\ \A q \in Runs \ {f.run} :
               reg'.pending[q] = reg.pending[q] /\ reg'.runs[q] \in {reg.runs[q], None}
  <1>. DEFINE w == Prune(reg)
              d == EmitPending(w, f.run)
  <1>1. /\ Shape(w) /\ Served(w, shown) /\ Follows(reg, w) /\ Capped(w) /\ w.pending = reg.pending
        /\ \A r \in Runs : w.runs[r] = IF r \in Retained(reg) THEN reg.runs[r] ELSE None
    BY PruneKeeps
  <1>2. f.run \in Runs /\ reg.pending \in [Runs -> Frame \cup {None}] /\ w.runs \in [Runs -> Entry \cup {None}]
    BY <1>1 DEF Frame, Shape, Registry
  <1>3. reg' = CASE ~Accepted(w, f) -> w
                 [] Accepted(w, f) /\ Immediate(f) -> Prune(Emit(d, f))
                 [] Accepted(w, f) /\ ~Immediate(f) /\ (w.pending[f.run] # None \/ (Has(w, f.run) /\ recent)) ->
                       Coalesced(w, f)
                 [] OTHER -> Prune(Emit(w, f))
    BY DEF Publish, Drained
  <1>. HIDE DEF w, d
  <1>4. CASE ~Accepted(w, f)
    <2>1. reg' = w
      BY <1>3, <1>4
    <2>. QED
      BY <1>1, <1>2, <1>4, <2>1 DEF Sound, Filed, w
  <1>5. CASE Accepted(w, f) /\ Immediate(f)
    <2>1. reg' = Prune(Emit(d, f))
      BY <1>3, <1>5
    <2>2. /\ Shape(d) /\ Served(d, shown) /\ Follows(w, d)
          /\ d.pending = [w.pending EXCEPT ![f.run] = None]
          /\ \A q \in Runs \ {f.run} : d.runs[q] = w.runs[q]
      <3>1. /\ Shape(d) /\ Served(d, shown) /\ Follows(w, d)
            /\ d.pending = [w.pending EXCEPT ![f.run] = None]
            /\ d.runs = w.runs \/ d.runs = [w.runs EXCEPT ![f.run] = EntryOf(w.pending[f.run], d.seq)]
        BY <1>1, <1>2, EmitPendingKeeps DEF d
      <3>. QED
        BY <1>2, <3>1
    <2>3. /\ Sound(d, reg', shown) /\ reg'.pending = d.pending
          /\ \A q \in Runs \ {f.run} : reg'.runs[q] \in {d.runs[q], None}
          /\ reg'.runs[f.run] = EntryOf(f, reg'.runs[f.run].seq) /\ reg'.runs[f.run] # None
      BY <2>1, <2>2, EmitAndPrune
    <2>4. Sound(reg, reg', shown)
      BY <1>1, <2>2, <2>3, FollowsFurther DEF Sound
    <2>5. Filed(reg', f, recent)
      BY <1>1, <1>2, <1>5, <2>2, <2>3 DEF Filed, w
    <2>6. \A q \in Runs \ {f.run} :
             reg'.pending[q] = reg.pending[q] /\ reg'.runs[q] \in {reg.runs[q], None}
      BY <1>1, <1>2, <2>2, <2>3
    <2>. QED
      BY <2>4, <2>5, <2>6
  <1>6. CASE /\ Accepted(w, f) /\ ~Immediate(f)
             /\ w.pending[f.run] # None \/ (Has(w, f.run) /\ recent)
    <2>1. reg' = Coalesced(w, f)
      BY <1>3, <1>6
    <2>2. /\ Shape(reg') /\ Served(reg', shown) /\ Follows(w, reg') /\ reg'.runs = w.runs
          /\ \A r \in Runs : reg'.pending[r] = w.pending[r] \/ (r = f.run /\ reg'.pending[r] = f)
      BY <1>1, <1>6, <2>1, CoalescedKeeps
    <2>3. Capped(reg')
      BY <1>1, <2>2 DEF Capped, Retained, Unexpired, Has
    <2>. QED
      BY <1>1, <1>2, <1>6, <2>2, <2>3, FollowsFurther DEF Sound, Filed, w
  <1>7. CASE /\ Accepted(w, f) /\ ~Immediate(f)
             /\ ~(w.pending[f.run] # None \/ (Has(w, f.run) /\ recent))
    <2>1. reg' = Prune(Emit(w, f))
      BY <1>3, <1>7
    <2>2. /\ Sound(w, reg', shown) /\ reg'.pending = w.pending
          /\ \A q \in Runs \ {f.run} : reg'.runs[q] \in {w.runs[q], None}
          /\ reg'.runs[f.run] = EntryOf(f, reg'.runs[f.run].seq)
      BY <1>1, <2>1, EmitAndPrune
    <2>3. Sound(reg, reg', shown)
      BY <1>1, <2>2, FollowsFurther DEF Sound
    <2>4. Filed(reg', f, recent)
      BY <1>1, <1>7, <2>2 DEF Filed, w
    <2>. QED
      BY <1>1, <2>2, <2>3, <2>4
  <1>. QED
    BY <1>4, <1>5, <1>6, <1>7

\* The timer of a pending update: emitted unless the run has gone past it.
LEMMA FlushRegistry ==
  ASSUME Shape(reg), Served(reg, shown), NEW r \in Runs, FlushPending(r)
  PROVE  LET f == reg.pending[r]
         IN  /\ Sound(reg, reg', shown) /\ f \in Frame /\ reg'.pending[r] = None
             /\ \A q \in Runs \ {r} :
                   reg'.pending[q] = reg.pending[q] /\ reg'.runs[q] \in {reg.runs[q], None}
             /\ \/ reg'.runs[r] \in {reg.runs[r], None}
                \/ /\ Has(reg, r) => reg.runs[r].type # "done" /\ ~(f.stamp < reg.runs[r].stamp)
                   /\ reg'.runs[r] = EntryOf(f, reg'.runs[r].seq)
  <1>. DEFINE f == reg.pending[r]
              d == EmitPending(reg, r)
  <1>1. /\ Shape(d) /\ Served(d, shown) /\ Follows(reg, d)
        /\ d.pending = [reg.pending EXCEPT ![r] = None]
        /\ \/ d.runs = reg.runs
           \/ /\ Has(reg, r) => reg.runs[r].type # "done" /\ ~(f.stamp < reg.runs[r].stamp)
              /\ d.runs = [reg.runs EXCEPT ![r] = EntryOf(f, d.seq)]
    BY EmitPendingKeeps
  <1>2. /\ f \in Frame /\ reg.pending \in [Runs -> Frame \cup {None}]
        /\ reg.runs \in [Runs -> Entry \cup {None}] /\ reg' = Prune(d)
    BY DEF FlushPending, Shape, Registry
  <1>. HIDE DEF f, d
  <1>3. /\ Shape(reg') /\ Served(reg', shown) /\ Follows(d, reg') /\ Capped(reg') /\ reg'.pending = d.pending
        /\ \A q \in Runs : reg'.runs[q] = IF q \in Retained(d) THEN d.runs[q] ELSE None
    BY <1>1, <1>2, PruneKeeps
  <1>4. Sound(reg, reg', shown)
    BY <1>1, <1>3, FollowsFurther DEF Sound
  <1>5. reg'.pending[r] = None /\ \A q \in Runs \ {r} :
           reg'.pending[q] = reg.pending[q] /\ reg'.runs[q] \in {reg.runs[q], None}
    BY <1>1, <1>2, <1>3
  <1>6. EntryOf(f, d.seq).seq = d.seq
    BY DEF EntryOf
  <1>7. \/ reg'.runs[r] \in {reg.runs[r], None}
        \/ /\ Has(reg, r) => reg.runs[r].type # "done" /\ ~(f.stamp < reg.runs[r].stamp)
           /\ reg'.runs[r] = EntryOf(f, reg'.runs[r].seq)
    BY <1>1, <1>2, <1>3, <1>6
  <1>. QED
    BY <1>2, <1>4, <1>5, <1>7 DEF f

----------------------------------------------------------------------------
(* The subscribers.                                                        *)

RegInv == Shape(reg) /\ Served(reg, shown) /\ Capped(reg)

\* A subscriber is open exactly while the registry has it; before it comes it has no frames.
SubInv ==
    /\ sub \in [Subscribers -> {"none", "open", "cut", "left"}]
    /\ shown \in [Subscribers -> [Runs -> [ver : 1..MaxVersion, stamp : 0..MaxVersion] \cup {None}]]
    /\ \A s \in Subscribers : /\ s \in reg.subscribers <=> sub[s] = "open"
                              /\ sub[s] = "none" => reg.frames[s] = <<>>

\* No run gets a new entry, and what is pending stays.
OnlyDrops == reg'.pending = reg.pending /\ \A q \in Runs : reg'.runs[q] \in {reg.runs[q], None}

\* The subscribers that the registry closes have been cut off.
LEMMA CutSub ==
  ASSUME SubInv, Shape(reg), Follows(reg, reg'), sub' = Cut(reg'), shown' = shown
  PROVE  SubInv'
  BY DEF SubInv, Follows, Cut, Shape, Registry

\* What a client sees of a frame.
LEMMA PayloadType ==
  ASSUME NEW x \in Frame \cup Entry
  PROVE  Payload(x) \in [ver : 1..MaxVersion, stamp : 0..MaxVersion]
  BY DEF Payload, Frame, Entry

\* A newcomer starts from the retained snapshots with an empty buffer.
LEMMA SubscribeInv ==
  ASSUME RegInv, SubInv, NEW s \in Subscribers, Subscribe(s)
  PROVE  RegInv' /\ SubInv' /\ OnlyDrops
  <1>. DEFINE w == Prune(reg)
              v == [w EXCEPT !.subscribers = w.subscribers \cup {s}, !.count = w.count + 1]
  <1>1. /\ Shape(w) /\ Served(w, shown) /\ Follows(reg, w) /\ Capped(w) /\ w.pending = reg.pending
        /\ \A r \in Runs : w.runs[r] = IF r \in Retained(reg) THEN reg.runs[r] ELSE None
    BY PruneKeeps DEF RegInv
  <1>2. w \in Registry /\ reg \in Registry
    BY <1>1 DEF Shape, RegInv
  <1>3. w.frames = reg.frames /\ w.subscribers = reg.subscribers
    BY <1>2, PruneFacts
  <1>. HIDE DEF w
  <1>4. sub[s] = "none" /\ w.frames[s] = <<>>
    BY <1>3 DEF Subscribe, SubInv
  <1>5. CASE w.count < MaxSubscribers
    <2>1. reg' = v /\ sub' = [sub EXCEPT ![s] = "open"] /\ shown' = [shown EXCEPT ![s] = SnapshotOf(v)]
      BY <1>2, <1>5 DEF Subscribe, w, Registry
    <2>2. /\ v \in Registry /\ v.seq = w.seq /\ v.runs = w.runs /\ v.pending = w.pending
          /\ v.frames = w.frames /\ v.subscribers = w.subscribers \cup {s}
      <3>1. w.subscribers \cup {s} \in SUBSET Subscribers /\ w.count + 1 \in Int
        BY <1>2 DEF Registry
      <3>. QED
        BY <1>2, <3>1 DEF Registry
    <2>. HIDE DEF v
    <2>3. Shape(v) /\ Capped(v)
      BY <1>1, <2>2 DEF Shape, Capped, Retained, Unexpired, Has
    <2>4. SnapshotOf(v) \in [Runs -> [ver : 1..MaxVersion, stamp : 0..MaxVersion] \cup {None}]
      <3>1. ASSUME NEW r \in Runs, v.runs[r] # None
            PROVE  Payload(v.runs[r]) \in [ver : 1..MaxVersion, stamp : 0..MaxVersion]
        BY <2>2, <3>1, PayloadType DEF Registry
      <3>. QED
        BY <3>1 DEF SnapshotOf, Has
    <2>5. shown' \in [Subscribers -> [Runs -> [ver : 1..MaxVersion, stamp : 0..MaxVersion] \cup {None}]]
          /\ shown'[s] = SnapshotOf(v) /\ \A t \in Subscribers \ {s} : shown'[t] = shown[t]
      BY <2>1, <2>4 DEF SubInv
    <2>6. Served(v, shown')
      <3>1. ServedOne(v, s, shown'[s])
        BY <1>4, <2>2, <2>5 DEF ServedOne, Ends, SnapshotOf, Has
      <3>2. ASSUME NEW t \in w.subscribers, t # s PROVE ServedOne(v, t, shown'[t])
        <4>1. ServedOne(w, t, shown[t]) /\ t \in Subscribers
          BY <1>1, <1>2, <3>2 DEF Served, Registry
        <4>. QED
          BY <2>2, <2>5, <3>2, <4>1 DEF ServedOne
      <3>. QED
        BY <2>2, <3>1, <3>2 DEF Served
    <2>7. SubInv'
      <3>1. \A t \in Subscribers : /\ t \in reg'.subscribers <=> sub'[t] = "open"
                                   /\ sub'[t] = "none" => reg'.frames[t] = <<>>
        BY <1>3, <2>1, <2>2 DEF SubInv
      <3>. QED
        BY <2>1, <2>5, <3>1 DEF SubInv
    <2>. QED
      BY <1>1, <2>1, <2>2, <2>3, <2>6, <2>7 DEF RegInv, OnlyDrops
  <1>6. CASE ~(w.count < MaxSubscribers)
    <2>1. reg' = w /\ sub' = [sub EXCEPT ![s] = "left"] /\ shown' = [shown EXCEPT ![s] = @]
      BY <1>6 DEF Subscribe, w
    <2>2. shown' = shown
      BY <2>1 DEF SubInv
    <2>3. \A t \in Subscribers : /\ t \in reg'.subscribers <=> sub'[t] = "open"
                                 /\ sub'[t] = "none" => reg'.frames[t] = <<>>
      BY <1>3, <1>4, <2>1 DEF SubInv
    <2>4. sub' \in [Subscribers -> {"none", "open", "cut", "left"}]
      BY <2>1 DEF SubInv
    <2>. QED
      BY <1>1, <2>1, <2>2, <2>3, <2>4 DEF RegInv, OnlyDrops, SubInv
  <1>. QED
    BY <1>5, <1>6

\* Whoever leaves takes its buffer along.
LEMMA CloseInv ==
  ASSUME RegInv, SubInv, NEW s \in Subscribers, Close(s)
  PROVE  RegInv' /\ SubInv' /\ OnlyDrops
  <1>. DEFINE u == Unregistered(reg, s)
              frames == [u.frames EXCEPT ![s] = <<>>]
              v == [u EXCEPT !.frames = frames]
  <1>1. Shape(reg) /\ Served(reg, shown) /\ reg \in Registry
    BY DEF RegInv, Shape
  <1>2. /\ u \in Registry /\ u.seq = reg.seq /\ u.runs = reg.runs /\ u.pending = reg.pending
        /\ u.frames = reg.frames /\ u.subscribers = reg.subscribers \ {s}
    <2>. DEFINE x == [reg EXCEPT !.subscribers = reg.subscribers \ {s}, !.count = reg.count - 1]
    <2>1. CASE s \in reg.subscribers
      <3>1. u = x
        BY <2>1 DEF Unregistered
      <3>2. reg.subscribers \ {s} \in SUBSET Subscribers /\ reg.count - 1 \in Int
        BY <1>1 DEF Registry
      <3>. QED
        BY <1>1, <3>1, <3>2 DEF Registry
    <2>2. CASE s \notin reg.subscribers
      BY <1>1, <2>2 DEF Unregistered
    <2>. QED
      BY <2>1, <2>2
  <1>3. reg' = Prune(v)
    BY DEF Close
  <1>. HIDE DEF u
  <1>4. /\ frames \in [Subscribers -> Seq(Item)] /\ frames[s] = <<>>
        /\ \A t \in Subscribers \ {s} : frames[t] = reg.frames[t]
    BY <1>1, <1>2 DEF Registry
  <1>. HIDE DEF frames
  <1>5. /\ v \in Registry /\ v.seq = reg.seq /\ v.runs = reg.runs /\ v.pending = reg.pending
        /\ v.frames = frames /\ v.subscribers = reg.subscribers \ {s}
    BY <1>2, <1>4 DEF Registry
  <1>. HIDE DEF v
  <1>6. Shape(v)
    <2>1. \A t \in Subscribers : Len(v.frames[t]) <= Buffer
      BY SMTT(60), <1>1, <1>4, <1>5, StreamAssumption DEF Shape
    <2>. QED
      BY <1>1, <1>5, <2>1 DEF Shape
  <1>7. Served(v, shown)
    <2>. SUFFICES ASSUME NEW t \in v.subscribers PROVE ServedOne(v, t, shown[t])
      BY DEF Served
    <2>1. t \in Subscribers \ {s} /\ ServedOne(reg, t, shown[t])
      BY <1>1, <1>5 DEF Served, Registry
    <2>. QED
      BY <1>4, <1>5, <2>1 DEF ServedOne
  <1>8. /\ Shape(reg') /\ Served(reg', shown) /\ Capped(reg') /\ reg'.pending = v.pending
        /\ \A r \in Runs : reg'.runs[r] = IF r \in Retained(v) THEN v.runs[r] ELSE None
    BY <1>3, <1>6, <1>7, PruneKeeps
  <1>9. reg'.frames = v.frames /\ reg'.subscribers = v.subscribers
    BY <1>3, <1>5, PruneFacts
  <1>10. SubInv'
    <2>1. sub' = [sub EXCEPT ![s] = "left"] /\ shown' = shown
      BY DEF Close
    <2>2. \A t \in Subscribers : /\ t \in reg'.subscribers <=> sub'[t] = "open"
                                 /\ sub'[t] = "none" => reg'.frames[t] = <<>>
      BY <1>4, <1>5, <1>9, <2>1 DEF SubInv
    <2>3. sub' \in [Subscribers -> {"none", "open", "cut", "left"}]
      BY <2>1 DEF SubInv
    <2>. QED
      BY <2>1, <2>2, <2>3 DEF SubInv
  <1>11. RegInv'
    BY <1>8 DEF RegInv, Close
  <1>. QED
    BY <1>5, <1>8, <1>10, <1>11 DEF OnlyDrops

\* What is written to the connection is taken from the buffer.
LEMMA DeliverInv ==
  ASSUME RegInv, SubInv, NEW s \in Subscribers, Deliver(s)
  PROVE  RegInv' /\ SubInv' /\ OnlyDrops
  <1>. DEFINE q == reg.frames[s]
              h == Head(q).frame
              frames == [reg.frames EXCEPT ![s] = Tail(q)]
  <1>1. Shape(reg) /\ Served(reg, shown) /\ Capped(reg) /\ reg \in Registry
    BY DEF RegInv, Shape
  <1>2. reg' = [reg EXCEPT !.frames = frames] /\ q # <<>> /\ q \in Seq(Item) /\ sub' = sub
    BY <1>1 DEF Deliver, Registry
  <1>3. h \in Frame /\ h.run \in Runs
    <2>1. Head(q) \in Item
      BY <1>2
    <2>2. h \in Frame
      BY <2>1 DEF Item
    <2>. QED
      BY <2>2 DEF Frame
  <1>. DEFINE old == shown[s]
              new == [old EXCEPT ![h.run] = Payload(h)]
  <1>4. /\ shown' = [shown EXCEPT ![s] = new]
        /\ old \in [Runs -> [ver : 1..MaxVersion, stamp : 0..MaxVersion] \cup {None}]
    BY DEF Deliver, SubInv
  <1>5. Tail(q) \in Seq(Item) /\ Len(q) \in Nat \ {0} /\ Len(Tail(q)) = Len(q) - 1
        /\ \A i \in DOMAIN Tail(q) : i \in 1 .. Len(q) - 1 /\ Tail(q)[i] = q[i + 1] /\ i + 1 \in DOMAIN q
    BY <1>2
  <1>6. /\ frames \in [Subscribers -> Seq(Item)] /\ frames[s] = Tail(q)
        /\ \A t \in Subscribers \ {s} : frames[t] = reg.frames[t]
    BY <1>1, <1>5 DEF Registry
  <1>. HIDE DEF frames
  <1>7. /\ reg' \in Registry /\ reg'.seq = reg.seq /\ reg'.runs = reg.runs /\ reg'.pending = reg.pending
        /\ reg'.frames = frames /\ reg'.subscribers = reg.subscribers
    BY <1>1, <1>2, <1>6 DEF Registry
  <1>8. new \in [Runs -> [ver : 1..MaxVersion, stamp : 0..MaxVersion] \cup {None}]
    BY <1>3, <1>4, PayloadType
  <1>9. Len(q) <= Buffer
    BY <1>1 DEF Shape
  <1>. DEFINE tail == Tail(q)
  <1>10. /\ shown'[s] = new /\ \A t \in Subscribers \ {s} : shown'[t] = shown[t]
         /\ shown' \in [Subscribers -> [Runs -> [ver : 1..MaxVersion, stamp : 0..MaxVersion] \cup {None}]]
    BY <1>4, <1>8 DEF SubInv
  <1>11. \A r \in Runs : \A v : Ends(q, old, r, v) => Ends(tail, new, r, v)
    BY <1>2, <1>4, EndsTail
  <1>. HIDE DEF new, old, h, tail
  <1>12. Shape(reg')
    <2>1. \A t \in Subscribers : Len(reg'.frames[t]) <= Buffer
      <3>1. Len(Tail(q)) <= Buffer
        BY <1>5, <1>9, StreamAssumption
      <3>. HIDE DEF q
      <3>. QED
        BY <1>1, <1>6, <1>7, <3>1 DEF Shape
    <2>. QED
      BY <1>1, <1>7, <2>1 DEF Shape
  <1>13. Served(reg', shown')
    <2>. SUFFICES ASSUME NEW t \in reg'.subscribers PROVE ServedOne(reg', t, shown'[t])
      BY DEF Served
    <2>1. t \in Subscribers /\ ServedOne(reg, t, shown[t])
      BY <1>1, <1>7 DEF Served, Registry
    <2>2. CASE t # s
      BY <1>6, <1>7, <1>10, <2>1, <2>2 DEF ServedOne
    <2>3. CASE t = s
      <3>1. \A i \in DOMAIN q : q[i].seq = reg.seq - Len(q) + i
        BY <2>1, <2>3 DEF ServedOne
      <3>2. \A r \in Runs : reg.runs[r] # None => Ends(q, old, r, Payload(reg.runs[r]))
        BY <2>1, <2>3 DEF ServedOne, old
      <3>3. \A r \in Runs : reg'.runs[r] # None => Ends(reg'.frames[t], shown'[t], r, Payload(reg'.runs[r]))
        BY <1>6, <1>7, <1>10, <1>11, <2>3, <3>2 DEF tail
      <3>4. reg.seq \in Nat /\ reg'.frames[t] = Tail(q)
        BY <1>1, <1>6, <1>7, <2>3 DEF Registry
      <3>5. ASSUME NEW i \in DOMAIN reg'.frames[t]
            PROVE  reg'.frames[t][i].seq = reg'.seq - Len(reg'.frames[t]) + i
        <4>1. i \in Nat /\ Tail(q)[i].seq = reg.seq - Len(q) + (i + 1)
          BY <1>5, <3>1, <3>4, <3>5
        <4>2. reg.seq \in Int /\ Len(q) \in Int /\ i \in Int
          BY <1>5, <3>4, <4>1
        <4>. HIDE DEF q
        <4>3. reg.seq - Len(q) + (i + 1) = reg.seq - (Len(q) - 1) + i
          BY <4>2
        <4>4. reg'.frames[t][i].seq = reg.seq - Len(q) + (i + 1)
          BY <3>4, <4>1
        <4>5. Len(reg'.frames[t]) = Len(q) - 1 /\ reg'.seq = reg.seq
          BY <1>5, <1>7, <3>4, Zenon
        <4>. QED
          BY <4>3, <4>4, <4>5, Zenon
      <3>. QED
        BY <3>3, <3>5 DEF ServedOne
    <2>. QED
      BY <2>2, <2>3
  <1>14. Capped(reg')
    BY <1>1, <1>7 DEF Capped, Retained, Unexpired, Has
  <1>15. SubInv'
    <2>1. sub[s] # "none"
      BY DEF Deliver
    <2>2. \A t \in Subscribers : sub[t] = "none" => frames[t] = <<>>
      BY <1>6, <2>1 DEF SubInv
    <2>. QED
      BY <1>2, <1>7, <1>10, <2>2 DEF SubInv
  <1>. QED
    BY <1>7, <1>12, <1>13, <1>14, <1>15 DEF RegInv, OnlyDrops

\* An entry that expires stays what it is.
LEMMA ExpireInv ==
  ASSUME RegInv, SubInv, NEW r \in Runs, Expire(r)
  PROVE  /\ RegInv' /\ SubInv' /\ reg'.pending = reg.pending
         /\ reg'.runs[r] = [reg.runs[r] EXCEPT !.expired = TRUE] /\ reg'.runs[r] # None
         /\ \A q \in Runs \ {r} : reg'.runs[q] = reg.runs[q]
  <1>. DEFINE x == [reg.runs[r] EXCEPT !.expired = TRUE]
              runs == [reg.runs EXCEPT ![r] = x]
  <1>1. Shape(reg) /\ Served(reg, shown) /\ Capped(reg) /\ reg \in Registry
    BY DEF RegInv, Shape
  <1>2. reg' = [reg EXCEPT !.runs = runs] /\ shown' = shown /\ sub' = sub
    BY <1>1 DEF Expire, Registry
  <1>3. reg.runs[r] \in Entry /\ reg.runs[r] # None
    BY <1>1 DEF Expire, Has, Registry
  <1>4. x \in Entry
    BY <1>3, Zenon DEF Entry
  <1>5. x # None /\ x.seq = reg.runs[r].seq /\ Payload(x) = Payload(reg.runs[r]) /\ x.expired
    BY <1>3, <1>4, NoneAssumption DEF Entry, Payload
  <1>6. runs \in [Runs -> Entry \cup {None}] /\ \A q \in Runs : runs[q] = IF q = r THEN x ELSE reg.runs[q]
    BY <1>1, <1>4 DEF Registry
  <1>. HIDE DEF runs
  <1>7. /\ reg' \in Registry /\ reg'.seq = reg.seq /\ reg'.runs = runs /\ reg'.pending = reg.pending
        /\ reg'.frames = reg.frames /\ reg'.subscribers = reg.subscribers
    BY <1>1, <1>2, <1>6 DEF Registry
  <1>. HIDE DEF x
  <1>8. \A q \in Runs : reg'.runs[q] # None =>
           reg.runs[q] # None /\ reg'.runs[q].seq = reg.runs[q].seq
           /\ Payload(reg'.runs[q]) = Payload(reg.runs[q])
    BY <1>3, <1>5, <1>6, <1>7
  <1>9. Shape(reg')
    BY <1>1, <1>7, <1>8 DEF Shape
  <1>10. Served(reg', shown')
    BY <1>1, <1>2, <1>7, <1>8 DEF Served, ServedOne
  <1>11. Capped(reg')
    <2>1. Unexpired(reg') \subseteq Unexpired(reg)
      BY <1>3, <1>5, <1>6, <1>7 DEF Unexpired, Has
    <2>2. \A q \in Unexpired(reg') : reg'.runs[q].seq = reg.runs[q].seq
      BY <1>8 DEF Unexpired, Has
    <2>. QED
      BY <1>1, <2>1, <2>2, RetainedStays DEF Capped
  <1>12. SubInv'
    BY <1>2, <1>7 DEF SubInv
  <1>. QED
    BY <1>5, <1>6, <1>7, <1>9, <1>10, <1>11, <1>12 DEF RegInv, x

----------------------------------------------------------------------------
(* The snapshots that are known of a run: on their way, pending, retained.  *)

Mark(x) == [type |-> x.type, stamp |-> x.stamp, live |-> x.live]

Known(r) ==
    {Mark(f) : f \in {g \in flight : g.run = r}} \cup {Mark(x) : x \in {reg.pending[r], reg.runs[r]} \ {None}}

\* A snapshot is not newer than the run; none shows an end that has not come; a live one is
\* not newer than one that shows the end.
Aged ==
    \A r \in Runs : \A m \in Known(r) :
        /\ m.stamp <= run[r].stamp /\ (run[r].live => m.live) /\ (m.type = "done" => ~m.live)
        /\ \A g \in Known(r) : m.live /\ ~g.live => m.stamp <= g.stamp

\* Every live snapshot that is still to come is older than what is retained.
Behind(r) ==
    /\ \A f \in flight : f.run = r /\ f.live => f.stamp < reg.runs[r].stamp
    /\ reg.pending[r] # None => reg.pending[r].stamp < reg.runs[r].stamp

\* What is retained of a run whose done was published shows the end, and cannot be replaced by
\* a live snapshot.
Sealed ==
    \A r \in sealed \ dropped :
        Has(reg, r) /\ ~reg.runs[r].live /\ (reg.runs[r].type = "done" \/ Behind(r))

\* An entry that has expired shows the end, and no live snapshot of the run is on its way.
ExpiredInv ==
    \A r \in Runs : Has(reg, r) /\ reg.runs[r].expired =>
        ~reg.runs[r].live /\ \A f \in flight : f.run = r => ~f.live

\* The producers: UpdatedAt moves no more often than the run changes, and nothing is sent of a
\* run before Spawn.
ProducerInv ==
    /\ run \in [Runs -> [ver : 0..MaxVersion, stamp : 0..MaxVersion, live : BOOLEAN]]
    /\ spawn \in [Runs -> {"none", "update", "returned", "stopped"}]
    /\ driven \subseteq Runs /\ dirty \subseteq Runs /\ sent \in [Runs -> 0..MaxVersion]
    /\ \A r \in Runs : /\ run[r].stamp <= run[r].ver
                       /\ (run[r].ver = 0 <=> spawn[r] = "none")
                       /\ r \in dirty \cup driven => run[r].ver > 0

Histories == flight \subseteq Frame /\ sealed \subseteq Runs /\ dropped \subseteq Runs

StreamInv == ProducerInv /\ Histories /\ RegInv /\ SubInv /\ Aged /\ Sealed /\ ExpiredInv

\* The three places of a snapshot.
LEMMA KnownFacts ==
  ASSUME NEW r \in Runs
  PROVE  /\ \A f \in flight : f.run = r => Mark(f) \in Known(r)
         /\ reg.pending[r] # None => Mark(reg.pending[r]) \in Known(r)
         /\ reg.runs[r] # None => Mark(reg.runs[r]) \in Known(r)
  BY DEF Known

\* As long as nothing new becomes known, Aged stays.
LEMMA AgedLess ==
  ASSUME Aged, run' = run,
         \A r \in Runs : /\ \A f \in flight' : f.run = r => Mark(f) \in Known(r)
                         /\ reg'.pending[r] # None => Mark(reg'.pending[r]) \in Known(r)
                         /\ reg'.runs[r] # None => Mark(reg'.runs[r]) \in Known(r)
  PROVE  Aged'
  <1>1. \A r \in Runs : Known(r)' \subseteq Known(r)
    BY DEF Known
  <1>. HIDE DEF Known
  <1>. QED
    BY <1>1, Zenon DEF Aged

\* The fields of what is known of a run, read from Aged.
LEMMA AgedFacts ==
  ASSUME Aged, NEW r \in Runs, NEW x, Mark(x) \in Known(r)
  PROVE  /\ x.stamp <= run[r].stamp /\ (run[r].live => x.live) /\ (x.type = "done" => ~x.live)
         /\ \A y : Mark(y) \in Known(r) /\ x.live /\ ~y.live => x.stamp <= y.stamp
  <1>1. \A y : Mark(y).stamp = y.stamp /\ Mark(y).live = y.live /\ Mark(y).type = y.type
    BY DEF Mark
  <1>2. \A m \in Known(r) :
           /\ m.stamp <= run[r].stamp /\ (run[r].live => m.live) /\ (m.type = "done" => ~m.live)
           /\ \A g \in Known(r) : m.live /\ ~g.live => m.stamp <= g.stamp
    BY DEF Aged
  <1>. HIDE DEF Known, Mark
  <1>3. x.stamp <= run[r].stamp /\ (run[r].live => x.live) /\ (x.type = "done" => ~x.live)
    BY <1>1, <1>2, Zenon
  <1>4. ASSUME NEW y, Mark(y) \in Known(r), x.live, ~y.live PROVE x.stamp <= y.stamp
    <2>1. Mark(x).live /\ ~Mark(y).live => Mark(x).stamp <= Mark(y).stamp
      BY <1>2, <1>4
    <2>. QED
      BY <1>1, <1>4, <2>1
  <1>. QED
    BY <1>3, <1>4

----------------------------------------------------------------------------
(* Every step of the registry preserves the invariant.                     *)

\* A sealed run that is not counted as dropped keeps its entry.
LEMMA DropFacts ==
  ASSUME Histories, sealed' \subseteq Runs, dropped' = Drops(reg')
  PROVE  /\ dropped' \subseteq Runs
         /\ \A r \in sealed' \ dropped' : r \in Runs /\ r \notin dropped /\ (Has(reg, r) => Has(reg', r))
  BY DEF Histories, Drops

\* A step that only drops entries, and leaves the snapshots on their way alone.
LEMMA DroppingInv ==
  ASSUME StreamInv, RegInv', SubInv', OnlyDrops, dropped' = Drops(reg'),
         UNCHANGED <<producers, flight, sealed>>
  PROVE  StreamInv'
  <1>1. UNCHANGED <<run, spawn, driven, dirty, sent>> /\ flight' = flight /\ sealed' = sealed
    BY DEF producers
  <1>2. ProducerInv'
    BY <1>1 DEF StreamInv, ProducerInv
  <1>3. /\ dropped' \subseteq Runs
        /\ \A r \in sealed' \ dropped' : r \in Runs /\ r \notin dropped /\ (Has(reg, r) => Has(reg', r))
    BY <1>1, DropFacts DEF StreamInv, Histories
  <1>4. Histories'
    BY <1>1, <1>3 DEF StreamInv, Histories
  <1>5. Aged'
    BY <1>1, KnownFacts, AgedLess DEF StreamInv, OnlyDrops
  <1>6. Sealed'
    BY <1>1, <1>3 DEF StreamInv, Sealed, Behind, OnlyDrops, Has
  <1>7. ExpiredInv'
    BY <1>1 DEF StreamInv, ExpiredInv, OnlyDrops, Has
  <1>. QED
    BY <1>2, <1>4, <1>5, <1>6, <1>7 DEF StreamInv

\* The steps of the handlers preserve the invariant.
LEMMA ClientInv ==
  ASSUME StreamInv, NEW s \in Subscribers, Subscribe(s) \/ Deliver(s) \/ Close(s)
  PROVE  StreamInv'
  <1>1. RegInv' /\ SubInv' /\ OnlyDrops
    BY SubscribeInv, DeliverInv, CloseInv DEF StreamInv
  <1>2. UNCHANGED <<producers, flight, sealed>>
    BY DEF Subscribe, Deliver, Close
  <1>3. dropped' = Drops(reg')
    <2>1. CASE Subscribe(s)
      <3>1. Prune(reg) \in Registry
        BY PruneFacts DEF StreamInv, RegInv, Shape
      <3>2. reg'.runs = Prune(reg).runs /\ dropped' = Drops(Prune(reg))
        BY <2>1, <3>1 DEF Subscribe, Registry
      <3>. QED
        BY <3>2 DEF Drops, Has
    <2>2. CASE Deliver(s)
      <3>1. reg'.runs = reg.runs /\ dropped' = dropped
        BY <2>2 DEF Deliver, StreamInv, RegInv, Shape, Registry
      <3>. QED
        BY <3>1 DEF Drops, Has
    <2>3. CASE Close(s)
      BY <2>3 DEF Close
    <2>. QED
      BY <2>1, <2>2, <2>3
  <1>. QED
    BY <1>1, <1>2, <1>3, DroppingInv

\* So does the passing of an expiry.
LEMMA ExpireStep ==
  ASSUME StreamInv, NEW r \in Runs, Expire(r)
  PROVE  StreamInv'
  <1>. DEFINE x == reg.runs[r]
              y == reg'.runs[r]
  <1>1. UNCHANGED <<run, spawn, driven, dirty, sent, flight, sealed, dropped>>
    BY DEF Expire, producers
  <1>2. /\ RegInv' /\ SubInv' /\ reg'.pending = reg.pending
        /\ y = [x EXCEPT !.expired = TRUE] /\ y # None
        /\ \A q \in Runs \ {r} : reg'.runs[q] = reg.runs[q]
    BY ExpireInv DEF StreamInv
  <1>3. x \in Entry /\ x # None /\ (\A f \in flight : f.run # r) /\ (x.type = "done" \/ ~x.live)
    BY DEF Expire, Has, StreamInv, RegInv, Shape, Registry
  <1>4. y.type = x.type /\ y.stamp = x.stamp /\ y.live = x.live
    BY <1>2, <1>3 DEF Entry
  <1>5. ProducerInv' /\ Histories'
    BY <1>1 DEF StreamInv, ProducerInv, Histories
  <1>6. Mark(x) \in Known(r)
    BY <1>3, KnownFacts
  <1>7. ~y.live
    BY <1>3, <1>4, <1>6, AgedFacts DEF StreamInv
  <1>8. Mark(y) \in Known(r)
    BY <1>4, <1>6 DEF Mark
  <1>9. Aged'
    BY <1>1, <1>2, <1>8, KnownFacts, AgedLess DEF StreamInv
  <1>10. Sealed'
    <2>. SUFFICES ASSUME NEW q \in sealed \ dropped
                  PROVE  /\ reg'.runs[q] # None /\ ~reg'.runs[q].live
                         /\ reg'.runs[q].type = "done" \/ Behind(q)'
      BY <1>1 DEF Sealed, Has
    <2>1. /\ q \in Runs /\ reg.runs[q] # None /\ ~reg.runs[q].live
          /\ reg.runs[q].type = "done" \/ Behind(q)
      BY DEF StreamInv, Histories, Sealed, Has
    <2>2. /\ reg'.runs[q].stamp = reg.runs[q].stamp /\ reg'.runs[q].type = reg.runs[q].type
          /\ reg'.runs[q].live = reg.runs[q].live /\ reg'.runs[q] # None
      BY <1>2, <1>4, <2>1
    <2>3. Behind(q) => Behind(q)'
      BY <1>1, <1>2, <2>2 DEF Behind
    <2>. QED
      BY <2>1, <2>2, <2>3
  <1>11. ExpiredInv'
    BY <1>1, <1>2, <1>3, <1>7 DEF StreamInv, ExpiredInv, Has
  <1>. QED
    BY <1>2, <1>5, <1>9, <1>10, <1>11 DEF StreamInv

\* So does the timer of a pending update: of a sealed run what is pending is stale.
LEMMA FlushStep ==
  ASSUME StreamInv, NEW r \in Runs, FlushPending(r)
  PROVE  StreamInv'
  <1>. DEFINE f == reg.pending[r]
              x == reg.runs[r]
              y == reg'.runs[r]
  <1>1. /\ UNCHANGED <<run, spawn, driven, dirty, sent, flight, sealed, shown>>
        /\ sub' = Cut(reg') /\ dropped' = Drops(reg') /\ f # None
    BY DEF FlushPending, producers
  <1>2. /\ Sound(reg, reg', shown) /\ f \in Frame /\ reg'.pending[r] = None
        /\ \A q \in Runs \ {r} :
              reg'.pending[q] = reg.pending[q] /\ reg'.runs[q] \in {reg.runs[q], None}
        /\ \/ y \in {x, None}
           \/ /\ Has(reg, r) => x.type # "done" /\ ~(f.stamp < x.stamp)
              /\ y = EntryOf(f, y.seq)
    BY FlushRegistry DEF StreamInv, RegInv
  <1>3. y = EntryOf(f, y.seq) => y.type = f.type /\ y.stamp = f.stamp /\ y.live = f.live /\ ~y.expired
    BY DEF EntryOf
  <1>4. RegInv' /\ SubInv'
    BY <1>1, <1>2, CutSub DEF Sound, RegInv, StreamInv
  <1>5. ProducerInv'
    BY <1>1 DEF StreamInv, ProducerInv
  <1>6. /\ dropped' \subseteq Runs
        /\ \A q \in sealed' \ dropped' : q \in Runs /\ q \notin dropped /\ (Has(reg, q) => Has(reg', q))
    BY <1>1, DropFacts DEF StreamInv, Histories
  <1>7. Histories'
    BY <1>1, <1>6 DEF StreamInv, Histories
  <1>8. Aged'
    <2>1. reg'.runs[r] # None => Mark(reg'.runs[r]) \in Known(r)
      <3>1. CASE y = EntryOf(f, y.seq)
        <4>1. Mark(y) = Mark(f)
          BY <1>3, <3>1 DEF Mark
        <4>. QED
          BY <1>1, <4>1, KnownFacts
      <3>2. CASE y \in {x, None}
        BY <3>2, KnownFacts
      <3>. QED
        BY <1>2, <3>1, <3>2
    <2>. QED
      BY <1>1, <1>2, <2>1, KnownFacts, AgedLess DEF StreamInv
  <1>9. Sealed'
    <2>. SUFFICES ASSUME NEW q \in sealed' \ dropped'
                  PROVE  Has(reg, q)' /\ ~reg'.runs[q].live /\ (reg'.runs[q].type = "done" \/ Behind(q)')
      BY DEF Sealed
    <2>1. q \in Runs /\ Has(reg, q) /\ Has(reg', q) /\ ~reg.runs[q].live
          /\ (reg.runs[q].type = "done" \/ Behind(q))
      BY <1>1, <1>6 DEF StreamInv, Sealed
    <2>2. CASE q # r
      BY <1>1, <1>2, <2>1, <2>2 DEF Behind, Has
    <2>3. CASE q = r
      <3>1. y = x
        <4>1. CASE y \in {x, None}
          BY <2>1, <2>3, <4>1 DEF Has
        <4>2. CASE x.type # "done" /\ ~(f.stamp < x.stamp)
          BY <1>1, <2>1, <2>3, <4>2 DEF Behind
        <4>. QED
          BY <1>2, <2>1, <2>3, <4>1, <4>2
      <3>. QED
        BY <1>1, <1>2, <2>1, <2>3, <3>1 DEF Behind, Has
    <2>. QED
      BY <2>2, <2>3
  <1>10. ExpiredInv'
    BY <1>1, <1>2, <1>3 DEF StreamInv, ExpiredInv, Has
  <1>. QED
    BY <1>4, <1>5, <1>7, <1>8, <1>9, <1>10 DEF StreamInv

\* So does publish.  For a run that is sealed: done is accepted, or what is retained shows the
\* end already; and anything else that is accepted shows the end, too.
LEMMA PublishStep ==
  ASSUME StreamInv, NEW f \in flight, NEW recent, Publish(f, recent)
  PROVE  StreamInv'
  <1>. DEFINE r == f.run
              x == reg.runs[r]
              y == reg'.runs[r]
              z == Prune(reg).runs[r]
  <1>1. /\ UNCHANGED <<run, spawn, driven, dirty, sent, shown>> /\ flight' = flight \ {f}
        /\ sealed' = (IF f.type = "done" THEN sealed \cup {r} ELSE sealed)
        /\ sub' = Cut(reg') /\ dropped' = Drops(reg')
    BY DEF Publish, producers
  <1>2. f \in Frame /\ r \in Runs /\ Mark(f) \in Known(r)
    BY KnownFacts DEF StreamInv, Histories, Frame
  <1>3. /\ Sound(reg, reg', shown) /\ Filed(reg', f, recent)
        /\ \A q \in Runs \ {r} :
              reg'.pending[q] = reg.pending[q] /\ reg'.runs[q] \in {reg.runs[q], None}
    BY <1>2, PublishRegistry DEF StreamInv, RegInv
  <1>4. y = EntryOf(f, y.seq) => y.type = f.type /\ y.stamp = f.stamp /\ y.live = f.live /\ ~y.expired
    BY DEF EntryOf
  <1>5. z = IF r \in Retained(reg) THEN x ELSE None
    BY <1>2, PruneKeeps DEF StreamInv, RegInv
  <1>6. RegInv' /\ SubInv'
    BY <1>1, <1>3, CutSub DEF Sound, RegInv, StreamInv
  <1>7. ProducerInv'
    BY <1>1 DEF StreamInv, ProducerInv
  <1>8. sealed' \subseteq Runs
    BY <1>1, <1>2 DEF StreamInv, Histories
  <1>9. /\ dropped' \subseteq Runs
        /\ \A q \in sealed' \ dropped' : q \in Runs /\ q \notin dropped /\ (Has(reg, q) => Has(reg', q))
    BY <1>1, <1>8, DropFacts DEF StreamInv
  <1>10. Histories'
    BY <1>1, <1>8, <1>9 DEF StreamInv, Histories
  <1>11. Aged'
    <2>1. y # None => Mark(y) \in Known(r)
      <3>1. CASE y = EntryOf(f, y.seq)
        BY <1>2, <1>4, <3>1 DEF Mark
      <3>2. CASE y \in {x, None}
        BY <1>2, <3>2, KnownFacts
      <3>. QED
        BY <1>3, <1>5, <3>1, <3>2 DEF Filed
    <2>2. reg'.pending[r] # None => Mark(reg'.pending[r]) \in Known(r)
      BY <1>2, <1>3, KnownFacts DEF Filed
    <2>. HIDE DEF r
    <2>3. ASSUME NEW q \in Runs
          PROVE  /\ \A g \in flight' : g.run = q => Mark(g) \in Known(q)
                 /\ reg'.pending[q] # None => Mark(reg'.pending[q]) \in Known(q)
                 /\ reg'.runs[q] # None => Mark(reg'.runs[q]) \in Known(q)
      <3>1. \A g \in flight' : g.run = q => Mark(g) \in Known(q)
        BY <1>1, KnownFacts
      <3>2. CASE q = r
        BY <2>1, <2>2, <3>1, <3>2
      <3>3. CASE q # r
        BY <1>3, <3>1, <3>3, KnownFacts
      <3>. QED
        BY <3>2, <3>3
    <2>. QED
      BY <1>1, <2>3, AgedLess DEF StreamInv
  <1>12. Sealed'
    <2>. SUFFICES ASSUME NEW q \in sealed' \ dropped'
                  PROVE  Has(reg, q)' /\ ~reg'.runs[q].live /\ (reg'.runs[q].type = "done" \/ Behind(q)')
      BY DEF Sealed
    <2>1. q \in Runs /\ q \notin dropped /\ (Has(reg, q) => Has(reg', q))
      BY <1>9
    <2>2. CASE q # r
      <3>1. q \in sealed \ dropped
        BY <1>1, <2>1, <2>2
      <3>2. Has(reg, q) /\ ~reg.runs[q].live /\ (reg.runs[q].type = "done" \/ Behind(q))
        BY <3>1 DEF StreamInv, Sealed
      <3>3. reg'.runs[q] = reg.runs[q] /\ reg'.pending[q] = reg.pending[q]
        BY <1>3, <2>1, <2>2, <3>2 DEF Has
      <3>. QED
        BY <1>1, <3>2, <3>3 DEF Behind, Has
    <2>3. /\ f.stamp \in Int /\ f.type \in Event
          /\ x # None => x \in Entry /\ x.stamp \in Int /\ x.type \in Event
          /\ reg.pending[r] # None => reg.pending[r].stamp \in Int /\ reg.pending[r].live
      BY <1>2 DEF StreamInv, RegInv, Shape, Registry, Frame, Entry
    <2>4. CASE q = r
      <3>1. ~Accepted(Prune(reg), f) =>
               z # None /\ \/ z.type = "done" /\ f.type # "done"
                           \/ ~(f.stamp >= z.stamp)
                           \/ f.stamp = z.stamp /\ ~(Priority(f.type) > Priority(z.type))
        <4>1. Priority(f.type) \in Int /\ (z # None => Priority(z.type) \in Int)
          BY <1>2, <1>5, <2>3 DEF Priority, Event, Frame, Entry
        <4>. QED
          BY <4>1 DEF Accepted, Has
      <3>2. Accepted(Prune(reg), f) /\ z # None => (z.type = "done" => f.type = "done") /\ f.stamp >= z.stamp
        BY DEF Accepted, Has
      <3>3. x # None /\ ~x.expired => z = x
        BY <1>2, <1>5 DEF StreamInv, RegInv, Capped, Unexpired, Has
      <3>4. Has(reg, r)' <=> y # None
        BY DEF Has
      <3>5. f.type = "done" => ~f.live
        BY <1>2, AgedFacts DEF StreamInv
      <3>6. CASE f.type = "done" /\ ~Accepted(Prune(reg), f)
        <4>1. x # None /\ y = x /\ z = x /\ reg'.pending[r] = reg.pending[r]
          BY <1>3, <1>5, <3>1, <3>6 DEF Filed
        <4>2. Mark(x) \in Known(r)
          BY <1>2, <4>1, KnownFacts
        <4>3. x.type = "done" => ~x.live
          BY <1>2, <4>2, AgedFacts DEF StreamInv
        <4>4. CASE x.type # "done"
          <5>1. f.stamp < x.stamp
            BY <2>3, <3>1, <3>6, <4>1, <4>4 DEF Priority, Event
          <5>2. ~x.live
            BY <1>2, <2>3, <3>5, <3>6, <4>1, <4>2, <5>1, AgedFacts DEF StreamInv
          <5>3. \A g \in flight : g.run = r /\ g.live => g.stamp <= f.stamp /\ g.stamp \in Int
            BY <1>2, <3>5, <3>6, KnownFacts, AgedFacts DEF StreamInv, Histories, Frame
          <5>4. reg.pending[r] # None => reg.pending[r].stamp <= f.stamp /\ reg.pending[r].stamp \in Int
            BY <1>2, <2>3, <3>5, <3>6, KnownFacts, AgedFacts DEF StreamInv
          <5>5. Behind(r)'
            BY <1>1, <2>3, <4>1, <5>1, <5>3, <5>4 DEF Behind
          <5>. QED
            BY <2>4, <3>4, <4>1, <5>2, <5>5
        <4>. QED
          BY <2>4, <3>4, <4>1, <4>3, <4>4
      <3>7. CASE f.type = "done" /\ Accepted(Prune(reg), f)
        BY <1>3, <1>4, <2>4, <3>4, <3>5, <3>7 DEF Filed, Immediate
      <3>8. CASE f.type # "done"
        <4>1. x # None /\ y # None /\ ~x.live /\ (x.type = "done" \/ Behind(r))
          BY <1>1, <2>1, <2>4, <3>4, <3>8 DEF StreamInv, Sealed, Has
        <4>2. CASE ~Accepted(Prune(reg), f)
          <5>1. y = x /\ reg'.pending[r] = reg.pending[r]
            BY <1>3, <1>5, <3>1, <4>2 DEF Filed
          <5>2. Behind(r) => Behind(r)'
            BY <1>1, <5>1 DEF Behind
          <5>. QED
            BY <2>4, <3>4, <4>1, <5>1, <5>2
        <4>3. CASE Accepted(Prune(reg), f)
          <5>1. x.expired => \A g \in flight : g.run = r => ~g.live
            BY <1>2, <4>1 DEF StreamInv, ExpiredInv, Has
          <5>2. ~x.expired => z = x /\ Behind(r) /\ f.stamp >= x.stamp
            BY <3>2, <3>3, <3>8, <4>1, <4>3
          <5>3. ~f.live
            BY <1>2, <2>3, <4>1, <5>1, <5>2 DEF Behind
          <5>4. y = EntryOf(f, y.seq) /\ reg'.pending[r] = None
            BY <1>3, <4>3, <5>3 DEF Filed, Immediate
          <5>5. \A g \in flight : g.run = r /\ g.live => g.stamp < f.stamp
            BY <1>2, <2>3, <4>1, <5>1, <5>2 DEF Behind, StreamInv, Histories, Frame
          <5>6. Behind(r)'
            BY <1>1, <1>4, <5>4, <5>5 DEF Behind
          <5>. QED
            BY <1>4, <2>4, <3>4, <4>1, <5>3, <5>4, <5>6
        <4>. QED
          BY <4>2, <4>3
      <3>. QED
        BY <3>6, <3>7, <3>8
    <2>. QED
      BY <2>2, <2>4
  <1>13. ExpiredInv'
    BY <1>1, <1>3, <1>4, <1>5 DEF StreamInv, ExpiredInv, Has, Filed
  <1>. QED
    BY <1>6, <1>7, <1>10, <1>11, <1>12, <1>13 DEF StreamInv

----------------------------------------------------------------------------
(* The producers.                                                          *)

\* The run of a producer's step may change or end, and its snapshot may be sent.
Produces(r) ==
    /\ \A q \in Runs \ {r} : run'[q] = run[q]
    /\ run[r].stamp <= run'[r].stamp /\ (run'[r].live => run[r].live) /\ run'[r].ver > 0
    /\ \/ flight' = flight
       \/ \E type \in Event :
             /\ flight' = flight \cup {[run |-> r, type |-> type, ver |-> run'[r].ver,
                                        stamp |-> run'[r].stamp, live |-> run'[r].live]}
             /\ type = "done" => ~run'[r].live
    /\ UNCHANGED consumers

\* A step of a producer sends nothing that Aged, Sealed and ExpiredInv forbid: the end of a run
\* that is known anywhere has come for the run itself.
LEMMA ProducesInv ==
  ASSUME StreamInv, NEW r \in Runs, Produces(r), ProducerInv'
  PROVE  StreamInv'
  <1>1. UNCHANGED <<sealed, dropped, reg, sub, shown>>
    BY DEF Produces, consumers
  <1>2. /\ run'[r].ver \in 1..MaxVersion /\ run'[r].stamp \in 0..MaxVersion /\ run'[r].live \in BOOLEAN
        /\ \A q \in Runs : run[q].stamp \in Int /\ run'[q].stamp \in Int
    BY StreamAssumption DEF Produces, ProducerInv, StreamInv
  <1>3. \A q \in Runs : run[q].stamp <= run'[q].stamp /\ (run'[q].live => run[q].live)
    BY <1>2 DEF Produces
  <1>4. \A g \in flight' \ flight :
           /\ g \in Frame /\ g.run = r /\ g.stamp = run'[r].stamp /\ g.live = run'[r].live
           /\ g.type = "done" => ~g.live
    <2>. SUFFICES ASSUME NEW type \in Event, type = "done" => ~run'[r].live,
                         NEW g \in flight' \ flight,
                         g = [run |-> r, type |-> type, ver |-> run'[r].ver,
                              stamp |-> run'[r].stamp, live |-> run'[r].live]
                  PROVE  /\ g \in Frame /\ g.run = r /\ g.stamp = run'[r].stamp /\ g.live = run'[r].live
                         /\ g.type = "done" => ~g.live
      BY DEF Produces
    <2>1. g \in Frame
      BY <1>2, Zenon DEF Frame
    <2>. QED
      BY <2>1
  <1>5. flight \subseteq flight'
    BY DEF Produces
  <1>6. Histories'
    BY <1>1, <1>4 DEF StreamInv, Histories
  <1>7. RegInv' /\ SubInv'
    BY <1>1 DEF StreamInv, RegInv, SubInv
  <1>8. \A q \in Runs : \A m \in Known(q) : m.stamp \in Int
    BY DEF StreamInv, Histories, RegInv, Shape, Registry, Known, Mark, Frame, Entry
  <1>9. ASSUME NEW q \in Runs, NEW m \in Known(q)'
        PROVE  m \in Known(q) \/ /\ q = r /\ m.stamp = run'[r].stamp /\ m.live = run'[r].live
                                 /\ m.type = "done" => ~m.live
    BY <1>1, <1>4 DEF Known, Mark
  <1>10. Aged'
    <2>. SUFFICES ASSUME NEW q \in Runs, NEW m \in Known(q)'
                  PROVE  /\ m.stamp <= run'[q].stamp /\ (run'[q].live => m.live) /\ (m.type = "done" => ~m.live)
                         /\ \A g \in Known(q)' : m.live /\ ~g.live => m.stamp <= g.stamp
      BY DEF Aged
    <2>1. \A x \in Known(q) : x.stamp <= run[q].stamp /\ (run[q].live => x.live)
                              /\ (x.type = "done" => ~x.live)
                              /\ \A y \in Known(q) : x.live /\ ~y.live => x.stamp <= y.stamp
      BY DEF StreamInv, Aged
    <2>. HIDE DEF Known
    <2>2. m.stamp <= run'[q].stamp /\ (run'[q].live => m.live) /\ (m.type = "done" => ~m.live)
      BY <1>2, <1>3, <1>8, <1>9, <2>1
    <2>3. ASSUME NEW g \in Known(q)', m.live, ~g.live PROVE m.stamp <= g.stamp
      BY <1>2, <1>3, <1>8, <1>9, <2>1, <2>2, <2>3
    <2>. QED
      BY <2>2, <2>3
  <1>11. ASSUME NEW q \in Runs, Has(reg, q), ~reg.runs[q].live PROVE ~run[q].live
    <2>1. Mark(reg.runs[q]) \in Known(q)
      BY <1>11, KnownFacts DEF Has
    <2>. QED
      BY <1>11, <2>1, AgedFacts DEF StreamInv
  <1>12. \A q \in Runs : Has(reg, q) /\ ~reg.runs[q].live => \A g \in flight' \ flight : g.run = q => ~g.live
    BY <1>3, <1>4, <1>11
  <1>13. Sealed'
    <2>. SUFFICES ASSUME NEW q \in sealed \ dropped
                  PROVE  Has(reg, q) /\ ~reg.runs[q].live /\ (reg.runs[q].type = "done" \/ Behind(q)')
      BY <1>1 DEF Sealed, Has
    <2>1. q \in Runs /\ Has(reg, q) /\ ~reg.runs[q].live /\ (reg.runs[q].type = "done" \/ Behind(q))
      BY DEF StreamInv, Histories, Sealed
    <2>2. Behind(q) => Behind(q)'
      BY <1>1, <1>12, <2>1 DEF Behind
    <2>. QED
      BY <2>1, <2>2
  <1>14. ExpiredInv'
    BY <1>1, <1>12 DEF StreamInv, ExpiredInv, Has
  <1>. QED
    BY <1>6, <1>7, <1>10, <1>13, <1>14 DEF StreamInv

\* A change of a run: its version grows, and UpdatedAt does not fall.
LEMMA ChangesFacts ==
  ASSUME ProducerInv, NEW r \in Runs, NEW live \in BOOLEAN, Changes(r, live)
  PROVE  /\ run' \in [Runs -> [ver : 0..MaxVersion, stamp : 0..MaxVersion, live : BOOLEAN]]
         /\ \A q \in Runs \ {r} : run'[q] = run[q]
         /\ run[r].ver > 0 /\ run'[r].ver > 0 /\ run'[r].live = live
         /\ run[r].stamp <= run'[r].stamp /\ run'[r].stamp <= run'[r].ver
  <1>. PICK tick \in {0, 1} :
          run' = [run EXCEPT ![r] = [ver |-> run[r].ver + 1, stamp |-> run[r].stamp + tick, live |-> live]]
    BY DEF Changes
  <1>. DEFINE x == [ver |-> run[r].ver + 1, stamp |-> run[r].stamp + tick, live |-> live]
  <1>1. /\ run[r].ver \in 1..MaxVersion - 1 /\ run[r].stamp \in 0..MaxVersion /\ run[r].stamp <= run[r].ver
        /\ MaxVersion \in Nat
    BY StreamAssumption DEF Changes, ProducerInv
  <1>2. run[r].ver + 1 \in 0..MaxVersion /\ run[r].stamp + tick \in 0..MaxVersion
    BY <1>1
  <1>3. x \in [ver : 0..MaxVersion, stamp : 0..MaxVersion, live : BOOLEAN]
    BY <1>2, Zenon
  <1>4. x.ver = run[r].ver + 1 /\ x.stamp = run[r].stamp + tick /\ x.live = live
    OBVIOUS
  <1>. HIDE DEF x
  <1>5. run' = [run EXCEPT ![r] = x]
    BY DEF x
  <1>6. run'[r] = x
    BY <1>5 DEF ProducerInv
  <1>. QED
    BY <1>1, <1>3, <1>4, <1>5, <1>6 DEF ProducerInv

\* A step that sends the snapshot of a run which exists by then.
LEMMA SendStep ==
  ASSUME StreamInv, NEW r \in Runs, NEW type \in Event, Send(r, type), UNCHANGED consumers,
         run' \in [Runs -> [ver : 0..MaxVersion, stamp : 0..MaxVersion, live : BOOLEAN]],
         \A q \in Runs \ {r} : run'[q] = run[q], run'[r].ver > 0,
         run[r].stamp <= run'[r].stamp, run'[r].stamp <= run'[r].ver, run'[r].live => run[r].live,
         type = "done" => ~run'[r].live,
         driven' = driven, spawn' \in [Runs -> {"none", "update", "returned", "stopped"}],
         spawn'[r] # "none", \A q \in Runs \ {r} : spawn'[q] = spawn[q]
  PROVE  Produces(r) /\ ProducerInv'
  <1>1. Produces(r)
    BY Zenon DEF Produces, Send
  <1>2. dirty' = dirty \ {r} /\ sent' \in [Runs -> 0..MaxVersion]
    BY DEF Send, StreamInv, ProducerInv
  <1>3. \A q \in Runs : /\ run'[q].stamp <= run'[q].ver
                        /\ (run'[q].ver = 0 <=> spawn'[q] = "none")
                        /\ q \in dirty' \cup driven' => run'[q].ver > 0
    <2>1. ASSUME NEW q \in Runs, q # r
          PROVE  /\ run'[q].stamp <= run'[q].ver
                 /\ (run'[q].ver = 0 <=> spawn'[q] = "none")
                 /\ q \in dirty' \cup driven' => run'[q].ver > 0
      BY <1>2, <2>1 DEF StreamInv, ProducerInv
    <2>2. run'[r].ver # 0
      OBVIOUS
    <2>. QED
      BY <2>1, <2>2
  <1>4. driven' \subseteq Runs /\ dirty' \subseteq Runs
    BY <1>2 DEF StreamInv, ProducerInv
  <1>. QED
    BY <1>1, <1>2, <1>3, <1>4 DEF ProducerInv

\* Every action of the producers is such a step.
LEMMA ProducerStep ==
  ASSUME StreamInv, NEW r \in Runs,
         \/ Spawn(r) \/ Spawned(r) \/ DrivePrompt(r) \/ SessionUpdate(r) \/ FlushEmit(r)
         \/ Change(r) \/ Finish(r) \/ Stop(r)
  PROVE  StreamInv'
  <1>0. /\ run \in [Runs -> [ver : 0..MaxVersion, stamp : 0..MaxVersion, live : BOOLEAN]]
        /\ run[r].stamp <= run[r].ver /\ run[r].stamp \in Int /\ run[r].ver \in Int /\ run[r].ver >= 0
        /\ (run[r].ver = 0 <=> spawn[r] = "none") /\ (r \in dirty \cup driven => run[r].ver > 0)
        /\ spawn \in [Runs -> {"none", "update", "returned", "stopped"}] /\ ProducerInv
    BY StreamAssumption DEF StreamInv, ProducerInv
  <1>1. CASE Spawn(r)
    <2>1. /\ run' = [run EXCEPT ![r].ver = 1] /\ spawn' = [spawn EXCEPT ![r] = "update"]
          /\ Send(r, "updated") /\ driven' = driven /\ UNCHANGED consumers /\ spawn[r] = "none"
      BY <1>1 DEF Spawn
    <2>2. 1 \in 0..MaxVersion
      BY StreamAssumption
    <2>3. run' \in [Runs -> [ver : 0..MaxVersion, stamp : 0..MaxVersion, live : BOOLEAN]]
      BY <1>0, <2>1, <2>2, Zenon
    <2>4. run'[r].ver = 1 /\ run'[r].stamp = run[r].stamp /\ run'[r].live = run[r].live
          /\ \A q \in Runs \ {r} : run'[q] = run[q]
      BY <1>0, <2>1
    <2>5. run[r].stamp <= run'[r].stamp /\ run'[r].stamp <= run'[r].ver /\ run'[r].ver > 0
      BY <1>0, <2>1, <2>4
    <2>. QED
      BY <1>0, <2>1, <2>3, <2>4, <2>5, SendStep, ProducesInv DEF Event
  <1>2. CASE Spawned(r)
    <2>1. /\ run' = run /\ spawn' = [spawn EXCEPT ![r] = "returned"] /\ spawn[r] # "none"
          /\ UNCHANGED <<driven, dirty, sent>> /\ UNCHANGED consumers
          /\ \/ flight' = flight
             \/ run[r].live /\ flight' = flight \cup {[run |-> r, type |-> "started", ver |-> run[r].ver,
                                                     stamp |-> run[r].stamp, live |-> TRUE]}
      BY <1>2 DEF Spawned
    <2>2. ProducerInv'
      BY <1>0, <2>1 DEF ProducerInv
    <2>3. run[r].ver > 0
      BY <1>0, <2>1
    <2>4. CASE flight' = flight
      BY <1>0, <2>1, <2>2, <2>3, <2>4, ProducesInv DEF Produces
    <2>5. CASE /\ run[r].live
               /\ flight' = flight \cup {[run |-> r, type |-> "started", ver |-> run[r].ver,
                                          stamp |-> run[r].stamp, live |-> TRUE]}
      <3>1. run[r].live = TRUE
        BY <1>0, <2>5, Zenon
      <3>2. /\ flight' = flight \cup {[run |-> r, type |-> "started", ver |-> run'[r].ver,
                                       stamp |-> run'[r].stamp, live |-> run'[r].live]}
            /\ run' = run
        BY <2>1, <2>5, <3>1, Zenon
      <3>3. "started" \in Event
        BY DEF Event
      <3>4. run[r].stamp <= run[r].stamp
        BY <1>0
      <3>5. Produces(r)
        BY <2>1, <2>3, <3>2, <3>3, <3>4 DEF Produces
      <3>. QED
        BY <2>2, <3>5, ProducesInv
    <2>. QED
      BY <2>1, <2>4, <2>5
  <1>3. CASE DrivePrompt(r)
    <2>1. /\ UNCHANGED <<run, spawn, sent, flight>> /\ UNCHANGED consumers /\ spawn[r] # "none"
          /\ driven' = driven \cup {r} /\ dirty' = dirty \ {r}
      BY <1>3 DEF DrivePrompt, Announced
    <2>2. run[r].ver > 0
      BY <1>0, <2>1
    <2>3. ProducerInv'
      BY <1>0, <2>1, <2>2 DEF ProducerInv
    <2>4. Produces(r)
      BY <1>0, <2>1, <2>2 DEF Produces
    <2>. QED
      BY <2>3, <2>4, ProducesInv
  <1>4. CASE SessionUpdate(r)
    <2>1. /\ Changes(r, run[r].live) /\ dirty' = dirty \cup {r}
          /\ UNCHANGED <<spawn, driven, sent, flight>> /\ UNCHANGED consumers
      BY <1>4 DEF SessionUpdate
    <2>2. /\ run' \in [Runs -> [ver : 0..MaxVersion, stamp : 0..MaxVersion, live : BOOLEAN]]
          /\ \A q \in Runs \ {r} : run'[q] = run[q]
          /\ run[r].ver > 0 /\ run'[r].ver > 0 /\ run'[r].live = run[r].live
          /\ run[r].stamp <= run'[r].stamp /\ run'[r].stamp <= run'[r].ver
      BY <1>0, <2>1, ChangesFacts
    <2>3. Produces(r)
      BY <2>1, <2>2 DEF Produces
    <2>4. \A q \in Runs : /\ run'[q].stamp <= run'[q].ver
                          /\ (run'[q].ver = 0 <=> spawn'[q] = "none")
                          /\ q \in dirty' \cup driven' => run'[q].ver > 0
      BY <1>0, <2>1, <2>2 DEF ProducerInv
    <2>5. ProducerInv'
      BY <1>0, <2>1, <2>2, <2>4 DEF ProducerInv
    <2>. QED
      BY <2>3, <2>5, ProducesInv
  <1>5. CASE FlushEmit(r)
    <2>1. Send(r, "updated") /\ run' = run /\ UNCHANGED <<spawn, driven>> /\ UNCHANGED consumers /\ r \in dirty
      BY <1>5 DEF FlushEmit
    <2>. QED
      BY <1>0, <2>1, SendStep, ProducesInv DEF Event
  <1>6. CASE Change(r)
    <2>1. Changes(r, run[r].live) /\ Send(r, "updated") /\ UNCHANGED <<spawn, driven>> /\ UNCHANGED consumers
      BY <1>6 DEF Change
    <2>2. /\ run' \in [Runs -> [ver : 0..MaxVersion, stamp : 0..MaxVersion, live : BOOLEAN]]
          /\ \A q \in Runs \ {r} : run'[q] = run[q]
          /\ run[r].ver > 0 /\ run'[r].ver > 0 /\ run'[r].live = run[r].live
          /\ run[r].stamp <= run'[r].stamp /\ run'[r].stamp <= run'[r].ver
      BY <1>0, <2>1, ChangesFacts
    <2>. QED
      BY <1>0, <2>1, <2>2, SendStep, ProducesInv DEF Event
  <1>7. CASE Finish(r) \/ Stop(r)
    <2>1. /\ Send(r, "done") /\ UNCHANGED driven /\ UNCHANGED consumers
          /\ spawn' \in [Runs -> {"none", "update", "returned", "stopped"}]
          /\ \A q \in Runs \ {r} : spawn'[q] = spawn[q]
          /\ spawn[r] # "none" /\ spawn'[r] # "none"
          /\ Changes(r, FALSE) \/ (~run[r].live /\ run' = run)
      <3>1. CASE Finish(r)
        <4>1. Send(r, "done") /\ UNCHANGED <<spawn, driven>> /\ UNCHANGED consumers /\ Changes(r, FALSE)
              /\ r \in driven
          BY <3>1 DEF Finish, End
        <4>2. spawn[r] # "none"
          BY <1>0, <4>1
        <4>. QED
          BY <1>0, <4>1, <4>2
      <3>2. CASE Stop(r)
        <4>1. /\ Send(r, "done") /\ UNCHANGED driven /\ UNCHANGED consumers
              /\ spawn[r] = "returned" /\ spawn' = [spawn EXCEPT ![r] = "stopped"]
              /\ Changes(r, FALSE) \/ (~run[r].live /\ run' = run)
          BY <3>2 DEF Stop, End
        <4>2. /\ spawn' \in [Runs -> {"none", "update", "returned", "stopped"}]
              /\ \A q \in Runs \ {r} : spawn'[q] = spawn[q]
              /\ spawn[r] # "none" /\ spawn'[r] # "none"
          BY <1>0, <4>1
        <4>. QED
          BY <4>1, <4>2, Zenon
      <3>. QED
        BY <1>7, <3>1, <3>2
    <2>2. CASE Changes(r, FALSE)
      <3>1. /\ run' \in [Runs -> [ver : 0..MaxVersion, stamp : 0..MaxVersion, live : BOOLEAN]]
            /\ \A q \in Runs \ {r} : run'[q] = run[q]
            /\ run'[r].ver > 0 /\ run'[r].live = FALSE
            /\ run[r].stamp <= run'[r].stamp /\ run'[r].stamp <= run'[r].ver
        BY <1>0, <2>2, ChangesFacts
      <3>. QED
        BY <2>1, <3>1, SendStep, ProducesInv DEF Event
    <2>3. CASE ~run[r].live /\ run' = run
      BY <1>0, <2>1, <2>3, SendStep, ProducesInv DEF Event
    <2>. QED
      BY <2>1, <2>2, <2>3
  <1>. QED
    BY <1>1, <1>2, <1>3, <1>4, <1>5, <1>6, <1>7

----------------------------------------------------------------------------
(* The invariant and the theorems.                                         *)

\* The initial state satisfies the invariant.
LEMMA InitStream == Init => StreamInv
  <1>. SUFFICES ASSUME Init PROVE StreamInv
    OBVIOUS
  <1>1. MaxVersion \in Nat /\ 0 \in 0..MaxVersion /\ Buffer \in Nat /\ MaxSnapshots \in Nat
    BY StreamAssumption
  <1>2. ProducerInv
    BY <1>1 DEF Init, ProducerInv
  <1>3. Histories /\ ExpiredInv /\ Sealed
    BY DEF Init, Histories, ExpiredInv, Sealed, Has
  <1>4. Aged
    BY DEF Init, Aged, Known
  <1>5. Shape(reg)
    <2>1. reg \in Registry
      BY DEF Init, Registry
    <2>. QED
      BY <1>1, <2>1 DEF Init, Shape
  <1>6. RegInv
    BY <1>5 DEF Init, RegInv, Served, Capped, Unexpired, Has
  <1>7. SubInv
    BY DEF Init, SubInv
  <1>. QED
    BY <1>2, <1>3, <1>4, <1>6, <1>7 DEF StreamInv

\* A step that changes nothing.
LEMMA StutterStream == StreamInv /\ UNCHANGED vars => StreamInv'
  <1>. SUFFICES ASSUME StreamInv, UNCHANGED vars PROVE StreamInv'
    OBVIOUS
  <1>1. UNCHANGED <<run, spawn, driven, dirty, sent, flight, sealed, dropped, reg, sub, shown>>
    BY DEF vars
  <1>2. ProducerInv' /\ Histories' /\ RegInv' /\ SubInv'
    BY <1>1 DEF StreamInv, ProducerInv, Histories, RegInv, SubInv
  <1>3. Aged'
    BY <1>1, KnownFacts, AgedLess DEF StreamInv
  <1>4. Sealed' /\ ExpiredInv'
    BY <1>1 DEF StreamInv, Sealed, ExpiredInv, Behind, Has
  <1>. QED
    BY <1>2, <1>3, <1>4 DEF StreamInv

\* The invariant holds in every reachable state.
LEMMA StreamInvariance == Spec => []StreamInv
  <1>1. StreamInv /\ [Next]_vars => StreamInv'
    <2>. SUFFICES ASSUME StreamInv, [Next]_vars PROVE StreamInv'
      OBVIOUS
    <2>1. CASE UNCHANGED vars
      BY <2>1, StutterStream
    <2>2. ASSUME NEW r \in Runs,
                 \/ Spawn(r) \/ Spawned(r) \/ DrivePrompt(r) \/ SessionUpdate(r) \/ FlushEmit(r)
                 \/ Change(r) \/ Finish(r) \/ Stop(r)
          PROVE  StreamInv'
      BY <2>2, ProducerStep
    <2>3. ASSUME NEW r \in Runs, FlushPending(r) \/ Expire(r) PROVE StreamInv'
      BY <2>3, FlushStep, ExpireStep
    <2>4. ASSUME NEW f \in flight, NEW recent \in BOOLEAN, Publish(f, recent) PROVE StreamInv'
      BY <2>4, PublishStep
    <2>5. ASSUME NEW s \in Subscribers, Subscribe(s) \/ Deliver(s) \/ Close(s) PROVE StreamInv'
      BY <2>5, ClientInv
    <2>. QED
      BY <2>1, <2>2, <2>3, <2>4, <2>5, Zenon DEF Next
  <1>. QED
    BY <1>1, InitStream, PTL DEF Spec

\* The runs, the snapshots on their way, the registry with its numbers and its buffers, and the
\* subscribers of a run stream stay well formed: in particular no buffer exceeds its limit, and
\* only live updates ever wait for the timer of publish.
THEOREM StreamTypeCorrect == Spec => []TypeOK
  <1>1. StreamInv => TypeOK
    <2>. SUFFICES ASSUME StreamInv PROVE TypeOK
      OBVIOUS
    <2>1. /\ reg.seq \in Nat /\ reg.subscribers \subseteq Subscribers
          /\ \A r \in Runs : reg.runs[r] \in Entry \cup {None} /\ reg.pending[r] \in Frame \cup {None}
      BY DEF StreamInv, RegInv, Shape, Registry
    <2>2. \A r \in Runs :
             /\ Has(reg, r) => reg.runs[r] \in Entry /\ reg.runs[r].seq <= reg.seq
             /\ reg.pending[r] # None => reg.pending[r] \in Frame /\ ~Immediate(reg.pending[r])
      BY <2>1 DEF StreamInv, RegInv, Shape, Has, Immediate
    <2>3. \A s \in Subscribers : Len(reg.frames[s]) <= Buffer
      BY DEF StreamInv, RegInv, Shape
    <2>. QED
      BY <2>1, <2>2, <2>3, Zenon DEF StreamInv, ProducerInv, Histories, SubInv, TypeOK
  <1>. QED
    BY <1>1, StreamInvariance, PTL

\* A subscriber that emitLocked has not closed has every number up to the latest in its buffer,
\* and shows in the end what pruneLocked has kept of each run, whatever was published,
\* coalesced, pruned or expired since it subscribed.
THEOREM NothingIsMissed == Spec => []NothingMissed
  <1>1. StreamInv => NothingMissed
    <2>. SUFFICES ASSUME StreamInv, NEW s \in reg.subscribers
                  PROVE  /\ \A i \in DOMAIN reg.frames[s] :
                               reg.frames[s][i].seq = reg.seq - Len(reg.frames[s]) + i
                         /\ \A r \in Runs : Has(reg, r) => WillShow(s, r, Payload(reg.runs[r]))
      BY DEF NothingMissed
    <2>1. ServedOne(reg, s, shown[s])
      BY DEF StreamInv, RegInv, Served
    <2>2. \A r \in Runs : \A x : Ends(reg.frames[s], shown[s], r, x) => WillShow(s, r, x)
      BY DEF Ends, WillShow
    <2>. QED
      BY <2>1, <2>2 DEF ServedOne, Has
  <1>. QED
    BY <1>1, StreamInvariance, PTL

\* Once the done of a run has been published, no update that was late or coalesced makes the
\* retained entry live again.
THEOREM EndIsFinal == Spec => []EndedStaysEnded
  <1>1. StreamInv => EndedStaysEnded
    BY DEF StreamInv, Sealed, EndedStaysEnded
  <1>. QED
    BY <1>1, StreamInvariance, PTL

----------------------------------------------------------------------------
(* The inductive invariant of a delegate run.                              *)

\* The run is dirty exactly while emitTimer is set, and then a callback is to come.
TimerInv == (emitDirty <=> armed) /\ (armed => timers > 0)

\* exec has not begun before the run is registered and has sealed it when it is terminal;
\* a run is dirty only in between, no event comes first, and done comes last.
SealInv ==
    /\ pc = "none" <=> status = "none"
    /\ pc \in {"send", "emit", "deliver", "end"} <=> status \in Terminal
    /\ status \in Terminal => ~emitDirty
    /\ status = "none" => event = "none" /\ ~emitDirty
    /\ event = "done" => pc \in {"deliver", "end"}

\* The part of DelegateTypeOK about flags.
Flags ==
    /\ cancelled \in BOOLEAN /\ emitDirty \in BOOLEAN /\ armed \in BOOLEAN
    /\ beating \in BOOLEAN /\ delivered \in BOOLEAN

DelegateInv == DelegateTypeOK /\ TimerInv /\ SealInv /\ PendingHasTimer

\* The initial state satisfies the invariant.
LEMMA DelegateStarts == DelegateInit => DelegateInv
  <1>. SUFFICES ASSUME DelegateInit PROVE DelegateInv
    OBVIOUS
  <1>. Flags
    BY Zenon DEF DelegateInit, Flags
  <1>1. DelegateTypeOK
    BY DelegateAssumption DEF DelegateInit, Flags, DelegateTypeOK, Terminal
  <1>2. TimerInv
    BY DEF DelegateInit, TimerInv
  <1>3. SealInv
    BY DEF DelegateInit, SealInv, Terminal
  <1>4. PendingHasTimer
    BY DEF DelegateInit, PendingHasTimer
  <1>. QED
    BY <1>1, <1>2, <1>3, <1>4 DEF DelegateInv

----------------------------------------------------------------------------
(* What the helpers of the actions do.                                     *)

\* disarmDelegateEmitLocked leaves a clean run without a timer of its own.
LEMMA DisarmClean ==
  ASSUME DelegateTypeOK, TimerInv, Disarm
  PROVE  emitDirty' = FALSE /\ armed' = FALSE /\ timers' \in 0..MaxTimers
  BY DelegateAssumption DEF DelegateTypeOK, TimerInv, Disarm

\* updateActivity publishes and disarms a live run, and leaves an ended one alone.
LEMMA ActivityStep ==
  ASSUME DelegateTypeOK, TimerInv, UpdateActivity
  PROVE  /\ chunks' = chunks
         /\ \/ /\ Live /\ emitDirty' = FALSE /\ armed' = FALSE /\ timers' \in 0..MaxTimers
               /\ event' = "updated" /\ emitted' = chunks
            \/ ~Live /\ UNCHANGED <<emitDirty, armed, timers, event, emitted>>
  <1>1. CASE Live
    <2>1. Disarm /\ EmitRun("updated") /\ chunks' = chunks
      BY <1>1 DEF UpdateActivity
    <2>. QED
      BY <1>1, <2>1, DisarmClean DEF EmitRun
  <1>2. CASE ~Live
    BY <1>2 DEF UpdateActivity, timerVars, outVars
  <1>. QED
    BY <1>1, <1>2

----------------------------------------------------------------------------
(* Every step preserves the invariant.                                     *)

\* The steps of exec, from the registration of the run to the handing over of its result.
LEMMA ExecInv ==
  ASSUME DelegateInv, SpawnDelegate \/ Exec
  PROVE  DelegateInv'
  <1>. USE DelegateAssumption DEF DelegateInv
  <1>1. CASE SpawnDelegate
    BY <1>1 DEF SpawnDelegate, DelegateTypeOK, TimerInv, SealInv, PendingHasTimer, Terminal, timerVars,
                heartVars, outVars
  <1>2. CASE SpawnEmit
    <2>1. Flags'
      BY <1>2, Zenon DEF SpawnEmit, DelegateTypeOK, Flags, timerVars
    <2>. QED
      BY <1>2, <2>1 DEF SpawnEmit, EmitRun, Flags, DelegateTypeOK, TimerInv, SealInv, PendingHasTimer,
                        Terminal, timerVars
  <1>3. CASE Think
    <2>1. UpdateActivity /\ pc = "begin" /\ pc' = "turn"
          /\ UNCHANGED <<status, read, cancelled, heart, beating, ticks, done, delivered, call>>
      BY <1>3 DEF Think, heartVars
    <2>2. Flags'
      BY <2>1, ActivityStep, Zenon DEF DelegateTypeOK, Flags
    <2>. QED
      BY <2>1, <2>2, ActivityStep DEF Flags, DelegateTypeOK, TimerInv, SealInv, PendingHasTimer, Terminal, Live
  <1>4. CASE AttachWrite
    <2>1. Disarm /\ event' = "updated" /\ emitted' = chunks' /\ chunks' \in read /\ read' = {}
          /\ Live
          /\ UNCHANGED <<status, pc, cancelled, heart, beating, ticks, done, delivered, call>>
      BY <1>4 DEF AttachWrite, EmitRun, heartVars
    <2>2. Flags'
      BY <2>1, DisarmClean, Zenon DEF DelegateTypeOK, Flags
    <2>. QED
      BY <2>1, <2>2, DisarmClean DEF Flags, DelegateTypeOK, TimerInv, SealInv, PendingHasTimer, Terminal, Live
  <1>5. CASE TurnReturns
    <2>1. /\ pc = "turn" /\ pc' \in {"ok", "error"} /\ beating' = FALSE
          /\ UNCHANGED <<status, chunks, cancelled, read, emitDirty, armed, timers, heart, ticks,
                         done, event, emitted, delivered, call>>
      BY <1>5, Zenon DEF TurnReturns, runVars, timerVars, outVars
    <2>2. Flags'
      BY <2>1, Zenon DEF DelegateTypeOK, Flags
    <2>. QED
      BY <2>1, <2>2 DEF Flags, DelegateTypeOK, TimerInv, SealInv, PendingHasTimer, Terminal
  <1>6. CASE Finalizing
    <2>1. UpdateActivity /\ pc \in {"ok", "error"} /\ pc' \in {"seal", "seal_error"}
          /\ UNCHANGED <<status, read, cancelled, heart, beating, ticks, done, delivered, call>>
      BY <1>6 DEF Finalizing, heartVars
    <2>2. Flags'
      BY <2>1, ActivityStep, Zenon DEF DelegateTypeOK, Flags
    <2>. QED
      BY <2>1, <2>2, ActivityStep DEF Flags, DelegateTypeOK, TimerInv, SealInv, PendingHasTimer, Terminal, Live
  <1>7. CASE Seal
    <2>1. Disarm /\ pc \in {"seal", "seal_error"} /\ pc' = "send" /\ status' \in Terminal
          /\ chunks' \in 0..MaxChunks
          /\ UNCHANGED <<read, cancelled, heart, beating, ticks, done, event, emitted, delivered, call>>
      BY <1>7 DEF Seal, Outcome, Terminal, heartVars, outVars
    <2>2. Flags'
      BY <2>1, DisarmClean, Zenon DEF DelegateTypeOK, Flags
    <2>. QED
      BY ZenonT(60), <2>1, <2>2, DisarmClean DEF Flags, DelegateTypeOK, TimerInv, SealInv, PendingHasTimer, Terminal
  <1>8. CASE SendDone
    BY <1>8 DEF SendDone, DelegateTypeOK, TimerInv, SealInv, PendingHasTimer, Terminal, runVars, timerVars,
                heartVars, outVars
  <1>9. CASE EmitDone
    BY <1>9 DEF EmitDone, EmitRun, DelegateTypeOK, TimerInv, SealInv, PendingHasTimer, Terminal, timerVars,
                heartVars
  <1>10. CASE OnRunDone
    BY <1>10 DEF OnRunDone, DelegateTypeOK, TimerInv, SealInv, PendingHasTimer, Terminal, runVars,
                 timerVars, heartVars, outVars
  <1>. QED
    BY <1>1, <1>2, <1>3, <1>4, <1>5, <1>6, <1>7, <1>8, <1>9, <1>10 DEF Exec

\* The stream of the headless turn, the coalescing timer and the heartbeat.
LEMMA TranscriptInv ==
  ASSUME DelegateInv, AppendTranscript \/ AttachRead \/ FlushDelegateEmit \/ Heartbeat
  PROVE  DelegateInv'
  <1>. USE DelegateAssumption DEF DelegateInv
  <1>1. CASE AppendTranscript
    <2>1. Flags'
      BY <1>1, Zenon DEF AppendTranscript, ArmTimer, DelegateTypeOK, Flags, heartVars
    <2>. QED
      BY <1>1, <2>1 DEF AppendTranscript, ArmTimer, Flags, DelegateTypeOK, TimerInv, SealInv,
                        PendingHasTimer, Terminal, Live, heartVars, outVars
  <1>2. CASE AttachRead
    BY <1>2 DEF AttachRead, DelegateTypeOK, TimerInv, SealInv, PendingHasTimer, Terminal, runVars,
                timerVars, heartVars, outVars
  <1>3. CASE FlushDelegateEmit
    <2>1. Flags'
      BY <1>3, Zenon DEF FlushDelegateEmit, DelegateTypeOK, Flags, heartVars, outVars
    <2>. QED
      BY <1>3, <2>1 DEF FlushDelegateEmit, EmitRun, Flags, DelegateTypeOK, TimerInv, SealInv,
                        PendingHasTimer, Terminal, heartVars, outVars
  <1>4. CASE HeartTick
    BY <1>4 DEF HeartTick, DelegateTypeOK, TimerInv, SealInv, PendingHasTimer, Terminal, runVars,
                timerVars, outVars
  <1>5. CASE HeartBeat
    <2>1. UpdateActivity /\ heart' = "wait"
          /\ UNCHANGED <<status, pc, read, cancelled, beating, ticks, done, delivered, call>>
      BY <1>5 DEF HeartBeat
    <2>2. Flags'
      BY <2>1, ActivityStep, Zenon DEF DelegateTypeOK, Flags
    <2>. QED
      BY ZenonT(60), <2>1, <2>2, ActivityStep DEF Flags, DelegateTypeOK, TimerInv, SealInv, PendingHasTimer, Terminal, Live
  <1>6. CASE HeartStop
    BY <1>6 DEF HeartStop, DelegateTypeOK, TimerInv, SealInv, PendingHasTimer, Terminal, runVars,
                timerVars, outVars
  <1>. QED
    BY <1>1, <1>2, <1>3, <1>4, <1>5, <1>6 DEF Heartbeat

\* Callers of Wait and Stop, and Close.
LEMMA CallInv ==
  ASSUME DelegateInv,
         CloseRuntime \/ \E c \in Callers :
            WaitLook(c) \/ StopLook(c) \/ StopCancel(c) \/ Receive(c) \/ WaitExpires(c) \/ StopGivesUp(c)
  PROVE  DelegateInv'
  <1>. USE DEF DelegateInv
  <1>1. CASE CloseRuntime
    BY <1>1 DEF CloseRuntime, Live, DelegateTypeOK, TimerInv, SealInv, PendingHasTimer, Terminal, timerVars,
                heartVars, outVars
  <1>2. ASSUME NEW c \in Callers,
               WaitLook(c) \/ StopLook(c) \/ StopCancel(c) \/ Receive(c) \/ WaitExpires(c) \/ StopGivesUp(c)
        PROVE  DelegateInv'
    <2>1. /\ UNCHANGED <<status, chunks, pc, read, emitDirty, armed, timers, heart, beating, ticks,
                         event, emitted, delivered>>
          /\ cancelled' \in BOOLEAN /\ done' \in {done, "none"}
          /\ \E to \in {"waiting", "cancelling", "stopping", "received", "returned", "expired"} :
                call' = [call EXCEPT ![c] = to]
      BY <1>2 DEF WaitLook, StopLook, StopCancel, Receive, WaitExpires, StopGivesUp, Calling, runVars,
                  timerVars, heartVars, outVars, DelegateTypeOK, Live
    <2>. QED
      BY <2>1 DEF DelegateTypeOK, TimerInv, SealInv, PendingHasTimer, Terminal
  <1>. QED
    BY <1>1, <1>2

\* A step that changes nothing.
LEMMA DelegateStutter == DelegateInv /\ UNCHANGED delegateVars => DelegateInv'
  BY DEF delegateVars, DelegateInv, DelegateTypeOK, TimerInv, SealInv, PendingHasTimer, Terminal

\* The invariant holds in every reachable state.
LEMMA DelegateInvariance == DelegateSpec => []DelegateInv
  <1>1. DelegateInv /\ [DelegateNext]_delegateVars => DelegateInv'
    BY ExecInv, TranscriptInv, CallInv, DelegateStutter DEF DelegateNext
  <1>. QED
    BY <1>1, DelegateStarts, PTL DEF DelegateSpec

----------------------------------------------------------------------------
(* The theorems about a delegate run.                                      *)

\* The state of the run, its timer, its heartbeat and its callers stays well formed; the
\* count of callbacks to come never goes below zero.
THEOREM DelegateTypeCorrect == DelegateSpec => []DelegateTypeOK
  <1>1. DelegateInv => DelegateTypeOK
    BY DEF DelegateInv
  <1>. QED
    BY <1>1, DelegateInvariance, PTL

\* Whatever appendTranscript, the refreshes of attachConversation, the heartbeat and late
\* callbacks do in between: a live run whose transcript has not been shown is dirty, and a
\* callback of flushDelegateEmit is still to come.
THEOREM PendingAlways == DelegateSpec => []PendingHasTimer
  <1>1. DelegateInv => PendingHasTimer
    BY DEF DelegateInv
  <1>. QED
    BY <1>1, DelegateInvariance, PTL

\* Behind the done event of finish nothing is published for the run.
THEOREM DoneStaysLast == DelegateSpec => DoneIsLast
  <1>1. DelegateInv /\ [DelegateNext]_delegateVars => (event = "done" => UNCHANGED outVars)
    <2>. SUFFICES ASSUME DelegateInv, [DelegateNext]_delegateVars, event = "done"
                  PROVE  UNCHANGED outVars
      OBVIOUS
    <2>1. pc \in {"deliver", "end"} /\ ~Live /\ ~emitDirty
      BY DEF DelegateInv, SealInv, TimerInv, Terminal, Live
    <2>2. CASE UNCHANGED delegateVars
      BY <2>2 DEF delegateVars, outVars
    <2>3. CASE SpawnDelegate \/ Exec
      BY <2>1, <2>3 DEF SpawnDelegate, Exec, SpawnEmit, Think, AttachWrite, TurnReturns, Finalizing,
                        Seal, SendDone, EmitDone, OnRunDone, Live
    <2>4. CASE AppendTranscript \/ AttachRead \/ FlushDelegateEmit \/ Heartbeat
      BY <2>1, <2>4 DEF AppendTranscript, AttachRead, FlushDelegateEmit, Heartbeat, HeartTick,
                        HeartBeat, HeartStop, UpdateActivity, outVars
    <2>5. CASE CloseRuntime
      BY <2>5 DEF CloseRuntime
    <2>6. CASE \E c \in Callers :
                 WaitLook(c) \/ StopLook(c) \/ StopCancel(c) \/ Receive(c) \/ WaitExpires(c) \/ StopGivesUp(c)
      BY <2>6 DEF WaitLook, StopLook, StopCancel, Receive, WaitExpires, StopGivesUp
    <2>. QED
      BY <2>2, <2>3, <2>4, <2>5, <2>6 DEF DelegateNext
  <1>. QED
    BY <1>1, DelegateInvariance, PTL DEF DelegateSpec, DoneIsLast
============================================================================

------------------------ MODULE ConcurrencyKeyProofs ------------------------
(***************************************************************************)
(* Proofs about ConcurrencyKey for every set of runs, every mix of         *)
(* policies, every queue cap and every number of faults, cancels and       *)
(* crashes, whether triggers arrive one at a time or race each other: a    *)
(* waiter that was given up never executes (AbandonedStaysOut), and a      *)
(* waiter that was not woken keeps its place in the line (NoWaiterLost).   *)
(***************************************************************************)
EXTENDS ConcurrencyKey, SequenceTheorems, TLAPS

----------------------------------------------------------------------------
(* The inductive invariant of the queue.                                   *)

Queued(r) == \E i \in 1..Len(queue) : queue[i] = r

\* A run is in the queue at most once.
QueuedOnce == \A i, j \in 1..Len(queue) : queue[i] = queue[j] => i = j

\* A popped run is signalled by one release.
PoppedOnce ==
    \A s \in Runs : rel[s].pc = "signal" =>
        /\ rel[s].next \in Runs
        /\ \A t \in Runs : rel[t].pc = "signal" /\ rel[t].next = rel[s].next => s = t

\* What the position of a run's starter and waiter says about the run.  A run is queued,
\* popped or given up only while nothing has started it; a run is signalled after it was
\* popped, and not while it sits in a select that could still choose to give up.
WaitInv ==
    \A r \in Runs :
        /\ starter[r].pc # "done" => waiter[r] = "none" /\ exec[r] = "none"
        /\ starter[r].pc \notin {"create", "done"} => r \notin held
        /\ waiter[r] # "none" => exec[r] = "none" /\ r \notin held
        /\ Queued(r) \/ Popped(r) \/ r \in gaveUp =>
              /\ starter[r].pc \in {"createQueued", "done"}
              /\ waiter[r] \in {"none", "await", "remove", "skip"}
              /\ exec[r] = "none" /\ r \notin held
        /\ r \in ready => starter[r].pc \in {"createQueued", "done"} /\ ~Queued(r) /\ ~Popped(r)
        /\ r \in ready \cap gaveUp => starter[r].pc = "done" /\ waiter[r] # "await"
        /\ Queued(r) => ~Popped(r)

KeyInv == TypeOK /\ QueuedOnce /\ PoppedOnce /\ WaitInv

----------------------------------------------------------------------------
(* The inductive invariant of the line of waiters, on top of KeyInv.       *)

\* Only a run whose starter is done is stored or has a caller of Cancel.
StoredDone(r) == status[r] # "absent" \/ caller[r] # "none" => starter[r].pc = "done"

\* A trigger deals with a holder it has read; the holder it replaces has been started.
HolderKnown(r) ==
    /\ starter[r].pc \in {"holder", "detach", "detachRow", "cancel", "cancelled"} => starter[r].active \in Runs
    /\ starter[r].pc \in {"detach", "detachRow", "cancel", "cancelled"}
         => starter[starter[r].active].pc = "done"

\* The release of a run comes after everything else that deals with it, and comes once.
ReleaseLast(r) == rel[r].pc # "none" => starter[r].pc = "done" /\ waiter[r] = "none" /\ r \notin held

\* A run that is to wait is in the queue until it is popped, woken or given up.
InLine(r) ==
    starter[r].pc = "createQueued" \/ waiter[r] = "await" => Queued(r) \/ Popped(r) \/ r \in ready \cup gaveUp

LineInv == \A r \in Runs : StoredDone(r) /\ HolderKnown(r) /\ ReleaseLast(r) /\ InLine(r)

----------------------------------------------------------------------------
(* What the operations do to the queue.                                    *)

\* Taking the element at i out of a sequence closes the gap.
LEMMA RemoveAtFacts ==
  ASSUME NEW S, NEW q \in Seq(S), NEW i \in 1..Len(q)
  PROVE  /\ RemoveAt(q, i) \in Seq(S) /\ Len(RemoveAt(q, i)) = Len(q) - 1
         /\ \A k \in 1..Len(q) - 1 : RemoveAt(q, i)[k] = IF k < i THEN q[k] ELSE q[k + 1]
  <1>. DEFINE a == SubSeq(q, 1, i - 1)
              b == SubSeq(q, i + 1, Len(q))
  <1>1. Len(q) \in Nat /\ \A k \in 1..Len(q) : q[k] \in S
    BY LenProperties, ElementOfSeq
  <1>2. /\ a \in Seq(S) /\ Len(a) = i - 1
        /\ \A k \in 1..i - 1 : a[k] = q[k]
    <2>1. \A k \in 1..i - 1 : q[k] \in S
      BY <1>1
    <2>2. /\ a \in Seq(S) /\ Len(a) = IF 1 <= i - 1 THEN i - 1 - 1 + 1 ELSE 0
          /\ \A k \in 1..i - 1 - 1 + 1 : a[k] = q[1 + k - 1]
      BY <2>1, SubSeqProperties
    <2>. QED
      BY <1>1, <2>2
  <1>3. /\ b \in Seq(S) /\ Len(b) = Len(q) - i
        /\ \A k \in 1..Len(q) - i : b[k] = q[i + k]
    <2>1. \A k \in i + 1..Len(q) : q[k] \in S
      BY <1>1
    <2>2. /\ b \in Seq(S) /\ Len(b) = IF i + 1 <= Len(q) THEN Len(q) - (i + 1) + 1 ELSE 0
          /\ \A k \in 1..Len(q) - (i + 1) + 1 : b[k] = q[i + 1 + k - 1]
      BY <1>1, <2>1, SubSeqProperties
    <2>. QED
      BY <1>1, <2>2
  <1>4. /\ a \o b \in Seq(S) /\ Len(a \o b) = Len(a) + Len(b)
        /\ \A k \in 1..Len(a) + Len(b) : (a \o b)[k] = IF k <= Len(a) THEN a[k] ELSE b[k - Len(a)]
    BY <1>2, <1>3, ConcatProperties
  <1>5. RemoveAt(q, i) = a \o b
    BY DEF RemoveAt
  <1>. HIDE DEF a, b
  <1>6. RemoveAt(q, i) \in Seq(S) /\ Len(RemoveAt(q, i)) = Len(q) - 1
    BY <1>1, <1>2, <1>3, <1>4, <1>5
  <1>7. ASSUME NEW k \in 1..Len(q) - 1
        PROVE  RemoveAt(q, i)[k] = IF k < i THEN q[k] ELSE q[k + 1]
    <2>1. CASE k < i
      <3>1. k \in 1..i - 1 /\ k <= Len(a) /\ k \in 1..Len(a) + Len(b)
        BY <1>1, <1>2, <1>3, <2>1
      <3>. QED
        BY <1>2, <1>4, <1>5, <2>1, <3>1
    <2>2. CASE ~(k < i)
      <3>1. k - (i - 1) \in 1..Len(q) - i /\ ~(k <= Len(a)) /\ k \in 1..Len(a) + Len(b)
        BY <1>1, <1>2, <1>3, <2>2
      <3>2. (a \o b)[k] = b[k - (i - 1)] /\ b[k - (i - 1)] = q[i + (k - (i - 1))]
        BY <1>2, <1>3, <1>4, <3>1
      <3>3. i + (k - (i - 1)) = k + 1
        OBVIOUS
      <3>. QED
        BY <1>5, <2>2, <3>2, <3>3
    <2>. QED
      BY <2>1, <2>2
  <1>. QED
    BY <1>6, <1>7

\* removeWaiterLocked takes the run off the queue and keeps everybody else.
LEMMA RemoveFacts ==
  ASSUME TypeOK, QueuedOnce, NEW r, RemoveWaiter(r)
  PROVE  /\ queue' \in Seq(Runs) /\ Len(queue') <= Len(queue)
         /\ \A x : Queued(x)' <=> Queued(x) /\ x # r
         /\ QueuedOnce'
  <1>1. queue \in Seq(Runs) /\ Len(queue) \in Nat
    BY LenProperties DEF TypeOK
  <1>2. CASE ~Queued(r)
    BY <1>1, <1>2 DEF RemoveWaiter, Contains, Queued, QueuedOnce
  <1>3. CASE Queued(r)
    <2>. DEFINE i == CHOOSE n \in 1..Len(queue) : queue[n] = r
    <2>1. i \in 1..Len(queue) /\ queue[i] = r /\ queue' = RemoveAt(queue, i)
      BY <1>3 DEF RemoveWaiter, Contains, Queued
    <2>. HIDE DEF i
    <2>2. /\ queue' \in Seq(Runs) /\ Len(queue') = Len(queue) - 1
          /\ \A k \in 1..Len(queue) - 1 : queue'[k] = IF k < i THEN queue[k] ELSE queue[k + 1]
      BY <1>1, <2>1, RemoveAtFacts
    <2>3. QueuedOnce'
      BY <1>1, <2>1, <2>2 DEF QueuedOnce
    <2>4. ASSUME NEW x, Queued(x)'
          PROVE  Queued(x) /\ x # r
      <3>1. PICK k \in 1..Len(queue) - 1 : queue'[k] = x
        BY <2>2, <2>4 DEF Queued
      <3>2. CASE k < i
        BY SMTT(60), <1>1, <2>1, <2>2, <3>1, <3>2 DEF Queued, QueuedOnce
      <3>3. CASE ~(k < i)
        <4>1. k + 1 \in 1..Len(queue) /\ queue[k + 1] = x /\ k + 1 # i
          BY <1>1, <2>1, <2>2, <3>1, <3>3
        <4>. QED
          BY <2>1, <4>1 DEF Queued, QueuedOnce
      <3>. QED
        BY <3>2, <3>3
    <2>5. ASSUME NEW x, Queued(x), x # r
          PROVE  Queued(x)'
      <3>1. PICK k \in 1..Len(queue) : queue[k] = x
        BY <2>5 DEF Queued
      <3>2. CASE k < i
        <4>1. k \in 1..Len(queue) - 1 /\ queue'[k] = x
          BY <1>1, <2>1, <2>2, <3>1, <3>2
        <4>. QED
          BY <2>2, <4>1 DEF Queued
      <3>3. CASE ~(k < i)
        <4>1. k # i
          BY <2>1, <2>5, <3>1
        <4>2. k - 1 \in 1..Len(queue) - 1 /\ queue'[k - 1] = x
          BY <1>1, <2>1, <2>2, <3>1, <3>3, <4>1
        <4>. QED
          BY <2>2, <4>2 DEF Queued
      <3>. QED
        BY <3>2, <3>3
    <2>. QED
      BY <1>1, <2>2, <2>3, <2>4, <2>5
  <1>. QED
    BY <1>2, <1>3

\* enqueueWaiterLocked adds one run, once if it was not there.
LEMMA PushFacts ==
  ASSUME TypeOK, QueuedOnce, NEW r \in Runs, Push(r), ~Queued(r)
  PROVE  /\ queue' \in Seq(Runs) /\ Len(queue') = Len(queue) + 1
         /\ \A x : Queued(x)' <=> Queued(x) \/ x = r
         /\ QueuedOnce'
  <1>1. queue \in Seq(Runs) /\ Len(queue) \in Nat
    BY LenProperties DEF TypeOK
  <1>2. /\ queue' \in Seq(Runs) /\ Len(queue') = Len(queue) + 1
        /\ \A i \in 1..Len(queue) : queue'[i] = queue[i]
        /\ queue'[Len(queue) + 1] = r
    BY <1>1, AppendProperties DEF Push
  <1>3. \A x : Queued(x)' <=> Queued(x) \/ x = r
    BY <1>1, <1>2 DEF Queued
  <1>4. QueuedOnce'
    BY <1>1, <1>2 DEF QueuedOnce, Queued
  <1>. QED
    BY <1>2, <1>3, <1>4

\* wakeNextWaiter takes the first run off.
LEMMA PopFacts ==
  ASSUME TypeOK, QueuedOnce, queue # <<>>, queue' = Tail(queue)
  PROVE  /\ queue' \in Seq(Runs) /\ Len(queue') = Len(queue) - 1
         /\ Head(queue) \in Runs /\ Queued(Head(queue))
         /\ \A x : Queued(x)' <=> Queued(x) /\ x # Head(queue)
         /\ QueuedOnce'
  <1>1. queue \in Seq(Runs) /\ Len(queue) \in Nat \ {0}
    BY EmptySeq DEF TypeOK
  <1>2. /\ queue' \in Seq(Runs) /\ Len(queue') = Len(queue) - 1 /\ Head(queue) \in Runs
        /\ \A i \in 1..Len(queue') : queue'[i] = queue[i + 1]
    BY <1>1, HeadTailProperties
  <1>3. Head(queue) = queue[1]
    BY <1>1
  <1>4. ASSUME NEW x
        PROVE  Queued(x)' <=> Queued(x) /\ x # Head(queue)
    <2>1. ASSUME Queued(x)' PROVE Queued(x) /\ x # Head(queue)
      <3>1. PICK k \in 1..Len(queue') : queue'[k] = x
        BY <2>1 DEF Queued
      <3>2. k + 1 \in 1..Len(queue) /\ 1 \in 1..Len(queue) /\ queue[k + 1] = x /\ k + 1 # 1
        BY <1>1, <1>2, <3>1
      <3>. QED
        BY <1>3, <3>2 DEF Queued, QueuedOnce
    <2>2. ASSUME Queued(x), x # Head(queue) PROVE Queued(x)'
      <3>1. PICK k \in 1..Len(queue) : queue[k] = x
        BY <2>2 DEF Queued
      <3>2. k - 1 \in 1..Len(queue') /\ queue'[k - 1] = x
        BY <1>1, <1>2, <1>3, <2>2, <3>1
      <3>. QED
        BY <3>2 DEF Queued
    <2>. QED
      BY <2>1, <2>2
  <1>5. QueuedOnce'
    BY <1>1, <1>2 DEF QueuedOnce
  <1>6. Queued(Head(queue))
    BY <1>1, <1>3 DEF Queued
  <1>. QED
    BY <1>2, <1>4, <1>5, <1>6

\* A step that leaves the queue alone.
LEMMA SameQueue ==
  ASSUME TypeOK, QueuedOnce, UNCHANGED queue
  PROVE  /\ queue' \in Seq(Runs) /\ Len(queue') = Len(queue)
         /\ \A x : Queued(x)' <=> Queued(x)
         /\ QueuedOnce'
  BY DEF TypeOK, Queued, QueuedOnce

----------------------------------------------------------------------------
(* What the operations do to the other variables.                          *)

LEMMA SpendFacts ==
  ASSUME budget \in BudgetRec, NEW what \in {"faults", "cancels", "crashes"}, Spend(what)
  PROVE  /\ budget' \in BudgetRec
         /\ budget'.faults = IF what = "faults" THEN budget.faults - 1 ELSE budget.faults
  BY DEF Spend, BudgetRec

\* A starter moves to another line; nothing else about it changes.
LEMMA GoesFacts ==
  ASSUME TypeOK, NEW r \in Runs, NEW pc \in StarterPC, Goes(r, pc)
  PROVE  /\ starter' \in [Runs -> StarterRec]
         /\ starter'[r].pc = pc
         /\ starter'[r].policy = starter[r].policy /\ starter'[r].active = starter[r].active
         /\ \A s \in Runs : s # r => starter'[s] = starter[s]
  <1>1. starter \in [Runs -> StarterRec]
    BY DEF TypeOK
  <1>. DEFINE x == [starter[r] EXCEPT !.pc = pc]
  <1>2. x \in StarterRec /\ x.pc = pc /\ x.policy = starter[r].policy /\ x.active = starter[r].active
    BY <1>1 DEF StarterRec
  <1>3. starter' = [starter EXCEPT ![r] = x]
    BY DEF Goes
  <1>. HIDE DEF x
  <1>. QED
    BY <1>1, <1>2, <1>3

\* The lines of startUnderConcurrency.
LEMMA StarterLines ==
  \A pc \in {"idle", "inspect", "holder", "heal", "detach", "detachRow", "cancel", "cancelled",
             "free", "acquire", "track", "create", "enqueue", "overflow", "createQueued", "done"} :
      pc \in StarterPC
  BY DEF StarterPC

\* A release moves to another line.
LEMMA RelFacts ==
  ASSUME TypeOK, NEW r \in Runs, NEW pc \in {"none", "row", "wake", "signal"},
         rel' = [rel EXCEPT ![r].pc = pc]
  PROVE  /\ rel' \in [Runs -> ReleaseRec]
         /\ rel'[r].pc = pc /\ \A s \in Runs : s # r => rel'[s] = rel[s]
  <1>1. rel \in [Runs -> ReleaseRec]
    BY DEF TypeOK
  <1>. DEFINE x == [rel[r] EXCEPT !.pc = pc]
  <1>2. x \in ReleaseRec /\ x.pc = pc
    BY <1>1 DEF ReleaseRec
  <1>3. rel' = [rel EXCEPT ![r] = x]
    OBVIOUS
  <1>. HIDE DEF x
  <1>. QED
    BY <1>1, <1>2, <1>3

\* A release that begins takes the run off heldLocks and turns to the row.
LEMMA BeginReleaseFacts ==
  ASSUME TypeOK, NEW r, BeginRelease(r)
  PROVE  /\ held' \subseteq held /\ rel' \in [Runs -> ReleaseRec]
         /\ \A s \in Runs : rel'[s] # rel[s] => s = r /\ r \in held /\ rel'[s].pc = "row"
  <1>1. CASE r \in held
    <2>1. r \in Runs /\ held' \subseteq held /\ rel' = [rel EXCEPT ![r].pc = "row"]
      BY <1>1 DEF BeginRelease, TypeOK
    <2>2. /\ rel' \in [Runs -> ReleaseRec]
          /\ rel'[r].pc = "row" /\ \A s \in Runs : s # r => rel'[s] = rel[s]
      BY <2>1, RelFacts
    <2>. QED
      BY <1>1, <2>1, <2>2
  <1>2. CASE r \notin held
    BY <1>2 DEF BeginRelease, TypeOK
  <1>. QED
    BY <1>1, <1>2

LEMMA TryReleaseFacts ==
  ASSUME TypeOK, NEW r, TryReleaseRow(r)
  PROVE  /\ row' \in {row, NoRun} /\ budget' \in BudgetRec
         /\ \/ budget'.faults = budget.faults /\ row' = IF row = r THEN NoRun ELSE row
            \/ budget'.faults = budget.faults - 1
  <1>1. CASE ReleaseRow(r) /\ UNCHANGED budget
    BY <1>1 DEF ReleaseRow, TypeOK
  <1>2. CASE Spend("faults") /\ UNCHANGED row
    <2>1. budget \in BudgetRec
      BY DEF TypeOK
    <2>. QED
      BY <1>2, <2>1, SpendFacts
  <1>. QED
    BY <1>1, <1>2 DEF TryReleaseRow

\* Only a queued run is abandoned.
LEMMA AbandonFacts ==
  ASSUME TypeOK, QueuedOnce, NEW r, Abandon(r)
  PROVE  /\ queue' \in Seq(Runs) /\ Len(queue') <= Len(queue)
         /\ \A x : Queued(x)' <=> Queued(x) /\ x # r
         /\ QueuedOnce'
         /\ gaveUp' \subseteq Runs
         /\ \A x : x \in gaveUp' <=> x \in gaveUp \/ (x = r /\ Queued(x))
  <1>1. RemoveWaiter(r) /\ gaveUp' = IF Queued(r) THEN gaveUp \cup {r} ELSE gaveUp
    BY DEF Abandon, Contains, Queued
  <1>2. Queued(r) => r \in Runs
    BY ElementOfSeq DEF Queued, TypeOK
  <1>. QED
    BY <1>1, <1>2, RemoveFacts DEF TypeOK

\* What is popped follows the releases.
LEMMA SameRel ==
  ASSUME PoppedOnce, UNCHANGED rel
  PROVE  PoppedOnce' /\ \A x : Popped(x)' <=> Popped(x)
  BY DEF PoppedOnce, Popped

\* A release that moves to a line other than the signal pops nobody.
LEMMA OtherRel ==
  ASSUME PoppedOnce,
         \A s \in Runs : rel'[s] # rel[s] => rel'[s].pc # "signal"
  PROVE  PoppedOnce' /\ \A x : Popped(x)' => Popped(x)
  BY DEF PoppedOnce, Popped

----------------------------------------------------------------------------
(* The steps of startUnderConcurrency preserve the invariant.              *)

\* The starter of r moves on before it has queued or created the run: nobody waits for r.
LEMMA MovesOn ==
  ASSUME KeyInv, TypeOK', NEW r \in Runs, starter[r].pc \notin {"create", "createQueued", "done"},
         \A s \in Runs : s # r => starter'[s] = starter[s],
         UNCHANGED <<memory, waiter, exec, rel>>
  PROVE  KeyInv'
  <1>1. /\ QueuedOnce' /\ PoppedOnce'
        /\ \A x : Queued(x)' <=> Queued(x)
        /\ \A x : Popped(x)' <=> Popped(x)
    BY SameQueue, SameRel DEF KeyInv, memory
  <1>2. WaitInv'
    BY <1>1 DEF KeyInv, WaitInv, memory
  <1>. QED
    BY <1>1, <1>2 DEF KeyInv

LEMMA StartKeeps ==
  ASSUME KeyInv, NEW r \in Runs, Start(r)
  PROVE  KeyInv'
  <1>1. /\ starter' \in [Runs -> StarterRec]
        /\ \A s \in Runs : s # r => starter'[s] = starter[s]
    BY GoesFacts, StarterLines DEF KeyInv, Start
  <1>2. TypeOK'
    BY <1>1 DEF KeyInv, Start, TypeOK, memory
  <1>. QED
    BY <1>1, <1>2, MovesOn DEF Start, At

LEMMA InspectKeeps ==
  ASSUME KeyInv, NEW r \in Runs, Inspect(r)
  PROVE  KeyInv'
  <1>0. TypeOK /\ starter \in [Runs -> StarterRec] /\ row \in Runs \cup {NoRun} /\ budget \in BudgetRec
    BY DEF KeyInv, TypeOK
  <1>1. /\ starter' \in [Runs -> StarterRec] /\ budget' \in BudgetRec
        /\ \A s \in Runs : s # r => starter'[s] = starter[s]
    <2>1. CASE Spend("faults") /\ Goes(r, "done")
      BY <1>0, <2>1, SpendFacts, GoesFacts, StarterLines
    <2>2. CASE /\ starter' = [starter EXCEPT ![r].pc = IF row = NoRun THEN "acquire" ELSE "holder",
                                             ![r].active = row]
               /\ UNCHANGED budget
      <3>. DEFINE y == [starter[r] EXCEPT !.pc = IF row = NoRun THEN "acquire" ELSE "holder",
                                          !.active = row]
      <3>1. y \in StarterRec
        BY <1>0 DEF StarterRec, StarterPC
      <3>2. starter' = [starter EXCEPT ![r] = y]
        BY <1>0, <2>2
      <3>. HIDE DEF y
      <3>. QED
        BY ZenonT(60), <1>0, <2>2, <3>1, <3>2
    <2>. QED
      BY <2>1, <2>2 DEF Inspect
  <1>2. TypeOK'
    BY <1>0, <1>1 DEF Inspect, TypeOK, memory
  <1>. QED
    BY <1>1, <1>2, MovesOn DEF Inspect, At

LEMMA CheckHolderKeeps ==
  ASSUME KeyInv, NEW r \in Runs, CheckHolder(r)
  PROVE  KeyInv'
  <1>0. TypeOK /\ starter \in [Runs -> StarterRec] /\ budget \in BudgetRec
    BY DEF KeyInv, TypeOK
  <1>1. starter[r].policy \in {"skip", "queue", "replace"}
    BY <1>0, KeyAssumption DEF StarterRec
  <1>2. /\ budget' \in BudgetRec
        /\ \E pc \in {"heal", "done", "detach", "enqueue"} : Goes(r, pc)
    BY <1>0, <1>1, SpendFacts DEF CheckHolder
  <1>3. /\ starter' \in [Runs -> StarterRec]
        /\ \A s \in Runs : s # r => starter'[s] = starter[s]
    BY <1>0, <1>2, GoesFacts, StarterLines
  <1>4. TypeOK'
    BY <1>0, <1>2, <1>3 DEF CheckHolder, TypeOK, memory
  <1>. QED
    BY <1>3, <1>4, MovesOn DEF CheckHolder, At

\* Heal, DetachRow and Free give the row of the holder up.
LEMMA GivesRowUpKeeps ==
  ASSUME KeyInv, NEW r \in Runs, Heal(r) \/ DetachRow(r) \/ Free(r)
  PROVE  KeyInv'
  <1>0. TypeOK
    BY DEF KeyInv
  <1>1. /\ At(r, "heal") \/ At(r, "detachRow") \/ At(r, "free")
        /\ TryReleaseRow(starter[r].active)
        /\ \E pc \in {"acquire", "cancel"} : Goes(r, pc)
        /\ UNCHANGED <<status, memory, waiter, exec, rel, caller>>
    BY DEF Heal, DetachRow, Free
  <1>2. row' \in Runs \cup {NoRun} /\ budget' \in BudgetRec
    BY <1>0, <1>1, TryReleaseFacts DEF TypeOK
  <1>3. /\ starter' \in [Runs -> StarterRec]
        /\ \A s \in Runs : s # r => starter'[s] = starter[s]
    BY <1>0, <1>1, GoesFacts, StarterLines
  <1>4. TypeOK'
    BY <1>0, <1>1, <1>2, <1>3 DEF TypeOK, memory
  <1>. QED
    BY <1>1, <1>3, <1>4, MovesOn DEF At

LEMMA AcquireKeeps ==
  ASSUME KeyInv, NEW r \in Runs, Acquire(r)
  PROVE  KeyInv'
  <1>0. TypeOK /\ budget \in BudgetRec
    BY DEF KeyInv, TypeOK
  <1>1. row' \in Runs \cup {NoRun} /\ budget' \in BudgetRec /\ \E pc \in {"track", "done"} : Goes(r, pc)
    BY <1>0, SpendFacts DEF Acquire, AcquireRow, TypeOK
  <1>2. /\ starter' \in [Runs -> StarterRec]
        /\ \A s \in Runs : s # r => starter'[s] = starter[s]
    BY <1>0, <1>1, GoesFacts, StarterLines
  <1>3. TypeOK'
    BY <1>0, <1>1, <1>2 DEF Acquire, TypeOK, memory
  <1>. QED
    BY <1>2, <1>3, MovesOn DEF Acquire, At

LEMMA OverflowKeeps ==
  ASSUME KeyInv, NEW r \in Runs, Overflow(r)
  PROVE  KeyInv'
  <1>0. TypeOK /\ budget \in BudgetRec
    BY DEF KeyInv, TypeOK
  <1>1. status' \in [Runs -> {"absent", "live", "ended"}] /\ budget' \in BudgetRec
    BY <1>0, SpendFacts DEF Overflow, TypeOK
  <1>2. /\ starter' \in [Runs -> StarterRec]
        /\ \A s \in Runs : s # r => starter'[s] = starter[s]
    BY <1>0, GoesFacts, StarterLines DEF Overflow
  <1>3. TypeOK'
    BY <1>0, <1>1, <1>2 DEF Overflow, TypeOK, memory
  <1>. QED
    BY <1>2, <1>3, MovesOn DEF Overflow, At

\* detachConcurrencyLock takes the holder off heldLocks.
LEMMA DetachKeeps ==
  ASSUME KeyInv, NEW r \in Runs, Detach(r)
  PROVE  KeyInv'
  <1>0. TypeOK
    BY DEF KeyInv
  <1>1. At(r, "detach") /\ held' \subseteq held /\ \E pc \in {"detachRow", "cancel"} : Goes(r, pc)
    BY DEF Detach
  <1>2. /\ starter' \in [Runs -> StarterRec] /\ starter'[r].pc \in {"detachRow", "cancel"}
        /\ \A s \in Runs : s # r => starter'[s] = starter[s]
    BY <1>0, <1>1, GoesFacts, StarterLines
  <1>3. TypeOK'
    BY <1>0, <1>1, <1>2 DEF Detach, TypeOK
  <1>4. /\ QueuedOnce' /\ PoppedOnce'
        /\ \A x : Queued(x)' <=> Queued(x)
        /\ \A x : Popped(x)' <=> Popped(x)
    BY SameQueue, SameRel DEF KeyInv, Detach
  <1>5. WaitInv'
    BY <1>1, <1>2, <1>4 DEF KeyInv, WaitInv, Detach, At
  <1>. QED
    BY <1>3, <1>4, <1>5 DEF KeyInv

\* Replace gives the holder up if it is still queued, and nobody else.
LEMMA ReplaceCancelKeeps ==
  ASSUME KeyInv, NEW r \in Runs, ReplaceCancel(r)
  PROVE  KeyInv'
  <1>. DEFINE a == starter[r].active
  <1>0. TypeOK /\ QueuedOnce
    BY DEF KeyInv
  <1>1. At(r, "cancel") /\ Goes(r, "cancelled") /\ Abandon(a)
    BY DEF ReplaceCancel
  <1>. HIDE DEF a
  <1>2. /\ starter' \in [Runs -> StarterRec] /\ starter'[r].pc = "cancelled"
        /\ \A s \in Runs : s # r => starter'[s] = starter[s]
    BY <1>0, <1>1, GoesFacts, StarterLines
  <1>3. /\ queue' \in Seq(Runs) /\ Len(queue') <= Len(queue)
        /\ \A x : Queued(x)' <=> Queued(x) /\ x # a
        /\ QueuedOnce'
        /\ gaveUp' \subseteq Runs
        /\ \A x : x \in gaveUp' <=> x \in gaveUp \/ (x = a /\ Queued(x))
    BY <1>0, <1>1, AbandonFacts
  <1>4. TypeOK'
    BY <1>0, <1>2, <1>3 DEF ReplaceCancel, TypeOK
  <1>5. PoppedOnce' /\ \A x : Popped(x)' <=> Popped(x)
    BY SameRel DEF KeyInv, ReplaceCancel
  <1>6. WaitInv'
    BY <1>1, <1>2, <1>3, <1>5 DEF KeyInv, WaitInv, ReplaceCancel, At
  <1>. QED
    BY <1>3, <1>4, <1>5, <1>6 DEF KeyInv

\* Cancel of the holder is stored, and its release begins.
LEMMA ReplaceCancelledKeeps ==
  ASSUME KeyInv, NEW r \in Runs, ReplaceCancelled(r)
  PROVE  KeyInv'
  <1>. DEFINE a == starter[r].active
  <1>0. TypeOK /\ budget \in BudgetRec /\ QueuedOnce /\ PoppedOnce
    BY DEF KeyInv, TypeOK
  <1>1. /\ At(r, "cancelled")
        /\ UNCHANGED <<row, queue, ready, gaveUp, waiter, exec, caller>>
        /\ \/ status' = [status EXCEPT ![a] = "ended"] /\ BeginRelease(a) /\ Goes(r, "free") /\ UNCHANGED budget
           \/ Spend("faults") /\ Goes(r, "done") /\ UNCHANGED <<status, held, rel>>
    BY DEF ReplaceCancelled
  <1>. HIDE DEF a
  <1>2. /\ starter' \in [Runs -> StarterRec] /\ starter'[r].pc \in {"free", "done"}
        /\ \A s \in Runs : s # r => starter'[s] = starter[s]
    BY <1>0, <1>1, GoesFacts, StarterLines
  <1>3. /\ held' \subseteq held /\ rel' \in [Runs -> ReleaseRec]
        /\ \A s \in Runs : rel'[s] # rel[s] => rel'[s].pc # "signal"
    BY <1>0, <1>1, BeginReleaseFacts DEF TypeOK
  <1>4. status' \in [Runs -> {"absent", "live", "ended"}] /\ budget' \in BudgetRec
    BY <1>0, <1>1, SpendFacts DEF TypeOK
  <1>5. TypeOK'
    BY <1>0, <1>1, <1>2, <1>3, <1>4 DEF TypeOK
  <1>6. /\ QueuedOnce' /\ PoppedOnce'
        /\ \A x : Queued(x)' <=> Queued(x)
        /\ \A x : Popped(x)' => Popped(x)
    BY <1>0, <1>1, <1>3, SameQueue, OtherRel DEF KeyInv
  <1>7. WaitInv'
    BY <1>1, <1>2, <1>3, <1>6 DEF KeyInv, WaitInv, At
  <1>. QED
    BY <1>5, <1>6, <1>7 DEF KeyInv

LEMMA TrackKeeps ==
  ASSUME KeyInv, NEW r \in Runs, Track(r)
  PROVE  KeyInv'
  <1>0. TypeOK
    BY DEF KeyInv
  <1>1. /\ starter' \in [Runs -> StarterRec] /\ starter'[r].pc = "create"
        /\ \A s \in Runs : s # r => starter'[s] = starter[s]
    BY <1>0, GoesFacts, StarterLines DEF Track
  <1>2. TypeOK'
    BY <1>0, <1>1 DEF Track, TypeOK
  <1>3. /\ QueuedOnce' /\ PoppedOnce'
        /\ \A x : Queued(x)' <=> Queued(x)
        /\ \A x : Popped(x)' <=> Popped(x)
    BY SameQueue, SameRel DEF KeyInv, Track
  <1>4. WaitInv'
    BY <1>1, <1>3 DEF KeyInv, WaitInv, Track, At
  <1>. QED
    BY <1>2, <1>3, <1>4 DEF KeyInv

LEMMA CreateKeeps ==
  ASSUME KeyInv, NEW r \in Runs, Create(r)
  PROVE  KeyInv'
  <1>0. TypeOK /\ budget \in BudgetRec /\ QueuedOnce /\ PoppedOnce
    BY DEF KeyInv, TypeOK
  <1>1. /\ starter' \in [Runs -> StarterRec] /\ starter'[r].pc = "done"
        /\ \A s \in Runs : s # r => starter'[s] = starter[s]
    BY <1>0, GoesFacts, StarterLines DEF Create
  <1>2. /\ held' \subseteq held /\ rel' \in [Runs -> ReleaseRec]
        /\ \A s \in Runs : rel'[s] # rel[s] => rel'[s].pc # "signal"
    BY <1>0, BeginReleaseFacts DEF Create, TypeOK
  <1>3. /\ status' \in [Runs -> {"absent", "live", "ended"}] /\ budget' \in BudgetRec
        /\ exec' \in [Runs -> {"none", "tick", "running", "release"}]
        /\ \A s \in Runs : s # r => exec'[s] = exec[s]
    BY <1>0, SpendFacts DEF Create, TypeOK
  <1>4. TypeOK'
    BY <1>0, <1>1, <1>2, <1>3 DEF Create, TypeOK
  <1>5. /\ QueuedOnce' /\ PoppedOnce'
        /\ \A x : Queued(x)' <=> Queued(x)
        /\ \A x : Popped(x)' => Popped(x)
    BY <1>0, <1>2, SameQueue, OtherRel DEF KeyInv, Create
  <1>6. WaitInv'
    BY <1>1, <1>2, <1>3, <1>5 DEF KeyInv, WaitInv, Create, At
  <1>. QED
    BY <1>4, <1>5, <1>6 DEF KeyInv

\* enqueueRun: a run that finds room is queued for the first time.
LEMMA EnqueueKeeps ==
  ASSUME KeyInv, NEW r \in Runs, Enqueue(r)
  PROVE  KeyInv'
  <1>0. TypeOK /\ QueuedOnce /\ PoppedOnce
    BY DEF KeyInv, TypeOK
  <1>1. At(r, "enqueue") /\ UNCHANGED <<row, status, held, ready, gaveUp, waiter, exec, rel, caller, budget>>
    BY DEF Enqueue
  <1>2. ~Queued(r) /\ ~Popped(r) /\ r \notin gaveUp /\ r \notin ready /\ r \notin held
    BY <1>1 DEF KeyInv, WaitInv, At
  <1>3. PoppedOnce' /\ \A x : Popped(x)' <=> Popped(x)
    BY <1>0, <1>1, SameRel
  <1>4. CASE QueueFull
    <2>1. /\ starter' \in [Runs -> StarterRec] /\ starter'[r].pc = "overflow" /\ UNCHANGED queue
          /\ \A s \in Runs : s # r => starter'[s] = starter[s]
      BY <1>0, <1>4, GoesFacts, StarterLines DEF Enqueue
    <2>2. TypeOK'
      BY <1>0, <1>1, <2>1 DEF TypeOK
    <2>. QED
      BY <1>1, <2>1, <2>2, MovesOn DEF At, memory
  <1>5. CASE ~QueueFull
    <2>1. /\ starter' \in [Runs -> StarterRec] /\ starter'[r].pc = "createQueued" /\ Push(r)
          /\ \A s \in Runs : s # r => starter'[s] = starter[s]
      BY <1>0, <1>5, GoesFacts, StarterLines DEF Enqueue
    <2>2. /\ queue' \in Seq(Runs) /\ Len(queue') = Len(queue) + 1
          /\ \A x : Queued(x)' <=> Queued(x) \/ x = r
          /\ QueuedOnce'
      BY <1>0, <1>2, <2>1, PushFacts
    <2>3. TypeOK'
      BY <1>0, <1>1, <2>1, <2>2 DEF TypeOK
    <2>4. WaitInv'
      BY <1>1, <1>2, <1>3, <2>1, <2>2 DEF KeyInv, WaitInv, At
    <2>. QED
      BY <1>3, <2>2, <2>3, <2>4 DEF KeyInv
  <1>. QED
    BY <1>4, <1>5

\* The queued run gets its waiter, or is taken off again.
LEMMA CreateQueuedKeeps ==
  ASSUME KeyInv, NEW r \in Runs, CreateQueued(r)
  PROVE  KeyInv'
  <1>0. TypeOK /\ budget \in BudgetRec /\ QueuedOnce /\ PoppedOnce
    BY DEF KeyInv, TypeOK
  <1>1. /\ At(r, "createQueued") /\ UNCHANGED <<row, held, ready, exec, rel, caller>>
        /\ starter' \in [Runs -> StarterRec] /\ starter'[r].pc = "done"
        /\ \A s \in Runs : s # r => starter'[s] = starter[s]
    BY <1>0, GoesFacts, StarterLines DEF CreateQueued
  <1>2. PoppedOnce' /\ \A x : Popped(x)' <=> Popped(x)
    BY <1>0, <1>1, SameRel
  <1>3. waiter[r] = "none" /\ exec[r] = "none" /\ r \notin held
    BY <1>1 DEF KeyInv, WaitInv, At
  <1>4. CASE /\ status' = [status EXCEPT ![r] = "live"]
             /\ waiter' = [waiter EXCEPT ![r] = "await"]
             /\ UNCHANGED <<queue, gaveUp, budget>>
    <2>1. TypeOK'
      BY <1>0, <1>1, <1>4 DEF TypeOK
    <2>2. QueuedOnce' /\ \A x : Queued(x)' <=> Queued(x)
      BY <1>0, <1>4, SameQueue DEF KeyInv
    <2>3. waiter'[r] = "await" /\ \A s \in Runs : s # r => waiter'[s] = waiter[s]
      BY <1>0, <1>4 DEF TypeOK
    <2>4. WaitInv'
      BY <1>1, <1>2, <1>3, <1>4, <2>2, <2>3 DEF KeyInv, WaitInv, At
    <2>. QED
      BY <1>2, <2>1, <2>2, <2>4 DEF KeyInv
  <1>5. CASE /\ Spend("faults") /\ RemoveWaiter(r) /\ gaveUp' = gaveUp \cup {r}
             /\ UNCHANGED <<status, waiter>>
    <2>1. /\ queue' \in Seq(Runs) /\ Len(queue') <= Len(queue)
          /\ \A x : Queued(x)' <=> Queued(x) /\ x # r
          /\ QueuedOnce'
      BY <1>0, <1>5, RemoveFacts
    <2>2. TypeOK'
      BY <1>0, <1>1, <1>5, <2>1, SpendFacts DEF TypeOK
    <2>3. WaitInv'
      BY <1>1, <1>2, <1>3, <1>5, <2>1 DEF KeyInv, WaitInv, At
    <2>. QED
      BY <1>2, <2>1, <2>2, <2>3 DEF KeyInv
  <1>. QED
    BY <1>4, <1>5 DEF CreateQueued

----------------------------------------------------------------------------
(* The steps of awaitQueueSlot preserve the invariant.                     *)

WaiterPC == {"none", "await", "remove", "skip", "acquire", "track"}

LEMMA WGoesFacts ==
  ASSUME TypeOK, NEW r \in Runs, NEW pc \in WaiterPC, WGoes(r, pc)
  PROVE  /\ waiter' \in [Runs -> WaiterPC] /\ waiter'[r] = pc
         /\ \A s \in Runs : s # r => waiter'[s] = waiter[s]
  BY DEF TypeOK, WaiterPC, WGoes

\* Nobody touches the queue or pops a run.
LEMMA QueueStill ==
  ASSUME KeyInv, UNCHANGED <<queue, rel>>
  PROVE  /\ QueuedOnce' /\ PoppedOnce'
         /\ \A x : Queued(x)' <=> Queued(x)
         /\ \A x : Popped(x)' <=> Popped(x)
  BY SameQueue, SameRel DEF KeyInv

LEMMA WaiterReadyKeeps ==
  ASSUME KeyInv, NEW r \in Runs, WaiterReady(r)
  PROVE  KeyInv'
  <1>0. TypeOK
    BY DEF KeyInv
  <1>1. /\ waiter' \in [Runs -> WaiterPC] /\ waiter'[r] = "acquire"
        /\ \A s \in Runs : s # r => waiter'[s] = waiter[s]
    BY <1>0, WGoesFacts DEF WaiterReady, WaiterPC
  <1>2. TypeOK'
    BY <1>0, <1>1 DEF WaiterReady, TypeOK, memory, WaiterPC
  <1>3. /\ QueuedOnce' /\ PoppedOnce'
        /\ \A x : Queued(x)' <=> Queued(x)
        /\ \A x : Popped(x)' <=> Popped(x)
    BY QueueStill DEF WaiterReady, memory
  <1>4. WaitInv'
    BY <1>1, <1>3 DEF KeyInv, WaitInv, WaiterReady, memory
  <1>. QED
    BY <1>2, <1>3, <1>4 DEF KeyInv

LEMMA WaiterTimeoutKeeps ==
  ASSUME KeyInv, NEW r \in Runs, WaiterTimeout(r)
  PROVE  KeyInv'
  <1>0. TypeOK
    BY DEF KeyInv
  <1>1. /\ waiter' \in [Runs -> WaiterPC] /\ waiter'[r] \in {"none", "remove"}
        /\ \A s \in Runs : s # r => waiter'[s] = waiter[s]
    BY <1>0, WGoesFacts DEF WaiterTimeout, WaiterPC
  <1>2. TypeOK'
    BY <1>0, <1>1 DEF WaiterTimeout, TypeOK, WaiterPC
  <1>3. /\ QueuedOnce' /\ PoppedOnce'
        /\ \A x : Queued(x)' <=> Queued(x)
        /\ \A x : Popped(x)' <=> Popped(x)
    BY QueueStill DEF WaiterTimeout
  <1>4. WaitInv'
    BY <1>1, <1>3 DEF KeyInv, WaitInv, WaiterTimeout
  <1>. QED
    BY <1>2, <1>3, <1>4 DEF KeyInv

LEMMA WaiterRemoveKeeps ==
  ASSUME KeyInv, NEW r \in Runs, WaiterRemove(r)
  PROVE  KeyInv'
  <1>0. TypeOK /\ QueuedOnce /\ PoppedOnce
    BY DEF KeyInv
  <1>1. /\ waiter' \in [Runs -> WaiterPC] /\ waiter'[r] = "skip"
        /\ \A s \in Runs : s # r => waiter'[s] = waiter[s]
    BY <1>0, WGoesFacts DEF WaiterRemove, WaiterPC
  <1>2. /\ queue' \in Seq(Runs) /\ Len(queue') <= Len(queue)
        /\ \A x : Queued(x)' <=> Queued(x) /\ x # r
        /\ QueuedOnce'
    BY <1>0, RemoveFacts DEF WaiterRemove
  <1>3. TypeOK'
    BY <1>0, <1>1, <1>2 DEF WaiterRemove, TypeOK, WaiterPC
  <1>4. PoppedOnce' /\ \A x : Popped(x)' <=> Popped(x)
    BY <1>0, SameRel DEF WaiterRemove
  <1>5. WaitInv'
    BY <1>1, <1>2, <1>4 DEF KeyInv, WaitInv, WaiterRemove
  <1>. QED
    BY <1>2, <1>3, <1>4, <1>5 DEF KeyInv

LEMMA WaiterSkipKeeps ==
  ASSUME KeyInv, NEW r \in Runs, WaiterSkip(r)
  PROVE  KeyInv'
  <1>0. TypeOK /\ budget \in BudgetRec
    BY DEF KeyInv, TypeOK
  <1>1. /\ waiter' \in [Runs -> WaiterPC] /\ waiter'[r] = "none"
        /\ \A s \in Runs : s # r => waiter'[s] = waiter[s]
    BY <1>0, WGoesFacts DEF WaiterSkip, WaiterPC
  <1>2. status' \in [Runs -> {"absent", "live", "ended"}] /\ budget' \in BudgetRec
    BY <1>0, SpendFacts DEF WaiterSkip, TypeOK
  <1>3. TypeOK'
    BY <1>0, <1>1, <1>2 DEF WaiterSkip, TypeOK, memory, WaiterPC
  <1>4. /\ QueuedOnce' /\ PoppedOnce'
        /\ \A x : Queued(x)' <=> Queued(x)
        /\ \A x : Popped(x)' <=> Popped(x)
    BY QueueStill DEF WaiterSkip, memory
  <1>5. WaitInv'
    BY <1>1, <1>4 DEF KeyInv, WaitInv, WaiterSkip, memory
  <1>. QED
    BY <1>3, <1>4, <1>5 DEF KeyInv

LEMMA WaiterAcquireKeeps ==
  ASSUME KeyInv, NEW r \in Runs, WaiterAcquire(r)
  PROVE  KeyInv'
  <1>0. TypeOK /\ budget \in BudgetRec /\ QueuedOnce /\ PoppedOnce
    BY DEF KeyInv, TypeOK
  <1>1. /\ waiter' \in [Runs -> WaiterPC] /\ waiter'[r] \in {"none", "track"}
        /\ \A s \in Runs : s # r => waiter'[s] = waiter[s]
    BY <1>0, WGoesFacts DEF WaiterAcquire, WaiterPC
  <1>2. /\ row' \in Runs \cup {NoRun} /\ budget' \in BudgetRec
        /\ status' \in [Runs -> {"absent", "live", "ended"}]
    BY <1>0, SpendFacts DEF WaiterAcquire, AcquireRow, TypeOK
  <1>3. /\ rel' \in [Runs -> ReleaseRec]
        /\ \A s \in Runs : rel'[s] # rel[s] => rel'[s].pc # "signal"
    BY <1>0, RelFacts DEF WaiterAcquire, TypeOK
  <1>4. TypeOK'
    BY <1>0, <1>1, <1>2, <1>3 DEF WaiterAcquire, TypeOK, memory, WaiterPC
  <1>5. /\ QueuedOnce' /\ PoppedOnce'
        /\ \A x : Queued(x)' <=> Queued(x)
        /\ \A x : Popped(x)' => Popped(x)
    BY <1>0, <1>3, SameQueue, OtherRel DEF KeyInv, WaiterAcquire, memory
  <1>6. WaitInv'
    BY <1>1, <1>5 DEF KeyInv, WaitInv, WaiterAcquire, memory
  <1>. QED
    BY <1>4, <1>5, <1>6 DEF KeyInv

LEMMA WaiterTrackKeeps ==
  ASSUME KeyInv, NEW r \in Runs, WaiterTrack(r)
  PROVE  KeyInv'
  <1>0. TypeOK
    BY DEF KeyInv
  <1>1. /\ waiter' \in [Runs -> WaiterPC] /\ waiter'[r] = "none"
        /\ \A s \in Runs : s # r => waiter'[s] = waiter[s]
    BY <1>0, WGoesFacts DEF WaiterTrack, WaiterPC
  <1>2. /\ exec' \in [Runs -> {"none", "tick", "running", "release"}]
        /\ \A s \in Runs : s # r => exec'[s] = exec[s]
    BY <1>0 DEF WaiterTrack, TypeOK
  <1>3. TypeOK'
    BY <1>0, <1>1, <1>2 DEF WaiterTrack, TypeOK, WaiterPC
  <1>4. /\ QueuedOnce' /\ PoppedOnce'
        /\ \A x : Queued(x)' <=> Queued(x)
        /\ \A x : Popped(x)' <=> Popped(x)
    BY QueueStill DEF WaiterTrack
  <1>5. WaitInv'
    BY <1>1, <1>2, <1>4 DEF KeyInv, WaitInv, WaiterTrack
  <1>. QED
    BY <1>3, <1>4, <1>5 DEF KeyInv

----------------------------------------------------------------------------
(* Execution, release, cancellation and crash preserve the invariant.      *)

ExecPC == {"none", "tick", "running", "release"}

\* An execution that is under way moves on.
LEMMA ExecKeeps ==
  ASSUME KeyInv, NEW r \in Runs, ExecStep(r)
  PROVE  KeyInv'
  <1>0. TypeOK /\ budget \in BudgetRec /\ QueuedOnce /\ PoppedOnce
    BY DEF KeyInv, TypeOK
  <1>1. /\ exec[r] # "none" /\ \A s \in Runs : s # r => exec'[s] = exec[s]
        /\ exec' \in [Runs -> ExecPC] /\ budget' \in BudgetRec
        /\ status' \in [Runs -> {"absent", "live", "ended"}]
        /\ UNCHANGED <<row, queue, ready, gaveUp, starter, waiter, caller>>
    <2>1. CASE ExecTick(r)
      BY <1>0, <2>1 DEF ExecTick, TypeOK, ExecPC, memory
    <2>2. CASE ExecEnd(r)
      BY <1>0, <2>2, SpendFacts DEF ExecEnd, TypeOK, ExecPC, memory
    <2>3. CASE ExecRelease(r)
      BY <1>0, <2>3 DEF ExecRelease, TypeOK, ExecPC
    <2>. QED
      BY <2>1, <2>2, <2>3 DEF ExecStep
  <1>2. /\ held' \subseteq held /\ rel' \in [Runs -> ReleaseRec]
        /\ \A s \in Runs : rel'[s] # rel[s] => rel'[s].pc # "signal"
    <2>1. UNCHANGED <<held, rel>> \/ BeginRelease(r)
      BY DEF ExecStep, ExecTick, ExecEnd, ExecRelease, memory
    <2>. QED
      BY <1>0, <2>1, BeginReleaseFacts DEF TypeOK
  <1>3. TypeOK'
    BY <1>0, <1>1, <1>2 DEF TypeOK, ExecPC
  <1>4. /\ QueuedOnce' /\ PoppedOnce'
        /\ \A x : Queued(x)' <=> Queued(x)
        /\ \A x : Popped(x)' => Popped(x)
    BY <1>0, <1>1, <1>2, SameQueue, OtherRel DEF KeyInv
  <1>5. WaitInv'
    BY <1>1, <1>2, <1>4 DEF KeyInv, WaitInv
  <1>. QED
    BY <1>3, <1>4, <1>5 DEF KeyInv

LEMMA ReleaseRowsKeeps ==
  ASSUME KeyInv, NEW r \in Runs, ReleaseRows(r)
  PROVE  KeyInv'
  <1>0. TypeOK /\ QueuedOnce /\ PoppedOnce
    BY DEF KeyInv
  <1>1. row' \in Runs \cup {NoRun} /\ budget' \in BudgetRec
    BY <1>0, TryReleaseFacts DEF ReleaseRows, TypeOK
  <1>2. /\ rel' \in [Runs -> ReleaseRec]
        /\ \A s \in Runs : rel'[s] # rel[s] => rel'[s].pc # "signal"
    BY <1>0, RelFacts DEF ReleaseRows
  <1>3. TypeOK'
    BY <1>0, <1>1, <1>2 DEF ReleaseRows, TypeOK, memory
  <1>4. /\ QueuedOnce' /\ PoppedOnce'
        /\ \A x : Queued(x)' <=> Queued(x)
        /\ \A x : Popped(x)' => Popped(x)
    BY <1>0, <1>2, SameQueue, OtherRel DEF KeyInv, ReleaseRows, memory
  <1>5. WaitInv'
    BY <1>4 DEF KeyInv, WaitInv, ReleaseRows, memory
  <1>. QED
    BY <1>3, <1>4, <1>5 DEF KeyInv

\* The head of the queue is handed to one release.
LEMMA WakeNextKeeps ==
  ASSUME KeyInv, NEW r \in Runs, WakeNext(r)
  PROVE  KeyInv'
  <1>0. TypeOK /\ QueuedOnce /\ PoppedOnce /\ rel \in [Runs -> ReleaseRec]
    BY DEF KeyInv, TypeOK
  <1>1. CASE queue = <<>>
    <2>1. rel' = [rel EXCEPT ![r].pc = "none"] /\ UNCHANGED queue
      BY <1>1 DEF WakeNext
    <2>2. /\ rel' \in [Runs -> ReleaseRec]
          /\ \A s \in Runs : rel'[s] # rel[s] => rel'[s].pc # "signal"
      BY <1>0, <2>1, RelFacts
    <2>3. TypeOK'
      BY <1>0, <2>1, <2>2 DEF WakeNext, TypeOK
    <2>4. /\ QueuedOnce' /\ PoppedOnce'
          /\ \A x : Queued(x)' <=> Queued(x)
          /\ \A x : Popped(x)' => Popped(x)
      BY <1>0, <2>1, <2>2, SameQueue, OtherRel DEF KeyInv
    <2>5. WaitInv'
      BY <2>4 DEF KeyInv, WaitInv, WakeNext
    <2>. QED
      BY <2>3, <2>4, <2>5 DEF KeyInv
  <1>2. CASE queue # <<>>
    <2>. DEFINE x == [pc |-> "signal", next |-> Head(queue)]
                h == Head(queue)
    <2>1. queue' = Tail(queue) /\ rel' = [rel EXCEPT ![r] = x] /\ rel[r].pc = "wake"
      BY <1>2 DEF WakeNext
    <2>2. /\ queue' \in Seq(Runs) /\ Len(queue') = Len(queue) - 1
          /\ h \in Runs /\ Queued(h)
          /\ \A y : Queued(y)' <=> Queued(y) /\ y # h
          /\ QueuedOnce'
      BY <1>0, <1>2, <2>1, PopFacts
    <2>3. x \in ReleaseRec /\ x.pc = "signal" /\ x.next = h
      BY <2>2 DEF ReleaseRec
    <2>. HIDE DEF x, h
    <2>4. /\ rel' \in [Runs -> ReleaseRec] /\ rel'[r] = x
          /\ \A s \in Runs : s # r => rel'[s] = rel[s]
      BY <1>0, <2>1, <2>3
    <2>5. TypeOK'
      BY <1>0, <2>2, <2>4 DEF WakeNext, TypeOK
    <2>6. ~Popped(h)
      BY <2>2 DEF KeyInv, WaitInv
    <2>7. PoppedOnce'
      BY <1>0, <2>2, <2>3, <2>4, <2>6 DEF PoppedOnce, Popped
    <2>8. \A y : Popped(y)' => Popped(y) \/ y = h
      BY <2>3, <2>4 DEF Popped
    <2>9. WaitInv'
      BY <2>2, <2>8 DEF KeyInv, WaitInv, WakeNext
    <2>. QED
      BY <2>2, <2>5, <2>7, <2>9 DEF KeyInv
  <1>. QED
    BY <1>1, <1>2

\* The run that was popped is signalled, unless it gave up, and is popped no more.
LEMMA SignalKeeps ==
  ASSUME KeyInv, NEW r \in Runs, Signal(r)
  PROVE  KeyInv'
  <1>0. TypeOK /\ QueuedOnce /\ PoppedOnce /\ rel \in [Runs -> ReleaseRec]
    BY DEF KeyInv, TypeOK
  <1>1. PICK n \in Runs : n = rel[r].next /\ rel[r].pc = "signal" /\ Popped(n)
    BY <1>0 DEF Signal, PoppedOnce, Popped
  <1>2. PICK x \in {[pc |-> "wake", next |-> NoRun], [pc |-> "none", next |-> NoRun]} :
             rel' = [rel EXCEPT ![r] = x]
    BY DEF Signal
  <1>3. x \in ReleaseRec /\ x.pc # "signal"
    BY DEF ReleaseRec
  <1>4. ready' \subseteq ready \cup {n} /\ (n \in gaveUp => ready' = ready)
    BY <1>1 DEF Signal
  <1>5. UNCHANGED <<row, status, held, queue, gaveUp, starter, waiter, exec, caller, budget>>
    BY DEF Signal
  <1>6. /\ rel' \in [Runs -> ReleaseRec] /\ rel'[r] = x
        /\ \A s \in Runs : s # r => rel'[s] = rel[s]
    BY <1>0, <1>2, <1>3
  <1>7. TypeOK'
    BY <1>0, <1>1, <1>4, <1>5, <1>6 DEF TypeOK
  <1>8. /\ QueuedOnce' /\ PoppedOnce'
        /\ \A y : Queued(y)' <=> Queued(y)
        /\ \A y : Popped(y)' => Popped(y)
    BY <1>0, <1>3, <1>5, <1>6, SameQueue, OtherRel DEF KeyInv
  <1>9. ~Popped(n)'
    BY <1>0, <1>1, <1>3, <1>6 DEF PoppedOnce, Popped
  <1>10. WaitInv'
    BY <1>1, <1>4, <1>5, <1>8, <1>9 DEF KeyInv, WaitInv
  <1>. QED
    BY <1>7, <1>8, <1>10 DEF KeyInv

\* Cancel gives a run up only while it is queued.
LEMMA CancelRunKeeps ==
  ASSUME KeyInv, NEW r \in Runs, CancelRun(r)
  PROVE  KeyInv'
  <1>0. TypeOK /\ QueuedOnce /\ PoppedOnce /\ budget \in BudgetRec
    BY DEF KeyInv, TypeOK
  <1>1. budget' \in BudgetRec
    BY <1>0, SpendFacts DEF CancelRun
  <1>2. /\ queue' \in Seq(Runs) /\ Len(queue') <= Len(queue)
        /\ \A x : Queued(x)' <=> Queued(x) /\ x # r
        /\ QueuedOnce'
        /\ gaveUp' \subseteq Runs
        /\ \A x : x \in gaveUp' <=> x \in gaveUp \/ (x = r /\ Queued(x))
    BY <1>0, AbandonFacts DEF CancelRun
  <1>3. TypeOK'
    BY <1>0, <1>1, <1>2 DEF CancelRun, TypeOK
  <1>4. PoppedOnce' /\ \A x : Popped(x)' <=> Popped(x)
    BY <1>0, SameRel DEF CancelRun
  <1>5. WaitInv'
    BY <1>2, <1>4 DEF KeyInv, WaitInv, CancelRun
  <1>. QED
    BY <1>2, <1>3, <1>4, <1>5 DEF KeyInv

LEMMA CancelStepKeeps ==
  ASSUME KeyInv, NEW r \in Runs, CancelStep(r)
  PROVE  KeyInv'
  <1>0. TypeOK /\ QueuedOnce /\ PoppedOnce /\ budget \in BudgetRec
    BY DEF KeyInv, TypeOK
  <1>1. /\ budget' \in BudgetRec /\ caller' \in [Runs -> {"none", "persist", "release"}]
        /\ status' \in [Runs -> {"absent", "live", "ended"}]
        /\ UNCHANGED <<row, queue, ready, gaveUp, starter, waiter, exec>>
    <2>1. CASE CancelPersist(r)
      BY <1>0, <2>1, SpendFacts DEF CancelPersist, TypeOK, memory
    <2>2. CASE CancelRelease(r)
      BY <1>0, <2>2 DEF CancelRelease, TypeOK
    <2>. QED
      BY <2>1, <2>2 DEF CancelStep
  <1>2. /\ held' \subseteq held /\ rel' \in [Runs -> ReleaseRec]
        /\ \A s \in Runs : rel'[s] # rel[s] => rel'[s].pc # "signal"
    <2>1. UNCHANGED <<held, rel>> \/ BeginRelease(r)
      BY DEF CancelStep, CancelPersist, CancelRelease, memory
    <2>. QED
      BY <1>0, <2>1, BeginReleaseFacts DEF TypeOK
  <1>3. TypeOK'
    BY <1>0, <1>1, <1>2 DEF TypeOK
  <1>4. /\ QueuedOnce' /\ PoppedOnce'
        /\ \A x : Queued(x)' <=> Queued(x)
        /\ \A x : Popped(x)' => Popped(x)
    BY <1>0, <1>1, <1>2, SameQueue, OtherRel DEF KeyInv
  <1>5. WaitInv'
    BY <1>1, <1>2, <1>4 DEF KeyInv, WaitInv
  <1>. QED
    BY <1>3, <1>4, <1>5 DEF KeyInv

\* Nothing in memory survives a crash.
LEMMA CrashKeeps ==
  ASSUME KeyInv, Crash
  PROVE  KeyInv'
  <1>0. TypeOK /\ budget \in BudgetRec /\ starter \in [Runs -> StarterRec]
    BY DEF KeyInv, TypeOK
  <1>1. /\ starter' \in [Runs -> StarterRec]
        /\ \A s \in Runs : starter'[s].pc \in {"idle", "done"}
    <2>1. \A s \in Runs : /\ [starter[s] EXCEPT !.pc = "done"] \in StarterRec
                          /\ [starter[s] EXCEPT !.pc = "done"].pc = "done"
      BY <1>0 DEF StarterRec, StarterPC
    <2>. QED
      BY <1>0, <2>1 DEF Crash, At
  <1>2. /\ rel' \in [Runs -> ReleaseRec] /\ \A s \in Runs : rel'[s].pc = "none"
    BY DEF Crash, ReleaseRec
  <1>3. budget' \in BudgetRec
    BY <1>0, SpendFacts DEF Crash
  <1>4. queue' = <<>> /\ queue' \in Seq(Runs) /\ Len(queue') = 0
    BY EmptySeq DEF Crash
  <1>5. TypeOK'
    BY <1>0, <1>1, <1>2, <1>3, <1>4 DEF Crash, TypeOK
  <1>6. QueuedOnce' /\ \A x : ~Queued(x)'
    BY <1>4 DEF QueuedOnce, Queued
  <1>7. PoppedOnce' /\ \A x : ~Popped(x)'
    BY <1>2 DEF PoppedOnce, Popped
  <1>8. WaitInv'
    BY <1>6, <1>7 DEF WaitInv, Crash
  <1>. QED
    BY <1>5, <1>6, <1>7, <1>8 DEF KeyInv

----------------------------------------------------------------------------
(* The theorems about the queue.                                           *)

LEMMA KeyInvInit == Init => KeyInv
  <1>. SUFFICES ASSUME Init PROVE KeyInv
    OBVIOUS
  <1>1. /\ starter \in [Runs -> StarterRec]
        /\ \A s \in Runs : starter[s].pc = "idle"
    <2>1. ASSUME NEW x \in [pc : {"idle"}, policy : Policies, active : {NoRun}]
          PROVE  x \in StarterRec /\ x.pc = "idle"
      BY DEF StarterRec, StarterPC
    <2>. QED
      BY <2>1 DEF Init
  <1>2. /\ rel \in [Runs -> ReleaseRec] /\ \A s \in Runs : rel[s].pc = "none"
    <2>1. [pc |-> "none", next |-> NoRun] \in ReleaseRec
      BY DEF ReleaseRec
    <2>. QED
      BY <2>1 DEF Init
  <1>3. budget \in BudgetRec
    BY KeyAssumption DEF Init, BudgetRec
  <1>4. queue = <<>> /\ queue \in Seq(Runs) /\ Len(queue) = 0
    BY EmptySeq DEF Init
  <1>5. TypeOK
    BY <1>1, <1>2, <1>3, <1>4 DEF Init, TypeOK
  <1>6. QueuedOnce /\ \A x : ~Queued(x)
    BY <1>4 DEF QueuedOnce, Queued
  <1>7. PoppedOnce /\ \A x : ~Popped(x)
    BY <1>2 DEF PoppedOnce, Popped
  <1>8. WaitInv
    BY <1>6, <1>7 DEF WaitInv, Init
  <1>. QED
    BY <1>5, <1>6, <1>7, <1>8 DEF KeyInv

LEMMA KeyInvStep == KeyInv /\ [Next]_vars => KeyInv'
  <1>. SUFFICES ASSUME KeyInv, [Next]_vars PROVE KeyInv'
    OBVIOUS
  <1>1. CASE Crash
    BY <1>1, CrashKeeps
  <1>2. ASSUME NEW r \in Runs, Start(r) \/ StarterStep(r) PROVE KeyInv'
    BY <1>2, StartKeeps, InspectKeeps, CheckHolderKeeps, GivesRowUpKeeps, DetachKeeps, ReplaceCancelKeeps,
       ReplaceCancelledKeeps, AcquireKeeps, TrackKeeps, CreateKeeps, EnqueueKeeps, OverflowKeeps,
       CreateQueuedKeeps DEF StarterStep
  <1>3. ASSUME NEW r \in Runs, WaiterStep(r) \/ WaiterTimeout(r) PROVE KeyInv'
    BY <1>3, WaiterReadyKeeps, WaiterRemoveKeeps, WaiterSkipKeeps, WaiterAcquireKeeps, WaiterTrackKeeps,
       WaiterTimeoutKeeps DEF WaiterStep
  <1>4. ASSUME NEW r \in Runs, ExecStep(r) \/ ReleaseStep(r) \/ CancelRun(r) \/ CancelStep(r) PROVE KeyInv'
    BY <1>4, ExecKeeps, ReleaseRowsKeeps, WakeNextKeeps, SignalKeeps, CancelRunKeeps, CancelStepKeeps
       DEF ReleaseStep
  <1>5. CASE UNCHANGED vars
    BY <1>5 DEF vars, memory, actors, KeyInv, TypeOK, QueuedOnce, PoppedOnce, WaitInv,
                Queued, Popped
  <1>. QED
    BY <1>1, <1>2, <1>3, <1>4, <1>5 DEF Next

LEMMA KeyInvariance == Spec => []KeyInv
  BY KeyInvInit, KeyInvStep, PTL DEF Spec

\* A waiter that Cancel or its timeout gave up never executes nor holds the lock, even when a
\* release pops it at the same moment (awaitQueueSlot, abandonQueuedRun, wakeNextWaiter).
THEOREM AbandonedStaysOut == Spec => []AbandonedNeverRuns
  <1>1. KeyInv => AbandonedNeverRuns
    BY DEF KeyInv, TypeOK, WaitInv, AbandonedNeverRuns
  <1>. QED
    BY <1>1, KeyInvariance, PTL

----------------------------------------------------------------------------
(* The steps of startUnderConcurrency keep the line.                       *)

\* The starter of r moves on before it has queued the run, and nobody else is concerned.
LEMMA LineMovesOn ==
  ASSUME KeyInv, LineInv, NEW r \in Runs, starter[r].pc \notin {"createQueued", "done"},
         starter'[r].pc # "createQueued", HolderKnown(r)',
         \A s \in Runs : s # r => starter'[s] = starter[s],
         UNCHANGED <<status, queue, ready, gaveUp, waiter, rel, caller>>, held' \subseteq held \cup {r}
  PROVE  LineInv'
  <1>1. \A s \in Runs : (Queued(s)' <=> Queued(s)) /\ (Popped(s)' <=> Popped(s))
    BY DEF Queued, Popped
  <1>2. rel[r].pc = "none" /\ status[r] = "absent" /\ caller[r] = "none"
    BY DEF LineInv, StoredDone, ReleaseLast
  <1>3. ASSUME NEW s \in Runs PROVE HolderKnown(s)'
    BY <1>3 DEF LineInv, HolderKnown
  <1>4. ASSUME NEW s \in Runs PROVE StoredDone(s)' /\ ReleaseLast(s)' /\ InLine(s)'
    BY <1>1, <1>2 DEF LineInv, StoredDone, ReleaseLast, InLine
  <1>. QED
    BY <1>3, <1>4 DEF LineInv

\* What a trigger knows of the holder stays true while its starter is on these lines.
LEMMA HolderStays ==
  ASSUME KeyInv, LineInv, NEW r \in Runs, NEW pc \in StarterPC, Goes(r, pc),
         pc \in {"detachRow", "cancel", "cancelled"} =>
             starter[r].pc \in {"detach", "detachRow", "cancel", "cancelled"},
         pc \notin {"holder", "detach"}
  PROVE  HolderKnown(r)'
  <1>1. /\ starter'[r].pc = pc /\ starter'[r].active = starter[r].active
        /\ \A s \in Runs : s # r => starter'[s] = starter[s]
    BY GoesFacts DEF KeyInv
  <1>2. CASE pc \in {"detachRow", "cancel", "cancelled"}
    BY <1>1, <1>2 DEF LineInv, HolderKnown
  <1>3. CASE pc \notin {"detachRow", "cancel", "cancelled"}
    BY <1>1, <1>3 DEF HolderKnown
  <1>. QED
    BY <1>2, <1>3

\* The steps on which a starter moves on and knows no new holder.
LEMMA LineStarterMoves ==
  ASSUME KeyInv, LineInv, NEW r \in Runs,
         \/ Start(r) \/ Heal(r) \/ Detach(r) \/ DetachRow(r) \/ Free(r) \/ Acquire(r) \/ Track(r)
  PROVE  LineInv'
  <1>1. PICK pc \in StarterPC :
           /\ Goes(r, pc) /\ pc \notin {"holder", "detach", "createQueued"}
           /\ pc \in {"detachRow", "cancel", "cancelled"} => starter[r].pc \in {"detach", "detachRow"}
    BY StarterLines DEF Start, Heal, Detach, DetachRow, Free, Acquire, Track, At
  <1>2. HolderKnown(r)'
    BY <1>1, HolderStays
  <1>3. starter'[r].pc # "createQueued" /\ \A s \in Runs : s # r => starter'[s] = starter[s]
    BY <1>1, GoesFacts DEF KeyInv
  <1>4. /\ starter[r].pc \notin {"createQueued", "done"}
        /\ UNCHANGED <<status, queue, ready, gaveUp, waiter, rel, caller>> /\ held' \subseteq held \cup {r}
    BY DEF Start, Heal, Detach, DetachRow, Free, Acquire, Track, At, memory
  <1>. QED
    BY <1>2, <1>3, <1>4, LineMovesOn

\* The holder a trigger has read from the row is a run.
LEMMA InspectLine ==
  ASSUME KeyInv, LineInv, NEW r \in Runs, Inspect(r)
  PROVE  LineInv'
  <1>0. TypeOK /\ starter \in [Runs -> StarterRec] /\ row \in Runs \cup {NoRun}
    BY DEF KeyInv, TypeOK
  <1>1. CASE Goes(r, "done")
    <2>1. starter'[r].pc = "done" /\ \A s \in Runs : s # r => starter'[s] = starter[s]
      BY <1>0, <1>1, GoesFacts, StarterLines
    <2>2. HolderKnown(r)'
      BY <2>1 DEF HolderKnown
    <2>. QED
      BY <2>1, <2>2, LineMovesOn DEF Inspect, At, memory
  <1>2. CASE starter' = [starter EXCEPT ![r].pc = IF row = NoRun THEN "acquire" ELSE "holder",
                                        ![r].active = row]
    <2>1. /\ starter'[r].pc = (IF row = NoRun THEN "acquire" ELSE "holder") /\ starter'[r].active = row
          /\ \A s \in Runs : s # r => starter'[s] = starter[s]
      BY <1>0, <1>2 DEF StarterRec
    <2>2. HolderKnown(r)'
      BY <1>0, <2>1 DEF HolderKnown
    <2>. QED
      BY <2>1, <2>2, LineMovesOn DEF Inspect, At, memory
  <1>. QED
    BY <1>1, <1>2 DEF Inspect

\* A holder that is replaced is live, so its own starter is done.
LEMMA CheckHolderLine ==
  ASSUME KeyInv, LineInv, NEW r \in Runs, CheckHolder(r)
  PROVE  LineInv'
  <1>0. TypeOK /\ starter \in [Runs -> StarterRec] /\ starter[r].pc = "holder"
    BY DEF KeyInv, TypeOK, CheckHolder, At
  <1>1. starter[r].policy \in {"skip", "queue", "replace"}
    BY <1>0, KeyAssumption DEF StarterRec
  <1>2. PICK pc \in {"heal", "done", "detach", "enqueue"} :
           Goes(r, pc) /\ (pc = "detach" => ~HolderGone(starter[r].active))
    BY <1>1 DEF CheckHolder
  <1>3. /\ starter'[r].pc = pc /\ starter'[r].active = starter[r].active
        /\ \A s \in Runs : s # r => starter'[s] = starter[s]
    BY <1>0, <1>2, GoesFacts, StarterLines
  <1>4. HolderKnown(r)'
    BY <1>0, <1>2, <1>3 DEF LineInv, HolderKnown, StoredDone, HolderGone
  <1>. QED
    BY <1>0, <1>2, <1>3, <1>4, LineMovesOn DEF CheckHolder, memory

\* The starter of r stops moving: what the others know of their holder stays true.
LEMMA HoldersKnown ==
  ASSUME LineInv, NEW r \in Runs, HolderKnown(r)',
         starter[r].pc # "done" \/ starter'[r].pc = "done",
         \A s \in Runs : s # r => starter'[s] = starter[s]
  PROVE  \A s \in Runs : HolderKnown(s)'
  BY DEF LineInv, HolderKnown

\* A release that begins is the first of its run, and un-pops nobody.
LEMMA BeginReleaseLine ==
  ASSUME KeyInv, LineInv, NEW r \in Runs, BeginRelease(r)
  PROVE  /\ held' \subseteq held
         /\ \A s \in Runs : rel'[s].pc # "none" => rel[s].pc # "none" \/ (s = r /\ r \in held /\ r \notin held')
         /\ \A x : Popped(x) => Popped(x)'
  <1>0. TypeOK
    BY DEF KeyInv
  <1>1. /\ held' \subseteq held
        /\ \A s \in Runs : rel'[s] # rel[s] => s = r /\ r \in held
    BY <1>0, BeginReleaseFacts
  <1>2. r \in held => r \notin held' /\ rel[r].pc = "none"
    BY DEF BeginRelease, LineInv, ReleaseLast
  <1>3. \A x : Popped(x) => Popped(x)'
    BY <1>1, <1>2 DEF Popped
  <1>. QED
    BY <1>1, <1>2, <1>3

\* Who deals with a run that holds the lock finds its starter done and its waiter gone.
LEMMA HolderStarted ==
  ASSUME KeyInv, NEW r \in Runs, r \in held, starter[r].pc # "create"
  PROVE  starter[r].pc = "done" /\ waiter[r] = "none"
  BY DEF KeyInv, WaitInv

\* A waiter that Cancel takes off the queue has given up.
LEMMA AbandonLine ==
  ASSUME KeyInv, LineInv, NEW a, Abandon(a), UNCHANGED <<ready, rel>>
  PROVE  \A s \in Runs : Queued(s) \/ Popped(s) \/ s \in ready \cup gaveUp =>
             (Queued(s) \/ Popped(s) \/ s \in ready \cup gaveUp)'
  <1>1. /\ \A x : Queued(x)' <=> Queued(x) /\ x # a
        /\ \A x : x \in gaveUp' <=> x \in gaveUp \/ (x = a /\ Queued(x))
    BY AbandonFacts DEF KeyInv
  <1>2. \A x : Popped(x)' <=> Popped(x)
    BY DEF Popped
  <1>. QED
    BY <1>1, <1>2

LEMMA ReplaceCancelLine ==
  ASSUME KeyInv, LineInv, NEW r \in Runs, ReplaceCancel(r)
  PROVE  LineInv'
  <1>0. starter[r].pc = "cancel" /\ UNCHANGED <<row, status, held, ready, waiter, exec, rel, caller, budget>>
    BY DEF ReplaceCancel, At
  <1>1. starter'[r].pc = "cancelled" /\ \A s \in Runs : s # r => starter'[s] = starter[s]
    BY GoesFacts, StarterLines DEF KeyInv, ReplaceCancel
  <1>2. HolderKnown(r)'
    BY <1>0, HolderStays, StarterLines DEF ReplaceCancel
  <1>3. \A s \in Runs : HolderKnown(s)'
    BY <1>0, <1>1, <1>2, HoldersKnown
  <1>4. \A s \in Runs : Queued(s) \/ Popped(s) \/ s \in ready \cup gaveUp =>
            (Queued(s) \/ Popped(s) \/ s \in ready \cup gaveUp)'
    BY <1>0, AbandonLine DEF ReplaceCancel
  <1>5. ASSUME NEW s \in Runs PROVE StoredDone(s)' /\ ReleaseLast(s)' /\ InLine(s)'
    BY <1>0, <1>1, <1>4 DEF LineInv, StoredDone, ReleaseLast, InLine
  <1>. QED
    BY <1>3, <1>5 DEF LineInv

LEMMA ReplaceCancelledLine ==
  ASSUME KeyInv, LineInv, NEW r \in Runs, ReplaceCancelled(r)
  PROVE  LineInv'
  <1>0. starter[r].pc = "cancelled" /\ UNCHANGED <<row, queue, ready, gaveUp, waiter, exec, caller>>
    BY DEF ReplaceCancelled, At
  <1>1. starter'[r].pc \in {"free", "done"} /\ \A s \in Runs : s # r => starter'[s] = starter[s]
    BY GoesFacts, StarterLines DEF KeyInv, ReplaceCancelled
  <1>2. \A s \in Runs : HolderKnown(s)'
    <2>1. HolderKnown(r)'
      BY <1>1 DEF HolderKnown
    <2>. QED
      BY <1>0, <1>1, <2>1, HoldersKnown
  <1>3. PICK a \in Runs : a = starter[r].active /\ starter[a].pc = "done"
    BY <1>0 DEF LineInv, HolderKnown
  <1>4. \/ status' = [status EXCEPT ![a] = "ended"] /\ BeginRelease(a)
        \/ UNCHANGED <<status, held, rel>>
    BY <1>3 DEF ReplaceCancelled
  <1>5. \A x : Queued(x)' <=> Queued(x)
    BY <1>0 DEF Queued
  <1>6. CASE UNCHANGED <<status, held, rel>>
    <2>1. \A x : Popped(x)' <=> Popped(x)
      BY <1>6 DEF Popped
    <2>2. ASSUME NEW s \in Runs PROVE StoredDone(s)' /\ ReleaseLast(s)' /\ InLine(s)'
      BY <1>0, <1>1, <1>5, <1>6, <2>1 DEF LineInv, StoredDone, ReleaseLast, InLine
    <2>. QED
      BY <1>2, <2>2 DEF LineInv
  <1>7. CASE status' = [status EXCEPT ![a] = "ended"] /\ BeginRelease(a)
    <2>1. /\ held' \subseteq held /\ \A x : Popped(x) => Popped(x)'
          /\ \A s \in Runs : rel'[s].pc # "none" => rel[s].pc # "none" \/ (s = a /\ a \in held /\ a \notin held')
      BY <1>7, BeginReleaseLine
    <2>2. a \in held => waiter[a] = "none"
      BY <1>3, HolderStarted
    <2>3. a # r /\ starter'[a].pc = "done" /\ \A s \in Runs : s # a => status'[s] = status[s]
      BY <1>0, <1>1, <1>3, <1>7 DEF KeyInv, TypeOK
    <2>4. ASSUME NEW s \in Runs PROVE StoredDone(s)'
      BY <1>0, <1>1, <2>3 DEF LineInv, StoredDone
    <2>5. ASSUME NEW s \in Runs PROVE ReleaseLast(s)'
      BY <1>0, <1>1, <2>1, <2>2, <2>3 DEF LineInv, ReleaseLast
    <2>6. ASSUME NEW s \in Runs PROVE InLine(s)'
      BY <1>0, <1>1, <1>5, <2>1 DEF LineInv, InLine
    <2>. QED
      BY <1>2, <2>4, <2>5, <2>6 DEF LineInv
  <1>. QED
    BY <1>4, <1>6, <1>7

\* A starter that ends lets go of what it holds, if its run could not be stored.
LEMMA CreateLine ==
  ASSUME KeyInv, LineInv, NEW r \in Runs, Create(r)
  PROVE  LineInv'
  <1>0. starter[r].pc = "create" /\ UNCHANGED <<row, queue, ready, gaveUp, waiter, caller>>
    BY DEF Create, At
  <1>1. starter'[r].pc = "done" /\ \A s \in Runs : s # r => starter'[s] = starter[s]
    BY GoesFacts, StarterLines DEF KeyInv, Create
  <1>2. \A s \in Runs : HolderKnown(s)'
    <2>1. HolderKnown(r)'
      BY <1>1 DEF HolderKnown
    <2>. QED
      BY <1>0, <1>1, <2>1, HoldersKnown
  <1>3. /\ held' \subseteq held /\ \A x : Popped(x) => Popped(x)'
        /\ \A s \in Runs : rel'[s].pc # "none" => rel[s].pc # "none" \/ (s = r /\ r \in held /\ r \notin held')
    <2>1. UNCHANGED <<held, rel>> \/ BeginRelease(r)
      BY DEF Create
    <2>. QED
      BY <2>1, BeginReleaseLine DEF Popped
  <1>4. waiter[r] = "none"
    BY <1>0 DEF KeyInv, WaitInv
  <1>5. \A s \in Runs : s # r => status'[s] = status[s]
    BY DEF Create, KeyInv, TypeOK
  <1>6. \A x : Queued(x)' <=> Queued(x)
    BY <1>0 DEF Queued
  <1>7. ASSUME NEW s \in Runs PROVE StoredDone(s)'
    BY <1>0, <1>1, <1>5 DEF LineInv, StoredDone
  <1>8. ASSUME NEW s \in Runs PROVE ReleaseLast(s)'
    BY <1>0, <1>1, <1>3, <1>4 DEF LineInv, ReleaseLast
  <1>9. ASSUME NEW s \in Runs PROVE InLine(s)'
    BY <1>0, <1>1, <1>3, <1>6 DEF LineInv, InLine
  <1>. QED
    BY <1>2, <1>7, <1>8, <1>9 DEF LineInv

LEMMA EnqueueLine ==
  ASSUME KeyInv, LineInv, NEW r \in Runs, Enqueue(r)
  PROVE  LineInv'
  <1>0. /\ starter[r].pc = "enqueue"
        /\ UNCHANGED <<row, status, held, ready, gaveUp, waiter, exec, rel, caller, budget>>
    BY DEF Enqueue, At
  <1>1. /\ starter'[r].pc \in {"overflow", "createQueued"}
        /\ \A s \in Runs : s # r => starter'[s] = starter[s]
        /\ starter'[r].pc = "createQueued" => Push(r)
        /\ starter'[r].pc = "overflow" => UNCHANGED queue
    <2>1. CASE QueueFull
      BY <2>1, GoesFacts, StarterLines DEF KeyInv, Enqueue
    <2>2. CASE ~QueueFull
      BY <2>2, GoesFacts, StarterLines DEF KeyInv, Enqueue
    <2>. QED
      BY <2>1, <2>2
  <1>2. HolderKnown(r)'
    BY <1>1 DEF HolderKnown
  <1>3. CASE starter'[r].pc = "overflow"
    BY <1>0, <1>1, <1>2, <1>3, LineMovesOn
  <1>4. CASE starter'[r].pc = "createQueued"
    <2>1. ~Queued(r)
      BY <1>0 DEF KeyInv, WaitInv
    <2>2. \A x : Queued(x)' <=> Queued(x) \/ x = r
      BY <1>1, <1>4, <2>1, PushFacts DEF KeyInv
    <2>3. \A x : Popped(x)' <=> Popped(x)
      BY <1>0 DEF Popped
    <2>4. \A s \in Runs : HolderKnown(s)'
      BY <1>0, <1>1, <1>2, HoldersKnown
    <2>5. rel[r].pc = "none" /\ status[r] = "absent" /\ caller[r] = "none"
      BY <1>0 DEF LineInv, StoredDone, ReleaseLast
    <2>6. ASSUME NEW s \in Runs PROVE StoredDone(s)' /\ ReleaseLast(s)' /\ InLine(s)'
      BY <1>0, <1>1, <2>2, <2>3, <2>5 DEF LineInv, StoredDone, ReleaseLast, InLine
    <2>. QED
      BY <2>4, <2>6 DEF LineInv
  <1>. QED
    BY <1>1, <1>3, <1>4

LEMMA OverflowLine ==
  ASSUME KeyInv, LineInv, NEW r \in Runs, Overflow(r)
  PROVE  LineInv'
  <1>0. starter[r].pc = "overflow" /\ UNCHANGED <<row, memory, waiter, exec, rel, caller>>
    BY DEF Overflow, At
  <1>1. starter'[r].pc = "done" /\ \A s \in Runs : s # r => starter'[s] = starter[s]
    BY GoesFacts, StarterLines DEF KeyInv, Overflow
  <1>2. \A s \in Runs : HolderKnown(s)'
    <2>1. HolderKnown(r)'
      BY <1>1 DEF HolderKnown
    <2>. QED
      BY <1>0, <1>1, <2>1, HoldersKnown
  <1>3. \A s \in Runs : s # r => status'[s] = status[s]
    BY DEF Overflow, KeyInv, TypeOK
  <1>4. \A s \in Runs : (Queued(s)' <=> Queued(s)) /\ (Popped(s)' <=> Popped(s))
    BY <1>0 DEF Queued, Popped, memory
  <1>5. ASSUME NEW s \in Runs PROVE StoredDone(s)' /\ ReleaseLast(s)' /\ InLine(s)'
    BY <1>0, <1>1, <1>3, <1>4 DEF LineInv, StoredDone, ReleaseLast, InLine, memory
  <1>. QED
    BY <1>2, <1>5 DEF LineInv

\* The run that gets its waiter is in the queue, or was popped before it got it.
LEMMA CreateQueuedLine ==
  ASSUME KeyInv, LineInv, NEW r \in Runs, CreateQueued(r)
  PROVE  LineInv'
  <1>0. starter[r].pc = "createQueued" /\ UNCHANGED <<row, held, ready, exec, rel, caller>>
    BY DEF CreateQueued, At
  <1>1. starter'[r].pc = "done" /\ \A s \in Runs : s # r => starter'[s] = starter[s]
    BY GoesFacts, StarterLines DEF KeyInv, CreateQueued
  <1>2. \A s \in Runs : HolderKnown(s)'
    <2>1. HolderKnown(r)'
      BY <1>1 DEF HolderKnown
    <2>. QED
      BY <1>0, <1>1, <2>1, HoldersKnown
  <1>3. \A s \in Runs : s # r => status'[s] = status[s] /\ waiter'[s] = waiter[s]
    BY DEF CreateQueued, KeyInv, TypeOK
  <1>4. rel[r].pc = "none"
    BY <1>0 DEF LineInv, ReleaseLast
  <1>5. \A s \in Runs : Queued(s) \/ Popped(s) \/ s \in ready \cup gaveUp =>
            (Queued(s) \/ Popped(s) \/ s \in ready \cup gaveUp)'
    <2>1. \A x : Popped(x)' <=> Popped(x)
      BY <1>0 DEF Popped
    <2>2. CASE UNCHANGED <<queue, gaveUp>>
      BY <1>0, <2>1, <2>2 DEF Queued
    <2>3. CASE RemoveWaiter(r) /\ gaveUp' = gaveUp \cup {r}
      BY <1>0, <2>1, <2>3, RemoveFacts DEF KeyInv
    <2>. QED
      BY <2>2, <2>3 DEF CreateQueued
  <1>6. ASSUME NEW s \in Runs PROVE StoredDone(s)' /\ ReleaseLast(s)'
    BY <1>0, <1>1, <1>3, <1>4 DEF LineInv, StoredDone, ReleaseLast
  <1>7. ASSUME NEW s \in Runs PROVE InLine(s)'
    BY <1>0, <1>1, <1>3, <1>5 DEF LineInv, InLine
  <1>. QED
    BY <1>2, <1>6, <1>7 DEF LineInv

----------------------------------------------------------------------------
(* The other steps keep the line.                                          *)

\* While no starter moves, what is known of the holders stands.
LEMMA StartersStill ==
  ASSUME LineInv, UNCHANGED starter
  PROVE  \A s \in Runs : HolderKnown(s)'
  BY DEF LineInv, HolderKnown

\* The waiter of r leaves the select; nobody else's place changes.
LEMMA WaiterStepLine ==
  ASSUME KeyInv, LineInv, NEW r \in Runs, WaiterStep(r) \/ WaiterTimeout(r)
  PROVE  LineInv'
  <1>0. /\ waiter[r] # "none" /\ waiter'[r] # "await" /\ \A s \in Runs : s # r => waiter'[s] = waiter[s]
        /\ UNCHANGED <<ready, starter, caller>> /\ gaveUp \subseteq gaveUp'
    BY DEF WaiterStep, WaiterReady, WaiterTimeout, WaiterRemove, WaiterSkip, WaiterAcquire, WaiterTrack,
           WGoes, KeyInv, TypeOK, memory
  <1>1. rel[r].pc = "none" /\ starter[r].pc = "done" /\ r \notin held
    BY <1>0 DEF LineInv, ReleaseLast, KeyInv, WaitInv
  <1>2. \A s \in Runs : s # r => status'[s] = status[s]
    BY DEF WaiterStep, WaiterReady, WaiterTimeout, WaiterRemove, WaiterSkip, WaiterAcquire, WaiterTrack,
           KeyInv, TypeOK
  <1>3. \A s \in Runs : s # r => rel'[s] = rel[s]
    BY DEF WaiterStep, WaiterReady, WaiterTimeout, WaiterRemove, WaiterSkip, WaiterAcquire, WaiterTrack,
           KeyInv, TypeOK
  <1>4. /\ held' \subseteq held \cup {r}
        /\ rel'[r].pc # "none" => waiter'[r] = "none" /\ held' = held
        /\ r \in held' => UNCHANGED rel
    BY <1>1 DEF WaiterStep, WaiterReady, WaiterTimeout, WaiterRemove, WaiterSkip, WaiterAcquire, WaiterTrack,
           WGoes, KeyInv, TypeOK, memory
  <1>5. \A x : Popped(x) => Popped(x)'
    BY <1>1, <1>3 DEF Popped
  <1>6. \A s \in Runs : s # r /\ Queued(s) => Queued(s)'
    <2>1. CASE WaiterRemove(r)
      BY <2>1, RemoveFacts DEF WaiterRemove, KeyInv
    <2>2. CASE ~WaiterRemove(r)
      <3>1. UNCHANGED queue
        BY <2>2 DEF WaiterStep, WaiterReady, WaiterTimeout, WaiterSkip, WaiterAcquire, WaiterTrack, memory
      <3>. QED
        BY <3>1 DEF Queued
    <2>. QED
      BY <2>1, <2>2
  <1>7. ASSUME NEW s \in Runs PROVE StoredDone(s)'
    BY <1>0, <1>1, <1>2 DEF LineInv, StoredDone
  <1>8. ASSUME NEW s \in Runs PROVE ReleaseLast(s)'
    BY <1>0, <1>1, <1>3, <1>4 DEF LineInv, ReleaseLast
  <1>9. ASSUME NEW s \in Runs PROVE InLine(s)'
    BY <1>0, <1>1, <1>5, <1>6 DEF LineInv, InLine
  <1>. QED
    BY <1>0, <1>7, <1>8, <1>9, StartersStill DEF LineInv

\* An execution or a caller of Cancel stores the verdict or begins the release of its run.
LEMMA EndsLine ==
  ASSUME KeyInv, LineInv, NEW r \in Runs, ExecStep(r) \/ CancelStep(r)
  PROVE  LineInv'
  <1>0. /\ UNCHANGED <<row, queue, ready, gaveUp, starter, waiter>>
        /\ UNCHANGED <<held, rel>> \/ BeginRelease(r)
        /\ exec[r] # "none" \/ caller[r] # "none"
        /\ \A s \in Runs : s # r => status'[s] = status[s] /\ caller'[s] = caller[s]
    BY DEF ExecStep, ExecTick, ExecEnd, ExecRelease, CancelStep, CancelPersist, CancelRelease,
           KeyInv, TypeOK, memory
  <1>1. starter[r].pc = "done"
    BY <1>0 DEF LineInv, StoredDone, KeyInv, WaitInv
  <1>2. r \in held => waiter[r] = "none"
    BY <1>1, HolderStarted
  <1>3. /\ held' \subseteq held /\ \A x : Popped(x) => Popped(x)'
        /\ \A s \in Runs : rel'[s].pc # "none" => rel[s].pc # "none" \/ (s = r /\ r \in held /\ r \notin held')
    BY <1>0, BeginReleaseLine DEF Popped
  <1>4. \A x : Queued(x)' <=> Queued(x)
    BY <1>0 DEF Queued
  <1>5. ASSUME NEW s \in Runs PROVE StoredDone(s)'
    BY <1>0, <1>1 DEF LineInv, StoredDone
  <1>6. ASSUME NEW s \in Runs PROVE ReleaseLast(s)'
    BY <1>0, <1>1, <1>2, <1>3 DEF LineInv, ReleaseLast
  <1>7. ASSUME NEW s \in Runs PROVE InLine(s)'
    BY <1>0, <1>3, <1>4 DEF LineInv, InLine
  <1>. QED
    BY <1>0, <1>5, <1>6, <1>7, StartersStill DEF LineInv

\* A waiter leaves the queue for the release that signals it, and that release for its channel.
LEMMA ReleaseLine ==
  ASSUME KeyInv, LineInv, NEW r \in Runs, ReleaseStep(r)
  PROVE  LineInv'
  <1>0. /\ UNCHANGED <<status, held, gaveUp, starter, waiter, exec, caller>>
        /\ rel[r].pc # "none" /\ \A s \in Runs : s # r => rel'[s] = rel[s]
    BY DEF ReleaseStep, ReleaseRows, WakeNext, Signal, KeyInv, TypeOK, memory
  <1>1. ASSUME NEW s \in Runs, Queued(s) \/ Popped(s) \/ s \in ready \cup gaveUp
        PROVE  (Queued(s) \/ Popped(s) \/ s \in ready \cup gaveUp)'
    <2>1. CASE ReleaseRows(r)
      <3>1. rel[r].pc # "signal" /\ UNCHANGED memory
        BY <2>1 DEF ReleaseRows
      <3>. QED
        BY <1>0, <1>1, <3>1 DEF Popped, Queued, memory
    <2>2. CASE WakeNext(r)
      <3>1. rel[r].pc = "wake" /\ UNCHANGED ready
        BY <2>2 DEF WakeNext
      <3>2. Popped(s) => Popped(s)'
        BY <1>0, <3>1 DEF Popped
      <3>3. CASE queue = <<>>
        BY <1>0, <1>1, <2>2, <3>1, <3>2, <3>3 DEF WakeNext, Queued
      <3>4. CASE queue # <<>>
        <4>1. /\ rel' = [rel EXCEPT ![r] = [pc |-> "signal", next |-> Head(queue)]]
              /\ queue' = Tail(queue)
          BY <2>2, <3>4 DEF WakeNext
        <4>2. Queued(s) => Queued(s)' \/ s = Head(queue)
          BY <3>4, <4>1, PopFacts DEF KeyInv
        <4>3. rel'[r].pc = "signal" /\ rel'[r].next = Head(queue)
          BY <4>1 DEF KeyInv, TypeOK
        <4>. QED
          BY <1>0, <1>1, <3>1, <3>2, <4>2, <4>3 DEF Popped
      <3>. QED
        BY <3>3, <3>4
    <2>3. CASE Signal(r)
      <3>1. UNCHANGED queue /\ ready \subseteq ready' /\ rel[r].next \in ready' \cup gaveUp
        BY <2>3 DEF Signal
      <3>2. Popped(s) => Popped(s)' \/ s = rel[r].next
        BY <1>0 DEF Popped
      <3>. QED
        BY <1>0, <1>1, <3>1, <3>2 DEF Queued
    <2>. QED
      BY <2>1, <2>2, <2>3 DEF ReleaseStep
  <1>2. ASSUME NEW s \in Runs PROVE StoredDone(s)' /\ ReleaseLast(s)' /\ InLine(s)'
    BY <1>0, <1>1 DEF LineInv, StoredDone, ReleaseLast, InLine
  <1>. QED
    BY <1>0, <1>2, StartersStill DEF LineInv

LEMMA CancelRunLine ==
  ASSUME KeyInv, LineInv, NEW r \in Runs, CancelRun(r)
  PROVE  LineInv'
  <1>0. /\ status[r] = "live" /\ UNCHANGED <<row, status, held, ready, starter, waiter, exec, rel>>
        /\ \A s \in Runs : s # r => caller'[s] = caller[s]
    BY DEF CancelRun, KeyInv, TypeOK
  <1>1. \A s \in Runs : Queued(s) \/ Popped(s) \/ s \in ready \cup gaveUp =>
            (Queued(s) \/ Popped(s) \/ s \in ready \cup gaveUp)'
    BY <1>0, AbandonLine DEF CancelRun
  <1>2. ASSUME NEW s \in Runs PROVE StoredDone(s)' /\ ReleaseLast(s)' /\ InLine(s)'
    BY <1>0, <1>1 DEF LineInv, StoredDone, ReleaseLast, InLine
  <1>. QED
    BY <1>0, <1>2, StartersStill DEF LineInv

LEMMA CrashLine ==
  ASSUME KeyInv, LineInv, Crash
  PROVE  LineInv'
  <1>1. \A s \in Runs : /\ starter'[s].pc \in {"idle", "done"}
                        /\ starter[s].pc = "done" => starter'[s].pc = "done"
    BY DEF Crash, At, KeyInv, TypeOK, StarterRec
  <1>2. /\ UNCHANGED status
        /\ \A s \in Runs : waiter'[s] = "none" /\ rel'[s].pc = "none" /\ caller'[s] = "none"
    BY DEF Crash
  <1>. QED
    BY <1>1, <1>2 DEF LineInv, StoredDone, HolderKnown, ReleaseLast, InLine

LEMMA LineInvInit == Init => LineInv
  <1>. SUFFICES ASSUME Init PROVE LineInv
    OBVIOUS
  <1>1. \A s \in Runs : starter[s].pc = "idle"
    BY DEF Init
  <1>. QED
    BY <1>1 DEF Init, LineInv, StoredDone, HolderKnown, ReleaseLast, InLine

LEMMA LineInvStep == KeyInv /\ LineInv /\ [Next]_vars => LineInv'
  <1>. SUFFICES ASSUME KeyInv, LineInv, [Next]_vars PROVE LineInv'
    OBVIOUS
  <1>1. CASE Crash
    BY <1>1, CrashLine
  <1>2. ASSUME NEW r \in Runs, Start(r) \/ StarterStep(r) PROVE LineInv'
    BY <1>2, LineStarterMoves, InspectLine, CheckHolderLine, ReplaceCancelLine, ReplaceCancelledLine,
       CreateLine, EnqueueLine, OverflowLine, CreateQueuedLine DEF StarterStep
  <1>3. ASSUME NEW r \in Runs, WaiterStep(r) \/ WaiterTimeout(r) PROVE LineInv'
    BY <1>3, WaiterStepLine
  <1>4. ASSUME NEW r \in Runs, ExecStep(r) \/ ReleaseStep(r) \/ CancelRun(r) \/ CancelStep(r) PROVE LineInv'
    BY <1>4, EndsLine, ReleaseLine, CancelRunLine
  <1>5. CASE UNCHANGED vars
    BY <1>5 DEF vars, memory, actors, LineInv, StoredDone, HolderKnown, ReleaseLast, InLine, Queued, Popped
  <1>. QED
    BY <1>1, <1>2, <1>3, <1>4, <1>5 DEF Next

\* A waiter that was neither woken nor given up keeps its place: it is in the queue, or a release
\* has popped it and is about to signal it, however the triggers, releases, cancels, timeouts and
\* failed starts of the key interleave (enqueueRun, wakeNextWaiter, removeWaiterLocked).
THEOREM NoWaiterLost == Spec => []WaiterInLine
  <1>1. KeyInv /\ LineInv => WaiterInLine
    BY DEF LineInv, InLine, WaiterInLine, Queued, Contains
  <1>. QED
    BY <1>1, LineInvInit, LineInvStep, KeyInvariance, PTL DEF Spec

============================================================================

----------------------------- MODULE AcpRunProofs -----------------------------
(***************************************************************************)
(* Proofs about AcpRun for every number of runs, steers and agent deaths:  *)
(* no agent process is left that nobody can reach (NoProcessStrays), and   *)
(* the parent waits for no run whose result cannot come any more           *)
(* (TrackingStaysFresh).                                                   *)
(***************************************************************************)
EXTENDS AcpRun, FiniteSetTheorems, SequenceTheorems, TLAPS

-----------------------------------------------------------------------------
(* The inductive invariant.                                                *)

SpawnRec == [pc : {"idle", "lookup", "dial", "pool", "session", "registered",
                   "launched", "track", "returned", "refused"},
             conn : Runs \cup {None}]
LiveRec == [status : {"absent"} \cup LiveStatus \cup EndStatus, closed : BOOLEAN,
            prompting : BOOLEAN, queued : 0..MaxSteers]

\* A tool call that spawns is part of a turn of the parent.
SpawnsInTurn ==
    \A r \in Runs : spawner[r].pc \notin {"idle", "refused", "returned"} => room = "turn"

\* The goroutine of a prompt is started once: by the spawn, or by its steer.
DriversFresh ==
    \A r \in Runs :
        /\ spawner[r].pc \notin {"launched", "track", "returned"} => driver[r][0] = "none"
        /\ \A k \in Steers : steer[r][k] \in {"idle", "direct"} => driver[r][k] = "none"

\* A run that was live when the spawn returned is live, or its result is on the way.
TrackedSoon == \A r \in Runs : At(r, "track") => Underway(r)

AcpInv == TypeOK /\ NoStrayProcess /\ SpawnsInTurn /\ DriversFresh /\ TrackedSoon /\ NoStaleTracking
-----------------------------------------------------------------------------
(* What the operations do to their variables.                              *)

\* EventLeft is the bound on what comes from outside.
LEMMA EventFacts ==
  ASSUME TypeOK, EventLeft
  PROVE  exits + 1 \in 0..MaxEvents
  <1>1. IsFiniteSet(Runs) /\ IsFiniteSet(Steers)
    BY AcpAssumption, FS_Interval DEF Steers
  <1>2. IsFiniteSet(Steered) /\ IsFiniteSet(Stopped)
    <2>1. IsFiniteSet(Runs \X Steers)
      BY <1>1, FS_Product
    <2>. QED
      BY <1>1, <2>1, FS_Subset DEF Steered, Stopped
  <1>3. Cardinality(Steered) \in Nat /\ Cardinality(Stopped) \in Nat
    BY <1>2, FS_CardinalityType
  <1>. QED
    BY <1>3, AcpAssumption DEF EventLeft, TypeOK

LEMMA GoesFacts ==
  ASSUME TypeOK, NEW r \in Runs,
         NEW pc \in {"idle", "lookup", "dial", "pool", "session", "registered",
                     "launched", "track", "returned", "refused"},
         Goes(r, pc)
  PROVE  /\ spawner' \in [Runs -> SpawnRec]
         /\ spawner'[r].pc = pc /\ spawner'[r].conn = spawner[r].conn
         /\ \A s \in Runs : s # r => spawner'[s] = spawner[s]
  <1>1. spawner \in [Runs -> SpawnRec]
    BY DEF TypeOK, SpawnRec
  <1>. DEFINE x == [spawner[r] EXCEPT !.pc = pc]
  <1>2. x \in SpawnRec /\ x.pc = pc /\ x.conn = spawner[r].conn
    BY <1>1 DEF SpawnRec
  <1>3. spawner' = [spawner EXCEPT ![r] = x]
    BY DEF Goes
  <1>. HIDE DEF x
  <1>. QED
    BY <1>1, <1>2, <1>3

\* The spawn of r goes to pc.
Moves(r, pc) ==
    /\ spawner' \in [Runs -> SpawnRec]
    /\ spawner'[r].pc = pc
    /\ \A s \in Runs : s # r => spawner'[s] = spawner[s]

LEMMA FailsFacts ==
  ASSUME TypeOK, NEW r \in Runs, Fails(r)
  PROVE  /\ Moves(r, "refused")
         /\ tracked' = tracked \cup {r} /\ queue' = Append(queue, r)
         /\ UNCHANGED <<delivery, room, results>>
  BY GoesFacts DEF Fails, Moves

LEMMA DriverFacts ==
  ASSUME TypeOK, NEW r \in Runs, NEW d \in Drivers,
         NEW pc \in {"none", "begin", "send", "prompt", "cancelling", "emit", "ended"},
         DriverGoes(r, d, pc)
  PROVE  /\ driver' \in [Runs -> [Drivers -> {"none", "begin", "send", "prompt", "cancelling", "emit",
                                             "ended"}]]
         /\ driver'[r][d] = pc
         /\ \A s \in Runs, e \in Drivers : <<s, e>> # <<r, d>> => driver'[s][e] = driver[s][e]
  BY DEF TypeOK, DriverGoes

\* A session/cancel takes prompts, and nothing but prompts.
LEMMA CancelFacts ==
  ASSUME TypeOK, NEW r \in Runs, CancelPrompts(r)
  PROVE  /\ driver' \in [Runs -> [Drivers -> {"none", "begin", "send", "prompt", "cancelling", "emit",
                                             "ended"}]]
         /\ \A s \in Runs, e \in Drivers : driver[s][e] # "prompt" => driver'[s][e] = driver[s][e]
  <1>. DEFINE x == [d \in Drivers |-> IF driver[r][d] = "prompt" THEN "cancelling" ELSE driver[r][d]]
  <1>1. driver' = [driver EXCEPT ![r] = x]
    BY DEF CancelPrompts
  <1>2. /\ x \in [Drivers -> {"none", "begin", "send", "prompt", "cancelling", "emit", "ended"}]
        /\ \A e \in Drivers : driver[r][e] # "prompt" => x[e] = driver[r][e]
    BY DEF TypeOK
  <1>. HIDE DEF x
  <1>. QED
    BY <1>1, <1>2 DEF TypeOK

\* finishLocked ends the run; it does not make one live that has ended.
LEMMA FinishedFacts ==
  ASSUME NEW l \in LiveRec, NEW status \in EndStatus
  PROVE  Finished(l, status) \in LiveRec
  BY DEF Finished, LiveRec

LEMMA AnsweredFacts ==
  ASSUME NEW l \in LiveRec
  PROVE  /\ Answered(l) \in LiveRec
         /\ Answered(l).status = l.status /\ Answered(l).closed = l.closed
  <1>1. 0 \in 0..MaxSteers
    BY AcpAssumption
  <1>. QED
    BY <1>1 DEF Answered, LiveRec
\* The result of r waits for the next round boundary of the parent.
Queued(r) == \E i \in DOMAIN queue : queue[i] = r

LEMMA QueueAppends ==
  ASSUME TypeOK, NEW r \in Runs, queue' = Append(queue, r)
  PROVE  /\ queue' \in Seq(Runs) /\ Queued(r)'
         /\ \A s \in Runs : Queued(s) => Queued(s)'
  <1>1. queue \in Seq(Runs) /\ Len(queue) \in Nat /\ DOMAIN queue = 1..Len(queue)
    BY LenProperties DEF TypeOK
  <1>2. /\ queue' \in Seq(Runs) /\ Len(queue') = Len(queue) + 1
        /\ \A i \in 1..Len(queue) : queue'[i] = queue[i]
        /\ queue'[Len(queue) + 1] = r
    BY <1>1, AppendProperties
  <1>3. DOMAIN queue' = 1..Len(queue) + 1
    BY <1>2, LenProperties
  <1>4. Queued(r)'
    <2>1. Len(queue) + 1 \in DOMAIN queue'
      BY <1>1, <1>3
    <2>. QED
      BY <1>2, <2>1 DEF Queued
  <1>5. ASSUME NEW s \in Runs, Queued(s)
        PROVE  Queued(s)'
    <2>1. PICK i \in 1..Len(queue) : queue[i] = s
      BY <1>1, <1>5 DEF Queued
    <2>2. i \in DOMAIN queue' /\ queue'[i] = s
      BY <1>1, <1>2, <1>3, <2>1
    <2>. QED
      BY <2>2 DEF Queued
  <1>. QED
    BY <1>2, <1>4, <1>5

\* What the parent's turn takes from the queue is no longer queued; everything else is.
LEMMA QueueTakes ==
  ASSUME TypeOK, queue # <<>>, queue' = Tail(queue)
  PROVE  /\ queue' \in Seq(Runs) /\ Head(queue) \in Runs
         /\ \A s \in Runs : Queued(s) /\ s # Head(queue) => Queued(s)'
  <1>1. queue \in Seq(Runs) /\ Len(queue) \in Nat /\ DOMAIN queue = 1..Len(queue)
    BY LenProperties DEF TypeOK
  <1>2. /\ queue' \in Seq(Runs) /\ Head(queue) \in Runs /\ Len(queue') = Len(queue) - 1
        /\ \A i \in 1..Len(queue') : queue'[i] = queue[i + 1]
    BY <1>1, HeadTailProperties
  <1>3. DOMAIN queue' = 1..Len(queue) - 1
    BY <1>2, LenProperties
  <1>4. ASSUME NEW s \in Runs, Queued(s), s # Head(queue)
        PROVE  Queued(s)'
    <2>1. PICK i \in 1..Len(queue) : queue[i] = s
      BY <1>1, <1>4 DEF Queued
    <2>2. i # 1
      BY <1>1, <1>4, <2>1
    <2>3. i - 1 \in 1..Len(queue') /\ i - 1 + 1 = i
      BY <1>1, <1>2, <2>1, <2>2
    <2>4. i - 1 \in DOMAIN queue' /\ queue'[i - 1] = s
      BY <1>2, <1>3, <2>1, <2>3
    <2>. QED
      BY <2>4 DEF Queued
  <1>. QED
    BY <1>2, <1>4

-----------------------------------------------------------------------------
(* A step of a spawn.                                                      *)

\* What a spawn does to the result it hands over, if it fails, and to the tracked runs.
Hands(r) ==
    \/ UNCHANGED <<tracked, queue>>
    \/ tracked' = tracked \cup {r} /\ queue' = Append(queue, r)
    \/ At(r, "track") /\ tracked' = tracked \cup {r} /\ queue' = queue

LEMMA SpawnKeeps ==
  ASSUME AcpInv, NEW r \in Runs, NEW pc, Moves(r, pc), Hands(r),
         UNCHANGED <<exits, steer, stop, delivery, room, results>>,
         pool' \in Runs \cup {None}, open' \subseteq Runs,
         \A c \in open' : pool' = c \/ spawner'[c].pc = "pool",
         lr' \in [Runs -> LiveRec], \A s \in Runs : Live(s) => Live(s)',
         \/ driver' = driver
         \/ pc = "launched" /\ driver[r][0] = "none" /\ DriverGoes(r, 0, "begin"),
         pc \notin {"idle", "refused", "returned"} => room = "turn",
         pc \notin {"launched", "track", "returned"} => spawner[r].pc \notin {"launched", "track", "returned"},
         pc = "track" => Live(r)
  PROVE  AcpInv'
  <1>0. TypeOK /\ 0 \in Drivers /\ Steers \subseteq Drivers /\ 0 \notin Steers
    BY AcpAssumption DEF AcpInv, Drivers, Steers
  <1>1. /\ driver' \in [Runs -> [Drivers -> {"none", "begin", "send", "prompt", "cancelling", "emit",
                                            "ended"}]]
        /\ \A s \in Runs, d \in Drivers : <<s, d>> # <<r, 0>> => driver'[s][d] = driver[s][d]
        /\ driver[r][0] # "none" => driver' = driver
        /\ driver'[r][0] # driver[r][0] => pc = "launched"
    <2>1. CASE driver' = driver
      BY <1>0, <2>1 DEF TypeOK
    <2>2. CASE pc = "launched" /\ driver[r][0] = "none" /\ DriverGoes(r, 0, "begin")
      BY <1>0, <2>2, DriverFacts
    <2>. QED
      BY <2>1, <2>2
  <1>2. /\ queue' \in Seq(Runs) /\ tracked' \subseteq Runs
        /\ \A s \in Runs : Queued(s) => Queued(s)'
        /\ \A s \in tracked' : s \in tracked \/ (s = r /\ (At(r, "track") \/ Queued(r)'))
    <2>1. CASE UNCHANGED <<tracked, queue>>
      BY <1>0, <2>1 DEF TypeOK, Queued
    <2>2. CASE tracked' = tracked \cup {r} /\ queue' = Append(queue, r)
      <3>1. tracked' \subseteq Runs
        BY <1>0, <2>2 DEF TypeOK
      <3>. QED
        BY <1>0, <2>2, <3>1, QueueAppends
    <2>3. CASE At(r, "track") /\ tracked' = tracked \cup {r} /\ queue' = queue
      BY <1>0, <2>3 DEF TypeOK, Queued
    <2>. QED
      BY <2>1, <2>2, <2>3 DEF Hands
  <1>3. TypeOK'
    BY <1>0, <1>1, <1>2 DEF TypeOK, Moves, SpawnRec, LiveRec
  <1>4. ASSUME NEW s \in Runs, Underway(s)
        PROVE  Underway(s)'
    <2>1. Live(s) \/ delivery[s] > 0 \/ stop[s] \in {"finish", "emit"} \/ Queued(s)
          \/ \E d \in Drivers : driver[s][d] = "emit"
      BY <1>4 DEF Underway, Queued
    <2>2. CASE Live(s)
      BY <2>2 DEF Underway
    <2>3. CASE delivery[s] > 0 \/ stop[s] \in {"finish", "emit"}
      BY <2>3 DEF Underway
    <2>4. CASE Queued(s)
      <3>1. Queued(s)'
        BY <1>2, <2>4
      <3>. QED
        BY <3>1 DEF Underway, Queued
    <2>5. ASSUME NEW d \in Drivers, driver[s][d] = "emit"
          PROVE  Underway(s)'
      <3>1. driver'[s][d] = "emit"
        BY <1>0, <1>1, <2>5
      <3>. QED
        BY <3>1 DEF Underway
    <2>. QED
      BY <2>1, <2>2, <2>3, <2>4, <2>5
  <1>6. NoStrayProcess'
    BY DEF NoStrayProcess, At
  <1>7. SpawnsInTurn'
    BY DEF AcpInv, SpawnsInTurn, Moves
  <1>8. DriversFresh'
    <2>1. ASSUME NEW s \in Runs, spawner'[s].pc \notin {"launched", "track", "returned"}
          PROVE  driver'[s][0] = "none"
      <3>1. CASE s = r
        <4>1. driver[r][0] = "none"
          BY <2>1, <3>1 DEF AcpInv, DriversFresh, Moves
        <4>. QED
          BY <1>0, <1>1, <2>1, <3>1, <4>1 DEF Moves
      <3>2. CASE s # r
        BY <1>0, <1>1, <2>1, <3>2 DEF AcpInv, DriversFresh, Moves
      <3>. QED
        BY <3>1, <3>2
    <2>2. ASSUME NEW s \in Runs, NEW k \in Steers, steer'[s][k] \in {"idle", "direct"}
          PROVE  driver'[s][k] = "none"
      <3>1. driver[s][k] = "none"
        BY <2>2 DEF AcpInv, DriversFresh
      <3>2. k \in Drivers /\ k # 0
        BY <1>0
      <3>. QED
        BY <1>1, <3>1, <3>2
    <2>. QED
      BY <2>1, <2>2 DEF DriversFresh
  <1>9. TrackedSoon'
    <2>. SUFFICES ASSUME NEW s \in Runs, At(s, "track")'
                  PROVE  Underway(s)'
      BY DEF TrackedSoon
    <2>1. CASE s = r
      <3>1. Underway(r)
        BY <2>1 DEF Underway, Moves, At
      <3>. QED
        BY <1>4, <2>1, <3>1
    <2>2. CASE s # r
      <3>1. At(s, "track")
        BY <2>2 DEF At, Moves
      <3>. QED
        BY <1>4, <3>1 DEF AcpInv, TrackedSoon
    <2>. QED
      BY <2>1, <2>2
  <1>10. NoStaleTracking'
    <2>. SUFFICES ASSUME NEW s \in tracked'
                  PROVE  Underway(s)'
      BY DEF NoStaleTracking
    <2>0. s \in Runs
      BY <1>2
    <2>1. CASE s \in tracked \/ At(s, "track")
      <3>1. Underway(s)
        BY <2>0, <2>1 DEF AcpInv, NoStaleTracking, TrackedSoon
      <3>. QED
        BY <1>4, <2>0, <3>1
    <2>2. CASE Queued(s)'
      BY <2>2 DEF Underway, Queued
    <2>. QED
      BY <1>2, <2>1, <2>2
  <1>. QED
    BY <1>3, <1>6, <1>7, <1>8, <1>9, <1>10 DEF AcpInv

\* A spawn that only moves on, or fails.
LEMMA SpawnMovesKeeps ==
  ASSUME AcpInv, NEW r \in Runs, NEW pc, Moves(r, pc), Hands(r),
         UNCHANGED <<exits, runVars, delivery, room, results>>,
         pool' \in Runs \cup {None}, open' \subseteq Runs,
         \A c \in open' : pool' = c \/ spawner'[c].pc = "pool",
         pc \notin {"idle", "refused", "returned"} => room = "turn",
         pc \notin {"launched", "track", "returned"} => spawner[r].pc \notin {"launched", "track", "returned"},
         pc = "track" => Live(r)
  PROVE  AcpInv'
  <1>1. lr' \in [Runs -> LiveRec] /\ \A s \in Runs : Live(s) => Live(s)'
    BY DEF AcpInv, TypeOK, LiveRec, Live, runVars
  <1>2. UNCHANGED <<exits, steer, stop, delivery, room, results>> /\ driver' = driver
    BY DEF runVars
  <1>. QED
    BY <1>1, <1>2, SpawnKeeps

\* No process of the pool is touched.
LEMMA PoolKept ==
  ASSUME AcpInv, NEW r \in Runs, NEW pc, Moves(r, pc), UNCHANGED <<pool, open>>, ~At(r, "pool")
  PROVE  /\ pool' \in Runs \cup {None} /\ open' \subseteq Runs
         /\ \A c \in open' : pool' = c \/ spawner'[c].pc = "pool"
  BY DEF AcpInv, TypeOK, NoStrayProcess, At, Moves

LEMMA SpawnBeginKeeps ==
  ASSUME AcpInv, NEW r \in Runs, SpawnCheck(r) \/ SpawnLookup(r)
  PROVE  AcpInv'
  <1>0. TypeOK /\ SpawnsInTurn
    BY DEF AcpInv
  <1>1. UNCHANGED <<pool, open, exits, runVars, delivery, room, results>>
    BY FailsFacts, <1>0 DEF SpawnCheck, SpawnLookup, parentVars
  <1>2. room = "turn" /\ spawner[r].pc \in {"idle", "lookup"}
    BY DEF AcpInv, SpawnsInTurn, SpawnCheck, SpawnLookup, At
  <1>3. PICK pc \in {"lookup", "refused", "dial", "session"} : Moves(r, pc) /\ Hands(r)
    <2>1. CASE SpawnCheck(r) /\ Fails(r)
      BY <1>0, <2>1, FailsFacts DEF Hands
    <2>2. CASE SpawnCheck(r) /\ ~Fails(r)
      <3>1. Goes(r, "lookup") /\ UNCHANGED parentVars
        BY <2>2 DEF SpawnCheck
      <3>. QED
        BY <1>0, <3>1, GoesFacts DEF Moves, Hands, parentVars
    <2>3. CASE SpawnLookup(r)
      <3>1. PICK x \in SpawnRec : x.pc \in {"dial", "session"} /\ spawner' = [spawner EXCEPT ![r] = x]
        <4>. DEFINE y == IF pool = None THEN [pc |-> "dial", conn |-> None] ELSE [pc |-> "session", conn |-> pool]
        <4>1. y \in SpawnRec /\ y.pc \in {"dial", "session"}
          BY <1>0 DEF TypeOK, SpawnRec
        <4>2. spawner' = [spawner EXCEPT ![r] = y]
          BY <2>3 DEF SpawnLookup
        <4>. QED
          BY <4>1, <4>2
      <3>2. Moves(r, x.pc)
        BY <1>0, <3>1 DEF Moves, TypeOK, SpawnRec
      <3>. QED
        BY <2>3, <3>1, <3>2 DEF SpawnLookup, Hands, parentVars
    <2>. QED
      BY <2>1, <2>2, <2>3
  <1>4. /\ pool' \in Runs \cup {None} /\ open' \subseteq Runs
        /\ \A c \in open' : pool' = c \/ spawner'[c].pc = "pool"
    BY <1>1, <1>2, <1>3, PoolKept DEF At
  <1>. QED
    BY <1>1, <1>2, <1>3, <1>4, SpawnMovesKeeps

\* The connection that is dialed is pooled or closed.
LEMMA SpawnConnectKeeps ==
  ASSUME AcpInv, NEW r \in Runs, SpawnDial(r) \/ SpawnPool(r)
  PROVE  AcpInv'
  <1>0. TypeOK /\ SpawnsInTurn /\ NoStrayProcess
    BY DEF AcpInv
  <1>1. UNCHANGED <<exits, runVars, delivery, room, results>>
    BY FailsFacts, <1>0 DEF SpawnDial, SpawnPool, parentVars
  <1>2. room = "turn" /\ spawner[r].pc \in {"dial", "pool"}
    BY <1>0 DEF SpawnsInTurn, SpawnDial, SpawnPool, At
  <1>3. PICK pc \in {"pool", "refused", "session"} :
          /\ Moves(r, pc) /\ Hands(r)
          /\ pool' \in Runs \cup {None} /\ open' \subseteq Runs
          /\ \A c \in open' : pool' = c \/ spawner'[c].pc = "pool"
    <2>1. CASE SpawnDial(r) /\ Fails(r) /\ open' = open
      <3>1. Moves(r, "refused") /\ Hands(r)
        BY <1>0, <2>1, FailsFacts DEF Hands
      <3>. QED
        BY <2>1, <3>1, PoolKept DEF SpawnDial, At
    <2>2. CASE SpawnDial(r) /\ ~(Fails(r) /\ open' = open)
      <3>1. At(r, "dial") /\ Goes(r, "pool") /\ open' = open \cup {r} /\ pool' = pool /\ UNCHANGED parentVars
        BY <2>2 DEF SpawnDial
      <3>2. Moves(r, "pool") /\ Hands(r)
        BY <1>0, <3>1, GoesFacts DEF Moves, Hands, parentVars
      <3>3. \A c \in open' : pool' = c \/ spawner'[c].pc = "pool"
        BY <1>0, <3>1, <3>2 DEF Moves, NoStrayProcess, At, TypeOK
      <3>. QED
        BY <1>0, <3>1, <3>2, <3>3 DEF TypeOK
    <2>3. CASE SpawnPool(r)
      <3>1. /\ pool' = IF pool = None THEN r ELSE pool
            /\ open' = IF pool = None THEN open ELSE open \ {r}
            /\ UNCHANGED parentVars
        BY <2>3 DEF SpawnPool
      <3>2. pool' \in Runs \cup {None} /\ open' \subseteq Runs
        BY <1>0, <3>1 DEF TypeOK
      <3>. DEFINE x == [pc |-> "session", conn |-> pool']
      <3>3. x \in SpawnRec /\ x.pc = "session"
        BY <3>2 DEF SpawnRec
      <3>4. spawner' = [spawner EXCEPT ![r] = x]
        BY <2>3 DEF SpawnPool
      <3>. HIDE DEF x
      <3>5. Moves(r, "session")
        BY <1>0, <3>3, <3>4 DEF Moves, TypeOK, SpawnRec
      <3>6. \A c \in open' : pool' = c \/ spawner'[c].pc = "pool"
        BY <1>0, <3>1, <3>5, AcpAssumption DEF Moves, NoStrayProcess, At, TypeOK
      <3>. QED
        BY <3>1, <3>2, <3>5, <3>6 DEF Hands, parentVars
    <2>. QED
      BY <2>1, <2>2, <2>3
  <1>. QED
    BY <1>1, <1>2, <1>3, SpawnMovesKeeps

LEMMA SpawnSessionKeeps ==
  ASSUME AcpInv, NEW r \in Runs, SpawnSession(r)
  PROVE  AcpInv'
  <1>0. TypeOK /\ SpawnsInTurn /\ room = "turn" /\ spawner[r].pc = "session"
    BY DEF AcpInv, SpawnsInTurn, SpawnSession, At
  <1>1. UNCHANGED <<pool, open, exits, driver, steer, stop, delivery, room, results>>
    BY FailsFacts, <1>0 DEF SpawnSession, parentVars
  <1>2. PICK pc \in {"registered", "refused"} : Moves(r, pc) /\ Hands(r)
    <2>1. CASE Fails(r)
      BY <1>0, <2>1, FailsFacts DEF Hands
    <2>2. CASE ~Fails(r)
      <3>1. Goes(r, "registered") /\ UNCHANGED parentVars
        BY <2>2 DEF SpawnSession
      <3>. QED
        BY <1>0, <3>1, GoesFacts DEF Moves, Hands, parentVars
    <2>. QED
      BY <2>1, <2>2
  <1>3. lr' \in [Runs -> LiveRec] /\ \A s \in Runs : Live(s) => Live(s)'
    <2>0. lr \in [Runs -> LiveRec]
      BY <1>0 DEF TypeOK, LiveRec
    <2>1. CASE lr' = lr
      BY <2>0, <2>1 DEF Live
    <2>2. CASE lr' # lr
      <3>. DEFINE x == [lr[r] EXCEPT !.status = "running"]
      <3>1. lr' = [lr EXCEPT ![r] = x]
        BY <2>2 DEF SpawnSession
      <3>2. x \in LiveRec /\ x.status = "running"
        BY <2>0 DEF LiveRec, LiveStatus
      <3>. HIDE DEF x
      <3>. QED
        BY <2>0, <3>1, <3>2 DEF Live, LiveStatus
    <2>. QED
      BY <2>1, <2>2
  <1>4. /\ pool' \in Runs \cup {None} /\ open' \subseteq Runs
        /\ \A c \in open' : pool' = c \/ spawner'[c].pc = "pool"
    BY <1>0, <1>1, <1>2, PoolKept DEF At
  <1>. QED
    BY <1>0, <1>1, <1>2, <1>3, <1>4, SpawnKeeps

LEMMA SpawnLaunchKeeps ==
  ASSUME AcpInv, NEW r \in Runs, SpawnLaunch(r)
  PROVE  AcpInv'
  <1>0. TypeOK /\ SpawnsInTurn /\ room = "turn" /\ spawner[r].pc = "registered" /\ driver[r][0] = "none"
    BY DEF AcpInv, SpawnsInTurn, DriversFresh, SpawnLaunch, At
  <1>1. /\ UNCHANGED <<pool, open, exits, lr, steer, stop, delivery, room, results>>
        /\ Goes(r, "launched") /\ DriverGoes(r, 0, "begin") /\ Hands(r)
    BY DEF SpawnLaunch, parentVars, DriverGoes, Hands
  <1>2. Moves(r, "launched")
    BY <1>0, <1>1, GoesFacts DEF Moves
  <1>3. lr' \in [Runs -> LiveRec] /\ \A s \in Runs : Live(s) => Live(s)'
    BY <1>0, <1>1 DEF TypeOK, LiveRec, Live
  <1>4. /\ pool' \in Runs \cup {None} /\ open' \subseteq Runs
        /\ \A c \in open' : pool' = c \/ spawner'[c].pc = "pool"
    BY <1>0, <1>1, <1>2, PoolKept DEF At
  <1>. QED
    BY <1>0, <1>1, <1>2, <1>3, <1>4, SpawnKeeps

\* A run that has ended when the spawn returns is not tracked.
LEMMA SpawnReturnKeeps ==
  ASSUME AcpInv, NEW r \in Runs, SpawnReturn(r) \/ SpawnTrack(r)
  PROVE  AcpInv'
  <1>0. TypeOK /\ SpawnsInTurn /\ room = "turn" /\ spawner[r].pc \in {"launched", "track"}
    BY DEF AcpInv, SpawnsInTurn, SpawnReturn, SpawnTrack, At
  <1>1. UNCHANGED <<pool, open, exits, runVars, delivery, room, results>>
    BY DEF SpawnReturn, SpawnTrack, parentVars
  <1>2. PICK pc \in {"track", "returned"} : Moves(r, pc) /\ Hands(r) /\ (pc = "track" => Live(r))
    <2>1. CASE SpawnReturn(r) /\ Live(r)
      <3>1. Goes(r, "track") /\ UNCHANGED <<tracked, queue>>
        BY <2>1 DEF SpawnReturn, parentVars
      <3>. QED
        BY <1>0, <2>1, <3>1, GoesFacts DEF Moves, Hands
    <2>2. CASE SpawnReturn(r) /\ ~Live(r)
      <3>1. Goes(r, "returned") /\ UNCHANGED <<tracked, queue>>
        BY <2>2 DEF SpawnReturn, parentVars
      <3>. QED
        BY <1>0, <3>1, GoesFacts DEF Moves, Hands
    <2>3. CASE SpawnTrack(r)
      <3>1. Goes(r, "returned") /\ At(r, "track") /\ tracked' = tracked \cup {r} /\ queue' = queue
        BY <2>3 DEF SpawnTrack
      <3>. QED
        BY <1>0, <3>1, GoesFacts DEF Moves, Hands
    <2>. QED
      BY <2>1, <2>2, <2>3
  <1>3. /\ pool' \in Runs \cup {None} /\ open' \subseteq Runs
        /\ \A c \in open' : pool' = c \/ spawner'[c].pc = "pool"
    BY <1>0, <1>1, <1>2, PoolKept DEF At
  <1>. QED
    BY <1>0, <1>1, <1>2, <1>3, SpawnMovesKeeps

-----------------------------------------------------------------------------
(* A step of a run: its prompts, its steers, its stop.                     *)

LEMMA LiveFacts ==
  ASSUME TypeOK, NEW r \in Runs, NEW l \in LiveRec, lr' = [lr EXCEPT ![r] = l]
  PROVE  /\ lr' \in [Runs -> LiveRec] /\ lr'[r] = l
         /\ \A s \in Runs : s # r => lr'[s] = lr[s]
  BY DEF TypeOK, LiveRec

LEMMA SteerFacts ==
  ASSUME TypeOK, NEW r \in Runs, NEW k \in Steers, NEW pc \in {"idle", "refused", "cancel", "direct", "done"},
         steer' = [steer EXCEPT ![r][k] = pc]
  PROVE  /\ steer' \in [Runs -> [Steers -> {"idle", "refused", "cancel", "direct", "done"}]]
         /\ steer'[r][k] = pc
         /\ \A s \in Runs, j \in Steers : <<s, j>> # <<r, k>> => steer'[s][j] = steer[s][j]
  BY DEF TypeOK

\* What keeps the result of s on its way.
LEMMA UnderwaySteady ==
  ASSUME NEW s \in Runs, Underway(s), queue' = queue,
         Live(s) => Live(s)',
         delivery[s] > 0 => delivery'[s] > 0,
         stop[s] \in {"finish", "emit"} => stop'[s] \in {"finish", "emit"},
         \A d \in Drivers : driver[s][d] = "emit" => driver'[s][d] = "emit"
  PROVE  Underway(s)'
  BY DEF Underway

LEMMA RunKeeps ==
  ASSUME AcpInv, UNCHANGED <<spawnVars, tracked, room, queue, results>>,
         lr' \in [Runs -> LiveRec],
         driver' \in [Runs -> [Drivers -> {"none", "begin", "send", "prompt", "cancelling", "emit",
                                          "ended"}]],
         steer' \in [Runs -> [Steers -> {"idle", "refused", "cancel", "direct", "done"}]],
         stop' \in [Runs -> {"idle", "finish", "emit", "done"}],
         delivery' \in [Runs -> Nat],
         DriversFresh', \A s \in Runs : Underway(s) => Underway(s)'
  PROVE  AcpInv'
  <1>1. TypeOK'
    BY DEF AcpInv, TypeOK, LiveRec, spawnVars
  <1>2. NoStrayProcess' /\ SpawnsInTurn'
    BY DEF AcpInv, NoStrayProcess, SpawnsInTurn, At, spawnVars
  <1>3. TrackedSoon' /\ NoStaleTracking'
    <2>1. tracked \subseteq Runs
      BY DEF AcpInv, TypeOK
    <2>. QED
      BY <2>1 DEF AcpInv, TrackedSoon, NoStaleTracking, At, spawnVars
  <1>. QED
    BY <1>1, <1>2, <1>3 DEF AcpInv

\* A goroutine that runs does not start another.
LEMMA DriverMoved ==
  ASSUME AcpInv, NEW r \in Runs, NEW d \in Drivers,
         NEW pc \in {"none", "begin", "send", "prompt", "cancelling", "emit", "ended"},
         DriverGoes(r, d, pc), driver[r][d] # "none", UNCHANGED <<spawner, steer>>
  PROVE  DriversFresh'
  <1>1. 0 \in Drivers /\ Steers \subseteq Drivers
    BY AcpAssumption DEF Drivers, Steers
  <1>2. \A s \in Runs, e \in Drivers : driver[s][e] = "none" => driver'[s][e] = "none"
    BY DriverFacts DEF AcpInv
  <1>. QED
    BY <1>1, <1>2 DEF AcpInv, DriversFresh

LEMMA DriveKeeps ==
  ASSUME AcpInv, NEW r \in Runs, NEW d \in Drivers, Driving(r, d)
  PROVE  AcpInv'
  <1>0. TypeOK /\ lr \in [Runs -> LiveRec]
    BY DEF AcpInv, TypeOK, LiveRec
  <1>1. UNCHANGED <<spawnVars, steer, stop, tracked, room, queue, results>> /\ driver[r][d] # "none"
    BY DEF Driving, DriveBegin, DriveSend, DriveEmit, parentVars
  <1>2. PICK pc \in {"ended", "send", "prompt"} : DriverGoes(r, d, pc)
    BY DEF Driving, DriveBegin, DriveSend, DriveEmit
  <1>3. lr' \in [Runs -> LiveRec] /\ \A s \in Runs : lr'[s].status = lr[s].status
    <2>1. CASE lr' = lr
      BY <1>0, <2>1
    <2>2. CASE lr' # lr
      <3>. DEFINE x == [lr[r] EXCEPT !.prompting = TRUE]
      <3>1. lr' = [lr EXCEPT ![r] = x]
        BY <2>2 DEF Driving, DriveBegin, DriveSend, DriveEmit
      <3>2. x \in LiveRec /\ x.status = lr[r].status
        BY <1>0 DEF LiveRec
      <3>. HIDE DEF x
      <3>. QED
        BY <1>0, <3>1, <3>2, LiveFacts
    <2>. QED
      BY <2>1, <2>2
  <1>4. /\ delivery' \in [Runs -> Nat] /\ \A s \in Runs : delivery[s] > 0 => delivery'[s] > 0
        /\ driver[r][d] = "emit" => delivery'[r] > 0
    <2>1. CASE DriveEmit(r, d)
      BY <1>0, <2>1 DEF DriveEmit, EmitDone, TypeOK
    <2>2. CASE ~DriveEmit(r, d)
      BY <1>0, <2>2 DEF Driving, DriveBegin, DriveSend, parentVars, TypeOK
    <2>. QED
      BY <2>1, <2>2
  <1>5. DriversFresh'
    BY <1>1, <1>2, DriverMoved DEF spawnVars
  <1>6. ASSUME NEW s \in Runs, Underway(s)
        PROVE  Underway(s)'
    <2>1. CASE s = r /\ driver[r][d] = "emit"
      BY <1>4, <2>1 DEF Underway
    <2>2. CASE ~(s = r /\ driver[r][d] = "emit")
      <3>1. \A e \in Drivers : driver[s][e] = "emit" => driver'[s][e] = "emit"
        BY <1>0, <1>2, <2>2, DriverFacts
      <3>2. Live(s) => Live(s)'
        BY <1>3 DEF Live
      <3>. QED
        BY <1>1, <1>4, <1>6, <3>1, <3>2, UnderwaySteady
    <2>. QED
      BY <2>1, <2>2
  <1>7. /\ steer' \in [Runs -> [Steers -> {"idle", "refused", "cancel", "direct", "done"}]]
        /\ stop' \in [Runs -> {"idle", "finish", "emit", "done"}]
        /\ driver' \in [Runs -> [Drivers -> {"none", "begin", "send", "prompt", "cancelling", "emit", "ended"}]]
    BY <1>0, <1>1, <1>2, DriverFacts DEF TypeOK
  <1>. QED
    BY <1>1, <1>3, <1>4, <1>5, <1>6, <1>7, RunKeeps

\* The answer ends the run, which is then about to be told, or the run goes on.
LEMMA DriveAnswerKeeps ==
  ASSUME AcpInv, NEW r \in Runs, NEW d \in Drivers, DriveAnswer(r, d)
  PROVE  AcpInv'
  <1>0. TypeOK /\ lr \in [Runs -> LiveRec]
    BY DEF AcpInv, TypeOK, LiveRec
  <1>1. /\ UNCHANGED <<spawnVars, steer, stop, delivery, tracked, room, queue, results>>
        /\ driver[r][d] \in {"prompt", "cancelling"}
    BY DEF DriveAnswer, parentVars
  <1>2. PICK outcome \in EndStatus, l \in LiveRec, pc \in {"ended", "begin", "emit"} :
          /\ DriverGoes(r, d, pc) /\ lr' = [lr EXCEPT ![r] = l]
          /\ pc = "emit" \/ (Live(r) => l.status = "running")
    <2>. DEFINE a == Answered(lr[r])
    <2>0. a \in LiveRec /\ a.status = lr[r].status
      BY <1>0, AnsweredFacts
    <2>1. PICK outcome \in EndStatus :
            \/ lr' = [lr EXCEPT ![r] = a] /\ DriverGoes(r, d, "ended")
            \/ lr' = [lr EXCEPT ![r] = [a EXCEPT !.status = "running"]] /\ DriverGoes(r, d, "begin")
            \/ lr' = [lr EXCEPT ![r] = Finished(a, outcome)] /\ DriverGoes(r, d, "emit")
      BY DEF DriveAnswer, Outcomes, EndStatus
    <2>. HIDE DEF a
    <2>2. [a EXCEPT !.status = "running"] \in LiveRec /\ [a EXCEPT !.status = "running"].status = "running"
      BY <2>0 DEF LiveRec, LiveStatus
    <2>3. Finished(a, outcome) \in LiveRec
      BY <2>0, FinishedFacts
    <2>4. Live(r) => a.status = "running"
      BY <2>0 DEF Live, LiveStatus
    <2>. QED
      BY <2>0, <2>1, <2>2, <2>3, <2>4
  <1>3. /\ lr' \in [Runs -> LiveRec] /\ lr'[r] = l
        /\ \A s \in Runs : s # r => lr'[s] = lr[s]
    BY <1>0, <1>2, LiveFacts
  <1>4. DriversFresh'
    BY <1>1, <1>2, DriverMoved DEF spawnVars
  <1>5. ASSUME NEW s \in Runs, Underway(s)
        PROVE  Underway(s)'
    <2>1. CASE s = r /\ pc = "emit"
      <3>1. driver'[r][d] = "emit"
        BY <1>0, <1>2, <2>1, DriverFacts
      <3>. QED
        BY <2>1, <3>1 DEF Underway
    <2>2. CASE ~(s = r /\ pc = "emit")
      <3>1. \A e \in Drivers : driver[s][e] = "emit" => driver'[s][e] = "emit"
        BY <1>0, <1>1, <1>2, DriverFacts
      <3>2. Live(s) => Live(s)'
        BY <1>2, <1>3, <2>2 DEF Live, LiveStatus
      <3>. QED
        BY <1>1, <1>5, <3>1, <3>2, UnderwaySteady
    <2>. QED
      BY <2>1, <2>2
  <1>6. /\ steer' \in [Runs -> [Steers -> {"idle", "refused", "cancel", "direct", "done"}]]
        /\ stop' \in [Runs -> {"idle", "finish", "emit", "done"}] /\ delivery' \in [Runs -> Nat]
        /\ driver' \in [Runs -> [Drivers -> {"none", "begin", "send", "prompt", "cancelling", "emit", "ended"}]]
    BY <1>0, <1>1, <1>2, DriverFacts DEF TypeOK
  <1>. QED
    BY <1>1, <1>3, <1>4, <1>5, <1>6, RunKeeps

\* A steer that is accepted finds the place of its own goroutine free.
LEMMA SteerAcceptKeeps ==
  ASSUME AcpInv, NEW r \in Runs, NEW k \in Steers, SteerAccept(r, k)
  PROVE  AcpInv'
  <1>0. TypeOK /\ lr \in [Runs -> LiveRec] /\ k \in 0..MaxSteers
    BY AcpAssumption DEF AcpInv, TypeOK, LiveRec, Steers
  <1>1. /\ UNCHANGED <<spawnVars, driver, stop, delivery, tracked, room, queue, results>>
        /\ steer[r][k] = "idle"
    BY DEF SteerAccept, parentVars
  <1>2. PICK pc \in {"refused", "cancel", "direct"} : steer' = [steer EXCEPT ![r][k] = pc]
    BY DEF SteerAccept
  <1>3. lr' \in [Runs -> LiveRec] /\ \A s \in Runs : lr'[s].status = lr[s].status
    <2>1. CASE lr' = lr
      BY <1>0, <2>1
    <2>2. CASE lr' # lr
      <3>. DEFINE x == [lr[r] EXCEPT !.queued = k]
      <3>1. lr' = [lr EXCEPT ![r] = x]
        BY <2>2 DEF SteerAccept
      <3>2. x \in LiveRec /\ x.status = lr[r].status
        BY <1>0 DEF LiveRec
      <3>. HIDE DEF x
      <3>. QED
        BY <1>0, <3>1, <3>2, LiveFacts
    <2>. QED
      BY <2>1, <2>2
  <1>4. /\ steer' \in [Runs -> [Steers -> {"idle", "refused", "cancel", "direct", "done"}]]
        /\ \A s \in Runs, j \in Steers : <<s, j>> # <<r, k>> => steer'[s][j] = steer[s][j]
    BY <1>0, <1>2, SteerFacts
  <1>5. DriversFresh'
    BY <1>1, <1>4 DEF AcpInv, DriversFresh, spawnVars
  <1>6. ASSUME NEW s \in Runs, Underway(s)
        PROVE  Underway(s)'
    <2>1. Live(s) => Live(s)'
      BY <1>3 DEF Live
    <2>. QED
      BY <1>1, <1>6, <2>1, UnderwaySteady
  <1>7. /\ stop' \in [Runs -> {"idle", "finish", "emit", "done"}] /\ delivery' \in [Runs -> Nat]
        /\ driver' \in [Runs -> [Drivers -> {"none", "begin", "send", "prompt", "cancelling", "emit", "ended"}]]
    BY <1>0, <1>1 DEF TypeOK
  <1>. QED
    BY <1>1, <1>3, <1>4, <1>5, <1>6, <1>7, RunKeeps

\* A session/cancel for a steer or for a stop.
LEMMA CancelKeeps ==
  ASSUME AcpInv, NEW r \in Runs, StopCancel(r) \/ \E k \in Steers : SteerCancel(r, k)
  PROVE  AcpInv'
  <1>0. TypeOK /\ lr \in [Runs -> LiveRec] /\ 0 \in Drivers /\ Steers \subseteq Drivers
    BY AcpAssumption DEF AcpInv, TypeOK, LiveRec, Drivers, Steers
  <1>1. /\ UNCHANGED <<spawnVars, lr, delivery, tracked, room, queue, results>>
        /\ CancelPrompts(r)
    BY DEF StopCancel, SteerCancel, parentVars
  <1>2. /\ driver' \in [Runs -> [Drivers -> {"none", "begin", "send", "prompt", "cancelling", "emit", "ended"}]]
        /\ \A s \in Runs, e \in Drivers : driver[s][e] # "prompt" => driver'[s][e] = driver[s][e]
    BY <1>0, <1>1, CancelFacts
  <1>3. /\ steer' \in [Runs -> [Steers -> {"idle", "refused", "cancel", "direct", "done"}]]
        /\ \A s \in Runs, j \in Steers : steer'[s][j] \in {"idle", "direct"} => steer[s][j] \in {"idle", "direct"}
    <2>1. CASE StopCancel(r)
      BY <1>0, <2>1 DEF StopCancel, TypeOK
    <2>2. ASSUME NEW k \in Steers, SteerCancel(r, k)
          PROVE  steer' = [steer EXCEPT ![r][k] = "done"]
      BY <2>2 DEF SteerCancel
    <2>. QED
      BY <1>0, <2>1, <2>2, SteerFacts
  <1>4. /\ stop' \in [Runs -> {"idle", "finish", "emit", "done"}]
        /\ \A s \in Runs : stop[s] \in {"finish", "emit"} => stop'[s] \in {"finish", "emit"}
    <2>1. CASE StopCancel(r)
      BY <1>0, <2>1 DEF StopCancel, TypeOK
    <2>2. CASE \E k \in Steers : SteerCancel(r, k)
      BY <1>0, <2>2 DEF SteerCancel, TypeOK
    <2>. QED
      BY <2>1, <2>2
  <1>5. DriversFresh'
    <2>1. \A s \in Runs, e \in Drivers : driver[s][e] = "none" => driver'[s][e] = "none"
      BY <1>2
    <2>2. spawner' = spawner
      BY <1>1 DEF spawnVars
    <2>. QED
      BY <1>0, <1>3, <2>1, <2>2 DEF AcpInv, DriversFresh
  <1>6. ASSUME NEW s \in Runs, Underway(s)
        PROVE  Underway(s)'
    <2>1. \A e \in Drivers : driver[s][e] = "emit" => driver'[s][e] = "emit"
      BY <1>2
    <2>2. Live(s) => Live(s)'
      BY <1>1 DEF Live
    <2>. QED
      BY <1>1, <1>4, <1>6, <2>1, <2>2, UnderwaySteady
  <1>7. lr' \in [Runs -> LiveRec] /\ delivery' \in [Runs -> Nat]
    BY <1>0, <1>1 DEF TypeOK
  <1>. QED
    BY <1>1, <1>2, <1>3, <1>4, <1>5, <1>6, <1>7, RunKeeps

\* A steer between prompts starts the goroutine that is its own.
LEMMA SteerDirectKeeps ==
  ASSUME AcpInv, NEW r \in Runs, NEW k \in Steers, SteerDirect(r, k)
  PROVE  AcpInv'
  <1>0. /\ TypeOK /\ lr \in [Runs -> LiveRec] /\ 0 \in 0..MaxSteers
        /\ Steers \subseteq Drivers /\ 0 \in Drivers /\ 0 \notin Steers
    BY AcpAssumption DEF AcpInv, TypeOK, LiveRec, Drivers, Steers
  <1>1. /\ UNCHANGED <<spawnVars, stop, delivery, tracked, room, queue, results>>
        /\ steer[r][k] = "direct" /\ steer' = [steer EXCEPT ![r][k] = "done"]
        /\ DriverGoes(r, k, "begin")
    BY DEF SteerDirect, parentVars
  <1>2. driver[r][k] = "none"
    BY <1>1 DEF AcpInv, DriversFresh
  <1>. DEFINE x == [lr[r] EXCEPT !.queued = 0]
  <1>3. x \in LiveRec /\ x.status = lr[r].status /\ lr' = [lr EXCEPT ![r] = x]
    BY <1>0 DEF LiveRec, SteerDirect
  <1>. HIDE DEF x
  <1>4. lr' \in [Runs -> LiveRec] /\ \A s \in Runs : lr'[s].status = lr[s].status
    BY <1>0, <1>3, LiveFacts
  <1>5. /\ steer' \in [Runs -> [Steers -> {"idle", "refused", "cancel", "direct", "done"}]]
        /\ steer'[r][k] = "done"
        /\ \A s \in Runs, j \in Steers : <<s, j>> # <<r, k>> => steer'[s][j] = steer[s][j]
    BY <1>0, <1>1, SteerFacts
  <1>6. /\ driver' \in [Runs -> [Drivers -> {"none", "begin", "send", "prompt", "cancelling", "emit", "ended"}]]
        /\ \A s \in Runs, e \in Drivers : <<s, e>> # <<r, k>> => driver'[s][e] = driver[s][e]
    BY <1>0, <1>1, DriverFacts
  <1>7. DriversFresh'
    <2>1. ASSUME NEW s \in Runs
          PROVE  driver'[s][0] = driver[s][0]
      BY <1>0, <1>6
    <2>2. ASSUME NEW s \in Runs, NEW j \in Steers, steer'[s][j] \in {"idle", "direct"}
          PROVE  driver'[s][j] = "none"
      <3>1. <<s, j>> # <<r, k>>
        BY <1>5, <2>2
      <3>2. driver[s][j] = "none"
        BY <1>5, <2>2, <3>1 DEF AcpInv, DriversFresh
      <3>. QED
        BY <1>0, <1>6, <3>1, <3>2
    <2>. QED
      BY <1>1, <2>1, <2>2 DEF AcpInv, DriversFresh, spawnVars
  <1>8. ASSUME NEW s \in Runs, Underway(s)
        PROVE  Underway(s)'
    <2>1. \A e \in Drivers : driver[s][e] = "emit" => driver'[s][e] = "emit"
      BY <1>0, <1>2, <1>6
    <2>2. Live(s) => Live(s)'
      BY <1>4 DEF Live
    <2>. QED
      BY <1>1, <1>8, <2>1, <2>2, UnderwaySteady
  <1>9. stop' \in [Runs -> {"idle", "finish", "emit", "done"}] /\ delivery' \in [Runs -> Nat]
    BY <1>0, <1>1 DEF TypeOK
  <1>. QED
    BY <1>1, <1>4, <1>5, <1>6, <1>7, <1>8, <1>9, RunKeeps

\* A stop ends the run before it emits done.
LEMMA StoppingKeeps ==
  ASSUME AcpInv, NEW r \in Runs, Stopping(r)
  PROVE  AcpInv'
  <1>0. TypeOK /\ lr \in [Runs -> LiveRec]
    BY DEF AcpInv, TypeOK, LiveRec
  <1>1. UNCHANGED <<spawnVars, driver, steer, tracked, room, queue, results>>
    BY DEF Stopping, StopFinish, StopEmit, parentVars
  <1>2. lr' \in [Runs -> LiveRec] /\ \A s \in Runs : s # r => lr'[s] = lr[s]
    <2>1. CASE StopFinish(r)
      <3>1. Finished(lr[r], "cancelled") \in LiveRec
        BY <1>0, FinishedFacts DEF EndStatus
      <3>. QED
        BY <1>0, <2>1, <3>1, LiveFacts DEF StopFinish
    <2>2. CASE StopEmit(r)
      BY <1>0, <2>2 DEF StopEmit
    <2>. QED
      BY <2>1, <2>2 DEF Stopping
  <1>3. /\ stop' \in [Runs -> {"idle", "finish", "emit", "done"}] /\ delivery' \in [Runs -> Nat]
        /\ stop'[r] = "emit" \/ delivery'[r] > 0
        /\ \A s \in Runs : s # r => stop'[s] = stop[s] /\ delivery'[s] = delivery[s]
    <2>1. CASE StopFinish(r)
      BY <1>0, <2>1 DEF StopFinish, TypeOK, parentVars
    <2>2. CASE StopEmit(r)
      BY <1>0, <2>2 DEF StopEmit, EmitDone, TypeOK
    <2>. QED
      BY <2>1, <2>2 DEF Stopping
  <1>4. DriversFresh'
    BY <1>1 DEF AcpInv, DriversFresh, spawnVars
  <1>5. ASSUME NEW s \in Runs, Underway(s)
        PROVE  Underway(s)'
    <2>1. CASE s = r
      BY <1>3, <2>1 DEF Underway
    <2>2. CASE s # r
      <3>1. Live(s) => Live(s)'
        BY <1>2, <2>2 DEF Live
      <3>. QED
        BY <1>1, <1>3, <1>5, <2>2, <3>1, UnderwaySteady
    <2>. QED
      BY <2>1, <2>2
  <1>6. /\ steer' \in [Runs -> [Steers -> {"idle", "refused", "cancel", "direct", "done"}]]
        /\ driver' \in [Runs -> [Drivers -> {"none", "begin", "send", "prompt", "cancelling", "emit", "ended"}]]
    BY <1>0, <1>1 DEF TypeOK
  <1>. QED
    BY <1>1, <1>2, <1>3, <1>4, <1>5, <1>6, RunKeeps

-----------------------------------------------------------------------------
(* A step of the parent, and the death of an agent.                        *)

\* What the parent takes is no longer tracked, and nothing else is lost.
LEMMA ParentKeeps ==
  ASSUME AcpInv, UNCHANGED <<spawnVars, runVars>>,
         delivery' \in [Runs -> Nat], results' \in [Runs -> Nat], room' \in {"turn", "idle"},
         queue' \in Seq(Runs), tracked' \subseteq tracked,
         \A r \in Runs : spawner[r].pc \notin {"idle", "refused", "returned"} => room' = "turn",
         \A r \in Runs : Underway(r) /\ (r \in tracked' \/ At(r, "track")) => Underway(r)'
  PROVE  AcpInv'
  <1>1. TypeOK'
    BY DEF AcpInv, TypeOK, spawnVars, runVars
  <1>2. NoStrayProcess' /\ SpawnsInTurn' /\ DriversFresh'
    BY DEF AcpInv, NoStrayProcess, SpawnsInTurn, DriversFresh, At, spawnVars, runVars
  <1>3. TrackedSoon' /\ NoStaleTracking'
    <2>1. tracked \subseteq Runs
      BY DEF AcpInv, TypeOK
    <2>. QED
      BY <2>1 DEF AcpInv, TrackedSoon, NoStaleTracking, At, spawnVars
  <1>. QED
    BY <1>1, <1>2, <1>3 DEF AcpInv

\* The result of a run goes to a live turn, or into an idle room.
LEMMA DeliverKeeps ==
  ASSUME AcpInv, NEW r \in Runs, DeliverQueued(r) \/ DeliverIdle(r)
  PROVE  AcpInv'
  <1>0. TypeOK
    BY DEF AcpInv
  <1>1. /\ UNCHANGED <<spawnVars, runVars>> /\ delivery' \in [Runs -> Nat]
        /\ \A s \in Runs : s # r => delivery'[s] = delivery[s]
    <2>1. /\ UNCHANGED <<spawnVars, runVars>>
          /\ delivery[r] > 0 /\ delivery' = [delivery EXCEPT ![r] = @ - 1]
      BY DEF DeliverQueued, DeliverIdle, Delivering
    <2>2. delivery[r] - 1 \in Nat /\ delivery \in [Runs -> Nat]
      BY <1>0, <2>1 DEF TypeOK
    <2>. QED
      BY <2>1, <2>2
  <1>2. ASSUME NEW s \in Runs, s # r, Underway(s), \/ queue' = queue
                                                  \/ queue' = Append(queue, r)
        PROVE  Underway(s)'
    <2>1. Queued(s) => Queued(s)'
      BY <1>0, <1>2, QueueAppends DEF Queued
    <2>. QED
      BY <1>1, <1>2, <2>1 DEF Underway, Queued, Live, runVars
  <1>3. CASE DeliverQueued(r)
    <2>1. /\ queue' = Append(queue, r) /\ UNCHANGED <<tracked, room, results>>
      BY <1>3 DEF DeliverQueued
    <2>2. queue' \in Seq(Runs) /\ Underway(r)'
      BY <1>0, <2>1, QueueAppends DEF Underway, Queued
    <2>3. \A s \in Runs : Underway(s) => Underway(s)'
      BY <1>2, <2>1, <2>2
    <2>4. room' \in {"turn", "idle"} /\ results' \in [Runs -> Nat] /\ tracked' \subseteq tracked
      BY <1>0, <2>1 DEF TypeOK
    <2>5. \A s \in Runs : spawner[s].pc \notin {"idle", "refused", "returned"} => room' = "turn"
      BY <2>1 DEF AcpInv, SpawnsInTurn
    <2>. QED
      BY <1>1, <2>2, <2>3, <2>4, <2>5, ParentKeeps
  <1>4. CASE DeliverIdle(r)
    <2>1. room = "idle" /\ queue' = queue /\ tracked' = tracked \ {r} /\ room' \in {"turn", "idle"}
      BY <1>0, <1>4 DEF DeliverIdle, TypeOK
    <2>2. \A s \in Runs : spawner[s].pc \in {"idle", "refused", "returned"}
      BY <2>1 DEF AcpInv, SpawnsInTurn
    <2>3. \A s \in Runs : Underway(s) /\ (s \in tracked' \/ At(s, "track")) => Underway(s)'
      BY <1>2, <2>1, <2>2 DEF At
    <2>4. results' \in [Runs -> Nat] /\ queue' \in Seq(Runs) /\ tracked' \subseteq tracked
      BY <1>0, <1>4, <2>1 DEF DeliverIdle, TypeOK
    <2>. QED
      BY <1>1, <2>1, <2>2, <2>3, <2>4, ParentKeeps
  <1>. QED
    BY <1>3, <1>4

LEMMA TurnKeeps ==
  ASSUME AcpInv, TurnTakes \/ TurnEnds \/ TurnStarts
  PROVE  AcpInv'
  <1>0. TypeOK
    BY DEF AcpInv
  <1>1. UNCHANGED <<spawnVars, runVars, delivery>> /\ delivery' \in [Runs -> Nat]
    BY <1>0 DEF TurnTakes, TurnEnds, TurnStarts, TypeOK
  <1>2. CASE TurnTakes
    <2>1. /\ queue # <<>> /\ queue' = Tail(queue) /\ tracked' = tracked \ {Head(queue)} /\ room' = room
          /\ results' = [results EXCEPT ![Head(queue)] = @ + 1]
          /\ \A s \in Runs : spawner[s].pc \in {"idle", "refused", "returned"}
      BY <1>2 DEF TurnTakes, Boundary
    <2>2. /\ queue' \in Seq(Runs) /\ Head(queue) \in Runs
          /\ \A s \in Runs : Queued(s) /\ s # Head(queue) => Queued(s)'
      BY <1>0, <2>1, QueueTakes
    <2>3. results' \in [Runs -> Nat] /\ room' \in {"turn", "idle"} /\ tracked' \subseteq tracked
      <3>1. PICK h \in Runs : h = Head(queue)
        BY <2>2
      <3>2. results' = [results EXCEPT ![h] = @ + 1] /\ results \in [Runs -> Nat]
        BY <1>0, <2>1, <3>1 DEF TypeOK
      <3>3. results' \in [Runs -> Nat]
        BY <3>2
      <3>. QED
        BY <1>0, <2>1, <3>3 DEF TypeOK
    <2>4. ASSUME NEW s \in Runs, Underway(s), s \in tracked' \/ At(s, "track")
          PROVE  Underway(s)'
      <3>1. s # Head(queue)
        BY <2>1, <2>4 DEF At
      <3>2. Queued(s) => Queued(s)'
        BY <2>2, <3>1
      <3>. QED
        BY <1>1, <2>4, <3>2 DEF Underway, Queued, Live, runVars
    <2>. QED
      BY <1>1, <2>1, <2>2, <2>3, <2>4, ParentKeeps
  <1>3. CASE TurnEnds \/ TurnStarts
    <2>1. UNCHANGED <<tracked, queue, results>> /\ room' \in {"turn", "idle"}
      BY <1>3 DEF TurnEnds, TurnStarts
    <2>2. \A s \in Runs : spawner[s].pc \notin {"idle", "refused", "returned"} => room' = "turn"
      BY <1>3 DEF TurnEnds, TurnStarts, Boundary
    <2>3. \A s \in Runs : Underway(s) => Underway(s)'
      BY <1>1, <2>1 DEF Underway, Live, runVars
    <2>4. results' \in [Runs -> Nat] /\ queue' \in Seq(Runs) /\ tracked' \subseteq tracked
      BY <1>0, <2>1 DEF TypeOK
    <2>. QED
      BY <1>1, <2>1, <2>2, <2>3, <2>4, ParentKeeps
  <1>. QED
    BY <1>2, <1>3

LEMMA AgentExitKeeps ==
  ASSUME AcpInv, NEW c \in Runs, AgentExit(c)
  PROVE  AcpInv'
  <1>1. exits' \in 0..MaxEvents
    BY EventFacts DEF AgentExit, AcpInv
  <1>2. TypeOK'
    BY <1>1 DEF AcpInv, TypeOK, AgentExit, runVars, parentVars
  <1>3. NoStrayProcess' /\ SpawnsInTurn' /\ DriversFresh'
    BY DEF AcpInv, NoStrayProcess, SpawnsInTurn, DriversFresh, At, AgentExit, runVars, parentVars
  <1>4. TrackedSoon' /\ NoStaleTracking'
    <2>1. \A s : Underway(s)' <=> Underway(s)
      BY DEF Underway, Live, AgentExit, runVars, parentVars
    <2>2. UNCHANGED <<spawner, tracked>>
      BY DEF AgentExit, parentVars
    <2>. QED
      BY <2>1, <2>2 DEF AcpInv, TrackedSoon, NoStaleTracking, At
  <1>. QED
    BY <1>2, <1>3, <1>4 DEF AcpInv

-----------------------------------------------------------------------------
(* The specification.                                                      *)

LEMMA AcpInvInit == Init => AcpInv
  <1>. SUFFICES ASSUME Init PROVE AcpInv
    OBVIOUS
  <1>0. 0 \in Drivers /\ Steers \subseteq Drivers /\ 0 \in 0..MaxEvents /\ 0 \in 0..MaxSteers
    BY AcpAssumption DEF Drivers, Steers
  <1>1. TypeOK
    BY <1>0 DEF Init, TypeOK
  <1>2. NoStrayProcess /\ SpawnsInTurn /\ TrackedSoon /\ NoStaleTracking
    BY DEF Init, NoStrayProcess, SpawnsInTurn, TrackedSoon, NoStaleTracking, At
  <1>3. DriversFresh
    BY <1>0 DEF Init, DriversFresh
  <1>. QED
    BY <1>1, <1>2, <1>3 DEF AcpInv

LEMMA AcpInvStep == AcpInv /\ [Next]_vars => AcpInv'
  <1>. SUFFICES ASSUME AcpInv, [Next]_vars
                PROVE  AcpInv'
    OBVIOUS
  <1>1. ASSUME NEW r \in Runs, SpawnCheck(r) \/ Spawning(r)
        PROVE  AcpInv'
    BY <1>1, SpawnBeginKeeps, SpawnConnectKeeps, SpawnSessionKeeps, SpawnLaunchKeeps, SpawnReturnKeeps
       DEF Spawning
  <1>2. ASSUME NEW r \in Runs, NEW d \in Drivers, Driving(r, d) \/ DriveAnswer(r, d)
        PROVE  AcpInv'
    BY <1>2, DriveKeeps, DriveAnswerKeeps
  <1>3. ASSUME NEW r \in Runs, NEW k \in Steers, SteerAccept(r, k) \/ Steering(r, k)
        PROVE  AcpInv'
    BY <1>3, SteerAcceptKeeps, CancelKeeps, SteerDirectKeeps DEF Steering
  <1>4. ASSUME NEW r \in Runs, StopCancel(r) \/ Stopping(r)
        PROVE  AcpInv'
    BY <1>4, CancelKeeps, StoppingKeeps
  <1>5. ASSUME NEW r \in Runs, DeliverQueued(r) \/ DeliverIdle(r) \/ AgentExit(r)
        PROVE  AcpInv'
    BY <1>5, DeliverKeeps, AgentExitKeeps
  <1>6. CASE TurnTakes \/ TurnEnds \/ TurnStarts
    BY <1>6, TurnKeeps
  <1>7. CASE UNCHANGED vars
    BY <1>7 DEF vars, AcpInv, TypeOK, NoStrayProcess, SpawnsInTurn, DriversFresh, TrackedSoon, NoStaleTracking,
               Underway, Live, At
  <1>. QED
    BY <1>1, <1>2, <1>3, <1>4, <1>5, <1>6, <1>7 DEF Next

LEMMA AcpInvariance == Spec => []AcpInv
  BY AcpInvInit, AcpInvStep, PTL DEF Spec

-----------------------------------------------------------------------------
(* The theorems.                                                           *)

\* Every variable of the runtime keeps its type.
THEOREM AcpTypeCorrect == Spec => []TypeOK
  <1>1. AcpInv => TypeOK
    BY DEF AcpInv
  <1>. QED
    BY <1>1, AcpInvariance, PTL

\* ensureConn leaves no agent process behind that is neither pooled nor about to be pooled or
\* closed, however many spawns dial at once and whenever agents die.
THEOREM NoProcessStrays == Spec => []NoStrayProcess
  <1>1. AcpInv => NoStrayProcess
    BY DEF AcpInv
  <1>. QED
    BY <1>1, AcpInvariance, PTL

\* TrackPendingRun and the deliveries agree: a run the parent waits for is live, or somebody is
\* on the way to tell the parent that it ended.
THEOREM TrackingStaysFresh == Spec => []NoStaleTracking
  <1>1. AcpInv => NoStaleTracking
    BY DEF AcpInv
  <1>. QED
    BY <1>1, AcpInvariance, PTL

=============================================================================
